SPECIFICATION Spec
CONSTANTS
    s1 = s1
    s2 = s2
    o1 = o1
    o2 = o2
    p1 = p1
    p2 = p2
    x1 = x1
    x2 = x2
    c1 = c1
    c2 = c2
    i1 = i1
    i2 = i2
    k1 = k1
    k2 = k2
    m1 = m1
    m2 = m2
    r1 = r1
    r2 = r2
    f1 = f1
    a1 = a1
    d1 = d1
    d2 = d2
    e1 = e1
    e2 = e2
    t1 = t1
    t2 = t2
    q1 = q1
    n1 = n1
    None = None
    Views = {"v1", "v2"}
    Contexts = {"g1", "g2"}
    s3 = s3
    e3 = e3
    c3 = c3
    t3 = t3
    w1 = w1
    w2 = w2
    Fills <- MCFills
    Scopes <- MCScopes
SYMMETRY Symmetry
CHECK_DEADLOCK FALSE
INVARIANTS
    OneStory
    RoutesAgree
    JudgedOnOwnGround
