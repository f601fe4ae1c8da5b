--------------------------- MODULE MCStage3Store ---------------------------
(* Stage3Store on a small instance.  A behaviour writes the tables of one  *)
(* scope: the tables of a fit, a scan and a trade share no check but that  *)
(* of the opportunity.                                                     *)
EXTENDS Stage3Store, TLC

CONSTANTS s1, s2, o1, o2, p1, p2, x1, x2, c1, c2, i1, i2, k1, k2, m1, m2, r1, r2,
          f1, a1, d1, d2, e1, e2, t1, t2, q1, n1, w1, w2, s3, e3, c3, t3

Tables == {"accounts", "snapshots", "riskStates", "inferences", "scans", "candidates",
           "research", "opportunities", "proposals", "fits", "simulations", "decisions",
           "plans", "confirmations", "outcomes", "instruments"}
Only(ids) == [name \in Tables |-> IF name \in DOMAIN ids THEN ids[name] ELSE {}]

Fit == Only([accounts |-> {a1}, snapshots |-> {s1, s2}, riskStates |-> {r1, r2},
             opportunities |-> {o1, o2}, fits |-> {f1}])
Discovery == Only([inferences |-> {n1}, scans |-> {m1, m2}, candidates |-> {k1, k2},
                   research |-> {q1}])
Trade == Only([snapshots |-> {s1, s2}, opportunities |-> {o1}, proposals |-> {p1, p2},
               simulations |-> {x1, x2}, decisions |-> {d1}, plans |-> {e1, e2},
               confirmations |-> {c1, c2}, outcomes |-> {t1, t2}, instruments |-> {i1}])
(* Two opportunities whose trades may be mixed up: with a decision each,   *)
(* or an instrument each.  Their other ids are none that are permuted.     *)
TwoOpportunities(decided, cached) ==
    Only([snapshots |-> {s3}, opportunities |-> {o1, o2}, proposals |-> {p1, p2},
          simulations |-> {x1, x2}, decisions |-> decided, plans |-> {e3},
          confirmations |-> {c3}, outcomes |-> {t3}, instruments |-> cached])
MCFills == {w1, w2}
MCScopes == {Fit, Discovery, Trade,
             TwoOpportunities({d1, d2}, {i1}), TwoOpportunities({d1}, {i1, i2})}
(* What is interchangeable in every scope.                                 *)
Symmetry == Permutations({s1, s2}) \union Permutations({p1, p2}) \union Permutations({x1, x2})
    \union Permutations({c1, c2}) \union Permutations({e1, e2}) \union Permutations({t1, t2})
    \union Permutations({w1, w2})
=============================================================================
