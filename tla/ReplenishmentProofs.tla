------------------------ MODULE ReplenishmentProofs ------------------------
(***************************************************************************)
(* Proofs about Replenishment, for any frontier, any policies, any number  *)
(* of crashes and of invocations.                                          *)
(*                                                                         *)
(* Memory is a function of the steps walked so far (Remembered), and each  *)
(* step is the plan the planner makes after the one before it (Planned):   *)
(* what the search may do follows from two neighbouring steps, and what it *)
(* has come to from its steps together (Ascending, Counted, Taken,         *)
(* FailedLast).  What a second invocation comes to needs the ledger: where *)
(* every record is lossless, its records are one chain of which each is    *)
(* the planner's answer to the one before it (Chained), a search walks it  *)
(* from its beginning (Reached), and the first result was that of its end  *)
(* (EndsWith).                                                             *)
(***************************************************************************)
EXTENDS Replenishment, TLAPS, FiniteSetTheorems, WellFoundedInduction

StepTaken == [plan : Plan, out : Outcomes]

(* What the search holds after a step p that came to out.                  *)
Found(out) == Of(out, "opportunity") # {}
Again(p, out) == Of(out, "failed") # {} /\ ~ Exhausted(p)
WaveAfter(p, out) == IF Found(out) \/ Again(p, out) THEN p.wave ELSE p.wave + 1
KeysAfter(p, out) == IF Again(p, out) THEN p.selected ELSE {}
RetryAfter(p, out) ==
    IF Again(p, out) THEN p.retry
    ELSE IF Of(out, "failed") = {} THEN 0 ELSE MaxRetries
DoneAfter(p) == p.attempted \union NewlyAttempted(p)

(* The plan made next, and the one made first.                             *)
PlanAfter(p, out) ==
    PlanWave(WaveAfter(p, out), out, DoneAfter(p), KeysAfter(p, out),
             RetryAfter(p, out))
FirstPlan == PlanWave(1, prior, {}, {}, 0)
Latest(s) == s[Len(s)]
Following(s) ==
    IF s = <<>> THEN FirstPlan ELSE PlanAfter(Latest(s).plan, Latest(s).out)

Stops(p) == p.disposition = "STOP_FAIL_CLOSED"
GoodPlan(p) ==
    /\ p \in Plan /\ ~ Stops(p) /\ p.selected # {}
    /\ p.wave \in 1 .. MaxWaves /\ p.retry \in 0 .. MaxRetries
    /\ p.disposition = "ADVANCE_FRONTIER" =>
          p.retry = 0 /\ p.selected \intersect p.attempted = {}
    /\ p.disposition = "RETRY_CURRENT" =>
          p.retry > 0 /\ p.selected \subseteq p.attempted
OutFor(p, out) == out \subseteq p.selected \X Classes
Before(p, q) == p.wave < q.wave \/ (p.wave = q.wave /\ p.retry < q.retry)

-----------------------------------------------------------------------------
(* The operators of the model.                                             *)

(* The least listing of a set of them.                                     *)
LEMMA Least ==
    ASSUME NEW T, T \subseteq Nat, T # {}
    PROVE  \E x \in T : \A y \in T : ~ (y < x)
  <1> DEFINE R == {pair \in Nat \X Nat : pair[1] < pair[2]}
  <1>1. IsWellFoundedOn(R, Nat)
    BY NatLessThanWellFounded DEF OpToRel
  <1>2. PICK x \in T : \A y \in T : ~ (<<y, x>> \in R)
    <2> HIDE DEF R
    <2> QED BY <1>1, WFMin, Zenon
  <1>3. \A y \in T : ~ (y < x)
    BY <1>2
  <1> QED BY <1>3

LEMMA PolicyTyped ==
    ASSUME ReplenishmentAssumption, policy \in Policies
    PROVE  /\ BatchSize \in Nat \ {0} /\ MaxWaves \in Nat \ {0} /\ MaxRetries \in Nat
           /\ ChildClasses \subseteq Classes \ {"fatal"}
           /\ PriorClasses \subseteq Classes \ {"fatal"}
           /\ MaxCrashes \in Nat /\ MaxRuns \in Nat
  BY DEF ReplenishmentAssumption, BatchSize, MaxWaves, MaxRetries, ChildClasses,
         PriorClasses, MaxCrashes, MaxRuns

(* The numbers of a plan that can be executed.                             *)
LEMMA GoodPlanIs ==
    ASSUME ReplenishmentAssumption, policy \in Policies, NEW p, GoodPlan(p)
    PROVE  /\ p.wave \in Nat /\ p.wave >= 1 /\ p.wave <= MaxWaves
           /\ p.retry \in Nat /\ p.retry <= MaxRetries
           /\ MaxWaves \in Nat /\ MaxRetries \in Nat
  <1>1. p.wave \in 1 .. MaxWaves /\ p.retry \in 0 .. MaxRetries
    BY DEF GoodPlan
  <1> QED BY <1>1, PolicyTyped

(* The listings of a class of the outcomes of some listings are of these.  *)
LEMMA OfSome ==
    ASSUME NEW keys, keys \subseteq Listings, NEW out, out \subseteq keys \X Classes,
           NEW class
    PROVE  Of(out, class) \subseteq keys /\ Of(out, class) \subseteq Listings
  BY DEF Of

(* The batch is of the frontier that is left, and empty only with it.      *)
LEMMA BatchOfFrontier ==
    ASSUME ReplenishmentAssumption, policy \in Policies, NEW done
    PROVE  /\ NextBatch(done) \subseteq Listings \ done
           /\ NextBatch(done) = {} => Listings \subseteq done
  <1>1. NextBatch(done) \subseteq Listings \ done
    BY DEF NextBatch
  <1>2. SUFFICES ASSUME NextBatch(done) = {}, Listings \ done # {} PROVE FALSE
    BY <1>1
  <1>3. Listings \ done \subseteq Nat
    BY DEF ReplenishmentAssumption
  <1>4. PICK l \in Listings \ done : \A k \in Listings \ done : ~ (k < l)
    BY <1>2, <1>3, Least, Zenon
  <1>5. {k \in Listings \ done : k < l} = {}
    BY <1>4
  <1>6. Cardinality({k \in Listings \ done : k < l}) = 0
    BY <1>5, FS_EmptySet
  <1>7. l \in NextBatch(done)
    BY <1>4, <1>6, PolicyTyped DEF NextBatch
  <1> QED BY <1>2, <1>7

(* The three things a plan can be, and what the planner saw to make it.    *)
LEMMA PlanIs ==
    ASSUME NEW w, NEW seen, NEW done, NEW keys, NEW r,
           NEW p, p = PlanWave(w, seen, done, keys, r)
    PROVE  /\ p.wave = w /\ p.attempted = done /\ p.seen = seen
           /\ \/ /\ p.disposition = "RETRY_CURRENT" /\ p.reason = "NONE"
                 /\ p.selected = keys /\ p.retry = r + 1
                 /\ Of(seen, "opportunity") = {} /\ Of(seen, "fatal") = {}
                 /\ Of(seen, "failed") # {} /\ RetryLeft(r, keys)
              \/ /\ p.disposition = "ADVANCE_FRONTIER" /\ p.reason = "NONE"
                 /\ p.selected = NextBatch(done) /\ NextBatch(done) # {}
                 /\ p.retry = IF Of(seen, "failed") # {} THEN 0 ELSE r
                 /\ Of(seen, "opportunity") = {} /\ Of(seen, "fatal") = {}
                 /\ Of(seen, "pending") = {} /\ WithinBudget(w)
                 /\ ~ (Of(seen, "failed") # {} /\ RetryLeft(r, keys))
              \/ /\ Stops(p) /\ p.reason = Decision(w, seen, done, keys, r)
                 /\ p.reason \in StopReasons
           /\ p = [wave |-> p.wave, disposition |-> p.disposition,
                   reason |-> p.reason, selected |-> p.selected,
                   attempted |-> p.attempted, retry |-> p.retry, seen |-> p.seen]
  <1> DEFINE d == Decision(w, seen, done, keys, r)
  <1>1. CASE d = "RETRY_CURRENT"
    BY <1>1 DEF PlanWave, Decision, CountedRetry
  <1>2. CASE d = "ADVANCE_FRONTIER"
    BY <1>2 DEF PlanWave, Decision
  <1>3. CASE d \notin {"RETRY_CURRENT", "ADVANCE_FRONTIER"}
    <2>1. d \in StopReasons
      BY <1>3 DEF Decision, StopReasons
    <2> QED BY <1>3, <2>1 DEF PlanWave, Stops
  <1> QED BY <1>1, <1>2, <1>3

(* Why it stops.                                                           *)
LEMMA StopIs ==
    ASSUME NEW w, NEW seen, NEW done, NEW keys, NEW r,
           NEW d, d = Decision(w, seen, done, keys, r)
    PROVE  /\ (d = "SELECTABLE_OPPORTUNITY_FOUND") = (Of(seen, "opportunity") # {})
           /\ d = "SAFETY_BLOCK" => Of(seen, "fatal") # {}
           /\ d = "PENDING_DIRECTIONAL_WORK" => Of(seen, "pending") # {}
           /\ d \in {"UNIVERSE_EXHAUSTED", "REPLENISHMENT_BUDGET_EXHAUSTED"} =>
                 /\ Of(seen, "opportunity") = {} /\ Of(seen, "fatal") = {}
                 /\ Of(seen, "pending") = {}
                 /\ ~ (Of(seen, "failed") # {} /\ RetryLeft(r, keys))
                 /\ NextBatch(done) = {} \/ ~ WithinBudget(w)
  BY DEF Decision

(* Its plan is of the model's plans when what it was made from is.         *)
LEMMA PlanTyped ==
    ASSUME NEW w \in Nat, NEW seen \in Outcomes, NEW done, done \subseteq Listings,
           NEW keys, keys \subseteq Listings, NEW r \in Nat,
           ReplenishmentAssumption, policy \in Policies,
           NEW p, p = PlanWave(w, seen, done, keys, r), ~ Stops(p)
    PROVE  p \in Plan
  <1>1. p.wave \in Nat /\ p.attempted \subseteq Listings /\ p.seen \in Outcomes
    BY PlanIs
  <1>2. /\ p.disposition \in {"RETRY_CURRENT", "ADVANCE_FRONTIER"} /\ p.reason = "NONE"
        /\ p.selected \subseteq Listings /\ p.retry \in Nat
    BY PlanIs, BatchOfFrontier
  <1>3. p = [wave |-> p.wave, disposition |-> p.disposition,
             reason |-> p.reason, selected |-> p.selected,
             attempted |-> p.attempted, retry |-> p.retry, seen |-> p.seen]
    BY PlanIs, Zenon
  <1> QED BY <1>1, <1>2, <1>3 DEF Plan

(* The first plan.                                                         *)
LEMMA FirstIs ==
    ASSUME ReplenishmentAssumption, policy \in Policies, prior \in Outcomes,
           ~ Stops(FirstPlan)
    PROVE  /\ GoodPlan(FirstPlan) /\ FirstPlan.disposition = "ADVANCE_FRONTIER"
           /\ FirstPlan.wave = 1 /\ FirstPlan.retry = 0 /\ FirstPlan.attempted = {}
  <1>1. /\ FirstPlan.wave = 1 /\ FirstPlan.attempted = {}
        /\ FirstPlan.disposition = "ADVANCE_FRONTIER" /\ FirstPlan.retry = 0
        /\ FirstPlan.selected # {}
    BY PlanIs DEF FirstPlan, RetryLeft
  <1>2. FirstPlan \in Plan
    BY PlanTyped DEF FirstPlan
  <1> QED BY <1>1, <1>2, PolicyTyped DEF GoodPlan

LEMMA OutTyped ==
    ASSUME NEW p \in Plan, NEW out, OutFor(p, out)
    PROVE  /\ out \in Outcomes /\ p.selected \subseteq Listings
           /\ \A class : Of(out, class) \subseteq p.selected
  <1>1. p.selected \subseteq Listings
    BY DEF Plan
  <1>2. out \in Outcomes
    BY <1>1 DEF OutFor, Outcomes
  <1>3. \A class : Of(out, class) \subseteq p.selected
    BY <1>1 DEF OutFor, Of
  <1> QED BY <1>1, <1>2, <1>3

(* What the search holds after a step.                                     *)
LEMMA AfterTyped ==
    ASSUME ReplenishmentAssumption, policy \in Policies,
           NEW p, GoodPlan(p), NEW out, OutFor(p, out)
    PROVE  /\ WaveAfter(p, out) \in 1 .. MaxWaves + 1
           /\ WaveAfter(p, out) \in {p.wave, p.wave + 1}
           /\ KeysAfter(p, out) \subseteq p.selected
           /\ RetryAfter(p, out) \in 0 .. MaxRetries
           /\ DoneAfter(p) \subseteq Listings
  <1>1. p.wave \in 1 .. MaxWaves /\ p.retry \in 0 .. MaxRetries /\ p \in Plan
    BY DEF GoodPlan
  <1>2. DoneAfter(p) \subseteq Listings
    BY <1>1 DEF DoneAfter, NewlyAttempted, Plan
  <1>3. WaveAfter(p, out) \in 1 .. MaxWaves + 1 /\ WaveAfter(p, out) \in {p.wave, p.wave + 1}
    BY <1>1, PolicyTyped DEF WaveAfter
  <1>4. RetryAfter(p, out) \in 0 .. MaxRetries
    BY <1>1, PolicyTyped DEF RetryAfter
  <1> QED BY <1>2, <1>3, <1>4 DEF KeysAfter

(* The plan made after a step: a retry of it, or a new wave.               *)
LEMMA NextIs ==
    ASSUME ReplenishmentAssumption, policy \in Policies,
           NEW p, GoodPlan(p), NEW out, OutFor(p, out),
           NEW q, q = PlanAfter(p, out), ~ Stops(q)
    PROVE  /\ GoodPlan(q) /\ Before(p, q) /\ q.attempted = DoneAfter(p)
           /\ ~ Found(out) /\ Of(out, "fatal") = {}
           /\ Again(p, out) =>
                 /\ q.disposition = "RETRY_CURRENT" /\ q.wave = p.wave
                 /\ q.selected = p.selected /\ q.retry = p.retry + 1
           /\ ~ Again(p, out) =>
                 /\ q.disposition = "ADVANCE_FRONTIER" /\ q.wave = p.wave + 1
                 /\ q.retry = 0 /\ Of(out, "pending") = {}
                 /\ q.selected \intersect DoneAfter(p) = {}
  <1>1. p.wave \in 1 .. MaxWaves /\ p.retry \in 0 .. MaxRetries /\ p \in Plan
        /\ p.selected # {}
    BY DEF GoodPlan
  <1>2. ~ Found(out) /\ Of(out, "fatal") = {} /\ q.attempted = DoneAfter(p)
    BY PlanIs DEF PlanAfter, Found
  <1>3. q \in Plan
    <2>1. out \in Outcomes /\ p.selected \subseteq Listings
      BY <1>1, OutTyped
    <2>2. /\ WaveAfter(p, out) \in Nat /\ DoneAfter(p) \subseteq Listings
          /\ KeysAfter(p, out) \subseteq Listings /\ RetryAfter(p, out) \in Nat
      BY <2>1, AfterTyped, PolicyTyped
    <2> QED BY <2>1, <2>2, PlanTyped DEF PlanAfter
  <1>4. CASE Again(p, out)
    <2>1. /\ WaveAfter(p, out) = p.wave /\ KeysAfter(p, out) = p.selected
          /\ RetryAfter(p, out) = p.retry /\ Of(out, "failed") # {}
      BY <1>2, <1>4 DEF WaveAfter, KeysAfter, RetryAfter, Again
    <2>2. p.retry < MaxRetries
      BY <1>1, <1>4, PolicyTyped DEF Again, Exhausted
    <2>3. RetryLeft(p.retry, p.selected)
      BY <1>1, <2>2 DEF RetryLeft
    <2>4. /\ q.disposition = "RETRY_CURRENT" /\ q.wave = p.wave
          /\ q.selected = p.selected /\ q.retry = p.retry + 1
      BY <2>1, <2>3, PlanIs DEF PlanAfter
    <2>5. p.selected \subseteq DoneAfter(p)
      BY <1>1 DEF DoneAfter, NewlyAttempted, GoodPlan, Plan, Stops
    <2> QED BY <1>1, <1>2, <1>3, <1>4, <2>2, <2>4, <2>5, PolicyTyped DEF GoodPlan, Before, Stops
  <1>5. CASE ~ Again(p, out)
    <2>1. /\ WaveAfter(p, out) = p.wave + 1 /\ KeysAfter(p, out) = {}
          /\ Of(out, "failed") = {} => RetryAfter(p, out) = 0
      BY <1>2, <1>5 DEF WaveAfter, KeysAfter, RetryAfter
    <2>2. ~ RetryLeft(RetryAfter(p, out), {})
      BY DEF RetryLeft
    <2>3. /\ q.disposition = "ADVANCE_FRONTIER" /\ q.wave = p.wave + 1 /\ q.retry = 0
          /\ q.selected = NextBatch(DoneAfter(p)) /\ q.selected # {}
          /\ Of(out, "pending") = {} /\ WithinBudget(p.wave + 1)
      BY <2>1, <2>2, PlanIs DEF PlanAfter
    <2>4. q.selected \intersect DoneAfter(p) = {}
      BY <2>3, BatchOfFrontier
    <2>5. p.wave + 1 \in 1 .. MaxWaves
      BY <1>1, <2>3, PolicyTyped DEF WithinBudget
    <2> QED BY <1>1, <1>2, <1>3, <1>5, <2>3, <2>4, <2>5, PolicyTyped DEF GoodPlan, Before, Stops
  <1> QED BY <1>4, <1>5

(* Why the search stops after a step.                                      *)
LEMMA EndIs ==
    ASSUME ReplenishmentAssumption, policy \in Policies,
           NEW p, GoodPlan(p), NEW out, OutFor(p, out),
           NEW q, q = PlanAfter(p, out), Stops(q)
    PROVE  /\ q.reason \in StopReasons
           /\ (q.reason = "SELECTABLE_OPPORTUNITY_FOUND") = Found(out)
           /\ q.reason = "SAFETY_BLOCK" => Of(out, "fatal") # {}
           /\ q.reason = "PENDING_DIRECTIONAL_WORK" => Of(out, "pending") # {}
           /\ q.reason \in {"UNIVERSE_EXHAUSTED", "REPLENISHMENT_BUDGET_EXHAUSTED"} =>
                 /\ ~ Found(out) /\ Of(out, "fatal") = {} /\ Of(out, "pending") = {}
                 /\ ~ Again(p, out)
                 /\ DoneAfter(p) = Listings \/ p.wave = MaxWaves
  <1>1. p.wave \in 1 .. MaxWaves /\ p.retry \in 0 .. MaxRetries /\ p \in Plan
        /\ p.selected # {}
    BY DEF GoodPlan
  <1>2. /\ q.reason \in StopReasons
        /\ q.reason = Decision(WaveAfter(p, out), out, DoneAfter(p),
                               KeysAfter(p, out), RetryAfter(p, out))
    BY PlanIs DEF PlanAfter, Stops
  <1>3. /\ (q.reason = "SELECTABLE_OPPORTUNITY_FOUND") = Found(out)
        /\ q.reason = "SAFETY_BLOCK" => Of(out, "fatal") # {}
        /\ q.reason = "PENDING_DIRECTIONAL_WORK" => Of(out, "pending") # {}
    BY <1>2, StopIs DEF Found
  <1>4. ASSUME q.reason \in {"UNIVERSE_EXHAUSTED", "REPLENISHMENT_BUDGET_EXHAUSTED"}
        PROVE  /\ ~ Found(out) /\ Of(out, "fatal") = {} /\ Of(out, "pending") = {}
               /\ ~ Again(p, out)
               /\ DoneAfter(p) = Listings \/ p.wave = MaxWaves
    <2>1. /\ ~ Found(out) /\ Of(out, "fatal") = {} /\ Of(out, "pending") = {}
          /\ ~ (Of(out, "failed") # {} /\ RetryLeft(RetryAfter(p, out), KeysAfter(p, out)))
          /\ NextBatch(DoneAfter(p)) = {} \/ ~ WithinBudget(WaveAfter(p, out))
      BY <1>2, <1>4, StopIs DEF Found
    <2>2. ~ Again(p, out)
      <3>1. ASSUME Again(p, out) PROVE FALSE
        <4>1. KeysAfter(p, out) = p.selected /\ RetryAfter(p, out) = p.retry
          BY <3>1 DEF KeysAfter, RetryAfter
        <4> QED BY <2>1, <3>1, <4>1, <1>1, PolicyTyped DEF Again, RetryLeft, Exhausted
      <3> QED BY <3>1
    <2>3. WaveAfter(p, out) = p.wave + 1
      BY <2>1, <2>2 DEF WaveAfter
    <2>4. CASE NextBatch(DoneAfter(p)) = {}
      <3>1. Listings \subseteq DoneAfter(p)
        BY <2>4, BatchOfFrontier
      <3>2. DoneAfter(p) \subseteq Listings
        BY AfterTyped
      <3> QED BY <2>1, <2>2, <3>1, <3>2
    <2>5. CASE ~ WithinBudget(WaveAfter(p, out))
      BY <1>1, <2>1, <2>2, <2>3, <2>5, PolicyTyped DEF WithinBudget
    <2> QED BY <2>1, <2>4, <2>5
  <1> QED BY <1>2, <1>3, <1>4

-----------------------------------------------------------------------------
(* The executor, and what a record tells of what it came to.               *)

Shape(r) ==
    /\ r \in Record /\ GoodPlan(r.plan)
    /\ r.child \subseteq r.plan.selected \X Classes
    /\ r.opportunities = Of(r.child, "opportunity")
Faithful(r, out) ==
    /\ OutFor(r.plan, out)
    /\ Of(out, "opportunity") = r.opportunities
    /\ Lossless(r) => out = Resumed(r)

(* Outcomes all of one class.                                              *)
LEMMA AllOfIs ==
    ASSUME NEW keys, keys \subseteq Listings, NEW class
    PROVE  Of(AllOf(keys, class), class) = keys
           /\ \A other : other # class => Of(AllOf(keys, class), other) = {}
  BY DEF Of, AllOf

(* A wave that came to outcomes of one class for all its listings.         *)
LEMMA UniformExecution ==
    ASSUME NEW p, GoodPlan(p), NEW reason \in RecordReasons, NEW class \in Classes,
           class # "opportunity",
           <<reason, class>> \in {<<"CACHE_ONLY_MISS", "pending">>,
                                  <<"PROCESSING_FAILED", "failed">>,
                                  <<"ORCHESTRATION_INVARIANT_VIOLATION", "fatal">>},
           NEW x, x = Executed(p, reason, {}, AllOf(p.selected, class))
    PROVE  x.record.plan = p /\ Shape(x.record) /\ Faithful(x.record, x.out)
  <1>1. p \in Plan /\ p.selected \subseteq Listings
    BY DEF GoodPlan, Plan
  <1>2. /\ x.out = AllOf(p.selected, class) /\ x.record.plan = p
        /\ x.record.reason = reason /\ x.record.child = {}
        /\ x.record.opportunities = Of(x.out, "opportunity")
        /\ x.record = [plan |-> p, reason |-> reason, child |-> {},
                       opportunities |-> Of(x.out, "opportunity")]
    BY DEF Executed
  <1>3. Of(x.out, "opportunity") = {} /\ Of({}, "opportunity") = {}
    <2>1. Of(x.out, "opportunity") = {}
      BY <1>1, <1>2, AllOfIs
    <2> QED BY <2>1 DEF Of
  <1>4. x.record \in Record
    BY <1>1, <1>2, <1>3 DEF Record, Outcomes
  <1>5. Shape(x.record)
    BY <1>2, <1>3, <1>4 DEF Shape
  <1>6. Resumed(x.record) = x.out
    BY <1>2 DEF Resumed, RebuiltFromReason
  <1>7. OutFor(p, x.out)
    BY <1>2 DEF OutFor, AllOf
  <1> QED BY <1>2, <1>5, <1>6, <1>7 DEF Faithful

(* A wave some of whose listings a child run researched.                   *)
LEMMA RoutedExecution ==
    ASSUME ReplenishmentAssumption, policy \in Policies,
           NEW p, GoodPlan(p), NEW x \in RoutedExecutions(p)
    PROVE  x.record.plan = p /\ Shape(x.record) /\ Faithful(x.record, x.out)
  <1>1. PICK review \in ReviewSets(p) :
            x \in {Executed(p, IF review = p.selected THEN "EVIDENCE_UNAVAILABLE"
                               ELSE "NONE",
                            child, child \union AllOf(review, "excluded")) :
                       child \in ChildOutcomes(p.selected \ review)}
    BY Zenon DEF RoutedExecutions
  <1>2. PICK child \in ChildOutcomes(p.selected \ review) :
            x = Executed(p, IF review = p.selected THEN "EVIDENCE_UNAVAILABLE" ELSE "NONE",
                         child, child \union AllOf(review, "excluded"))
    BY <1>1
  <1>3. p \in Plan /\ p.selected \subseteq Listings /\ review \subseteq p.selected
    BY DEF GoodPlan, Plan, ReviewSets
  <1>4. /\ x.out = child \union AllOf(review, "excluded") /\ x.record.plan = p
        /\ x.record.reason = IF review = p.selected THEN "EVIDENCE_UNAVAILABLE" ELSE "NONE"
        /\ x.record.child = child
        /\ x.record.opportunities = Of(x.out, "opportunity")
        /\ x.record = [plan |-> p, reason |-> x.record.reason, child |-> child,
                       opportunities |-> Of(x.out, "opportunity")]
    BY <1>2 DEF Executed
  <1>5. /\ child \subseteq (p.selected \ review) \X Classes
        /\ \A l \in p.selected \ review : Cardinality({o \in child : o[1] = l}) \in {1, 2}
    BY PolicyTyped DEF ChildOutcomes
  <1>6. /\ child \subseteq p.selected \X Classes /\ OutFor(p, x.out)
        /\ child \in Outcomes
    <2>1. child \subseteq p.selected \X Classes
      BY <1>5
    <2>2. OutFor(p, x.out)
      BY <1>3, <1>4, <2>1 DEF OutFor, AllOf, Classes
    <2> QED BY <1>3, <2>1, <2>2 DEF Outcomes
  <1>7. Of(x.out, "opportunity") = Of(child, "opportunity")
    BY <1>4 DEF Of, AllOf
  <1>8. x.record \in Record
    <2>1. x.record.reason \in RecordReasons
      BY <1>4 DEF RecordReasons
    <2>2. Of(x.out, "opportunity") \subseteq Listings
      BY <1>3, <1>6, OutTyped
    <2> QED BY <1>3, <1>4, <1>6, <2>1, <2>2 DEF Record
  <1>9. Shape(x.record)
    BY <1>4, <1>6, <1>7, <1>8 DEF Shape
  <1>10. ASSUME Lossless(x.record) PROVE x.out = Resumed(x.record)
    <2>1. CASE child # {}
      <3>1. p.selected = {o[1] : o \in child}
        BY <1>4, <1>10, <2>1 DEF Lossless
      <3>2. review = {}
        BY <1>3, <1>5, <3>1
      <3> QED BY <1>4, <2>1, <3>2 DEF Resumed, AllOf
    <2>2. CASE child = {}
      <3>1. review # p.selected
        BY <1>4, <1>10, <2>2 DEF Lossless
      <3>2. PICK l \in p.selected \ review : TRUE
        BY <1>3, <3>1
      <3>3. {o \in child : o[1] = l} = {}
        BY <2>2
      <3> QED BY <1>5, <3>2, <3>3, FS_EmptySet
    <2> QED BY <2>1, <2>2
  <1> QED BY <1>4, <1>6, <1>9, <1>10 DEF Faithful

(* Whatever a wave comes to, it is of that wave; its record names the      *)
(* opportunities, and tells the rest as far as it is lossless.             *)
LEMMA ExecutionIs ==
    ASSUME ReplenishmentAssumption, policy \in Policies,
           NEW p, GoodPlan(p), NEW x \in Executions(p)
    PROVE  x.record.plan = p /\ Shape(x.record) /\ Faithful(x.record, x.out)
  <1> DEFINE Uniform(reason, class) == x = Executed(p, reason, {}, AllOf(p.selected, class))
  <1>1. \/ x \in RoutedExecutions(p)
        \/ Uniform("CACHE_ONLY_MISS", "pending")
        \/ Uniform("PROCESSING_FAILED", "failed")
        \/ Uniform("ORCHESTRATION_INVARIANT_VIOLATION", "fatal")
    BY DEF Executions
  <1>2. ASSUME NEW reason, NEW class, Uniform(reason, class),
               <<reason, class>> \in {<<"CACHE_ONLY_MISS", "pending">>,
                                      <<"PROCESSING_FAILED", "failed">>,
                                      <<"ORCHESTRATION_INVARIANT_VIOLATION", "fatal">>}
        PROVE  x.record.plan = p /\ Shape(x.record) /\ Faithful(x.record, x.out)
    BY <1>2, UniformExecution DEF RecordReasons, Classes
  <1> QED BY <1>1, <1>2, RoutedExecution

(* What resume rebuilds of a record.                                       *)
LEMMA ResumedIs ==
    ASSUME NEW r, Shape(r)
    PROVE  Faithful(r, Resumed(r))
  <1>1. r.plan \in Plan /\ r.plan.selected \subseteq Listings
    BY DEF Shape, GoodPlan, Plan
  <1>2. CASE r.child # {}
    BY <1>2 DEF Shape, Faithful, Resumed, OutFor
  <1>3. CASE r.child = {}
    <2>1. PICK class \in {"pending", "fatal", "failed"} :
              Resumed(r) = AllOf(r.plan.selected, class)
      BY <1>3 DEF Resumed, RebuiltFromReason
    <2>2. r.opportunities = {}
      BY <1>3 DEF Shape, Of
    <2>3. Of(Resumed(r), "opportunity") = {}
      BY <1>1, <2>1, AllOfIs
    <2>4. OutFor(r.plan, Resumed(r))
      BY <2>1 DEF OutFor, AllOf, Classes
    <2> QED BY <2>2, <2>3, <2>4 DEF Faithful
  <1> QED BY <1>2, <1>3

-----------------------------------------------------------------------------
(* A walk: the steps of one invocation.                                    *)

Planned(s) ==
    /\ s \in Seq(StepTaken)
    /\ \A i \in 1 .. Len(s) : GoodPlan(s[i].plan) /\ OutFor(s[i].plan, s[i].out)
    /\ s # <<>> => s[1].plan = FirstPlan
    /\ \A i \in 1 .. Len(s) :
          i < Len(s) => s[i + 1].plan = PlanAfter(s[i].plan, s[i].out)
Ascending(s) ==
    \A i, j \in 1 .. Len(s) : i < j => Before(s[i].plan, s[j].plan)

AdvancesOf(s) == {i \in 1 .. Len(s) : s[i].plan.disposition = "ADVANCE_FRONTIER"}
Counted(s) ==
    /\ IsFiniteSet(AdvancesOf(s))
    /\ Cardinality(AdvancesOf(s)) = IF s = <<>> THEN 0 ELSE Latest(s).plan.wave
    /\ s # <<>> => Len(s) <= (Latest(s).plan.wave - 1) * (1 + MaxRetries)
                                + Latest(s).plan.retry + 1

TakenBy(s) == UNION {s[i].plan.selected : i \in 1 .. Len(s)}
Taken(s) ==
    /\ \A i, j \in AdvancesOf(s) :
          i # j => s[i].plan.selected \intersect s[j].plan.selected = {}
    /\ s # <<>> => DoneAfter(Latest(s).plan) = TakenBy(s)

Walk(s) == Planned(s) /\ Ascending(s) /\ Counted(s) /\ Taken(s)

LEMMA AppendIs ==
    ASSUME NEW S, NEW s \in Seq(S), NEW x \in S
    PROVE  /\ Append(s, x) \in Seq(S) /\ Append(s, x) # <<>>
           /\ Len(Append(s, x)) = Len(s) + 1 /\ Len(s) \in Nat
           /\ \A i \in 1 .. Len(s) : Append(s, x)[i] = s[i]
           /\ Append(s, x)[Len(s) + 1] = x /\ Latest(Append(s, x)) = x
           /\ s = <<>> <=> Len(s) = 0
  BY DEF Latest

LEMMA BeforeTransitive ==
    ASSUME NEW p, NEW q, NEW r, p.wave \in Nat, q.wave \in Nat, r.wave \in Nat,
           p.retry \in Nat, q.retry \in Nat, r.retry \in Nat,
           Before(p, q), Before(q, r)
    PROVE  Before(p, r)
  BY DEF Before

(* What the step after a walk is.                                          *)
LEMMA StepIs ==
    ASSUME ReplenishmentAssumption, policy \in Policies, prior \in Outcomes,
           NEW s, Planned(s), NEW p, p = Following(s), ~ Stops(p)
    PROVE  /\ GoodPlan(p) /\ p.wave \in Nat /\ p.retry \in Nat
           /\ s = <<>> => /\ p = FirstPlan /\ p.disposition = "ADVANCE_FRONTIER"
                          /\ p.wave = 1 /\ p.retry = 0 /\ p.attempted = {}
           /\ s # <<>> =>
                 /\ Len(s) \in 1 .. Len(s) /\ Latest(s) = s[Len(s)]
                 /\ GoodPlan(Latest(s).plan) /\ OutFor(Latest(s).plan, Latest(s).out)
                 /\ Latest(s).plan.wave \in Nat /\ Latest(s).plan.retry \in 0 .. MaxRetries
                 /\ p = PlanAfter(Latest(s).plan, Latest(s).out)
                 /\ Before(Latest(s).plan, p) /\ p.attempted = DoneAfter(Latest(s).plan)
                 /\ \/ /\ p.disposition = "RETRY_CURRENT" /\ p.wave = Latest(s).plan.wave
                       /\ p.selected = Latest(s).plan.selected
                       /\ p.retry = Latest(s).plan.retry + 1
                    \/ /\ p.disposition = "ADVANCE_FRONTIER"
                       /\ p.wave = Latest(s).plan.wave + 1 /\ p.retry = 0
                       /\ p.selected \intersect DoneAfter(Latest(s).plan) = {}
  <1>1. CASE s = <<>>
    <2>1. p = FirstPlan
      BY <1>1 DEF Following
    <2>2. /\ GoodPlan(p) /\ p.disposition = "ADVANCE_FRONTIER"
          /\ p.wave = 1 /\ p.retry = 0 /\ p.attempted = {}
      BY <2>1, FirstIs
    <2> QED BY <1>1, <2>1, <2>2
  <1>2. CASE s # <<>>
    <2>1. Len(s) \in 1 .. Len(s) /\ Latest(s) = s[Len(s)]
      BY <1>2 DEF Planned, Latest
    <2>2. GoodPlan(Latest(s).plan) /\ OutFor(Latest(s).plan, Latest(s).out)
      BY <2>1 DEF Planned
    <2>3. p = PlanAfter(Latest(s).plan, Latest(s).out)
      BY <1>2 DEF Following
    <2>4. /\ Latest(s).plan.wave \in Nat /\ Latest(s).plan.retry \in 0 .. MaxRetries
      BY <2>2, PolicyTyped DEF GoodPlan
    <2> DEFINE last == Latest(s)
    <2>5. /\ GoodPlan(p) /\ Before(last.plan, p) /\ p.attempted = DoneAfter(last.plan)
          /\ \/ /\ p.disposition = "RETRY_CURRENT" /\ p.wave = last.plan.wave
                /\ p.selected = last.plan.selected /\ p.retry = last.plan.retry + 1
             \/ /\ p.disposition = "ADVANCE_FRONTIER"
                /\ p.wave = last.plan.wave + 1 /\ p.retry = 0
                /\ p.selected \intersect DoneAfter(last.plan) = {}
      <3> HIDE DEF last
      <3>1. /\ GoodPlan(last.plan) /\ OutFor(last.plan, last.out)
            /\ p = PlanAfter(last.plan, last.out)
        BY <2>2, <2>3 DEF last
      <3> QED BY <3>1, NextIs
    <2>6. p.wave \in Nat /\ p.retry \in Nat
      BY <2>5, PolicyTyped DEF GoodPlan
    <2> QED BY <1>2, <2>1, <2>2, <2>3, <2>4, <2>5, <2>6
  <1> QED BY <1>1, <1>2

LEMMA PlannedGrows ==
    ASSUME ReplenishmentAssumption, policy \in Policies, prior \in Outcomes,
           NEW s, Planned(s), NEW x \in StepTaken, x.plan = Following(s), ~ Stops(x.plan),
           OutFor(x.plan, x.out)
    PROVE  Planned(Append(s, x))
  <1> DEFINE t == Append(s, x)
             n == Len(s)
  <1>1. /\ t \in Seq(StepTaken) /\ t # <<>> /\ Len(t) = n + 1 /\ n \in Nat
        /\ \A i \in 1 .. n : t[i] = s[i]
        /\ t[n + 1] = x /\ (s = <<>> <=> n = 0)
    BY AppendIs DEF Planned
  <1>2. /\ GoodPlan(x.plan)
        /\ s = <<>> => x.plan = FirstPlan
        /\ s # <<>> => x.plan = PlanAfter(s[n].plan, s[n].out)
    BY StepIs DEF Following, Latest
  <1>3. /\ \A i \in 1 .. n : GoodPlan(s[i].plan) /\ OutFor(s[i].plan, s[i].out)
        /\ s # <<>> => s[1].plan = FirstPlan
        /\ \A i \in 1 .. n : i < n => s[i + 1].plan = PlanAfter(s[i].plan, s[i].out)
    BY DEF Planned
  <1> HIDE DEF t, n
  <1>4. ASSUME NEW i \in 1 .. Len(t)
        PROVE  GoodPlan(t[i].plan) /\ OutFor(t[i].plan, t[i].out)
    <2>1. CASE i = n + 1
      BY <1>1, <1>2, <2>1
    <2>2. CASE i # n + 1
      <3>1. i \in 1 .. n
        BY <1>1, <2>2
      <3> QED BY <1>1, <1>3, <3>1
    <2> QED BY <2>1, <2>2
  <1>5. t[1].plan = FirstPlan
    BY <1>1, <1>2, <1>3
  <1>6. ASSUME NEW i \in 1 .. Len(t), i < Len(t)
        PROVE  t[i + 1].plan = PlanAfter(t[i].plan, t[i].out)
    <2>1. CASE i = n
      BY <1>1, <1>2, <1>6, <2>1
    <2>2. CASE i # n
      <3>1. i \in 1 .. n /\ i + 1 \in 1 .. n /\ i < n
        BY <1>1, <1>6, <2>2
      <3> QED BY <1>1, <1>3, <3>1
    <2> QED BY <2>1, <2>2
  <1>7. Planned(t)
    BY <1>1, <1>4, <1>5, <1>6 DEF Planned
  <1> QED BY <1>7 DEF t

LEMMA AscendingGrows ==
    ASSUME ReplenishmentAssumption, policy \in Policies, prior \in Outcomes,
           NEW s, Planned(s), Ascending(s), NEW x \in StepTaken, x.plan = Following(s),
           ~ Stops(x.plan)
    PROVE  Ascending(Append(s, x))
  <1> DEFINE t == Append(s, x)
             n == Len(s)
  <1>1. /\ Len(t) = n + 1 /\ n \in Nat /\ \A i \in 1 .. n : t[i] = s[i]
        /\ t[n + 1] = x /\ (s = <<>> <=> n = 0)
    BY AppendIs DEF Planned
  <1>2. /\ x.plan.wave \in Nat /\ x.plan.retry \in Nat
        /\ s # <<>> => Before(s[n].plan, x.plan)
    BY StepIs DEF Latest
  <1>3. \A i \in 1 .. n : s[i].plan.wave \in Nat /\ s[i].plan.retry \in Nat
    <2> TAKE i \in 1 .. n
    <2>1. GoodPlan(s[i].plan)
      BY DEF Planned
    <2> QED BY <2>1, GoodPlanIs
  <1>4. \A i, j \in 1 .. n : i < j => Before(s[i].plan, s[j].plan)
    BY DEF Ascending
  <1> HIDE DEF t, n
  <1>5. ASSUME NEW i \in 1 .. Len(t), NEW j \in 1 .. Len(t), i < j
        PROVE  Before(t[i].plan, t[j].plan)
    <2>1. i \in 1 .. n
      BY <1>1, <1>5
    <2>2. CASE j = n + 1
      <3>1. n \in 1 .. n /\ n # 0
        BY <1>1, <2>1
      <3>2. Before(s[n].plan, x.plan)
        BY <1>1, <1>2, <3>1
      <3>3. i = n \/ Before(s[i].plan, s[n].plan)
        BY <1>1, <1>4, <2>1, <3>1
      <3>4. Before(s[i].plan, x.plan)
        BY <1>2, <1>3, <2>1, <3>1, <3>2, <3>3, BeforeTransitive
      <3> QED BY <1>1, <2>1, <2>2, <3>4
    <2>3. CASE j # n + 1
      <3>1. j \in 1 .. n
        BY <1>1, <2>3
      <3> QED BY <1>1, <1>4, <1>5, <2>1, <3>1
    <2> QED BY <2>2, <2>3
  <1>6. Ascending(t)
    BY <1>5 DEF Ascending
  <1> QED BY <1>6 DEF t

(* A wave more allows 1 + MaxRetries steps more.                           *)
LEMMA WaveOfSteps ==
    ASSUME NEW m \in Nat, NEW w \in Nat, w >= 1, NEW r \in 0 .. m, NEW n \in Nat,
           n <= (w - 1) * (1 + m) + r + 1
    PROVE  n <= w * (1 + m) /\ n + 1 <= ((w + 1) - 1) * (1 + m) + 0 + 1
  <1>1. w * (1 + m) = (w - 1) * (1 + m) + (1 + m)
    OBVIOUS
  <1>2. (w - 1) * (1 + m) \in Int /\ w * (1 + m) \in Int
    OBVIOUS
  <1>3. (w + 1) - 1 = w
    OBVIOUS
  <1> QED BY <1>1, <1>2, <1>3

LEMMA CountedGrows ==
    ASSUME ReplenishmentAssumption, policy \in Policies, prior \in Outcomes,
           NEW s, Planned(s), Counted(s), NEW x \in StepTaken, x.plan = Following(s),
           ~ Stops(x.plan)
    PROVE  Counted(Append(s, x))
  <1> DEFINE t == Append(s, x)
             n == Len(s)
             p == x.plan
             q == Latest(s).plan
  <1>1. /\ Len(t) = n + 1 /\ n \in Nat /\ \A i \in 1 .. n : t[i] = s[i]
        /\ t[n + 1] = x /\ Latest(t) = x /\ t # <<>> /\ (s = <<>> <=> n = 0)
    BY AppendIs DEF Planned
  <1>2. /\ p.wave \in Nat /\ p.retry \in Nat
        /\ s = <<>> => p.disposition = "ADVANCE_FRONTIER" /\ p.wave = 1 /\ p.retry = 0
        /\ s # <<>> =>
              /\ q.wave \in Nat /\ q.retry \in 0 .. MaxRetries
              /\ \/ /\ p.disposition = "RETRY_CURRENT" /\ p.wave = q.wave
                    /\ p.retry = q.retry + 1
                 \/ /\ p.disposition = "ADVANCE_FRONTIER"
                    /\ p.wave = q.wave + 1 /\ p.retry = 0
    BY StepIs
  <1>3. /\ IsFiniteSet(AdvancesOf(s))
        /\ Cardinality(AdvancesOf(s)) = IF s = <<>> THEN 0 ELSE q.wave
        /\ s # <<>> => n <= (q.wave - 1) * (1 + MaxRetries) + q.retry + 1
    BY DEF Counted
  <1>4. s # <<>> => q.wave >= 1
    <2>1. s # <<>> => GoodPlan(q)
      BY StepIs
    <2> QED BY <2>1, GoodPlanIs
  <1>5. AdvancesOf(t) = AdvancesOf(s) \union
                           (IF p.disposition = "ADVANCE_FRONTIER" THEN {n + 1} ELSE {})
        /\ n + 1 \notin AdvancesOf(s)
    <2> HIDE DEF t, n
    <2>1. n = Len(s)
      BY DEF n
    <2> QED BY <1>1, <2>1 DEF AdvancesOf
  <1>6. /\ IsFiniteSet(AdvancesOf(t))
        /\ Cardinality(AdvancesOf(t)) =
              IF p.disposition = "ADVANCE_FRONTIER" THEN Cardinality(AdvancesOf(s)) + 1
              ELSE Cardinality(AdvancesOf(s))
    <2> HIDE DEF t, n, p
    <2>1. /\ IsFiniteSet(AdvancesOf(s) \union {n + 1})
          /\ Cardinality(AdvancesOf(s) \union {n + 1}) = Cardinality(AdvancesOf(s)) + 1
      BY <1>3, <1>5, FS_AddElement
    <2>2. CASE p.disposition = "ADVANCE_FRONTIER"
      <3>1. AdvancesOf(t) = AdvancesOf(s) \union {n + 1}
        BY <1>5, <2>2
      <3> QED BY <2>1, <2>2, <3>1
    <2>3. CASE p.disposition # "ADVANCE_FRONTIER"
      <3>1. AdvancesOf(t) = AdvancesOf(s)
        BY <1>5, <2>3
      <3> QED BY <1>3, <2>3, <3>1
    <2> QED BY <2>2, <2>3
  <1>7. Cardinality(AdvancesOf(t)) = p.wave
    <2> HIDE DEF t, n, p, q
    <2> QED BY <1>2, <1>3, <1>6
  <1>8. n + 1 <= (p.wave - 1) * (1 + MaxRetries) + p.retry + 1
    <2>1. CASE s = <<>>
      <3>1. n = 0 /\ p.wave = 1 /\ p.retry = 0
        BY <1>1, <1>2, <2>1
      <3>2. (1 - 1) * (1 + MaxRetries) = 0
        BY PolicyTyped
      <3> HIDE DEF n, p
      <3> QED BY <3>1, <3>2
    <2>2. CASE s # <<>> /\ p.disposition = "ADVANCE_FRONTIER"
      <3>1. p.wave = q.wave + 1 /\ p.retry = 0 /\ q.retry \in 0 .. MaxRetries
            /\ q.wave \in Nat
        BY <1>2, <2>2
      <3>2. MaxRetries \in Nat /\ n \in Nat
        BY <1>1, PolicyTyped
      <3> HIDE DEF n, p, q
      <3> QED BY <1>3, <1>4, <2>2, <3>1, <3>2, WaveOfSteps
    <2>3. CASE s # <<>> /\ p.disposition = "RETRY_CURRENT"
      <3>1. p.wave = q.wave /\ p.retry = q.retry + 1 /\ q.retry \in Nat /\ q.wave \in Nat
        BY <1>2, <2>3, PolicyTyped
      <3>2. n <= (q.wave - 1) * (1 + MaxRetries) + q.retry + 1
        BY <1>3, <2>3
      <3> DEFINE sum == (q.wave - 1) * (1 + MaxRetries)
      <3>3. sum \in Int
        BY <3>1, PolicyTyped
      <3>4. n <= sum + q.retry + 1 /\ n \in Nat
        BY <1>1, <3>2
      <3>5. n + 1 <= sum + (q.retry + 1) + 1
        <4> HIDE DEF sum, n, q
        <4> QED BY <3>1, <3>3, <3>4
      <3> QED BY <3>1, <3>5
    <2> QED BY <1>2, <2>1, <2>2, <2>3
  <1>9. Counted(t)
    BY <1>1, <1>6, <1>7, <1>8 DEF Counted
  <1> QED BY <1>9 DEF t

LEMMA TakenGrows ==
    ASSUME ReplenishmentAssumption, policy \in Policies, prior \in Outcomes,
           NEW s, Planned(s), Taken(s), NEW x \in StepTaken, x.plan = Following(s),
           ~ Stops(x.plan)
    PROVE  Taken(Append(s, x))
  <1> DEFINE t == Append(s, x)
             n == Len(s)
             p == x.plan
             q == Latest(s).plan
  <1>1. /\ Len(t) = n + 1 /\ n \in Nat /\ \A i \in 1 .. n : t[i] = s[i]
        /\ t[n + 1] = x /\ Latest(t) = x /\ t # <<>> /\ (s = <<>> <=> n = 0)
    BY AppendIs DEF Planned
  <1>2. /\ s = <<>> => p.disposition = "ADVANCE_FRONTIER" /\ p.attempted = {}
        /\ s # <<>> =>
              /\ n \in 1 .. n /\ q = s[n].plan /\ p.attempted = DoneAfter(q)
              /\ \/ p.disposition = "RETRY_CURRENT" /\ p.selected = q.selected
                 \/ /\ p.disposition = "ADVANCE_FRONTIER"
                    /\ p.selected \intersect DoneAfter(q) = {}
    BY StepIs
  <1>3. /\ \A i, j \in AdvancesOf(s) :
              i # j => s[i].plan.selected \intersect s[j].plan.selected = {}
        /\ s # <<>> => DoneAfter(q) = TakenBy(s)
        /\ s = <<>> => TakenBy(s) = {}
    BY <1>1 DEF Taken, TakenBy
  <1>4. \A i \in 1 .. n : s[i].plan.selected \subseteq TakenBy(s)
    BY DEF TakenBy
  <1>5. p.attempted = TakenBy(s)
    BY <1>2, <1>3
  <1>6. TakenBy(t) = TakenBy(s) \union p.selected
    <2> HIDE DEF t, n
    <2>1. n = Len(s)
      BY DEF n
    <2>2. \A i \in 1 .. n + 1 : i \in 1 .. n \/ i = n + 1
      BY <1>1
    <2>3. /\ 1 .. n \subseteq 1 .. n + 1 /\ n + 1 \in 1 .. n + 1
      BY <1>1
    <2> QED BY <1>1, <2>1, <2>2, <2>3 DEF TakenBy
  <1>7. DoneAfter(p) = TakenBy(t)
    <2>1. CASE p.disposition = "ADVANCE_FRONTIER"
      BY <1>5, <1>6, <2>1 DEF DoneAfter, NewlyAttempted
    <2>2. CASE p.disposition # "ADVANCE_FRONTIER"
      <3>1. n \in 1 .. n /\ p.selected = s[n].plan.selected
        BY <1>2, <2>2
      <3>2. p.selected \subseteq TakenBy(s)
        BY <1>4, <3>1
      <3> QED BY <1>5, <1>6, <2>2, <3>2 DEF DoneAfter, NewlyAttempted
    <2> QED BY <2>1, <2>2
  <1>8. ASSUME NEW i \in AdvancesOf(t), NEW j \in AdvancesOf(t), i < j
        PROVE  t[i].plan.selected \intersect t[j].plan.selected = {}
    <2>1. /\ i \in 1 .. n /\ t[i] = s[i] /\ i \in AdvancesOf(s)
          /\ j \in 1 .. n \/ j = n + 1
      <3> HIDE DEF t, n
      <3>1. n = Len(s)
        BY DEF n
      <3>2. i \in 1 .. n + 1 /\ j \in 1 .. n + 1
        BY <1>1 DEF AdvancesOf
      <3>3. i \in 1 .. n /\ (j \in 1 .. n \/ j = n + 1)
        BY <1>1, <1>8, <3>2
      <3>4. t[i] = s[i]
        BY <1>1, <3>3
      <3>5. i \in AdvancesOf(s)
        BY <3>1, <3>3, <3>4 DEF AdvancesOf
      <3> QED BY <3>3, <3>4, <3>5
    <2>2. CASE j = n + 1
      <3>1. p.disposition = "ADVANCE_FRONTIER" /\ t[j] = x
        <4> HIDE DEF t, n
        <4> QED BY <1>1, <2>2 DEF AdvancesOf
      <3>2. s # <<>>
        BY <1>1, <2>1
      <3>3. p.selected \intersect TakenBy(s) = {}
        BY <1>2, <1>3, <3>1, <3>2
      <3> QED BY <1>4, <2>1, <3>1, <3>3
    <2>3. CASE j \in 1 .. n
      <3>1. t[j] = s[j] /\ j \in AdvancesOf(s) /\ i # j
        <4> HIDE DEF t, n
        <4>1. n = Len(s)
          BY DEF n
        <4> QED BY <1>1, <1>8, <2>3, <4>1 DEF AdvancesOf
      <3> QED BY <1>3, <2>1, <3>1
    <2> QED BY <2>1, <2>2, <2>3
  <1>9. ASSUME NEW i \in AdvancesOf(t), NEW j \in AdvancesOf(t), i # j
        PROVE  t[i].plan.selected \intersect t[j].plan.selected = {}
    <2>1. i \in Int /\ j \in Int
      BY DEF AdvancesOf
    <2>2. i < j \/ j < i
      BY <1>9, <2>1
    <2> HIDE DEF t
    <2> QED BY <1>8, <2>2
  <1>10. Taken(t)
    BY <1>1, <1>7, <1>9 DEF Taken
  <1> QED BY <1>10 DEF t

(* A walk with the step the planner asks for is a walk.                    *)
LEMMA WalkGrows ==
    ASSUME ReplenishmentAssumption, policy \in Policies, prior \in Outcomes,
           NEW s, Walk(s), NEW x \in StepTaken, x.plan = Following(s), ~ Stops(x.plan),
           OutFor(x.plan, x.out)
    PROVE  Walk(Append(s, x))
  <1>1. Planned(s) /\ Ascending(s) /\ Counted(s) /\ Taken(s)
    BY DEF Walk
  <1>2. Planned(Append(s, x))
    BY <1>1, PlannedGrows
  <1>3. Ascending(Append(s, x))
    BY <1>1, AscendingGrows
  <1>4. Counted(Append(s, x))
    BY <1>1, CountedGrows
  <1>5. Taken(Append(s, x))
    BY <1>1, TakenGrows
  <1> QED BY <1>2, <1>3, <1>4, <1>5 DEF Walk

LEMMA EmptyWalk == Walk(<<>>)
  <1>1. AdvancesOf(<<>>) = {} /\ <<>> \in Seq(StepTaken) /\ Len(<<>>) = 0
    BY DEF AdvancesOf
  <1>2. IsFiniteSet(AdvancesOf(<<>>)) /\ Cardinality(AdvancesOf(<<>>)) = 0
    BY <1>1, FS_EmptySet
  <1> QED BY <1>1, <1>2 DEF Walk, Planned, Ascending, Counted, Taken

(* What failed on the last retries of the waves before w.                  *)
LastRetries(s, w) ==
    {k \in 1 .. Len(s) : /\ Of(s[k].out, "opportunity") = {} /\ s[k].plan.wave < w
                         /\ s[k].plan.retry = MaxRetries}
FailedLast(s, w) == UNION {Of(s[k].out, "failed") : k \in LastRetries(s, w)}

(* A step that ends its wave without an opportunity adds what failed in it *)
(* if it was the last retry, and nothing otherwise; another adds nothing.  *)
LEMMA FailedLastGrows ==
    ASSUME ReplenishmentAssumption, policy \in Policies, prior \in Outcomes,
           NEW s, Walk(s), NEW x \in StepTaken, x.plan = Following(s), ~ Stops(x.plan),
           OutFor(x.plan, x.out)
    PROVE  FailedLast(Append(s, x), WaveAfter(x.plan, x.out)) =
              IF Found(x.out) \/ Again(x.plan, x.out) \/ Of(x.out, "failed") = {}
              THEN FailedLast(s, x.plan.wave)
              ELSE FailedLast(s, x.plan.wave) \union Of(x.out, "failed")
  <1> DEFINE t == Append(s, x)
             n == Len(s)
             p == x.plan
             w == WaveAfter(x.plan, x.out)
  <1>1. /\ Len(t) = n + 1 /\ n \in Nat /\ \A i \in 1 .. n : t[i] = s[i]
        /\ t[n + 1] = x
    BY AppendIs DEF Walk, Planned
  <1>2. Walk(t)
    BY WalkGrows
  <1>3. /\ GoodPlan(p) /\ p.wave \in Nat /\ p.retry \in 0 .. MaxRetries
    BY StepIs DEF GoodPlan, Walk
  <1>4. \A i \in 1 .. n : /\ s[i].plan.wave \in Nat /\ s[i].plan.retry \in Nat
                          /\ Before(s[i].plan, p)
    <2> TAKE i \in 1 .. n
    <2>0. GoodPlan(s[i].plan)
      BY DEF Walk, Planned
    <2>1. s[i].plan.wave \in Nat /\ s[i].plan.retry \in Nat
      BY <2>0, GoodPlanIs
    <2>2. i \in 1 .. Len(t) /\ n + 1 \in 1 .. Len(t) /\ i < n + 1
      BY <1>1
    <2>3. Before(t[i].plan, t[n + 1].plan)
      BY <1>2, <2>2 DEF Walk, Ascending
    <2> QED BY <1>1, <2>1, <2>3
  <1>5. p.retry < MaxRetries \/ p.retry = MaxRetries
    BY <1>3, PolicyTyped
  <1>6. CASE Found(x.out) \/ Again(p, x.out)
    <2>1. w = p.wave
      BY <1>6 DEF WaveAfter
    <2>2. \A k \in 1 .. n + 1 : k \in LastRetries(t, w) <=> k \in LastRetries(s, p.wave)
      <3> HIDE DEF t
      <3> TAKE k \in 1 .. n + 1
      <3>1. CASE k = n + 1
        <4>1. t[k].plan.wave = w /\ ~ (w < w)
          BY <1>1, <1>3, <2>1, <3>1
        <4>2. k \notin 1 .. Len(s)
          BY <1>1, <3>1
        <4> QED BY <4>1, <4>2 DEF LastRetries
      <3>2. CASE k # n + 1
        <4>1. k \in 1 .. n /\ k \in 1 .. Len(t) /\ t[k] = s[k]
          BY <1>1, <3>2
        <4> QED BY <2>1, <4>1 DEF LastRetries
      <3> QED BY <3>1, <3>2
    <2>3. LastRetries(t, w) = LastRetries(s, p.wave)
      <3>1. /\ LastRetries(t, w) \subseteq 1 .. n + 1
            /\ LastRetries(s, p.wave) \subseteq 1 .. n + 1
        BY <1>1 DEF LastRetries
      <3> HIDE DEF t, n, p, w
      <3> QED BY <2>2, <3>1
    <2>4. \A k \in LastRetries(s, p.wave) : t[k].out = s[k].out
      BY <1>1 DEF LastRetries
    <2> QED BY <1>6, <2>3, <2>4 DEF FailedLast
  <1>7. CASE ~ Found(x.out) /\ ~ Again(p, x.out)
    <2>1. w = p.wave + 1
      BY <1>7 DEF WaveAfter
    <2>2. \A k \in 1 .. n : k \in LastRetries(t, w) <=> k \in LastRetries(s, p.wave)
      <3> TAKE k \in 1 .. n
      <3> HIDE DEF t, n, p, w
      <3>0. /\ s[k].plan.wave \in Nat /\ s[k].plan.retry \in Nat
            /\ Before(s[k].plan, p) /\ p.wave \in Nat /\ MaxRetries \in Nat
            /\ p.retry \in 0 .. MaxRetries
        <4>1. MaxRetries \in Nat
          BY PolicyTyped
        <4> QED BY <1>3, <1>4, <4>1
      <3>1. s[k].plan.retry = MaxRetries => s[k].plan.wave < p.wave
        BY <3>0 DEF Before
      <3>2. k \in 1 .. Len(t) /\ t[k] = s[k]
        BY <1>1
      <3>3. s[k].plan.wave < p.wave => s[k].plan.wave < w
        BY <2>1, <3>0
      <3>4. k \in LastRetries(t, w) <=>
                /\ Of(s[k].out, "opportunity") = {}
                /\ s[k].plan.wave < w /\ s[k].plan.retry = MaxRetries
        BY <3>2 DEF LastRetries
      <3>5. k \in LastRetries(s, p.wave) <=>
                /\ Of(s[k].out, "opportunity") = {}
                /\ s[k].plan.wave < p.wave /\ s[k].plan.retry = MaxRetries
        BY DEF LastRetries, n
      <3> QED BY <3>1, <3>3, <3>4, <3>5
    <2>3. n + 1 \in LastRetries(t, w) <=> p.retry = MaxRetries
      <3> HIDE DEF t
      <3> QED BY <1>1, <1>3, <1>7, <2>1 DEF LastRetries, Found
    <2>4. \A k \in LastRetries(s, p.wave) : k \in 1 .. n /\ t[k].out = s[k].out
      BY <1>1 DEF LastRetries
    <2>5. \A k \in LastRetries(t, w) : k \in 1 .. n \/ k = n + 1
      BY <1>1 DEF LastRetries
    <2>6. Of(x.out, "failed") # {} => p.retry = MaxRetries
      BY <1>3, <1>7, PolicyTyped DEF Again, Exhausted
    <2> HIDE DEF t, n, p, w
    <2>7. CASE p.retry = MaxRetries
      <3>1. LastRetries(t, w) = LastRetries(s, p.wave) \union {n + 1}
        BY <2>2, <2>3, <2>4, <2>5, <2>7
      <3>2. FailedLast(t, w) = FailedLast(s, p.wave) \union Of(x.out, "failed")
        BY <1>1, <2>4, <3>1 DEF FailedLast
      <3> QED BY <1>7, <3>2 DEF t, p, w
    <2>8. CASE p.retry # MaxRetries
      <3>1. LastRetries(t, w) = LastRetries(s, p.wave)
        BY <2>2, <2>3, <2>4, <2>5, <2>8
      <3>2. FailedLast(t, w) = FailedLast(s, p.wave)
        BY <1>1, <2>4, <3>1 DEF FailedLast
      <3> QED BY <1>7, <2>6, <2>8, <3>2 DEF t, p, w
    <2> QED BY <2>7, <2>8
  <1> QED BY <1>6, <1>7

(* Between two steps of a walk nothing was passed over.                    *)
LEMMA WalkSteps ==
    ASSUME ReplenishmentAssumption, policy \in Policies,
           NEW s, Walk(s), NEW i \in 1 .. Len(s), i < Len(s)
    PROVE  /\ GoodPlan(s[i].plan) /\ OutFor(s[i].plan, s[i].out)
           /\ ~ Found(s[i].out) /\ Of(s[i].out, "fatal") = {}
           /\ Again(s[i].plan, s[i].out) =>
                 /\ s[i + 1].plan.disposition = "RETRY_CURRENT"
                 /\ s[i + 1].plan.wave = s[i].plan.wave
                 /\ s[i + 1].plan.selected = s[i].plan.selected
                 /\ s[i + 1].plan.retry = s[i].plan.retry + 1
           /\ ~ Again(s[i].plan, s[i].out) =>
                 /\ s[i + 1].plan.disposition = "ADVANCE_FRONTIER"
                 /\ s[i + 1].plan.wave = s[i].plan.wave + 1
                 /\ s[i + 1].plan.retry = 0 /\ Of(s[i].out, "pending") = {}
  <1> DEFINE p == s[i].plan
             out == s[i].out
             q == s[i + 1].plan
  <1>1. Len(s) \in Nat
    BY DEF Walk, Planned
  <1>2. i + 1 \in 1 .. Len(s)
    BY <1>1
  <1>3. /\ GoodPlan(p) /\ OutFor(p, out) /\ q = PlanAfter(p, out) /\ ~ Stops(q)
    BY <1>2 DEF Walk, Planned, GoodPlan
  <1> HIDE DEF p, out, q
  <1>4. /\ GoodPlan(p) /\ OutFor(p, out) /\ ~ Found(out) /\ Of(out, "fatal") = {}
        /\ Again(p, out) =>
              /\ q.disposition = "RETRY_CURRENT" /\ q.wave = p.wave
              /\ q.selected = p.selected /\ q.retry = p.retry + 1
        /\ ~ Again(p, out) =>
              /\ q.disposition = "ADVANCE_FRONTIER" /\ q.wave = p.wave + 1
              /\ q.retry = 0 /\ Of(out, "pending") = {}
    BY <1>3, NextIs
  <1> QED BY <1>4 DEF p, out, q

-----------------------------------------------------------------------------
(* The ledger as one chain of records.                                     *)

After(r) == PlanAfter(r.plan, Resumed(r))
Chained(W) ==
    /\ W # {} => \E r \in W : r.plan = FirstPlan
    /\ \A a, b \in W : a = b \/ Before(a.plan, b.plan) \/ Before(b.plan, a.plan)
    /\ \A a, b \in W : Before(a.plan, b.plan) =>
          \E c \in W : c.plan = After(a) /\ ~ Before(b.plan, c.plan)
Reached(W, s) ==
    s # <<>> => \E a \in W : a.plan = Latest(s).plan /\ Resumed(a) = Latest(s).out

(* What failed on the last retries of the waves before w, by the records.  *)
RecordsOfLast(W, w) == {r \in W : r.plan.wave < w /\ r.plan.retry = MaxRetries}
FailedLastIn(W, w) == UNION {Of(Resumed(r), "failed") : r \in RecordsOfLast(W, w)}

(* The result of a search that comes to the end of the ledger.             *)
EndsWith(W, result) ==
    \/ /\ W = {} /\ Stops(FirstPlan)
       /\ result = ResultOf(FirstPlan.reason, Of(prior, "opportunity"), {})
    \/ \E a \in W :
          /\ Stops(After(a))
          /\ result = ResultOf(After(a).reason, Of(Resumed(a), "opportunity"),
                               FailedLastIn(W, WaveAfter(a.plan, Resumed(a))))

LEMMA BeforeIrreflexive ==
    ASSUME NEW p, NEW q, p.wave \in Nat, q.wave \in Nat, p.retry \in Nat, q.retry \in Nat,
           Before(p, q)
    PROVE  /\ ~ Before(q, p) /\ p # q
           /\ ~ (p.wave = q.wave /\ p.retry = q.retry)
  BY DEF Before

LEMMA RecordTyped ==
    ASSUME ReplenishmentAssumption, policy \in Policies, NEW r, Shape(r)
    PROVE  /\ r.plan.wave \in Nat /\ r.plan.retry \in Nat /\ r.plan.retry <= MaxRetries
           /\ ~ Stops(r.plan) /\ GoodPlan(r.plan) /\ OutFor(r.plan, Resumed(r))
  BY PolicyTyped, ResumedIs DEF Shape, GoodPlan, Faithful

(* The record of a step the ledger does not hold yet is the end of it.     *)
LEMMA NewIsLast ==
    ASSUME ReplenishmentAssumption, policy \in Policies, prior \in Outcomes,
           NEW W, \A r \in W : Shape(r), Chained(W), NEW s, Walk(s), Reached(W, s),
           NEW r, Shape(r), r.plan = Following(s), \A c \in W : c.plan # r.plan
    PROVE  \/ s = <<>> /\ W = {} /\ r.plan = FirstPlan
           \/ \E a \in W : /\ r.plan = After(a) /\ Before(a.plan, r.plan)
                           /\ \A b \in W : b = a \/ Before(b.plan, a.plan)
                           /\ \A b \in W : Before(b.plan, r.plan)
  <1>1. CASE s = <<>>
    BY <1>1 DEF Following, Chained
  <1>2. CASE s # <<>>
    <2>1. PICK a \in W : a.plan = Latest(s).plan /\ Resumed(a) = Latest(s).out
      BY <1>2 DEF Reached
    <2>2. r.plan = After(a)
      BY <1>2, <2>1 DEF Following, After
    <2>3. Before(a.plan, r.plan)
      <3>1. GoodPlan(a.plan) /\ OutFor(a.plan, Resumed(a)) /\ ~ Stops(r.plan)
        BY RecordTyped
      <3> QED BY <2>2, <3>1, NextIs DEF After
    <2>4. \A b \in W : b = a \/ Before(b.plan, a.plan)
      BY <2>2 DEF Chained
    <2>5. ASSUME NEW b \in W PROVE Before(b.plan, r.plan)
      <3>1. /\ b.plan.wave \in Nat /\ b.plan.retry \in Nat
            /\ a.plan.wave \in Nat /\ a.plan.retry \in Nat
            /\ r.plan.wave \in Nat /\ r.plan.retry \in Nat
        BY RecordTyped
      <3> QED BY <2>3, <2>4, <3>1, BeforeTransitive
    <2> QED BY <2>2, <2>3, <2>4, <2>5
  <1> QED BY <1>1, <1>2

LEMMA ChainGrows ==
    ASSUME ReplenishmentAssumption, policy \in Policies, prior \in Outcomes,
           NEW W, \A r \in W : Shape(r), Chained(W), NEW s, Walk(s), Reached(W, s),
           NEW r, Shape(r), r.plan = Following(s), \A c \in W : c.plan # r.plan
    PROVE  Chained(W \union {r})
  <1>1. /\ r.plan.wave \in Nat /\ r.plan.retry \in Nat
        /\ \A c \in W : c.plan.wave \in Nat /\ c.plan.retry \in Nat
    BY RecordTyped
  <1>2. ~ Before(r.plan, r.plan)
    BY <1>1, BeforeIrreflexive
  <1>3. CASE s = <<>> /\ W = {} /\ r.plan = FirstPlan
    BY <1>2, <1>3 DEF Chained
  <1>4. ASSUME NEW a \in W, r.plan = After(a), Before(a.plan, r.plan),
               \A b \in W : b = a \/ Before(b.plan, a.plan),
               \A b \in W : Before(b.plan, r.plan)
        PROVE  Chained(W \union {r})
    <2>1. \E c \in W \union {r} : c.plan = FirstPlan
      BY <1>4 DEF Chained
    <2>2. \A x, y \in W \union {r} : x = y \/ Before(x.plan, y.plan) \/ Before(y.plan, x.plan)
      BY <1>4 DEF Chained
    <2>3. ASSUME NEW x \in W \union {r}, NEW y \in W \union {r}, Before(x.plan, y.plan)
          PROVE  \E c \in W \union {r} : c.plan = After(x) /\ ~ Before(y.plan, c.plan)
      <3>1. x \in W
        BY <1>1, <1>2, <1>4, <2>3, BeforeIrreflexive
      <3>2. CASE y \in W
        BY <2>3, <3>1, <3>2 DEF Chained
      <3>3. CASE y = r /\ x = a
        BY <1>2, <1>4, <3>3
      <3>4. CASE y = r /\ x # a
        <4>1. PICK c \in W : c.plan = After(x) /\ ~ Before(a.plan, c.plan)
          BY <1>4, <3>1, <3>4 DEF Chained
        <4>2. ~ Before(r.plan, c.plan)
          BY <1>1, <1>4, BeforeIrreflexive
        <4> QED BY <3>4, <4>1, <4>2
      <3> QED BY <3>2, <3>3, <3>4
    <2> QED BY <2>1, <2>2, <2>3 DEF Chained
  <1>5. \/ s = <<>> /\ W = {} /\ r.plan = FirstPlan
        \/ \E a \in W : /\ r.plan = After(a) /\ Before(a.plan, r.plan)
                        /\ \A b \in W : b = a \/ Before(b.plan, a.plan)
                        /\ \A b \in W : Before(b.plan, r.plan)
    BY NewIsLast
  <1> QED BY <1>3, <1>4, <1>5

(* A ledger has one end, and when a search has come to it nothing is added.*)
LEMMA OneEnd ==
    ASSUME ReplenishmentAssumption, policy \in Policies,
           NEW W, \A r \in W : Shape(r), Chained(W), NEW f, EndsWith(W, f),
           NEW g, EndsWith(W, g)
    PROVE  f = g
  <1>1. CASE W = {}
    BY <1>1 DEF EndsWith
  <1>2. CASE W # {}
    <2> DEFINE End(a, h) ==
            /\ Stops(After(a))
            /\ h = ResultOf(After(a).reason, Of(Resumed(a), "opportunity"),
                            FailedLastIn(W, WaveAfter(a.plan, Resumed(a))))
    <2>1. PICK a \in W : End(a, f)
      BY <1>2 DEF EndsWith
    <2>2. PICK b \in W : End(b, g)
      BY <1>2 DEF EndsWith
    <2>3. \A c \in W : c.plan # After(a) /\ c.plan # After(b)
      BY <2>1, <2>2, RecordTyped
    <2>4. a = b
      BY <2>3 DEF Chained
    <2> QED BY <2>1, <2>2, <2>4
  <1> QED BY <1>1, <1>2

LEMMA NothingAfterTheEnd ==
    ASSUME ReplenishmentAssumption, policy \in Policies, prior \in Outcomes,
           NEW W, \A r \in W : Shape(r), Chained(W), NEW s, Walk(s), Reached(W, s),
           NEW r, Shape(r), r.plan = Following(s), \A c \in W : c.plan # r.plan
    PROVE  ~ \E f : EndsWith(W, f)
  <1>1. ~ Stops(r.plan)
    BY RecordTyped
  <1>2. \/ s = <<>> /\ W = {} /\ r.plan = FirstPlan
        \/ \E a \in W : /\ r.plan = After(a)
                        /\ \A b \in W : b = a \/ Before(b.plan, a.plan)
    BY NewIsLast
  <1>3. ASSUME NEW e \in W, Stops(After(e)) PROVE FALSE
    <2>1. PICK a \in W : r.plan = After(a) /\ \A b \in W : b = a \/ Before(b.plan, a.plan)
      BY <1>2
    <2>2. e = a \/ \E c \in W : c.plan = After(e)
      BY <2>1 DEF Chained
    <2> QED BY <1>1, <1>3, <2>1, <2>2, RecordTyped
  <1> QED BY <1>1, <1>2, <1>3 DEF EndsWith

(* A search that stops has come to the end of the ledger.                  *)
LEMMA StopIsTheEnd ==
    ASSUME ReplenishmentAssumption, policy \in Policies,
           NEW W, \A r \in W : Shape(r), Chained(W), NEW s, Reached(W, s),
           Stops(Following(s)),
           NEW out, out = IF s = <<>> THEN prior ELSE Latest(s).out,
           NEW w, w = IF s = <<>> THEN 1 ELSE WaveAfter(Latest(s).plan, Latest(s).out)
    PROVE  EndsWith(W, ResultOf(Following(s).reason, Of(out, "opportunity"),
                                FailedLastIn(W, w)))
  <1>1. CASE s = <<>>
    <2>1. W = {}
      BY <1>1, RecordTyped DEF Following, Chained
    <2>2. FailedLastIn(W, w) = {}
      BY <2>1 DEF FailedLastIn, RecordsOfLast
    <2> QED BY <1>1, <2>1, <2>2 DEF EndsWith, Following
  <1>2. CASE s # <<>>
    <2>1. PICK a \in W : a.plan = Latest(s).plan /\ Resumed(a) = Latest(s).out
      BY <1>2 DEF Reached
    <2>2. Following(s) = After(a) /\ out = Resumed(a) /\ w = WaveAfter(a.plan, Resumed(a))
      BY <1>2, <2>1 DEF Following, After
    <2> QED BY <2>2 DEF EndsWith
  <1> QED BY <1>1, <1>2

(* What failed on last retries, as the search goes on along the ledger.    *)
LEMMA FailedLastInGrows ==
    ASSUME ReplenishmentAssumption, policy \in Policies,
           NEW W, \A r \in W : Shape(r), Chained(W), NEW a \in W
    PROVE  FailedLastIn(W, WaveAfter(a.plan, Resumed(a))) =
              IF \/ Found(Resumed(a)) \/ Again(a.plan, Resumed(a))
                 \/ Of(Resumed(a), "failed") = {}
              THEN FailedLastIn(W, a.plan.wave)
              ELSE FailedLastIn(W, a.plan.wave) \union Of(Resumed(a), "failed")
  <1> DEFINE p == a.plan
             out == Resumed(a)
  <1>1. CASE Found(out) \/ Again(p, out)
    BY <1>1 DEF WaveAfter
  <1>2. CASE ~ Found(out) /\ ~ Again(p, out)
    <2>1. WaveAfter(p, out) = p.wave + 1
      BY <1>2 DEF WaveAfter
    <2>2. /\ p.wave \in Nat /\ p.retry \in Nat /\ p.retry <= MaxRetries
          /\ GoodPlan(p) /\ OutFor(p, out)
      BY RecordTyped
    <2>3. ASSUME NEW b \in W, b.plan.wave = p.wave, b.plan.retry = MaxRetries
          PROVE  b = a
      <3>1. b.plan.wave \in Nat /\ b.plan.retry \in Nat
        BY RecordTyped
      <3>2. ~ Before(b.plan, p)
        BY <2>2, <2>3, <3>1, PolicyTyped DEF Before
      <3>3. ASSUME Before(p, b.plan) PROVE FALSE
        <4>1. PICK c \in W : c.plan = After(a) /\ ~ Before(b.plan, c.plan)
          BY <3>3 DEF Chained
        <4>2. c.plan.wave = p.wave + 1
          <5>1. ~ Stops(c.plan) /\ c.plan = PlanAfter(p, out)
            BY <4>1, RecordTyped DEF After
          <5> QED BY <1>2, <2>2, <5>1, NextIs
        <4> QED BY <2>2, <2>3, <4>1, <4>2 DEF Before
      <3> QED BY <3>2, <3>3 DEF Chained
    <2>4. \A b \in W : b.plan.wave \in Nat
      BY RecordTyped
    <2>5. Of(out, "failed") # {} => p.retry = MaxRetries
      BY <1>2, <2>2, PolicyTyped DEF Again, Exhausted
    <2>6. CASE p.retry = MaxRetries
      <3>1. RecordsOfLast(W, p.wave + 1) = RecordsOfLast(W, p.wave) \union {a}
        BY <2>2, <2>3, <2>4, <2>6 DEF RecordsOfLast
      <3> QED BY <1>2, <2>1, <3>1 DEF FailedLastIn
    <2>7. CASE p.retry # MaxRetries
      <3>1. RecordsOfLast(W, p.wave + 1) = RecordsOfLast(W, p.wave)
        BY <2>2, <2>3, <2>4, <2>7 DEF RecordsOfLast
      <3> QED BY <1>2, <2>1, <2>5, <2>7, <3>1 DEF FailedLastIn
    <2> QED BY <2>6, <2>7
  <1> QED BY <1>1, <1>2

-----------------------------------------------------------------------------
(* The invariant.                                                          *)

(* The search holds what it started with, or what its last step left.      *)
Remembered ==
    /\ walked = <<>> =>
          wave = 1 /\ retry = 0 /\ current = {} /\ outcomes = prior /\ attempted = {}
    /\ walked # <<>> =>
          /\ wave = WaveAfter(Latest(walked).plan, Latest(walked).out)
          /\ outcomes = Latest(walked).out /\ attempted = DoneAfter(Latest(walked).plan)
          /\ pc # "idle" =>
                /\ current = KeysAfter(Latest(walked).plan, Latest(walked).out)
                /\ retry = RetryAfter(Latest(walked).plan, Latest(walked).out)
    /\ quarantined = FailedLast(walked, wave)

(* It has ended only where the planner stops it, for the planner's reason. *)
Concluded ==
    /\ pc # "idle" => ended = "none"
    /\ pc = "idle" /\ ended \in {"none", "crashed"} => walked = <<>>
    /\ ended \in StopReasons =>
          pc = "idle" /\ Stops(Following(walked)) /\ Following(walked).reason = ended

(* What is about to be saved is of the planned wave, and in the ledger     *)
(* already or new to it.                                                   *)
Holding ==
    /\ pc = "save" =>
          /\ held.record.plan = Following(walked)
          /\ Shape(held.record) /\ Faithful(held.record, held.out)
          /\ held.record \in waves \/ (\A r \in waves : r.plan # held.record.plan)
    /\ pc # "save" => held = <<>>

Ledger == (\A r \in waves : Shape(r)) /\ OneRecordPerPlan

(* Where the ledger tells all, it is one chain that a search walks from    *)
(* its beginning; the first result was that of its end, and so is each.    *)
Lineage ==
    (\A r \in waves : Lossless(r)) =>
        /\ Chained(waves) /\ Reached(waves, walked)
        /\ quarantined = FailedLastIn(waves, wave)
        /\ first # <<>> => EndsWith(waves, first)
        /\ ended \in StopReasons =>
              first = ResultOf(ended, Of(outcomes, "opportunity"), quarantined)

IInv == /\ TypeOK /\ Walk(walked) /\ Remembered /\ Concluded /\ Holding
        /\ Ledger /\ Lineage

(* None of it looks at more than the session and what it is given.         *)
LEMMA SessionFixed ==
    ASSUME UNCHANGED session
    PROVE  /\ \A w, seen, done, keys, r :
                  PlanWave(w, seen, done, keys, r)' = PlanWave(w, seen, done, keys, r)
           /\ MaxWaves' = MaxWaves /\ MaxRetries' = MaxRetries
           /\ MaxCrashes' = MaxCrashes /\ MaxRuns' = MaxRuns
           /\ policy' = policy /\ prior' = prior /\ cacheOnly' = cacheOnly
           /\ \A p, out : Again(p, out)' <=> Again(p, out)
  <1>1. policy' = policy /\ prior' = prior /\ cacheOnly' = cacheOnly
    BY DEF session
  <1>2. \A w, seen, done, keys, r :
            PlanWave(w, seen, done, keys, r)' = PlanWave(w, seen, done, keys, r)
    BY <1>1 DEF PlanWave, Decision, RetryLeft, WithinBudget, NextBatch, BatchSize,
                MaxWaves, MaxRetries
  <1>3. \A p, out : Again(p, out)' <=> Again(p, out)
    BY <1>1 DEF Again, Exhausted, MaxRetries
  <1> QED BY <1>1, <1>2, <1>3 DEF MaxWaves, MaxRetries, MaxCrashes, MaxRuns

LEMMA StepsFixed ==
    ASSUME UNCHANGED session
    PROVE  /\ FirstPlan' = FirstPlan
           /\ \A p, out : /\ WaveAfter(p, out)' = WaveAfter(p, out)
                          /\ KeysAfter(p, out)' = KeysAfter(p, out)
                          /\ RetryAfter(p, out)' = RetryAfter(p, out)
                          /\ PlanAfter(p, out)' = PlanAfter(p, out)
           /\ \A s : Following(s)' = Following(s)
           /\ \A p : GoodPlan(p)' <=> GoodPlan(p)
           /\ \A r : Shape(r)' <=> Shape(r)
           /\ \A r : After(r)' = After(r)
  <1>1. FirstPlan' = FirstPlan
    BY SessionFixed DEF FirstPlan
  <1>2. \A p, out : /\ WaveAfter(p, out)' = WaveAfter(p, out)
                    /\ KeysAfter(p, out)' = KeysAfter(p, out)
                    /\ RetryAfter(p, out)' = RetryAfter(p, out)
    BY SessionFixed DEF WaveAfter, KeysAfter, RetryAfter
  <1>3. \A p, out : PlanAfter(p, out)' = PlanAfter(p, out)
    BY SessionFixed, <1>2 DEF PlanAfter
  <1>4. \A s : Following(s)' = Following(s)
    BY <1>1, <1>3 DEF Following
  <1>5. \A p : GoodPlan(p)' <=> GoodPlan(p)
    BY SessionFixed DEF GoodPlan
  <1>6. \A r : Shape(r)' <=> Shape(r)
    BY <1>5 DEF Shape
  <1>7. \A r : After(r)' = After(r)
    BY <1>3 DEF After
  <1> QED BY <1>1, <1>2, <1>3, <1>4, <1>5, <1>6, <1>7

LEMMA WalksFixed ==
    ASSUME UNCHANGED session
    PROVE  /\ \A s : Walk(s)' <=> Walk(s)
           /\ \A s, w : FailedLast(s, w)' = FailedLast(s, w)
           /\ \A W : Chained(W)' <=> Chained(W)
           /\ \A W, w : FailedLastIn(W, w)' = FailedLastIn(W, w)
           /\ \A W, f : EndsWith(W, f)' <=> EndsWith(W, f)
  <1>1. \A s : Planned(s)' <=> Planned(s)
    BY StepsFixed DEF Planned
  <1>2. \A s : Counted(s)' <=> Counted(s)
    BY SessionFixed DEF Counted
  <1>3. \A s : Walk(s)' <=> Walk(s)
    BY <1>1, <1>2 DEF Walk
  <1>4. \A s, w : FailedLast(s, w)' = FailedLast(s, w)
    BY SessionFixed DEF FailedLast, LastRetries
  <1>5. \A W : Chained(W)' <=> Chained(W)
    BY StepsFixed DEF Chained
  <1>6. \A W, w : FailedLastIn(W, w)' = FailedLastIn(W, w)
    BY SessionFixed DEF FailedLastIn, RecordsOfLast
  <1>7. \A W, f : EndsWith(W, f)' <=> EndsWith(W, f)
    BY SessionFixed, StepsFixed, <1>6 DEF EndsWith
  <1> QED BY <1>3, <1>4, <1>5, <1>6, <1>7

-----------------------------------------------------------------------------
(* It holds initially, and every action keeps it.                          *)

LEMMA NothingFailedYet ==
    ASSUME NEW w
    PROVE  FailedLast(<<>>, w) = {}
  BY DEF FailedLast, LastRetries

LEMMA InitInv == ASSUME ReplenishmentAssumption, Init PROVE IInv
  <1>1. policy \in Policies /\ PriorClasses \subseteq Classes
    BY PolicyTyped DEF Init
  <1>2. prior \in Outcomes
    BY <1>1 DEF Init, Outcomes
  <1>3. TypeOK
    BY <1>1, <1>2, PolicyTyped DEF Init, TypeOK
  <1>4. Walk(walked)
    BY EmptyWalk DEF Init
  <1>5. Remembered /\ Concluded /\ Holding
    BY NothingFailedYet DEF Init, Remembered, Concluded, Holding, StopReasons
  <1>6. Ledger
    BY DEF Init, Ledger, OneRecordPerPlan
  <1>7. Lineage
    BY DEF Init, Lineage, Chained, Reached, FailedLastIn, RecordsOfLast, StopReasons
  <1> QED BY <1>3, <1>4, <1>5, <1>6, <1>7 DEF IInv

(* An invocation that starts, or a process that dies.                      *)
LEMMA FreshKeeps ==
    ASSUME ReplenishmentAssumption, IInv, FreshMemory, UNCHANGED <<session, waves, first>>,
           held' = <<>>, ended' \in {"none", "crashed"}, pc' \in {"idle", "plan"},
           pc' = "plan" => ended' = "none",
           crashes' \in 0 .. MaxCrashes, runs' \in 0 .. MaxRuns
    PROVE  IInv'
  <1>1. policy \in Policies /\ UNCHANGED session /\ waves' = waves /\ first' = first
    BY DEF IInv, TypeOK
  <1>2. /\ wave' = 1 /\ retry' = 0 /\ current' = {} /\ outcomes' = prior
        /\ attempted' = {} /\ quarantined' = {} /\ walked' = <<>>
    BY DEF FreshMemory
  <1>3. TypeOK'
    <2>1. /\ policy' = policy /\ cacheOnly' = cacheOnly /\ prior' = prior
          /\ MaxWaves' = MaxWaves /\ MaxRetries' = MaxRetries
          /\ MaxCrashes' = MaxCrashes /\ MaxRuns' = MaxRuns
      BY <1>1, SessionFixed
    <2>2. /\ cacheOnly \in {"yes", "no"} /\ prior \in Outcomes /\ waves \subseteq Record
      BY DEF IInv, TypeOK
    <2>3. 1 \in 1 .. MaxWaves + 1 /\ 0 \in 0 .. MaxRetries
      BY <1>1, PolicyTyped
    <2> QED BY <1>1, <1>2, <2>1, <2>2, <2>3 DEF TypeOK
  <1>4. Walk(walked)'
    <2>1. Walk(walked')
      BY <1>2, EmptyWalk
    <2> QED BY <1>1, <2>1, WalksFixed
  <1>5. Remembered'
    <2>1. FailedLast(walked, wave)' = {}
      BY <1>1, <1>2, WalksFixed, NothingFailedYet
    <2> QED BY <1>1, <1>2, <2>1, SessionFixed DEF Remembered
  <1>6. Concluded' /\ Holding'
    BY <1>2 DEF Concluded, Holding, StopReasons
  <1>7. Ledger'
    BY <1>1, StepsFixed DEF IInv, Ledger, OneRecordPerPlan
  <1>8. Lineage'
    <2>1. SUFFICES ASSUME \A r \in waves : Lossless(r) PROVE
              /\ Chained(waves)' /\ Reached(waves, walked)'
              /\ quarantined' = FailedLastIn(waves, wave)'
              /\ first' # <<>> => EndsWith(waves, first)'
      BY <1>1 DEF Lineage, StopReasons
    <2>2. Chained(waves) /\ (first # <<>> => EndsWith(waves, first))
      BY <2>1 DEF IInv, Lineage
    <2>3. Chained(waves)' /\ (first' # <<>> => EndsWith(waves, first)')
      BY <1>1, <2>2, WalksFixed
    <2>4. Reached(waves, walked)'
      BY <1>2 DEF Reached
    <2>5. FailedLastIn(waves, wave)' = {}
      <3>1. \A r \in waves : ~ (r.plan.wave < 1)
        <4> TAKE r \in waves
        <4>1. GoodPlan(r.plan)
          BY DEF IInv, Ledger, Shape
        <4>2. r.plan.wave \in Nat /\ r.plan.wave >= 1
          BY <1>1, <4>1, GoodPlanIs
        <4> QED BY <4>2
      <3>2. FailedLastIn(waves', wave') = {}
        BY <1>1, <1>2, <3>1 DEF FailedLastIn, RecordsOfLast
      <3> QED BY <1>1, <3>2, WalksFixed
    <2> QED BY <1>2, <2>3, <2>4, <2>5
  <1> QED BY <1>3, <1>4, <1>5, <1>6, <1>7, <1>8 DEF IInv

LEMMA BeginKeeps == ASSUME ReplenishmentAssumption, IInv, Begin PROVE IInv'
  <1>1. policy \in Policies /\ UNCHANGED session
    BY DEF IInv, TypeOK, Begin
  <1>2. held' = <<>>
    BY DEF IInv, Holding, Begin
  <1>3. crashes' \in 0 .. MaxCrashes /\ runs' \in 0 .. MaxRuns
    <2>1. crashes \in 0 .. MaxCrashes /\ runs \in 0 .. MaxRuns /\ crashes' = crashes
      BY DEF IInv, TypeOK, Begin
    <2>2. runs' = runs \/ (runs' = runs + 1 /\ runs < MaxRuns)
      BY DEF Begin
    <2> QED BY <1>1, <2>1, <2>2, PolicyTyped
  <1> QED BY <1>2, <1>3, FreshKeeps DEF Begin

LEMMA CrashKeeps == ASSUME ReplenishmentAssumption, IInv, Crash PROVE IInv'
  <1>1. policy \in Policies /\ UNCHANGED session
    BY DEF IInv, TypeOK, Crash
  <1>2. crashes' \in 0 .. MaxCrashes /\ runs' \in 0 .. MaxRuns
    <2>1. /\ crashes \in 0 .. MaxCrashes /\ runs \in 0 .. MaxRuns /\ runs' = runs
          /\ crashes' = crashes + 1 /\ crashes < MaxCrashes
      BY DEF IInv, TypeOK, Crash
    <2> QED BY <1>1, <2>1, PolicyTyped
  <1> QED BY <1>2, FreshKeeps DEF Crash

(* At the planner it plans what follows its walk.                          *)
LEMMA PlansNext ==
    ASSUME IInv, pc # "idle"
    PROVE  /\ NextPlan = Following(walked)
           /\ NextPlan.wave = wave /\ NextPlan.attempted = attempted
  <1>1. NextPlan.wave = wave /\ NextPlan.attempted = attempted
    BY PlanIs DEF NextPlan
  <1>2. CASE walked = <<>>
    <2>1. NextPlan = FirstPlan
      BY <1>2 DEF IInv, Remembered, NextPlan, FirstPlan
    <2> QED BY <1>1, <1>2, <2>1 DEF Following
  <1>3. CASE walked # <<>>
    <2>1. NextPlan = PlanAfter(Latest(walked).plan, Latest(walked).out)
      BY <1>3 DEF IInv, Remembered, NextPlan, PlanAfter
    <2> QED BY <1>1, <1>3, <2>1 DEF Following
  <1> QED BY <1>1, <1>2, <1>3

(* Of an action that leaves walk and ledger alone, what is left to show.   *)
LEMMA SearchStands ==
    ASSUME IInv, UNCHANGED <<session, waves, memory>>
    PROVE  /\ Walk(walked)' /\ Ledger'
           /\ Following(walked)' = Following(walked)
           /\ pc # "idle" \/ pc' = "idle" => Remembered'
           /\ \A r \in waves : Shape(r)'
  <1>1. /\ UNCHANGED session /\ waves' = waves /\ walked' = walked /\ wave' = wave
        /\ retry' = retry /\ current' = current /\ outcomes' = outcomes
        /\ attempted' = attempted /\ quarantined' = quarantined
    BY DEF memory
  <1>2. Walk(walked)' /\ Following(walked)' = Following(walked)
    BY <1>1, WalksFixed, StepsFixed DEF IInv
  <1>3. Ledger' /\ \A r \in waves : Shape(r)'
    BY <1>1, StepsFixed DEF IInv, Ledger, OneRecordPerPlan
  <1>4. ASSUME pc # "idle" \/ pc' = "idle" PROVE Remembered'
    <2>1. /\ FailedLast(walked, wave)' = FailedLast(walked, wave)
          /\ Latest(walked)' = Latest(walked)
      BY <1>1, WalksFixed DEF Latest
    <2>2. \A p, out : /\ WaveAfter(p, out)' = WaveAfter(p, out)
                      /\ KeysAfter(p, out)' = KeysAfter(p, out)
                      /\ RetryAfter(p, out)' = RetryAfter(p, out)
                      /\ DoneAfter(p)' = DoneAfter(p)
      BY <1>1, StepsFixed DEF DoneAfter, NewlyAttempted
    <2> QED BY <1>1, <1>4, <2>1, <2>2, SessionFixed DEF IInv, Remembered, Latest
  <1> QED BY <1>2, <1>3, <1>4

(* The result a search returns at the end of the ledger is the first one.  *)
LEMMA SameResult ==
    ASSUME ReplenishmentAssumption, policy \in Policies,
           NEW W, \A r \in W : Shape(r), Chained(W), NEW f, f # <<>> => EndsWith(W, f),
           NEW result, EndsWith(W, result)
    PROVE  (IF f = <<>> THEN result ELSE f) = result
  <1>1. CASE f = <<>>
    BY <1>1
  <1>2. CASE f # <<>>
    BY <1>2, OneEnd
  <1> QED BY <1>1, <1>2

(* The types of what a step of an invocation leaves alone.                 *)
LEMMA RestTyped ==
    ASSUME TypeOK, UNCHANGED <<session, waves, memory, crashes, runs>>,
           pc' \in {"idle", "plan", "save"},
           held' # <<>> => held'.record \in Record /\ held'.out \in Outcomes,
           ended' \in StopReasons \union {"none", "crashed"}
    PROVE  TypeOK'
  <1>1. /\ waves' = waves /\ walked' = walked /\ wave' = wave
        /\ retry' = retry /\ current' = current /\ outcomes' = outcomes
        /\ attempted' = attempted /\ quarantined' = quarantined
        /\ crashes' = crashes /\ runs' = runs
    BY DEF memory
  <1>2. /\ policy' = policy /\ cacheOnly' = cacheOnly /\ prior' = prior
        /\ MaxWaves' = MaxWaves /\ MaxRetries' = MaxRetries
        /\ MaxCrashes' = MaxCrashes /\ MaxRuns' = MaxRuns
    BY SessionFixed
  <1> QED BY <1>1, <1>2 DEF TypeOK

LEMMA StopKeeps == ASSUME ReplenishmentAssumption, IInv, Stop PROVE IInv'
  <1> DEFINE result == ResultOf(NextPlan.reason, Of(outcomes, "opportunity"), quarantined)
  <1>1. /\ policy \in Policies /\ pc = "plan" /\ pc' = "idle" /\ ended' = NextPlan.reason
        /\ first' = IF first = <<>> THEN result ELSE first
        /\ UNCHANGED <<session, waves, memory, held, crashes, runs>> /\ held = <<>>
        /\ UNCHANGED session /\ waves' = waves
    BY DEF IInv, TypeOK, Holding, Stop, Return
  <1>2. NextPlan = Following(walked) /\ Stops(Following(walked))
    BY <1>1, PlansNext DEF Stop, Stopping, Stops
  <1>3. NextPlan.reason \in StopReasons
    BY <1>2, PlanIs DEF NextPlan, Stops
  <1>4. TypeOK'
    BY <1>1, <1>3, RestTyped DEF IInv
  <1>5. Walk(walked)' /\ Ledger' /\ Remembered' /\ Following(walked)' = Following(walked)
    BY <1>1, SearchStands
  <1>6. Concluded'
    BY <1>1, <1>2, <1>3, <1>5 DEF Concluded, StopReasons, Stops
  <1>7. Holding'
    BY <1>1 DEF Holding
  <1>8. Lineage'
    <2>1. /\ walked' = walked /\ wave' = wave /\ quarantined' = quarantined
          /\ outcomes' = outcomes
      BY <1>1 DEF memory
    <2>2. SUFFICES ASSUME \A r \in waves : Lossless(r) PROVE
              /\ Chained(waves)' /\ Reached(waves, walked)'
              /\ quarantined' = FailedLastIn(waves, wave)'
              /\ first' # <<>> => EndsWith(waves, first)'
              /\ first' = ResultOf(ended', Of(outcomes', "opportunity"), quarantined')
      BY <1>1 DEF Lineage, Of
    <2>3. /\ Chained(waves) /\ Reached(waves, walked) /\ quarantined = FailedLastIn(waves, wave)
          /\ first # <<>> => EndsWith(waves, first)
          /\ \A r \in waves : Shape(r)
      BY <2>2 DEF IInv, Lineage, Ledger
    <2>4. EndsWith(waves, result)
      <3>1. /\ outcomes = IF walked = <<>> THEN prior ELSE Latest(walked).out
            /\ wave = IF walked = <<>> THEN 1
                      ELSE WaveAfter(Latest(walked).plan, Latest(walked).out)
        BY DEF IInv, Remembered
      <3> QED BY <1>1, <1>2, <2>3, <3>1, StopIsTheEnd
    <2>5. first' = result
      BY <1>1, <2>3, <2>4, SameResult
    <2>6. Chained(waves)' /\ quarantined' = FailedLastIn(waves, wave)'
      BY <1>1, <2>1, <2>3, WalksFixed
    <2>7. EndsWith(waves, first)'
      BY <1>1, <2>4, <2>5, WalksFixed
    <2>8. Reached(waves, walked)'
      BY <1>1, <2>1, <2>3 DEF Reached, Latest
    <2> QED BY <1>1, <2>1, <2>5, <2>6, <2>7, <2>8
  <1> QED BY <1>4, <1>5, <1>6, <1>7, <1>8 DEF IInv

(* A wave found in the ledger, or carried out.                             *)
LEMMA HoldingKeeps ==
    ASSUME ReplenishmentAssumption, IInv, pc = "plan", ~ Stopping, pc' = "save",
           UNCHANGED <<session, waves, memory, ended, observed>>,
           held'.record.plan = NextPlan, Shape(held'.record),
           Faithful(held'.record, held'.out),
           held'.record \in waves \/ \A r \in waves : r.plan # held'.record.plan
    PROVE  IInv'
  <1>1. /\ UNCHANGED <<session, waves, memory, crashes, runs>> /\ UNCHANGED session
        /\ waves' = waves /\ ended' = ended /\ first' = first /\ walked' = walked
        /\ wave' = wave /\ quarantined' = quarantined /\ outcomes' = outcomes
    BY DEF observed, memory
  <1>2. NextPlan = Following(walked)
    BY PlansNext
  <1>3. TypeOK'
    <2>1. held'.record \in Record /\ held'.record.plan \in Plan
      BY DEF Shape, GoodPlan
    <2>2. held'.out \in Outcomes
      BY <2>1, OutTyped DEF Faithful
    <2>3. ended \in StopReasons \union {"none", "crashed"}
      BY DEF IInv, TypeOK
    <2> QED BY <1>1, <2>1, <2>2, <2>3, RestTyped DEF IInv
  <1>4. Walk(walked)' /\ Ledger' /\ Remembered' /\ Following(walked)' = Following(walked)
    BY <1>1, SearchStands
  <1>5. ended = "none"
    BY DEF IInv, Concluded
  <1>6. Concluded'
    BY <1>1, <1>5 DEF Concluded, StopReasons
  <1>7. Holding'
    <2>1. Shape(held.record)' /\ Faithful(held.record, held.out)'
      <3>1. Shape(held.record)'
        BY <1>1, StepsFixed
      <3> QED BY <3>1 DEF Faithful, OutFor, Of, Lossless, Resumed, RebuiltFromReason, AllOf
    <2> QED BY <1>1, <1>2, <1>4, <2>1 DEF Holding
  <1>8. Lineage'
    <2>1. SUFFICES ASSUME \A r \in waves : Lossless(r) PROVE
              /\ Chained(waves)' /\ Reached(waves, walked)'
              /\ quarantined' = FailedLastIn(waves, wave)'
              /\ first' # <<>> => EndsWith(waves, first)'
      BY <1>1, <1>5 DEF Lineage, StopReasons
    <2>2. /\ Chained(waves) /\ Reached(waves, walked) /\ quarantined = FailedLastIn(waves, wave)
          /\ first # <<>> => EndsWith(waves, first)
      BY <2>1 DEF IInv, Lineage
    <2> QED BY <1>1, <2>2, WalksFixed DEF Reached, Latest
  <1> QED BY <1>3, <1>4, <1>6, <1>7, <1>8 DEF IInv

LEMMA ResumeKeeps == ASSUME ReplenishmentAssumption, IInv, Resume PROVE IInv'
  <1>1. PICK record \in waves : /\ RecordOf(record, NextPlan)
                                /\ held' = [record |-> record, out |-> Resumed(record)]
    BY DEF Resume
  <1>2. held'.record = record /\ held'.out = Resumed(record) /\ record.plan = NextPlan
    BY <1>1 DEF RecordOf
  <1>3. Shape(record)
    BY DEF IInv, Ledger
  <1>4. Faithful(record, Resumed(record))
    BY <1>3, ResumedIs
  <1> QED BY <1>2, <1>3, <1>4, HoldingKeeps DEF Resume

LEMMA ExecuteKeeps == ASSUME ReplenishmentAssumption, IInv, Execute PROVE IInv'
  <1>1. /\ policy \in Policies /\ prior \in Outcomes /\ pc = "plan" /\ ~ Stopping
        /\ held' \in Executions(NextPlan) /\ Walk(walked)
        /\ \A r \in waves : r.plan # NextPlan
    BY DEF IInv, TypeOK, Execute, RecordOf
  <1>2. NextPlan = Following(walked) /\ ~ Stops(NextPlan)
    BY <1>1, PlansNext DEF Stopping, Stops
  <1>3. GoodPlan(NextPlan)
    BY <1>1, <1>2, StepIs DEF Walk
  <1>4. /\ held'.record.plan = NextPlan /\ Shape(held'.record)
        /\ Faithful(held'.record, held'.out)
    BY <1>1, <1>3, ExecutionIs
  <1> QED BY <1>1, <1>4, HoldingKeeps DEF Execute

(* What save_wave and the rest of the loop body come to.                   *)
LEMMA SaveIs ==
    ASSUME ReplenishmentAssumption, IInv, SaveWave,
           NEW p, p = held.record.plan, NEW out, out = held.out
    PROVE  /\ policy \in Policies /\ prior \in Outcomes
           /\ p = Following(walked) /\ ~ Stops(p) /\ GoodPlan(p) /\ OutFor(p, out)
           /\ p.wave = wave /\ p.attempted = attempted
           /\ [plan |-> p, out |-> out] \in StepTaken
           /\ Shape(held.record) /\ Faithful(held.record, out)
           /\ UNCHANGED session /\ crashes' = crashes /\ runs' = runs
           /\ waves' = waves \union {held.record}
           /\ walked' = Append(walked, [plan |-> p, out |-> out])
           /\ outcomes' = out /\ attempted' = DoneAfter(p) /\ held' = <<>>
           /\ wave' = WaveAfter(p, out)
           /\ quarantined' = IF Found(out) \/ Again(p, out) \/ Of(out, "failed") = {}
                             THEN quarantined ELSE quarantined \union Of(out, "failed")
           /\ Found(out) =>
                 /\ Return("SELECTABLE_OPPORTUNITY_FOUND", Of(out, "opportunity"), quarantined)
                 /\ retry' = retry /\ current' = current
           /\ ~ Found(out) =>
                 /\ pc' = "plan" /\ ended' = ended /\ first' = first
                 /\ current' = KeysAfter(p, out) /\ retry' = RetryAfter(p, out)
  <1>1. /\ policy \in Policies /\ prior \in Outcomes /\ pc = "save"
        /\ p = Following(walked) /\ Shape(held.record) /\ Faithful(held.record, out)
    BY DEF IInv, TypeOK, Holding, SaveWave
  <1>2. GoodPlan(p) /\ ~ Stops(p) /\ OutFor(p, out) /\ p \in Plan
    BY <1>1 DEF Shape, GoodPlan, Faithful
  <1>3. p.wave = wave /\ p.attempted = attempted
    BY <1>1, PlansNext
  <1>4. [plan |-> p, out |-> out] \in StepTaken
    BY <1>2, OutTyped DEF StepTaken
  <1>5. /\ UNCHANGED session /\ crashes' = crashes /\ runs' = runs
        /\ waves' = waves \union {held.record}
        /\ walked' = Append(walked, [plan |-> p, out |-> out])
        /\ outcomes' = out /\ attempted' = DoneAfter(p) /\ held' = <<>>
    BY <1>3 DEF SaveWave, DoneAfter
  <1>6. CASE Found(out)
    <2>1. /\ Return("SELECTABLE_OPPORTUNITY_FOUND", Of(out, "opportunity"), quarantined)
          /\ wave' = wave /\ retry' = retry /\ current' = current
          /\ quarantined' = quarantined
      BY <1>6 DEF SaveWave, Found
    <2>2. WaveAfter(p, out) = wave
      BY <1>3, <1>6 DEF WaveAfter
    <2> QED BY <1>1, <1>2, <1>3, <1>4, <1>5, <1>6, <2>1, <2>2
  <1>7. CASE ~ Found(out) /\ Again(p, out)
    <2>1. /\ pc' = "plan" /\ ended' = ended /\ first' = first /\ wave' = wave
          /\ retry' = p.retry /\ current' = p.selected /\ quarantined' = quarantined
      BY <1>7 DEF SaveWave, Found, Again
    <2>2. WaveAfter(p, out) = wave /\ KeysAfter(p, out) = p.selected
          /\ RetryAfter(p, out) = p.retry
      BY <1>3, <1>7 DEF WaveAfter, KeysAfter, RetryAfter
    <2> QED BY <1>1, <1>2, <1>3, <1>4, <1>5, <1>7, <2>1, <2>2
  <1>8. CASE ~ Found(out) /\ ~ Again(p, out)
    <2>1. /\ pc' = "plan" /\ ended' = ended /\ first' = first /\ wave' = wave + 1
          /\ retry' = IF Of(out, "failed") = {} THEN 0 ELSE MaxRetries
          /\ current' = {}
          /\ quarantined' = IF Of(out, "failed") = {} THEN quarantined
                            ELSE quarantined \union Of(out, "failed")
      BY <1>8 DEF SaveWave, Found, Again, RetryExhausted
    <2>2. WaveAfter(p, out) = wave + 1 /\ KeysAfter(p, out) = {}
          /\ RetryAfter(p, out) = IF Of(out, "failed") = {} THEN 0 ELSE MaxRetries
      BY <1>3, <1>8 DEF WaveAfter, KeysAfter, RetryAfter
    <2> QED BY <1>1, <1>2, <1>3, <1>4, <1>5, <1>8, <2>1, <2>2
  <1> QED BY <1>6, <1>7, <1>8

LEMMA FoundStops ==
    ASSUME NEW p, NEW out, Found(out)
    PROVE  /\ Stops(PlanAfter(p, out))
           /\ PlanAfter(p, out).reason = "SELECTABLE_OPPORTUNITY_FOUND"
  <1>1. /\ Stops(PlanAfter(p, out))
        /\ PlanAfter(p, out).reason =
              Decision(WaveAfter(p, out), out, DoneAfter(p), KeysAfter(p, out),
                       RetryAfter(p, out))
    BY PlanIs DEF PlanAfter, Found
  <1> QED BY <1>1, StopIs DEF Found

LEMMA SaveTyped == ASSUME ReplenishmentAssumption, IInv, SaveWave PROVE TypeOK'
  <1> DEFINE p == held.record.plan
             out == held.out
  <1>1. /\ policy \in Policies /\ GoodPlan(p) /\ OutFor(p, out) /\ p \in Plan
        /\ [plan |-> p, out |-> out] \in StepTaken /\ Shape(held.record)
        /\ UNCHANGED session /\ crashes' = crashes /\ runs' = runs
        /\ waves' = waves \union {held.record}
        /\ walked' = Append(walked, [plan |-> p, out |-> out])
        /\ outcomes' = out /\ attempted' = DoneAfter(p) /\ held' = <<>>
        /\ wave' = WaveAfter(p, out)
        /\ quarantined' \subseteq quarantined \union Of(out, "failed")
    <2>1. p \in Plan
      BY SaveIs DEF GoodPlan
    <2> HIDE DEF p, out
    <2> QED BY <2>1, SaveIs DEF p, out
  <1>2. /\ current' = current \/ current' = KeysAfter(p, out)
        /\ retry' = retry \/ retry' = RetryAfter(p, out)
        /\ pc' \in {"idle", "plan"}
        /\ ended' = ended \/ ended' = "SELECTABLE_OPPORTUNITY_FOUND"
    BY SaveIs DEF Return
  <1>3. /\ out \in Outcomes /\ p.selected \subseteq Listings
        /\ Of(out, "failed") \subseteq p.selected
    BY <1>1, OutTyped
  <1>4. /\ WaveAfter(p, out) \in 1 .. MaxWaves + 1
        /\ KeysAfter(p, out) \subseteq p.selected
        /\ RetryAfter(p, out) \in 0 .. MaxRetries /\ DoneAfter(p) \subseteq Listings
    BY <1>1, AfterTyped
  <1>5. held.record \in Record
    BY <1>1 DEF Shape
  <1>6. /\ policy' = policy /\ cacheOnly' = cacheOnly /\ prior' = prior
        /\ MaxWaves' = MaxWaves /\ MaxRetries' = MaxRetries
        /\ MaxCrashes' = MaxCrashes /\ MaxRuns' = MaxRuns
    BY <1>1, SessionFixed
  <1>7. walked' \in Seq(StepTaken)
    BY <1>1, AppendIs DEF IInv, Walk, Planned
  <1>8. /\ cacheOnly \in {"yes", "no"} /\ prior \in Outcomes /\ waves \subseteq Record
        /\ retry \in 0 .. MaxRetries /\ crashes \in 0 .. MaxCrashes /\ runs \in 0 .. MaxRuns
        /\ current \subseteq Listings /\ quarantined \subseteq Listings
        /\ ended \in StopReasons \union {"none", "crashed"}
    BY DEF IInv, TypeOK
  <1>9. ended' \in StopReasons \union {"none", "crashed"}
    BY <1>2, <1>8 DEF StopReasons
  <1> HIDE DEF p, out
  <1>10. wave' \in 1 .. MaxWaves' + 1 /\ retry' \in 0 .. MaxRetries'
    BY <1>1, <1>2, <1>4, <1>6, <1>8
  <1>11. /\ current' \subseteq Listings /\ attempted' \subseteq Listings
         /\ quarantined' \subseteq Listings /\ outcomes' \in Outcomes
         /\ waves' \subseteq Record
    BY <1>1, <1>2, <1>3, <1>4, <1>5, <1>8
  <1> QED BY <1>1, <1>2, <1>6, <1>7, <1>8, <1>9, <1>10, <1>11 DEF TypeOK, StepTaken

LEMMA SaveRemembers ==
    ASSUME ReplenishmentAssumption, IInv, SaveWave
    PROVE  Walk(walked)' /\ Remembered' /\ Concluded' /\ Holding'
  <1> DEFINE p == held.record.plan
             out == held.out
             x == [plan |-> p, out |-> out]
  <1>1. /\ policy \in Policies /\ prior \in Outcomes /\ Walk(walked)
        /\ quarantined = FailedLast(walked, wave)
        /\ ended = "none"
    BY DEF IInv, TypeOK, Remembered, Concluded, SaveWave
  <1>2. /\ p = Following(walked) /\ ~ Stops(p) /\ OutFor(p, out) /\ p.wave = wave
        /\ x \in StepTaken /\ UNCHANGED session /\ walked' = Append(walked, x)
        /\ outcomes' = out /\ attempted' = DoneAfter(p) /\ held' = <<>>
        /\ wave' = WaveAfter(p, out)
        /\ quarantined' = IF Found(out) \/ Again(p, out) \/ Of(out, "failed") = {}
                          THEN quarantined ELSE quarantined \union Of(out, "failed")
    BY SaveIs
  <1>3. /\ Found(out) => pc' = "idle" /\ ended' = "SELECTABLE_OPPORTUNITY_FOUND"
        /\ ~ Found(out) => /\ pc' = "plan" /\ ended' = ended
                           /\ current' = KeysAfter(p, out) /\ retry' = RetryAfter(p, out)
    BY SaveIs DEF Return
  <1>4. x.plan = p /\ x.out = out
    OBVIOUS
  <1>5. Walk(walked')
    <2> HIDE DEF p, out, x
    <2> QED BY <1>1, <1>2, <1>4, WalkGrows
  <1>6. Latest(walked') = x /\ walked' # <<>>
    BY <1>1, <1>2, AppendIs DEF Walk, Planned
  <1>7. Following(walked') = PlanAfter(p, out)
    BY <1>4, <1>6 DEF Following
  <1>8. quarantined' = FailedLast(walked', wave')
    <2> HIDE DEF p, out, x
    <2>1. FailedLast(Append(walked, x), WaveAfter(x.plan, x.out)) =
              IF Found(x.out) \/ Again(x.plan, x.out) \/ Of(x.out, "failed") = {}
              THEN FailedLast(walked, x.plan.wave)
              ELSE FailedLast(walked, x.plan.wave) \union Of(x.out, "failed")
      BY <1>1, <1>2, <1>4, FailedLastGrows
    <2> QED BY <1>1, <1>2, <1>4, <2>1
  <1> HIDE DEF p, out, x
  <1>9. Walk(walked)'
    BY <1>2, <1>5, WalksFixed
  <1>10. Remembered'
    <2>1. quarantined' = FailedLast(walked, wave)'
      BY <1>2, <1>8, WalksFixed
    <2>2. Latest(walked)' = x
      BY <1>6 DEF Latest
    <2>3. \A a, b : /\ WaveAfter(a, b)' = WaveAfter(a, b)
                    /\ KeysAfter(a, b)' = KeysAfter(a, b)
                    /\ RetryAfter(a, b)' = RetryAfter(a, b)
                    /\ DoneAfter(a)' = DoneAfter(a)
      BY <1>2, StepsFixed DEF DoneAfter, NewlyAttempted
    <2> QED BY <1>2, <1>3, <1>4, <1>6, <2>1, <2>2, <2>3 DEF Remembered
  <1>11. Concluded'
    <2>1. Following(walked)' = PlanAfter(p, out)
      BY <1>2, <1>7, StepsFixed
    <2>2. CASE Found(out)
      <3>1. Stops(PlanAfter(p, out)) /\ PlanAfter(p, out).reason = "SELECTABLE_OPPORTUNITY_FOUND"
        BY <2>2, FoundStops
      <3> QED BY <1>3, <2>1, <2>2, <3>1 DEF Concluded, Stops
    <2>3. CASE ~ Found(out)
      BY <1>1, <1>3, <2>3 DEF Concluded, StopReasons
    <2> QED BY <2>2, <2>3
  <1>12. Holding'
    BY <1>2, <1>3 DEF Holding
  <1> QED BY <1>9, <1>10, <1>11, <1>12

(* The chain, walked to the record of the wave that is saved.              *)
LEMMA SaveExtends ==
    ASSUME ReplenishmentAssumption, IInv, SaveWave,
           NEW r, r = held.record, NEW W, W = waves \union {r}, \A c \in W : Lossless(c),
           NEW t, t = Append(walked, [plan |-> r.plan, out |-> held.out])
    PROVE  /\ \A c \in W : Shape(c)
           /\ Chained(W) /\ Reached(W, t)
           /\ first # <<>> => EndsWith(W, first)
           /\ quarantined' = FailedLastIn(W, WaveAfter(r.plan, held.out))
  <1> DEFINE p == r.plan
             out == held.out
             x == [plan |-> p, out |-> out]
  <1>1. /\ policy \in Policies /\ prior \in Outcomes /\ Walk(walked)
        /\ \A c \in waves : Shape(c)
        /\ r \in waves \/ \A c \in waves : c.plan # p
    BY DEF IInv, TypeOK, Ledger, Holding, SaveWave
  <1>2. /\ p = Following(walked) /\ p.wave = wave /\ Shape(r) /\ Faithful(r, out)
        /\ x \in StepTaken /\ ~ Stops(p) /\ GoodPlan(p) /\ OutFor(p, out)
        /\ quarantined' = IF Found(out) \/ Again(p, out) \/ Of(out, "failed") = {}
                          THEN quarantined ELSE quarantined \union Of(out, "failed")
    BY SaveIs
  <1>3. /\ Chained(waves) /\ Reached(waves, walked)
        /\ quarantined = FailedLastIn(waves, wave)
        /\ first # <<>> => EndsWith(waves, first)
    BY DEF IInv, Lineage
  <1>4. out = Resumed(r)
    BY <1>2 DEF Faithful
  <1>5. \A c \in W : Shape(c)
    BY <1>1, <1>2
  <1>6. Chained(W)
    <2>1. CASE r \in waves
      BY <1>3, <2>1
    <2>2. CASE \A c \in waves : c.plan # p
      BY <1>1, <1>2, <1>3, <2>2, ChainGrows
    <2> QED BY <1>1, <2>1, <2>2
  <1>7. Reached(W, t)
    <2>1. Latest(t) = x
      BY <1>1, <1>2, AppendIs DEF Walk, Planned
    <2> QED BY <1>4, <2>1 DEF Reached
  <1>8. first # <<>> => EndsWith(W, first)
    <2>1. CASE r \in waves
      <3>1. W = waves
        BY <2>1
      <3> QED BY <1>3, <3>1
    <2>2. CASE \A c \in waves : c.plan # p
      <3>1. ~ \E f : EndsWith(waves, f)
        BY <1>1, <1>2, <1>3, <2>2, NothingAfterTheEnd
      <3> QED BY <1>3, <3>1
    <2> QED BY <1>1, <2>1, <2>2
  <1>9. FailedLastIn(W, p.wave) = FailedLastIn(waves, wave)
    <2>1. ~ (p.wave < p.wave)
      BY <1>2, RecordTyped, <1>1
    <2>2. RecordsOfLast(W, p.wave) = RecordsOfLast(waves, p.wave)
      BY <2>1 DEF RecordsOfLast
    <2> QED BY <1>2, <2>2 DEF FailedLastIn
  <1>10. quarantined' = FailedLastIn(W, WaveAfter(p, out))
    <2>1. FailedLastIn(W, WaveAfter(p, out)) =
              IF Found(out) \/ Again(p, out) \/ Of(out, "failed") = {}
              THEN FailedLastIn(W, p.wave)
              ELSE FailedLastIn(W, p.wave) \union Of(out, "failed")
      <3>1. r \in W /\ p = r.plan /\ policy \in Policies
        BY <1>1
      <3> HIDE DEF p, out
      <3>2. FailedLastIn(W, WaveAfter(r.plan, Resumed(r))) =
                IF \/ Found(Resumed(r)) \/ Again(r.plan, Resumed(r))
                   \/ Of(Resumed(r), "failed") = {}
                THEN FailedLastIn(W, r.plan.wave)
                ELSE FailedLastIn(W, r.plan.wave) \union Of(Resumed(r), "failed")
        BY <1>5, <1>6, <3>1, FailedLastInGrows
      <3> QED BY <1>4, <3>1, <3>2
    <2> QED BY <1>2, <1>3, <1>9, <2>1
  <1> QED BY <1>5, <1>6, <1>7, <1>8, <1>10

LEMMA SaveKeepsLedger ==
    ASSUME ReplenishmentAssumption, IInv, SaveWave
    PROVE  Ledger' /\ Lineage'
  <1> DEFINE r == held.record
             W == waves \union {r}
             out == held.out
             t == Append(walked, [plan |-> r.plan, out |-> out])
  <1>1. /\ policy \in Policies /\ Shape(r) /\ ~ Stops(r.plan)
        /\ UNCHANGED session /\ waves' = W /\ walked' = t /\ outcomes' = out
        /\ wave' = WaveAfter(r.plan, out) /\ [plan |-> r.plan, out |-> out] \in StepTaken
    BY SaveIs
  <1>2. /\ Found(out) =>
              /\ Return("SELECTABLE_OPPORTUNITY_FOUND", Of(out, "opportunity"), quarantined)
              /\ quarantined' = quarantined
        /\ ~ Found(out) => ended' = ended /\ first' = first
    BY SaveIs
  <1>3. /\ ended = "none" /\ (\A c \in waves : Shape(c)) /\ OneRecordPerPlan
        /\ r \in waves \/ \A c \in waves : c.plan # r.plan
    BY DEF IInv, Ledger, Holding, Concluded, SaveWave
  <1>4. Ledger'
    <2>1. \A c \in W : Shape(c)'
      BY <1>1, <1>3, StepsFixed
    <2>2. \A a, b \in W : a.plan = b.plan => a = b
      BY <1>3 DEF OneRecordPerPlan
    <2> HIDE DEF W
    <2> QED BY <1>1, <2>1, <2>2 DEF Ledger, OneRecordPerPlan
  <1>5. Lineage'
    <2>1. SUFFICES ASSUME \A c \in W : Lossless(c) PROVE
              /\ Chained(waves)' /\ Reached(waves, walked)'
              /\ quarantined' = FailedLastIn(waves, wave)'
              /\ first' # <<>> => EndsWith(waves, first)'
              /\ ended' \in StopReasons =>
                    first' = ResultOf(ended', Of(outcomes', "opportunity"), quarantined')
      <3> HIDE DEF W
      <3> QED BY <1>1 DEF Lineage, Of, Lossless
    <2>2. /\ \A c \in W : Shape(c)
          /\ Chained(W) /\ Reached(W, t)
          /\ first # <<>> => EndsWith(W, first)
          /\ quarantined' = FailedLastIn(W, WaveAfter(r.plan, out))
      BY <2>1, SaveExtends
    <2>3. Chained(waves)' /\ Reached(waves, walked)' /\ quarantined' = FailedLastIn(waves, wave)'
      <3> HIDE DEF W, t
      <3>1. Chained(waves)' /\ quarantined' = FailedLastIn(waves, wave)'
        BY <1>1, <2>2, WalksFixed
      <3>2. Reached(waves, walked)'
        BY <1>1, <2>2 DEF Reached, Latest
      <3> QED BY <3>1, <3>2
    <2>4. CASE ~ Found(out)
      <3>1. first' # <<>> => EndsWith(waves, first)'
        BY <1>1, <1>2, <2>2, <2>4, WalksFixed
      <3> QED BY <1>2, <1>3, <2>3, <2>4, <3>1 DEF StopReasons
    <2>5. CASE Found(out)
      <3> DEFINE result == ResultOf("SELECTABLE_OPPORTUNITY_FOUND",
                                    Of(out, "opportunity"), quarantined')
      <3>1. /\ ended' = "SELECTABLE_OPPORTUNITY_FOUND"
            /\ first' = IF first = <<>> THEN result ELSE first
        BY <1>2, <2>5 DEF Return
      <3>2. EndsWith(W, result)
        <4>1. Latest(t) = [plan |-> r.plan, out |-> out] /\ t # <<>>
          BY <1>1, AppendIs DEF IInv, Walk, Planned
        <4>2. Following(t) = PlanAfter(r.plan, out)
          BY <4>1 DEF Following
        <4>3. Stops(Following(t)) /\ Following(t).reason = "SELECTABLE_OPPORTUNITY_FOUND"
          BY <2>5, <4>2, FoundStops
        <4>4. out = IF t = <<>> THEN prior ELSE Latest(t).out
          BY <4>1
        <4>5. WaveAfter(r.plan, out) =
                  IF t = <<>> THEN 1 ELSE WaveAfter(Latest(t).plan, Latest(t).out)
          BY <4>1
        <4> HIDE DEF W, t, out, r
        <4> QED BY <1>1, <2>2, <4>3, <4>4, <4>5, StopIsTheEnd
      <3>3. first' = result
        <4> HIDE DEF W, result
        <4> QED BY <1>1, <2>2, <3>1, <3>2, SameResult
      <3>4. EndsWith(waves, first)'
        <4> HIDE DEF W, result
        <4> QED BY <1>1, <3>2, <3>3, WalksFixed
      <3> QED BY <1>1, <2>3, <3>1, <3>3, <3>4
    <2> QED BY <2>4, <2>5
  <1> QED BY <1>4, <1>5

LEMMA SaveKeeps == ASSUME ReplenishmentAssumption, IInv, SaveWave PROVE IInv'
  BY SaveTyped, SaveRemembers, SaveKeepsLedger DEF IInv

LEMMA StutterKeeps == ASSUME IInv, UNCHANGED vars PROVE IInv'
  <1>1. /\ UNCHANGED <<session, waves, memory>> /\ UNCHANGED session /\ pc' = pc
        /\ UNCHANGED <<session, waves, memory, crashes, runs>>
        /\ held' = held /\ ended' = ended /\ first' = first
        /\ waves' = waves /\ walked' = walked /\ wave' = wave
        /\ quarantined' = quarantined /\ outcomes' = outcomes
    BY DEF vars, observed, memory
  <1>2. Walk(walked)' /\ Ledger' /\ Following(walked)' = Following(walked)
    BY <1>1, SearchStands
  <1>3. Remembered'
    BY <1>1, SearchStands
  <1>4. TypeOK'
    <2>1. /\ pc \in {"idle", "plan", "save"} /\ ended \in StopReasons \union {"none", "crashed"}
          /\ held # <<>> => held.record \in Record /\ held.out \in Outcomes
      BY DEF IInv, TypeOK
    <2> QED BY <1>1, <2>1, RestTyped DEF IInv
  <1>5. Concluded'
    BY <1>1, <1>2 DEF IInv, Concluded, Stops
  <1>6. Holding'
    <2>1. \A r : Shape(r)' <=> Shape(r)
      BY <1>1, StepsFixed
    <2>2. \A r, out : Faithful(r, out)' <=> Faithful(r, out)
      BY DEF Faithful, OutFor, Of, Lossless, Resumed, RebuiltFromReason, AllOf
    <2> QED BY <1>1, <1>2, <2>1, <2>2 DEF IInv, Holding
  <1>7. Lineage'
    BY <1>1, WalksFixed DEF IInv, Lineage, Reached, Latest, Of, Lossless, ResultOf
  <1> QED BY <1>2, <1>3, <1>4, <1>5, <1>6, <1>7 DEF IInv

-----------------------------------------------------------------------------
(* What follows from it.                                                   *)

LEMMA InvDisciplined ==
    ASSUME ReplenishmentAssumption, IInv
    PROVE  SearchDiscipline
  <1>1. policy \in Policies /\ Walk(walked) /\ Len(walked) \in Nat
        /\ (walked = <<>> <=> Len(walked) = 0)
    BY DEF IInv, TypeOK
  <1>2. FreshListings
    <2>1. Advances = AdvancesOf(walked)
      BY DEF Advances, AdvancesOf, Walked
    <2>2. \A i, j \in Advances :
              i # j => walked[i].plan.selected \intersect walked[j].plan.selected = {}
      BY <1>1, <2>1 DEF Walk, Taken
    <2>3. attempted = TakenBy(walked)
      <3>1. CASE walked = <<>>
        BY <1>1, <3>1 DEF IInv, Remembered, TakenBy
      <3>2. CASE walked # <<>>
        BY <1>1, <3>2 DEF IInv, Remembered, Walk, Taken
      <3> QED BY <3>1, <3>2
    <2> QED BY <2>2, <2>3 DEF FreshListings, TakenBy, Walked
  <1>3. RetryDiscipline
    <2> SUFFICES ASSUME NEW i \in Walked \ {Len(walked)}
                 PROVE  LET before == walked[i].plan
                            after == walked[i + 1].plan
                            again == FailedAt(i) # {} /\ before.retry < MaxRetries
                        IN  /\ (after.disposition = "RETRY_CURRENT") = again
                            /\ again => /\ after.wave = before.wave
                                        /\ after.selected = before.selected
                                        /\ after.retry = before.retry + 1
                            /\ ~ again => after.wave = before.wave + 1 /\ after.retry = 0
      BY DEF RetryDiscipline
    <2> DEFINE before == walked[i].plan
               after == walked[i + 1].plan
               out == walked[i].out
    <2>1. i \in 1 .. Len(walked) /\ i < Len(walked)
      BY <1>1 DEF Walked
    <2>2. /\ GoodPlan(before)
          /\ Again(before, out) =>
                /\ after.disposition = "RETRY_CURRENT" /\ after.wave = before.wave
                /\ after.selected = before.selected /\ after.retry = before.retry + 1
          /\ ~ Again(before, out) =>
                /\ after.disposition = "ADVANCE_FRONTIER" /\ after.wave = before.wave + 1
                /\ after.retry = 0
      BY <1>1, <2>1, WalkSteps
    <2>3. Again(before, out) <=> FailedAt(i) # {} /\ before.retry < MaxRetries
      <3>1. MaxRetries \in Nat /\ before.retry \in Nat
        BY <1>1, <2>2, GoodPlanIs
      <3>2. Of(out, "failed") = FailedAt(i)
        BY DEF FailedAt
      <3> HIDE DEF before, out
      <3> QED BY <3>1, <3>2 DEF Again, Exhausted
    <2> QED BY <2>2, <2>3
  <1>4. QuarantineExact
    <2>1. LastRetries(walked, wave) = {k \in Finished : walked[k].plan.retry = MaxRetries}
      BY DEF LastRetries, Finished, Walked
    <2> QED BY <2>1 DEF IInv, Remembered, QuarantineExact, FailedLast, FailedAt
  <1> QED BY <1>2, <1>3, <1>4 DEF SearchDiscipline

LEMMA WavesOfSteps ==
    ASSUME NEW m \in Nat, NEW w \in Nat, NEW most \in Nat, w <= most
    PROVE  w * (1 + m) <= most * (1 + m)
  <1>1. PICK d \in Nat : most = w + d
    <2>1. most - w \in Nat /\ most = w + (most - w)
      OBVIOUS
    <2> QED BY <2>1
  <1>2. most * (1 + m) = w * (1 + m) + d * (1 + m)
    BY <1>1
  <1>3. d * (1 + m) \in Nat /\ w * (1 + m) \in Nat
    OBVIOUS
  <1> QED BY <1>2, <1>3

LEMMA InvBounded ==
    ASSUME ReplenishmentAssumption, IInv
    PROVE  BoundedSearch
  <1> DEFINE last == Latest(walked).plan
  <1>1. /\ policy \in Policies /\ Walk(walked) /\ Len(walked) \in Nat
        /\ (walked = <<>> <=> Len(walked) = 0)
        /\ MaxWaves \in Nat /\ MaxRetries \in Nat
    BY PolicyTyped DEF IInv, TypeOK
  <1>2. \A i \in Walked : GoodPlan(walked[i].plan)
    <2> TAKE i \in Walked
    <2>1. i \in 1 .. Len(walked) /\ Planned(walked)
      BY <1>1 DEF Walk, Walked
    <2> QED BY <2>1 DEF Planned
  <1>3. \A i \in Walked : walked[i].plan.retry <= MaxRetries
    <2> TAKE i \in Walked
    <2>1. GoodPlan(walked[i].plan)
      BY <1>2
    <2> QED BY <1>1, <2>1, GoodPlanIs
  <1>4. Advances = AdvancesOf(walked)
    BY DEF Advances, AdvancesOf, Walked
  <1>5. CASE walked = <<>>
    <2>1. Cardinality(Advances) = 0 /\ Len(walked) = 0
      BY <1>1, <1>4, <1>5 DEF Walk, Counted
    <2>2. MaxWaves * (1 + MaxRetries) \in Nat
      BY <1>1
    <2> QED BY <1>1, <1>3, <2>1, <2>2 DEF BoundedSearch, IInv
  <1>6. CASE walked # <<>>
    <2>1. Len(walked) \in Walked /\ Latest(walked) = walked[Len(walked)]
      BY <1>1, <1>6 DEF Walked, Latest
    <2>2. last.wave \in 1 .. MaxWaves /\ last.retry \in 0 .. MaxRetries
      BY <1>2, <2>1 DEF GoodPlan
    <2>3. Cardinality(Advances) = last.wave
      BY <1>1, <1>4, <1>6 DEF Walk, Counted
    <2>4. Len(walked) <= (last.wave - 1) * (1 + MaxRetries) + last.retry + 1
      BY <1>1, <1>6 DEF Walk, Counted
    <2> HIDE DEF last
    <2>5. last.wave \in Nat /\ last.wave >= 1 /\ last.wave <= MaxWaves
      BY <1>1, <2>2
    <2>6. Len(walked) <= last.wave * (1 + MaxRetries)
      BY <1>1, <2>2, <2>4, <2>5, WaveOfSteps
    <2>7. last.wave * (1 + MaxRetries) <= MaxWaves * (1 + MaxRetries)
      BY <1>1, <2>5, WavesOfSteps
    <2>8. last.wave * (1 + MaxRetries) \in Nat /\ MaxWaves * (1 + MaxRetries) \in Nat
      BY <1>1, <2>5
    <2>9. Len(walked) <= MaxWaves * (1 + MaxRetries)
      BY <1>1, <2>6, <2>7, <2>8
    <2> QED BY <1>3, <2>3, <2>5, <2>9 DEF BoundedSearch, IInv
  <1> QED BY <1>5, <1>6

LEMMA InvReason ==
    ASSUME ReplenishmentAssumption, IInv
    PROVE  ReasonTrue
  <1> DEFINE over == ended \in {"UNIVERSE_EXHAUSTED", "REPLENISHMENT_BUDGET_EXHAUSTED"}
  <1>1. /\ policy \in Policies /\ Walk(walked) /\ Len(walked) \in Nat /\ prior \in Outcomes
        /\ (walked = <<>> <=> Len(walked) = 0) /\ attempted \subseteq Listings
        /\ ended \in StopReasons \union {"none", "crashed"}
    BY DEF IInv, TypeOK
  <1>2. CASE ended \notin StopReasons
    BY <1>1, <1>2 DEF ReasonTrue, StopReasons
  <1>3. CASE ended \in StopReasons
    <2>1. /\ pc = "idle" /\ Stops(Following(walked)) /\ Following(walked).reason = ended
          /\ ended # "none" /\ ended # "crashed"
      BY <1>3 DEF IInv, Concluded, StopReasons
    <2>2. CASE walked = <<>>
      <3>1. outcomes = prior /\ attempted = {} /\ Following(walked) = FirstPlan
            /\ Walked = {}
        BY <1>1, <2>2 DEF IInv, Remembered, Following, Walked
      <3>2. ended = Decision(1, prior, {}, {}, 0)
        BY <2>1, <3>1, PlanIs DEF FirstPlan, Stops
      <3>3. /\ (ended = "SELECTABLE_OPPORTUNITY_FOUND") = (Of(outcomes, "opportunity") # {})
            /\ ended = "SAFETY_BLOCK" => Of(outcomes, "fatal") # {}
            /\ ended = "PENDING_DIRECTIONAL_WORK" => Of(outcomes, "pending") # {}
            /\ over => NextBatch({}) = {} \/ ~ WithinBudget(1)
        BY <3>1, <3>2, StopIs
      <3>4. over => attempted = Listings
        <4>1. WithinBudget(1)
          BY <1>1, PolicyTyped DEF WithinBudget
        <4>2. NextBatch({}) = {} => Listings \subseteq {}
          BY <1>1, BatchOfFrontier
        <4> QED BY <3>1, <3>3, <4>1, <4>2
      <3> QED BY <2>1, <3>1, <3>3, <3>4 DEF ReasonTrue
    <2>3. CASE walked # <<>>
      <3> DEFINE n == Len(walked)
                 p == Latest(walked).plan
                 out == Latest(walked).out
      <3>1. /\ n \in 1 .. n /\ Latest(walked) = walked[n] /\ outcomes = out
            /\ attempted = DoneAfter(p) /\ Following(walked) = PlanAfter(p, out)
            /\ quarantined = FailedLast(walked, wave) /\ wave = WaveAfter(p, out)
        BY <1>1, <2>3 DEF IInv, Remembered, Following, Latest
      <3>2. GoodPlan(p) /\ OutFor(p, out)
        BY <1>1, <3>1 DEF Walk, Planned
      <3>3. /\ (ended = "SELECTABLE_OPPORTUNITY_FOUND") = Found(out)
            /\ ended = "SAFETY_BLOCK" => Of(out, "fatal") # {}
            /\ ended = "PENDING_DIRECTIONAL_WORK" => Of(out, "pending") # {}
            /\ over =>
                  /\ ~ Found(out) /\ Of(out, "fatal") = {} /\ Of(out, "pending") = {}
                  /\ ~ Again(p, out) /\ (DoneAfter(p) = Listings \/ p.wave = MaxWaves)
        BY <1>1, <2>1, <3>1, <3>2, EndIs
      <3>4. ASSUME over
            PROVE  /\ attempted = Listings \/ Cardinality(Advances) = MaxWaves
                   /\ \A i \in Walked :
                         /\ Of(walked[i].out, "opportunity") = {}
                         /\ Of(walked[i].out, "fatal") = {}
                         /\ Of(walked[i].out, "pending") # {} =>
                                 FailedAt(i) # {} /\ walked[i].plan.retry < MaxRetries
                         /\ FailedAt(i) # {} /\ walked[i].plan.retry = MaxRetries =>
                                 FailedAt(i) \subseteq quarantined
        <4>1. Cardinality(Advances) = p.wave
          <5>1. Advances = AdvancesOf(walked)
            BY DEF Advances, AdvancesOf, Walked
          <5> QED BY <1>1, <2>3, <5>1 DEF Walk, Counted
        <4>2. wave = p.wave + 1 /\ p.wave \in Nat
          <5>1. p.wave \in Nat
            BY <1>1, <3>2, GoodPlanIs
          <5> QED BY <3>1, <3>3, <3>4, <5>1 DEF WaveAfter
        <4>3. ASSUME NEW i \in Walked
              PROVE  /\ GoodPlan(walked[i].plan) /\ ~ Found(walked[i].out)
                     /\ Of(walked[i].out, "fatal") = {}
                     /\ ~ Again(walked[i].plan, walked[i].out) => Of(walked[i].out, "pending") = {}
                     /\ walked[i].plan.wave < wave
          <5>1. CASE i = n
            BY <3>1, <3>2, <3>3, <3>4, <4>2, <5>1
          <5>2. CASE i # n
            <6>1. i \in 1 .. Len(walked) /\ i < Len(walked) /\ n \in 1 .. Len(walked)
              BY <1>1, <3>1, <5>2 DEF Walked
            <6>2. /\ GoodPlan(walked[i].plan) /\ ~ Found(walked[i].out)
                  /\ Of(walked[i].out, "fatal") = {}
                  /\ ~ Again(walked[i].plan, walked[i].out) => Of(walked[i].out, "pending") = {}
              BY <1>1, <6>1, WalkSteps
            <6>3. Before(walked[i].plan, p)
              BY <1>1, <3>1, <6>1 DEF Walk, Ascending
            <6>4. walked[i].plan.wave \in Nat
              BY <1>1, <6>2, GoodPlanIs
            <6>5. walked[i].plan.wave < wave
              BY <4>2, <6>3, <6>4 DEF Before
            <6> QED BY <6>2, <6>5
          <5> QED BY <5>1, <5>2
        <4>4. ASSUME NEW i \in Walked
              PROVE  /\ Of(walked[i].out, "opportunity") = {}
                     /\ Of(walked[i].out, "fatal") = {}
                     /\ Of(walked[i].out, "pending") # {} =>
                             FailedAt(i) # {} /\ walked[i].plan.retry < MaxRetries
                     /\ FailedAt(i) # {} /\ walked[i].plan.retry = MaxRetries =>
                             FailedAt(i) \subseteq quarantined
          <5>1. /\ GoodPlan(walked[i].plan) /\ ~ Found(walked[i].out)
                /\ Of(walked[i].out, "fatal") = {}
                /\ ~ Again(walked[i].plan, walked[i].out) => Of(walked[i].out, "pending") = {}
                /\ walked[i].plan.wave < wave
            BY <4>3
          <5>2. Again(walked[i].plan, walked[i].out) =>
                    FailedAt(i) # {} /\ walked[i].plan.retry < MaxRetries
            <6>1. /\ walked[i].plan.retry \in Nat /\ walked[i].plan.retry <= MaxRetries
                  /\ MaxRetries \in Nat
              BY <1>1, <5>1, GoodPlanIs
            <6> QED BY <6>1 DEF Again, Exhausted, FailedAt
          <5>3. walked[i].plan.retry = MaxRetries => i \in LastRetries(walked, wave)
            BY <5>1 DEF LastRetries, Found, Walked
          <5>4. i \in LastRetries(walked, wave) => FailedAt(i) \subseteq quarantined
            BY <3>1 DEF FailedLast, FailedAt
          <5> QED BY <5>1, <5>2, <5>3, <5>4 DEF Found
        <4> QED BY <3>1, <3>3, <3>4, <4>1, <4>4
      <3>5. /\ ended = "PENDING_DIRECTIONAL_WORK" => Of(outcomes, "pending") # {}
            /\ ended = "SAFETY_BLOCK" => Of(outcomes, "fatal") # {}
            /\ (ended = "SELECTABLE_OPPORTUNITY_FOUND") = (Of(outcomes, "opportunity") # {})
        BY <3>1, <3>3 DEF Found
      <3> QED BY <2>1, <3>4, <3>5 DEF ReasonTrue
    <2> QED BY <2>2, <2>3
  <1> QED BY <1>2, <1>3

LEMMA InvLedgerExact ==
    ASSUME ReplenishmentAssumption, IInv
    PROVE  LedgerExact
  <1>1. policy \in Policies /\ OneRecordPerPlan /\ \A r \in waves : Shape(r)
    BY DEF IInv, TypeOK, Ledger
  <1>2. ASSUME \A r \in waves : Lossless(r), NEW a \in waves, NEW b \in waves,
               a.plan.wave = b.plan.wave, a.plan.retry = b.plan.retry
        PROVE  a = b
    <2>1. a = b \/ Before(a.plan, b.plan) \/ Before(b.plan, a.plan)
      BY <1>2 DEF IInv, Lineage, Chained
    <2>2. /\ a.plan.wave \in Nat /\ a.plan.retry \in Nat
          /\ b.plan.wave \in Nat /\ b.plan.retry \in Nat
      BY <1>1, RecordTyped
    <2> QED BY <1>2, <2>1, <2>2, BeforeIrreflexive
  <1> QED BY <1>1, <1>2 DEF LedgerExact, OneRecordPerAttempt

LEMMA InvReplayFaithful ==
    ASSUME ReplenishmentAssumption, IInv
    PROVE  ReplayFaithful
  <1>1. ReplayAccepted
    <2>1. CASE pc = "save"
      BY <2>1 DEF IInv, Holding, Faithful, ReplayAccepted
    <2>2. CASE pc # "save"
      BY <2>2 DEF IInv, Holding, ReplayAccepted
    <2> QED BY <2>1, <2>2
  <1>2. SameResultOnReplay
    BY DEF IInv, Lineage, SameResultOnReplay
  <1> QED BY <1>1, <1>2 DEF ReplayFaithful

LEMMA NextKeeps ==
    ASSUME ReplenishmentAssumption, IInv, [Next]_vars
    PROVE  IInv'
  <1>1. CASE Begin
    BY <1>1, BeginKeeps
  <1>2. CASE Stop
    BY <1>2, StopKeeps
  <1>3. CASE Resume
    BY <1>3, ResumeKeeps
  <1>4. CASE Execute
    BY <1>4, ExecuteKeeps
  <1>5. CASE SaveWave
    BY <1>5, SaveKeeps
  <1>6. CASE Crash
    BY <1>6, CrashKeeps
  <1>7. CASE Settled \/ UNCHANGED vars
    BY <1>7, StutterKeeps DEF Settled
  <1> QED BY <1>1, <1>2, <1>3, <1>4, <1>5, <1>6, <1>7 DEF Next, Step

(* The invariant holds in every state of every session.                    *)
THEOREM Invariance == Spec => []IInv
  <1>1. Init => IInv
    BY InitInv, ReplenishmentAssumption
  <1>2. IInv /\ [Next]_vars => IInv'
    BY NextKeeps, ReplenishmentAssumption
  <1> QED BY <1>1, <1>2, PTL DEF Spec

(* The loop of run takes new listings only, and again only those of a wave *)
(* that failed, as often as max_transient_retries says; it quarantines what*)
(* still failed then and nothing else (_retry_exhausted_evidence).         *)
THEOREM SearchIsDisciplined == Spec => []SearchDiscipline
  <1>1. IInv => SearchDiscipline
    BY InvDisciplined, ReplenishmentAssumption
  <1> QED BY <1>1, Invariance, PTL

(* Whatever an invocation replays, it takes no more waves and steps than   *)
(* its policy allows and ends for the reason it states: exhaustion only    *)
(* with nothing left and nothing passed over.                              *)
THEOREM StopsAreJustified == Spec => []StopJustified
  <1>1. IInv => StopJustified
    BY InvBounded, InvReason, ReplenishmentAssumption DEF StopJustified
  <1> QED BY <1>1, Invariance, PTL

(* save_wave never stores two records for one plan; nor, where every record*)
(* tells what its wave came to, for one attempt at one wave.               *)
THEOREM LedgerIsExact == Spec => []LedgerExact
  <1>1. IInv => LedgerExact
    BY InvLedgerExact, ReplenishmentAssumption
  <1> QED BY <1>1, Invariance, PTL

(* resume never meets a record whose opportunities differ from what it     *)
(* rebuilds, and a session invoked again comes to the result it first      *)
(* returned, wherever the ledger tells all.                                *)
THEOREM ReplayIsFaithful == Spec => []ReplayFaithful
  <1>1. IInv => ReplayFaithful
    BY InvReplayFaithful, ReplenishmentAssumption
  <1> QED BY <1>1, Invariance, PTL
=============================================================================
