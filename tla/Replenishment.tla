---------------------------- MODULE Replenishment ----------------------------
(***************************************************************************)
(* Bounded candidate replenishment: Stage4CandidateReplenishmentService.run*)
(* (app/e2e/stage4_replenishment_service.py), the planner it calls         *)
(* (stage4_replenishment.py), the canonical wave executor                  *)
(* (stage4_replenishment_runtime.py) and the append-only wave ledger       *)
(* (stage4_replenishment_store.py).                                        *)
(*                                                                         *)
(* One session, invoked any number of times.  Nothing but the ledger       *)
(* outlives an invocation: each one starts from the session's inputs, asks *)
(* the planner for the next wave and either replays the record stored for  *)
(* exactly that plan or executes the plan and stores its record.           *)
(*                                                                         *)
(* Listings are numbered in the session's frontier order, which the        *)
(* persisted ranking and the session seed fix: the next batch is the one   *)
(* of the smallest numbers.  An outcome is a pair <<listing, class>>; the  *)
(* two directional hypotheses of a listing give it one or two classes.     *)
(***************************************************************************)
EXTENDS Naturals, FiniteSets, Sequences

CONSTANTS
    Listings,       \* the acquirable frontier of the session
    Routes,         \* history routes: STANDARD, or REVIEW for the other three
    Policies        \* policies of sessions, each with its bounds (see policy)

Root == 0           \* stands for all listings of the root run

(* What classify_directional_outcomes tells apart: terminal exclusions,    *)
(* created opportunities, PROCESSING_FAILED (retryable), any other status  *)
(* that is not terminal, and ORCHESTRATION_INVARIANT_VIOLATION.            *)
Classes == {"excluded", "opportunity", "failed", "pending", "fatal"}

StopReasons == {"SELECTABLE_OPPORTUNITY_FOUND", "PENDING_DIRECTIONAL_WORK",
                "UNIVERSE_EXHAUSTED", "REPLENISHMENT_BUDGET_EXHAUSTED",
                "SAFETY_BLOCK"}
RecordReasons == {"NONE", "CACHE_ONLY_MISS", "EVIDENCE_UNAVAILABLE",
                  "ORCHESTRATION_INVARIANT_VIOLATION", "PROCESSING_FAILED"}

ASSUME ReplenishmentAssumption ==
    /\ Listings \subseteq Nat \ {Root} /\ IsFiniteSet(Listings)
    /\ Routes \subseteq {"STANDARD", "REVIEW"}
    /\ Policies \subseteq [batch : Nat \ {0}, waves : Nat \ {0}, retries : Nat,
                          childClasses : SUBSET (Classes \ {"fatal"}),
                          priorClasses : SUBSET (Classes \ {"fatal"}),
                          crashes : Nat, runs : Nat]

Outcomes == SUBSET ((Listings \union {Root}) \X Classes)

(* CandidateWavePlan.  Its fingerprint covers every field; seen stands for *)
(* the diagnostics, which summarise the prior outcomes.                    *)
Plan == [wave : Nat, disposition : {"RETRY_CURRENT", "ADVANCE_FRONTIER",
                                    "STOP_FAIL_CLOSED"},
         reason : StopReasons \union {"NONE"}, selected : SUBSET Listings,
         attempted : SUBSET Listings, retry : Nat, seen : Outcomes]

(* CandidateWaveRecord; child is what the integration store holds for its  *)
(* research_run_id, empty when it has none.                                *)
Record == [plan : Plan, reason : RecordReasons, child : Outcomes,
           opportunities : SUBSET Listings]

VARIABLES
    policy,         \* ReplenishmentPolicy, and the bounds of its behaviours
    cacheOnly,      \* "yes" when session.mode is CACHE_ONLY
    prior,          \* the directional outcomes of the root run
    waves,          \* stage4_candidate_replenishment_waves
    pc,             \* "idle", at the planner ("plan") or before save_wave
    wave,           \* wave_index
    retry,          \* retry_count
    current,        \* current: the listings a retry would take
    outcomes,       \* outcomes
    attempted,      \* attempted
    quarantined,    \* quarantined_listing_keys
    walked,         \* wave_record_ids, each with the outcomes it gave
    held,           \* the CandidateWaveExecution about to be saved, <<>> if none
    ended,          \* observation: "none", "crashed" or the reason returned
    crashes,        \* observation: process deaths
    runs,           \* observation: invocations that were not a recovery
    first           \* observation: the first result the session returned

session == <<policy, cacheOnly, prior>>
memory == <<wave, retry, current, outcomes, attempted, quarantined, walked>>
observed == <<crashes, runs, first>>
vars == <<session, waves, pc, memory, held, ended, observed>>

BatchSize == policy.batch           \* listing_batch_size
MaxWaves == policy.waves            \* max_waves
MaxRetries == policy.retries        \* max_transient_retries
ChildClasses == policy.childClasses \* classes of the outcomes of a child run
PriorClasses == policy.priorClasses \* classes the root run may have left
MaxCrashes == policy.crashes        \* bound: process deaths
MaxRuns == policy.runs              \* bound: invocations that recover from none

-----------------------------------------------------------------------------
(* The planner.                                                            *)

Of(out, class) == {l \in Listings \union {Root} : <<l, class>> \in out}
AllOf(keys, class) == keys \X {class}

(* The first listings of the frontier that is left.                        *)
NextBatch(done) ==
    LET frontier == Listings \ done
    IN  {l \in frontier : Cardinality({k \in frontier : k < l}) < BatchSize}

(* The retry budget is left and there is something to retry.               *)
RetryLeft(r, keys) == r < MaxRetries /\ keys # {}

(* Wave indices within the budget.                                         *)
WithinBudget(w) == w <= MaxWaves

(* What the planner decides, in the order it asks.  The mutant asks about  *)
(* pending work after the frontier.                                        *)
PendingLast(w, seen, done, keys, r) ==
    IF Of(seen, "opportunity") # {} THEN "SELECTABLE_OPPORTUNITY_FOUND"
    ELSE IF Of(seen, "fatal") # {} THEN "SAFETY_BLOCK"
    ELSE IF Of(seen, "failed") # {} /\ RetryLeft(r, keys) THEN "RETRY_CURRENT"
    ELSE IF ~WithinBudget(w) THEN "REPLENISHMENT_BUDGET_EXHAUSTED"
    ELSE IF NextBatch(done) = {} THEN "UNIVERSE_EXHAUSTED"
    ELSE "ADVANCE_FRONTIER"
Decision(w, seen, done, keys, r) ==
    IF Of(seen, "opportunity") # {} THEN "SELECTABLE_OPPORTUNITY_FOUND"
    ELSE IF Of(seen, "fatal") # {} THEN "SAFETY_BLOCK"
    ELSE IF Of(seen, "failed") # {} /\ RetryLeft(r, keys) THEN "RETRY_CURRENT"
    ELSE IF Of(seen, "pending") # {} THEN "PENDING_DIRECTIONAL_WORK"
    ELSE IF ~WithinBudget(w) THEN "REPLENISHMENT_BUDGET_EXHAUSTED"
    ELSE IF NextBatch(done) = {} THEN "UNIVERSE_EXHAUSTED"
    ELSE "ADVANCE_FRONTIER"

(* The attempt a retry is.                                                 *)
CountedRetry(r) == r + 1

(* plan_candidate_wave.                                                    *)
PlanWave(w, seen, done, keys, r) ==
    LET decision == Decision(w, seen, done, keys, r)
        made(disposition, reason, selected, count) ==
            [wave |-> w, disposition |-> disposition, reason |-> reason,
             selected |-> selected, attempted |-> done, retry |-> count,
             seen |-> seen]
        unretried == IF Of(seen, "failed") # {} THEN 0 ELSE r
    IN  IF decision = "RETRY_CURRENT"
        THEN made("RETRY_CURRENT", "NONE", keys, CountedRetry(r))
        ELSE IF decision = "ADVANCE_FRONTIER"
        THEN made("ADVANCE_FRONTIER", "NONE", NextBatch(done), unretried)
        ELSE made("STOP_FAIL_CLOSED", decision, {},
                  IF decision \in {"SELECTABLE_OPPORTUNITY_FOUND", "SAFETY_BLOCK"}
                  THEN r ELSE unretried)

NextPlan == PlanWave(wave, outcomes, attempted, current, retry)
Stopping == NextPlan.disposition = "STOP_FAIL_CLOSED"

-----------------------------------------------------------------------------
(* The executor.                                                           *)

Executed(p, reason, child, out) ==
    [record |-> [plan |-> p, reason |-> reason, child |-> child,
                 opportunities |-> Of(out, "opportunity")],
     out |-> out]

(* The directional outcomes a child run may store for these listings.      *)
ChildOutcomes(keys) ==
    {out \in SUBSET (keys \X ChildClasses) :
        \A l \in keys : Cardinality({o \in out : o[1] = l}) \in {1, 2}}

(* _partition_history_routes: the listings that are not STANDARD.          *)
ReviewSets(p) ==
    {review \in SUBSET p.selected :
        /\ "REVIEW" \notin Routes => review = {}
        /\ "STANDARD" \notin Routes => review = p.selected}

(* The child run covers the STANDARD listings; the others are terminally   *)
(* excluded.  Without a child the record only says EVIDENCE_UNAVAILABLE.   *)
RoutedExecutions(p) ==
    UNION {{Executed(p, IF review = p.selected THEN "EVIDENCE_UNAVAILABLE"
                        ELSE "NONE",
                     child, child \union AllOf(review, "excluded")) :
                child \in ChildOutcomes(p.selected \ review)} :
           review \in ReviewSets(p)}

(* execute: a cache miss, or whatever the LIVE acquisition comes to; its   *)
(* exceptions become failed outcomes, a wrong outcome count fatal ones.    *)
Executions(p) ==
    IF cacheOnly = "yes"
    THEN {Executed(p, "CACHE_ONLY_MISS", {}, AllOf(p.selected, "pending"))}
    ELSE RoutedExecutions(p) \union
         {Executed(p, "PROCESSING_FAILED", {}, AllOf(p.selected, "failed")),
          Executed(p, "ORCHESTRATION_INVARIANT_VIOLATION", {},
                   AllOf(p.selected, "fatal"))}

(* resume: the outcomes rebuilt from a stored record.  The mutant reads    *)
(* the reason and never the child's outcomes.                              *)
RebuiltFromReason(record) ==
    AllOf(record.plan.selected,
          IF record.reason = "CACHE_ONLY_MISS" THEN "pending"
          ELSE IF record.reason = "ORCHESTRATION_INVARIANT_VIOLATION" THEN "fatal"
          ELSE "failed")
Resumed(record) ==
    IF record.child # {} THEN record.child ELSE RebuiltFromReason(record)

-----------------------------------------------------------------------------
(* The actions.                                                            *)

FreshMemory ==
    /\ wave' = 1 /\ retry' = 0 /\ current' = {}
    /\ outcomes' = prior /\ attempted' = {} /\ quarantined' = {}
    /\ walked' = <<>>

Init ==
    /\ policy \in Policies
    /\ cacheOnly \in {"yes", "no"}
    /\ prior \in {{}} \union {{<<Root, c>>} : c \in PriorClasses}
    /\ waves = {}
    /\ pc = "idle"
    /\ wave = 1 /\ retry = 0 /\ current = {} /\ outcomes = prior
    /\ attempted = {} /\ quarantined = {} /\ walked = <<>>
    /\ held = <<>> /\ ended = "none"
    /\ crashes = 0 /\ runs = 0 /\ first = <<>>

(* The operator invokes the session, for the first time or again.          *)
Begin ==
    /\ pc = "idle"
    /\ ended = "crashed" \/ runs < MaxRuns
    /\ runs' = IF ended = "crashed" THEN runs ELSE runs + 1
    /\ pc' = "plan" /\ ended' = "none"
    /\ FreshMemory
    /\ UNCHANGED <<session, waves, held, crashes, first>>

(* The result object; only its first occurrence is remembered.             *)
ResultOf(reason, found, failed) ==
    [reason |-> reason, opportunities |-> found, quarantined |-> failed]

Return(reason, found, failed) ==
    /\ pc' = "idle" /\ ended' = reason
    /\ first' = IF first = <<>> THEN ResultOf(reason, found, failed) ELSE first

Stop ==
    /\ pc = "plan"
    /\ Stopping
    /\ Return(NextPlan.reason, Of(outcomes, "opportunity"), quarantined)
    /\ UNCHANGED <<session, waves, memory, held, crashes, runs>>

(* get_wave_by_plan_fingerprint finds the record of this very plan; the    *)
(* mutant never finds one.                                                 *)
NeverFound(record, p) == FALSE
RecordOf(record, p) == record.plan = p

Resume ==
    /\ pc = "plan"
    /\ ~Stopping
    /\ \E record \in waves :
          /\ RecordOf(record, NextPlan)
          /\ held' = [record |-> record, out |-> Resumed(record)]
    /\ pc' = "save"
    /\ UNCHANGED <<session, waves, memory, ended, observed>>

Execute ==
    /\ pc = "plan"
    /\ ~Stopping
    /\ \A record \in waves : ~RecordOf(record, NextPlan)
    /\ held' \in Executions(NextPlan)
    /\ pc' = "save"
    /\ UNCHANGED <<session, waves, memory, ended, observed>>

(* The listings a wave adds to attempted.                                  *)
NewlyAttempted(p) == IF p.disposition = "ADVANCE_FRONTIER" THEN p.selected ELSE {}

(* The retry budget of this plan is used up; the mutant is off by one.     *)
ExhaustedLate(p) == p.retry > MaxRetries
Exhausted(p) == p.retry >= MaxRetries

(* _retry_exhausted_evidence: the listings whose outcomes failed.          *)
RetryExhausted(out) == Of(out, "failed")

(* save_wave, then the rest of the loop body.                              *)
SaveWave ==
    LET p == held.record.plan
        failed == Of(held.out, "failed")
        found == Of(held.out, "opportunity")
    IN  /\ pc = "save"
        /\ waves' = waves \union {held.record}
        /\ walked' = Append(walked, [plan |-> p, out |-> held.out])
        /\ attempted' = attempted \union NewlyAttempted(p)
        /\ outcomes' = held.out
        /\ held' = <<>>
        /\ IF found # {}
           THEN /\ Return("SELECTABLE_OPPORTUNITY_FOUND", found, quarantined)
                /\ UNCHANGED <<wave, retry, current, quarantined>>
           ELSE /\ pc' = "plan"
                /\ IF failed # {} /\ ~Exhausted(p)
                   THEN /\ current' = p.selected
                        /\ retry' = p.retry
                        /\ UNCHANGED <<wave, quarantined>>
                   ELSE /\ current' = {}
                        /\ retry' = IF failed = {} THEN 0 ELSE MaxRetries
                        /\ wave' = wave + 1
                        /\ quarantined' =
                              IF failed = {} THEN quarantined
                              ELSE quarantined \union RetryExhausted(held.out)
                /\ UNCHANGED <<ended, first>>
        /\ UNCHANGED <<session, crashes, runs>>

Crash ==
    /\ pc # "idle"
    /\ crashes < MaxCrashes
    /\ crashes' = crashes + 1
    /\ pc' = "idle" /\ ended' = "crashed" /\ held' = <<>>
    /\ FreshMemory
    /\ UNCHANGED <<session, waves, runs, first>>

Step == Stop \/ Resume \/ Execute \/ SaveWave

(* The bound on invocations is reached.                                    *)
Settled ==
    /\ pc = "idle" /\ ended # "crashed" /\ runs = MaxRuns
    /\ UNCHANGED vars

Next == Begin \/ Step \/ Crash \/ Settled

Spec == Init /\ [][Next]_vars

-----------------------------------------------------------------------------
(* What must hold.                                                         *)

TypeOK ==
    /\ policy \in Policies
    /\ cacheOnly \in {"yes", "no"}
    /\ prior \in Outcomes
    /\ waves \subseteq Record
    /\ pc \in {"idle", "plan", "save"}
    /\ wave \in 1 .. MaxWaves + 1 /\ retry \in 0 .. MaxRetries
    /\ crashes \in 0 .. MaxCrashes /\ runs \in 0 .. MaxRuns
    /\ current \subseteq Listings /\ attempted \subseteq Listings
    /\ quarantined \subseteq Listings
    /\ outcomes \in Outcomes
    /\ walked \in Seq([plan : Plan, out : Outcomes])
    /\ held # <<>> => held.record \in Record /\ held.out \in Outcomes
    /\ ended \in StopReasons \union {"none", "crashed"}

Walked == 1 .. Len(walked)
Advances == {i \in Walked : walked[i].plan.disposition = "ADVANCE_FRONTIER"}
FailedAt(i) == Of(walked[i].out, "failed")

(* No invocation walks more waves, retries or executions than the policy   *)
(* allows, whatever it replays, so the loop, of which every turn returns   *)
(* or adds a step, ends.                                                   *)
BoundedSearch ==
    /\ TypeOK
    /\ Cardinality(Advances) <= MaxWaves
    /\ Len(walked) <= MaxWaves * (1 + MaxRetries)
    /\ \A i \in Walked : walked[i].plan.retry <= MaxRetries

(* An invocation offers no listing to a second wave, and its attempted set *)
(* is exactly what its waves took.                                         *)
FreshListings ==
    /\ \A i, j \in Advances :
            i # j => walked[i].plan.selected \cap walked[j].plan.selected = {}
    /\ attempted = UNION {walked[i].plan.selected : i \in Walked}

(* A step is followed by a retry of the same listings in the same wave     *)
(* exactly when it left a failed outcome and retries; otherwise by a new   *)
(* wave with a full retry budget.                                          *)
RetryDiscipline ==
    \A i \in Walked \ {Len(walked)} :
        LET before == walked[i].plan
            after == walked[i + 1].plan
            again == FailedAt(i) # {} /\ before.retry < MaxRetries
        IN  /\ (after.disposition = "RETRY_CURRENT") = again
            /\ again => /\ after.wave = before.wave
                        /\ after.selected = before.selected
                        /\ after.retry = before.retry + 1
            /\ ~again => after.wave = before.wave + 1 /\ after.retry = 0

(* The steps after which the search went on to another wave or stopped.    *)
Finished == {i \in Walked : /\ Of(walked[i].out, "opportunity") = {}
                            /\ walked[i].plan.wave < wave}

(* Quarantined is what failed on the last retry of a wave, and no more: a  *)
(* recovered retry, or a listing that merely shared the wave, is not in.   *)
QuarantineExact ==
    quarantined = UNION {FailedAt(i) : i \in
        {k \in Finished : walked[k].plan.retry = MaxRetries}}

(* The search takes new listings only, and again only those of a wave that *)
(* failed, as often as its retry budget says; what still failed then, and  *)
(* nothing else, is quarantined.                                           *)
SearchDiscipline == FreshListings /\ RetryDiscipline /\ QuarantineExact

(* A search that reports exhaustion has left nothing: the frontier or the  *)
(* wave budget is used up, no step gave an opportunity, no pending or      *)
(* fatal outcome was passed over, and every failure was retried to the     *)
(* limit.  The other reasons are what the last outcomes say.               *)
ReasonTrue ==
    /\ ended \in {"UNIVERSE_EXHAUSTED", "REPLENISHMENT_BUDGET_EXHAUSTED"} =>
          /\ \/ attempted = Listings
             \/ Cardinality(Advances) = MaxWaves
          /\ \A i \in Walked :
                /\ Of(walked[i].out, "opportunity") = {}
                /\ Of(walked[i].out, "fatal") = {}
                /\ Of(walked[i].out, "pending") # {} =>
                        FailedAt(i) # {} /\ walked[i].plan.retry < MaxRetries
                /\ FailedAt(i) # {} /\ walked[i].plan.retry = MaxRetries =>
                        FailedAt(i) \subseteq quarantined
    /\ ended = "PENDING_DIRECTIONAL_WORK" => Of(outcomes, "pending") # {}
    /\ ended = "SAFETY_BLOCK" => Of(outcomes, "fatal") # {}
    /\ (ended = "SELECTABLE_OPPORTUNITY_FOUND") =
          (pc = "idle" /\ ended # "none" /\ ended # "crashed"
             /\ Of(outcomes, "opportunity") # {})

(* Whatever it replays, a search ends within the budget of its policy and  *)
(* for the reason it states.                                               *)
StopJustified == BoundedSearch /\ ReasonTrue

(* The ledger holds one record per plan, so a replay is never ambiguous    *)
(* ("multiple immutable wave records share a plan fingerprint").           *)
OneRecordPerPlan ==
    \A a, b \in waves : a.plan = b.plan => a = b

(* What resume rebuilds shows the opportunities the record names: the      *)
(* replay of a stored wave never raises "wave opportunity evidence differs *)
(* from outcomes".                                                         *)
ReplayAccepted ==
    held # <<>> => held.record.opportunities = Of(held.out, "opportunity")

(* A record from which resume rebuilds all that the wave came to: a child  *)
(* run covered every listing, or none was needed and the reason says so.   *)
Lossless(record) ==
    IF record.child # {}
    THEN record.plan.selected = {o[1] : o \in record.child}
    ELSE record.reason # "EVIDENCE_UNAVAILABLE"

(* A session invoked again, after a crash at any point or after it         *)
(* finished, comes to the result it first returned, unless some listing    *)
(* was routed to review, which its record does not tell.                   *)
SameResultOnReplay ==
    ended \in StopReasons /\ (\A record \in waves : Lossless(record)) =>
        first = ResultOf(ended, Of(outcomes, "opportunity"), quarantined)

(* However often a session is invoked, each attempt at each wave leaves    *)
(* one record, with the same exception: nothing stored is researched again.*)
OneRecordPerAttempt ==
    (\A record \in waves : Lossless(record)) =>
        \A a, b \in waves :
            a.plan.wave = b.plan.wave /\ a.plan.retry = b.plan.retry => a = b

(* The ledger never holds two records for what is one attempt, by its plan *)
(* fingerprint or by its wave and retry.                                   *)
LedgerExact == OneRecordPerPlan /\ OneRecordPerAttempt

(* Walking the ledger again is accepted and comes to the same result.      *)
ReplayFaithful == ReplayAccepted /\ SameResultOnReplay
=============================================================================
