------------------------------ MODULE Stage4Run ------------------------------
(***************************************************************************)
(* One Stage 4 end-to-end run: the resumable orchestrator                  *)
(* Stage4E2EService.run (app/e2e/stage4_service.py) over the tables of     *)
(* Stage4E2EStore (app/e2e/stage4_store.py).                               *)
(*                                                                         *)
(* A run is one request fingerprint.  The operator invokes it any number   *)
(* of times, each time in a mode of his choice (the mode is not part of    *)
(* the fingerprint).  An invocation walks the seven stages in order; each  *)
(* stage is executed, its record stored, and then the manifest stored.     *)
(* Every store call is a transaction of its own, so the process may die    *)
(* between any two of them (Crash) and everything but the tables is lost.  *)
(*                                                                         *)
(* LIVE and PREFER_CACHE are one mode here: the service and the canonical  *)
(* adapters only ask whether the mode is CACHE_ONLY.                       *)
(***************************************************************************)
EXTENDS Naturals, FiniteSets, Sequences

CONSTANTS
    Ids,            \* identities an adapter may report for what it produced
    Opps,           \* TradeOpportunity identities
    NULL,           \* Python's None
    PartialStages,  \* stages whose adapter may return PARTIAL
    MaxCalls,       \* bound: network calls one stage execution reports
    MaxAttempts,    \* bound: PARTIAL attempts stored for the run
    MaxCrashes      \* bound: process deaths

(* STAGE_ORDER, by position.                                               *)
PORTFOLIO_ANALYSIS == 1
SCANNER_DISCOVERY == 2
WATCH_UNIVERSE_ASSEMBLY == 3
RESEARCH_INTEGRATION == 4
OPERATOR_SELECTION == 5
SELECTED_OPPORTUNITY_DRY_RUN == 6
FINAL_EVIDENCE == 7

Stages == PORTFOLIO_ANALYSIS .. FINAL_EVIDENCE
EXTERNAL_STAGES == Stages \ {OPERATOR_SELECTION, FINAL_EVIDENCE}

Modes == {"LIVE", "CACHE_ONLY"}

WAITING == "WAITING_FOR_OPERATOR_SELECTION"
StageStatuses == {"COMPLETED", WAITING, "BLOCKED", "PARTIAL", "FAILED"}
IMMUTABLE_RUN_STATUSES == {WAITING, "COMPLETED", "BLOCKED", "FAILED"}
Outcomes == IMMUTABLE_RUN_STATUSES \union {"PARTIAL"}
RunStatuses == Outcomes \union {"ABSENT", "RUNNING"}

(* Stage4TerminalReason; NULL when there is none.                          *)
Reasons == {NULL, "E2E_DRY_RUN_COMPLETED", WAITING, "UPSTREAM_BLOCKED",
            "UPSTREAM_PARTIAL", "LINEAGE_MISMATCH", "CACHE_ONLY_MISS",
            "DOWNSTREAM_BLOCKED", "SAFETY_INVARIANT_VIOLATION", "STAGE_FAILED"}

(* What a stage reports: the artefact it made and the upstream artefacts   *)
(* it says it was made from; a key absent from the payload is NULL.        *)
(* Effects sums up dry_run, execution_authorized and the three counters of *)
(* orders, mutations and executions.                                       *)
Effects == {"none", "some"}

Payload == [snap     : Ids \union {NULL},
            universe : Ids \union {NULL},
            research : Ids \union {NULL},
            opps     : SUBSET Opps,
            opp      : Opps \union {NULL},
            plan     : Ids \union {NULL},
            effects  : Effects]

NoPayload == [snap |-> NULL, universe |-> NULL, research |-> NULL,
              opps |-> {}, opp |-> NULL, plan |-> NULL, effects |-> "none"]

(* A Stage4StageResult, and the Stage4StageRecord stored for it.           *)
Result == [status : StageStatuses, reason : Reasons,
           calls : 0 .. MaxCalls, out : Payload]

ASSUME RunAssumption ==
    /\ NULL \notin Ids \union Opps \union Result
    /\ PartialStages \subseteq EXTERNAL_STAGES
    /\ MaxCalls \in Nat /\ MaxAttempts \in Nat /\ MaxCrashes \in Nat

(* Stage4E2ERun.                                                           *)
Manifest == [status   : RunStatuses,
             reason   : Reasons,
             snap     : Ids \union {NULL},
             universe : Ids \union {NULL},
             research : Ids \union {NULL},
             opps     : SUBSET Opps,
             selected : Opps \union {NULL},
             plan     : Ids \union {NULL},
             done     : SUBSET Stages,
             calls    : Nat]

NoManifest == [status |-> "ABSENT", reason |-> NULL, snap |-> NULL,
               universe |-> NULL, research |-> NULL, opps |-> {},
               selected |-> NULL, plan |-> NULL, done |-> {}, calls |-> 0]

VARIABLES
    requested,  \* request.selected_opportunity_id, part of the run identity
    run,        \* stage4_e2e_runs: the stored manifest
    stages,     \* stage4_e2e_stages: the stored record of each stage, or NULL
    attempts,   \* stage4_e2e_stage_attempts, oldest first
    pc,         \* where the running invocation is, "idle" when there is none
    mode,       \* request.mode of the running invocation
    current,    \* the manifest it holds in memory
    stage,      \* the stage its loop is at
    result,     \* the validated result it is about to store
    ended,      \* observation: how the last invocation ended
    crashes,    \* observation: process deaths so far
    executed    \* observation: per stage, executions that came out COMPLETED

tables == <<run, stages, attempts>>
memory == <<mode, current, stage, result>>
observed == <<ended, crashes, executed>>
vars == <<requested, tables, pc, memory, observed>>

TypeOK ==
    /\ requested \in Opps \union {NULL}
    /\ run \in Manifest
    /\ stages \in [Stages -> Result \union {NULL}]
    /\ attempts \in Seq([stage : Stages, calls : 0 .. MaxCalls])
    /\ pc \in {"idle", "stage", "save", "commit"}
    /\ mode \in Modes
    /\ current \in Manifest
    /\ stage \in Stages
    /\ result \in Result \union {NULL}
    /\ ended \in {"none", "returned", "raised", "crashed"}
    /\ crashes \in Nat
    /\ executed \in [Stages -> Nat]

-----------------------------------------------------------------------------
(* The adapters, as the canonical runtime binds them.                      *)

Completed(calls, out) ==
    [status |-> "COMPLETED", reason |-> NULL, calls |-> calls, out |-> out]

Stopped(status, reason, calls, out) ==
    [status |-> status, reason |-> reason, calls |-> calls, out |-> out]

Failed == Stopped("FAILED", "STAGE_FAILED", 0, NoPayload)

(* Payloads that carry some of the keys; the absent ones are NULL.         *)
PayloadsOf(snaps, universes, researches, offers, picks, plans, effects) ==
    [snap : snaps, universe : universes, research : researches, opps : offers,
     opp : picks, plan : plans, effects : effects]

None == {NULL}

ResearchPayloads ==
    PayloadsOf(Ids, Ids, Ids, SUBSET Opps, None, None, {"none"})

(* The payloads of a COMPLETED external stage.                             *)
CompletedPayloads(s) ==
    CASE s = PORTFOLIO_ANALYSIS ->
            PayloadsOf(Ids, None, None, {{}}, None, None, {"none"})
      [] s = SCANNER_DISCOVERY -> {NoPayload}
      [] s = WATCH_UNIVERSE_ASSEMBLY ->
            PayloadsOf(Ids, Ids, None, {{}}, None, None, {"none"})
      [] s = RESEARCH_INTEGRATION -> ResearchPayloads
      [] s = SELECTED_OPPORTUNITY_DRY_RUN ->
            PayloadsOf(Ids, None, Ids, {{}}, Opps, Ids \union None, Effects)

(* The ways an adapter stops a run without raising.                        *)
AdapterStops(s, m) ==
    CASE s = PORTFOLIO_ANALYSIS ->
            {<<"BLOCKED", "UPSTREAM_BLOCKED">>, <<"BLOCKED", "LINEAGE_MISMATCH">>}
      [] s = SCANNER_DISCOVERY -> {<<"BLOCKED", "UPSTREAM_BLOCKED">>}
      [] s = SELECTED_OPPORTUNITY_DRY_RUN ->
            {<<"BLOCKED", "DOWNSTREAM_BLOCKED">>, <<"FAILED", "DOWNSTREAM_BLOCKED">>}
            \union (IF m = "CACHE_ONLY"
                    THEN {<<"BLOCKED", "CACHE_ONLY_MISS">>} ELSE {})
      [] OTHER -> {}

PartialPayloads(s) ==
    IF s = RESEARCH_INTEGRATION THEN ResearchPayloads ELSE {NoPayload}

(* Only research and the dry run reach a provider.                         *)
CallCounts(s) ==
    IF s \in {RESEARCH_INTEGRATION, SELECTED_OPPORTUNITY_DRY_RUN}
    THEN 0 .. MaxCalls ELSE {0}

AdapterResults(s, m) ==
    {Completed(n, out) : n \in CallCounts(s), out \in CompletedPayloads(s)}
    \union {Stopped(x[1], x[2], n, NoPayload) :
                x \in AdapterStops(s, m), n \in CallCounts(s)}
    \union (IF s \in PartialStages /\ Len(attempts) < MaxAttempts
            THEN {Stopped("PARTIAL", r, n, out) :
                    r \in {"CACHE_ONLY_MISS", "UPSTREAM_PARTIAL"},
                    n \in CallCounts(s), out \in PartialPayloads(s)}
            ELSE {})

-----------------------------------------------------------------------------
(* The orchestrator's own work on a result.                                *)

Blocked(reason) == Stopped("BLOCKED", reason, 0, NoPayload)

Selected == Completed(0, [NoPayload EXCEPT !.opp = requested])

(* The OPERATOR_SELECTION stage.                                           *)
SelectionResult ==
    IF requested = NULL THEN Stopped(WAITING, WAITING, 0, NoPayload)
    ELSE IF requested \notin current.opps THEN Blocked("LINEAGE_MISMATCH")
    ELSE Selected

(* The FINAL_EVIDENCE stage.                                               *)
FinalResult ==
    IF current.plan = NULL THEN Failed
    ELSE Completed(0, [NoPayload EXCEPT !.plan = current.plan])

(* _execute: external stages go to an adapter, which may raise; the other  *)
(* two are decided here from the request and the manifest.                 *)
ExecutionResults(s, m) ==
    IF s = OPERATOR_SELECTION THEN {SelectionResult}
    ELSE IF s = FINAL_EVIDENCE THEN {FinalResult}
    ELSE AdapterResults(s, m) \union {Failed}

(* Mutant: the universe research worked on is not compared.                *)
UniverseUnchecked(s, out, manifest) ==
    /\ s \in {WATCH_UNIVERSE_ASSEMBLY, RESEARCH_INTEGRATION,
              SELECTED_OPPORTUNITY_DRY_RUN} => out.snap = manifest.snap
    /\ s = SELECTED_OPPORTUNITY_DRY_RUN =>
            /\ out.research = manifest.research
            /\ out.opp = manifest.selected

(* The upstream artefacts a payload names are the ones in the manifest.    *)
LineageMatches(s, out, manifest) ==
    /\ s \in {WATCH_UNIVERSE_ASSEMBLY, RESEARCH_INTEGRATION,
              SELECTED_OPPORTUNITY_DRY_RUN} => out.snap = manifest.snap
    /\ s = RESEARCH_INTEGRATION => out.universe = manifest.universe
    /\ s = SELECTED_OPPORTUNITY_DRY_RUN =>
            /\ out.research = manifest.research
            /\ out.opp = manifest.selected

(* _validate_result, and the record run() builds from what it raises.      *)
Validated(s, m, manifest, r) ==
    IF m = "CACHE_ONLY" /\ r.calls > 0
    THEN Blocked("SAFETY_INVARIANT_VIOLATION")
    ELSE IF r.status # "COMPLETED" THEN r
    ELSE IF ~LineageMatches(s, r.out, manifest) THEN Blocked("LINEAGE_MISMATCH")
    ELSE IF s = SELECTED_OPPORTUNITY_DRY_RUN /\ r.out.effects # "none"
    THEN Blocked("SAFETY_INVARIANT_VIOLATION")
    ELSE r

IfPresent(new, old) == IF new = NULL THEN old ELSE new

(* _apply_output(run, stage, payload, mark_completed=False).               *)
Carried(manifest, s, out) ==
    IF s = PORTFOLIO_ANALYSIS
    THEN [manifest EXCEPT !.snap = IfPresent(out.snap, @)]
    ELSE IF s = WATCH_UNIVERSE_ASSEMBLY
    THEN [manifest EXCEPT !.universe = IfPresent(out.universe, @)]
    ELSE IF s = RESEARCH_INTEGRATION /\ out.research # NULL
    THEN [manifest EXCEPT !.research = out.research, !.opps = out.opps]
    ELSE IF s = OPERATOR_SELECTION
    THEN [manifest EXCEPT !.selected = IfPresent(out.opp, @)]
    ELSE IF s = SELECTED_OPPORTUNITY_DRY_RUN
    THEN [manifest EXCEPT !.plan = IfPresent(out.plan, @)]
    ELSE manifest

(* _apply_output(run, stage, payload).                                     *)
Applied(manifest, s, out) ==
    [Carried(manifest, s, out) EXCEPT !.done = @ \union {s}]

(* Mutant: a PARTIAL stage is marked completed as well.                    *)
PartialMarked(manifest, s, r) ==
    IF r.status \in {"COMPLETED", "PARTIAL"} THEN Applied(manifest, s, r.out)
    ELSE manifest

(* The evidence a stage leaves in the manifest, and the status it gives it. *)
Evidence(manifest, s, r) ==
    IF r.status = "COMPLETED" THEN Applied(manifest, s, r.out)
    ELSE IF r.status = "PARTIAL" THEN Carried(manifest, s, r.out)
    ELSE manifest

(* Mutant: the dry run already completes the run.                          *)
CompletedEarly(s, r) ==
    IF r.status # "COMPLETED" THEN r.status
    ELSE IF s >= SELECTED_OPPORTUNITY_DRY_RUN THEN "COMPLETED" ELSE "RUNNING"

StatusAfter(s, r) ==
    IF r.status # "COMPLETED" THEN r.status
    ELSE IF s = FINAL_EVIDENCE THEN "COMPLETED" ELSE "RUNNING"

ReasonAfter(s, r) ==
    IF r.status # "COMPLETED" THEN r.reason
    ELSE IF s = FINAL_EVIDENCE THEN "E2E_DRY_RUN_COMPLETED" ELSE NULL

(* _build_run of the manifest stored once the record of stage s is.        *)
NextManifest(manifest, s, r) ==
    [Evidence(manifest, s, r) EXCEPT !.status = StatusAfter(s, r),
                                     !.reason = ReasonAfter(s, r),
                                     !.calls = manifest.calls + r.calls]

-----------------------------------------------------------------------------
(* The actions.  Memory is wiped when an invocation ends.                  *)

WipeMemory ==
    /\ pc' = "idle"
    /\ mode' = "LIVE"
    /\ current' = NoManifest
    /\ stage' = PORTFOLIO_ANALYSIS
    /\ result' = NULL

Init ==
    /\ requested \in Opps \union {NULL}
    /\ run = NoManifest
    /\ stages = [s \in Stages |-> NULL]
    /\ attempts = <<>>
    /\ pc = "idle" /\ mode = "LIVE" /\ current = NoManifest
    /\ stage = PORTFOLIO_ANALYSIS /\ result = NULL
    /\ ended = "none" /\ crashes = 0 /\ executed = [s \in Stages |-> 0]

(* A run whose stored status lets an invocation do anything; the mutant    *)
(* forgets the early return for a WAITING run.                             *)
WaitingResumed == run.status \notin IMMUTABLE_RUN_STATUSES \ {WAITING}
Resumable == run.status \notin IMMUTABLE_RUN_STATUSES

(* What the loop asks of the stored record of a stage.  The mutants skip   *)
(* any stored stage, or let a LIVE invocation refresh a stored one.        *)
AnyStoredSkipped(s) == stages[s] # NULL
Skipped(s) == stages[s] # NULL /\ stages[s].status = "COMPLETED"
LiveRefreshes(s) == stages[s] = NULL \/ mode = "LIVE"
Unstored(s) == stages[s] = NULL

(* PARTIAL records go to the attempts table.                               *)
IsAttempt(r) == r.status = "PARTIAL"

(* The next stage of the loop; the mutant does not move on.                *)
SameStage(s) == s
Following(s) == s + 1

(* The operator invokes the run.  A stored terminal run is returned as it  *)
(* is, which changes nothing; any other is stored as RUNNING first.        *)
Invoke(m) ==
    /\ pc = "idle"
    /\ Resumable
    /\ current' = [run EXCEPT !.status = "RUNNING", !.reason = NULL]
    /\ run' = current'
    /\ mode' = m
    /\ pc' = "stage"
    /\ stage' = PORTFOLIO_ANALYSIS
    /\ ended' = "none"
    /\ UNCHANGED <<requested, stages, attempts, result, crashes, executed>>

(* The stage already has a COMPLETED record: its output is applied again.  *)
(* After the last stage the loop is over and the manifest is returned.     *)
Replay ==
    /\ pc = "stage"
    /\ Skipped(stage)
    /\ IF stage = FINAL_EVIDENCE
       THEN WipeMemory /\ ended' = "returned"
       ELSE /\ current' = Applied(current, stage, stages[stage].out)
            /\ stage' = Following(stage)
            /\ UNCHANGED <<pc, mode, result, ended>>
    /\ UNCHANGED <<requested, tables, crashes, executed>>

(* Any other stored record: "non-completed persisted stage cannot resume". *)
Refuse ==
    /\ pc = "stage"
    /\ stages[stage] # NULL /\ ~Skipped(stage)
    /\ WipeMemory
    /\ ended' = "raised"
    /\ UNCHANGED <<requested, tables, crashes, executed>>

Execute ==
    /\ pc = "stage"
    /\ Unstored(stage)
    /\ \E r \in ExecutionResults(stage, mode) :
          /\ result' = Validated(stage, mode, current, r)
          /\ executed' = IF result'.status = "COMPLETED"
                         THEN [executed EXCEPT ![stage] = @ + 1] ELSE executed
    /\ pc' = "save"
    /\ UNCHANGED <<requested, tables, mode, current, stage, ended, crashes>>

(* save_attempt for PARTIAL, save_stage for every other status.            *)
SaveRecord ==
    /\ pc = "save"
    /\ IF IsAttempt(result)
       THEN /\ attempts' = Append(attempts,
                                  [stage |-> stage, calls |-> result.calls])
            /\ UNCHANGED stages
       ELSE /\ stages' = [stages EXCEPT ![stage] = result]
            /\ UNCHANGED attempts
    /\ pc' = "commit"
    /\ UNCHANGED <<requested, run, memory, observed>>

(* save_run of the manifest that follows from the stored record.           *)
SaveRun ==
    /\ pc = "commit"
    /\ Resumable
    /\ run' = NextManifest(current, stage, result)
    /\ IF run'.status = "RUNNING"
       THEN /\ current' = run'
            /\ stage' = Following(stage)
            /\ pc' = "stage"
            /\ result' = NULL
            /\ UNCHANGED <<mode, ended>>
       ELSE WipeMemory /\ ended' = "returned"
    /\ UNCHANGED <<requested, stages, attempts, crashes, executed>>

(* The process dies; MaxCrashes bounds how often.                          *)
Crash ==
    /\ pc # "idle"
    /\ crashes < MaxCrashes
    /\ crashes' = crashes + 1
    /\ ended' = "crashed"
    /\ WipeMemory
    /\ UNCHANGED <<requested, tables, executed>>

Step == Replay \/ Refuse \/ Execute \/ SaveRecord \/ SaveRun

(* Nothing is left to do when the stored run is terminal.                  *)
Settled ==
    /\ pc = "idle"
    /\ ~Resumable
    /\ UNCHANGED vars

Next == (\E m \in Modes : Invoke(m)) \/ Step \/ Crash \/ Settled

Spec == Init /\ [][Next]_vars

(* An invocation that is under way takes its next step unless it dies.     *)
FairSpec == Spec /\ WF_vars(Step)

-----------------------------------------------------------------------------
(* What must hold.                                                         *)

Durable == {s \in Stages : stages[s] # NULL /\ stages[s].status = "COMPLETED"}
Stopping == {s \in Stages : stages[s] # NULL /\ stages[s].status # "COMPLETED"}

(* The stored COMPLETED stages are the first ones of the order, and a      *)
(* stored stop is a single one right behind them, whatever crashes and     *)
(* resumes did in between: a resume starts at the first incomplete stage.  *)
StagePrefix ==
    /\ \A s \in Durable : \A t \in 1 .. (s - 1) : t \in Durable
    /\ \A s \in Stopping : Durable = 1 .. (s - 1)

(* The manifest lists no stage whose record is not stored, and lags behind *)
(* the records by no more stages than crashes separated from it.           *)
ManifestBehindStages ==
    /\ run.done \subseteq Durable
    /\ pc \in {"stage", "save"} => current.done \subseteq Durable
    /\ pc # "commit" => Cardinality(Durable \ run.done) <= crashes

(* A COMPLETED run is one chain of evidence: every identity in the         *)
(* manifest is the one the stage's own record reports, every stage was     *)
(* made from the artefacts of that chain, and the dry run is the one of    *)
(* the opportunity the operator asked for, out of those research offered.  *)
CompletedLineage ==
    run.status = "COMPLETED" =>
        LET out == [s \in Stages |-> stages[s].out] IN
        /\ run.done = Stages /\ Durable = Stages
        /\ run.snap = out[PORTFOLIO_ANALYSIS].snap
        /\ run.universe = out[WATCH_UNIVERSE_ASSEMBLY].universe
        /\ run.research = out[RESEARCH_INTEGRATION].research
        /\ run.plan = out[SELECTED_OPPORTUNITY_DRY_RUN].plan
        /\ run.plan # NULL
        /\ \A s \in {WATCH_UNIVERSE_ASSEMBLY, RESEARCH_INTEGRATION,
                     SELECTED_OPPORTUNITY_DRY_RUN} : out[s].snap = run.snap
        /\ out[RESEARCH_INTEGRATION].universe = run.universe
        /\ out[SELECTED_OPPORTUNITY_DRY_RUN].research = run.research
        /\ out[SELECTED_OPPORTUNITY_DRY_RUN].opp = requested
        /\ out[SELECTED_OPPORTUNITY_DRY_RUN].effects = "none"
        /\ requested \in out[RESEARCH_INTEGRATION].opps

(* No plan without an explicit operator selection, in any state: not in a  *)
(* manifest that later failed, not after a resume.                         *)
PlanOnlyForSelection ==
    \A m \in {run, current} :
        m.plan # NULL => /\ requested # NULL
                         /\ m.selected = requested
                         /\ requested \in m.opps

(* Each crash costs at most one repeated execution of one stage: a stage   *)
(* is executed to completion once, plus once per crash that lost it.       *)
RepeatPaidByCrash ==
    LET Spare(s) == executed[s] - (IF s \in Durable THEN 1 ELSE 0)
                    - (IF pc = "save" /\ stage = s /\ result.status = "COMPLETED"
                       THEN 1 ELSE 0)
    IN  Spare(1) + Spare(2) + Spare(3) + Spare(4) + Spare(5) + Spare(6) + Spare(7)
            <= crashes

(* The network calls of the records and attempts in the store; each call   *)
(* of an attempt is counted.                                               *)
StageCalls(s) == IF stages[s] = NULL THEN 0 ELSE stages[s].calls
AttemptCalls ==
    Cardinality({x \in (DOMAIN attempts) \X (1 .. MaxCalls) :
                     x[2] <= attempts[x[1]].calls})
RecordedCalls ==
    StageCalls(1) + StageCalls(2) + StageCalls(3) + StageCalls(4)
        + StageCalls(5) + StageCalls(6) + StageCalls(7) + AttemptCalls

(* The manifest never claims more network calls than the stored evidence   *)
(* shows, and exactly those as long as no crash separated a record from    *)
(* its manifest.                                                           *)
NetworkEvidence ==
    /\ run.calls <= RecordedCalls
    /\ crashes = 0 /\ pc = "idle" => run.calls = RecordedCalls

(* An invocation that comes back leaves the run settled, or as PARTIAL to  *)
(* be resumed, unless the process died at some point before.               *)
StrandedOnlyByCrash ==
    ended = "raised" \/ (ended = "returned" /\ run.status \notin Outcomes)
        => crashes > 0

(* The stored manifest is an account of the stored records: of the stages  *)
(* they complete and of the network calls they report, and it falls behind *)
(* them in a crash only.                                                   *)
ManifestOfRecords == ManifestBehindStages /\ NetworkEvidence

(* What a run selected and planned is one chain of evidence, at every step *)
(* for the selection and at its completion for every stage.                *)
SelectedLineage == CompletedLineage /\ PlanOnlyForSelection

(* Crashes alone explain what should not happen: a stage executed twice,   *)
(* or a run left where no invocation can take it up.                       *)
CrashesAccounted == RepeatPaidByCrash /\ StrandedOnlyByCrash

(* "A terminal run is immutable", and so is every stage record; attempts   *)
(* are only appended.                                                      *)
EvidenceImmutable ==
    [][/\ run.status \in IMMUTABLE_RUN_STATUSES => run' = run
       /\ \A s \in Stages : stages[s] # NULL => stages'[s] = stages[s]
       /\ SubSeq(attempts', 1, Len(attempts)) = attempts]_vars

(* No invocation hangs, and unless the process died at some point the run  *)
(* it leaves has one of the documented outcomes.                           *)
InvocationEnds ==
    (pc # "idle") ~> (pc = "idle" /\ (run.status \in Outcomes \/ crashes > 0))

(* The detailed run implements the promise.                                *)
Promise == INSTANCE Stage4Promise WITH
    LastStage <- FINAL_EVIDENCE, SelectionStage <- OPERATOR_SELECTION,
    PartialStages <- PartialStages, status <- run.status, durable <- Durable
ImplementsPromise == Promise!Spec

-----------------------------------------------------------------------------
(* What the documents say and the code does not do; see README, findings.  *)

(* "a resume starts at the first incomplete boundary": it is never refused.*)
ResumeAccepted == ended # "raised"
=============================================================================
