--------------------------- MODULE Stage4RunProofs ---------------------------
(***************************************************************************)
(* What TLAPS proves of Stage4Run for all identities, opportunities and    *)
(* bounds: the type invariant; that durable stages form a prefix of the    *)
(* stage order with at most one stop behind it; that terminal runs and     *)
(* stage records never change; that the run implements Stage4Promise; that *)
(* its evidence is one chain (Lineage), that its manifest is an account of *)
(* its records (Accounts), and that crashes alone explain a repeated       *)
(* execution or a stranded run (Crashes).                                  *)
(***************************************************************************)
EXTENDS Stage4Run, SequenceTheorems, FiniteSetTheorems, TLAPS

(* One-line guards and steps, always expanded.                             *)
USE DEF Resumable, Skipped, Unstored, IsAttempt, Following

(* Every result an adapter or the orchestrator itself produces is a        *)
(* Result; validation keeps it one.                                        *)
LEMMA NoPayloadType == NoPayload \in Payload
  BY DEF NoPayload, Payload, Effects

LEMMA ResearchPayloadsType == ResearchPayloads \subseteq Payload
  BY DEF ResearchPayloads, PayloadsOf, Payload, None, Effects

LEMMA CompletedPayloadsType ==
  ASSUME NEW s \in EXTERNAL_STAGES
  PROVE  CompletedPayloads(s) \subseteq Payload
<1> USE DEF PORTFOLIO_ANALYSIS, SCANNER_DISCOVERY, WATCH_UNIVERSE_ASSEMBLY,
            RESEARCH_INTEGRATION, OPERATOR_SELECTION,
            SELECTED_OPPORTUNITY_DRY_RUN, FINAL_EVIDENCE
<1>1. s \in {1, 2, 3, 4, 6}
  BY DEF EXTERNAL_STAGES, Stages
<1>2. CASE s = 1
  <2>1. SUFFICES ASSUME NEW x \in CompletedPayloads(1) PROVE x \in Payload
    BY <1>2
  <2>2. QED
    BY DEF CompletedPayloads, PayloadsOf, Payload, None, Effects
<1>3. CASE s = 2
  BY <1>3, NoPayloadType DEF CompletedPayloads
<1>4. CASE s = 3
  <2>1. SUFFICES ASSUME NEW x \in CompletedPayloads(3) PROVE x \in Payload
    BY <1>4
  <2>2. QED
    BY DEF CompletedPayloads, PayloadsOf, Payload, None, Effects
<1>5. CASE s = 4
  BY <1>5, ResearchPayloadsType DEF CompletedPayloads
<1>6. CASE s = 6
  <2>1. SUFFICES ASSUME NEW x \in CompletedPayloads(6) PROVE x \in Payload
    BY <1>6
  <2>2. QED
    BY DEF CompletedPayloads, PayloadsOf, Payload, None, Effects
<1>7. QED
  BY <1>1, <1>2, <1>3, <1>4, <1>5, <1>6

LEMMA CallCountsType ==
  ASSUME NEW s \in Stages
  PROVE  CallCounts(s) \subseteq 0 .. MaxCalls
  BY RunAssumption DEF CallCounts

LEMMA StopType ==
  ASSUME NEW status \in StageStatuses, NEW reason \in Reasons,
         NEW calls \in 0 .. MaxCalls, NEW out \in Payload
  PROVE  Stopped(status, reason, calls, out) \in Result
  BY DEF Stopped, Result

LEMMA BlockedType ==
  ASSUME NEW reason \in Reasons
  PROVE  Blocked(reason) \in Result
  BY StopType, NoPayloadType, RunAssumption DEF Blocked, StageStatuses

LEMMA FailedType == Failed \in Result
  BY StopType, NoPayloadType, RunAssumption DEF Failed, StageStatuses, Reasons

LEMMA AdapterStopsType ==
  ASSUME NEW s \in EXTERNAL_STAGES, NEW m \in Modes, NEW x \in AdapterStops(s, m)
  PROVE  x[1] \in {"BLOCKED", "FAILED"} /\ x[2] \in Reasons
<1>1. \/ x = <<"BLOCKED", "UPSTREAM_BLOCKED">>
      \/ x = <<"BLOCKED", "LINEAGE_MISMATCH">>
      \/ x = <<"BLOCKED", "DOWNSTREAM_BLOCKED">>
      \/ x = <<"FAILED", "DOWNSTREAM_BLOCKED">>
      \/ x = <<"BLOCKED", "CACHE_ONLY_MISS">>
  BY DEF AdapterStops, PORTFOLIO_ANALYSIS, SCANNER_DISCOVERY,
     SELECTED_OPPORTUNITY_DRY_RUN
<1>2. QED
  BY <1>1 DEF Reasons

(* What an adapter returns has the type of a result, is PARTIAL only from  *)
(* a stage that may be, and never asks the operator to select.             *)
LEMMA AdapterResultsType ==
  ASSUME NEW s \in EXTERNAL_STAGES, NEW m \in Modes,
         NEW r \in AdapterResults(s, m)
  PROVE  /\ r \in Result
         /\ r.status = "PARTIAL" => s \in PartialStages
         /\ r.status # WAITING
<1>0. s \in Stages
  BY DEF EXTERNAL_STAGES
<1>1. CASE r \in {Completed(n, out) : n \in CallCounts(s), out \in CompletedPayloads(s)}
  <2>1. PICK n \in CallCounts(s), out \in CompletedPayloads(s) : r = Completed(n, out)
    BY <1>1
  <2>2. n \in 0 .. MaxCalls /\ out \in Payload
    BY <1>0, CallCountsType, CompletedPayloadsType
  <2>3. QED
    BY <2>1, <2>2 DEF Completed, Result, StageStatuses, Reasons, WAITING
<1>2. CASE r \in {Stopped(x[1], x[2], n, NoPayload) :
                    x \in AdapterStops(s, m), n \in CallCounts(s)}
  <2>1. PICK x \in AdapterStops(s, m), n \in CallCounts(s) :
                r = Stopped(x[1], x[2], n, NoPayload)
    BY <1>2
  <2>2. n \in 0 .. MaxCalls /\ x[1] \in {"BLOCKED", "FAILED"} /\ x[2] \in Reasons
    BY <1>0, CallCountsType, AdapterStopsType
  <2>3. QED
    BY <2>1, <2>2, NoPayloadType DEF Stopped, Result, StageStatuses, WAITING
<1>3. CASE /\ s \in PartialStages
           /\ r \in {Stopped("PARTIAL", a, n, out) :
                       a \in {"CACHE_ONLY_MISS", "UPSTREAM_PARTIAL"},
                       n \in CallCounts(s), out \in PartialPayloads(s)}
  <2>1. PICK a \in {"CACHE_ONLY_MISS", "UPSTREAM_PARTIAL"},
             n \in CallCounts(s), out \in PartialPayloads(s) :
                r = Stopped("PARTIAL", a, n, out)
    BY <1>3
  <2>2. n \in 0 .. MaxCalls /\ out \in Payload /\ a \in Reasons
    BY <1>0, CallCountsType, ResearchPayloadsType, NoPayloadType
       DEF PartialPayloads, Reasons
  <2>3. QED
    BY <1>3, <2>1, <2>2 DEF Stopped, Result, StageStatuses, WAITING
<1>4. QED
  BY <1>1, <1>2, <1>3 DEF AdapterResults

LEMMA StageNames ==
  /\ PORTFOLIO_ANALYSIS = 1 /\ SCANNER_DISCOVERY = 2
  /\ WATCH_UNIVERSE_ASSEMBLY = 3 /\ RESEARCH_INTEGRATION = 4
  /\ OPERATOR_SELECTION = 5 /\ SELECTED_OPPORTUNITY_DRY_RUN = 6
  /\ FINAL_EVIDENCE = 7
  /\ Stages = 1 .. 7
  /\ EXTERNAL_STAGES = {1, 2, 3, 4, 6}
  BY DEF PORTFOLIO_ANALYSIS, SCANNER_DISCOVERY, WATCH_UNIVERSE_ASSEMBLY,
     RESEARCH_INTEGRATION, OPERATOR_SELECTION, SELECTED_OPPORTUNITY_DRY_RUN,
     FINAL_EVIDENCE, Stages, EXTERNAL_STAGES

(* What makes a result fit the stage it is stored for.                     *)
FitsStage(s, r) ==
  /\ r \in Result
  /\ r.status = "PARTIAL" => s \in PartialStages
  /\ r.status = WAITING => s = OPERATOR_SELECTION

LEMMA ExecutionResultsFit ==
  ASSUME TypeOK, NEW s \in Stages, NEW m \in Modes,
         NEW r \in ExecutionResults(s, m)
  PROVE  FitsStage(s, r)
<1>1. CASE s \in EXTERNAL_STAGES
  <2>1. r \in AdapterResults(s, m) \/ r = Failed
    BY <1>1, StageNames DEF ExecutionResults, SelectionResult, FinalResult
  <2>2. CASE r \in AdapterResults(s, m)
    BY <1>1, <2>2, AdapterResultsType DEF FitsStage
  <2>3. CASE r = Failed
    BY <2>3, FailedType DEF FitsStage, Failed, Stopped, WAITING
  <2>4. QED
    BY <2>1, <2>2, <2>3
<1>2. CASE s = OPERATOR_SELECTION
  <2>1. \/ r = Stopped(WAITING, WAITING, 0, NoPayload)
        \/ r = Blocked("LINEAGE_MISMATCH")
        \/ requested # NULL /\ r = Completed(0, [NoPayload EXCEPT !.opp = requested])
    BY <1>2, StageNames DEF ExecutionResults, SelectionResult, Selected
  <2>2. CASE r = Stopped(WAITING, WAITING, 0, NoPayload)
    BY <1>2, <2>2, NoPayloadType, RunAssumption
       DEF FitsStage, Stopped, Result, StageStatuses, Reasons, WAITING
  <2>3. CASE r = Blocked("LINEAGE_MISMATCH")
    BY <2>3, BlockedType DEF FitsStage, Blocked, Stopped, Reasons, WAITING
  <2>4. CASE /\ requested # NULL
             /\ r = Completed(0, [NoPayload EXCEPT !.opp = requested])
    <3>1. [NoPayload EXCEPT !.opp = requested] \in Payload
      BY NoPayloadType DEF TypeOK, Payload
    <3>2. QED
      BY <2>4, <3>1, RunAssumption
         DEF FitsStage, Completed, Result, StageStatuses, Reasons, WAITING
  <2>5. QED
    BY <2>1, <2>2, <2>3, <2>4
<1>3. CASE s = FINAL_EVIDENCE
  <2>1. r = Failed \/ r = Completed(0, [NoPayload EXCEPT !.plan = current.plan])
    BY <1>3, StageNames DEF ExecutionResults, FinalResult
  <2>2. CASE r = Failed
    BY <2>2, FailedType DEF FitsStage, Failed, Stopped, WAITING
  <2>3. CASE r = Completed(0, [NoPayload EXCEPT !.plan = current.plan])
    <3>1. [NoPayload EXCEPT !.plan = current.plan] \in Payload
      BY NoPayloadType DEF TypeOK, Payload, Manifest
    <3>2. QED
      BY <2>3, <3>1, RunAssumption
         DEF FitsStage, Completed, Result, StageStatuses, Reasons, WAITING
  <2>4. QED
    BY <2>1, <2>2, <2>3
<1>4. QED
  BY <1>1, <1>2, <1>3, StageNames

(* Validation passes a result on or blocks it.                             *)
LEMMA ValidatedPassesOrBlocks ==
  ASSUME NEW s, NEW m, NEW manifest, NEW r
  PROVE  \/ Validated(s, m, manifest, r) = r
         \/ Validated(s, m, manifest, r) = Blocked("SAFETY_INVARIANT_VIOLATION")
         \/ Validated(s, m, manifest, r) = Blocked("LINEAGE_MISMATCH")
  BY DEF Validated

LEMMA ValidatedFits ==
  ASSUME NEW s, NEW m, NEW manifest, NEW r, FitsStage(s, r)
  PROVE  FitsStage(s, Validated(s, m, manifest, r))
<1>1. FitsStage(s, Blocked("SAFETY_INVARIANT_VIOLATION"))
  BY BlockedType DEF FitsStage, Blocked, Stopped, Reasons, WAITING
<1>2. FitsStage(s, Blocked("LINEAGE_MISMATCH"))
  BY BlockedType DEF FitsStage, Blocked, Stopped, Reasons, WAITING
<1>3. QED
  BY <1>1, <1>2, ValidatedPassesOrBlocks

LEMMA CarriedType ==
  ASSUME NEW manifest \in Manifest, NEW s \in Stages, NEW out \in Payload
  PROVE  /\ Carried(manifest, s, out) \in Manifest
         /\ Carried(manifest, s, out).status = manifest.status
<1>1. /\ IfPresent(out.snap, manifest.snap) \in Ids \union {NULL}
      /\ IfPresent(out.universe, manifest.universe) \in Ids \union {NULL}
      /\ IfPresent(out.opp, manifest.selected) \in Opps \union {NULL}
      /\ IfPresent(out.plan, manifest.plan) \in Ids \union {NULL}
      /\ out.research \in Ids \union {NULL} /\ out.opps \in SUBSET Opps
  BY DEF IfPresent, Manifest, Payload
<1>2. CASE s = PORTFOLIO_ANALYSIS
  BY <1>1, <1>2, StageNames DEF Carried, Manifest
<1>3. CASE s = WATCH_UNIVERSE_ASSEMBLY
  BY <1>1, <1>3, StageNames DEF Carried, Manifest
<1>4. CASE s = RESEARCH_INTEGRATION
  <2>1. CASE out.research = NULL
    BY <1>4, <2>1, StageNames DEF Carried
  <2>2. CASE out.research # NULL
    <3>1. Carried(manifest, s, out)
            = [manifest EXCEPT !.research = out.research, !.opps = out.opps]
      BY <1>4, <2>2, StageNames DEF Carried
    <3>2. QED
      BY <1>1, <3>1 DEF Manifest
  <2>3. QED
    BY <2>1, <2>2
<1>5. CASE s = OPERATOR_SELECTION
  BY <1>1, <1>5, StageNames DEF Carried, Manifest
<1>6. CASE s = SELECTED_OPPORTUNITY_DRY_RUN
  BY <1>1, <1>6, StageNames DEF Carried, Manifest
<1>7. CASE s = SCANNER_DISCOVERY \/ s = FINAL_EVIDENCE
  BY <1>7, StageNames DEF Carried
<1>8. QED
  BY <1>2, <1>3, <1>4, <1>5, <1>6, <1>7, StageNames

LEMMA AppliedType ==
  ASSUME NEW manifest \in Manifest, NEW s \in Stages, NEW out \in Payload
  PROVE  /\ Applied(manifest, s, out) \in Manifest
         /\ Applied(manifest, s, out).status = manifest.status
  BY CarriedType DEF Applied, Manifest

(* The status the manifest takes follows from the record just stored.      *)
LEMMA NextManifestType ==
  ASSUME NEW manifest \in Manifest, NEW s \in Stages, NEW r \in Result
  PROVE  /\ NextManifest(manifest, s, r) \in Manifest
         /\ NextManifest(manifest, s, r).status = StatusAfter(s, r)
<1>1. /\ r.out \in Payload /\ r.status \in StageStatuses
      /\ r.calls \in Nat /\ r.reason \in Reasons
  BY RunAssumption DEF Result
<1>2. Evidence(manifest, s, r) \in Manifest
  BY <1>1, AppliedType, CarriedType DEF Evidence
<1>3. manifest.calls + r.calls \in Nat
  BY <1>1 DEF Manifest
<1>4. StatusAfter(s, r) \in RunStatuses
  BY <1>1 DEF StatusAfter, StageStatuses, RunStatuses, Outcomes,
     IMMUTABLE_RUN_STATUSES
<1>5. ReasonAfter(s, r) \in Reasons
  BY <1>1 DEF ReasonAfter, Reasons
<1>6. QED
  BY <1>2, <1>3, <1>4, <1>5 DEF NextManifest, Manifest

-----------------------------------------------------------------------------
(* The inductive invariant.  StagePrefix alone does not survive SaveRecord:*)
(* one must know that the loop has passed only durable stages, that the    *)
(* stage it is about to store is still empty, and that the record just     *)
(* stored is the result at hand.                                           *)

Passed == \A t \in 1 .. (stage - 1) : t \in Durable

AtStage == pc = "stage" => Passed

AtSave ==
  pc = "save" => /\ Passed
                 /\ stages[stage] = NULL
                 /\ FitsStage(stage, result)

AtCommit ==
  pc = "commit" =>
    /\ Passed
    /\ FitsStage(stage, result)
    /\ stages[stage] = IF result.status = "PARTIAL" THEN NULL ELSE result

Running == pc # "idle" => run.status = "RUNNING" /\ current.status = "RUNNING"

AllDurable == run.status = "COMPLETED" => Durable = Stages

IInv ==
  /\ TypeOK
  /\ StagePrefix
  /\ AtStage
  /\ AtSave
  /\ AtCommit
  /\ Running
  /\ AllDurable

(* A step that leaves the stage records alone leaves what is said of them  *)
(* alone.                                                                  *)
LEMMA SameStages ==
  ASSUME stages' = stages
  PROVE  /\ Durable' = Durable
         /\ Stopping' = Stopping
         /\ StagePrefix => StagePrefix'
  BY DEF Durable, Stopping, StagePrefix

LEMMA WipedType ==
  ASSUME WipeMemory
  PROVE  /\ mode' \in Modes /\ current' \in Manifest /\ stage' \in Stages
         /\ result' \in Result \union {NULL} /\ pc' = "idle"
  BY StageNames DEF WipeMemory, Modes, NoManifest, Manifest, RunStatuses, Reasons

THEOREM InitIInv == Init => IInv
<1> SUFFICES ASSUME Init PROVE IInv
  OBVIOUS
<1>1. NoManifest \in Manifest
  BY DEF NoManifest, Manifest, RunStatuses, Reasons
<1>2. Durable = {} /\ Stopping = {}
  BY DEF Init, Durable, Stopping
<1>3. TypeOK
  BY <1>1, StageNames DEF Init, TypeOK, Modes
<1>4. StagePrefix
  BY <1>2 DEF StagePrefix
<1>5. AtStage /\ AtSave /\ AtCommit /\ Running /\ AllDurable
  BY DEF Init, AtStage, AtSave, AtCommit, Running, AllDurable, NoManifest
<1>6. QED
  BY <1>3, <1>4, <1>5 DEF IInv

LEMMA InvokeIInv ==
  ASSUME IInv, NEW m \in Modes, Invoke(m)
  PROVE  IInv'
<1>1. Durable' = Durable /\ StagePrefix'
  BY SameStages DEF IInv, Invoke
<1>2. TypeOK'
  <2>1. current' \in Manifest
    BY DEF IInv, TypeOK, Invoke, Manifest, RunStatuses, Reasons
  <2>2. run' \in Manifest /\ stage' \in Stages
    BY <2>1, StageNames DEF Invoke
  <2>3. QED
    BY <2>1, <2>2 DEF IInv, TypeOK, Invoke
<1>3. Passed'
  BY StageNames DEF Invoke, Passed
<1>4. run'.status = "RUNNING" /\ current'.status = "RUNNING"
  BY DEF IInv, TypeOK, Invoke, Manifest
<1>5. AtStage' /\ AtSave' /\ AtCommit'
  BY <1>3 DEF AtStage, AtSave, AtCommit, Invoke
<1>6. QED
  BY <1>1, <1>2, <1>4, <1>5 DEF IInv, Running, AllDurable

LEMMA ReplayIInv ==
  ASSUME IInv, Replay
  PROVE  IInv'
<1>1. Durable' = Durable /\ StagePrefix'
  BY SameStages DEF IInv, Replay, tables
<1>2. stage \in Durable /\ stages[stage].out \in Payload
  BY RunAssumption DEF IInv, TypeOK, Replay, Durable, Result
<1>3. CASE stage = FINAL_EVIDENCE
  <2>1. TypeOK'
    BY <1>3, WipedType DEF IInv, TypeOK, Replay, tables
  <2>2. AtStage' /\ AtSave' /\ AtCommit' /\ Running'
    BY <1>3 DEF Replay, WipeMemory, AtStage, AtSave, AtCommit, Running
  <2>3. QED
    BY <1>1, <2>1, <2>2 DEF IInv, AllDurable, Replay, tables
<1>4. CASE stage # FINAL_EVIDENCE
  <2>1. current' \in Manifest /\ current'.status = "RUNNING"
    BY <1>2, <1>4, AppliedType DEF IInv, TypeOK, Running, Replay
  <2>2. stage' = stage + 1 /\ stage' \in Stages /\ stage \in Nat
    <3>1. stage \in Stages /\ stage' = stage + 1
      BY <1>2, <1>4 DEF Durable, Replay
    <3>2. QED
      BY <1>4, <3>1, StageNames
  <2>3. TypeOK'
    BY <1>4, <2>1, <2>2 DEF IInv, TypeOK, Replay, tables
  <2>4. Passed'
    BY <1>1, <1>2, <2>2 DEF IInv, AtStage, Passed, Replay
  <2>5. AtStage' /\ AtSave' /\ AtCommit'
    BY <1>4, <2>4 DEF AtStage, AtSave, AtCommit, Replay
  <2>6. Running' /\ AllDurable'
    BY <1>1, <1>4, <2>1 DEF IInv, Running, AllDurable, Replay, tables
  <2>7. QED
    BY <1>1, <2>3, <2>5, <2>6 DEF IInv
<1>5. QED
  BY <1>3, <1>4

LEMMA RefuseIInv ==
  ASSUME IInv, Refuse
  PROVE  IInv'
<1>1. Durable' = Durable /\ StagePrefix'
  BY SameStages DEF IInv, Refuse, tables
<1>2. TypeOK'
  BY WipedType DEF IInv, TypeOK, Refuse, tables
<1>3. AtStage' /\ AtSave' /\ AtCommit' /\ Running'
  BY DEF Refuse, WipeMemory, AtStage, AtSave, AtCommit, Running
<1>4. QED
  BY <1>1, <1>2, <1>3 DEF IInv, AllDurable, Refuse, tables

LEMMA CrashIInv ==
  ASSUME IInv, Crash
  PROVE  IInv'
<1>1. Durable' = Durable /\ StagePrefix'
  BY SameStages DEF IInv, Crash, tables
<1>2. TypeOK'
  BY WipedType DEF IInv, TypeOK, Crash, tables
<1>3. AtStage' /\ AtSave' /\ AtCommit' /\ Running'
  BY DEF Crash, WipeMemory, AtStage, AtSave, AtCommit, Running
<1>4. QED
  BY <1>1, <1>2, <1>3 DEF IInv, AllDurable, Crash, tables

LEMMA ExecuteIInv ==
  ASSUME IInv, Execute
  PROVE  IInv'
<1>1. Durable' = Durable /\ StagePrefix'
  BY SameStages DEF IInv, Execute, tables
<1>2. stage' = stage /\ stage \in Stages /\ mode \in Modes
  BY DEF IInv, TypeOK, Execute
<1>3. FitsStage(stage, result')
  <2>1. PICK r \in ExecutionResults(stage, mode) :
              result' = Validated(stage, mode, current, r)
    BY DEF Execute
  <2>2. FitsStage(stage, r)
    BY <1>2, <2>1, ExecutionResultsFit DEF IInv
  <2>3. QED
    BY <2>1, <2>2, ValidatedFits
<1>4. executed' \in [Stages -> Nat]
  BY <1>2 DEF IInv, TypeOK, Execute
<1>5. TypeOK'
  BY <1>2, <1>3, <1>4 DEF IInv, TypeOK, Execute, tables, FitsStage
<1>6. Passed'
  BY <1>1, <1>2 DEF IInv, AtStage, Passed, Execute
<1>7. AtStage' /\ AtSave' /\ AtCommit'
  BY <1>2, <1>3, <1>6 DEF AtStage, AtSave, AtCommit, Execute, tables, FitsStage
<1>8. Running' /\ AllDurable'
  BY <1>1 DEF IInv, Running, AllDurable, Execute, tables
<1>9. QED
  BY <1>1, <1>5, <1>7, <1>8 DEF IInv

LEMMA SaveRecordIInv ==
  ASSUME IInv, SaveRecord
  PROVE  IInv'
<1>1. /\ stage' = stage /\ result' = result /\ current' = current /\ mode' = mode
      /\ run' = run /\ pc' = "commit" /\ UNCHANGED observed
      /\ requested' = requested
  BY DEF SaveRecord, memory
<1>2. /\ stage \in Stages /\ Passed /\ stages[stage] = NULL
      /\ FitsStage(stage, result) /\ result # NULL
      /\ stages \in [Stages -> Result \union {NULL}]
  BY RunAssumption DEF IInv, TypeOK, AtSave, SaveRecord, FitsStage
<1>3. CASE result.status = "PARTIAL"
  <2>1. stages' = stages
    BY <1>3 DEF SaveRecord
  <2>2. Durable' = Durable /\ StagePrefix'
    BY <2>1, SameStages DEF IInv
  <2>3. attempts' \in Seq([stage : Stages, calls : 0 .. MaxCalls])
    <3>1. [stage |-> stage, calls |-> result.calls]
            \in [stage : Stages, calls : 0 .. MaxCalls]
      BY <1>2 DEF FitsStage, Result
    <3>2. attempts' = Append(attempts, [stage |-> stage, calls |-> result.calls])
      BY <1>3 DEF SaveRecord
    <3>3. attempts \in Seq([stage : Stages, calls : 0 .. MaxCalls])
      BY DEF IInv, TypeOK
    <3>4. QED
      BY <3>1, <3>2, <3>3, AppendProperties
  <2>4. TypeOK'
    BY <1>1, <2>1, <2>3 DEF IInv, TypeOK, observed
  <2>5. AtStage' /\ AtSave' /\ AtCommit'
    BY <1>1, <1>2, <1>3, <2>1, <2>2
       DEF AtStage, AtSave, AtCommit, Passed, FitsStage
  <2>6. QED
    BY <1>1, <2>2, <2>4, <2>5 DEF IInv, Running, AllDurable, SaveRecord
<1>4. CASE result.status # "PARTIAL"
  <2>1. stages' = [stages EXCEPT ![stage] = result] /\ attempts' = attempts
    BY <1>4 DEF SaveRecord
  <2>2. stages'[stage] = result /\ \A t \in Stages \ {stage} : stages'[t] = stages[t]
    BY <1>2, <2>1
  <2>3. Durable' = IF result.status = "COMPLETED" THEN Durable \union {stage}
                   ELSE Durable
    BY <1>2, <2>2 DEF Durable
  <2>4. Stopping' = IF result.status = "COMPLETED" THEN Stopping
                    ELSE Stopping \union {stage}
    BY <1>2, <2>2 DEF Stopping
  <2>5. Durable = 1 .. (stage - 1) /\ Stopping = {}
    <3>1. stage \notin Durable /\ stage \notin Stopping
      BY <1>2 DEF Durable, Stopping
    <3>2. 1 .. (stage - 1) \subseteq Durable
      BY <1>2 DEF Passed
    <3>3. ASSUME NEW t \in Durable PROVE t \in 1 .. (stage - 1)
      BY <1>2, <3>1, StageNames DEF IInv, StagePrefix, Durable
    <3>4. ASSUME NEW t \in Stopping PROVE FALSE
      <4>1. Durable = 1 .. (t - 1) /\ t \in 1 .. 7 /\ stage \in 1 .. 7
        BY <1>2, StageNames DEF IInv, StagePrefix, Stopping
      <4>2. t # stage
        BY <3>1
      <4>3. CASE t < stage
        BY <3>2, <4>1, <4>3
      <4>4. CASE stage < t
        BY <3>1, <4>1, <4>4
      <4>5. QED
        BY <4>1, <4>2, <4>3, <4>4
    <3>5. QED
      BY <3>2, <3>3, <3>4
  <2>6. StagePrefix'
    <3>1. stage \in 1 .. 7
      BY <1>2, StageNames
    <3>2. CASE result.status = "COMPLETED"
      BY <2>3, <2>4, <2>5, <3>1, <3>2 DEF StagePrefix
    <3>3. CASE result.status # "COMPLETED"
      BY <2>3, <2>4, <2>5, <3>1, <3>3 DEF StagePrefix
    <3>4. QED
      BY <3>2, <3>3
  <2>7. TypeOK'
    BY <1>1, <1>2, <2>1 DEF IInv, TypeOK, observed, FitsStage
  <2>8. Passed'
    BY <1>1, <1>2, <2>3 DEF Passed
  <2>9. AtStage' /\ AtSave' /\ AtCommit'
    BY <1>1, <1>2, <1>4, <2>2, <2>8 DEF AtStage, AtSave, AtCommit, FitsStage
  <2>10. Running' /\ AllDurable'
    BY <1>1 DEF IInv, Running, AllDurable, SaveRecord
  <2>11. QED
    BY <2>6, <2>7, <2>9, <2>10 DEF IInv
<1>5. QED
  BY <1>3, <1>4

LEMMA SaveRunIInv ==
  ASSUME IInv, SaveRun
  PROVE  IInv'
<1>1. Durable' = Durable /\ StagePrefix'
  BY SameStages DEF IInv, SaveRun
<1>2. /\ stage \in Stages /\ Passed /\ FitsStage(stage, result)
      /\ stages[stage] = IF result.status = "PARTIAL" THEN NULL ELSE result
      /\ current \in Manifest /\ result \in Result
  BY DEF IInv, TypeOK, AtCommit, SaveRun, FitsStage
<1>3. run' \in Manifest /\ run'.status = StatusAfter(stage, result)
  BY <1>2, NextManifestType DEF SaveRun
<1>4. result.status = "COMPLETED" => stage \in Durable
  BY <1>2, RunAssumption DEF Durable
<1>5. CASE run'.status = "RUNNING"
  <2>1. result.status = "COMPLETED" /\ stage # FINAL_EVIDENCE
    BY <1>2, <1>3, <1>5 DEF StatusAfter, Result, StageStatuses, WAITING
  <2>2. stage' = stage + 1 /\ stage' \in Stages /\ stage \in Nat
    BY <1>2, <1>5, <2>1, StageNames DEF SaveRun
  <2>3. TypeOK'
    BY <1>3, <1>5, <2>2 DEF IInv, TypeOK, SaveRun
  <2>4. Passed'
    BY <1>1, <1>2, <1>4, <2>1, <2>2 DEF Passed
  <2>5. AtStage' /\ AtSave' /\ AtCommit'
    BY <1>5, <2>4 DEF AtStage, AtSave, AtCommit, SaveRun
  <2>6. Running' /\ AllDurable'
    BY <1>5 DEF Running, AllDurable, SaveRun
  <2>7. QED
    BY <1>1, <2>3, <2>5, <2>6 DEF IInv
<1>6. CASE run'.status # "RUNNING"
  <2>1. WipeMemory
    BY <1>6 DEF SaveRun
  <2>2. TypeOK'
    BY <1>3, <1>6, <2>1, WipedType DEF IInv, TypeOK, SaveRun
  <2>3. AtStage' /\ AtSave' /\ AtCommit' /\ Running'
    BY <2>1 DEF WipeMemory, AtStage, AtSave, AtCommit, Running
  <2>4. AllDurable'
    <3>1. SUFFICES ASSUME run'.status = "COMPLETED" PROVE Durable' = Stages
      BY DEF AllDurable
    <3>2. result.status = "COMPLETED" /\ stage = FINAL_EVIDENCE
      BY <1>3, <3>1 DEF StatusAfter
    <3>3. \A t \in 1 .. 7 : t \in Durable
      BY <1>2, <1>4, <3>2, StageNames DEF Passed
    <3>4. QED
      BY <1>1, <3>3, StageNames DEF Durable
  <2>5. QED
    BY <1>1, <2>2, <2>3, <2>4 DEF IInv
<1>7. QED
  BY <1>5, <1>6

LEMMA StutterIInv ==
  ASSUME IInv, UNCHANGED vars
  PROVE  IInv'
<1>1. Durable' = Durable /\ StagePrefix'
  BY SameStages DEF IInv, vars, tables
<1>2. TypeOK'
  BY DEF IInv, TypeOK, vars, tables, memory, observed
<1>3. AtStage' /\ AtSave' /\ AtCommit'
  BY <1>1 DEF IInv, AtStage, AtSave, AtCommit, Passed, FitsStage,
     vars, tables, memory, observed
<1>4. Running' /\ AllDurable'
  BY <1>1 DEF IInv, Running, AllDurable, vars, tables, memory
<1>5. QED
  BY <1>1, <1>2, <1>3, <1>4 DEF IInv

LEMMA NextIInv == IInv /\ [Next]_vars => IInv'
<1> SUFFICES ASSUME IInv, [Next]_vars PROVE IInv'
  OBVIOUS
<1>1. ASSUME NEW m \in Modes, Invoke(m) PROVE IInv'
  BY <1>1, InvokeIInv
<1>2. CASE Replay
  BY <1>2, ReplayIInv
<1>3. CASE Refuse
  BY <1>3, RefuseIInv
<1>4. CASE Execute
  BY <1>4, ExecuteIInv
<1>5. CASE SaveRecord
  BY <1>5, SaveRecordIInv
<1>6. CASE SaveRun
  BY <1>6, SaveRunIInv
<1>7. CASE Crash
  BY <1>7, CrashIInv
<1>8. CASE Settled
  BY <1>8, StutterIInv DEF Settled
<1>9. CASE UNCHANGED vars
  BY <1>9, StutterIInv
<1>10. QED
  BY <1>1, <1>2, <1>3, <1>4, <1>5, <1>6, <1>7, <1>8, <1>9 DEF Next, Step

(* The inductive invariant holds in every reachable state.                 *)
THEOREM IInvariant == Spec => []IInv
  BY InitIInv, NextIInv, PTL DEF Spec

(* Every variable keeps its type: in particular the manifest's status is   *)
(* always one of the documented ones, whatever the adapters return.        *)
THEOREM TypeCorrect == Spec => []TypeOK
<1>1. IInv => TypeOK
  BY DEF IInv
<1>2. QED
  BY <1>1, IInvariant, PTL

(* A resume starts behind the stages already durable: they form a prefix   *)
(* of STAGE_ORDER, with at most one stop, which is right behind them.      *)
THEOREM StagePrefixHolds == Spec => []StagePrefix
<1>1. IInv => StagePrefix
  BY DEF IInv
<1>2. QED
  BY <1>1, IInvariant, PTL
-----------------------------------------------------------------------------
(* Stored evidence.                                                        *)

LEMMA AppendKeepsPrefix ==
  ASSUME NEW S, NEW seq \in Seq(S), NEW e \in S
  PROVE  SubSeq(Append(seq, e), 1, Len(seq)) = seq
<1>1. Append(seq, e) = seq \o <<e>> /\ <<e>> \in Seq(S)
  BY AppendIsConcat
<1>2. SubSeq(seq \o <<e>>, 1, Len(seq)) = SubSeq(seq, 1, Len(seq))
  BY <1>1, SubSeqOfConcat1, LenProperties
<1>3. QED
  BY <1>1, <1>2, SubSeqFull

EvidenceKept ==
  /\ run.status \in IMMUTABLE_RUN_STATUSES => run' = run
  /\ \A s \in Stages : stages[s] # NULL => stages'[s] = stages[s]
  /\ SubSeq(attempts', 1, Len(attempts)) = attempts

LEMMA StepKeepsEvidence ==
  ASSUME IInv, [Next]_vars
  PROVE  EvidenceKept
<1>0. attempts \in Seq([stage : Stages, calls : 0 .. MaxCalls])
  BY DEF IInv, TypeOK
<1>1. CASE run' = run /\ stages' = stages /\ attempts' = attempts
  BY <1>0, <1>1, SubSeqFull DEF EvidenceKept
<1>2. ASSUME NEW m \in Modes, Invoke(m) PROVE EvidenceKept
  BY <1>0, <1>2, SubSeqFull DEF EvidenceKept, Invoke
<1>3. CASE SaveRun
  BY <1>0, <1>3, SubSeqFull DEF EvidenceKept, SaveRun
<1>4. CASE SaveRecord
  <2>1. run' = run
    BY <1>4 DEF SaveRecord
  <2>2. stages[stage] = NULL /\ FitsStage(stage, result) /\ stage \in Stages
    BY <1>4 DEF IInv, TypeOK, AtSave, SaveRecord
  <2>3. \A s \in Stages : stages[s] # NULL => stages'[s] = stages[s]
    BY <1>4, <2>2 DEF IInv, TypeOK, SaveRecord
  <2>4. SubSeq(attempts', 1, Len(attempts)) = attempts
    <3>1. CASE result.status = "PARTIAL"
      <4>1. [stage |-> stage, calls |-> result.calls]
              \in [stage : Stages, calls : 0 .. MaxCalls]
        BY <2>2 DEF FitsStage, Result
      <4>2. attempts' = Append(attempts, [stage |-> stage, calls |-> result.calls])
        BY <1>4, <3>1 DEF SaveRecord
      <4>3. QED
        BY <1>0, <4>1, <4>2, AppendKeepsPrefix
    <3>2. CASE result.status # "PARTIAL"
      BY <1>0, <1>4, <3>2, SubSeqFull DEF SaveRecord
    <3>3. QED
      BY <3>1, <3>2
  <2>5. QED
    BY <2>1, <2>3, <2>4 DEF EvidenceKept
<1>5. QED
  BY <1>1, <1>2, <1>3, <1>4
     DEF Next, Step, Replay, Refuse, Execute, Crash, Settled, vars, tables

(* "A terminal run is immutable": no step, crash or resume rewrites a      *)
(* settled manifest or a stage record, and attempts are only appended.     *)
THEOREM EvidenceNeverRewritten == Spec => EvidenceImmutable
<1>1. IInv /\ [Next]_vars => [EvidenceKept]_vars
  BY StepKeepsEvidence
<1>2. QED
  BY <1>1, IInvariant, PTL DEF Spec, EvidenceImmutable, EvidenceKept

-----------------------------------------------------------------------------
(* The run implements the promise.                                         *)

(* While the loop is at a stage that is not durable, the durable stages    *)
(* are exactly the ones before it.                                         *)
LEMMA DurableBeforeStage ==
  ASSUME IInv, Passed, stage \notin Durable
  PROVE  Durable = 1 .. (stage - 1)
<1>1. stage \in 1 .. 7 /\ \A s \in Durable : s \in 1 .. 7
  BY StageNames DEF IInv, TypeOK, Durable
<1>2. ASSUME NEW s \in Durable PROVE s \in 1 .. (stage - 1)
  BY <1>1 DEF IInv, StagePrefix
<1>3. ASSUME NEW s \in 1 .. (stage - 1) PROVE s \in Durable
  BY <1>3 DEF Passed
<1>4. QED
  BY <1>2, <1>3

LEMMA InitPromise == Init => Promise!Init
  BY DEF Init, NoManifest, Durable, Promise!Init

LEMMA StepPromise ==
  ASSUME IInv, [Next]_vars
  PROVE  [Promise!Next]_(Promise!promiseVars)
<1> USE DEF Promise!promiseVars
<1>1. ASSUME run' = run, stages' = stages
      PROVE  UNCHANGED <<run.status, Durable>>
  BY <1>1, SameStages
<1>2. ASSUME NEW m \in Modes, Invoke(m)
      PROVE  [Promise!Next]_(Promise!promiseVars)
  <2>1. Durable' = Durable /\ run'.status = "RUNNING"
    BY <1>2, SameStages DEF IInv, TypeOK, Invoke, Manifest
  <2>2. run.status \in {"ABSENT", "PARTIAL", "RUNNING"}
    BY <1>2 DEF IInv, TypeOK, Invoke, Manifest, RunStatuses, Outcomes
  <2>3. QED
    BY <2>1, <2>2 DEF Promise!Next, Promise!Start
<1>3. CASE SaveRecord
  <2>1. run' = run /\ run.status = "RUNNING" /\ FitsStage(stage, result)
        /\ Passed /\ stages[stage] = NULL /\ stage \in Stages
    BY <1>3 DEF IInv, TypeOK, Running, AtSave, SaveRecord
  <2>2. stage \notin Durable
    BY <2>1 DEF Durable
  <2>3. Durable = 1 .. (stage - 1)
    BY <2>1, <2>2, DurableBeforeStage
  <2>4. CASE result.status = "COMPLETED"
    <3>1. stages' = [stages EXCEPT ![stage] = result] /\ result # NULL
      BY <1>3, <2>1, <2>4, RunAssumption DEF SaveRecord, FitsStage
    <3>2. Durable' = Durable \union {stage}
      BY <2>1, <2>4, <3>1 DEF IInv, TypeOK, Durable
    <3>3. QED
      BY <2>1, <2>3, <3>2, StageNames
         DEF Promise!Next, Promise!Advance, Promise!StagesBefore
  <2>5. CASE result.status # "COMPLETED"
    <3>1. stages' = stages \/ stages' = [stages EXCEPT ![stage] = result]
      BY <1>3 DEF SaveRecord
    <3>2. Durable' = Durable
      BY <2>1, <2>5, <3>1 DEF IInv, TypeOK, Durable
    <3>3. QED
      BY <2>1, <3>2
  <2>6. QED
    BY <2>4, <2>5
<1>4. CASE SaveRun
  <2>1. /\ stage \in Stages /\ Passed /\ FitsStage(stage, result)
        /\ stages[stage] = IF result.status = "PARTIAL" THEN NULL ELSE result
        /\ current \in Manifest /\ result \in Result /\ run.status = "RUNNING"
    BY <1>4 DEF IInv, TypeOK, AtCommit, Running, SaveRun, FitsStage
  <2>2. Durable' = Durable /\ run'.status = StatusAfter(stage, result)
    BY <1>4, <2>1, SameStages, NextManifestType DEF SaveRun
  <2>3. CASE result.status = "COMPLETED" /\ stage # FINAL_EVIDENCE
    BY <2>1, <2>2, <2>3 DEF StatusAfter
  <2>4. CASE result.status = "COMPLETED" /\ stage = FINAL_EVIDENCE
    <3>1. stage \in Durable
      BY <2>1, <2>4, RunAssumption DEF Durable
    <3>2. Durable = 1 .. 7
      BY <2>1, <2>4, <3>1, StageNames DEF Passed, Durable
    <3>3. QED
      BY <2>1, <2>2, <2>4, <3>2, StageNames
         DEF StatusAfter, Promise!Next, Promise!Complete
  <2>5. CASE result.status # "COMPLETED"
    <3>1. stage \notin Durable
      BY <2>1, <2>5 DEF Durable
    <3>2. Durable = 1 .. (stage - 1) /\ stage \in 1 .. 7
      BY <2>1, <3>1, DurableBeforeStage, StageNames
    <3>3. Durable # 1 .. 7
      <4>1. stage \in 1 .. 7 /\ stage \notin Durable
        BY <3>1, <3>2
      <4>2. QED
        BY <4>1, Zenon
    <3>4. run'.status = result.status
      BY <2>2, <2>5 DEF StatusAfter
    <3>5. \/ result.status \in {"BLOCKED", "FAILED"}
          \/ result.status = WAITING /\ stage = OPERATOR_SELECTION
          \/ result.status = "PARTIAL" /\ stage \in PartialStages
      BY <2>1, <2>5 DEF FitsStage, Result, StageStatuses
    <3>6. Promise!Stop
      BY <2>1, <2>2, <3>2, <3>3, <3>4, <3>5, StageNames
         DEF Promise!Stop, Promise!StagesBefore, WAITING
    <3>7. QED
      BY <3>6 DEF Promise!Next
  <2>6. QED
    BY <2>3, <2>4, <2>5
<1>5. QED
  BY <1>1, <1>2, <1>3, <1>4
     DEF Next, Step, Replay, Refuse, Execute, Crash, Settled, vars, tables

(* Every run of the orchestrator, crashes and resumes included, is one the *)
(* promise allows: stages become durable one at a time in order, and every *)
(* outcome but PARTIAL is final.                                           *)
THEOREM RunImplementsPromise == Spec => ImplementsPromise
  BY InitPromise, StepPromise, IInvariant, PTL DEF Spec, ImplementsPromise, Promise!Spec

-----------------------------------------------------------------------------
(* One chain of evidence.  What makes a completed record sound among the   *)
(* records before it, when a manifest reflects a record, and when a        *)
(* manifest that has a plan is backed by the records; asked is the         *)
(* opportunity the operator requested.                                     *)

Sound(records, asked, s, r) ==
  /\ s = PORTFOLIO_ANALYSIS => r.out.snap # NULL
  /\ s = WATCH_UNIVERSE_ASSEMBLY => r.out.universe # NULL
  /\ s \in {WATCH_UNIVERSE_ASSEMBLY, RESEARCH_INTEGRATION, SELECTED_OPPORTUNITY_DRY_RUN} =>
         r.out.snap = records[PORTFOLIO_ANALYSIS].out.snap
  /\ s = RESEARCH_INTEGRATION =>
         /\ r.out.research # NULL
         /\ r.out.universe = records[WATCH_UNIVERSE_ASSEMBLY].out.universe
  /\ s = OPERATOR_SELECTION =>
         /\ asked # NULL /\ r.out.opp = asked
         /\ asked \in records[RESEARCH_INTEGRATION].out.opps
  /\ s = SELECTED_OPPORTUNITY_DRY_RUN =>
         /\ r.out.research = records[RESEARCH_INTEGRATION].out.research
         /\ r.out.opp = asked /\ r.out.effects = "none"
  /\ s = FINAL_EVIDENCE => records[SELECTED_OPPORTUNITY_DRY_RUN].out.plan # NULL

Reflects(records, asked, m, t) ==
  /\ t \in m.done
  /\ t = PORTFOLIO_ANALYSIS => m.snap = records[t].out.snap
  /\ t = WATCH_UNIVERSE_ASSEMBLY => m.universe = records[t].out.universe
  /\ t = RESEARCH_INTEGRATION =>
         m.research = records[t].out.research /\ m.opps = records[t].out.opps
  /\ t = OPERATOR_SELECTION => m.selected = asked
  /\ t = SELECTED_OPPORTUNITY_DRY_RUN => m.plan = records[t].out.plan

IsCompleted(records, s) == records[s] # NULL /\ records[s].status = "COMPLETED"
Backed(records, asked, m) ==
  m.plan # NULL =>
    /\ IsCompleted(records, SELECTED_OPPORTUNITY_DRY_RUN)
    /\ m.plan = records[SELECTED_OPPORTUNITY_DRY_RUN].out.plan
    /\ m.selected = asked
    /\ m.opps = records[RESEARCH_INTEGRATION].out.opps

(* Applying a sound record of the next stage to a manifest that reflects   *)
(* the stages before it makes the manifest reflect that stage as well.     *)
LEMMA AppliedReflects ==
  ASSUME NEW records, NEW asked, NEW m \in Manifest, NEW s \in Stages,
         IsCompleted(records, s), records[s].out \in Payload,
         Sound(records, asked, s, records[s]), Backed(records, asked, m),
         \A t \in 1 .. (s - 1) : Reflects(records, asked, m, t)
  PROVE  LET new == Applied(m, s, records[s].out)
         IN  /\ \A t \in 1 .. s : Reflects(records, asked, new, t)
             /\ Backed(records, asked, new)
             /\ new.done = m.done \union {s}
             /\ new.calls = m.calls
<1> DEFINE out == records[s].out
           carried == Carried(m, s, out)
           new == Applied(m, s, out)
<1>1. carried \in Manifest /\ new = [carried EXCEPT !.done = carried.done \union {s}]
  BY CarriedType DEF Applied
<1>2. /\ new.snap = carried.snap /\ new.universe = carried.universe
      /\ new.research = carried.research /\ new.opps = carried.opps
      /\ new.selected = carried.selected /\ new.plan = carried.plan
      /\ new.done = carried.done \union {s} /\ new.calls = carried.calls
  BY <1>1 DEF Manifest
<1>3. /\ carried.snap = (IF s = 1 THEN out.snap ELSE m.snap)
      /\ carried.universe = (IF s = 3 THEN out.universe ELSE m.universe)
      /\ carried.research = (IF s = 4 THEN out.research ELSE m.research)
      /\ carried.opps = (IF s = 4 THEN out.opps ELSE m.opps)
      /\ carried.selected = (IF s = 5 THEN asked ELSE m.selected)
      /\ carried.plan = (IF s = 6 THEN out.plan ELSE m.plan)
      /\ carried.done = m.done /\ carried.calls = m.calls
  <2> HIDE DEF out
  <2>1. CASE s = 1
    BY <2>1, StageNames DEF Carried, Manifest, IfPresent, Sound, out
  <2>2. CASE s \in {2, 7}
    BY <2>2, StageNames DEF Carried
  <2>3. CASE s = 3
    BY <2>3, StageNames DEF Carried, Manifest, IfPresent, Sound, out
  <2>4. CASE s = 4
    BY <2>4, StageNames DEF Carried, Manifest, Sound, out
  <2>5. CASE s = 5
    BY <2>5, StageNames DEF Carried, Manifest, IfPresent, Sound, out
  <2>6. CASE s = 6
    <3>1. IfPresent(out.plan, m.plan) = out.plan
      BY <2>6, StageNames DEF IfPresent, Backed, out
    <3>2. QED
      BY <2>6, <3>1, StageNames DEF Carried, Manifest
  <2>7. QED
    BY <2>1, <2>2, <2>3, <2>4, <2>5, <2>6, StageNames
<1> HIDE DEF carried, new
<1>4. ASSUME NEW t \in 1 .. s PROVE Reflects(records, asked, new, t)
  <2>1. CASE t = s
    BY <1>2, <1>3, <2>1, StageNames DEF Reflects
  <2>2. CASE t # s
    <3>1. Reflects(records, asked, m, t)
      BY <2>2, StageNames
    <3>2. QED
      BY <1>2, <1>3, <2>2, <3>1, StageNames DEF Reflects
  <2>3. QED
    BY <2>1, <2>2
<1>5. Backed(records, asked, new)
  <2>1. CASE s = 6
    <3>1. Reflects(records, asked, m, 4) /\ Reflects(records, asked, m, 5)
      BY <2>1
    <3>2. QED
      BY <1>2, <1>3, <2>1, <3>1, StageNames DEF Reflects, Backed
  <2>2. CASE s # 6
    BY <1>2, <1>3, <2>2, StageNames DEF Backed
  <2>3. QED
    BY <2>1, <2>2
<1>6. QED
  BY <1>2, <1>3, <1>4, <1>5 DEF new, out

(* What a stage executed to completion reports, once validated, is sound.  *)
LEMMA CompletedIsSound ==
  ASSUME TypeOK, NEW r \in ExecutionResults(stage, mode),
         \A t \in 1 .. (stage - 1) : Reflects(stages, requested, current, t),
         Validated(stage, mode, current, r).status = "COMPLETED"
  PROVE  /\ Sound(stages, requested, stage, r)
         /\ Validated(stage, mode, current, r) = r
<1>1. /\ Validated(stage, mode, current, r) = r /\ r.status = "COMPLETED"
      /\ LineageMatches(stage, r.out, current)
      /\ stage = 6 => r.out.effects = "none"
  BY StageNames DEF Validated, Blocked, Stopped
<1> SUFFICES Sound(stages, requested, stage, r)
  BY <1>1
<1>2. stage \in 1 .. 7 /\ stage \in Stages /\ mode \in Modes
  BY StageNames DEF TypeOK
<1>3. stage > 1 => Reflects(stages, requested, current, 1)
  BY <1>2
<1>4. stage > 3 => Reflects(stages, requested, current, 3)
  BY <1>2
<1>5. stage > 4 => Reflects(stages, requested, current, 4)
  BY <1>2
<1>6. stage > 5 => Reflects(stages, requested, current, 5)
  BY <1>2
<1>7. stage > 6 => Reflects(stages, requested, current, 6)
  BY <1>2
<1>8. CASE stage \in EXTERNAL_STAGES
  <2>1. r \in AdapterResults(stage, mode)
    BY <1>1, <1>8, StageNames DEF ExecutionResults, Failed, Stopped
  <2>2. r.out \in CompletedPayloads(stage)
    <3>1. CASE r \in {Completed(n, out) : n \in CallCounts(stage),
                                          out \in CompletedPayloads(stage)}
      BY <3>1 DEF Completed
    <3>2. CASE r \in {Stopped(x[1], x[2], n, NoPayload) :
                        x \in AdapterStops(stage, mode), n \in CallCounts(stage)}
      <4>1. PICK x \in AdapterStops(stage, mode), n \in CallCounts(stage) :
                    r = Stopped(x[1], x[2], n, NoPayload)
        BY <3>2
      <4>2. x[1] \in {"BLOCKED", "FAILED"}
        BY <1>2, <1>8, AdapterStopsType
      <4>3. QED
        BY <1>1, <4>1, <4>2 DEF Stopped
    <3>3. CASE r \in {Stopped("PARTIAL", a, n, out) :
                        a \in {"CACHE_ONLY_MISS", "UPSTREAM_PARTIAL"},
                        n \in CallCounts(stage), out \in PartialPayloads(stage)}
      BY <1>1, <3>3 DEF Stopped
    <3>4. QED
      BY <2>1, <3>1, <3>2, <3>3 DEF AdapterResults
  <2>3. CASE stage = 1
    BY <1>2, <2>2, <2>3, RunAssumption, StageNames
       DEF CompletedPayloads, PayloadsOf, Sound, None
  <2>4. CASE stage = 2
    BY <2>4, StageNames DEF Sound
  <2>5. CASE stage = 3
    <3>1. r.out.universe # NULL
      BY <2>2, <2>5, RunAssumption, StageNames DEF CompletedPayloads, PayloadsOf, None
    <3>2. r.out.snap = current.snap
      BY <1>1, <2>5, StageNames DEF LineageMatches
    <3>3. QED
      BY <1>3, <2>5, <3>1, <3>2, StageNames DEF Sound, Reflects
  <2>6. CASE stage = 4
    <3>1. r.out.research # NULL
      BY <2>2, <2>6, RunAssumption, StageNames
         DEF CompletedPayloads, ResearchPayloads, PayloadsOf, None
    <3>2. r.out.snap = current.snap /\ r.out.universe = current.universe
      BY <1>1, <2>6, StageNames DEF LineageMatches
    <3>3. QED
      BY <1>3, <1>4, <2>6, <3>1, <3>2, StageNames DEF Sound, Reflects
  <2>7. CASE stage = 6
    <3>1. /\ r.out.snap = current.snap /\ r.out.research = current.research
          /\ r.out.opp = current.selected
      BY <1>1, <2>7, StageNames DEF LineageMatches
    <3>2. QED
      BY <1>1, <1>3, <1>5, <1>6, <2>7, <3>1, StageNames DEF Sound, Reflects
  <2>8. QED
    BY <1>8, <2>3, <2>4, <2>5, <2>6, <2>7, StageNames
<1>9. CASE stage = OPERATOR_SELECTION
  <2>1. r = Selected /\ requested # NULL /\ requested \in current.opps
    BY <1>1, <1>9, StageNames
       DEF ExecutionResults, SelectionResult, Stopped, Blocked, WAITING
  <2>2. r.out.opp = requested
    BY <2>1 DEF Selected, Completed, NoPayload
  <2>3. QED
    BY <1>1, <1>5, <1>9, <2>1, <2>2, StageNames DEF Sound, Reflects
<1>10. CASE stage = FINAL_EVIDENCE
  <2>1. current.plan # NULL
    BY <1>1, <1>10, StageNames DEF ExecutionResults, FinalResult, Failed, Stopped
  <2>2. QED
    BY <1>1, <1>7, <1>10, <2>1, StageNames DEF Sound, Reflects
<1>11. QED
  BY <1>1, <1>2, <1>8, <1>9, <1>10, StageNames

(* The records are sound, also the one at hand; the loop's manifest        *)
(* reflects the stages it has passed; a manifest with a plan is backed.    *)
RecordsSound == \A s \in Durable : Sound(stages, requested, s, stages[s])
ResultSound ==
  pc \in {"save", "commit"} =>
    /\ result.status = "COMPLETED" => Sound(stages, requested, stage, result)
    /\ result.status = "PARTIAL" => stage = RESEARCH_INTEGRATION \/ result.out = NoPayload
Reflected == pc # "idle" => \A t \in 1 .. (stage - 1) : Reflects(stages, requested, current, t)
PlansBacked == Backed(stages, requested, run) /\ Backed(stages, requested, current)
DoneStored == run.done \subseteq Durable /\ current.done \subseteq Durable

Lineage ==
  RecordsSound /\ ResultSound /\ Reflected /\ PlansBacked /\ DoneStored /\ CompletedLineage

LEMMA PartialPayload ==
  ASSUME TypeOK, NEW r \in ExecutionResults(stage, mode),
         Validated(stage, mode, current, r).status = "PARTIAL"
  PROVE  stage = RESEARCH_INTEGRATION \/ Validated(stage, mode, current, r).out = NoPayload
<1>1. Validated(stage, mode, current, r) = r /\ r.status = "PARTIAL"
  BY ValidatedPassesOrBlocks DEF Blocked, Stopped
<1>2. stage \in Stages /\ mode \in Modes
  BY DEF TypeOK
<1>3. CASE stage \in EXTERNAL_STAGES
  <2>1. r \in AdapterResults(stage, mode)
    BY <1>1, <1>3, StageNames DEF ExecutionResults, Failed, Stopped
  <2>2. CASE r \in {Completed(n, out) : n \in CallCounts(stage),
                                        out \in CompletedPayloads(stage)}
    BY <1>1, <2>2 DEF Completed
  <2>3. CASE r \in {Stopped(x[1], x[2], n, NoPayload) :
                      x \in AdapterStops(stage, mode), n \in CallCounts(stage)}
    BY <1>1, <2>3 DEF Stopped
  <2>4. CASE r \in {Stopped("PARTIAL", a, n, out) :
                      a \in {"CACHE_ONLY_MISS", "UPSTREAM_PARTIAL"},
                      n \in CallCounts(stage), out \in PartialPayloads(stage)}
    BY <1>1, <2>4 DEF Stopped, PartialPayloads
  <2>5. QED
    BY <2>1, <2>2, <2>3, <2>4 DEF AdapterResults
<1>4. CASE stage \notin EXTERNAL_STAGES
  BY <1>1, <1>2, <1>4, StageNames
     DEF ExecutionResults, SelectionResult, FinalResult, Stopped, Blocked, Selected,
         Completed, Failed, WAITING
<1>5. QED
  BY <1>3, <1>4

(* A manifest without a plan, or like another in what it says, is backed.  *)
LEMMA BackedAlike ==
  ASSUME NEW records, NEW asked, NEW old, NEW new, Backed(records, asked, old),
         \/ new.plan = NULL
         \/ new.plan = old.plan /\ new.selected = old.selected /\ new.opps = old.opps
  PROVE  Backed(records, asked, new)
  BY DEF Backed

LEMMA LineageInit == Init => Lineage
<1> SUFFICES ASSUME Init PROVE Lineage
  OBVIOUS
<1>1. Durable = {}
  BY DEF Init, Durable
<1>2. QED
  BY <1>1 DEF Init, Lineage, RecordsSound, ResultSound, Reflected, PlansBacked, Backed,
              DoneStored, NoManifest, CompletedLineage

(* A step that ends the invocation, or does nothing, and stores nothing.   *)
LEMMA LineageWiped ==
  ASSUME Lineage, WipeMemory, UNCHANGED <<requested, tables>>
  PROVE  Lineage'
<1>1. Durable' = Durable
  BY SameStages DEF tables
<1>2. pc' = "idle" /\ current'.plan = NULL /\ current'.done = {}
  BY DEF WipeMemory, NoManifest
<1>3. QED
  BY <1>1, <1>2
     DEF tables, Lineage, RecordsSound, ResultSound, Reflected, PlansBacked, Backed,
         DoneStored, CompletedLineage

LEMMA LineageStutter ==
  ASSUME Lineage, UNCHANGED vars
  PROVE  Lineage'
<1>1. Durable' = Durable
  BY SameStages DEF vars, tables
<1>2. QED
  BY <1>1 DEF vars, tables, memory, Lineage, RecordsSound, ResultSound, Reflected,
              PlansBacked, DoneStored, CompletedLineage

LEMMA LineageInvoke ==
  ASSUME IInv, Lineage, NEW m \in Modes, Invoke(m)
  PROVE  Lineage'
<1>1. Durable' = Durable /\ stages' = stages /\ requested' = requested
  BY SameStages DEF Invoke
<1>2. /\ run' = current' /\ current'.status = "RUNNING"
      /\ current'.done = run.done /\ current'.plan = run.plan
      /\ current'.selected = run.selected /\ current'.opps = run.opps
  BY DEF Invoke, IInv, TypeOK, Manifest
<1>3. Backed(stages, requested, current')
  BY <1>2, BackedAlike DEF Lineage, PlansBacked
<1>4. pc' = "stage" /\ 1 .. (stage' - 1) = {}
  BY StageNames DEF Invoke
<1>5. QED
  BY <1>1, <1>2, <1>3, <1>4
     DEF Lineage, RecordsSound, ResultSound, Reflected, PlansBacked, DoneStored,
         CompletedLineage

LEMMA LineageReplay ==
  ASSUME IInv, Lineage, Replay
  PROVE  Lineage'
<1>1. CASE stage = FINAL_EVIDENCE
  BY <1>1, LineageWiped DEF Replay
<1>2. CASE stage # FINAL_EVIDENCE
  <2>1. /\ UNCHANGED <<requested, tables>> /\ pc' = "stage"
        /\ current' = Applied(current, stage, stages[stage].out)
        /\ stage' = stage + 1
    BY <1>2 DEF Replay
  <2>2. Durable' = Durable
    BY <2>1, SameStages DEF tables
  <2>3. /\ stage \in Durable /\ stage \in Stages /\ current \in Manifest
        /\ IsCompleted(stages, stage) /\ stages[stage].out \in Payload
    BY RunAssumption DEF IInv, TypeOK, Replay, Durable, Result, IsCompleted
  <2>4. /\ \A t \in 1 .. stage : Reflects(stages, requested, current', t)
        /\ Backed(stages, requested, current')
        /\ current'.done = current.done \union {stage}
    BY <2>1, <2>3, AppliedReflects
       DEF Lineage, RecordsSound, Reflected, PlansBacked, Replay
  <2>5. stage' - 1 = stage
    BY <2>1, <2>3, StageNames
  <2>6. QED
    BY <2>1, <2>2, <2>3, <2>4, <2>5
       DEF tables, Lineage, RecordsSound, ResultSound, Reflected, PlansBacked,
           DoneStored, CompletedLineage
<1>3. QED
  BY <1>1, <1>2

LEMMA LineageExecute ==
  ASSUME IInv, Lineage, Execute
  PROVE  Lineage'
<1>1. Durable' = Durable /\ UNCHANGED <<requested, tables, current, stage>>
  BY SameStages DEF Execute, tables
<1>2. PICK r \in ExecutionResults(stage, mode) :
            result' = Validated(stage, mode, current, r)
  BY DEF Execute
<1>3. result'.status = "COMPLETED" => Sound(stages, requested, stage, result')
  BY <1>2, CompletedIsSound DEF IInv, Lineage, Reflected, Execute
<1>4. result'.status = "PARTIAL" => stage = RESEARCH_INTEGRATION \/ result'.out = NoPayload
  BY <1>2, PartialPayload DEF IInv
<1>5. QED
  BY <1>1, <1>3, <1>4
     DEF tables, Execute, Lineage, RecordsSound, ResultSound, Reflected, PlansBacked,
         DoneStored, CompletedLineage

(* A record stored for a stage changes nothing for the stages before it.   *)
LEMMA EarlierStay ==
  ASSUME NEW old, NEW new, NEW n \in Stages, \A t \in Stages \ {n} : new[t] = old[t],
         NEW asked
  PROVE  /\ \A s \in 1 .. n : \A r : Sound(old, asked, s, r) => Sound(new, asked, s, r)
         /\ \A t \in 1 .. (n - 1) : \A m :
                Reflects(old, asked, m, t) => Reflects(new, asked, m, t)
<1>1. ASSUME NEW s \in 1 .. n, NEW r, Sound(old, asked, s, r)
      PROVE  Sound(new, asked, s, r)
  BY <1>1, StageNames DEF Sound
<1>2. ASSUME NEW t \in 1 .. (n - 1), NEW m, Reflects(old, asked, m, t)
      PROVE  Reflects(new, asked, m, t)
  <2>1. new[t] = old[t]
    BY StageNames
  <2>2. QED
    BY <1>2, <2>1 DEF Reflects
<1>3. QED
  BY <1>1, <1>2

LEMMA LineageSaveRecord ==
  ASSUME IInv, Lineage, SaveRecord
  PROVE  Lineage'
<1>1. /\ requested' = requested /\ run' = run /\ current' = current /\ stage' = stage
      /\ result' = result /\ pc' = "commit"
      /\ run.status = "RUNNING"
  BY DEF SaveRecord, memory, IInv, Running
<1>2. /\ stage \in Stages /\ Passed /\ stages[stage] = NULL /\ FitsStage(stage, result)
      /\ result # NULL /\ stages \in [Stages -> Result \union {NULL}]
  BY RunAssumption DEF IInv, TypeOK, AtSave, SaveRecord, FitsStage
<1>3. Durable = 1 .. (stage - 1) /\ stage \notin Durable
  BY <1>2, DurableBeforeStage DEF Durable
<1>4. CASE result.status = "PARTIAL"
  <2>1. stages' = stages /\ Durable' = Durable
    BY <1>4, SameStages DEF SaveRecord
  <2>2. QED
    BY <1>1, <2>1
       DEF SaveRecord, Lineage, RecordsSound, ResultSound, Reflected, PlansBacked,
           DoneStored, CompletedLineage
<1>5. CASE result.status # "PARTIAL"
  <2>1. stages' = [stages EXCEPT ![stage] = result]
    BY <1>5 DEF SaveRecord
  <2>2. stages'[stage] = result /\ \A t \in Stages \ {stage} : stages'[t] = stages[t]
    BY <1>2, <2>1
  <2>3. Durable' = IF result.status = "COMPLETED" THEN Durable \union {stage} ELSE Durable
    BY <1>2, <2>2 DEF Durable
  <2>4. RecordsSound'
    <3> SUFFICES ASSUME NEW s \in Durable' PROVE Sound(stages', requested, s, stages'[s])
      BY <1>1 DEF RecordsSound
    <3>1. CASE s \in Durable
      <4>1. s \in 1 .. stage /\ stages'[s] = stages[s]
        BY <1>2, <1>3, <2>2, <3>1, StageNames
      <4>2. Sound(stages, requested, s, stages[s])
        BY <3>1 DEF Lineage, RecordsSound
      <4>3. QED
        BY <1>2, <2>2, <4>1, <4>2, EarlierStay
    <3>2. CASE s \notin Durable
      <4>1. s = stage /\ result.status = "COMPLETED"
        BY <2>3, <3>2
      <4>2. Sound(stages, requested, stage, result)
        BY <4>1 DEF Lineage, ResultSound, SaveRecord
      <4>3. stage \in 1 .. stage
        BY <1>2, StageNames
      <4>4. QED
        BY <1>2, <2>2, <4>1, <4>2, <4>3, EarlierStay
    <3>3. QED
      BY <3>1, <3>2
  <2>5. ResultSound'
    <3>1. stage \in 1 .. stage
      BY <1>2, StageNames
    <3>2. result.status = "COMPLETED" => Sound(stages', requested, stage, result)
      BY <1>2, <2>2, <3>1, EarlierStay DEF Lineage, ResultSound, SaveRecord
    <3>3. QED
      BY <1>1, <1>5, <3>2 DEF ResultSound
  <2>6. Reflected'
    <3>1. \A t \in 1 .. (stage - 1) : Reflects(stages', requested, current, t)
      BY <1>2, <2>2, EarlierStay DEF Lineage, Reflected, SaveRecord
    <3>2. QED
      BY <1>1, <3>1 DEF Reflected
  <2>7. ASSUME NEW m, Backed(stages, requested, m) PROVE Backed(stages', requested, m)
    <3> SUFFICES ASSUME m.plan # NULL PROVE Backed(stages', requested, m)
      BY DEF Backed
    <3>1. IsCompleted(stages, 6)
      BY <2>7, StageNames DEF Backed
    <3>2. 6 \in Durable
      BY <3>1, StageNames DEF Durable, IsCompleted
    <3>3. stage \notin {4, 6}
      BY <1>2, <1>3, <3>2, StageNames
    <3>4. stages'[4] = stages[4] /\ stages'[6] = stages[6]
      BY <2>2, <3>3, StageNames
    <3>5. QED
      BY <2>7, <3>4, StageNames DEF Backed, IsCompleted
  <2>8. PlansBacked'
    BY <1>1, <2>7 DEF Lineage, PlansBacked
  <2>9. DoneStored'
    BY <1>1, <2>3 DEF Lineage, DoneStored
  <2>10. CompletedLineage'
    BY <1>1 DEF CompletedLineage
  <2>11. QED
    BY <2>4, <2>5, <2>6, <2>8, <2>9, <2>10 DEF Lineage
<1>6. QED
  BY <1>4, <1>5

(* What the manifest stored after a stage record says.                     *)
LEMMA NextManifestParts ==
  ASSUME NEW manifest \in Manifest, NEW s \in Stages, NEW r \in Result
  PROVE  LET e == Evidence(manifest, s, r)
             n == NextManifest(manifest, s, r)
         IN  /\ n.snap = e.snap /\ n.universe = e.universe /\ n.research = e.research
             /\ n.opps = e.opps /\ n.selected = e.selected /\ n.plan = e.plan
             /\ n.done = e.done /\ n.calls = manifest.calls + r.calls
<1>1. Evidence(manifest, s, r) \in Manifest
  BY AppliedType, CarriedType DEF Evidence, Result
<1>2. QED
  BY <1>1 DEF NextManifest, Manifest

(* The evidence of a PARTIAL stage marks nothing completed, leaves the plan*)
(* alone, and is none at all unless the stage is the research.             *)
LEMMA CarriedPartial ==
  ASSUME NEW manifest \in Manifest, NEW s \in Stages, NEW out \in Payload
  PROVE  LET carried == Carried(manifest, s, out)
         IN  /\ carried.done = manifest.done
             /\ s = RESEARCH_INTEGRATION => carried.plan = manifest.plan
             /\ out = NoPayload => /\ carried.plan = manifest.plan
                                   /\ carried.selected = manifest.selected
                                   /\ carried.opps = manifest.opps
<1>1. /\ IfPresent(NULL, manifest.snap) = manifest.snap
      /\ IfPresent(NULL, manifest.universe) = manifest.universe
      /\ IfPresent(NULL, manifest.selected) = manifest.selected
      /\ IfPresent(NULL, manifest.plan) = manifest.plan
  BY DEF IfPresent
<1>2. CASE s \in {2, 7}
  BY <1>2, StageNames DEF Carried
<1>3. CASE s = 4
  BY <1>3, StageNames DEF Carried, Manifest, NoPayload
<1>4. CASE s \in {1, 3}
  BY <1>4, StageNames DEF Carried, Manifest
<1>5. CASE s = 5
  BY <1>1, <1>5, StageNames DEF Carried, Manifest, NoPayload
<1>6. CASE s = 6
  BY <1>1, <1>6, StageNames DEF Carried, Manifest, NoPayload
<1>7. QED
  BY <1>2, <1>3, <1>4, <1>5, <1>6, StageNames

(* While the research has no record there is no plan.                      *)
LEMMA NoPlanBeforeResearch ==
  ASSUME IInv, NEW m, Backed(stages, requested, m), stages[RESEARCH_INTEGRATION] = NULL
  PROVE  m.plan = NULL
<1> SUFFICES ASSUME m.plan # NULL PROVE FALSE
  OBVIOUS
<1>1. 6 \in Durable
  BY StageNames DEF Backed, IsCompleted, Durable
<1>2. 4 \in Durable
  BY <1>1 DEF IInv, StagePrefix
<1>3. QED
  BY <1>2, StageNames DEF Durable

LEMMA CommittedManifest ==
  ASSUME IInv, Lineage, pc = "commit"
  PROVE  LET n == NextManifest(current, stage, result)
         IN  /\ Backed(stages, requested, n)
             /\ \A t \in 1 .. (stage - 1) : t \in n.done
             /\ n.done \subseteq Durable
             /\ result.status = "COMPLETED" =>
                    \A t \in 1 .. stage : Reflects(stages, requested, n, t)
<1> DEFINE e == Evidence(current, stage, result)
           n == NextManifest(current, stage, result)
<1>1. /\ stage \in Stages /\ FitsStage(stage, result) /\ result \in Result
      /\ stages[stage] = IF result.status = "PARTIAL" THEN NULL ELSE result
      /\ current \in Manifest /\ result.out \in Payload
  BY DEF IInv, TypeOK, AtCommit, FitsStage, Result
<1>2. /\ n.snap = e.snap /\ n.universe = e.universe /\ n.research = e.research
      /\ n.opps = e.opps /\ n.selected = e.selected /\ n.plan = e.plan
      /\ n.done = e.done
  BY <1>1, NextManifestParts
<1>3. /\ \A t \in 1 .. (stage - 1) : Reflects(stages, requested, current, t)
      /\ Backed(stages, requested, current) /\ current.done \subseteq Durable
  BY DEF Lineage, Reflected, PlansBacked, DoneStored
<1>4. \A t \in 1 .. (stage - 1) : t \in current.done
  BY <1>3 DEF Reflects
<1> SUFFICES /\ Backed(stages, requested, e)
             /\ \A t \in 1 .. (stage - 1) : t \in e.done
             /\ e.done \subseteq Durable
             /\ result.status = "COMPLETED" =>
                    \A t \in 1 .. stage : Reflects(stages, requested, e, t)
  <2> HIDE DEF e, n
  <2> QED
    BY <1>2 DEF Backed, Reflects, n
<1>5. CASE result.status = "COMPLETED"
  <2>1. e = Applied(current, stage, stages[stage].out) /\ stages[stage] = result
    BY <1>1, <1>5 DEF Evidence
  <2>2. IsCompleted(stages, stage) /\ stage \in Durable
    BY <1>1, <1>5, <2>1, RunAssumption DEF IsCompleted, Durable
  <2>3. Sound(stages, requested, stage, stages[stage])
    BY <2>2 DEF Lineage, RecordsSound
  <2>4. /\ \A t \in 1 .. stage : Reflects(stages, requested, e, t)
        /\ Backed(stages, requested, e)
        /\ e.done = current.done \union {stage}
    BY <1>1, <1>3, <2>1, <2>2, <2>3, AppliedReflects
  <2> HIDE DEF e
  <2>5. QED
    BY <1>3, <1>4, <2>2, <2>4
<1>6. CASE result.status = "PARTIAL"
  <2>1. e = Carried(current, stage, result.out)
    BY <1>6 DEF Evidence
  <2>2. stage = RESEARCH_INTEGRATION \/ result.out = NoPayload
    BY <1>6 DEF Lineage, ResultSound
  <2>3. e.done = current.done
    BY <1>1, <2>1, CarriedPartial
  <2>4. Backed(stages, requested, e)
    <3>1. CASE stage = RESEARCH_INTEGRATION
      <4>1. current.plan = NULL
        BY <1>1, <1>3, <1>6, <3>1, NoPlanBeforeResearch
      <4>2. e.plan = NULL
        BY <1>1, <2>1, <3>1, <4>1, CarriedPartial
      <4>3. QED
        BY <4>2 DEF Backed
    <3>2. CASE result.out = NoPayload
      <4>1. e.plan = current.plan /\ e.selected = current.selected /\ e.opps = current.opps
        BY <1>1, <2>1, <3>2, CarriedPartial
      <4>2. QED
        BY <1>3, <4>1, BackedAlike
    <3>3. QED
      BY <2>2, <3>1, <3>2
  <2>5. QED
    BY <1>3, <1>4, <1>6, <2>3, <2>4
<1>7. CASE result.status \notin {"COMPLETED", "PARTIAL"}
  BY <1>3, <1>4, <1>7 DEF Evidence
<1>8. QED
  BY <1>5, <1>6, <1>7

LEMMA LineageSaveRun ==
  ASSUME IInv, Lineage, SaveRun
  PROVE  Lineage'
<1>1. Durable' = Durable /\ stages' = stages /\ requested' = requested
  BY SameStages DEF SaveRun
<1>2. /\ Backed(stages, requested, run') /\ run'.done \subseteq Durable
      /\ result.status = "COMPLETED" =>
             \A t \in 1 .. stage : Reflects(stages, requested, run', t)
  BY CommittedManifest DEF SaveRun
<1>3. /\ stage \in Stages /\ FitsStage(stage, result) /\ result \in Result
      /\ run'.status = StatusAfter(stage, result)
  BY NextManifestType DEF IInv, TypeOK, AtCommit, SaveRun, FitsStage
<1>4. CompletedLineage'
  <2> SUFFICES ASSUME run'.status = "COMPLETED" PROVE CompletedLineage'
    BY DEF CompletedLineage
  <2>1. result.status = "COMPLETED" /\ stage = 7
    BY <1>3, StageNames DEF StatusAfter
  <2>2. \A t \in Stages : Reflects(stages, requested, run', t)
    BY <1>2, <2>1, StageNames
  <2>3. Durable = Stages
    BY <1>1, SaveRunIInv DEF IInv, AllDurable
  <2>4. run'.done = Stages
    <3>1. \A t \in Stages : t \in run'.done
      BY <2>2 DEF Reflects
    <3>2. QED
      BY <1>2, <2>3, <3>1
  <2>5. \A t \in Stages : Sound(stages, requested, t, stages[t])
    BY <2>3 DEF Lineage, RecordsSound
  <2>6. /\ run'.snap = stages[1].out.snap /\ run'.universe = stages[3].out.universe
        /\ run'.research = stages[4].out.research /\ run'.plan = stages[6].out.plan
    BY <2>2, StageNames DEF Reflects
  <2>7. /\ stages[3].out.snap = stages[1].out.snap /\ stages[4].out.snap = stages[1].out.snap
        /\ stages[6].out.snap = stages[1].out.snap
        /\ stages[4].out.universe = stages[3].out.universe
        /\ stages[6].out.research = stages[4].out.research
        /\ stages[6].out.opp = requested /\ stages[6].out.effects = "none"
        /\ requested \in stages[4].out.opps /\ stages[6].out.plan # NULL
    <3>1. /\ Sound(stages, requested, 3, stages[3]) /\ Sound(stages, requested, 4, stages[4])
          /\ Sound(stages, requested, 5, stages[5]) /\ Sound(stages, requested, 6, stages[6])
          /\ Sound(stages, requested, 7, stages[7])
      BY <2>5, StageNames
    <3>2. QED
      BY <3>1, StageNames DEF Sound
  <2>8. QED
    BY <1>1, <2>3, <2>4, <2>6, <2>7, StageNames DEF CompletedLineage
<1>5. CASE run'.status = "RUNNING"
  <2>1. /\ current' = run' /\ stage' = stage + 1 /\ pc' = "stage"
    BY <1>5 DEF SaveRun
  <2>2. result.status = "COMPLETED"
    BY <1>3, <1>5 DEF StatusAfter, Result, StageStatuses, WAITING
  <2>3. stage' - 1 = stage
    BY <1>3, <2>1, StageNames
  <2>4. QED
    BY <1>1, <1>2, <1>4, <2>1, <2>2, <2>3
       DEF Lineage, RecordsSound, ResultSound, Reflected, PlansBacked, DoneStored
<1>6. CASE run'.status # "RUNNING"
  <2>1. pc' = "idle" /\ current'.plan = NULL /\ current'.done = {}
    BY <1>6 DEF SaveRun, WipeMemory, NoManifest
  <2>2. Backed(stages, requested, current')
    BY <2>1 DEF Backed
  <2>3. QED
    BY <1>1, <1>2, <1>4, <2>1, <2>2
       DEF Lineage, RecordsSound, ResultSound, Reflected, PlansBacked, DoneStored
<1>7. QED
  BY <1>5, <1>6

LEMMA LineageStep == IInv /\ Lineage /\ [Next]_vars => Lineage'
<1> SUFFICES ASSUME IInv, Lineage, [Next]_vars PROVE Lineage'
  OBVIOUS
<1>1. ASSUME NEW m \in Modes, Invoke(m) PROVE Lineage'
  BY <1>1, LineageInvoke
<1>2. CASE Replay
  BY <1>2, LineageReplay
<1>3. CASE Refuse
  BY <1>3, LineageWiped DEF Refuse
<1>4. CASE Execute
  BY <1>4, LineageExecute
<1>5. CASE SaveRecord
  BY <1>5, LineageSaveRecord
<1>6. CASE SaveRun
  BY <1>6, LineageSaveRun
<1>7. CASE Crash
  BY <1>7, LineageWiped DEF Crash
<1>8. CASE Settled \/ UNCHANGED vars
  BY <1>8, LineageStutter DEF Settled
<1>9. QED
  BY <1>1, <1>2, <1>3, <1>4, <1>5, <1>6, <1>7, <1>8 DEF Next, Step

LEMMA LineageHolds == Spec => []Lineage
  BY LineageInit, LineageStep, IInvariant, PTL DEF Spec

(* What a run selected and planned is one chain of evidence: a COMPLETED   *)
(* run's manifest says what the seven records say, each made from the ones *)
(* before it, and no manifest, stored or in memory, ever has a plan that   *)
(* is not of the opportunity the operator asked for among those offered.   *)
THEOREM EvidenceIsOneChain == Spec => []SelectedLineage
<1>1. IInv /\ Lineage => SelectedLineage
  <2> SUFFICES ASSUME IInv, Lineage PROVE SelectedLineage
    OBVIOUS
  <2>1. CompletedLineage
    BY DEF Lineage
  <2>2. ASSUME NEW m \in {run, current}, m.plan # NULL
        PROVE  requested # NULL /\ m.selected = requested /\ requested \in m.opps
    <3>1. Backed(stages, requested, m)
      BY DEF Lineage, PlansBacked
    <3>2. 6 \in Durable /\ m.selected = requested /\ m.opps = stages[4].out.opps
      BY <2>2, <3>1, StageNames DEF Backed, IsCompleted, Durable
    <3>3. 5 \in Durable
      BY <3>2 DEF IInv, StagePrefix
    <3>4. Sound(stages, requested, 5, stages[5])
      BY <3>3 DEF Lineage, RecordsSound
    <3>5. QED
      BY <3>2, <3>4, StageNames DEF Sound
  <2>3. QED
    BY <2>1, <2>2 DEF SelectedLineage, PlanOnlyForSelection
<1>2. QED
  BY <1>1, IInvariant, LineageHolds, PTL

-----------------------------------------------------------------------------
(* The manifest as an account of the records: the calls that records and   *)
(* attempts report, and what one more of either adds.                      *)

CallsOf(records, s) == IF records[s] = NULL THEN 0 ELSE records[s].calls
Logged(log) == {x \in (DOMAIN log) \X (1 .. MaxCalls) : x[2] <= log[x[1]].calls}
LoggedCalls(log) == Cardinality(Logged(log))
Total(records, log) ==
  CallsOf(records, 1) + CallsOf(records, 2) + CallsOf(records, 3) + CallsOf(records, 4)
    + CallsOf(records, 5) + CallsOf(records, 6) + CallsOf(records, 7)
    + LoggedCalls(log)

Records == [Stages -> Result \union {NULL}]
Attempt == [stage : Stages, calls : 0 .. MaxCalls]

LEMMA TotalIsRecorded == RecordedCalls = Total(stages, attempts)
  BY DEF RecordedCalls, Total, StageCalls, CallsOf, AttemptCalls, Logged, LoggedCalls

LEMMA CallsOfType ==
  ASSUME NEW records \in Records, NEW s \in Stages
  PROVE  CallsOf(records, s) \in Nat
  BY RunAssumption DEF CallsOf, Records, Result

LEMMA LoggedFinite ==
  ASSUME NEW log \in Seq(Attempt)
  PROVE  IsFiniteSet(Logged(log)) /\ LoggedCalls(log) \in Nat
<1>1. Len(log) \in Nat /\ DOMAIN log = 1 .. Len(log)
  BY LenProperties
<1>2. IsFiniteSet(1 .. Len(log)) /\ IsFiniteSet(1 .. MaxCalls)
  BY <1>1, FS_Interval, RunAssumption
<1>3. IsFiniteSet((DOMAIN log) \X (1 .. MaxCalls))
  BY <1>1, <1>2, FS_Product
<1>4. IsFiniteSet(Logged(log))
  BY <1>3, FS_Subset DEF Logged
<1>5. QED
  BY <1>4, FS_CardinalityType DEF LoggedCalls

Counts(records, log) ==
  /\ CallsOf(records, 1) \in Nat /\ CallsOf(records, 2) \in Nat
  /\ CallsOf(records, 3) \in Nat /\ CallsOf(records, 4) \in Nat
  /\ CallsOf(records, 5) \in Nat /\ CallsOf(records, 6) \in Nat
  /\ CallsOf(records, 7) \in Nat /\ LoggedCalls(log) \in Nat

(* The arithmetic of the total, with nothing else in sight.                *)
LEMMA SumType ==
  ASSUME NEW records, NEW log, Counts(records, log)
  PROVE  Total(records, log) \in Nat
  BY DEF Counts, Total

LEMMA SumLast ==
  ASSUME NEW records, NEW log, NEW new, NEW k \in Nat, Counts(records, log),
         LoggedCalls(new) = LoggedCalls(log) + k
  PROVE  Total(records, new) = Total(records, log) + k
  BY DEF Counts, Total

LEMMA SumOne ==
  ASSUME NEW records, NEW log, NEW new, NEW s \in 1 .. 7, NEW k \in Nat,
         Counts(records, log),
         \A t \in 1 .. 7 :
             CallsOf(new, t) = CallsOf(records, t) + (IF t = s THEN k ELSE 0)
  PROVE  Total(new, log) = Total(records, log) + k
<1>1. /\ CallsOf(new, 1) = CallsOf(records, 1) + (IF 1 = s THEN k ELSE 0)
      /\ CallsOf(new, 2) = CallsOf(records, 2) + (IF 2 = s THEN k ELSE 0)
      /\ CallsOf(new, 3) = CallsOf(records, 3) + (IF 3 = s THEN k ELSE 0)
      /\ CallsOf(new, 4) = CallsOf(records, 4) + (IF 4 = s THEN k ELSE 0)
      /\ CallsOf(new, 5) = CallsOf(records, 5) + (IF 5 = s THEN k ELSE 0)
      /\ CallsOf(new, 6) = CallsOf(records, 6) + (IF 6 = s THEN k ELSE 0)
      /\ CallsOf(new, 7) = CallsOf(records, 7) + (IF 7 = s THEN k ELSE 0)
  OBVIOUS
<1>2. QED
  BY <1>1 DEF Counts, Total

(* An attempt that is appended adds the calls it reports.                  *)
LEMMA LoggedAppend ==
  ASSUME NEW log \in Seq(Attempt), NEW a \in Attempt
  PROVE  LoggedCalls(Append(log, a)) = LoggedCalls(log) + a.calls
<1> DEFINE n == Len(log) + 1
           k == a.calls
           new == Append(log, a)
           added == {n} \X (1 .. k)
<1>1. /\ Len(log) \in Nat /\ DOMAIN log = 1 .. Len(log)
      /\ k \in 0 .. MaxCalls /\ k \in Nat
  BY LenProperties, RunAssumption DEF Attempt
<1>2. /\ DOMAIN new = 1 .. n /\ new[n] = a
      /\ \A i \in 1 .. Len(log) : new[i] = log[i]
  BY <1>1, AppendProperties, LenProperties
<1> HIDE DEF new
<1>3. Logged(new) = Logged(log) \union added
  <2>1. ASSUME NEW x \in Logged(new) PROVE x \in Logged(log) \union added
    BY <1>1, <1>2, RunAssumption DEF Logged
  <2>2. ASSUME NEW x \in Logged(log) PROVE x \in Logged(new)
    BY <1>1, <1>2 DEF Logged
  <2>3. ASSUME NEW x \in added PROVE x \in Logged(new)
    BY <1>1, <1>2, RunAssumption DEF Logged
  <2>4. QED
    BY <2>1, <2>2, <2>3
<1>4. Logged(log) \cap added = {}
  BY <1>1 DEF Logged
<1>5. IsFiniteSet(added) /\ Cardinality(added) = k
  <2> HIDE DEF k
  <2>1. IsFiniteSet({n}) /\ Cardinality({n}) = 1
    BY FS_Singleton
  <2>2. IsFiniteSet(1 .. k) /\ Cardinality(1 .. k) = k
    <3>1. 1 \in Int /\ k \in Int
      BY <1>1
    <3>2. IsFiniteSet(1 .. k) /\ Cardinality(1 .. k) = IF 1 > k THEN 0 ELSE k - 1 + 1
      BY <3>1, FS_Interval
    <3>3. QED
      BY <1>1, <3>2
  <2>3. /\ IsFiniteSet({n} \X (1 .. k))
        /\ Cardinality({n} \X (1 .. k)) = Cardinality({n}) * Cardinality(1 .. k)
    BY <2>1, <2>2, FS_Product
  <2>4. Cardinality({n}) * Cardinality(1 .. k) = k
    BY <1>1, <2>1, <2>2
  <2>5. QED
    BY <2>3, <2>4
<1>6. /\ IsFiniteSet(Logged(log)) /\ LoggedCalls(log) \in Nat
      /\ Cardinality({}) = 0
  BY LoggedFinite, FS_EmptySet
<1> HIDE DEF k, added
<1>7. Cardinality(Logged(log) \union added)
        = Cardinality(Logged(log)) + Cardinality(added) - Cardinality(Logged(log) \cap added)
  BY <1>5, <1>6, FS_Union
<1>8. LoggedCalls(new) = LoggedCalls(log) + k - 0
  BY <1>3, <1>4, <1>5, <1>6, <1>7 DEF LoggedCalls
<1>9. QED
  BY <1>1, <1>6, <1>8 DEF new, k

LEMMA CountsType ==
  ASSUME NEW records \in Records, NEW log \in Seq(Attempt)
  PROVE  Counts(records, log)
<1>1. LoggedCalls(log) \in Nat
  BY LoggedFinite
<1>2. /\ 1 \in Stages /\ 2 \in Stages /\ 3 \in Stages /\ 4 \in Stages
      /\ 5 \in Stages /\ 6 \in Stages /\ 7 \in Stages
  BY StageNames
<1>3. QED
  BY <1>1, <1>2, CallsOfType, Zenon DEF Counts

(* So does a record stored for a stage that had none.                      *)
LEMMA TotalStored ==
  ASSUME NEW records \in Records, NEW log \in Seq(Attempt), NEW s \in Stages,
         records[s] = NULL, NEW r \in Result
  PROVE  Total([records EXCEPT ![s] = r], log) = Total(records, log) + r.calls
<1> DEFINE new == [records EXCEPT ![s] = r]
<1>1. r.calls \in Nat /\ r # NULL
  BY RunAssumption DEF Result
<1>2. ASSUME NEW t \in Stages
      PROVE  CallsOf(new, t) = CallsOf(records, t) + (IF t = s THEN r.calls ELSE 0)
  <2>1. CallsOf(records, t) \in Nat
    BY CallsOfType
  <2>2. CASE t = s
    BY <1>1, <2>2 DEF CallsOf, Records
  <2>3. CASE t # s
    <3>1. CallsOf(new, t) = CallsOf(records, t)
      BY <2>3 DEF CallsOf, Records
    <3>2. QED
      BY <2>1, <2>3, <3>1
  <2>4. QED
    BY <2>2, <2>3
<1>3. Counts(records, log)
  BY CountsType
<1>4. s \in 1 .. 7 /\ Stages = 1 .. 7
  BY StageNames
<1> HIDE DEF new
<1>5. \A t \in 1 .. 7 :
          CallsOf(new, t) = CallsOf(records, t) + (IF t = s THEN r.calls ELSE 0)
  BY <1>2, <1>4, Zenon
<1>6. Total(new, log) = Total(records, log) + r.calls
  BY <1>1, <1>3, <1>4, <1>5, SumOne, Zenon
<1>7. QED
  BY <1>6 DEF new

LEMMA TotalAppended ==
  ASSUME NEW records \in Records, NEW log \in Seq(Attempt), NEW a \in Attempt
  PROVE  Total(records, Append(log, a)) = Total(records, log) + a.calls
<1>1. a.calls \in Nat
  BY RunAssumption DEF Attempt
<1>2. LoggedCalls(Append(log, a)) = LoggedCalls(log) + a.calls
  BY LoggedAppend
<1>3. Counts(records, log)
  BY CountsType
<1>4. QED
  BY <1>1, <1>2, <1>3, SumLast, Zenon

LEMMA TotalType ==
  ASSUME NEW records \in Records, NEW log \in Seq(Attempt)
  PROVE  Total(records, log) \in Nat
  BY CountsType, SumType

(* What keeps the account: the record at hand is the last one, the stored  *)
(* manifest lags by the crashes and by the record not yet committed, and   *)
(* the calls of that record are the only ones it does not have.            *)
Pending == IF pc = "commit" THEN 1 ELSE 0
PendingCalls == IF pc = "commit" THEN result.calls ELSE 0

Newest == pc = "commit" => Durable \subseteq 1 .. stage
Lag == Cardinality(Durable \ run.done) <= crashes + Pending
SameCalls == pc # "idle" => current.calls = run.calls
Counted ==
  /\ run.calls + PendingCalls <= Total(stages, attempts)
  /\ crashes = 0 => run.calls + PendingCalls = Total(stages, attempts)

Accounts == Newest /\ Lag /\ SameCalls /\ Counted

LEMMA AccountTypes ==
  ASSUME IInv
  PROVE  /\ stages \in Records /\ attempts \in Seq(Attempt)
         /\ run.calls \in Nat /\ current.calls \in Nat /\ crashes \in Nat
         /\ Pending \in Nat /\ PendingCalls \in Nat
         /\ IsFiniteSet(Durable) /\ Total(stages, attempts) \in Nat
<1>1. /\ stages \in Records /\ attempts \in Seq(Attempt)
      /\ run.calls \in Nat /\ current.calls \in Nat /\ crashes \in Nat
  BY DEF IInv, TypeOK, Records, Attempt, Manifest
<1>2. Pending \in Nat /\ PendingCalls \in Nat
  BY RunAssumption DEF IInv, AtCommit, FitsStage, Result, Pending, PendingCalls
<1>3. IsFiniteSet(Stages)
  <2>1. 1 \in Int /\ 7 \in Int
    OBVIOUS
  <2>2. IsFiniteSet(1 .. 7)
    BY <2>1, FS_Interval, Zenon
  <2>3. QED
    BY <2>2, StageNames
<1>4. IsFiniteSet(Durable)
  BY <1>3, FS_Subset DEF Durable
<1>5. QED
  BY <1>1, <1>2, <1>4, TotalType

LEMMA AccountsInit == Init => Accounts
<1> SUFFICES ASSUME Init PROVE Accounts
  OBVIOUS
<1>1. Durable = {} /\ run.done = {} /\ run.calls = 0 /\ crashes = 0
  BY DEF Init, Durable, NoManifest
<1>2. Pending = 0 /\ PendingCalls = 0
  BY DEF Init, Pending, PendingCalls
<1>3. \A s \in Stages : CallsOf(stages, s) = 0
  BY DEF Init, CallsOf
<1>4. LoggedCalls(attempts) = 0
  <2>1. Logged(attempts) = {}
    BY DEF Init, Logged
  <2>2. QED
    BY <2>1, FS_EmptySet DEF LoggedCalls
<1>5. Total(stages, attempts) = 0
  BY <1>3, <1>4, StageNames DEF Total
<1>6. Cardinality(Durable \ run.done) = 0
  <2>1. Durable \ run.done = {}
    BY <1>1
  <2>2. QED
    BY <2>1, FS_EmptySet
<1>7. QED
  BY <1>1, <1>2, <1>5, <1>6 DEF Init, Accounts, Newest, Lag, SameCalls, Counted

(* A step that stores nothing keeps the account, if a record not yet       *)
(* committed is given up in a crash only.                                  *)
LEMMA AccountsKept ==
  ASSUME IInv, Accounts, UNCHANGED tables, pc' # "commit",
         \/ crashes' = crashes /\ pc # "commit"
         \/ crashes' = crashes + 1,
         pc' # "idle" => current'.calls = run.calls
  PROVE  Accounts'
<1>1. Durable' = Durable /\ run' = run /\ stages' = stages /\ attempts' = attempts
  BY SameStages DEF tables
<1>2. Pending' = 0 /\ PendingCalls' = 0
  BY DEF Pending, PendingCalls
<1>3. /\ run.calls \in Nat /\ crashes \in Nat /\ PendingCalls \in Nat
      /\ Total(stages, attempts) \in Nat
  BY AccountTypes
<1>4. Cardinality(Durable \ run.done) \in Nat
  BY AccountTypes, FS_Difference, FS_CardinalityType
<1>5. Lag'
  BY <1>1, <1>2, <1>3, <1>4 DEF Accounts, Lag, Pending
<1>6. Counted'
  <2>1. run.calls + PendingCalls <= Total(stages, attempts)
    BY DEF Accounts, Counted
  <2>2. crashes' = 0 => run.calls = Total(stages, attempts)
    BY <1>3 DEF Accounts, Counted, PendingCalls
  <2>3. QED
    BY <1>1, <1>2, <1>3, <2>1, <2>2 DEF Counted
<1>7. QED
  BY <1>1, <1>5, <1>6 DEF Accounts, Newest, SameCalls

LEMMA AccountsInvoke ==
  ASSUME IInv, Accounts, NEW m \in Modes, Invoke(m)
  PROVE  Accounts'
<1>1. Durable' = Durable /\ UNCHANGED <<stages, attempts, crashes>>
  BY SameStages DEF Invoke
<1>2. /\ run' = current' /\ run'.done = run.done /\ run'.calls = run.calls
      /\ pc = "idle" /\ pc' = "stage"
  BY DEF Invoke, IInv, TypeOK, Manifest
<1>3. Pending = 0 /\ Pending' = 0 /\ PendingCalls = 0 /\ PendingCalls' = 0
  BY <1>2 DEF Pending, PendingCalls
<1>4. Lag'
  BY <1>1, <1>2, <1>3 DEF Accounts, Lag
<1>5. Counted'
  BY <1>1, <1>2, <1>3 DEF Accounts, Counted
<1>6. QED
  BY <1>2, <1>4, <1>5 DEF Accounts, Newest, SameCalls

LEMMA AccountsReplay ==
  ASSUME IInv, Lineage, Accounts, Replay
  PROVE  Accounts'
<1>1. UNCHANGED tables /\ crashes' = crashes /\ pc = "stage"
  BY DEF Replay
<1>2. CASE stage = FINAL_EVIDENCE
  <2>1. pc' = "idle"
    BY <1>2 DEF Replay, WipeMemory
  <2>2. QED
    BY <1>1, <2>1, AccountsKept
<1>3. CASE stage # FINAL_EVIDENCE
  <2>1. pc' = pc /\ current' = Applied(current, stage, stages[stage].out)
    BY <1>3 DEF Replay
  <2>2. /\ stage \in Durable /\ stage \in Stages /\ current \in Manifest
        /\ IsCompleted(stages, stage) /\ stages[stage].out \in Payload
    BY RunAssumption DEF IInv, TypeOK, Replay, Durable, Result, IsCompleted
  <2>3. current'.calls = current.calls
    BY <1>1, <2>1, <2>2, AppliedReflects
       DEF Lineage, RecordsSound, Reflected, PlansBacked
  <2>4. current'.calls = run.calls
    BY <1>1, <2>3 DEF Accounts, SameCalls
  <2>5. QED
    BY <1>1, <2>1, <2>4, AccountsKept
<1>4. QED
  BY <1>2, <1>3

LEMMA AccountsSaveRecord ==
  ASSUME IInv, Accounts, SaveRecord
  PROVE  Accounts'
<1>1. /\ run' = run /\ current' = current /\ stage' = stage /\ result' = result
      /\ crashes' = crashes /\ pc = "save" /\ pc' = "commit"
  BY DEF SaveRecord, memory, observed
<1>2. /\ stage \in Stages /\ Passed /\ stages[stage] = NULL /\ FitsStage(stage, result)
      /\ result \in Result /\ result # NULL /\ result.calls \in Nat
      /\ stages \in [Stages -> Result \union {NULL}]
  BY RunAssumption DEF IInv, TypeOK, AtSave, SaveRecord, FitsStage, Result
<1>3. Durable = 1 .. (stage - 1) /\ stage \notin Durable
  BY <1>2, DurableBeforeStage DEF Durable
<1>4. Pending = 0 /\ PendingCalls = 0 /\ Pending' = 1 /\ PendingCalls' = result.calls
  BY <1>1 DEF Pending, PendingCalls
<1>5. /\ stages \in Records /\ attempts \in Seq(Attempt) /\ run.calls \in Nat
      /\ crashes \in Nat /\ IsFiniteSet(Durable) /\ Total(stages, attempts) \in Nat
  BY AccountTypes
<1>6. Total(stages', attempts') = Total(stages, attempts) + result.calls
  <2>1. CASE result.status = "PARTIAL"
    <3>1. /\ stages' = stages
          /\ attempts' = Append(attempts, [stage |-> stage, calls |-> result.calls])
      BY <2>1 DEF SaveRecord
    <3>2. [stage |-> stage, calls |-> result.calls] \in Attempt
      BY <1>2 DEF Attempt, Result
    <3>3. QED
      BY <1>5, <3>1, <3>2, TotalAppended
  <2>2. CASE result.status # "PARTIAL"
    <3>1. stages' = [stages EXCEPT ![stage] = result] /\ attempts' = attempts
      BY <2>2 DEF SaveRecord
    <3>2. QED
      BY <1>2, <1>5, <3>1, TotalStored
  <2>3. QED
    BY <2>1, <2>2
<1>7. Durable' = Durable \/ Durable' = Durable \union {stage}
  <2>1. CASE result.status = "PARTIAL"
    BY <2>1, SameStages DEF SaveRecord
  <2>2. CASE result.status # "PARTIAL"
    <3>1. stages' = [stages EXCEPT ![stage] = result]
      BY <2>2 DEF SaveRecord
    <3>2. stages'[stage] = result /\ \A t \in Stages \ {stage} : stages'[t] = stages[t]
      BY <1>2, <3>1
    <3>3. QED
      BY <1>2, <3>2 DEF Durable
  <2>3. QED
    BY <2>1, <2>2
<1>8. Newest'
  BY <1>1, <1>2, <1>3, <1>7, StageNames DEF Newest
<1>9. Lag'
  <2> DEFINE behind == Durable \ run.done
  <2>1. IsFiniteSet(behind) /\ Cardinality(behind) \in Nat
    BY <1>5, FS_Difference, FS_CardinalityType
  <2>2. Cardinality(behind) <= crashes
    BY <1>4, <1>5, <2>1 DEF Accounts, Lag
  <2>3. /\ IsFiniteSet(behind \union {stage})
        /\ Cardinality(behind \union {stage}) <= Cardinality(behind) + 1
    BY <2>1, FS_AddElement
  <2>4. Durable' \ run.done \subseteq behind \union {stage}
    BY <1>7
  <2>5. /\ Cardinality(Durable' \ run.done) <= Cardinality(behind \union {stage})
        /\ Cardinality(Durable' \ run.done) \in Nat
        /\ Cardinality(behind \union {stage}) \in Nat
    BY <2>3, <2>4, FS_Subset, FS_CardinalityType
  <2> HIDE DEF behind
  <2>6. Cardinality(Durable' \ run.done) <= crashes + 1
    BY <1>5, <2>1, <2>2, <2>3, <2>5
  <2>7. QED
    BY <1>1, <1>4, <2>6 DEF Lag
<1>10. Counted'
  <2>1. run.calls <= Total(stages, attempts)
    BY <1>4, <1>5 DEF Accounts, Counted
  <2>2. crashes = 0 => run.calls = Total(stages, attempts)
    BY <1>4, <1>5 DEF Accounts, Counted
  <2>3. QED
    BY <1>1, <1>2, <1>4, <1>5, <1>6, <2>1, <2>2 DEF Counted
<1>11. SameCalls'
  BY <1>1 DEF Accounts, SameCalls
<1>12. QED
  BY <1>8, <1>9, <1>10, <1>11 DEF Accounts

LEMMA AccountsSaveRun ==
  ASSUME IInv, Lineage, Accounts, SaveRun
  PROVE  Accounts'
<1>1. Durable' = Durable /\ UNCHANGED <<stages, attempts, crashes>>
  BY SameStages DEF SaveRun
<1>2. /\ stage \in Stages /\ result \in Result /\ current \in Manifest
      /\ stages[stage] = IF result.status = "PARTIAL" THEN NULL ELSE result
      /\ Passed /\ run' = NextManifest(current, stage, result) /\ pc = "commit"
  BY DEF IInv, TypeOK, AtCommit, SaveRun, FitsStage
<1>3. run'.calls = current.calls + result.calls
  BY <1>2, NextManifestParts
<1>4. current.calls = run.calls
  BY <1>2 DEF Accounts, SameCalls
<1>5. Durable \subseteq run'.done
  <2>1. CASE result.status = "COMPLETED"
    <3>1. \A t \in 1 .. stage : t \in run'.done
      BY <1>2, <2>1, CommittedManifest DEF Reflects
    <3>2. Durable \subseteq 1 .. stage
      BY <1>2 DEF Accounts, Newest
    <3>3. QED
      BY <3>1, <3>2
  <2>2. CASE result.status # "COMPLETED"
    <3>1. stage \notin Durable
      BY <1>2, <2>2 DEF Durable
    <3>2. Durable = 1 .. (stage - 1)
      BY <1>2, <3>1, DurableBeforeStage
    <3>3. \A t \in 1 .. (stage - 1) : t \in run'.done
      BY <1>2, CommittedManifest
    <3>4. QED
      BY <3>2, <3>3
  <2>3. QED
    BY <2>1, <2>2
<1>6. pc' # "commit" /\ (pc' # "idle" => current' = run')
  BY DEF SaveRun, WipeMemory
<1>7. Pending' = 0 /\ PendingCalls' = 0 /\ PendingCalls = result.calls
  BY <1>2, <1>6 DEF Pending, PendingCalls
<1>8. Lag'
  <2>1. Durable \ run'.done = {}
    BY <1>5
  <2>2. Cardinality(Durable \ run'.done) = 0 /\ crashes \in Nat
    BY <2>1, FS_EmptySet, AccountTypes
  <2>3. QED
    BY <1>1, <1>7, <2>2 DEF Lag
<1>9. Counted'
  <2>1. run'.calls = run.calls + PendingCalls /\ run'.calls + 0 = run'.calls
    <3>1. run.calls \in Nat /\ PendingCalls \in Nat
      BY AccountTypes
    <3>2. QED
      BY <1>3, <1>4, <1>7, <3>1
  <2>2. QED
    BY <1>1, <1>7, <2>1 DEF Accounts, Counted
<1>10. QED
  BY <1>6, <1>8, <1>9 DEF Accounts, Newest, SameCalls

LEMMA AccountsStep == IInv /\ Lineage /\ Accounts /\ [Next]_vars => Accounts'
<1> SUFFICES ASSUME IInv, Lineage, Accounts, [Next]_vars PROVE Accounts'
  OBVIOUS
<1>1. ASSUME NEW m \in Modes, Invoke(m) PROVE Accounts'
  BY <1>1, AccountsInvoke
<1>2. CASE Replay
  BY <1>2, AccountsReplay
<1>3. CASE Refuse
  BY <1>3, AccountsKept DEF Refuse, WipeMemory
<1>4. CASE Execute
  BY <1>4, AccountsKept DEF Execute, Accounts, SameCalls
<1>5. CASE SaveRecord
  BY <1>5, AccountsSaveRecord
<1>6. CASE SaveRun
  BY <1>6, AccountsSaveRun
<1>7. CASE Crash
  BY <1>7, AccountsKept DEF Crash, WipeMemory
<1>8. CASE UNCHANGED vars
  <2>1. Durable' = Durable
    BY <1>8, SameStages DEF vars, tables
  <2>2. QED
    BY <1>8, <2>1 DEF vars, tables, memory, observed, Accounts, Newest, Lag, SameCalls,
                      Counted, Pending, PendingCalls
<1>9. QED
  BY <1>1, <1>2, <1>3, <1>4, <1>5, <1>6, <1>7, <1>8 DEF Next, Step, Settled

LEMMA AccountsHold == Spec => []Accounts
  BY AccountsInit, AccountsStep, IInvariant, LineageHolds, PTL DEF Spec

(* The stored manifest lists no stage whose record is not stored, is       *)
(* behind the records by a crash per stage at most, claims no network call *)
(* the records do not report, and without a crash claims them all: for any *)
(* number of attempts, calls and crashes.                                  *)
THEOREM ManifestIsOfRecords == Spec => []ManifestOfRecords
<1>1. IInv /\ Lineage /\ Accounts => ManifestOfRecords
  <2> SUFFICES ASSUME IInv, Lineage, Accounts PROVE ManifestOfRecords
    OBVIOUS
  <2>1. /\ run.calls \in Nat /\ crashes \in Nat /\ PendingCalls \in Nat
        /\ Total(stages, attempts) \in Nat
    BY AccountTypes
  <2>2. Cardinality(Durable \ run.done) \in Nat
    BY AccountTypes, FS_Difference, FS_CardinalityType
  <2>3. ManifestBehindStages
    BY <2>1, <2>2 DEF Lineage, DoneStored, Accounts, Lag, Pending, ManifestBehindStages
  <2>4. run.calls <= Total(stages, attempts)
    BY <2>1 DEF Accounts, Counted
  <2>5. crashes = 0 /\ pc = "idle" => run.calls = Total(stages, attempts)
    BY <2>1 DEF Accounts, Counted, PendingCalls
  <2>6. QED
    BY <2>3, <2>4, <2>5, TotalIsRecorded DEF ManifestOfRecords, NetworkEvidence
<1>2. QED
  BY <1>1, IInvariant, LineageHolds, AccountsHold, PTL

-----------------------------------------------------------------------------
(* What crashes account for.  The completed execution in hand is the stage *)
(* whose COMPLETED result is not stored yet, 0 when there is none; a spare *)
(* execution is one neither stored nor in hand.                            *)

InHand == IF pc = "save" /\ result.status = "COMPLETED" THEN stage ELSE 0

Spare(ex, durable, hand, s) ==
  ex[s] - (IF s \in durable THEN 1 ELSE 0) - (IF s = hand THEN 1 ELSE 0)

Spares(ex, durable, hand) ==
  Spare(ex, durable, hand, 1) + Spare(ex, durable, hand, 2) + Spare(ex, durable, hand, 3)
    + Spare(ex, durable, hand, 4) + Spare(ex, durable, hand, 5)
    + Spare(ex, durable, hand, 6) + Spare(ex, durable, hand, 7)

LEMMA SpareType ==
  ASSUME NEW ex \in [1 .. 7 -> Nat], NEW durable, NEW hand, NEW s \in 1 .. 7
  PROVE  Spare(ex, durable, hand, s) \in Int
  BY DEF Spare

LEMMA SparesType ==
  ASSUME NEW ex \in [1 .. 7 -> Nat], NEW durable, NEW hand
  PROVE  Spares(ex, durable, hand) \in Int
<1>1. /\ Spare(ex, durable, hand, 1) \in Int /\ Spare(ex, durable, hand, 2) \in Int
      /\ Spare(ex, durable, hand, 3) \in Int /\ Spare(ex, durable, hand, 4) \in Int
      /\ Spare(ex, durable, hand, 5) \in Int /\ Spare(ex, durable, hand, 6) \in Int
      /\ Spare(ex, durable, hand, 7) \in Int
  BY SpareType
<1>2. QED
  BY <1>1 DEF Spares

(* An execution that comes out completed is in hand.                       *)
LEMMA SparesExecuted ==
  ASSUME NEW ex \in [1 .. 7 -> Nat], NEW durable, NEW n \in 1 .. 7
  PROVE  Spares([ex EXCEPT ![n] = @ + 1], durable, n) = Spares(ex, durable, 0)
<1>1. ASSUME NEW s \in 1 .. 7
      PROVE  Spare([ex EXCEPT ![n] = @ + 1], durable, n, s) = Spare(ex, durable, 0, s)
  BY DEF Spare
<1>2. QED
  BY <1>1 DEF Spares

(* The one in hand becomes durable when its record is stored.              *)
LEMMA SparesStored ==
  ASSUME NEW ex \in [1 .. 7 -> Nat], NEW durable, NEW n \in 1 .. 7, n \notin durable
  PROVE  Spares(ex, durable \union {n}, 0) = Spares(ex, durable, n)
<1>1. ASSUME NEW s \in 1 .. 7
      PROVE  Spare(ex, durable \union {n}, 0, s) = Spare(ex, durable, n, s)
  BY DEF Spare
<1>2. QED
  BY <1>1 DEF Spares

(* Losing the one in hand leaves one spare more.                           *)
LEMMA SparesLost ==
  ASSUME NEW ex \in [1 .. 7 -> Nat], NEW durable, NEW n \in 1 .. 7
  PROVE  Spares(ex, durable, 0) = Spares(ex, durable, n) + 1
<1>1. ASSUME NEW s \in 1 .. 7
      PROVE  /\ Spare(ex, durable, n, s) \in Int
             /\ Spare(ex, durable, 0, s)
                  = Spare(ex, durable, n, s) + (IF s = n THEN 1 ELSE 0)
  BY DEF Spare
<1>2. /\ Spare(ex, durable, 0, 1) = Spare(ex, durable, n, 1) + (IF 1 = n THEN 1 ELSE 0)
      /\ Spare(ex, durable, 0, 2) = Spare(ex, durable, n, 2) + (IF 2 = n THEN 1 ELSE 0)
      /\ Spare(ex, durable, 0, 3) = Spare(ex, durable, n, 3) + (IF 3 = n THEN 1 ELSE 0)
      /\ Spare(ex, durable, 0, 4) = Spare(ex, durable, n, 4) + (IF 4 = n THEN 1 ELSE 0)
      /\ Spare(ex, durable, 0, 5) = Spare(ex, durable, n, 5) + (IF 5 = n THEN 1 ELSE 0)
      /\ Spare(ex, durable, 0, 6) = Spare(ex, durable, n, 6) + (IF 6 = n THEN 1 ELSE 0)
      /\ Spare(ex, durable, 0, 7) = Spare(ex, durable, n, 7) + (IF 7 = n THEN 1 ELSE 0)
  BY <1>1
<1>3. /\ Spare(ex, durable, n, 1) \in Int /\ Spare(ex, durable, n, 2) \in Int
      /\ Spare(ex, durable, n, 3) \in Int /\ Spare(ex, durable, n, 4) \in Int
      /\ Spare(ex, durable, n, 5) \in Int /\ Spare(ex, durable, n, 6) \in Int
      /\ Spare(ex, durable, n, 7) \in Int
  BY <1>1
<1>4. QED
  BY <1>2, <1>3 DEF Spares

LEMMA SparesAreRepeats == RepeatPaidByCrash <=> Spares(executed, Durable, InHand) <= crashes
<1>1. ASSUME NEW s \in 1 .. 7
      PROVE  Spare(executed, Durable, InHand, s)
               = executed[s] - (IF s \in Durable THEN 1 ELSE 0)
                   - (IF pc = "save" /\ stage = s /\ result.status = "COMPLETED"
                      THEN 1 ELSE 0)
  BY DEF Spare, InHand
<1>2. QED
  BY <1>1 DEF Spares, RepeatPaidByCrash

(* A stored stop, or a stored last stage, leaves the run settled unless a  *)
(* crash kept the manifest from saying so; a record just stored is the     *)
(* last one; an invocation under way has not ended.                        *)
Repeats == Spares(executed, Durable, InHand) <= crashes
LastStop == pc = "commit" => Stopping \subseteq 1 .. stage
Settling ==
  crashes = 0 /\ pc # "commit" /\ (Stopping # {} \/ FINAL_EVIDENCE \in Durable)
    => run.status \in IMMUTABLE_RUN_STATUSES
Open == pc # "idle" => ended = "none"

Crashes == Repeats /\ LastStop /\ Settling /\ Open /\ StrandedOnlyByCrash

LEMMA CrashesTypes ==
  ASSUME IInv
  PROVE  /\ executed \in [1 .. 7 -> Nat] /\ crashes \in Nat /\ stage \in 1 .. 7
         /\ Spares(executed, Durable, InHand) \in Int
<1>1. executed \in [1 .. 7 -> Nat] /\ crashes \in Nat /\ stage \in 1 .. 7
  BY StageNames DEF IInv, TypeOK
<1>2. QED
  BY <1>1, SparesType

LEMMA CrashesInit == Init => Crashes
<1> SUFFICES ASSUME Init PROVE Crashes
  OBVIOUS
<1>1. Durable = {} /\ Stopping = {} /\ crashes = 0 /\ InHand = 0
  BY DEF Init, Durable, Stopping, InHand
<1>2. executed = [s \in 1 .. 7 |-> 0]
  BY StageNames DEF Init
<1>3. \A s \in 1 .. 7 : Spare(executed, {}, 0, s) = 0
  BY <1>2 DEF Spare
<1>4. Spares(executed, Durable, InHand) = 0
  BY <1>1, <1>3 DEF Spares
<1>5. QED
  BY <1>1, <1>4 DEF Init, Crashes, Repeats, LastStop, Settling, Open, StrandedOnlyByCrash

LEMMA CrashesInvoke ==
  ASSUME IInv, Crashes, NEW m \in Modes, Invoke(m)
  PROVE  Crashes'
<1>1. /\ Durable' = Durable /\ Stopping' = Stopping /\ UNCHANGED <<crashes, executed>>
      /\ pc = "idle" /\ pc' = "stage" /\ ended' = "none"
      /\ run.status \notin IMMUTABLE_RUN_STATUSES
  BY SameStages DEF Invoke
<1>2. InHand = 0 /\ InHand' = 0
  BY <1>1 DEF InHand
<1>3. Settling'
  BY <1>1 DEF Crashes, Settling
<1>4. QED
  BY <1>1, <1>2, <1>3 DEF Crashes, Repeats, LastStop, Open, StrandedOnlyByCrash

(* A step that stores nothing, executes nothing and is no crash.           *)
LEMMA CrashesKept ==
  ASSUME IInv, Crashes, UNCHANGED <<tables, crashes, executed>>, pc = "stage",
         \/ pc' = "stage" /\ ended' = ended
         \/ pc' = "idle" /\ ended' \in {"raised", "returned"} /\ crashes > 0
  PROVE  Crashes'
<1>1. Durable' = Durable /\ Stopping' = Stopping /\ run' = run
  BY SameStages DEF tables
<1>2. InHand = 0 /\ InHand' = 0
  BY DEF InHand
<1>3. QED
  BY <1>1, <1>2 DEF Crashes, Repeats, LastStop, Settling, Open, StrandedOnlyByCrash

LEMMA CrashesReplay ==
  ASSUME IInv, Crashes, Replay
  PROVE  Crashes'
<1>1. UNCHANGED <<tables, crashes, executed>> /\ pc = "stage"
  BY DEF Replay
<1>2. CASE stage = FINAL_EVIDENCE
  <2>1. pc' = "idle" /\ ended' = "returned"
    BY <1>2 DEF Replay, WipeMemory
  <2>2. FINAL_EVIDENCE \in Durable
    BY <1>2 DEF Replay, Durable, IInv, TypeOK
  <2>3. run.status = "RUNNING"
    BY <1>1 DEF IInv, Running
  <2>4. crashes # 0
    BY <1>1, <2>2, <2>3 DEF Crashes, Settling, IMMUTABLE_RUN_STATUSES, WAITING
  <2>5. crashes > 0
    BY <2>4, CrashesTypes
  <2>6. QED
    BY <1>1, <2>1, <2>5, CrashesKept
<1>3. CASE stage # FINAL_EVIDENCE
  BY <1>1, <1>3, CrashesKept DEF Replay
<1>4. QED
  BY <1>2, <1>3

(* An invocation is refused only where a crash came between the record of  *)
(* a stop and its manifest.                                                *)
LEMMA CrashesRefuse ==
  ASSUME IInv, Crashes, Refuse
  PROVE  Crashes'
<1>1. /\ UNCHANGED <<tables, crashes, executed>> /\ pc = "stage"
      /\ pc' = "idle" /\ ended' = "raised"
  BY DEF Refuse, WipeMemory
<1>2. stage \in Stopping
  BY DEF Refuse, Stopping, IInv, TypeOK
<1>3. run.status = "RUNNING"
  BY <1>1 DEF IInv, Running
<1>4. crashes # 0
  BY <1>1, <1>2, <1>3 DEF Crashes, Settling, IMMUTABLE_RUN_STATUSES, WAITING
<1>5. crashes > 0
  BY <1>4, CrashesTypes
<1>6. QED
  BY <1>1, <1>5, CrashesKept

LEMMA CrashesExecute ==
  ASSUME IInv, Crashes, Execute
  PROVE  Crashes'
<1>1. /\ Durable' = Durable /\ Stopping' = Stopping /\ run' = run
      /\ UNCHANGED <<stage, ended, crashes>> /\ pc = "stage" /\ pc' = "save"
  BY SameStages DEF Execute, tables
<1>2. executed \in [1 .. 7 -> Nat] /\ stage \in 1 .. 7
  BY CrashesTypes
<1>3. InHand = 0 /\ InHand' = (IF result'.status = "COMPLETED" THEN stage ELSE 0)
  BY <1>1 DEF InHand
<1>4. executed' = IF result'.status = "COMPLETED"
                  THEN [executed EXCEPT ![stage] = @ + 1] ELSE executed
  BY DEF Execute
<1>5. Spares(executed', Durable, InHand') = Spares(executed, Durable, InHand)
  <2>1. CASE result'.status = "COMPLETED"
    BY <1>2, <1>3, <1>4, <2>1, SparesExecuted
  <2>2. CASE result'.status # "COMPLETED"
    BY <1>3, <1>4, <2>2
  <2>3. QED
    BY <2>1, <2>2
<1>6. QED
  BY <1>1, <1>5 DEF Crashes, Repeats, LastStop, Settling, Open, StrandedOnlyByCrash

LEMMA CrashesSaveRecord ==
  ASSUME IInv, Crashes, SaveRecord
  PROVE  Crashes'
<1>1. /\ run' = run /\ stage' = stage /\ result' = result /\ UNCHANGED observed
      /\ pc = "save" /\ pc' = "commit"
  BY DEF SaveRecord, memory
<1>2. /\ stage \in Stages /\ Passed /\ stages[stage] = NULL /\ result # NULL
      /\ stages \in [Stages -> Result \union {NULL}]
  BY RunAssumption DEF IInv, TypeOK, AtSave, SaveRecord, FitsStage
<1>3. Durable = 1 .. (stage - 1) /\ stage \notin Durable
  BY <1>2, DurableBeforeStage DEF Durable
<1>4. executed \in [1 .. 7 -> Nat] /\ stage \in 1 .. 7
  BY CrashesTypes
<1>5. InHand = (IF result.status = "COMPLETED" THEN stage ELSE 0) /\ InHand' = 0
  BY <1>1 DEF InHand
<1>6. /\ Durable' = IF result.status = "COMPLETED" THEN Durable \union {stage} ELSE Durable
      /\ Stopping' \subseteq Stopping \union {stage}
  <2>1. CASE result.status = "PARTIAL"
    BY <2>1, SameStages DEF SaveRecord
  <2>2. CASE result.status # "PARTIAL"
    <3>1. stages' = [stages EXCEPT ![stage] = result]
      BY <2>2 DEF SaveRecord
    <3>2. stages'[stage] = result /\ \A t \in Stages \ {stage} : stages'[t] = stages[t]
      BY <1>2, <3>1
    <3>3. QED
      BY <1>2, <3>2 DEF Durable, Stopping
  <2>3. QED
    BY <2>1, <2>2
<1>7. Repeats'
  <2>1. Spares(executed, Durable', 0) = Spares(executed, Durable, InHand)
    <3>1. CASE result.status = "COMPLETED"
      <4>1. Spares(executed, Durable \union {stage}, 0) = Spares(executed, Durable, stage)
        BY <1>3, <1>4, SparesStored, ZenonT(30)
      <4>2. Durable' = Durable \union {stage} /\ InHand = stage
        BY <1>5, <1>6, <3>1
      <4>3. QED
        BY <4>1, <4>2
    <3>2. CASE result.status # "COMPLETED"
      BY <1>5, <1>6, <3>2
    <3>3. QED
      BY <3>1, <3>2
  <2>2. QED
    BY <1>1, <1>5, <2>1 DEF observed, Crashes, Repeats
<1>8. LastStop'
  <2>1. ASSUME NEW t \in Stopping PROVE t \in 1 .. stage
    <3>1. Durable = 1 .. (t - 1) /\ t \in 1 .. 7
      BY <2>1, StageNames DEF IInv, StagePrefix, Stopping
    <3>2. CASE stage < t
      BY <1>3, <1>4, <3>1, <3>2
    <3>3. QED
      BY <1>4, <3>1, <3>2
  <2>2. QED
    BY <1>1, <1>4, <1>6, <2>1 DEF LastStop
<1>9. QED
  BY <1>1, <1>7, <1>8 DEF observed, Crashes, Settling, Open, StrandedOnlyByCrash

LEMMA CrashesSaveRun ==
  ASSUME IInv, Accounts, Crashes, SaveRun
  PROVE  Crashes'
<1>1. /\ Durable' = Durable /\ Stopping' = Stopping /\ UNCHANGED <<crashes, executed>>
      /\ pc = "commit" /\ pc' # "commit" /\ pc' # "save"
  BY SameStages DEF SaveRun, WipeMemory
<1>2. /\ stage \in 1 .. 7 /\ Passed /\ FitsStage(stage, result) /\ result \in Result
      /\ stages[stage] = IF result.status = "PARTIAL" THEN NULL ELSE result
      /\ run'.status = StatusAfter(stage, result)
  BY StageNames, NextManifestType DEF IInv, TypeOK, AtCommit, SaveRun, FitsStage
<1>3. InHand = 0 /\ InHand' = 0
  BY <1>1 DEF InHand
<1>4. Settling'
  <2>1. CASE FINAL_EVIDENCE \in Durable
    <3>1. stage = 7
      BY <1>1, <1>2, <2>1, StageNames DEF Accounts, Newest
    <3>2. stages[stage] # NULL /\ stages[stage].status = "COMPLETED"
      BY <2>1, <3>1, StageNames DEF Durable
    <3>3. result.status = "COMPLETED"
      BY <1>2, <3>2
    <3>4. run'.status = "COMPLETED"
      BY <1>2, <3>1, <3>3, StageNames DEF StatusAfter
    <3>5. QED
      BY <3>4 DEF Settling, IMMUTABLE_RUN_STATUSES
  <2>2. CASE Stopping # {}
    <3>1. PICK t \in Stopping : TRUE
      BY <2>2
    <3>2. t \in 1 .. stage /\ Durable = 1 .. (t - 1) /\ t \in 1 .. 7
      BY <1>1, StageNames DEF Crashes, LastStop, IInv, StagePrefix, Stopping
    <3>3. t = stage
      <4>1. ASSUME t < stage PROVE FALSE
        <5>1. t \in Durable
          BY <1>2, <3>2, <4>1 DEF Passed
        <5>2. QED
          BY <3>2, <5>1
      <4>2. QED
        BY <1>2, <3>2, <4>1
    <3>4. stages[stage] # NULL /\ stages[stage].status # "COMPLETED"
      BY <3>3 DEF Stopping
    <3>5. result.status \notin {"PARTIAL", "COMPLETED"}
      BY <1>2, <3>4
    <3>6. run'.status \in IMMUTABLE_RUN_STATUSES
      BY <1>2, <3>5 DEF StatusAfter, Result, StageStatuses, IMMUTABLE_RUN_STATUSES
    <3>7. QED
      BY <3>6 DEF Settling
  <2>3. QED
    BY <1>1, <2>1, <2>2 DEF Settling
<1>5. Open'
  BY DEF SaveRun, WipeMemory, Crashes, Open
<1>6. StrandedOnlyByCrash'
  <2>1. run'.status # "RUNNING" => run'.status \in Outcomes
    BY <1>2 DEF StatusAfter, Result, StageStatuses, Outcomes, IMMUTABLE_RUN_STATUSES
  <2>2. ended' = (IF run'.status = "RUNNING" THEN ended ELSE "returned")
    BY DEF SaveRun
  <2>3. ended = "none"
    BY <1>1 DEF Crashes, Open
  <2>4. QED
    BY <2>1, <2>2, <2>3 DEF StrandedOnlyByCrash
<1>7. QED
  BY <1>1, <1>3, <1>4, <1>5, <1>6 DEF Crashes, Repeats, LastStop

LEMMA CrashesCrash ==
  ASSUME IInv, Crashes, Crash
  PROVE  Crashes'
<1>1. /\ Durable' = Durable /\ executed' = executed /\ crashes' = crashes + 1
      /\ pc' = "idle" /\ ended' = "crashed"
  BY SameStages DEF Crash, tables, WipeMemory
<1>2. InHand' = 0 /\ InHand \in {0, stage}
  BY <1>1 DEF InHand
<1>3. /\ executed \in [1 .. 7 -> Nat] /\ crashes \in Nat /\ stage \in 1 .. 7
      /\ Spares(executed, Durable, InHand) \in Int
  BY CrashesTypes
<1>4. Spares(executed, Durable, 0) <= Spares(executed, Durable, InHand) + 1
  <2>1. CASE InHand = 0
    BY <1>3, <2>1
  <2>2. CASE InHand = stage
    <3>1. Spares(executed, Durable, 0) = Spares(executed, Durable, stage) + 1
      BY <1>3, SparesLost
    <3>2. QED
      BY <1>3, <2>2, <3>1
  <2>3. QED
    BY <1>2, <2>1, <2>2
<1>5. Spares(executed, Durable, 0) \in Int
  BY <1>3, SparesType
<1>6. Repeats'
  BY <1>1, <1>2, <1>3, <1>4, <1>5 DEF Crashes, Repeats
<1>7. QED
  BY <1>1, <1>3, <1>6 DEF Crashes, LastStop, Settling, Open, StrandedOnlyByCrash

LEMMA CrashesStep == IInv /\ Accounts /\ Crashes /\ [Next]_vars => Crashes'
<1> SUFFICES ASSUME IInv, Accounts, Crashes, [Next]_vars PROVE Crashes'
  OBVIOUS
<1>1. ASSUME NEW m \in Modes, Invoke(m) PROVE Crashes'
  BY <1>1, CrashesInvoke
<1>2. CASE Replay
  BY <1>2, CrashesReplay
<1>3. CASE Refuse
  BY <1>3, CrashesRefuse
<1>4. CASE Execute
  BY <1>4, CrashesExecute
<1>5. CASE SaveRecord
  BY <1>5, CrashesSaveRecord
<1>6. CASE SaveRun
  BY <1>6, CrashesSaveRun
<1>7. CASE Crash
  BY <1>7, CrashesCrash
<1>8. CASE UNCHANGED vars
  <2>1. Durable' = Durable /\ Stopping' = Stopping
    BY <1>8, SameStages DEF vars, tables
  <2>2. InHand' = InHand
    BY <1>8 DEF vars, memory, InHand
  <2>3. QED
    BY <1>8, <2>1, <2>2 DEF vars, tables, memory, observed, Crashes, Repeats, LastStop,
                            Settling, Open, StrandedOnlyByCrash
<1>9. QED
  BY <1>1, <1>2, <1>3, <1>4, <1>5, <1>6, <1>7, <1>8 DEF Next, Step, Settled

(* A stage is executed to completion once, and once more for each crash    *)
(* that lost it, all stages together; and an invocation is refused, or     *)
(* comes back with the run neither settled nor PARTIAL, only where the     *)
(* process died before.                                                    *)
THEOREM OnlyCrashesRepeatOrStrand == Spec => []CrashesAccounted
<1>1. Spec => []Crashes
  BY CrashesInit, CrashesStep, IInvariant, AccountsHold, PTL DEF Spec
<1>2. Crashes => CrashesAccounted
  BY SparesAreRepeats DEF Crashes, Repeats, CrashesAccounted
<1>3. QED
  BY <1>1, <1>2, PTL

(***************************************************************************)
(* An invocation ends: what the liveness of InvocationEnds rests on beside *)
(* its fairness.  A stage takes three steps at most, and no step returns   *)
(* to a stage before the one at hand.                                      *)
(***************************************************************************)

StepsLeft ==
    IF pc = "idle" THEN 0
    ELSE 3 * (FINAL_EVIDENCE - stage)
         + (IF pc = "stage" THEN 3 ELSE IF pc = "save" THEN 2 ELSE 1)

LEMMA StepsLeftType == TypeOK => StepsLeft \in 0 .. 21
<1> SUFFICES ASSUME TypeOK PROVE StepsLeft \in 0 .. 21
  OBVIOUS
<1>1. stage \in 1 .. 7 /\ FINAL_EVIDENCE = 7
  BY StageNames DEF TypeOK
<1>2. QED
  BY <1>1 DEF StepsLeft

LEMMA StepShortens ==
  ASSUME TypeOK, TypeOK', Step
  PROVE  StepsLeft' < StepsLeft
<1>1. stage \in 1 .. 7 /\ stage' \in 1 .. 7 /\ FINAL_EVIDENCE = 7
  BY StageNames DEF TypeOK
<1>2. CASE pc # "idle" /\ pc' = "idle"
  BY <1>1, <1>2 DEF StepsLeft
<1>3. CASE Replay
  <2>1. CASE stage = FINAL_EVIDENCE
    BY <1>2, <1>3, <2>1 DEF Replay, WipeMemory
  <2>2. CASE stage # FINAL_EVIDENCE
    <3>1. pc = "stage" /\ pc' = "stage" /\ stage' = stage + 1
      BY <1>3, <2>2 DEF Replay
    <3>2. QED
      BY <1>1, <3>1 DEF StepsLeft
  <2>3. QED
    BY <2>1, <2>2
<1>4. CASE Refuse
  BY <1>2, <1>4 DEF Refuse, WipeMemory
<1>5. CASE Execute
  <2>1. pc = "stage" /\ pc' = "save" /\ stage' = stage
    BY <1>5 DEF Execute
  <2>2. QED
    BY <1>1, <2>1 DEF StepsLeft
<1>6. CASE SaveRecord
  <2>1. pc = "save" /\ pc' = "commit" /\ stage' = stage
    BY <1>6 DEF SaveRecord, memory
  <2>2. QED
    BY <1>1, <2>1 DEF StepsLeft
<1>7. CASE SaveRun
  <2>1. CASE run'.status = "RUNNING"
    <3>1. pc = "commit" /\ pc' = "stage" /\ stage' = stage + 1
      BY <1>7, <2>1 DEF SaveRun
    <3>2. QED
      BY <1>1, <3>1 DEF StepsLeft
  <2>2. CASE run'.status # "RUNNING"
    BY <1>2, <1>7, <2>2 DEF SaveRun, WipeMemory
  <2>3. QED
    BY <2>1, <2>2
<1>8. QED
  BY <1>3, <1>4, <1>5, <1>6, <1>7 DEF Step

(* An invocation takes 21 steps at most, whatever its mode, the records it *)
(* replays and the results of its stages.                                  *)
THEOREM InvocationsAreBounded ==
  Spec => [](StepsLeft \in 0 .. 21) /\ [][Step => StepsLeft' < StepsLeft]_vars
<1>1. TypeOK /\ TypeOK' => [Step => StepsLeft' < StepsLeft]_vars
  BY StepShortens
<1>2. QED
  BY <1>1, StepsLeftType, TypeCorrect, PTL
=============================================================================
