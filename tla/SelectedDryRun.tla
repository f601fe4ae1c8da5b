---------------------------- MODULE SelectedDryRun ----------------------------
(***************************************************************************)
(* One selected-opportunity dry run (app/scanner/selected_opportunity_     *)
(* dry_run*.py): ten stages that take the opportunity of                   *)
(* OpportunityLifecycle from its selection to an execution plan by calling *)
(* the services the operator's commands call.                              *)
(*                                                                         *)
(* A stage first has its effect in the Stage 3 store, then its record in   *)
(* the dry-run store, and a stage that did not complete then the status of *)
(* the run: transactions of their own, and the process may die between any *)
(* two.  While no invocation runs, the operator works on the opportunity   *)
(* with the commands of OpportunityLifecycle.                              *)
(***************************************************************************)
EXTENDS OpportunityLifecycle

CONSTANTS
    Wanted,          \* parameters.instrument_id, or NoInstrument
    MaxFailures,     \* bound: a stage raises only as long as so few stages
                     \* have raised and so few processes have died
    MaxCommands      \* bound: commands the operator gives until the run ends

ASSUME DryRunAssumption ==
    /\ Wanted \in Instruments \union {NoInstrument} /\ MaxFailures \in Nat
    /\ MaxCommands \in Nat

StageOrder == <<"SELECTION_VALIDATION", "OPPORTUNITY_PREPARATION",
                "PORTFOLIO_FILTER", "PORTFOLIO_LIFECYCLE_GATE",
                "INSTRUMENT_SELECTION", "POSITION_SIZING", "TRADE_PROPOSAL",
                "PORTFOLIO_SIMULATION", "CIO_DECISION", "EXECUTION_PLAN">>
Places == 1 .. 10
End == 11            \* the loop of run() has passed its last stage

NoReason == "NONE"
Reasons == {NoReason, "DRY_RUN_PLAN_CREATED", "NO_SELECTABLE_OPPORTUNITY",
            "INVALID_SELECTION", "PORTFOLIO_SNAPSHOT_MISMATCH",
            "STALE_PORTFOLIO_SNAPSHOT", "OPERATOR_INPUT_CONFLICT",
            "CACHE_ONLY_MISS", "PORTFOLIO_FILTER_BLOCKED",
            "NO_ELIGIBLE_INSTRUMENT", "MARKET_INPUT_UNAVAILABLE",
            "POSITION_SIZING_BLOCKED", "CIO_REJECTED", "CIO_MODIFY_REQUIRED",
            "STAGE_FAILED"}

(* DryRunStageRecord; output is the row of the Stage 3 store it names.     *)
Record == [status : {"COMPLETED", "BLOCKED", "FAILED"}, reason : Reasons,
           output : Nat]
NoRecord == [status |-> "NONE", reason |-> NoReason, output |-> 0]
(* SelectedOpportunityDryRun.                                              *)
NoRun == [status |-> "NONE", reason |-> NoReason, plan |-> 0]
NoFit == "none"

VARIABLES
    run,             \* selected_opportunity_dry_runs
    records,         \* selected_opportunity_dry_run_stages, by place
    at,              \* the stage of the running invocation, 0 if none runs
    step,            \* what the invocation does next with it
    result,          \* the result the executor returned for it
    runFit,          \* what the assessment of the run says at the gate
    laterFit,        \* the latest assessment created after the run's as_of
    wrote,           \* observation: how often each stage had its effect
    failures,        \* observation: stages that raised
    commands         \* observation: commands of the operator

invocation == <<at, step, result>>
assessed == <<runFit, laterFit>>
dryVars == <<run, records, invocation, assessed, wrote, failures,
             commands>>
runVars == <<vars, dryVars>>

Idle == step = "idle" /\ pending = NoPending

(* The first stage that has no completed record; get_stage of the loop.    *)
FirstOpen ==
    IF \A p \in Places : records[p].status = "COMPLETED" THEN End
    ELSE CHOOSE p \in Places : /\ records[p].status # "COMPLETED"
                               /\ \A q \in 1 .. p - 1 :
                                      records[q].status = "COMPLETED"

(* The latest assessment by created_at: the run's carries as_of.           *)
GateFit == IF laterFit # NoFit THEN laterFit ELSE runFit

RunInit ==
    /\ Init
    /\ run = NoRun /\ records = [p \in Places |-> NoRecord]
    /\ at = 0 /\ step = "idle" /\ result = NoRecord
    /\ runFit = NoFit /\ laterFit = NoFit
    /\ wrote = [p \in Places |-> 0] /\ failures = 0 /\ commands = 0
-----------------------------------------------------------------------------
(* Invocations of SelectedOpportunityDryRunService.run.                    *)

(* Mutant: a run that was blocked is tried again, whatever blocked it.     *)
OnlyCompletedIsTerminal == run.status = "COMPLETED"
Terminal ==
    \/ run.status = "COMPLETED"
    \/ run.status = "BLOCKED" /\ run.reason # "CACHE_ONLY_MISS"

(* LIVE: the run is stored as RUNNING and the loop finds its first stage.  *)
Invoke ==
    /\ Idle /\ ~ Terminal
    /\ run' = [status |-> "RUNNING", reason |-> NoReason, plan |-> 0]
    /\ at' = FirstOpen /\ step' = IF FirstOpen = End THEN "close" ELSE "execute"
    /\ UNCHANGED <<vars, records, result, assessed, wrote, failures,
                   commands>>

(* CACHE_ONLY: a run that has not ended is blocked, to be resumed.         *)
InvokeCacheOnly ==
    /\ Idle /\ run.status \notin {"COMPLETED", "BLOCKED"}
    /\ run' = [status |-> "BLOCKED", reason |-> "CACHE_ONLY_MISS", plan |-> 0]
    /\ UNCHANGED <<vars, records, invocation, assessed, wrote, failures,
                   commands>>
-----------------------------------------------------------------------------
(* The executor: what each stage saves and what it returns.                *)

Executes(stage) == step = "execute" /\ StageOrder[at] = stage

Returns(status_, reason, output) ==
    /\ result' = [status |-> status_, reason |-> reason, output |-> output]
    /\ step' = "record"
    /\ UNCHANGED <<run, records, at, failures, commands>>

Completes(output) ==
    /\ Returns("COMPLETED", NoReason, output)
    /\ wrote' = [wrote EXCEPT ![at] = @ + 1]
(* Blocked by a policy after its row was saved, or before anything was.    *)
BlocksWithRow(reason, output) ==
    Returns("BLOCKED", reason, output) /\ wrote' = [wrote EXCEPT ![at] = @ + 1]
Blocks(reason) == Returns("BLOCKED", reason, 0) /\ UNCHANGED wrote

(* validate_selected_opportunity: provenance is what the stores of the     *)
(* research integration say; then the snapshot must be the current one.    *)
ValidateSelection(provenance) ==
    /\ Executes("SELECTION_VALIDATION")
    /\ IF provenance # NoReason THEN Blocks(provenance)
       ELSE IF current # Own THEN Blocks("STALE_PORTFOLIO_SNAPSHOT")
       ELSE Completes(0)
    /\ UNCHANGED <<vars, assessed>>

(* The overlay is written into the opportunity, or conflicts with it, or   *)
(* there is none.                                                          *)
PrepareOpportunity(overlay) ==
    /\ Executes("OPPORTUNITY_PREPARATION")
    /\ IF overlay = NoReason THEN Completes(0) ELSE Blocks(overlay)
    /\ UNCHANGED <<vars, assessed>>

(* assess_and_persist under the run's own assessment id.                   *)
FilterPortfolio(fit) ==
    /\ Executes("PORTFOLIO_FILTER")
    /\ fits' = fits \union {fit} /\ runFit' = fit
    /\ Completes(0)
    /\ UNCHANGED <<current, metadata, opportunity, chain, execution, pending,
                   crashes, laterFit>>

PassGate ==
    /\ Executes("PORTFOLIO_LIFECYCLE_GATE")
    /\ IF GateOpen(GateFit) THEN Completes(0)
       ELSE Blocks("PORTFOLIO_FILTER_BLOCKED")
    /\ UNCHANGED <<vars, assessed>>

(* The candidates are replaced also when none of them is eligible; then    *)
(* one of them, the wanted one if one is wanted, lets the stage complete.  *)
Implements(selected) == Wanted = NoInstrument \/ Wanted \in selected
RankInstruments(selected) ==
    /\ Executes("INSTRUMENT_SELECTION")
    /\ selected \subseteq Cached
    /\ eligible' = selected
    /\ IF selected # {} /\ Implements(selected)
       THEN Completes(0) /\ pending' = <<"mark", "INSTRUMENTS_RANKED">>
       ELSE BlocksWithRow("NO_ELIGIBLE_INSTRUMENT", 0) /\ UNCHANGED pending
    /\ UNCHANGED <<status, sizing, world, chain, execution, crashes, assessed>>

(* The top candidate or the wanted one, whoever ranked them.               *)
Candidates == IF Wanted = NoInstrument THEN eligible ELSE eligible \intersect {Wanted}
SizeCandidate(i, passed) ==
    /\ Executes("POSITION_SIZING")
    /\ i \in Candidates \intersect Cached
    /\ sizing' = [instrument |-> i, passed |-> passed]
    /\ IF passed THEN Completes(0) /\ pending' = <<"mark", "POSITION_SIZED">>
       ELSE BlocksWithRow("POSITION_SIZING_BLOCKED", 0) /\ UNCHANGED pending
    /\ UNCHANGED <<status, eligible, world, chain, execution, crashes, assessed>>

SizeNothing ==
    /\ Executes("POSITION_SIZING") /\ Candidates = {}
    /\ Blocks("NO_ELIGIBLE_INSTRUMENT")
    /\ UNCHANGED <<vars, assessed>>

ProposeTrade ==
    /\ Executes("TRADE_PROPOSAL") /\ CreateProposal
    /\ Completes(Len(proposals'))
    /\ UNCHANGED assessed

SimulatePortfolio(finding) ==
    /\ Executes("PORTFOLIO_SIMULATION") /\ CreateSimulation(finding)
    /\ Completes(Len(simulations'))
    /\ UNCHANGED assessed

DecideTrade ==
    /\ Executes("CIO_DECISION") /\ CreateDecision
    /\ LET new == Len(decisions')
       IN  CASE decisions'[new].decision = "ACCEPT" -> Completes(new)
             [] decisions'[new].decision = "REJECT" ->
                    BlocksWithRow("CIO_REJECTED", new)
             [] decisions'[new].decision = "MODIFY" ->
                    BlocksWithRow("CIO_MODIFY_REQUIRED", new)
    /\ UNCHANGED assessed

(* The plan the service returns, also when it is one it returns again.     *)
PlanExecution ==
    /\ Executes("EXECUTION_PLAN") /\ CreateExecutionPlan
    /\ \E p \in DOMAIN plans' :
           /\ \A q \in DOMAIN plans' :
                  plans'[q].proposal = plans'[p].proposal => q <= p
           /\ plans'[p].proposal = NewPlan.proposal
           /\ Completes(p)
    /\ UNCHANGED assessed

(* A stage that raises, before it saved anything.                          *)
Raise ==
    /\ step = "execute" /\ crashes + failures < MaxFailures
    /\ result' = [status |-> "FAILED", reason |-> "STAGE_FAILED", output |-> 0]
    /\ step' = "record" /\ failures' = failures + 1
    /\ UNCHANGED <<vars, run, records, at, assessed, wrote, commands>>

Execute ==
    \/ \E p \in {NoReason, "NO_SELECTABLE_OPPORTUNITY", "INVALID_SELECTION",
                 "PORTFOLIO_SNAPSHOT_MISMATCH"} : ValidateSelection(p)
    \/ \E o \in {NoReason, "MARKET_INPUT_UNAVAILABLE",
                 "OPERATOR_INPUT_CONFLICT"} : PrepareOpportunity(o)
    \/ \E fit \in Fits : FilterPortfolio(fit)
    \/ PassGate
    \/ \E s \in SUBSET Instruments : RankInstruments(s)
    \/ \E i \in Instruments, passed \in BOOLEAN : SizeCandidate(i, passed)
    \/ SizeNothing \/ ProposeTrade
    \/ \E finding \in Findings : SimulatePortfolio(finding)
    \/ DecideTrade \/ PlanExecution \/ Raise
-----------------------------------------------------------------------------
(* The record of the stage, the end of the invocation, process death.      *)

(* Mutant: the loop runs on after a stage that did not complete.           *)
SaveStageAndRunOn ==
    /\ step = "record" /\ pending = NoPending
    /\ records' = [records EXCEPT ![at] = result]
    /\ at' = at + 1 /\ step' = IF at = 10 THEN "close" ELSE "execute"
    /\ result' = NoRecord
    /\ UNCHANGED <<vars, run, assessed, wrote, failures,
                   commands>>

(* save_stage, once the stage has made all its saves; a completed stage    *)
(* leads to the next one that is not.                                      *)
SaveStage ==
    /\ step = "record" /\ pending = NoPending
    /\ records' = [records EXCEPT ![at] = result]
    /\ IF result.status = "COMPLETED"
       THEN /\ at' = at + 1 /\ result' = NoRecord
            /\ step' = IF at = 10 THEN "close" ELSE "execute"
       ELSE step' = "close" /\ UNCHANGED <<at, result>>
    /\ UNCHANGED <<vars, run, assessed, wrote, failures,
                   commands>>

(* save_run of the BLOCKED, FAILED or COMPLETED run.                       *)
SaveRun ==
    /\ step = "close"
    /\ run' = IF at = End
              THEN [status |-> "COMPLETED", reason |-> "DRY_RUN_PLAN_CREATED",
                    plan |-> records[10].output]
              ELSE [status |-> result.status, reason |-> result.reason,
                    plan |-> 0]
    /\ at' = 0 /\ step' = "idle" /\ result' = NoRecord
    /\ UNCHANGED <<vars, records, assessed, wrote, failures,
                   commands>>

DryRunCrash ==
    /\ step # "idle" /\ crashes < MaxCrashes
    /\ crashes' = crashes + 1 /\ pending' = NoPending
    /\ at' = 0 /\ step' = "idle" /\ result' = NoRecord
    /\ UNCHANGED <<opportunity, world, chain, execution, run, records, assessed,
                   wrote, failures,
                   commands>>

(* Between invocations: the operator.  An assessment of his may be older   *)
(* than the run's as_of only as long as none is younger.                   *)
OperatorAssessment(fit, later) ==
    /\ AssessPortfolioFit(fit)
    /\ later \/ laterFit = NoFit
    /\ laterFit' = IF later THEN fit ELSE laterFit
    /\ UNCHANGED <<run, records, invocation, runFit, wrote, failures>>

OtherCommand ==
    \/ NewSnapshot
    \/ \E i \in Instruments : \/ \E v \in Metadata, bulk \in BOOLEAN :
                                     SaveInstrument(i, v, bulk)
                              \/ DeleteInstrument(i)
                              \/ \E passed \in BOOLEAN : SizePosition(i, passed)
    \/ \E fit \in Fits, selected \in SUBSET Instruments :
           SelectInstruments(fit, selected)
    \/ Refresh \/ CreateProposal
    \/ \E finding \in Findings : CreateSimulation(finding)
    \/ CreateDecision \/ CreateExecutionPlan

(* What is done to the opportunity after the run has ended no longer       *)
(* concerns it: OpportunityLifecycle goes on from there.                   *)
Operator ==
    /\ Idle /\ ~ Terminal /\ commands < MaxCommands
    /\ commands' = commands + 1
    /\ \/ OtherCommand /\ UNCHANGED <<run, records, invocation, assessed, wrote,
                                      failures>>
       \/ \E fit \in Fits, later \in BOOLEAN : OperatorAssessment(fit, later)

RunNext ==
    \/ Invoke \/ InvokeCacheOnly
    \/ Execute \/ SaveStage \/ SaveRun \/ DryRunCrash
    \/ Operator
    \/ Finish /\ UNCHANGED dryVars

RunSpec == RunInit /\ [][RunNext]_runVars
-----------------------------------------------------------------------------
(* Properties.                                                             *)

(* "A business-policy block is terminal and does not call downstream       *)
(* stages": whatever was cut off and resumed, a stage has had an effect    *)
(* only if every stage before it is on record as completed, and a run is   *)
(* completed only with all of them and with a plan of an accepted decision.*)
NothingBelowABlock ==
    /\ \A p, q \in Places :
           p < q /\ (records[q] # NoRecord \/ wrote[q] > 0)
               => records[p].status = "COMPLETED"
    /\ run.status = "COMPLETED" =>
           /\ run.plan \in DOMAIN plans
           /\ decisions[plans[run.plan].decision].decision = "ACCEPT"
           /\ \A p \in Places : records[p].status = "COMPLETED"

(* "Terminal replay immutability": a run that completed or that a policy   *)
(* blocked is never touched again, nor does a stage of it have an effect.  *)
Ended == \/ run.status = "COMPLETED"
         \/ run.status = "BLOCKED" /\ run.reason # "CACHE_ONLY_MISS"
EndedStaysEnded == [][Ended => UNCHANGED <<run, records, wrote>>]_runVars

(* A resumed stage takes the latest row the stage before it needs.  With   *)
(* an operator who proposes, simulates or decides in between that may be   *)
(* a later revision than the run recorded, but never an earlier one.       *)
NeverAnEarlierRevision ==
    LET row(p) == records[p].output
    IN  /\ row(8) # 0 => simulations[row(8)].proposal >= row(7)
        /\ row(9) # 0 => /\ decisions[row(9)].proposal >= row(7)
                         /\ decisions[row(9)].simulation >= row(8)
        /\ row(10) # 0 => plans[row(10)].decision >= row(9)

(* A stage has its effect again only because the process died between the  *)
(* effect and the record: never more often than processes died.            *)
EffectRepeatedOnlyAfterCrash ==
    \A p \in Places : wrote[p] <= 1 + crashes

(* The effects of a dry run come in the order of its stages, and again     *)
(* only where the process died.                                            *)
OnceAndInOrder == NothingBelowABlock /\ EffectRepeatedOnlyAfterCrash
=============================================================================
