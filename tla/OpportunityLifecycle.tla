------------------------- MODULE OpportunityLifecycle -------------------------
(***************************************************************************)
(* One trade opportunity from discovery to its closed trade: the operator's*)
(* commands (app/cio/cli.py), the services behind them and the rows they   *)
(* keep in the Stage 3 store (app/cio/storage.py).                         *)
(*                                                                         *)
(* Every save is a transaction of its own.  A command that saves twice     *)
(* leaves its second save in pending; a crash loses it.  Two commands never*)
(* overlap: the desk has one operator at one terminal.                     *)
(*                                                                         *)
(* Proposals, simulations, decisions, plans, confirmations and outcomes are*)
(* sequences in the order of created_at, so the latest row is the last one;*)
(* a row is known by its position.  Outcomes are also ordered by their     *)
(* updated_at, which is the creation of an OPEN outcome and the exit time  *)
(* the operator typed for a CLOSED one, possibly a time still to come.     *)
(***************************************************************************)
EXTENDS Naturals, Sequences, FiniteSets

CONSTANTS
    Instruments,     \* Fineco instruments of the opportunity's ticker
    Metadata,        \* versions of an instrument's broker metadata
    MaxSnapshots,    \* bound: portfolio snapshots ever stored
    MaxAssessments,  \* bound: kinds of portfolio fit ever assessed
    MaxProposals,    \* bound: trade proposals of the opportunity
    MaxSimulations,  \* bound: its portfolio simulations
    MaxDecisions,    \* bound: its CIO decisions
    MaxPlans,        \* bound: its execution plans
    MaxCrashes       \* bound: process deaths

Absent == 0          \* metadata of an instrument that is not in the cache
NoInstrument == "none"
Own == 1             \* the snapshot the opportunity belongs to

ASSUME LifecycleAssumption ==
    /\ IsFiniteSet(Instruments) /\ NoInstrument \notin Instruments
    /\ Metadata \subseteq Nat \ {Absent}
    /\ MaxSnapshots \in Nat \ {0} /\ MaxAssessments \in Nat
    /\ MaxProposals \in Nat
    /\ MaxSimulations \in Nat /\ MaxDecisions \in Nat
    /\ MaxPlans \in Nat /\ MaxCrashes \in Nat

(* OpportunityStatus; REJECTED and EXPIRED are set by no code.             *)
Advanced == {"INSTRUMENTS_RANKED", "POSITION_SIZED", "READY_FOR_PROPOSAL"}
Statuses == Advanced \union {"DISCOVERED", "WAITING_FOR_BROKER_INSTRUMENTS",
                             "READY_FOR_INSTRUMENT_SELECTION"}

(* What the lifecycle gate makes of a PortfolioFitDecision: PASS and       *)
(* PASS_WITH_WARNING advance, REJECT and UNKNOWN block.                    *)
Fits == {"ADVANCE", "BLOCK"}

Sizing == [instrument : Instruments \union {NoInstrument}, passed : BOOLEAN]
NoSizing == [instrument |-> NoInstrument, passed |-> FALSE]

Proposal == [instrument : Instruments]

(* What a simulation and its proposal show: the hard constraints passed and*)
(* the critical evidence is complete, has a gap, or a constraint failed;   *)
(* and the decision CioDecisionEngine.decide takes on it.                  *)
Findings == {"COMPLETE", "GAP", "FAILED"}
Verdict == [COMPLETE |-> "ACCEPT", GAP |-> "MODIFY", FAILED |-> "REJECT"]
Simulation == [proposal : Nat, finding : Findings]
Decision == [proposal : Nat, simulation : Nat,
             decision : {"ACCEPT", "MODIFY", "REJECT"}]

Reports == {"EXECUTED", "CANCELLED"}
Waiting == "WAITING_FOR_OPERATOR_CONFIRMATION"
StatusFor == [EXECUTED |-> "OPERATOR_CONFIRMED", CANCELLED |-> "CANCELLED"]
Plan == [decision : Nat, proposal : Nat, simulation : Nat,
         instrument : Instruments, metadata : Metadata,
         status : {Waiting, "OPERATOR_CONFIRMED", "CANCELLED"}]
Confirmation == [plan : Nat, outcome : Reports]
Outcome == [plan : Nat, confirmation : Nat, status : {"OPEN", "CLOSED"},
            ahead : BOOLEAN]     \* its updated_at was typed and lies ahead

(* The second save of a command: refresh a waiting opportunity, advance    *)
(* the opportunity's status, or write the status of a confirmed plan.      *)
NoPending == <<"none">>
Pending == {NoPending, <<"refresh">>} \union ({"mark"} \X Advanced)
           \union ({"settle"} \X Reports)

VARIABLES
    status,          \* trade_opportunities.status
    current,         \* the latest portfolio snapshot
    metadata,        \* fineco_instruments: the version cached, or Absent
    fits,            \* portfolio_fit_assessments: what they say at the gate
    eligible,        \* instrument_candidates with eligible set
    sizing,          \* the latest position sizing
    proposals, simulations, decisions, plans, confirmations, outcomes,
    updatedLast,     \* the outcome with the greatest updated_at, 0 if none
    pending,         \* what the running command still has to save
    crashes          \* observation: process deaths

chain == <<proposals, simulations, decisions>>
execution == <<plans, confirmations, outcomes, updatedLast>>
opportunity == <<status, eligible, sizing>>
world == <<current, metadata, fits>>
vars == <<opportunity, world, chain, execution, pending, crashes>>

Cached == {i \in Instruments : metadata[i] # Absent}

(* refresh_trade_opportunity_broker_state                                  *)
RefreshedStatus ==
    IF status \in Advanced THEN status
    ELSE IF Cached # {} THEN "READY_FOR_INSTRUMENT_SELECTION"
         ELSE "WAITING_FOR_BROKER_INSTRUMENTS"

(* Mutant: the gate checks only that the snapshot is current.              *)
FreshIsEnough(fit) == current = Own
(* PortfolioLifecycleGate.evaluate of an assessment the operator names.    *)
GateOpen(fit) == current = Own /\ fit = "ADVANCE"

(* The research integration stored the opportunity as DISCOVERED under the *)
(* snapshot that is current.                                               *)
Init ==
    /\ status = "DISCOVERED" /\ eligible = {} /\ sizing = NoSizing
    /\ current = Own /\ metadata = [i \in Instruments |-> Absent] /\ fits = {}
    /\ proposals = <<>> /\ simulations = <<>> /\ decisions = <<>>
    /\ plans = <<>> /\ confirmations = <<>> /\ outcomes = <<>>
    /\ updatedLast = 0
    /\ pending = NoPending /\ crashes = 0
-----------------------------------------------------------------------------
(* Around the opportunity: a new portfolio analysis, the instrument cache, *)
(* the portfolio filter.                                                   *)

NewSnapshot ==
    /\ current < MaxSnapshots
    /\ current' = current + 1
    /\ UNCHANGED <<metadata, fits, opportunity, chain, execution, pending,
                   crashes>>

(* A single add or edit only saves; a bulk import then refreshes the       *)
(* opportunities that wait for instruments.                                *)
SaveInstrument(i, version, bulk) ==
    /\ metadata' = [metadata EXCEPT ![i] = version]
    /\ pending' = IF bulk THEN <<"refresh">> ELSE NoPending
    /\ UNCHANGED <<current, fits, opportunity, chain, execution, crashes>>

DeleteInstrument(i) ==
    /\ i \in Cached
    /\ metadata' = [metadata EXCEPT ![i] = Absent]
    /\ UNCHANGED <<current, fits, opportunity, chain, execution, pending,
                   crashes>>

AssessPortfolioFit(fit) ==
    /\ Cardinality(fits \union {fit}) <= MaxAssessments
    /\ fits' = fits \union {fit}
    /\ UNCHANGED <<current, metadata, opportunity, chain, execution, pending,
                   crashes>>
-----------------------------------------------------------------------------
(* The analytical commands.                                                *)

Refresh ==
    /\ status' = RefreshedStatus
    /\ UNCHANGED <<eligible, sizing, world, chain, execution, pending, crashes>>

(* replace_instrument_candidates with the eligible ones of the selection;  *)
(* without instruments the command ends before it.                         *)
Replaced(selected) == IF Cached = {} THEN eligible ELSE selected

(* Before anything is saved: the assessment is one of the opportunity's and*)
(* the gate lets it pass.                                                  *)
Selectable(fit) == fit \in fits /\ GateOpen(fit)

(* After the candidates are stored: only an eligible one ranks it.         *)
AfterSelection(selected) ==
    IF selected = {} THEN NoPending ELSE <<"mark", "INSTRUMENTS_RANKED">>

(* opportunity_instruments: gate, refresh, replace the candidates by those *)
(* of the cached instruments, then mark if any is eligible.                *)
SelectInstruments(fit, selected) ==
    /\ Selectable(fit)
    /\ selected \subseteq Cached
    /\ status' = RefreshedStatus
    /\ eligible' = Replaced(selected)
    /\ pending' = AfterSelection(selected)
    /\ UNCHANGED <<sizing, world, chain, execution, crashes>>

(* save_position_sizing: the sizing read later is always the latest.       *)
SizingOf(i, passed) == [instrument |-> i, passed |-> passed]

(* The top candidate or the operator's choice: eligible and still cached.  *)
Sizable(i) ==
    /\ status \in {"INSTRUMENTS_RANKED", "POSITION_SIZED"}
    /\ i \in eligible \intersect Cached

AfterSizing(passed) == IF passed THEN <<"mark", "POSITION_SIZED">> ELSE NoPending

(* opportunity_size *)
SizePosition(i, passed) ==
    /\ Sizable(i)
    /\ sizing' = SizingOf(i, passed)
    /\ pending' = AfterSizing(passed)
    /\ UNCHANGED <<status, eligible, world, chain, execution, crashes>>

(* TradeProposalService.create_preliminary_proposal, up to its builder     *)
Proposable ==
    /\ status \in {"POSITION_SIZED", "READY_FOR_PROPOSAL"}
    /\ sizing.passed /\ sizing.instrument \in Cached

(* opportunity_propose *)
CreateProposal ==
    /\ Len(proposals) < MaxProposals
    /\ Proposable
    /\ proposals' = Append(proposals, [instrument |-> sizing.instrument])
    /\ pending' = <<"mark", "READY_FOR_PROPOSAL">>
    /\ UNCHANGED <<opportunity, world, simulations, decisions, execution,
                   crashes>>

(* PortfolioSimulationService.create_simulation of the latest proposal     *)
Simulatable == status = "READY_FOR_PROPOSAL" /\ proposals # <<>>

(* opportunity_simulate *)
CreateSimulation(finding) ==
    /\ Len(simulations) < MaxSimulations
    /\ Simulatable
    /\ simulations' = Append(simulations, [proposal |-> Len(proposals),
                                           finding |-> finding])
    /\ UNCHANGED <<opportunity, world, proposals, decisions, execution, pending,
                   crashes>>

(* Mutant: the list is in ascending order.                                 *)
IsFirstSimulation(s, proposal) ==
    /\ simulations[s].proposal = proposal
    /\ \A t \in DOMAIN simulations : simulations[t].proposal = proposal => t >= s

(* list_portfolio_simulations(proposal)[0]                                 *)
IsLatestSimulation(s, proposal) ==
    /\ simulations[s].proposal = proposal
    /\ \A t \in DOMAIN simulations : simulations[t].proposal = proposal => t <= s

(* CioDecisionService.create_decision                                      *)
CreateDecision ==
    /\ Len(decisions) < MaxDecisions
    /\ status = "READY_FOR_PROPOSAL" /\ proposals # <<>>
    /\ \E s \in DOMAIN simulations :
           /\ IsLatestSimulation(s, Len(proposals))
           /\ decisions' = Append(decisions,
                  [proposal |-> Len(proposals), simulation |-> s,
                   decision |-> Verdict[simulations[s].finding]])
    /\ UNCHANGED <<opportunity, world, proposals, simulations, execution,
                   pending, crashes>>
-----------------------------------------------------------------------------
(* The manual execution.                                                   *)

(* Mutant: the latest proposal instead of the one that was decided on.     *)
PlanOfLatestProposal ==
    LET d == decisions[Len(decisions)]
        i == proposals[Len(proposals)].instrument
    IN  [decision |-> Len(decisions), proposal |-> Len(proposals),
         simulation |-> d.simulation, instrument |-> i,
         metadata |-> metadata[i], status |-> Waiting]

(* ExecutionPlanBuilder.build on the latest decision                       *)
NewPlan ==
    LET d == decisions[Len(decisions)]
        i == proposals[d.proposal].instrument
    IN  [decision |-> Len(decisions), proposal |-> d.proposal,
         simulation |-> d.simulation, instrument |-> i,
         metadata |-> metadata[i], status |-> Waiting]

(* Mutant: a plan the operator has reported on is not returned again.      *)
ReusableWhileWaiting(new) ==
    LET own == {p \in DOMAIN plans : plans[p].proposal = new.proposal}
    IN  \E p \in own : /\ \A q \in own : q <= p
                       /\ plans[p].decision = new.decision
                       /\ plans[p].metadata = new.metadata
                       /\ plans[p].status = Waiting

(* The plan create_execution_plan returns instead of a new one: the latest *)
(* of the proposal, if it has the decision and the current metadata.       *)
Reusable(new) ==
    LET own == {p \in DOMAIN plans : plans[p].proposal = new.proposal}
    IN  \E p \in own : /\ \A q \in own : q <= p
                       /\ plans[p].decision = new.decision
                       /\ plans[p].metadata = new.metadata

(* ExecutionPlanBuilder._validate_inputs: the decision accepts, and its    *)
(* rows are of each other.                                                 *)
Buildable(d) ==
    LET simulation == simulations[decisions[d].simulation]
    IN  /\ decisions[d].decision = "ACCEPT"
        /\ simulation.proposal = decisions[d].proposal
        /\ simulation.finding # "FAILED"

(* ExecutionPlanService.create_execution_plan                              *)
CreateExecutionPlan ==
    /\ decisions # <<>>
    /\ Buildable(Len(decisions))
    /\ proposals[decisions[Len(decisions)].proposal].instrument \in Cached
    /\ IF Reusable(NewPlan) THEN UNCHANGED plans
       ELSE Len(plans) < MaxPlans /\ plans' = Append(plans, NewPlan)
    /\ UNCHANGED <<opportunity, world, chain, confirmations, outcomes,
                   updatedLast, pending, crashes>>

Reported(p) == \E c \in DOMAIN confirmations : confirmations[c].plan = p

(* Mutant: the status is written before the confirmation.                  *)
ConfirmStatusFirst(outcome) ==
    /\ plans # <<>>
    /\ plans[Len(plans)].status = Waiting
    /\ ~ Reported(Len(plans))
    /\ plans' = [plans EXCEPT ![Len(plans)].status = StatusFor[outcome]]
    /\ pending' = <<"settle", outcome>>
    /\ UNCHANGED <<opportunity, world, chain, confirmations, outcomes,
                   updatedLast, crashes>>

(* OperatorConfirmationService.confirm_executed, confirm_cancelled         *)
Confirmable ==
    /\ plans # <<>>
    /\ plans[Len(plans)].status = Waiting
    /\ ~ Reported(Len(plans))

(* opportunity_confirm of the latest plan: the confirmation first, the     *)
(* plan's status in a second transaction.                                  *)
Confirm(outcome) ==
    /\ Confirmable
    /\ confirmations' = Append(confirmations, [plan |-> Len(plans),
                                               outcome |-> outcome])
    /\ pending' = <<"settle", outcome>>
    /\ UNCHANGED <<opportunity, world, chain, plans, outcomes, updatedLast,
                   crashes>>

(* get_latest_operator_confirmation_for_execution_plan                     *)
IsLatestReport(c, p) ==
    /\ confirmations[c].plan = p
    /\ \A d \in DOMAIN confirmations : confirmations[d].plan = p => d <= c

(* Mutants: the plan's outcome is not looked up; or any reported plan will *)
(* do.                                                                     *)
CreateOutcomeAgain(overtaken) ==
    /\ plans # <<>> /\ plans[Len(plans)].status = "OPERATOR_CONFIRMED"
    /\ \E c \in DOMAIN confirmations :
           /\ IsLatestReport(c, Len(plans))
           /\ confirmations[c].outcome = "EXECUTED"
           /\ outcomes' = Append(outcomes,
                  [plan |-> Len(plans), confirmation |-> c,
                   status |-> "OPEN", ahead |-> FALSE])
    /\ updatedLast' = Len(outcomes) + 1
    /\ UNCHANGED <<opportunity, world, chain, plans, confirmations, pending,
                   crashes>>

CreateOutcomeOfAnyReport(overtaken) ==
    /\ plans # <<>>
    /\ \A o \in DOMAIN outcomes : outcomes[o].plan # Len(plans)
    /\ \E c \in DOMAIN confirmations :
           /\ IsLatestReport(c, Len(plans))
           /\ outcomes' = Append(outcomes,
                  [plan |-> Len(plans), confirmation |-> c,
                   status |-> "OPEN", ahead |-> FALSE])
    /\ updatedLast' = Len(outcomes) + 1
    /\ UNCHANGED <<opportunity, world, chain, plans, confirmations, pending,
                   crashes>>

(* TradeOutcomeService.create_open_outcome; an outcome the latest plan     *)
(* already has is returned.                                                *)
Tradable ==
    /\ plans # <<>> /\ plans[Len(plans)].status = "OPERATOR_CONFIRMED"
    /\ \A o \in DOMAIN outcomes : outcomes[o].plan # Len(plans)

(* TradeOutcomeBuilder.build_open *)
OpenOutcome(c) == [plan |-> Len(plans), confirmation |-> c,
                   status |-> "OPEN", ahead |-> FALSE]

(* opportunity_outcome.  An outcome closed ahead of time stays the one     *)
(* updated last until the clock has overtaken it.                          *)
CreateOutcome(overtaken) ==
    /\ Tradable
    /\ \E c \in DOMAIN confirmations :
           /\ IsLatestReport(c, Len(plans))
           /\ confirmations[c].outcome = "EXECUTED"
           /\ outcomes' = Append(outcomes, OpenOutcome(c))
    /\ updatedLast' = IF /\ updatedLast # 0 /\ outcomes[updatedLast].ahead
                         /\ ~ overtaken
                      THEN updatedLast ELSE Len(outcomes) + 1
    /\ UNCHANGED <<opportunity, world, chain, plans, confirmations, pending,
                   crashes>>

(* Mutant: a closed outcome may be closed again.                           *)
CloseAgain(ahead) ==
    /\ updatedLast # 0
    /\ outcomes' = [outcomes EXCEPT ![updatedLast] =
                        [@ EXCEPT !.status = "CLOSED", !.ahead = ahead]]
    /\ UNCHANGED <<opportunity, world, chain, plans, confirmations, updatedLast,
                   pending, crashes>>

(* The exit time the operator types may lie ahead of the clock.            *)
ExitTimesAhead == BOOLEAN

(* TradeOutcomeService.close_outcome of get_latest_trade_outcome           *)
Closable == updatedLast # 0 /\ outcomes[updatedLast].status = "OPEN"

(* The outcome as it is validated again with its exit; always in full.     *)
ClosedOutcome(outcome, ahead) ==
    [outcome EXCEPT !.status = "CLOSED", !.ahead = ahead]

(* opportunity_outcome_close *)
CloseOutcome(ahead) ==
    /\ Closable
    /\ outcomes' = [outcomes EXCEPT ![updatedLast] = ClosedOutcome(@, ahead)]
    /\ UNCHANGED <<opportunity, world, chain, plans, confirmations, updatedLast,
                   pending, crashes>>
-----------------------------------------------------------------------------
(* The second transactions.                                                *)

(* refresh_waiting_trade_opportunities                                     *)
RefreshWaiting ==
    /\ pending = <<"refresh">>
    /\ status' = IF status = "WAITING_FOR_BROKER_INSTRUMENTS"
                 THEN RefreshedStatus ELSE status
    /\ pending' = NoPending
    /\ UNCHANGED <<eligible, sizing, world, chain, execution, crashes>>

(* What the three mark_trade_opportunity_* methods demand.                 *)
Markable(new) ==
    CASE new = "INSTRUMENTS_RANKED" -> eligible # {}
      [] new = "POSITION_SIZED"     -> sizing.passed
      [] new = "READY_FOR_PROPOSAL" ->
             status \in {"POSITION_SIZED", "READY_FOR_PROPOSAL"}

Mark ==
    /\ pending[1] = "mark"
    /\ status' = IF Markable(pending[2]) THEN pending[2] ELSE status
    /\ pending' = NoPending
    /\ UNCHANGED <<eligible, sizing, world, chain, execution, crashes>>

(* save_execution_plan refuses a plan whose instrument left the cache; the *)
(* command then ends with the confirmation stored and the plan waiting.    *)
Settle ==
    /\ pending[1] = "settle"
    /\ LET p == Len(plans)
       IN  plans' = IF plans[p].instrument \in Cached
                    THEN [plans EXCEPT ![p].status = StatusFor[pending[2]]]
                    ELSE plans
    /\ pending' = NoPending
    /\ UNCHANGED <<opportunity, world, chain, confirmations, outcomes,
                   updatedLast, crashes>>

Finish == RefreshWaiting \/ Mark \/ Settle

Crash ==
    /\ pending # NoPending /\ crashes < MaxCrashes
    /\ crashes' = crashes + 1
    /\ pending' = NoPending
    /\ UNCHANGED <<opportunity, world, chain, execution>>

(* What the operator may call: commands that keep the desk's data,         *)
DeskCommand ==
    \/ NewSnapshot
    \/ \E i \in Instruments : \/ \E v \in Metadata, bulk \in BOOLEAN :
                                     SaveInstrument(i, v, bulk)
                              \/ DeleteInstrument(i)

(* commands that analyse the opportunity,                                  *)
AnalysisCommand ==
    \/ \E fit \in Fits : \/ AssessPortfolioFit(fit)
                         \/ \E selected \in SUBSET Instruments :
                                SelectInstruments(fit, selected)
    \/ \E i \in Instruments, passed \in BOOLEAN : SizePosition(i, passed)
    \/ Refresh \/ CreateProposal
    \/ \E finding \in Findings : CreateSimulation(finding)
    \/ CreateDecision

(* and commands that follow its manual execution.                          *)
ExecutionCommand ==
    \/ CreateExecutionPlan
    \/ \E r \in Reports : Confirm(r)
    \/ \E overtaken \in BOOLEAN : CreateOutcome(overtaken)
    \/ \E ahead \in ExitTimesAhead : CloseOutcome(ahead)

Command == DeskCommand \/ AnalysisCommand \/ ExecutionCommand

Next == (pending = NoPending /\ Command) \/ Finish \/ Crash

Spec == Init /\ [][Next]_vars
-----------------------------------------------------------------------------
(* Properties.                                                             *)

(* Every row and every variable has its type.                              *)
TypeOK ==
    /\ status \in Statuses /\ current \in 1 .. MaxSnapshots
    /\ metadata \in [Instruments -> Metadata \union {Absent}]
    /\ fits \subseteq Fits /\ eligible \subseteq Instruments
    /\ sizing \in Sizing
    /\ proposals \in Seq(Proposal) /\ simulations \in Seq(Simulation)
    /\ decisions \in Seq(Decision) /\ plans \in Seq(Plan)
    /\ confirmations \in Seq(Confirmation) /\ outcomes \in Seq(Outcome)
    /\ updatedLast \in 0 .. Len(outcomes)
    /\ pending \in Pending /\ crashes \in 0 .. MaxCrashes

(* "it could accidentally combine records from different analytical        *)
(* revisions": a plan, however long after its decision it was built and    *)
(* whatever was proposed, simulated or decided in between, joins one       *)
(* accepted decision, the simulation it judged and that passed, the        *)
(* proposal that was simulated and the instrument that was proposed.       *)
PlanFromOneRevision ==
    \A p \in DOMAIN plans :
        LET plan == plans[p]
        IN  /\ plan.decision \in DOMAIN decisions
            /\ plan.simulation \in DOMAIN simulations
            /\ plan.proposal \in DOMAIN proposals
            /\ decisions[plan.decision] =
                   [proposal |-> plan.proposal, simulation |-> plan.simulation,
                    decision |-> "ACCEPT"]
            /\ simulations[plan.simulation] =
                   [proposal |-> plan.proposal, finding |-> "COMPLETE"]
            /\ proposals[plan.proposal].instrument = plan.instrument

(* The operator reports once what became of a plan, also when the process  *)
(* died, or the instrument was gone, before the plan's status was written. *)
ReportedOnce ==
    \A c, d \in DOMAIN confirmations :
        confirmations[c].plan = confirmations[d].plan => c = d

(* A plan's status never claims more than the operator reported.            *)
StatusAsReported ==
    \A p \in DOMAIN plans :
        plans[p].status # Waiting =>
            \E c \in DOMAIN confirmations :
                /\ confirmations[c].plan = p
                /\ plans[p].status = StatusFor[confirmations[c].outcome]

(* One report per plan, and the plan's status is that report or none.      *)
ReportsAgree == ReportedOnce /\ StatusAsReported

(* An outcome exists only for a plan reported EXECUTED, one per plan, with *)
(* that plan's own confirmation.                                           *)
OutcomeOfExecution ==
    /\ \A o \in DOMAIN outcomes :
           /\ outcomes[o].confirmation \in DOMAIN confirmations
           /\ confirmations[outcomes[o].confirmation] =
                  [plan |-> outcomes[o].plan, outcome |-> "EXECUTED"]
    /\ \A o, q \in DOMAIN outcomes : outcomes[o].plan = outcomes[q].plan => o = q

(* A plan is materialised again only for a cause: of two consecutive plans *)
(* of a proposal the second has another decision or other metadata.        *)
RematerialisedForCause ==
    \A p, q \in DOMAIN plans :
        /\ p < q /\ plans[p].proposal = plans[q].proposal
        /\ \A r \in p + 1 .. q - 1 : plans[r].proposal # plans[q].proposal
        => \/ plans[p].decision # plans[q].decision
           \/ plans[p].metadata # plans[q].metadata

(* No stage of the lifecycle is skipped, whatever order the commands came  *)
(* in and wherever they were cut off: a ranked opportunity passed the gate,*)
(* a sized one has a sizing, one that is ready has a proposal.             *)
StatusBacked ==
    /\ status \in Advanced => "ADVANCE" \in fits
    /\ status \in {"POSITION_SIZED", "READY_FOR_PROPOSAL"} => sizing # NoSizing
    /\ status = "READY_FOR_PROPOSAL" => proposals # <<>>

(* "the previous plan remains an immutable historical record": rows are    *)
(* only appended; a plan changes only from waiting to its reported status, *)
(* an outcome only from OPEN to CLOSED, one row at a time.                 *)
Kept(old, new) == SubSeq(new, 1, Len(old)) = old
HistoryKept ==
    [][/\ Kept(proposals, proposals') /\ Kept(simulations, simulations')
       /\ Kept(decisions, decisions') /\ Kept(confirmations, confirmations')
       /\ \A p \in DOMAIN plans :
              \/ plans'[p] = plans[p]
              \/ /\ plans[p].status = Waiting /\ Reported(p)
                 /\ plans'[p] = [plans[p] EXCEPT !.status = plans'[p].status]
       /\ \A o \in DOMAIN outcomes :
              \/ outcomes'[o] = outcomes[o]
              \/ /\ outcomes[o].status = "OPEN"
                 /\ outcomes'[o] = [outcomes[o] EXCEPT
                                        !.status = "CLOSED",
                                        !.ahead = outcomes'[o].ahead]]_vars

(* What became of a plan according to its confirmation and its outcome.    *)
ReportedAs(p, outcome) ==
    \E c \in DOMAIN confirmations :
        confirmations[c] = [plan |-> p, outcome |-> outcome]
TradeOf(p) ==
    IF \E o \in DOMAIN outcomes : outcomes[o].plan = p /\ outcomes[o].status = "CLOSED"
    THEN "closed"
    ELSE IF \E o \in DOMAIN outcomes : outcomes[o].plan = p THEN "open"
    ELSE IF ReportedAs(p, "EXECUTED") THEN "executed"
    ELSE IF ReportedAs(p, "CANCELLED") THEN "cancelled"
    ELSE "planned"

(* The commands keep the promise made for the trades of an opportunity.    *)
Promise == INSTANCE ManualTradePromise WITH
    trades <- [p \in DOMAIN plans |-> TradeOf(p)]
ImplementsPromise == Promise!Spec
=============================================================================
