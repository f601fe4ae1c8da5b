---------------------- MODULE OpportunityLifecycleProofs ----------------------
(***************************************************************************)
(* What TLAPS proves of OpportunityLifecycle for all instruments, metadata *)
(* and bounds: the types, that every plan joins one analytical revision,   *)
(* that the status of a plan and its outcome are what the operator reported*)
(* once, that history is kept, that the commands keep the promise made for *)
(* the trades of an opportunity, that its status is backed by its rows,    *)
(* and that a plan is made again only for a cause.                         *)
(*                                                                         *)
(* And of SelectedDryRun, which advances the opportunity: that it keeps    *)
(* what the commands keep, that its stages have their effects in order and *)
(* again only after a process death, that it takes no earlier revision than*)
(* the one it has on record, and that a run that has ended stays as it is. *)
(***************************************************************************)
EXTENDS SelectedDryRun, SequenceTheorems, WellFoundedInduction, TLAPS

(* A row appended to a table, and a row of it rewritten.                   *)
LEMMA AppendedRow ==
  ASSUME NEW S, NEW seq \in Seq(S), NEW e \in S
  PROVE  /\ Append(seq, e) \in Seq(S)
         /\ Len(Append(seq, e)) = Len(seq) + 1
         /\ \A i \in 1 .. Len(seq) : Append(seq, e)[i] = seq[i]
         /\ Append(seq, e)[Len(seq) + 1] = e
         /\ DOMAIN Append(seq, e) = 1 .. Len(seq) + 1
  OBVIOUS

LEMMA GrownTable ==
  ASSUME NEW S, NEW seq \in Seq(S), NEW e
  PROVE  /\ DOMAIN Append(seq, e) = DOMAIN seq \union {Len(seq) + 1}
         /\ \A i \in DOMAIN seq : Append(seq, e)[i] = seq[i]
         /\ Append(seq, e)[Len(seq) + 1] = e
         /\ Len(seq) \in Nat /\ DOMAIN seq = 1 .. Len(seq)
         /\ Len(seq) + 1 \notin DOMAIN seq
<1>1. seq \in Seq(S \union {e})
  BY SeqMonotonic
<1>2. QED
  BY <1>1, AppendedRow

LEMMA AppendedLength ==
  ASSUME NEW S, NEW seq \in Seq(S), NEW e
  PROVE  /\ Len(Append(seq, e)) = Len(seq) + 1
         /\ \A i \in 1 .. Len(seq) : Append(seq, e)[i] = seq[i]
<1>1. seq \in Seq(S \union {e})
  BY SeqMonotonic
<1>2. QED
  BY <1>1, AppendedRow

LEMMA RewrittenRow ==
  ASSUME NEW S, NEW seq \in Seq(S), NEW i \in 1 .. Len(seq), NEW e \in S
  PROVE  /\ [seq EXCEPT ![i] = e] \in Seq(S)
         /\ Len([seq EXCEPT ![i] = e]) = Len(seq)
         /\ \A j \in 1 .. Len(seq) :
                [seq EXCEPT ![i] = e][j] = IF j = i THEN e ELSE seq[j]
  BY ExceptSeq

(* What the pieces of the commands return is typed.                        *)
LEMMA RefreshedStatusType ==
  ASSUME TypeOK PROVE RefreshedStatus \in Statuses
  BY DEF TypeOK, RefreshedStatus, Statuses, Advanced

(* What a command that has still to settle is: it knows the report.        *)
LEMMA SettlingReport ==
  ASSUME TypeOK, pending[1] = "settle"
  PROVE  \E r \in Reports : pending = <<"settle", r>>
<1>1. pending # NoPending /\ pending # <<"refresh">>
  BY DEF NoPending
<1>2. ASSUME NEW new \in Advanced PROVE pending # <<"mark", new>>
  OBVIOUS
<1>3. QED
  BY <1>1, <1>2 DEF TypeOK, Pending

(* Every step of a command, of its second save or of a crash is typed.     *)
LEMMA TypeInit == Init => TypeOK
  BY LifecycleAssumption
     DEF Init, TypeOK, Statuses, Own, Absent, Sizing, NoSizing, Pending, NoPending

LEMMA TypeStep == TypeOK /\ [Next]_vars => TypeOK'
<1> SUFFICES ASSUME TypeOK, [Next]_vars PROVE TypeOK'
  OBVIOUS
<1> USE DEF opportunity, world, chain, execution
<1>1. CASE UNCHANGED vars
  BY <1>1 DEF TypeOK, vars
<1>2. CASE NewSnapshot
  BY <1>2, LifecycleAssumption DEF TypeOK, NewSnapshot
<1>3. ASSUME NEW i \in Instruments, NEW v \in Metadata, NEW bulk \in BOOLEAN,
             SaveInstrument(i, v, bulk)
      PROVE  TypeOK'
  BY <1>3 DEF TypeOK, SaveInstrument, Pending, NoPending
<1>4. ASSUME NEW i \in Instruments, DeleteInstrument(i)
      PROVE  TypeOK'
  BY <1>4 DEF TypeOK, DeleteInstrument
<1>5. ASSUME NEW i \in Instruments, NEW passed \in BOOLEAN, SizePosition(i, passed)
      PROVE  TypeOK'
  BY <1>5
     DEF TypeOK, SizePosition, Sizable, AfterSizing, SizingOf, Sizing, Pending,
         NoPending, Advanced
<1>6. ASSUME NEW fit \in Fits, AssessPortfolioFit(fit)
      PROVE  TypeOK'
  BY <1>6 DEF TypeOK, AssessPortfolioFit
<1>7. ASSUME NEW fit \in Fits, NEW selected \in SUBSET Instruments,
             SelectInstruments(fit, selected)
      PROVE  TypeOK'
  BY <1>7, RefreshedStatusType
     DEF TypeOK, SelectInstruments, AfterSelection, Replaced, Pending,
         NoPending, Advanced
<1>8. CASE Refresh
  BY <1>8, RefreshedStatusType DEF TypeOK, Refresh
<1>9. CASE CreateProposal
  <2>1. [instrument |-> sizing.instrument] \in Proposal
    BY <1>9 DEF CreateProposal, Proposable, Cached, Proposal
  <2>2. QED
    BY <1>9, <2>1, AppendedRow DEF TypeOK, CreateProposal, Pending, Advanced
<1>10. ASSUME NEW finding \in Findings, CreateSimulation(finding)
       PROVE  TypeOK'
  <2>1. [proposal |-> Len(proposals), finding |-> finding] \in Simulation
    BY DEF TypeOK, Simulation
  <2>2. QED
    BY <1>10, <2>1, AppendedRow DEF TypeOK, CreateSimulation
<1>11. CASE CreateDecision
  <2>1. PICK s \in DOMAIN simulations :
          decisions' = Append(decisions,
              [proposal |-> Len(proposals), simulation |-> s,
               decision |-> Verdict[simulations[s].finding]])
    BY <1>11 DEF CreateDecision
  <2>2. simulations[s] \in Simulation /\ s \in Nat
    BY <2>1 DEF TypeOK
  <2>3. [proposal |-> Len(proposals), simulation |-> s,
         decision |-> Verdict[simulations[s].finding]] \in Decision
    BY <2>2 DEF TypeOK, Simulation, Findings, Verdict, Decision
  <2>4. QED
    BY <1>11, <2>1, <2>3, AppendedRow DEF TypeOK, CreateDecision
<1>12. CASE CreateExecutionPlan
  <2>1. CASE UNCHANGED plans
    BY <1>12, <2>1 DEF TypeOK, CreateExecutionPlan
  <2>2. CASE plans' = Append(plans, NewPlan)
    <3> DEFINE d == decisions[Len(decisions)]
               i == proposals[d.proposal].instrument
    <3>1. i \in Cached /\ decisions # <<>>
      BY <1>12 DEF CreateExecutionPlan
    <3>2. i \in Instruments /\ metadata[i] \in Metadata
      BY <3>1 DEF Cached, TypeOK
    <3>3. d \in Decision /\ Len(decisions) \in Nat
      BY <3>1 DEF TypeOK
    <3>4. NewPlan \in Plan
      BY <3>2, <3>3 DEF NewPlan, Plan, Decision
    <3>5. QED
      BY <1>12, <2>2, <3>4, AppendedRow DEF TypeOK, CreateExecutionPlan
  <2>3. QED
    BY <1>12, <2>1, <2>2 DEF CreateExecutionPlan
<1>13. ASSUME NEW r \in Reports, Confirm(r)
       PROVE  TypeOK'
  <2>1. [plan |-> Len(plans), outcome |-> r] \in Confirmation
    BY DEF TypeOK, Confirmation
  <2>2. QED
    BY <1>13, <2>1, AppendedRow DEF TypeOK, Confirm, Pending
<1>14. ASSUME NEW b \in BOOLEAN, CreateOutcome(b)
       PROVE  TypeOK'
  <2>1. PICK c \in DOMAIN confirmations :
          outcomes' = Append(outcomes,
              [plan |-> Len(plans), confirmation |-> c,
               status |-> "OPEN", ahead |-> FALSE])
    BY <1>14 DEF CreateOutcome, OpenOutcome
  <2>2. [plan |-> Len(plans), confirmation |-> c,
         status |-> "OPEN", ahead |-> FALSE] \in Outcome
    BY <2>1 DEF TypeOK, Outcome
  <2>3. outcomes' \in Seq(Outcome) /\ Len(outcomes') = Len(outcomes) + 1
    BY <2>1, <2>2, AppendedRow DEF TypeOK
  <2>4. updatedLast' \in 0 .. Len(outcomes')
    BY <1>14, <2>3 DEF CreateOutcome, TypeOK
  <2>5. QED
    BY <1>14, <2>3, <2>4 DEF TypeOK, CreateOutcome
<1>15. ASSUME NEW b \in BOOLEAN, CloseOutcome(b)
       PROVE  TypeOK'
  <2>1. updatedLast \in 1 .. Len(outcomes)
    BY <1>15 DEF CloseOutcome, Closable, ClosedOutcome, TypeOK
  <2>2. [outcomes[updatedLast] EXCEPT !.status = "CLOSED", !.ahead = b] \in Outcome
    <3>1. outcomes[updatedLast] \in Outcome
      BY <2>1, ElementOfSeq DEF TypeOK
    <3>2. QED
      BY <3>1 DEF Outcome
  <2>3. outcomes' \in Seq(Outcome) /\ Len(outcomes') = Len(outcomes)
    BY <1>15, <2>1, <2>2, RewrittenRow DEF TypeOK, CloseOutcome, ClosedOutcome
  <2>4. QED
    BY <1>15, <2>3 DEF TypeOK, CloseOutcome
<1>16. CASE RefreshWaiting
  BY <1>16, RefreshedStatusType DEF TypeOK, RefreshWaiting, Pending
<1>17. CASE Mark
  BY <1>17 DEF TypeOK, Mark, Pending, NoPending, Statuses
<1>18. CASE Settle
  <2>1. CASE plans' = plans
    BY <1>18, <2>1 DEF TypeOK, Settle, Pending
  <2>2. CASE plans = <<>>
    <3>1. plans' = plans
      BY <1>18, <2>2 DEF Settle
    <3>2. QED
      BY <2>1, <3>1
  <2>3. CASE plans # <<>> /\ plans' # plans
    <3>1. Len(plans) \in 1 .. Len(plans) /\ plans[Len(plans)] \in Plan
      BY <2>3, ElementOfSeq DEF TypeOK
    <3>2. PICK r \in Reports : pending = <<"settle", r>>
      BY <1>18, SettlingReport DEF Settle
    <3>3. [plans[Len(plans)] EXCEPT !.status = StatusFor[r]] \in Plan
      BY <3>1 DEF Plan, StatusFor, Reports
    <3>4. plans' = [plans EXCEPT ![Len(plans)] =
                       [plans[Len(plans)] EXCEPT !.status = StatusFor[r]]]
      BY <1>18, <2>3, <3>2 DEF Settle
    <3>5. plans' \in Seq(Plan)
      BY <3>1, <3>3, <3>4, RewrittenRow DEF TypeOK
    <3>6. QED
      BY <1>18, <3>5 DEF TypeOK, Settle, Pending
  <2>4. QED
    BY <2>1, <2>2, <2>3
<1>19. CASE Crash
  BY <1>19, LifecycleAssumption DEF TypeOK, Crash, Pending
<1>20. QED
  BY <1>1, <1>2, <1>3, <1>4, <1>5, <1>6, <1>7, <1>8, <1>9, <1>10, <1>11,
     <1>12, <1>13, <1>14, <1>15, <1>16, <1>17, <1>18, <1>19
     DEF Next, Command, DeskCommand, AnalysisCommand, ExecutionCommand,
         ExitTimesAhead, Finish

(***************************************************************************)
(* The types hold in every state.                                          *)
(***************************************************************************)

(* Every row and every variable has its type, for all instruments, metadata*)
(* versions and bounds.                                                    *)
THEOREM TypeCorrect == Spec => []TypeOK
<1>1. Init => TypeOK
  BY TypeInit
<1>2. TypeOK /\ [Next]_vars => TypeOK'
  BY TypeStep
<1>3. QED
  BY <1>1, <1>2, PTL DEF Spec

(***************************************************************************)
(* One analytical revision per plan.  A plan is built from the decision,   *)
(* so the invariant says of every decision what the plan needs of it.      *)
(***************************************************************************)

DecisionConsistent(d) ==
    /\ d.proposal \in DOMAIN proposals
    /\ d.simulation \in DOMAIN simulations
    /\ simulations[d.simulation].proposal = d.proposal
    /\ d.decision = Verdict[simulations[d.simulation].finding]

ChainConsistent ==
    /\ TypeOK
    /\ \A s \in DOMAIN simulations : simulations[s].proposal \in DOMAIN proposals
    /\ \A d \in DOMAIN decisions : DecisionConsistent(decisions[d])
    /\ PlanFromOneRevision

(* The chain tables only grow: a decision that was consistent stays so.    *)
LEMMA DecisionStaysConsistent ==
  ASSUME TypeOK, NEW d, DecisionConsistent(d),
         DOMAIN proposals \subseteq DOMAIN proposals',
         DOMAIN simulations \subseteq DOMAIN simulations',
         \A s \in DOMAIN simulations : simulations'[s] = simulations[s]
  PROVE  /\ d.proposal \in DOMAIN proposals'
         /\ d.simulation \in DOMAIN simulations'
         /\ simulations'[d.simulation].proposal = d.proposal
         /\ d.decision = Verdict[simulations'[d.simulation].finding]
  BY DEF DecisionConsistent

(* A new plan joins the revision of the latest decision.                   *)
LEMMA PlanCompleteInRevision ==
  ASSUME ChainConsistent, CreateExecutionPlan, plans' = Append(plans, NewPlan)
  PROVE  /\ NewPlan \in Plan
         /\ NewPlan.decision \in DOMAIN decisions
         /\ NewPlan.simulation \in DOMAIN simulations
         /\ NewPlan.proposal \in DOMAIN proposals
         /\ decisions[NewPlan.decision] =
                [proposal |-> NewPlan.proposal, simulation |-> NewPlan.simulation,
                 decision |-> "ACCEPT"]
         /\ simulations[NewPlan.simulation] =
                [proposal |-> NewPlan.proposal, finding |-> "COMPLETE"]
         /\ proposals[NewPlan.proposal].instrument = NewPlan.instrument
<1> DEFINE n == Len(decisions)
           d == decisions[n]
           i == proposals[d.proposal].instrument
<1>1. decisions # <<>> /\ d.decision = "ACCEPT" /\ i \in Cached
  BY DEF CreateExecutionPlan, Buildable
<1>2. n \in DOMAIN decisions /\ n \in Nat /\ d \in Decision
  BY <1>1, ElementOfSeq DEF ChainConsistent, TypeOK
<1>3. DecisionConsistent(d)
  BY <1>2 DEF ChainConsistent
<1>4. simulations[d.simulation] \in Simulation
  <2>1. simulations \in Seq(Simulation)
    BY DEF ChainConsistent, TypeOK
  <2>2. d.simulation \in 1 .. Len(simulations)
    BY <1>3, <2>1 DEF DecisionConsistent
  <2>3. QED
    BY <2>1, <2>2, ElementOfSeq
<1>5. simulations[d.simulation] = [proposal |-> d.proposal, finding |-> "COMPLETE"]
  BY <1>1, <1>3, <1>4 DEF DecisionConsistent, Simulation, Findings, Verdict
<1>6. d = [proposal |-> d.proposal, simulation |-> d.simulation,
           decision |-> "ACCEPT"]
  BY <1>1, <1>2 DEF Decision
<1>7. i \in Instruments /\ metadata[i] \in Metadata
  BY <1>1 DEF Cached, ChainConsistent, TypeOK
<1>8. NewPlan = [decision |-> n, proposal |-> d.proposal,
                 simulation |-> d.simulation, instrument |-> i,
                 metadata |-> metadata[i], status |-> Waiting]
  BY DEF NewPlan
<1>9. NewPlan \in Plan
  BY <1>2, <1>7, <1>8 DEF Plan, Decision
<1>10. /\ NewPlan.decision = n /\ NewPlan.proposal = d.proposal
       /\ NewPlan.simulation = d.simulation /\ NewPlan.instrument = i
  BY <1>8
<1>11. d.proposal \in DOMAIN proposals /\ d.simulation \in DOMAIN simulations
  BY <1>3 DEF DecisionConsistent
<1>12. decisions[NewPlan.decision] =
           [proposal |-> NewPlan.proposal, simulation |-> NewPlan.simulation,
            decision |-> "ACCEPT"]
  BY <1>6, <1>10
<1>13. QED
  BY <1>2, <1>5, <1>9, <1>10, <1>11, <1>12

(* A step that only extends the chain tables and keeps every plan, up to   *)
(* its status, keeps the plans consistent.                                 *)
LEMMA PlansStayInRevision ==
  ASSUME TypeOK, PlanFromOneRevision,
         DOMAIN proposals \subseteq DOMAIN proposals',
         \A i \in DOMAIN proposals : proposals'[i] = proposals[i],
         DOMAIN simulations \subseteq DOMAIN simulations',
         \A i \in DOMAIN simulations : simulations'[i] = simulations[i],
         DOMAIN decisions \subseteq DOMAIN decisions',
         \A i \in DOMAIN decisions : decisions'[i] = decisions[i],
         NEW p \in DOMAIN plans, NEW plan,
         plan.decision = plans[p].decision, plan.proposal = plans[p].proposal,
         plan.simulation = plans[p].simulation,
         plan.instrument = plans[p].instrument
  PROVE  /\ plan.decision \in DOMAIN decisions'
         /\ plan.simulation \in DOMAIN simulations'
         /\ plan.proposal \in DOMAIN proposals'
         /\ decisions'[plan.decision] =
                [proposal |-> plan.proposal, simulation |-> plan.simulation,
                 decision |-> "ACCEPT"]
         /\ simulations'[plan.simulation] =
                [proposal |-> plan.proposal, finding |-> "COMPLETE"]
         /\ proposals'[plan.proposal].instrument = plan.instrument
  BY DEF PlanFromOneRevision

(* The steps that touch a chain table or the plans.                        *)
LEMMA ChainSteps ==
  ASSUME [Next]_vars
  PROVE  \/ UNCHANGED <<proposals, simulations, decisions, plans>>
         \/ CreateProposal
         \/ \E finding \in Findings : CreateSimulation(finding)
         \/ CreateDecision \/ CreateExecutionPlan \/ Settle
<1>1. CASE UNCHANGED vars
  BY <1>1 DEF vars, chain, execution
<1>2. CASE Next
  BY <1>2
     DEF Next, Command, DeskCommand, AnalysisCommand, ExecutionCommand, Finish,
         NewSnapshot, SaveInstrument, DeleteInstrument, SizePosition,
         AssessPortfolioFit, SelectInstruments, Refresh, Confirm, CreateOutcome,
         CloseOutcome, RefreshWaiting, Mark, Crash, chain, execution
<1>3. QED
  BY <1>1, <1>2

LEMMA ChainInit == Init => ChainConsistent
  BY TypeInit DEF Init, ChainConsistent, PlanFromOneRevision

LEMMA ChainStep == ChainConsistent /\ [Next]_vars => ChainConsistent'
<1> SUFFICES ASSUME ChainConsistent, [Next]_vars PROVE ChainConsistent'
  OBVIOUS
<1>1. TypeOK /\ TypeOK'
  BY TypeStep DEF ChainConsistent
<1>2. CASE UNCHANGED <<proposals, simulations, decisions, plans>>
  BY <1>1, <1>2 DEF ChainConsistent, DecisionConsistent, PlanFromOneRevision
<1>3. CASE CreateProposal
  <2>1. /\ proposals' = Append(proposals, [instrument |-> sizing.instrument])
        /\ UNCHANGED <<simulations, decisions, plans>>
    BY <1>3 DEF CreateProposal, execution
  <2>2. /\ DOMAIN proposals \subseteq DOMAIN proposals'
        /\ \A i \in DOMAIN proposals : proposals'[i] = proposals[i]
    <3>1. proposals \in Seq(Proposal)
      BY <1>1 DEF TypeOK
    <3>2. QED
      BY <2>1, <3>1, GrownTable
  <2>3. PlanFromOneRevision'
    BY <1>1, <2>1, <2>2, PlansStayInRevision
       DEF ChainConsistent, PlanFromOneRevision
  <2>4. QED
    BY <1>1, <2>1, <2>2, <2>3 DEF ChainConsistent, DecisionConsistent
<1>4. ASSUME NEW finding \in Findings, CreateSimulation(finding)
      PROVE  ChainConsistent'
  <2> DEFINE row == [proposal |-> Len(proposals), finding |-> finding]
  <2>1. /\ simulations' = Append(simulations, row)
        /\ UNCHANGED <<proposals, decisions, plans>> /\ proposals # <<>>
    BY <1>4 DEF CreateSimulation, Simulatable, execution
  <2>2. /\ DOMAIN simulations' = DOMAIN simulations \union {Len(simulations) + 1}
        /\ \A i \in DOMAIN simulations : simulations'[i] = simulations[i]
        /\ simulations'[Len(simulations) + 1] = row
    <3>1. simulations \in Seq(Simulation) /\ simulations' = Append(simulations, row)
      BY <1>1, <2>1 DEF TypeOK
    <3>2. QED
      BY <3>1, GrownTable
  <2>3. row.proposal \in DOMAIN proposals
    <3>1. proposals \in Seq(Proposal)
      BY <1>1 DEF TypeOK
    <3>2. Len(proposals) \in DOMAIN proposals
      BY <2>1, <3>1
    <3>3. QED
      BY <3>2
  <2>4. \A s \in DOMAIN simulations' : simulations'[s].proposal \in DOMAIN proposals'
    BY <2>1, <2>2, <2>3 DEF ChainConsistent
  <2>5. PlanFromOneRevision'
    BY <1>1, <2>1, <2>2, PlansStayInRevision
       DEF ChainConsistent, PlanFromOneRevision
  <2>6. QED
    BY <1>1, <2>1, <2>2, <2>4, <2>5 DEF ChainConsistent, DecisionConsistent
<1>5. CASE CreateDecision
  <2>1. PICK s \in DOMAIN simulations :
          /\ simulations[s].proposal = Len(proposals)
          /\ decisions' = Append(decisions,
                 [proposal |-> Len(proposals), simulation |-> s,
                  decision |-> Verdict[simulations[s].finding]])
    BY <1>5 DEF CreateDecision, IsLatestSimulation
  <2> DEFINE row == [proposal |-> Len(proposals), simulation |-> s,
                     decision |-> Verdict[simulations[s].finding]]
  <2>2. UNCHANGED <<proposals, simulations, plans>> /\ proposals # <<>>
    BY <1>5 DEF CreateDecision, execution
  <2>3. /\ DOMAIN decisions' = DOMAIN decisions \union {Len(decisions) + 1}
        /\ \A i \in DOMAIN decisions : decisions'[i] = decisions[i]
        /\ decisions'[Len(decisions) + 1] = row
    <3>1. decisions \in Seq(Decision) /\ decisions' = Append(decisions, row)
      BY <1>1, <2>1 DEF TypeOK
    <3>2. QED
      BY <3>1, GrownTable
  <2>4. DecisionConsistent(row)
    <3>1. proposals \in Seq(Proposal)
      BY <1>1 DEF TypeOK
    <3>2. Len(proposals) \in DOMAIN proposals
      BY <2>2, <3>1
    <3>3. /\ row.proposal = Len(proposals) /\ row.simulation = s
          /\ row.decision = Verdict[simulations[s].finding]
      OBVIOUS
    <3> HIDE DEF row
    <3>4. QED
      BY <2>1, <3>2, <3>3 DEF DecisionConsistent
  <2>5. \A d \in DOMAIN decisions' : DecisionConsistent(decisions'[d])
    BY <2>3, <2>4 DEF ChainConsistent
  <2>6. PlanFromOneRevision'
    BY <1>1, <2>2, <2>3, PlansStayInRevision
       DEF ChainConsistent, PlanFromOneRevision
  <2>7. QED
    BY <1>1, <2>2, <2>5, <2>6 DEF ChainConsistent, DecisionConsistent
<1>6. CASE CreateExecutionPlan
  <2>1. UNCHANGED <<proposals, simulations, decisions>>
    BY <1>6 DEF CreateExecutionPlan, chain
  <2>2. CASE UNCHANGED plans
    BY <1>2, <2>1, <2>2
  <2>3. CASE plans' = Append(plans, NewPlan)
    <3>1. /\ DOMAIN plans' = DOMAIN plans \union {Len(plans) + 1}
          /\ \A p \in DOMAIN plans : plans'[p] = plans[p]
          /\ plans'[Len(plans) + 1] = NewPlan
      <4>1. plans \in Seq(Plan)
        BY <1>1 DEF TypeOK
      <4>2. QED
        BY <2>3, <4>1, GrownTable
    <3>2. PlanFromOneRevision'
      BY <1>6, <2>1, <2>3, <3>1, PlanCompleteInRevision
         DEF ChainConsistent, PlanFromOneRevision
    <3>3. QED
      BY <1>1, <2>1, <3>2 DEF ChainConsistent, DecisionConsistent
  <2>4. QED
    BY <1>6, <2>2, <2>3 DEF CreateExecutionPlan
<1>7. CASE Settle
  <2>1. UNCHANGED <<proposals, simulations, decisions>>
    BY <1>7 DEF Settle, chain
  <2>2. CASE UNCHANGED plans
    BY <1>2, <2>1, <2>2
  <2>3. CASE plans' = [plans EXCEPT ![Len(plans)].status = StatusFor[pending[2]]]
    <3>1. DOMAIN plans' = DOMAIN plans
      BY <2>3
    <3>2. \A p \in DOMAIN plans :
              /\ plans'[p].decision = plans[p].decision
              /\ plans'[p].proposal = plans[p].proposal
              /\ plans'[p].simulation = plans[p].simulation
              /\ plans'[p].instrument = plans[p].instrument
      <4>1. SUFFICES ASSUME NEW p \in DOMAIN plans
                     PROVE  /\ plans'[p].decision = plans[p].decision
                            /\ plans'[p].proposal = plans[p].proposal
                            /\ plans'[p].simulation = plans[p].simulation
                            /\ plans'[p].instrument = plans[p].instrument
        OBVIOUS
      <4>2. plans[p] \in Plan
        <5>1. plans \in Seq(Plan)
          BY <1>1 DEF TypeOK
        <5>2. QED
          BY <5>1, ElementOfSeq
      <4>3. CASE p # Len(plans)
        BY <2>3, <4>3
      <4>4. CASE p = Len(plans)
        <5>1. plans'[p] = [plans[p] EXCEPT !.status = StatusFor[pending[2]]]
          BY <2>3, <4>4
        <5>2. QED
          BY <4>2, <5>1 DEF Plan
      <4>5. QED
        BY <4>3, <4>4
    <3>3. PlanFromOneRevision'
      BY <2>1, <3>1, <3>2 DEF ChainConsistent, PlanFromOneRevision
    <3>4. QED
      BY <1>1, <2>1, <3>3 DEF ChainConsistent, DecisionConsistent
  <2>4. QED
    BY <1>7, <2>2, <2>3 DEF Settle
<1>8. QED
  BY <1>2, <1>3, <1>4, <1>5, <1>6, <1>7, ChainSteps

(* A plan joins one accepted decision, the simulation it judged, the       *)
(* proposal that was simulated and the instrument that was proposed, for   *)
(* every order of commands, however many revisions there are.              *)
THEOREM OneRevisionPerPlan == Spec => []PlanFromOneRevision
<1>1. Init => ChainConsistent
  BY ChainInit
<1>2. ChainConsistent /\ [Next]_vars => ChainConsistent'
  BY ChainStep
<1>3. ChainConsistent => PlanFromOneRevision
  BY DEF ChainConsistent
<1>4. QED
  BY <1>1, <1>2, <1>3, PTL DEF Spec

(***************************************************************************)
(* Reports, statuses and outcomes.  The status of a plan is written one    *)
(* transaction after its report, so the invariant also says what a command *)
(* in between those two has already stored.                                *)
(***************************************************************************)

SettleReported ==
    \A r \in Reports :
        pending = <<"settle", r>> =>
            /\ plans # <<>> /\ plans[Len(plans)].status = Waiting
            /\ \E c \in DOMAIN confirmations :
                   /\ confirmations[c].plan = Len(plans)
                   /\ confirmations[c].outcome = r

ReportsConsistent ==
    /\ TypeOK
    /\ \A c \in DOMAIN confirmations : confirmations[c].plan \in DOMAIN plans
    /\ ReportedOnce /\ StatusAsReported /\ OutcomeOfExecution
    /\ SettleReported

LEMMA ReportsInit == Init => ReportsConsistent
  BY TypeInit
     DEF Init, ReportsConsistent, ReportedOnce, StatusAsReported,
         OutcomeOfExecution, SettleReported, NoPending, Reports

(* The steps that leave the three execution tables alone.                  *)
QuietStep ==
    /\ UNCHANGED <<plans, confirmations, outcomes>>
    /\ pending' = pending \/ \A r \in Reports : pending' # <<"settle", r>>

LEMMA QuietSteps ==
  ASSUME TypeOK, [Next]_vars
  PROVE  \/ QuietStep
         \/ pending = NoPending /\ CreateExecutionPlan
         \/ \E r \in Reports : Confirm(r)
         \/ \E b \in BOOLEAN : CreateOutcome(b)
         \/ \E b \in BOOLEAN : CloseOutcome(b)
         \/ Settle
<1> USE DEF execution, QuietStep
<1>1. CASE UNCHANGED vars
  BY <1>1 DEF vars
<1>2. CASE NewSnapshot
  BY <1>2 DEF NewSnapshot
<1>3. ASSUME NEW i \in Instruments, NEW v \in Metadata, NEW bulk \in BOOLEAN,
             SaveInstrument(i, v, bulk)
      PROVE  QuietStep
  BY <1>3 DEF SaveInstrument, NoPending
<1>4. ASSUME NEW i \in Instruments, DeleteInstrument(i) PROVE QuietStep
  BY <1>4 DEF DeleteInstrument
<1>5. ASSUME NEW i \in Instruments, NEW passed \in BOOLEAN, SizePosition(i, passed)
      PROVE  QuietStep
  BY <1>5 DEF SizePosition, AfterSizing, NoPending
<1>6. ASSUME NEW fit \in Fits, AssessPortfolioFit(fit) PROVE QuietStep
  BY <1>6 DEF AssessPortfolioFit
<1>7. ASSUME NEW fit \in Fits, NEW selected \in SUBSET Instruments,
             SelectInstruments(fit, selected)
      PROVE  QuietStep
  BY <1>7 DEF SelectInstruments, AfterSelection, NoPending
<1>8. CASE Refresh
  BY <1>8 DEF Refresh
<1>9. CASE CreateProposal
  BY <1>9 DEF CreateProposal
<1>10. ASSUME NEW finding \in Findings, CreateSimulation(finding) PROVE QuietStep
  BY <1>10 DEF CreateSimulation
<1>11. CASE CreateDecision
  BY <1>11 DEF CreateDecision
<1>12. CASE RefreshWaiting
  BY <1>12 DEF RefreshWaiting, NoPending
<1>13. CASE Mark
  BY <1>13 DEF Mark, NoPending
<1>14. CASE Crash
  BY <1>14 DEF Crash, NoPending
<1>15. QED
  BY <1>1, <1>2, <1>3, <1>4, <1>5, <1>6, <1>7, <1>8, <1>9, <1>10, <1>11,
     <1>12, <1>13, <1>14
     DEF Next, Command, DeskCommand, AnalysisCommand, ExecutionCommand,
         ExitTimesAhead, Finish

LEMMA ReportsStep == ReportsConsistent /\ [Next]_vars => ReportsConsistent'
<1> SUFFICES ASSUME ReportsConsistent, [Next]_vars PROVE ReportsConsistent'
  OBVIOUS
<1>1. TypeOK /\ TypeOK'
  BY TypeStep DEF ReportsConsistent
<1>2. /\ plans \in Seq(Plan) /\ DOMAIN plans = 1 .. Len(plans) /\ Len(plans) \in Nat
      /\ confirmations \in Seq(Confirmation) /\ outcomes \in Seq(Outcome)
  BY <1>1 DEF TypeOK
<1>3. CASE QuietStep
  BY <1>1, <1>3
     DEF QuietStep, ReportsConsistent, ReportedOnce, StatusAsReported,
         OutcomeOfExecution, SettleReported
<1>4. CASE pending = NoPending /\ CreateExecutionPlan
  <2>1. /\ UNCHANGED <<confirmations, outcomes, pending>>
        /\ plans' = plans \/ plans' = Append(plans, NewPlan)
    BY <1>4 DEF CreateExecutionPlan
  <2>2. \A r \in Reports : pending' # <<"settle", r>>
    BY <1>4, <2>1 DEF NoPending
  <2>3. CASE plans' = plans
    BY <1>3, <2>1, <2>3 DEF QuietStep
  <2>4. CASE plans' = Append(plans, NewPlan)
    <3>1. /\ DOMAIN plans' = DOMAIN plans \union {Len(plans) + 1}
          /\ \A p \in DOMAIN plans : plans'[p] = plans[p]
          /\ plans'[Len(plans) + 1] = NewPlan
      BY <1>2, <2>4, GrownTable
    <3>2. NewPlan.status = Waiting
      BY DEF NewPlan
    <3>3. StatusAsReported'
      BY <2>1, <3>1, <3>2 DEF ReportsConsistent, StatusAsReported
    <3>4. SettleReported'
      BY <2>2 DEF SettleReported
    <3>5. QED
      BY <1>1, <2>1, <3>1, <3>3, <3>4
         DEF ReportsConsistent, ReportedOnce, OutcomeOfExecution
  <2>5. QED
    BY <2>1, <2>3, <2>4
<1>5. ASSUME NEW r \in Reports, Confirm(r)
      PROVE  ReportsConsistent'
  <2> DEFINE n == Len(plans)
             row == [plan |-> n, outcome |-> r]
             last == Len(confirmations) + 1
  <2>1. /\ confirmations' = Append(confirmations, row)
        /\ UNCHANGED <<plans, outcomes>> /\ pending' = <<"settle", r>>
        /\ plans # <<>> /\ plans[n].status = Waiting /\ ~ Reported(n)
    BY <1>5 DEF Confirm, Confirmable
  <2>2. /\ DOMAIN confirmations' = DOMAIN confirmations \union {last}
        /\ \A c \in DOMAIN confirmations : confirmations'[c] = confirmations[c]
        /\ confirmations'[last] = row
    BY <1>2, <2>1, GrownTable
  <2>3. row.plan = n /\ row.outcome = r /\ n \in DOMAIN plans
    BY <1>2, <2>1
  <2> HIDE DEF n, row, last
  <2>4. \A c \in DOMAIN confirmations : confirmations[c].plan # n
    BY <2>1 DEF Reported
  <2>5. \A c \in DOMAIN confirmations' : confirmations'[c].plan \in DOMAIN plans'
    BY <2>1, <2>2, <2>3 DEF ReportsConsistent
  <2>6. ReportedOnce'
    BY <2>2, <2>3, <2>4 DEF ReportsConsistent, ReportedOnce
  <2>7. StatusAsReported'
    BY <2>1, <2>2 DEF ReportsConsistent, StatusAsReported
  <2>8. OutcomeOfExecution'
    BY <2>1, <2>2 DEF ReportsConsistent, OutcomeOfExecution
  <2>9. SettleReported'
    <3>1. /\ last \in DOMAIN confirmations'
          /\ confirmations'[last].plan = Len(plans')
          /\ confirmations'[last].outcome = r
      BY <2>1, <2>2, <2>3 DEF n
    <3>2. plans' # <<>> /\ plans'[Len(plans')].status = Waiting
      BY <2>1 DEF n
    <3>3. \A q \in Reports : pending' = <<"settle", q>> => q = r
      BY <2>1
    <3>4. QED
      BY <3>1, <3>2, <3>3 DEF SettleReported
  <2>10. QED
    BY <1>1, <2>5, <2>6, <2>7, <2>8, <2>9 DEF ReportsConsistent
<1>6. ASSUME NEW b \in BOOLEAN, CreateOutcome(b)
      PROVE  ReportsConsistent'
  <2> DEFINE last == Len(outcomes) + 1
  <2>1. PICK c \in DOMAIN confirmations :
          /\ confirmations[c].plan = Len(plans)
          /\ confirmations[c].outcome = "EXECUTED"
          /\ outcomes' = Append(outcomes, [plan |-> Len(plans), confirmation |-> c,
                                           status |-> "OPEN", ahead |-> FALSE])
    BY <1>6 DEF CreateOutcome, Tradable, OpenOutcome, IsLatestReport
  <2> DEFINE row == [plan |-> Len(plans), confirmation |-> c,
                     status |-> "OPEN", ahead |-> FALSE]
  <2>2. /\ UNCHANGED <<plans, confirmations, pending>>
        /\ \A o \in DOMAIN outcomes : outcomes[o].plan # Len(plans)
    BY <1>6 DEF CreateOutcome, Tradable
  <2>3. /\ DOMAIN outcomes' = DOMAIN outcomes \union {last}
        /\ \A o \in DOMAIN outcomes : outcomes'[o] = outcomes[o]
        /\ outcomes'[last] = row
    BY <1>2, <2>1, GrownTable
  <2>4. confirmations[c] = [plan |-> Len(plans), outcome |-> "EXECUTED"]
    <3>1. confirmations[c] \in Confirmation
      BY <1>2, <2>1, ElementOfSeq
    <3>2. QED
      BY <2>1, <3>1 DEF Confirmation
  <2>5. row.plan = Len(plans) /\ row.confirmation = c
    OBVIOUS
  <2> HIDE DEF row, last
  <2>6. OutcomeOfExecution'
    <3>1. ASSUME NEW o \in DOMAIN outcomes'
          PROVE  /\ outcomes'[o].confirmation \in DOMAIN confirmations'
                 /\ confirmations'[outcomes'[o].confirmation] =
                        [plan |-> outcomes'[o].plan, outcome |-> "EXECUTED"]
      <4>1. CASE o \in DOMAIN outcomes
        BY <2>2, <2>3, <4>1 DEF ReportsConsistent, OutcomeOfExecution
      <4>2. CASE o = last
        BY <2>2, <2>3, <2>4, <2>5, <4>2
      <4>3. QED
        BY <2>3, <4>1, <4>2
    <3>2. \A o, q \in DOMAIN outcomes' : outcomes'[o].plan = outcomes'[q].plan => o = q
      BY <2>2, <2>3, <2>5 DEF ReportsConsistent, OutcomeOfExecution
    <3>3. QED
      BY <3>1, <3>2 DEF OutcomeOfExecution
  <2>7. QED
    BY <1>1, <2>2, <2>6
       DEF ReportsConsistent, ReportedOnce, StatusAsReported, SettleReported
<1>7. ASSUME NEW b \in BOOLEAN, CloseOutcome(b)
      PROVE  ReportsConsistent'
  <2>1. /\ UNCHANGED <<plans, confirmations, pending>>
        /\ outcomes' = [outcomes EXCEPT ![updatedLast] =
               [outcomes[updatedLast] EXCEPT !.status = "CLOSED", !.ahead = b]]
    BY <1>7 DEF CloseOutcome, Closable, ClosedOutcome
  <2>2. /\ DOMAIN outcomes' = DOMAIN outcomes
        /\ \A o \in DOMAIN outcomes :
               /\ outcomes'[o].plan = outcomes[o].plan
               /\ outcomes'[o].confirmation = outcomes[o].confirmation
    <3>1. SUFFICES ASSUME NEW o \in DOMAIN outcomes
                   PROVE  /\ outcomes'[o].plan = outcomes[o].plan
                          /\ outcomes'[o].confirmation = outcomes[o].confirmation
      BY <2>1
    <3>2. outcomes[o] \in Outcome
      BY <1>2, ElementOfSeq
    <3>3. CASE o # updatedLast
      BY <2>1, <3>3
    <3>4. CASE o = updatedLast
      <4>1. outcomes'[o] = [outcomes[o] EXCEPT !.status = "CLOSED", !.ahead = b]
        BY <2>1, <3>4
      <4>2. QED
        BY <3>2, <4>1 DEF Outcome
    <3>5. QED
      BY <3>3, <3>4
  <2>3. OutcomeOfExecution'
    <3>1. UNCHANGED confirmations
      BY <2>1
    <3>2. QED
      BY <2>2, <3>1 DEF ReportsConsistent, OutcomeOfExecution
  <2>4. QED
    BY <1>1, <2>1, <2>3
       DEF ReportsConsistent, ReportedOnce, StatusAsReported, SettleReported
<1>8. CASE Settle
  <2>1. PICK r \in Reports : pending = <<"settle", r>>
    BY <1>1, <1>8, SettlingReport DEF Settle
  <2>2. /\ UNCHANGED <<confirmations, outcomes>> /\ pending' = NoPending
        /\ \/ plans' = plans
           \/ plans' = [plans EXCEPT ![Len(plans)].status = StatusFor[r]]
    BY <1>8, <2>1 DEF Settle
  <2>3. CASE plans' = plans
    BY <1>3, <2>2, <2>3 DEF QuietStep, NoPending
  <2>4. CASE plans' = [plans EXCEPT ![Len(plans)].status = StatusFor[r]]
    <3>1. PICK c \in DOMAIN confirmations : /\ confirmations[c].plan = Len(plans)
                                            /\ confirmations[c].outcome = r
      BY <2>1 DEF ReportsConsistent, SettleReported
    <3>2. plans # <<>> /\ Len(plans) \in DOMAIN plans
      BY <1>2, <2>1 DEF ReportsConsistent, SettleReported
    <3>3. plans[Len(plans)] \in Plan
      BY <1>2, <3>2, ElementOfSeq
    <3>4. /\ DOMAIN plans' = DOMAIN plans
          /\ plans'[Len(plans)].status = StatusFor[r]
          /\ \A p \in DOMAIN plans : p # Len(plans) => plans'[p] = plans[p]
      BY <2>4, <3>2, <3>3 DEF Plan
    <3>5. StatusAsReported'
      BY <2>2, <3>1, <3>4 DEF ReportsConsistent, StatusAsReported
    <3>6. SettleReported'
      BY <2>2 DEF SettleReported, NoPending
    <3>7. QED
      BY <1>1, <2>2, <3>4, <3>5, <3>6
         DEF ReportsConsistent, ReportedOnce, OutcomeOfExecution
  <2>5. QED
    BY <2>2, <2>3, <2>4
<1>9. QED
  BY <1>1, <1>3, <1>4, <1>5, <1>6, <1>7, <1>8, QuietSteps

(* The operator reports on a plan once, and the status of a plan never     *)
(* claims anything else than that report, wherever crashes and removed     *)
(* instruments cut a command off.                                          *)
THEOREM ReportsHold == Spec => []ReportsAgree
<1>1. ReportsConsistent => ReportsAgree
  BY DEF ReportsConsistent, ReportsAgree
<1>2. QED
  BY <1>1, ReportsInit, ReportsStep, PTL DEF Spec

(* An outcome exists only for a plan reported EXECUTED, and one per plan.  *)
THEOREM OutcomesHold == Spec => []OutcomeOfExecution
<1>1. ReportsConsistent => OutcomeOfExecution
  BY DEF ReportsConsistent
<1>2. QED
  BY <1>1, ReportsInit, ReportsStep, PTL DEF Spec

(***************************************************************************)
(* History.                                                                *)
(***************************************************************************)

LEMMA AppendKeeps ==
  ASSUME NEW S, NEW seq \in Seq(S), NEW e
  PROVE  Kept(seq, Append(seq, e))
<1>1. seq \in Seq(S \union {e})
  BY SeqMonotonic
<1>2. \A i \in 1 .. Len(seq) : Append(seq, e)[i] \in S \union {e}
  BY <1>1, ElementOfSeq
<1>3. /\ SubSeq(Append(seq, e), 1, Len(seq)) \in Seq(S \union {e})
      /\ Len(SubSeq(Append(seq, e), 1, Len(seq))) = Len(seq)
      /\ \A i \in 1 .. Len(seq) : SubSeq(Append(seq, e), 1, Len(seq))[i] = seq[i]
  BY <1>1, <1>2
<1>4. QED
  BY <1>1, <1>3, SeqEqual DEF Kept

LEMMA SameKeeps == ASSUME NEW S, NEW seq \in Seq(S) PROVE Kept(seq, seq)
  BY SubSeqFull DEF Kept

(* The chain tables and the confirmations only grow.                       *)
TablesKept ==
    /\ Kept(proposals, proposals') /\ Kept(simulations, simulations')
    /\ Kept(decisions, decisions') /\ Kept(confirmations, confirmations')

LEMMA TablesOnlyGrow == TypeOK /\ [Next]_vars => TablesKept
<1> SUFFICES ASSUME TypeOK, [Next]_vars PROVE TablesKept
  OBVIOUS
<1>1. /\ proposals \in Seq(Proposal) /\ simulations \in Seq(Simulation)
      /\ decisions \in Seq(Decision) /\ confirmations \in Seq(Confirmation)
  BY DEF TypeOK
<1>2. /\ Kept(proposals, proposals) /\ Kept(simulations, simulations)
      /\ Kept(decisions, decisions) /\ Kept(confirmations, confirmations)
  BY <1>1, SameKeeps
<1>3. CASE UNCHANGED <<proposals, simulations, decisions, confirmations>>
  BY <1>2, <1>3 DEF TablesKept
<1>4. CASE CreateProposal
  <2>1. /\ UNCHANGED <<simulations, decisions, confirmations>>
        /\ \E row : proposals' = Append(proposals, row)
    BY <1>4 DEF CreateProposal, execution
  <2>2. QED
    BY <1>1, <1>2, <2>1, AppendKeeps DEF TablesKept
<1>5. ASSUME NEW finding \in Findings, CreateSimulation(finding) PROVE TablesKept
  <2>1. /\ UNCHANGED <<proposals, decisions, confirmations>>
        /\ \E row : simulations' = Append(simulations, row)
    BY <1>5 DEF CreateSimulation, execution
  <2>2. QED
    BY <1>1, <1>2, <2>1, AppendKeeps DEF TablesKept
<1>6. CASE CreateDecision
  <2>1. /\ UNCHANGED <<proposals, simulations, confirmations>>
        /\ \E row : decisions' = Append(decisions, row)
    BY <1>6 DEF CreateDecision, execution
  <2>2. QED
    BY <1>1, <1>2, <2>1, AppendKeeps DEF TablesKept
<1>7. ASSUME NEW r \in Reports, Confirm(r) PROVE TablesKept
  <2>1. /\ UNCHANGED <<proposals, simulations, decisions>>
        /\ \E row : confirmations' = Append(confirmations, row)
    BY <1>7 DEF Confirm, chain
  <2>2. QED
    BY <1>1, <1>2, <2>1, AppendKeeps DEF TablesKept
<1>8. QED
  <2>1. ASSUME Next
        PROVE  \/ UNCHANGED <<proposals, simulations, decisions, confirmations>>
               \/ CreateProposal
               \/ \E finding \in Findings : CreateSimulation(finding)
               \/ CreateDecision
               \/ \E r \in Reports : Confirm(r)
    BY <2>1 DEF Next, Command, DeskCommand, AnalysisCommand, ExecutionCommand,
           Finish, NewSnapshot, SaveInstrument,
         DeleteInstrument, SizePosition, AssessPortfolioFit, SelectInstruments,
         Refresh, CreateExecutionPlan, CreateOutcome, CloseOutcome,
         RefreshWaiting, Mark, Settle, Crash, chain, execution
  <2>2. CASE UNCHANGED vars
    BY <1>3, <2>2 DEF vars, chain, execution
  <2>3. QED
    BY <1>3, <1>4, <1>5, <1>6, <1>7, <2>1, <2>2

(* Of a plan only the status changes, once and after the report; of an     *)
(* outcome only the closing, once.                                         *)
PlansKept ==
    \A p \in DOMAIN plans :
        \/ plans'[p] = plans[p]
        \/ /\ plans[p].status = Waiting /\ Reported(p)
           /\ plans'[p] = [plans[p] EXCEPT !.status = plans'[p].status]

OutcomesKept ==
    \A o \in DOMAIN outcomes :
        \/ outcomes'[o] = outcomes[o]
        \/ /\ outcomes[o].status = "OPEN"
           /\ outcomes'[o] = [outcomes[o] EXCEPT
                                  !.status = "CLOSED",
                                  !.ahead = outcomes'[o].ahead]

LEMMA RowsKept == ReportsConsistent /\ [Next]_vars => PlansKept /\ OutcomesKept
<1> SUFFICES ASSUME ReportsConsistent, [Next]_vars PROVE PlansKept /\ OutcomesKept
  OBVIOUS
<1>1. TypeOK /\ plans \in Seq(Plan) /\ outcomes \in Seq(Outcome)
  BY DEF ReportsConsistent, TypeOK
<1>2. CASE UNCHANGED <<plans, outcomes>>
  BY <1>2 DEF PlansKept, OutcomesKept
<1>3. CASE CreateExecutionPlan
  <2>1. /\ UNCHANGED outcomes
        /\ plans' = plans \/ plans' = Append(plans, NewPlan)
    BY <1>3 DEF CreateExecutionPlan
  <2>2. \A p \in DOMAIN plans : plans'[p] = plans[p]
    BY <1>1, <2>1, GrownTable
  <2>3. QED
    BY <2>1, <2>2 DEF PlansKept, OutcomesKept
<1>4. ASSUME NEW b \in BOOLEAN, CreateOutcome(b) PROVE PlansKept /\ OutcomesKept
  <2>1. UNCHANGED plans /\ \E row : outcomes' = Append(outcomes, row)
    BY <1>4 DEF CreateOutcome, OpenOutcome
  <2>2. \A o \in DOMAIN outcomes : outcomes'[o] = outcomes[o]
    BY <1>1, <2>1, GrownTable
  <2>3. QED
    BY <2>1, <2>2 DEF PlansKept, OutcomesKept
<1>5. ASSUME NEW b \in BOOLEAN, CloseOutcome(b) PROVE PlansKept /\ OutcomesKept
  <2>1. /\ UNCHANGED plans /\ outcomes[updatedLast].status = "OPEN"
        /\ outcomes' = [outcomes EXCEPT ![updatedLast] =
               [outcomes[updatedLast] EXCEPT !.status = "CLOSED", !.ahead = b]]
    BY <1>5 DEF CloseOutcome, Closable, ClosedOutcome
  <2>2. SUFFICES ASSUME NEW o \in DOMAIN outcomes, o = updatedLast
                 PROVE  outcomes'[o] = [outcomes[o] EXCEPT
                                            !.status = "CLOSED",
                                            !.ahead = outcomes'[o].ahead]
    BY <2>1 DEF PlansKept, OutcomesKept
  <2>3. outcomes[o] \in Outcome
    BY <1>1, ElementOfSeq
  <2>4. outcomes'[o] = [outcomes[o] EXCEPT !.status = "CLOSED", !.ahead = b]
    BY <2>1, <2>2
  <2>5. outcomes'[o].ahead = b
    BY <2>3, <2>4 DEF Outcome
  <2>6. QED
    BY <2>4, <2>5
<1>6. CASE Settle
  <2>1. PICK r \in Reports : pending = <<"settle", r>>
    BY <1>1, <1>6, SettlingReport DEF Settle
  <2>2. /\ UNCHANGED outcomes
        /\ \/ plans' = plans
           \/ plans' = [plans EXCEPT ![Len(plans)].status = StatusFor[r]]
    BY <1>6, <2>1 DEF Settle
  <2>3. CASE plans' = plans
    BY <1>2, <2>2, <2>3
  <2>4. CASE plans' = [plans EXCEPT ![Len(plans)].status = StatusFor[r]]
    <3>1. /\ plans[Len(plans)].status = Waiting /\ Reported(Len(plans))
          /\ Len(plans) \in DOMAIN plans
      BY <1>1, <2>1 DEF ReportsConsistent, SettleReported, Reported
    <3>2. plans[Len(plans)] \in Plan
      BY <1>1, <3>1, ElementOfSeq
    <3>3. plans'[Len(plans)] = [plans[Len(plans)] EXCEPT !.status = StatusFor[r]]
      BY <2>4, <3>1
    <3>4. plans'[Len(plans)].status = StatusFor[r]
      BY <3>2, <3>3 DEF Plan
    <3>5. \A p \in DOMAIN plans : p # Len(plans) => plans'[p] = plans[p]
      BY <2>4
    <3>6. QED
      BY <2>2, <3>1, <3>3, <3>4, <3>5 DEF PlansKept, OutcomesKept
  <2>5. QED
    BY <2>2, <2>3, <2>4
<1>7. QED
  BY <1>1, <1>2, <1>3, <1>4, <1>5, <1>6, QuietSteps DEF QuietStep, Confirm

(* Rows are only appended; a plan changes only from waiting to the status  *)
(* the operator reported, an outcome only from OPEN to CLOSED.             *)
THEOREM HistoryHeld == Spec => HistoryKept
<1>1. ReportsConsistent /\ [Next]_vars => [TablesKept /\ PlansKept /\ OutcomesKept]_vars
  BY TablesOnlyGrow, RowsKept DEF ReportsConsistent
<1>2. QED
  BY <1>1, ReportsInit, ReportsStep, PTL
     DEF Spec, HistoryKept, TablesKept, PlansKept, OutcomesKept

(***************************************************************************)
(* The commands keep the promise: what a plan's confirmation and outcome   *)
(* say of it moves only along the promised path.                           *)
(***************************************************************************)

Trades == [p \in DOMAIN plans |-> TradeOf(p)]
TradeKinds == {"planned", "executed", "cancelled", "open", "closed"}

LEMMA TradesType ==
  ASSUME plans \in Seq(Plan)
  PROVE  /\ Trades \in Seq(TradeKinds)
         /\ Len(Trades) = Len(plans) /\ DOMAIN Trades = 1 .. Len(plans)
         /\ \A p \in DOMAIN plans : Trades[p] = TradeOf(p)
<1>1. DOMAIN plans = 1 .. Len(plans) /\ Len(plans) \in Nat
  OBVIOUS
<1>2. \A p \in DOMAIN plans : TradeOf(p) \in TradeKinds
  BY DEF TradeOf, TradeKinds
<1>3. Trades = [p \in 1 .. Len(plans) |-> TradeOf(p)]
  BY <1>1 DEF Trades
<1>4. Trades \in [1 .. Len(plans) -> TradeKinds]
  BY <1>1, <1>2, <1>3
<1>5. QED
  BY <1>1, <1>3, <1>4

(* One trade moves when nothing but its own rows changed.                  *)
LEMMA OneTradeMoves ==
  ASSUME UNCHANGED plans, NEW n \in DOMAIN plans,
         \A p \in DOMAIN plans : p # n => TradeOf(p)' = TradeOf(p)
  PROVE  Trades' = [Trades EXCEPT ![n] = TradeOf(n)']
  BY DEF Trades

(* A plan without a report has no outcome either.                          *)
LEMMA OutcomeIsReported ==
  ASSUME ReportsConsistent, NEW o \in DOMAIN outcomes
  PROVE  Reported(outcomes[o].plan)
<1> DEFINE c == outcomes[o].confirmation
           p == outcomes[o].plan
<1>1. c \in DOMAIN confirmations /\ confirmations[c] = [plan |-> p, outcome |-> "EXECUTED"]
  BY DEF ReportsConsistent, OutcomeOfExecution
<1>2. confirmations[c].plan = p
  BY <1>1
<1>3. QED
  BY <1>1, <1>2 DEF Reported

LEMMA UnreportedIsPlanned ==
  ASSUME ReportsConsistent, NEW p, ~ Reported(p)
  PROVE  TradeOf(p) = "planned"
<1>1. \A o \in DOMAIN outcomes : outcomes[o].plan # p
  BY OutcomeIsReported
<1>2. \A r \in Reports : ~ ReportedAs(p, r)
  BY DEF ReportedAs, Reported
<1>3. QED
  BY <1>1, <1>2 DEF TradeOf, Reports

LEMMA PlanPlansTrade ==
  ASSUME ReportsConsistent, plans' = Append(plans, NewPlan), plans' \in Seq(Plan),
         UNCHANGED <<confirmations, outcomes>>
  PROVE  Trades' = Append(Trades, "planned")
<1> DEFINE n == Len(plans) + 1
<1>1. plans \in Seq(Plan)
  BY DEF ReportsConsistent, TypeOK
<1>2. /\ Trades \in Seq(TradeKinds) /\ Len(Trades) = Len(plans)
      /\ DOMAIN Trades = 1 .. Len(plans)
      /\ \A p \in DOMAIN plans : Trades[p] = TradeOf(p)
  BY <1>1, TradesType
<1>3. DOMAIN plans' = 1 .. n /\ DOMAIN plans = 1 .. Len(plans) /\ Len(plans) \in Nat
  BY <1>1, AppendedRow
<1>4. \A p \in DOMAIN plans' : TradeOf(p)' = TradeOf(p)
  BY DEF TradeOf, ReportedAs
<1>5. ~ Reported(n)
  BY <1>3 DEF ReportsConsistent, Reported
<1>6. TradeOf(n) = "planned"
  BY <1>5, UnreportedIsPlanned
<1>7. /\ DOMAIN Append(Trades, "planned") = 1 .. n
      /\ \A p \in 1 .. Len(plans) : Append(Trades, "planned")[p] = Trades[p]
      /\ Append(Trades, "planned")[n] = "planned"
  BY <1>2, AppendedRow DEF TradeKinds
<1>8. Trades' = [p \in 1 .. n |-> TradeOf(p)]
  BY <1>3, <1>4 DEF Trades
<1>9. \A p \in 1 .. n : TradeOf(p) = Append(Trades, "planned")[p]
  BY <1>2, <1>3, <1>6, <1>7
<1>10. /\ Append(Trades, "planned") \in Seq(TradeKinds)
       /\ Len(Append(Trades, "planned")) = n
  BY <1>2, AppendedRow DEF TradeKinds
<1>11. /\ Trades' \in Seq(TradeKinds) /\ Len(Trades') = n
       /\ \A p \in 1 .. n : Trades'[p] = Append(Trades, "planned")[p]
  <2>1. \A p \in 1 .. n : TradeOf(p) \in TradeKinds
    BY DEF TradeOf, TradeKinds
  <2>2. Trades' \in [1 .. n -> TradeKinds] /\ n \in Nat
    BY <1>3, <1>8, <2>1
  <2>3. \A p \in 1 .. n : Trades'[p] = TradeOf(p)
    BY <1>8
  <2> HIDE DEF n
  <2>4. Trades' \in Seq(TradeKinds) /\ Len(Trades') = n
    BY <2>2
  <2>5. QED
    BY <1>9, <2>3, <2>4
<1>12. QED
  BY <1>10, <1>11, SeqEqual

LEMMA ReportMovesTrade ==
  ASSUME ReportsConsistent, NEW r \in Reports, Confirm(r)
  PROVE  /\ plans # <<>> /\ Trades[Len(plans)] = "planned"
         /\ Trades' = [Trades EXCEPT ![Len(plans)] =
                           IF r = "EXECUTED" THEN "executed" ELSE "cancelled"]
<1>1. /\ plans \in Seq(Plan) /\ confirmations \in Seq(Confirmation)
      /\ plans # <<>> /\ ~ Reported(Len(plans)) /\ UNCHANGED <<plans, outcomes>>
      /\ confirmations' = Append(confirmations, [plan |-> Len(plans),
                                                 outcome |-> r])
  BY DEF ReportsConsistent, TypeOK, Confirm, Confirmable
<1>2. PICK n \in DOMAIN plans : n = Len(plans)
  BY <1>1
<1> DEFINE row == [plan |-> n, outcome |-> r]
           last == Len(confirmations) + 1
<1>3. /\ DOMAIN confirmations' = DOMAIN confirmations \union {last}
      /\ \A c \in DOMAIN confirmations : confirmations'[c] = confirmations[c]
      /\ confirmations'[last] = row
  BY <1>1, <1>2, GrownTable
<1>4. \A p, q : row = [plan |-> p, outcome |-> q] <=> p = n /\ q = r
  BY Z3
<1> HIDE DEF row, last
<1>5. \A p, q : ReportedAs(p, q)' <=> ReportedAs(p, q) \/ (p = n /\ q = r)
  BY <1>3, <1>4 DEF ReportedAs
<1>6. \A p \in DOMAIN plans : p # n => TradeOf(p)' = TradeOf(p)
  BY <1>1, <1>5 DEF TradeOf
<1>7. \A o \in DOMAIN outcomes : outcomes[o].plan # n
  BY <1>1, <1>2, OutcomeIsReported
<1>8. \A q : ~ ReportedAs(n, q)
  <2>1. \A c \in DOMAIN confirmations : confirmations[c].plan # n
    BY <1>1, <1>2 DEF Reported
  <2>2. QED
    BY <2>1 DEF ReportedAs
<1>9. TradeOf(n) = "planned"
  BY <1>7, <1>8 DEF TradeOf
<1>10. \A q : ReportedAs(n, q)' <=> q = r
  BY <1>5, <1>8
<1>11. TradeOf(n)' = IF r = "EXECUTED" THEN "executed" ELSE "cancelled"
  BY <1>1, <1>7, <1>10 DEF TradeOf, Reports
<1>12. Trades[n] = "planned"
  BY <1>1, <1>9, TradesType
<1>13. QED
  BY <1>1, <1>2, <1>6, <1>11, <1>12, OneTradeMoves

LEMMA OutcomeOpensTrade ==
  ASSUME ReportsConsistent, NEW b \in BOOLEAN, CreateOutcome(b)
  PROVE  /\ plans # <<>> /\ Trades[Len(plans)] = "executed"
         /\ Trades' = [Trades EXCEPT ![Len(plans)] = "open"]
<1>1. /\ plans \in Seq(Plan) /\ confirmations \in Seq(Confirmation)
      /\ outcomes \in Seq(Outcome)
      /\ plans # <<>> /\ UNCHANGED <<plans, confirmations>>
      /\ \A o \in DOMAIN outcomes : outcomes[o].plan # Len(plans)
  BY DEF ReportsConsistent, TypeOK, CreateOutcome, Tradable
<1>2. PICK n \in DOMAIN plans : n = Len(plans)
  BY <1>1
<1>3. PICK c \in DOMAIN confirmations :
        /\ confirmations[c].plan = n /\ confirmations[c].outcome = "EXECUTED"
        /\ outcomes' = Append(outcomes, [plan |-> n, confirmation |-> c,
                                         status |-> "OPEN", ahead |-> FALSE])
  BY <1>2 DEF CreateOutcome, OpenOutcome, IsLatestReport
<1> DEFINE row == [plan |-> n, confirmation |-> c, status |-> "OPEN",
                   ahead |-> FALSE]
           last == Len(outcomes) + 1
<1>4. /\ DOMAIN outcomes' = DOMAIN outcomes \union {last}
      /\ \A o \in DOMAIN outcomes : outcomes'[o] = outcomes[o]
      /\ outcomes'[last] = row
  BY <1>1, <1>3, GrownTable
<1>5. row.plan = n /\ row.status = "OPEN"
  OBVIOUS
<1> HIDE DEF row, last
<1>6. \A p, q : ReportedAs(p, q)' <=> ReportedAs(p, q)
  BY <1>1 DEF ReportedAs
<1>7. \A p \in DOMAIN plans : p # n => TradeOf(p)' = TradeOf(p)
  BY <1>4, <1>5, <1>6 DEF TradeOf
<1>8. ReportedAs(n, "EXECUTED")
  <2>1. confirmations[c] \in Confirmation
    BY <1>1, ElementOfSeq
  <2>2. confirmations[c] = [plan |-> n, outcome |-> "EXECUTED"]
    BY <1>3, <2>1 DEF Confirmation
  <2>3. QED
    BY <2>2 DEF ReportedAs
<1>9. Trades[n] = "executed"
  BY <1>1, <1>2, <1>8, TradesType DEF TradeOf
<1>10. TradeOf(n)' = "open"
  BY <1>1, <1>2, <1>4, <1>5 DEF TradeOf
<1>11. QED
  BY <1>1, <1>2, <1>7, <1>9, <1>10, OneTradeMoves

LEMMA ClosingClosesTrade ==
  ASSUME ReportsConsistent, NEW b \in BOOLEAN, CloseOutcome(b)
  PROVE  \E n \in 1 .. Len(plans) :
             /\ Trades[n] = "open" /\ Trades' = [Trades EXCEPT ![n] = "closed"]
<1>1. /\ plans \in Seq(Plan) /\ outcomes \in Seq(Outcome)
      /\ UNCHANGED <<plans, confirmations>>
      /\ updatedLast \in DOMAIN outcomes /\ outcomes[updatedLast].status = "OPEN"
      /\ outcomes' = [outcomes EXCEPT ![updatedLast] =
             [outcomes[updatedLast] EXCEPT !.status = "CLOSED", !.ahead = b]]
  BY DEF ReportsConsistent, TypeOK, CloseOutcome, Closable, ClosedOutcome
<1>2. PICK u \in DOMAIN outcomes : u = updatedLast
  BY <1>1
<1>3. PICK n : n = outcomes[u].plan
  OBVIOUS
<1>4. n \in DOMAIN plans
  BY <1>2, <1>3, OutcomeIsReported DEF ReportsConsistent, Reported
<1>5. /\ DOMAIN outcomes' = DOMAIN outcomes
      /\ \A o \in DOMAIN outcomes : o # u => outcomes'[o] = outcomes[o]
      /\ outcomes'[u].plan = n /\ outcomes'[u].status = "CLOSED"
  <2>1. outcomes[u] \in Outcome
    BY <1>1, ElementOfSeq
  <2>2. QED
    BY <1>1, <1>2, <1>3, <2>1 DEF Outcome
<1>6. \A o \in DOMAIN outcomes : outcomes[o].plan = n <=> o = u
  BY <1>3 DEF ReportsConsistent, OutcomeOfExecution
<1>7. \A p, q : ReportedAs(p, q)' <=> ReportedAs(p, q)
  BY <1>1 DEF ReportedAs
<1>8. \A p \in DOMAIN plans : p # n => TradeOf(p)' = TradeOf(p)
  BY <1>5, <1>6, <1>7 DEF TradeOf
<1>9. Trades[n] = "open"
  BY <1>1, <1>2, <1>4, <1>6, TradesType DEF TradeOf
<1>10. TradeOf(n)' = "closed"
  BY <1>5 DEF TradeOf
<1>11. QED
  BY <1>1, <1>4, <1>8, <1>9, <1>10, OneTradeMoves

(* The remaining steps, the writing of a plan's status among them, do not  *)
(* touch what a trade has become.                                          *)
LEMMA StatusesAreNoTrades ==
  ASSUME DOMAIN plans' = DOMAIN plans, UNCHANGED <<confirmations, outcomes>>
  PROVE  Trades' = Trades
<1>1. \A p : TradeOf(p)' = TradeOf(p)
  BY DEF TradeOf, ReportedAs
<1>2. QED
  BY <1>1 DEF Trades

LEMMA InitKeepsPromise == Init => Promise!Init
<1>1. ASSUME plans = <<>> PROVE [p \in DOMAIN plans |-> TradeOf(p)] = <<>>
  BY <1>1
<1>2. QED
  BY <1>1 DEF Init, Promise!Init

LEMMA StepKeepsPromise ==
  ReportsConsistent /\ [Next]_vars => [Promise!Next]_Trades
<1> SUFFICES ASSUME ReportsConsistent, [Next]_vars PROVE [Promise!Next]_Trades
  OBVIOUS
<1>1. TypeOK /\ plans \in Seq(Plan) /\ plans' \in Seq(Plan)
  BY TypeStep DEF ReportsConsistent, TypeOK
<1>2. Len(Trades) = Len(plans) /\ (plans # <<>> => Trades # <<>>)
  BY <1>1, TradesType
<1>3. CASE QuietStep
  BY <1>3, StatusesAreNoTrades DEF QuietStep
<1>4. CASE CreateExecutionPlan
  <2>1. /\ UNCHANGED <<confirmations, outcomes>>
        /\ plans' = plans \/ plans' = Append(plans, NewPlan)
    BY <1>4 DEF CreateExecutionPlan
  <2>2. CASE plans' = plans
    BY <2>1, <2>2, StatusesAreNoTrades
  <2>3. CASE plans' = Append(plans, NewPlan)
    <3>1. Trades' = Append(Trades, "planned")
      BY <1>1, <2>1, <2>3, PlanPlansTrade
    <3>2. QED
      BY <3>1 DEF Promise!Next, Promise!Planned, Trades
  <2>4. QED
    BY <2>1, <2>2, <2>3
<1>5. ASSUME NEW r \in Reports, Confirm(r) PROVE [Promise!Next]_Trades
  <2>1. /\ plans # <<>> /\ Trades[Len(plans)] = "planned"
        /\ Trades' = [Trades EXCEPT ![Len(plans)] =
                          IF r = "EXECUTED" THEN "executed" ELSE "cancelled"]
    BY <1>5, ReportMovesTrade
  <2>2. QED
    BY <1>2, <2>1
       DEF Promise!Next, Promise!ReportedLatest, Promise!Moves, Trades
<1>6. ASSUME NEW b \in BOOLEAN, CreateOutcome(b) PROVE [Promise!Next]_Trades
  <2>1. /\ plans # <<>> /\ Trades[Len(plans)] = "executed"
        /\ Trades' = [Trades EXCEPT ![Len(plans)] = "open"]
    BY <1>6, OutcomeOpensTrade
  <2>2. QED
    BY <1>2, <2>1
       DEF Promise!Next, Promise!OpenedLatest, Promise!Moves, Trades
<1>7. ASSUME NEW b \in BOOLEAN, CloseOutcome(b) PROVE [Promise!Next]_Trades
  <2>1. PICK n \in 1 .. Len(plans) :
            Trades[n] = "open" /\ Trades' = [Trades EXCEPT ![n] = "closed"]
    BY <1>7, ClosingClosesTrade
  <2>2. QED
    BY <1>2, <2>1 DEF Promise!Next, Promise!Closed, Promise!Moves, Trades
<1>8. CASE Settle
  <2>1. UNCHANGED <<confirmations, outcomes>> /\ DOMAIN plans' = DOMAIN plans
    BY <1>8 DEF Settle
  <2>2. QED
    BY <2>1, StatusesAreNoTrades
<1>9. QED
  BY <1>1, <1>3, <1>4, <1>5, <1>6, <1>7, <1>8, QuietSteps

(* The store implements the promise: whatever the commands, their order and*)
(* the crashes between their saves, a trade is planned, reported once,     *)
(* opened once and closed once.                                            *)
THEOREM CommandsKeepPromise == Spec => ImplementsPromise
<1>1. ReportsConsistent /\ [Next]_vars => [Promise!Next]_Trades
  BY StepKeepsPromise
<1>2. QED
  BY <1>1, InitKeepsPromise, ReportsInit, ReportsStep, PTL
     DEF Spec, ImplementsPromise, Promise!Spec, Trades

(***************************************************************************)
(* No stage is skipped.  A status is written one transaction after what    *)
(* earned it, so the invariant also speaks of the status still to write.   *)
(***************************************************************************)

Marking(new) == pending = <<"mark", new>>

Backed ==
    /\ status \in Advanced \/ (\E new \in Advanced : Marking(new)) => "ADVANCE" \in fits
    /\ status \in {"POSITION_SIZED", "READY_FOR_PROPOSAL"} => sizing # NoSizing
    /\ status = "READY_FOR_PROPOSAL" \/ Marking("READY_FOR_PROPOSAL") => proposals # <<>>

LEMMA MarkingStatus ==
  ASSUME TypeOK, pending[1] = "mark"
  PROVE  \E new \in Advanced : Marking(new)
<1>1. pending # NoPending /\ pending # <<"refresh">>
  BY DEF NoPending
<1>2. ASSUME NEW r \in Reports PROVE pending # <<"settle", r>>
  OBVIOUS
<1>3. QED
  BY <1>1, <1>2 DEF TypeOK, Pending, Marking

(* Refreshing takes nothing back and advances nothing.                     *)
LEMMA RefreshAdvancesNone ==
  ASSUME TypeOK, NEW new \in Advanced, RefreshedStatus = new
  PROVE  status = new
  BY DEF RefreshedStatus, Advanced

LEMMA BackedStep ==
  ASSUME TypeOK, Backed, [Next]_vars
  PROVE  Backed'
<1> USE DEF opportunity, world, chain, execution
<1>1. ASSUME UNCHANGED <<status, fits, sizing, proposals>>,
             \A new \in Advanced : pending' = <<"mark", new>> => Marking(new)
      PROVE  Backed'
  BY <1>1 DEF Backed, Marking, Advanced
<1>2. CASE UNCHANGED vars \/ NewSnapshot \/ Crash
  BY <1>1, <1>2 DEF vars, NewSnapshot, Crash, NoPending, Marking
<1>3. ASSUME NEW i \in Instruments, NEW v \in Metadata, NEW bulk \in BOOLEAN,
             SaveInstrument(i, v, bulk)
      PROVE  Backed'
  BY <1>1, <1>3 DEF SaveInstrument, NoPending, Marking
<1>16. ASSUME NEW i \in Instruments, DeleteInstrument(i) PROVE Backed'
  BY <1>1, <1>16 DEF DeleteInstrument, Marking
<1>4. CASE CreateDecision \/ CreateExecutionPlan \/ Settle
  BY <1>1, <1>4 DEF CreateDecision, CreateExecutionPlan, Settle, NoPending, Marking
<1>13. ASSUME NEW finding \in Findings, CreateSimulation(finding) PROVE Backed'
  BY <1>1, <1>13 DEF CreateSimulation, Marking
<1>14. ASSUME NEW r \in Reports, Confirm(r) PROVE Backed'
  <2>1. \A new \in Advanced : pending' # <<"mark", new>>
    BY <1>14 DEF Confirm
  <2>2. QED
    BY <1>1, <1>14, <2>1 DEF Confirm
<1>15. ASSUME NEW b \in BOOLEAN, CreateOutcome(b) \/ CloseOutcome(b) PROVE Backed'
  BY <1>1, <1>15 DEF CreateOutcome, CloseOutcome, Marking
<1>5. ASSUME NEW fit \in Fits, AssessPortfolioFit(fit)
      PROVE  Backed'
  BY <1>5 DEF AssessPortfolioFit, Backed, Marking
<1>6. ASSUME NEW fit \in Fits, NEW selected \in SUBSET Instruments,
             SelectInstruments(fit, selected)
      PROVE  Backed'
  <2>1. "ADVANCE" \in fits /\ fits' = fits
    BY <1>6 DEF SelectInstruments, Selectable, GateOpen
  <2>2. /\ sizing' = sizing /\ proposals' = proposals /\ status' = RefreshedStatus
        /\ ~ Marking("READY_FOR_PROPOSAL")'
    BY <1>6 DEF SelectInstruments, AfterSelection, NoPending, Marking
  <2>3. \A new \in Advanced : status' = new => status = new
    BY <2>2, RefreshAdvancesNone
  <2>4. QED
    BY <2>1, <2>2, <2>3 DEF Backed, Advanced
<1>7. CASE Refresh
  <2>1. UNCHANGED <<fits, sizing, proposals, pending>> /\ status' = RefreshedStatus
    BY <1>7 DEF Refresh
  <2>2. \A new \in Advanced : status' = new => status = new
    BY <2>1, RefreshAdvancesNone
  <2>3. QED
    BY <2>1, <2>2 DEF Backed, Advanced, Marking
<1>8. ASSUME NEW i \in Instruments, NEW passed \in BOOLEAN, SizePosition(i, passed)
      PROVE  Backed'
  <2>1. /\ UNCHANGED <<status, fits, proposals>>
        /\ status \in Advanced /\ sizing' # NoSizing
        /\ ~ Marking("READY_FOR_PROPOSAL")'
    BY <1>8, LifecycleAssumption
       DEF SizePosition, Sizable, SizingOf, NoSizing, AfterSizing, NoPending, Marking,
           Advanced
  <2>2. QED
    BY <2>1 DEF Backed
<1>9. CASE CreateProposal
  <2>1. /\ UNCHANGED <<status, fits, sizing>>
        /\ status \in Advanced
        /\ proposals' # <<>>
    BY <1>9 DEF CreateProposal, Proposable, Advanced, TypeOK
  <2>2. QED
    BY <2>1 DEF Backed
<1>10. CASE RefreshWaiting
  <2>1. /\ UNCHANGED <<fits, sizing, proposals>> /\ pending' = NoPending
        /\ status' = RefreshedStatus \/ status' = status
    BY <1>10 DEF RefreshWaiting
  <2>2. \A new \in Advanced : status' = new => status = new
    BY <2>1, RefreshAdvancesNone
  <2>3. \A new \in Advanced : ~ Marking(new)'
    BY <2>1 DEF NoPending, Marking
  <2>4. QED
    BY <2>1, <2>2, <2>3 DEF Backed, Advanced
<1>11. CASE Mark
  <2>1. PICK new \in Advanced : Marking(new)
    BY <1>11, MarkingStatus DEF Mark
  <2>2. /\ UNCHANGED <<fits, sizing, proposals>> /\ pending' = NoPending
        /\ status' = IF Markable(new) THEN new ELSE status
    BY <1>11, <2>1 DEF Mark, Marking
  <2>3. \A other \in Advanced : ~ Marking(other)'
    BY <2>2 DEF NoPending, Marking
  <2>4. CASE ~ Markable(new) \/ new = "INSTRUMENTS_RANKED"
    BY <2>1, <2>2, <2>3, <2>4 DEF Backed, Advanced
  <2>5. CASE Markable(new) /\ new = "POSITION_SIZED"
    <3>1. sizing.passed
      BY <2>5 DEF Markable
    <3>2. sizing # NoSizing
      BY <3>1 DEF NoSizing
    <3>3. QED
      BY <2>1, <2>2, <2>3, <2>5, <3>2 DEF Backed, Advanced
  <2>6. CASE Markable(new) /\ new = "READY_FOR_PROPOSAL"
    <3>1. status \in {"POSITION_SIZED", "READY_FOR_PROPOSAL"}
      BY <2>6 DEF Markable
    <3>2. QED
      BY <2>1, <2>2, <2>3, <2>6, <3>1 DEF Backed, Advanced
  <2>7. QED
    BY <2>4, <2>5, <2>6 DEF Advanced
<1>12. QED
  <2>1. CASE DeskCommand
    BY <1>2, <1>3, <1>16, <2>1, Zenon DEF DeskCommand
  <2>2. CASE AnalysisCommand
    BY <1>4, <1>5, <1>6, <1>7, <1>8, <1>9, <1>13, <2>2, Zenon DEF AnalysisCommand
  <2>3. CASE ExecutionCommand
    BY <1>4, <1>14, <1>15, <2>3, Zenon DEF ExecutionCommand, ExitTimesAhead
  <2>4. CASE Finish
    BY <1>4, <1>10, <1>11, <2>4, Zenon DEF Finish
  <2>5. QED
    BY <1>2, <2>1, <2>2, <2>3, <2>4, Zenon DEF Next, Command

(* No stage of the lifecycle is skipped: whatever the order of the commands*)
(* and wherever one is cut off, a ranked opportunity passed the gate, a    *)
(* sized one has a sizing and one that is ready has a proposal.            *)
THEOREM StatusesAreBacked == Spec => []StatusBacked
<1>1. Init => Backed
  BY DEF Init, Backed, Marking, Advanced, NoPending
<1>2. TypeOK /\ Backed /\ [Next]_vars => Backed'
  BY BackedStep
<1>3. Backed => StatusBacked
  BY DEF Backed, StatusBacked
<1>4. QED
  BY <1>1, <1>2, <1>3, TypeInit, TypeStep, PTL DEF Spec

(***************************************************************************)
(* Plans are made again only for a cause.                                  *)
(***************************************************************************)

SameRows(p, new) ==
    /\ plans[p].proposal = new.proposal /\ plans[p].decision = new.decision
    /\ plans[p].metadata = new.metadata

LEMMA CauseStep ==
  ASSUME ReportsConsistent, RematerialisedForCause, [Next]_vars
  PROVE  RematerialisedForCause'
<1>1. /\ plans \in Seq(Plan) /\ Len(plans) \in Nat /\ DOMAIN plans = 1 .. Len(plans)
  BY DEF ReportsConsistent, TypeOK
<1>2. ASSUME DOMAIN plans' = DOMAIN plans,
             \A p \in DOMAIN plans : SameRows(p, plans'[p])
      PROVE  RematerialisedForCause'
  <2> SUFFICES ASSUME NEW p \in DOMAIN plans, NEW q \in DOMAIN plans, p < q,
                      plans'[p].proposal = plans'[q].proposal,
                      \A r \in p + 1 .. q - 1 : plans'[r].proposal # plans'[q].proposal
               PROVE  \/ plans'[p].decision # plans'[q].decision
                      \/ plans'[p].metadata # plans'[q].metadata
    BY <1>2 DEF RematerialisedForCause
  <2>1. \A r \in p + 1 .. q - 1 : r \in DOMAIN plans
    BY <1>1
  <2>2. \A r \in p + 1 .. q - 1 : plans[r].proposal # plans[q].proposal
    BY <1>2, <2>1 DEF SameRows
  <2>3. plans[p].proposal = plans[q].proposal
    BY <1>2 DEF SameRows
  <2>4. plans[p].decision # plans[q].decision \/ plans[p].metadata # plans[q].metadata
    BY <2>2, <2>3 DEF RematerialisedForCause
  <2>5. QED
    BY <1>2, <2>4 DEF SameRows
<1>3. CASE plans' = plans
  BY <1>3 DEF RematerialisedForCause
<1>4. CASE ~ Reusable(NewPlan) /\ plans' = Append(plans, NewPlan)
  <2> DEFINE len == Len(plans)  new == NewPlan
  <2>1. /\ DOMAIN plans' = 1 .. len + 1 /\ plans'[len + 1] = new
        /\ \A p \in 1 .. len : plans'[p] = plans[p]
    BY <1>1, <1>4, GrownTable
  <2> HIDE DEF new
  <2> SUFFICES ASSUME NEW p \in 1 .. len + 1, NEW q \in 1 .. len + 1, p < q,
                      plans'[p].proposal = plans'[q].proposal,
                      \A r \in p + 1 .. q - 1 : plans'[r].proposal # plans'[q].proposal
               PROVE  \/ plans'[p].decision # plans'[q].decision
                      \/ plans'[p].metadata # plans'[q].metadata
    BY <2>1 DEF RematerialisedForCause
  <2>2. p \in 1 .. len
    BY <1>1
  <2>3. CASE q \in 1 .. len
    <3>1. \A r \in p + 1 .. q - 1 : plans[r].proposal # plans[q].proposal
      BY <1>1, <2>1, <2>3
    <3>2. QED
      BY <1>1, <2>1, <2>2, <2>3, <3>1 DEF RematerialisedForCause
  <2>4. CASE q = len + 1
    <3>1. plans[p].proposal = new.proposal
      BY <2>1, <2>2, <2>4
    <3>2. ASSUME NEW r \in 1 .. len, plans[r].proposal = new.proposal PROVE r <= p
      <4>1. r \in p + 1 .. q - 1 => FALSE
        BY <2>1, <2>4, <3>2
      <4>2. QED
        BY <1>1, <2>2, <2>4, <4>1
    <3>3. plans[p].decision # new.decision \/ plans[p].metadata # new.metadata
      BY <1>1, <1>4, <2>2, <3>1, <3>2 DEF Reusable, new
    <3>4. QED
      BY <2>1, <2>2, <2>4, <3>3
  <2>5. QED
    BY <1>1, <2>3, <2>4
<1>5. CASE Settle
  <2>1. PlansKept /\ TypeOK
    BY <1>5, RowsKept DEF ReportsConsistent
  <2>2. DOMAIN plans' = DOMAIN plans
    BY <1>5 DEF Settle
  <2>3. \A p \in DOMAIN plans : SameRows(p, plans'[p])
    <3> SUFFICES ASSUME NEW p \in DOMAIN plans PROVE SameRows(p, plans'[p])
      OBVIOUS
    <3>1. plans[p] \in Plan
      BY <1>1
    <3>2. QED
      BY <2>1, <3>1 DEF PlansKept, SameRows, Plan
  <2>4. QED
    BY <1>2, <2>2, <2>3
<1>6. QED
  BY <1>3, <1>4, <1>5, QuietSteps
     DEF ReportsConsistent, QuietStep, CreateExecutionPlan, Confirm, CreateOutcome,
         CloseOutcome

(* An execution plan is made again for a new decision or for other broker  *)
(* metadata, never because the command was repeated or had been cut off.   *)
THEOREM PlansAreMadeForCause == Spec => []RematerialisedForCause
<1>1. Init => RematerialisedForCause
  BY DEF Init, RematerialisedForCause
<1>2. ReportsConsistent /\ RematerialisedForCause /\ [Next]_vars => RematerialisedForCause'
  BY CauseStep
<1>3. QED
  BY <1>1, <1>2, ReportsInit, ReportsStep, PTL DEF Spec
(***************************************************************************)
(* The selected-opportunity dry run.  The inductive invariant joins, to    *)
(* what the chain keeps, what an invocation at work has found, what is on  *)
(* record, whose effects are accounted for and where the recorded rows     *)
(* come from; the last two are what a process death may cut apart.         *)
(***************************************************************************)

(* The variables of the run have their types.                              *)
RunTypeOK ==
    /\ run \in [status : {"NONE", "RUNNING", "BLOCKED", "FAILED", "COMPLETED"},
                reason : Reasons, plan : Nat]
    /\ records \in [Places -> Record \union {NoRecord}]
    /\ at \in 0 .. End /\ step \in {"idle", "execute", "record", "close"}
    /\ result \in Record \union {NoRecord}
    /\ runFit \in Fits \union {NoFit} /\ laterFit \in Fits \union {NoFit}
    /\ wrote \in [Places -> Nat] /\ failures \in Nat /\ commands \in Nat

DoneBelow(p) == \A q \in Places : q < p => records[q].status = "COMPLETED"

(* What an invocation that is at work has found and done.                  *)
InvocationAtWork ==
    /\ step # "idle" => run.status = "RUNNING" /\ at # 0 /\ DoneBelow(at)
    /\ step \in {"execute", "record"} =>
           at \in Places /\ records[at].status # "COMPLETED"
    /\ step = "execute" => pending = NoPending
    /\ step = "record" => result \in Record /\ result.reason # "CACHE_ONLY_MISS"
    /\ step = "close" /\ at # End =>
           /\ records[at] = result
           /\ result.status \in {"BLOCKED", "FAILED"}
           /\ result.reason # "CACHE_ONLY_MISS"

(* A stage is on record or has had an effect only above completed ones.    *)
NothingAboveAnOpenStage ==
    \A p, q \in Places :
        p < q /\ (records[q] # NoRecord \/ wrote[q] > 0)
            => records[p].status = "COMPLETED"

(* The effect of a stage is accounted for: by its record, by the result    *)
(* about to be recorded, by the end of the run, or by a process death.     *)
Accounted(p) ==
    \/ records[p].status = "COMPLETED" \/ Terminal
    \/ step \in {"record", "close"} /\ at = p /\ result.status # "FAILED"
EffectsAccounted ==
    \A p \in Places : wrote[p] <= IF Accounted(p) THEN crashes + 1 ELSE crashes

(* The rows that records name exist, and each comes from no earlier        *)
(* revision than the row of the stage before it; ps, ss, ds, es are the    *)
(* tables of proposals, simulations, decisions and plans.                  *)
RowsExist(rec, ps, ss, ds, es) ==
    /\ rec[7].output <= Len(ps) /\ rec[8].output <= Len(ss)
    /\ rec[9].output <= Len(ds) /\ rec[10].output <= Len(es)
    /\ rec[10].status = "COMPLETED" => rec[10].output # 0
RowsDescend(rec, ss, ds, es) ==
    /\ rec[8].output # 0 => ss[rec[8].output].proposal >= rec[7].output
    /\ rec[9].output # 0 => /\ ds[rec[9].output].proposal >= rec[7].output
                            /\ ds[rec[9].output].simulation >= rec[8].output
    /\ rec[10].output # 0 => es[rec[10].output].decision >= rec[9].output
TraceableIn(rec, ps, ss, ds, es) ==
    RowsExist(rec, ps, ss, ds, es) /\ RowsDescend(rec, ss, ds, es)
Recorded == [records EXCEPT ![at] = result]
Traceable ==
    /\ TraceableIn(records, proposals, simulations, decisions, plans)
    /\ step = "record" =>
           TraceableIn(Recorded, proposals, simulations, decisions, plans)

(* Later simulations are of later proposals.                               *)
SimulationsAscend ==
    \A s, t \in DOMAIN simulations :
        s <= t => simulations[s].proposal <= simulations[t].proposal

PlanOfCompletedRun ==
    run.status = "COMPLETED" => /\ run.plan \in DOMAIN plans
                                /\ \A p \in Places : records[p].status = "COMPLETED"

RunConsistent ==
    /\ ChainConsistent /\ RunTypeOK
    /\ InvocationAtWork /\ NothingAboveAnOpenStage /\ EffectsAccounted
    /\ SimulationsAscend
    /\ Traceable
    /\ PlanOfCompletedRun

(* The stages that keep rows are the last four.                            *)
LEMMA StageAt ==
  ASSUME NEW p \in Places
  PROVE  /\ StageOrder[p] = "TRADE_PROPOSAL" => p = 7
         /\ StageOrder[p] = "PORTFOLIO_SIMULATION" => p = 8
         /\ StageOrder[p] = "CIO_DECISION" => p = 9
         /\ StageOrder[p] = "EXECUTION_PLAN" => p = 10
         /\ StageOrder[p] \in {"SELECTION_VALIDATION", "OPPORTUNITY_PREPARATION",
                "PORTFOLIO_FILTER", "PORTFOLIO_LIFECYCLE_GATE",
                "INSTRUMENT_SELECTION", "POSITION_SIZING"} => p < 7
<1>1. p \in {1, 2, 3, 4, 5, 6, 7, 8, 9, 10}
  BY DEF Places
<1>2. QED
  BY <1>1 DEF StageOrder

(* The loop of run() finds the first stage that is not completed, if any.  *)
LEMMA FirstOpenFound ==
  /\ FirstOpen \in 1 .. End /\ DoneBelow(FirstOpen)
  /\ FirstOpen # End => records[FirstOpen].status # "COMPLETED"
<1>1. CASE \A p \in Places : records[p].status = "COMPLETED"
  BY <1>1 DEF FirstOpen, DoneBelow, End
<1>2. CASE \E p \in Places : records[p].status # "COMPLETED"
  <2> DEFINE open == {p \in Places : records[p].status # "COMPLETED"}
             R == {pair \in Nat \X Nat : pair[1] < pair[2]}
  <2>1. IsWellFoundedOn(R, Nat)
    BY NatLessThanWellFounded DEF OpToRel
  <2>2. open \subseteq Nat /\ open # {}
    BY <1>2 DEF Places
  <2>3. PICK p \in open : \A q \in open : ~ (<<q, p>> \in R)
    <3> HIDE DEF R, open
    <3>1. QED BY <2>1, <2>2, WFMin, Zenon
  <2>4. \A q \in open : ~ (q < p)
    BY <2>2, <2>3
  <2>5. /\ p \in Places /\ records[p].status # "COMPLETED"
        /\ \A q \in 1 .. p - 1 : records[q].status = "COMPLETED"
    BY <2>4 DEF Places
  <2>6. /\ FirstOpen \in Places /\ records[FirstOpen].status # "COMPLETED"
        /\ \A q \in 1 .. FirstOpen - 1 : records[q].status = "COMPLETED"
    BY <1>2, <2>5 DEF FirstOpen
  <2>7. QED
    BY <2>6 DEF DoneBelow, Places, End
<1>3. QED
  BY <1>1, <1>2

(* To the opportunity, a step of the dry run is a step of its lifecycle, or*)
(* its death, or one of the three stages that save in their own way.       *)
LEMMA StepOfLifecycle ==
  ASSUME TypeOK, RunTypeOK, step = "execute" => pending = NoPending,
         [RunNext]_runVars
  PROVE  \/ [Next]_vars
         \/ DryRunCrash
         \/ \E fit \in Fits : FilterPortfolio(fit)
         \/ \E s \in SUBSET Instruments : RankInstruments(s)
         \/ \E i \in Instruments, passed \in BOOLEAN : SizeCandidate(i, passed)
<1>1. CASE Invoke \/ InvokeCacheOnly \/ SaveStage \/ SaveRun \/ UNCHANGED runVars
  BY <1>1 DEF Invoke, InvokeCacheOnly, SaveStage, SaveRun, runVars
<1>2. CASE Operator \/ (Finish /\ UNCHANGED dryVars)
  <2>1. CASE Finish
    BY <2>1 DEF Next
  <2>2. CASE Operator /\ OtherCommand
    BY <2>2 DEF Operator, OtherCommand, Idle, Next, Command, DeskCommand,
                AnalysisCommand, ExecutionCommand
  <2>3. ASSUME NEW fit \in Fits, NEW later \in BOOLEAN, Operator,
               OperatorAssessment(fit, later)
        PROVE  Next
    BY <2>3 DEF Operator, OperatorAssessment, Idle, Next, Command, AnalysisCommand
  <2>4. QED
    BY <1>2, <2>1, <2>2, <2>3 DEF Operator
<1>3. CASE Execute
  <2>1. ASSUME NEW provenance, ValidateSelection(provenance) PROVE UNCHANGED vars
    BY <2>1 DEF ValidateSelection
  <2>2. ASSUME NEW overlay, PrepareOpportunity(overlay) PROVE UNCHANGED vars
    BY <2>2 DEF PrepareOpportunity
  <2>3. CASE PassGate \/ SizeNothing \/ Raise
    BY <2>3 DEF PassGate, SizeNothing, Raise
  <2>4. CASE ProposeTrade \/ DecideTrade \/ PlanExecution
    <3>1. step = "execute" /\ (CreateProposal \/ CreateDecision \/ CreateExecutionPlan)
      BY <2>4 DEF ProposeTrade, DecideTrade, PlanExecution, Executes
    <3>2. QED
      BY <3>1 DEF Next, Command, AnalysisCommand, ExecutionCommand
  <2>5. ASSUME NEW finding \in Findings, SimulatePortfolio(finding) PROVE Next
    <3>1. step = "execute" /\ CreateSimulation(finding)
      BY <2>5 DEF SimulatePortfolio, Executes
    <3>2. QED
      BY <3>1 DEF Next, Command, AnalysisCommand
  <2>6. QED
    BY <1>3, <2>1, <2>2, <2>3, <2>4, <2>5 DEF Execute
<1>4. QED
  BY <1>1, <1>2, <1>3 DEF RunNext

(* None of those touches the chain or the execution.                       *)
LEMMA StepOfOpportunity ==
  ASSUME TypeOK, RunTypeOK, step = "execute" => pending = NoPending,
         [RunNext]_runVars
  PROVE  [Next]_vars \/ (TypeOK' /\ UNCHANGED <<chain, execution>> /\ QuietStep)
<1> USE DEF opportunity, world
<1>1. CASE DryRunCrash
  BY <1>1, LifecycleAssumption
     DEF DryRunCrash, TypeOK, Pending, NoPending, QuietStep, chain, execution
<1>2. ASSUME NEW fit \in Fits, FilterPortfolio(fit)
      PROVE  TypeOK' /\ UNCHANGED <<chain, execution>> /\ QuietStep
  BY <1>2 DEF FilterPortfolio, TypeOK, QuietStep, chain, execution
<1>3. ASSUME NEW s \in SUBSET Instruments, RankInstruments(s)
      PROVE  TypeOK' /\ UNCHANGED <<chain, execution>> /\ QuietStep
  BY <1>3 DEF RankInstruments, TypeOK, Pending, Advanced, QuietStep, chain, execution
<1>4. ASSUME NEW i \in Instruments, NEW passed \in BOOLEAN, SizeCandidate(i, passed)
      PROVE  TypeOK' /\ UNCHANGED <<chain, execution>> /\ QuietStep
  BY <1>4 DEF SizeCandidate, TypeOK, Sizing, Pending, Advanced, QuietStep, chain,
              execution
<1>5. QED
  BY <1>1, <1>2, <1>3, <1>4, StepOfLifecycle

(* What the executor returns for any stage: a typed result for the record, *)
(* that names no cache-only miss, and an effect at that stage at most.     *)
StageReturned ==
    /\ step = "execute" /\ step' = "record"
    /\ UNCHANGED <<run, records, at, commands, laterFit, crashes>>
    /\ result' \in Record /\ result'.reason # "CACHE_ONLY_MISS"
    /\ \/ wrote' = wrote
       \/ /\ wrote' = [wrote EXCEPT ![at] = @ + 1]
          /\ result'.status # "FAILED"
    /\ runFit' \in Fits \union {NoFit} /\ failures' \in Nat

LEMMA ReturnedTyped ==
  ASSUME NEW status_ \in {"COMPLETED", "BLOCKED"},
         NEW reason \in Reasons \ {"CACHE_ONLY_MISS"}, NEW output \in Nat,
         RunTypeOK, step = "execute", Returns(status_, reason, output),
         UNCHANGED <<laterFit, crashes>>, runFit' \in Fits \union {NoFit},
         wrote' = wrote \/ wrote' = [wrote EXCEPT ![at] = @ + 1]
  PROVE  StageReturned
  BY DEF Returns, StageReturned, Record, RunTypeOK

LEMMA CompletedTyped ==
  ASSUME NEW output \in Nat, RunTypeOK, step = "execute", Completes(output),
         UNCHANGED <<laterFit, crashes>>, runFit' \in Fits \union {NoFit}
  PROVE  StageReturned
  BY ReturnedTyped DEF Completes, Reasons, NoReason

LEMMA BlockedTyped ==
  ASSUME NEW output \in Nat, NEW reason \in Reasons \ {"CACHE_ONLY_MISS"},
         RunTypeOK, step = "execute",
         Blocks(reason) \/ BlocksWithRow(reason, output),
         UNCHANGED <<laterFit, crashes>>, runFit' \in Fits \union {NoFit}
  PROVE  StageReturned
  BY ReturnedTyped DEF Blocks, BlocksWithRow

(* The rows the last stages name, as the tables are after the stage.       *)
LastRows ==
    /\ at = 7 /\ result'.output # 0 => result'.output = Len(proposals')
    /\ at = 8 /\ result'.output # 0 =>
           /\ result'.output = Len(simulations') /\ proposals' = proposals
           /\ simulations'[Len(simulations')].proposal = Len(proposals)
    /\ at = 9 /\ result'.output # 0 =>
           /\ result'.output = Len(decisions')
           /\ UNCHANGED <<proposals, simulations>>
           /\ decisions'[Len(decisions')].proposal = Len(proposals)
           /\ \E s \in DOMAIN simulations :
                  /\ IsLatestSimulation(s, Len(proposals))
                  /\ decisions'[Len(decisions')].simulation = s
    /\ at = 10 =>
           /\ result'.status = "COMPLETED" => result'.output # 0
           /\ result'.output # 0 =>
                  /\ result'.output \in DOMAIN plans' /\ decisions' = decisions
                  /\ plans'[result'.output].decision = Len(decisions)

LEMMA ExecutedStage ==
  ASSUME TypeOK, TypeOK', RunTypeOK, at \in Places, Execute
  PROVE  StageReturned /\ LastRows
<1> USE DEF opportunity, world, chain, execution, assessed
<1>1. ASSUME result'.output = 0, result'.status # "COMPLETED" \/ at # 10
      PROVE  LastRows
  BY <1>1 DEF LastRows, Places
<1>2. ASSUME NEW reason \in Reasons \ {"CACHE_ONLY_MISS"}, step = "execute",
             at # 10, UNCHANGED <<laterFit, crashes>>,
             runFit' \in Fits \union {NoFit},
             Completes(0) \/ Blocks(reason) \/ BlocksWithRow(reason, 0)
      PROVE  StageReturned /\ LastRows
  <2>1. StageReturned
    BY <1>2, CompletedTyped, BlockedTyped
  <2>2. result'.output = 0
    BY <1>2 DEF Completes, Blocks, BlocksWithRow, Returns
  <2>3. QED
    BY <1>1, <1>2, <2>1, <2>2
<1>3. ASSUME NEW provenance \in {NoReason, "NO_SELECTABLE_OPPORTUNITY",
                 "INVALID_SELECTION", "PORTFOLIO_SNAPSHOT_MISMATCH"},
             ValidateSelection(provenance)
      PROVE  StageReturned /\ LastRows
  <2>1. at # 10 /\ step = "execute"
    BY <1>3, StageAt DEF ValidateSelection, Executes
  <2>2. UNCHANGED <<laterFit, crashes>> /\ runFit' \in Fits \union {NoFit}
    BY <1>3 DEF ValidateSelection, vars, RunTypeOK
  <2>3. \E reason \in Reasons \ {"CACHE_ONLY_MISS"} : Completes(0) \/ Blocks(reason)
    BY <1>3 DEF ValidateSelection, Reasons, NoReason
  <2>4. QED
    BY <1>2, <2>1, <2>2, <2>3
<1>4. ASSUME NEW overlay \in {NoReason, "MARKET_INPUT_UNAVAILABLE",
                              "OPERATOR_INPUT_CONFLICT"},
             PrepareOpportunity(overlay)
      PROVE  StageReturned /\ LastRows
  <2>1. at # 10 /\ step = "execute"
    BY <1>4, StageAt DEF PrepareOpportunity, Executes
  <2>2. UNCHANGED <<laterFit, crashes>> /\ runFit' \in Fits \union {NoFit}
    BY <1>4 DEF PrepareOpportunity, vars, RunTypeOK
  <2>3. \E reason \in Reasons \ {"CACHE_ONLY_MISS"} : Completes(0) \/ Blocks(reason)
    BY <1>4 DEF PrepareOpportunity, Reasons, NoReason
  <2>4. QED
    BY <1>2, <2>1, <2>2, <2>3
<1>5. ASSUME NEW fit \in Fits, FilterPortfolio(fit)
      PROVE  StageReturned /\ LastRows
  <2>1. at # 10 /\ step = "execute"
    BY <1>5, StageAt DEF FilterPortfolio, Executes
  <2>2. UNCHANGED <<laterFit, crashes>> /\ runFit' \in Fits \union {NoFit}
    BY <1>5 DEF FilterPortfolio
  <2>3. "CIO_REJECTED" \in Reasons \ {"CACHE_ONLY_MISS"} /\ Completes(0)
    BY <1>5 DEF FilterPortfolio, Reasons
  <2>4. QED
    BY <1>2, <2>1, <2>2, <2>3
<1>6. CASE PassGate
  <2>1. at # 10 /\ step = "execute"
    BY <1>6, StageAt DEF PassGate, Executes
  <2>2. UNCHANGED <<laterFit, crashes>> /\ runFit' \in Fits \union {NoFit}
    BY <1>6 DEF PassGate, vars, RunTypeOK
  <2>3. \E reason \in Reasons \ {"CACHE_ONLY_MISS"} : Completes(0) \/ Blocks(reason)
    BY <1>6 DEF PassGate, Reasons
  <2>4. QED
    BY <1>2, <2>1, <2>2, <2>3
<1>7. ASSUME NEW s \in SUBSET Instruments, RankInstruments(s)
      PROVE  StageReturned /\ LastRows
  <2>1. at # 10 /\ step = "execute"
    BY <1>7, StageAt DEF RankInstruments, Executes
  <2>2. UNCHANGED <<laterFit, crashes>> /\ runFit' \in Fits \union {NoFit}
    BY <1>7 DEF RankInstruments, RunTypeOK
  <2>3. \E reason \in Reasons \ {"CACHE_ONLY_MISS"} :
            Completes(0) \/ BlocksWithRow(reason, 0)
    BY <1>7 DEF RankInstruments, Reasons
  <2>4. QED
    BY <1>2, <2>1, <2>2, <2>3
<1>8. ASSUME NEW i \in Instruments, NEW passed \in BOOLEAN, SizeCandidate(i, passed)
      PROVE  StageReturned /\ LastRows
  <2>1. at # 10 /\ step = "execute"
    BY <1>8, StageAt DEF SizeCandidate, Executes
  <2>2. UNCHANGED <<laterFit, crashes>> /\ runFit' \in Fits \union {NoFit}
    BY <1>8 DEF SizeCandidate, RunTypeOK
  <2>3. \E reason \in Reasons \ {"CACHE_ONLY_MISS"} :
            Completes(0) \/ BlocksWithRow(reason, 0)
    BY <1>8 DEF SizeCandidate, Reasons
  <2>4. QED
    BY <1>2, <2>1, <2>2, <2>3
<1>9. CASE SizeNothing
  <2>1. at # 10 /\ step = "execute"
    BY <1>9, StageAt DEF SizeNothing, Executes
  <2>2. UNCHANGED <<laterFit, crashes>> /\ runFit' \in Fits \union {NoFit}
    BY <1>9 DEF SizeNothing, vars, RunTypeOK
  <2>3. "NO_ELIGIBLE_INSTRUMENT" \in Reasons \ {"CACHE_ONLY_MISS"}
        /\ Blocks("NO_ELIGIBLE_INSTRUMENT")
    BY <1>9 DEF SizeNothing, Reasons
  <2>4. QED
    BY <1>2, <2>1, <2>2, <2>3
<1>10. CASE ProposeTrade
  <2>1. at = 7 /\ step = "execute" /\ Completes(Len(proposals'))
    BY <1>10, StageAt DEF ProposeTrade, Executes
  <2>2. UNCHANGED <<laterFit, crashes>> /\ runFit' \in Fits \union {NoFit}
    BY <1>10 DEF ProposeTrade, CreateProposal, RunTypeOK
  <2>3. Len(proposals') \in Nat
    BY DEF TypeOK
  <2>4. StageReturned
    BY <2>1, <2>2, <2>3, CompletedTyped
  <2>5. result'.output = Len(proposals')
    BY <2>1 DEF Completes, Returns
  <2>6. QED
    BY <2>1, <2>4, <2>5 DEF LastRows
<1>11. ASSUME NEW finding \in Findings, SimulatePortfolio(finding)
       PROVE  StageReturned /\ LastRows
  <2> DEFINE row == [proposal |-> Len(proposals), finding |-> finding]
  <2>1. at = 8 /\ step = "execute" /\ Completes(Len(simulations'))
    BY <1>11, StageAt DEF SimulatePortfolio, Executes
  <2>2. /\ UNCHANGED <<laterFit, crashes>> /\ runFit' \in Fits \union {NoFit}
        /\ simulations' = Append(simulations, row) /\ proposals' = proposals
    BY <1>11 DEF SimulatePortfolio, CreateSimulation, RunTypeOK
  <2>3. Len(simulations') \in Nat
    BY DEF TypeOK
  <2>4. StageReturned
    BY <2>1, <2>2, <2>3, CompletedTyped
  <2>5. result'.output = Len(simulations')
    BY <2>1 DEF Completes, Returns
  <2>6. simulations'[Len(simulations')] = row
    <3>1. simulations \in Seq(Simulation) /\ row \in Simulation
      BY DEF TypeOK, Simulation
    <3>2. QED
      BY <2>2, <3>1, AppendedRow
  <2>7. QED
    BY <2>1, <2>2, <2>4, <2>5, <2>6 DEF LastRows
<1>12. CASE DecideTrade
  <2> DEFINE new == Len(decisions')
  <2>1. at = 9 /\ step = "execute" /\ CreateDecision
    BY <1>12, StageAt DEF DecideTrade, Executes
  <2>2. PICK s \in DOMAIN simulations :
            /\ IsLatestSimulation(s, Len(proposals))
            /\ decisions' = Append(decisions,
                   [proposal |-> Len(proposals), simulation |-> s,
                    decision |-> Verdict[simulations[s].finding]])
    BY <2>1 DEF CreateDecision
  <2> DEFINE row == [proposal |-> Len(proposals), simulation |-> s,
                     decision |-> Verdict[simulations[s].finding]]
  <2>3. /\ UNCHANGED <<laterFit, crashes>> /\ runFit' \in Fits \union {NoFit}
        /\ UNCHANGED <<proposals, simulations>>
    BY <1>12, <2>1 DEF DecideTrade, CreateDecision, RunTypeOK
  <2>4. decisions'[new] = row /\ new \in DOMAIN decisions' /\ new \in Nat
    <3>1. decisions \in Seq(Decision) /\ decisions' = Append(decisions, row)
      BY <2>2 DEF TypeOK
    <3>2. Len(decisions') = Len(decisions) + 1
      BY <3>1
    <3>3. QED
      BY <3>1, <3>2, GrownTable
  <2>5. decisions'[new].decision \in {"ACCEPT", "REJECT", "MODIFY"}
    <3>1. decisions' \in Seq(Decision)
      BY DEF TypeOK
    <3>2. decisions'[new] \in Decision
      BY <2>4, <3>1
    <3>3. QED
      BY <3>2 DEF Decision
  <2>6. \E reason \in Reasons \ {"CACHE_ONLY_MISS"} :
            Completes(new) \/ BlocksWithRow(reason, new)
    <3>1. Completes(new) \/ BlocksWithRow("CIO_REJECTED", new)
                         \/ BlocksWithRow("CIO_MODIFY_REQUIRED", new)
      <4>1. CASE decisions'[new].decision = "ACCEPT"
        BY <1>12, <4>1 DEF DecideTrade
      <4>2. CASE decisions'[new].decision = "REJECT"
        BY <1>12, <4>2 DEF DecideTrade
      <4>3. CASE decisions'[new].decision = "MODIFY"
        BY <1>12, <4>3 DEF DecideTrade
      <4>4. QED
        BY <2>5, <4>1, <4>2, <4>3
    <3>2. {"CIO_REJECTED", "CIO_MODIFY_REQUIRED"} \subseteq Reasons \ {"CACHE_ONLY_MISS"}
      BY DEF Reasons
    <3>3. QED
      BY <3>1, <3>2
  <2>7. StageReturned
    BY <2>1, <2>3, <2>4, <2>6, CompletedTyped, BlockedTyped
  <2>8. result'.output = new
    BY <2>6 DEF Completes, BlocksWithRow, Returns
  <2>9. decisions'[new].proposal = Len(proposals) /\ decisions'[new].simulation = s
    BY <2>4
  <2> HIDE DEF new, row
  <2>10. QED
    BY <2>1, <2>2, <2>3, <2>7, <2>8, <2>9 DEF LastRows, new
<1>13. CASE PlanExecution
  <2>1. at = 10 /\ step = "execute" /\ CreateExecutionPlan
    BY <1>13, StageAt DEF PlanExecution, Executes
  <2>2. PICK p \in DOMAIN plans' :
            /\ \A q \in DOMAIN plans' :
                   plans'[q].proposal = plans'[p].proposal => q <= p
            /\ plans'[p].proposal = NewPlan.proposal
            /\ Completes(p)
    BY <1>13 DEF PlanExecution
  <2>3. /\ UNCHANGED <<laterFit, crashes, decisions>>
        /\ runFit' \in Fits \union {NoFit}
    BY <1>13, <2>1 DEF PlanExecution, CreateExecutionPlan, RunTypeOK
  <2>4. NewPlan.decision = Len(decisions)
    BY DEF NewPlan
  <2>5. plans \in Seq(Plan) /\ plans' \in Seq(Plan)
    BY DEF TypeOK
  <2>6. p \in Nat \ {0}
    BY <2>5
  <2>7. plans'[p].decision = Len(decisions)
    <3>1. CASE Reusable(NewPlan) /\ plans' = plans
      <4>1. PICK r \in DOMAIN plans :
                /\ plans[r].proposal = NewPlan.proposal
                /\ \A q \in DOMAIN plans :
                       plans[q].proposal = NewPlan.proposal => q <= r
                /\ plans[r].decision = NewPlan.decision
        BY <3>1 DEF Reusable
      <4>2. r <= p /\ p <= r /\ r \in Nat
        BY <2>2, <2>5, <3>1, <4>1
      <4>3. r = p
        BY <2>6, <4>2
      <4>4. QED
        BY <2>4, <3>1, <4>1, <4>3
    <3>2. CASE plans' = Append(plans, NewPlan)
      <4> DEFINE last == Len(plans) + 1
      <4>1. /\ DOMAIN plans' = DOMAIN plans \union {last} /\ plans'[last] = NewPlan
            /\ DOMAIN plans = 1 .. Len(plans) /\ Len(plans) \in Nat
        BY <2>5, <3>2, GrownTable
      <4>2. last <= p
        BY <2>2, <4>1
      <4>3. p = last
        BY <2>6, <4>1, <4>2
      <4>4. QED
        BY <2>4, <4>1, <4>3
    <3>3. QED
      BY <2>1, <3>1, <3>2 DEF CreateExecutionPlan
  <2>8. StageReturned
    BY <2>1, <2>2, <2>3, <2>6, CompletedTyped
  <2>9. result'.output = p
    BY <2>2 DEF Completes, Returns
  <2>10. QED
    BY <2>1, <2>3, <2>6, <2>7, <2>8, <2>9 DEF LastRows
<1>14. CASE Raise
  <2>1. /\ result' = [status |-> "FAILED", reason |-> "STAGE_FAILED", output |-> 0]
        /\ step = "execute" /\ step' = "record" /\ failures' = failures + 1
        /\ UNCHANGED <<run, records, at, runFit, laterFit, wrote, commands, crashes>>
    BY <1>14 DEF Raise, vars
  <2>2. StageReturned
    BY <2>1 DEF StageReturned, Record, Reasons, RunTypeOK
  <2>3. QED
    BY <1>1, <2>1, <2>2
<1>15. QED
  BY <1>3, <1>4, <1>5, <1>6, <1>7, <1>8, <1>9, <1>10, <1>11, <1>12, <1>13, <1>14
     DEF Execute


(* The operator between invocations, the second save of a command.         *)
OutsideStep ==
    /\ UNCHANGED <<run, records, at, step, result, runFit, wrote, failures, crashes>>
    /\ laterFit' \in Fits \union {NoFit} /\ commands' \in Nat
    /\ step = "idle" \/ pending' = pending \/ pending' = NoPending

LEMMA OutsideSteps ==
  ASSUME RunTypeOK, Operator \/ (Finish /\ UNCHANGED dryVars) \/ UNCHANGED runVars
  PROVE  OutsideStep
<1> USE DEF invocation, assessed
<1>1. CASE UNCHANGED runVars
  BY <1>1 DEF runVars, vars, dryVars, RunTypeOK, OutsideStep
<1>2. CASE Finish /\ UNCHANGED dryVars
  BY <1>2 DEF Finish, RefreshWaiting, Mark, Settle, dryVars, RunTypeOK, OutsideStep
<1>3. ASSUME OtherCommand, Operator,
             UNCHANGED <<run, records, invocation, assessed, wrote, failures>>
      PROVE  OutsideStep
  <2>1. UNCHANGED crashes
    BY <1>3 DEF OtherCommand, NewSnapshot, SaveInstrument, DeleteInstrument,
                SizePosition, SelectInstruments, Refresh, CreateProposal,
                CreateSimulation, CreateDecision, CreateExecutionPlan
  <2>2. QED
    BY <1>3, <2>1 DEF Operator, Idle, RunTypeOK, OutsideStep
<1>4. ASSUME NEW fit \in Fits, NEW later \in BOOLEAN, Operator,
             OperatorAssessment(fit, later)
      PROVE  OutsideStep
  BY <1>4 DEF Operator, Idle, OperatorAssessment, AssessPortfolioFit, RunTypeOK,
              OutsideStep
<1>5. QED
  BY <1>1, <1>2, <1>3, <1>4 DEF Operator

(* The steps of the run and of its store; the rest is outside.             *)
LEMMA RunSteps ==
  ASSUME TypeOK, TypeOK', RunTypeOK, InvocationAtWork, [RunNext]_runVars
  PROVE  \/ OutsideStep
         \/ Execute /\ StageReturned /\ LastRows
         \/ Invoke \/ InvokeCacheOnly \/ SaveStage \/ SaveRun \/ DryRunCrash
<1>1. Execute => step = "execute"
  BY DEF Execute, ValidateSelection, PrepareOpportunity, FilterPortfolio, PassGate,
         RankInstruments, SizeCandidate, SizeNothing, ProposeTrade,
         SimulatePortfolio, DecideTrade, PlanExecution, Raise, Executes
<1>2. Execute => at \in Places
  BY <1>1 DEF InvocationAtWork
<1>3. QED
  BY <1>2, OutsideSteps, ExecutedStage DEF RunNext

LEMMA RunTypeStep ==
  ASSUME TypeOK, TypeOK', RunTypeOK, InvocationAtWork, [RunNext]_runVars
  PROVE  RunTypeOK'
<1> USE DEF invocation, assessed
<1>1. CASE OutsideStep
  BY <1>1 DEF OutsideStep, RunTypeOK
<1>2. CASE StageReturned
  BY <1>2 DEF StageReturned, RunTypeOK
<1>3. CASE Invoke
  BY <1>3, FirstOpenFound DEF Invoke, RunTypeOK, Reasons, NoReason, End
<1>4. CASE InvokeCacheOnly
  BY <1>4 DEF InvokeCacheOnly, RunTypeOK, Reasons
<1>5. CASE SaveStage
  <2>1. at \in Places /\ result \in Record
    BY <1>5 DEF SaveStage, InvocationAtWork
  <2>2. at' \in 0 .. End /\ step' \in {"idle", "execute", "record", "close"}
    BY <1>5, <2>1 DEF SaveStage, RunTypeOK, Places, End
  <2>3. records' \in [Places -> Record \union {NoRecord}]
    BY <1>5, <2>1 DEF SaveStage, RunTypeOK
  <2>4. QED
    BY <1>5, <2>2, <2>3 DEF SaveStage, RunTypeOK
<1>6. CASE SaveRun
  <2>1. records[10].output \in Nat
    BY DEF RunTypeOK, Places, Record, NoRecord
  <2>2. at # End => result.status \in {"BLOCKED", "FAILED"} /\ result.reason \in Reasons
    BY <1>6 DEF SaveRun, InvocationAtWork, RunTypeOK, Record, NoRecord
  <2>3. run' \in [status : {"NONE", "RUNNING", "BLOCKED", "FAILED", "COMPLETED"},
                  reason : Reasons, plan : Nat]
    BY <1>6, <2>1, <2>2 DEF SaveRun, Reasons
  <2>4. QED
    BY <1>6, <2>3 DEF SaveRun, RunTypeOK, End
<1>7. CASE DryRunCrash
  BY <1>7 DEF DryRunCrash, RunTypeOK, End
<1>8. QED
  BY <1>1, <1>2, <1>3, <1>4, <1>5, <1>6, <1>7, RunSteps

LEMMA AtWorkStep ==
  ASSUME TypeOK, TypeOK', RunTypeOK, InvocationAtWork, NothingAboveAnOpenStage,
         [RunNext]_runVars
  PROVE  InvocationAtWork'
<1> USE DEF invocation, assessed
<1>1. CASE OutsideStep
  BY <1>1 DEF OutsideStep, InvocationAtWork, DoneBelow
<1>2. CASE StageReturned
  <2>1. at' = at /\ at \in Places /\ records' = records /\ run' = run
        /\ step' = "record" /\ result' \in Record
        /\ result'.reason # "CACHE_ONLY_MISS"
    BY <1>2 DEF StageReturned, InvocationAtWork
  <2>2. /\ run.status = "RUNNING" /\ at # 0 /\ DoneBelow(at)
        /\ records[at].status # "COMPLETED"
    BY <1>2 DEF StageReturned, InvocationAtWork
  <2>3. QED
    BY <2>1, <2>2 DEF InvocationAtWork, DoneBelow
<1>3. CASE Invoke
  <2>1. /\ records' = records /\ at' = FirstOpen /\ run'.status = "RUNNING"
        /\ step' = IF FirstOpen = End THEN "close" ELSE "execute"
        /\ pending' = NoPending
    BY <1>3 DEF Invoke, Idle, vars
  <2>2. /\ FirstOpen \in 1 .. End /\ DoneBelow(FirstOpen)
        /\ FirstOpen # End => /\ FirstOpen \in Places
                              /\ records[FirstOpen].status # "COMPLETED"
    BY FirstOpenFound DEF Places, End
  <2> DEFINE first == FirstOpen
  <2> HIDE DEF first
  <2>3. QED
    BY <2>1, <2>2 DEF InvocationAtWork, DoneBelow
<1>4. CASE InvokeCacheOnly
  BY <1>4 DEF InvokeCacheOnly, Idle, InvocationAtWork
<1>5. CASE SaveStage
  <2>1. /\ at \in Places /\ result \in Record /\ run'.status = "RUNNING"
        /\ records[at].status # "COMPLETED" /\ DoneBelow(at)
        /\ records' = [records EXCEPT ![at] = result] /\ pending' = NoPending
        /\ result.reason # "CACHE_ONLY_MISS"
    BY <1>5 DEF SaveStage, InvocationAtWork, vars
  <2>2. /\ records'[at] = result
        /\ \A q \in Places : q # at => records'[q] = records[q]
    BY <2>1 DEF RunTypeOK
  <2>3. CASE result.status = "COMPLETED"
    <3>1. at' = at + 1 /\ step' = IF at = 10 THEN "close" ELSE "execute"
      BY <1>5, <2>3 DEF SaveStage
    <3>2. \A q \in Places : q < at + 1 => records'[q].status = "COMPLETED"
      BY <2>1, <2>2, <2>3 DEF DoneBelow, Places
    <3>3. at # 10 => at + 1 \in Places /\ records'[at + 1].status # "COMPLETED"
      <4>1. at # 10 => at + 1 \in Places /\ at < at + 1
        BY <2>1 DEF Places
      <4>2. at # 10 => records[at + 1] = NoRecord
        BY <2>1, <4>1 DEF NothingAboveAnOpenStage
      <4>3. QED
        BY <2>1, <2>2, <4>1, <4>2 DEF NoRecord, Places
    <3>4. QED
      BY <2>1, <3>1, <3>2, <3>3 DEF InvocationAtWork, DoneBelow, Places, End
  <2>4. CASE result.status # "COMPLETED"
    <3>1. at' = at /\ step' = "close" /\ result' = result
      BY <1>5, <2>4 DEF SaveStage
    <3>2. \A q \in Places : q < at => records'[q].status = "COMPLETED"
      BY <2>1, <2>2 DEF DoneBelow, Places
    <3>3. result.status \in {"BLOCKED", "FAILED"}
      BY <2>1, <2>4 DEF Record
    <3>4. QED
      BY <2>1, <2>2, <3>1, <3>2, <3>3 DEF InvocationAtWork, DoneBelow, Places, End
  <2>5. QED
    BY <2>3, <2>4
<1>6. CASE SaveRun \/ DryRunCrash
  BY <1>6 DEF SaveRun, DryRunCrash, InvocationAtWork
<1>7. QED
  BY <1>1, <1>2, <1>3, <1>4, <1>5, <1>6, RunSteps

LEMMA NothingAboveStep ==
  ASSUME TypeOK, TypeOK', RunTypeOK, InvocationAtWork, NothingAboveAnOpenStage,
         [RunNext]_runVars
  PROVE  NothingAboveAnOpenStage'
<1> USE DEF invocation, assessed
<1>1. CASE UNCHANGED <<records, wrote>>
  BY <1>1 DEF NothingAboveAnOpenStage
<1>2. CASE StageReturned
  <2>1. /\ at \in Places /\ records' = records /\ DoneBelow(at)
        /\ \A q \in Places : q # at => wrote'[q] = wrote[q]
    BY <1>2 DEF StageReturned, InvocationAtWork, RunTypeOK
  <2>2. QED
    BY <2>1 DEF NothingAboveAnOpenStage, DoneBelow
<1>3. CASE SaveStage
  <2>1. /\ at \in Places /\ records[at].status # "COMPLETED" /\ DoneBelow(at)
        /\ wrote' = wrote
        /\ \A q \in Places : q # at => records'[q] = records[q]
    BY <1>3 DEF SaveStage, InvocationAtWork, RunTypeOK
  <2> SUFFICES ASSUME NEW p \in Places, NEW q \in Places, p < q,
                      records'[q] # NoRecord \/ wrote[q] > 0
               PROVE  records'[p].status = "COMPLETED"
    BY <2>1 DEF NothingAboveAnOpenStage
  <2>2. CASE q = at
    BY <2>1, <2>2 DEF DoneBelow, Places
  <2>3. CASE q # at
    <3>1. records[p].status = "COMPLETED"
      BY <2>1, <2>3 DEF NothingAboveAnOpenStage
    <3>2. QED
      BY <2>1, <3>1
  <2>4. QED
    BY <2>2, <2>3
<1>4. QED
  BY <1>1, <1>2, <1>3, RunSteps
     DEF OutsideStep, Invoke, InvokeCacheOnly, SaveRun, DryRunCrash

LEMMA EffectsStep ==
  ASSUME TypeOK, TypeOK', RunTypeOK, InvocationAtWork, EffectsAccounted,
         [RunNext]_runVars
  PROVE  EffectsAccounted'
<1> USE DEF invocation, assessed
<1>1. \A p \in Places : wrote[p] \in Nat
  BY DEF RunTypeOK
<1>2. crashes \in Nat
  BY DEF TypeOK
<1>3. ASSUME UNCHANGED <<wrote, crashes>>,
             \A p \in Places : Accounted(p) => Accounted(p)'
      PROVE  EffectsAccounted'
  BY <1>1, <1>2, <1>3 DEF EffectsAccounted
<1>4. CASE OutsideStep
  BY <1>3, <1>4 DEF OutsideStep, Accounted, Terminal
<1>5. CASE StageReturned
  <2>1. /\ UNCHANGED <<run, records, at, crashes>> /\ step = "execute"
        /\ step' = "record" /\ at \in Places /\ run.status = "RUNNING"
        /\ records[at].status # "COMPLETED"
    BY <1>5 DEF StageReturned, InvocationAtWork
  <2>2. \A p \in Places : Accounted(p) => Accounted(p)'
    BY <2>1 DEF Accounted, Terminal
  <2>3. CASE wrote' = wrote
    BY <1>3, <2>1, <2>2, <2>3
  <2>4. CASE /\ wrote' = [wrote EXCEPT ![at] = @ + 1]
             /\ result'.status # "FAILED"
    <3>1. ~ Accounted(at) /\ Accounted(at)'
      BY <2>1, <2>4 DEF Accounted, Terminal
    <3>2. /\ wrote'[at] = wrote[at] + 1
          /\ \A p \in Places : p # at => wrote'[p] = wrote[p]
      BY <2>1, <2>4 DEF RunTypeOK
    <3>3. ASSUME NEW p \in Places
          PROVE  wrote'[p] <= IF Accounted(p)' THEN crashes' + 1 ELSE crashes'
      <4>1. CASE p = at
        BY <1>1, <1>2, <2>1, <3>1, <3>2, <4>1 DEF EffectsAccounted
      <4>2. CASE p # at
        BY <1>1, <1>2, <2>1, <2>2, <3>2, <4>2 DEF EffectsAccounted
      <4>3. QED
        BY <4>1, <4>2
    <3>4. QED
      BY <3>3 DEF EffectsAccounted
  <2>5. QED
    BY <1>5, <2>3, <2>4 DEF StageReturned
<1>6. CASE Invoke
  BY <1>3, <1>6 DEF Invoke, Idle, Accounted, Terminal, vars
<1>7. CASE InvokeCacheOnly
  BY <1>3, <1>7 DEF InvokeCacheOnly, Idle, Accounted, Terminal, vars
<1>8. CASE SaveStage
  <2>1. /\ at \in Places /\ UNCHANGED <<run, wrote, crashes>> /\ step = "record"
        /\ records[at].status # "COMPLETED" /\ run.status = "RUNNING"
        /\ records'[at] = result
        /\ \A q \in Places : q # at => records'[q] = records[q]
    BY <1>8 DEF SaveStage, InvocationAtWork, RunTypeOK, vars
  <2>2. ASSUME NEW p \in Places, Accounted(p) PROVE Accounted(p)'
    <3>1. CASE p # at
      BY <2>1, <2>2, <3>1 DEF Accounted, Terminal
    <3>2. CASE p = at
      BY <1>8, <2>1, <2>2, <3>2 DEF Accounted, Terminal, SaveStage
    <3>3. QED
      BY <3>1, <3>2
  <2>3. QED
    BY <1>3, <2>1, <2>2
<1>9. CASE SaveRun
  <2>1. /\ UNCHANGED <<records, wrote, crashes>> /\ step = "close"
        /\ run.status = "RUNNING"
    BY <1>9 DEF SaveRun, InvocationAtWork, vars
  <2>2. CASE at = End
    BY <1>3, <1>9, <2>1, <2>2 DEF SaveRun, Accounted, Terminal
  <2>3. CASE at # End
    <3>1. /\ result.status \in {"BLOCKED", "FAILED"}
          /\ result.reason # "CACHE_ONLY_MISS"
          /\ run'.status = result.status /\ run'.reason = result.reason
      BY <1>9, <2>3 DEF SaveRun, InvocationAtWork
    <3>2. QED
      BY <1>3, <2>1, <3>1 DEF Accounted, Terminal
  <2>4. QED
    BY <2>2, <2>3
<1>10. CASE DryRunCrash
  <2>1. UNCHANGED wrote /\ crashes' = crashes + 1
    BY <1>10 DEF DryRunCrash
  <2>2. ASSUME NEW p \in Places PROVE wrote[p] <= crashes + 1
    BY <1>1, <1>2 DEF EffectsAccounted
  <2>3. ASSUME NEW p \in Places
        PROVE  wrote'[p] <= IF Accounted(p)' THEN crashes' + 1 ELSE crashes'
    BY <1>1, <1>2, <2>1, <2>2
  <2>4. QED
    BY <2>3 DEF EffectsAccounted
<1>11. QED
  BY <1>4, <1>5, <1>6, <1>7, <1>8, <1>9, <1>10, RunSteps

(* The tables are sequences, before a step and after it.                   *)
LEMMA TablesTyped ==
  ASSUME TypeOK
  PROVE  /\ proposals \in Seq(Proposal) /\ simulations \in Seq(Simulation)
         /\ decisions \in Seq(Decision) /\ plans \in Seq(Plan)
         /\ Len(proposals) \in Nat /\ Len(simulations) \in Nat
         /\ Len(decisions) \in Nat /\ Len(plans) \in Nat
<1>1. /\ proposals \in Seq(Proposal) /\ simulations \in Seq(Simulation)
      /\ decisions \in Seq(Decision) /\ plans \in Seq(Plan)
  BY DEF TypeOK
<1>2. Len(proposals) \in Nat /\ Len(simulations) \in Nat
  BY <1>1
<1>3. Len(decisions) \in Nat /\ Len(plans) \in Nat
  BY <1>1
<1>4. QED
  BY <1>1, <1>2, <1>3

LEMMA TablesTypedAfter ==
  ASSUME TypeOK'
  PROVE  /\ proposals' \in Seq(Proposal) /\ simulations' \in Seq(Simulation)
         /\ decisions' \in Seq(Decision) /\ plans' \in Seq(Plan)
         /\ Len(proposals') \in Nat /\ Len(simulations') \in Nat
         /\ Len(decisions') \in Nat /\ Len(plans') \in Nat
<1>1. /\ proposals' \in Seq(Proposal) /\ simulations' \in Seq(Simulation)
      /\ decisions' \in Seq(Decision) /\ plans' \in Seq(Plan)
  BY DEF TypeOK
<1>2. Len(proposals') \in Nat /\ Len(simulations') \in Nat
  BY <1>1
<1>3. Len(decisions') \in Nat /\ Len(plans') \in Nat
  BY <1>1
<1>4. QED
  BY <1>1, <1>2, <1>3

(* What a record of rows relies on stays: no table loses a row, and of a   *)
(* plan at most the status changes.                                        *)
RowsGrow ==
    /\ Len(proposals) <= Len(proposals') /\ Len(simulations) <= Len(simulations')
    /\ Len(decisions) <= Len(decisions') /\ Len(plans) <= Len(plans')
    /\ \A s \in 1 .. Len(simulations) : simulations'[s] = simulations[s]
    /\ \A d \in 1 .. Len(decisions) : decisions'[d] = decisions[d]
    /\ \A p \in 1 .. Len(plans) : plans'[p].decision = plans[p].decision

LEMMA RowsGrown ==
  ASSUME TypeOK, TypeOK', [Next]_vars
  PROVE  RowsGrow
<1>1. /\ proposals \in Seq(Proposal) /\ simulations \in Seq(Simulation)
      /\ decisions \in Seq(Decision) /\ plans \in Seq(Plan)
      /\ Len(proposals) \in Nat /\ Len(simulations) \in Nat
      /\ Len(decisions) \in Nat /\ Len(plans) \in Nat
  BY TablesTyped
<1>2. CASE UNCHANGED <<proposals, simulations, decisions, plans>>
  BY <1>1, <1>2 DEF RowsGrow
<1>3. CASE CreateProposal
  <2>1. /\ UNCHANGED <<simulations, decisions, plans>>
        /\ \E row : proposals' = Append(proposals, row)
    BY <1>3 DEF CreateProposal, execution
  <2>2. Len(proposals') = Len(proposals) + 1
    BY <1>1, <2>1, AppendedLength
  <2>3. QED
    BY <1>1, <2>1, <2>2 DEF RowsGrow
<1>4. ASSUME NEW finding \in Findings, CreateSimulation(finding) PROVE RowsGrow
  <2>1. /\ UNCHANGED <<proposals, decisions, plans>>
        /\ \E row : simulations' = Append(simulations, row)
    BY <1>4 DEF CreateSimulation, execution
  <2>2. /\ Len(simulations') = Len(simulations) + 1
        /\ \A s \in 1 .. Len(simulations) : simulations'[s] = simulations[s]
    BY <1>1, <2>1, AppendedLength
  <2>3. QED
    BY <1>1, <2>1, <2>2 DEF RowsGrow
<1>5. CASE CreateDecision
  <2>1. /\ UNCHANGED <<proposals, simulations, plans>>
        /\ \E row : decisions' = Append(decisions, row)
    BY <1>5 DEF CreateDecision, execution
  <2>2. /\ Len(decisions') = Len(decisions) + 1
        /\ \A d \in 1 .. Len(decisions) : decisions'[d] = decisions[d]
    BY <1>1, <2>1, AppendedLength
  <2>3. QED
    BY <1>1, <2>1, <2>2 DEF RowsGrow
<1>6. CASE CreateExecutionPlan
  <2>1. /\ UNCHANGED <<proposals, simulations, decisions>>
        /\ plans' = plans \/ plans' = Append(plans, NewPlan)
    BY <1>6 DEF CreateExecutionPlan, chain
  <2>2. /\ Len(plans) <= Len(plans')
        /\ \A p \in 1 .. Len(plans) : plans'[p] = plans[p]
    BY <1>1, <2>1, AppendedLength
  <2>3. QED
    BY <1>1, <2>1, <2>2 DEF RowsGrow
<1>7. CASE Settle
  <2>1. /\ UNCHANGED <<proposals, simulations, decisions>>
        /\ \/ plans' = plans
           \/ plans' = [plans EXCEPT ![Len(plans)].status = StatusFor[pending[2]]]
    BY <1>7 DEF Settle, chain
  <2>2. CASE plans' = plans
    BY <1>2, <2>1, <2>2
  <2>3. CASE plans' = [plans EXCEPT ![Len(plans)].status = StatusFor[pending[2]]]
    <3>1. Len(plans') = Len(plans)
      <4>1. DOMAIN plans' = 1 .. Len(plans)
        BY <1>1, <2>3
      <4>2. plans' \in Seq(Plan)
        BY DEF TypeOK
      <4>3. DOMAIN plans' = 1 .. Len(plans') /\ Len(plans') \in Nat
        BY <4>2
      <4>4. QED
        BY <1>1, <4>1, <4>3
    <3>2. ASSUME NEW p \in 1 .. Len(plans)
          PROVE  plans'[p].decision = plans[p].decision
      <4>1. plans[p] \in Plan
        BY <1>1, ElementOfSeq
      <4>2. \/ plans'[p] = plans[p]
            \/ plans'[p] = [plans[p] EXCEPT !.status = StatusFor[pending[2]]]
        BY <1>1, <2>3
      <4>3. QED
        BY <4>1, <4>2 DEF Plan
    <3>3. QED
      BY <1>1, <2>1, <3>1, <3>2 DEF RowsGrow
  <2>4. QED
    BY <2>1, <2>2, <2>3
<1>8. QED
  BY <1>2, <1>3, <1>4, <1>5, <1>6, <1>7, ChainSteps

LEMMA AscendStep ==
  ASSUME ChainConsistent, SimulationsAscend, [Next]_vars
  PROVE  SimulationsAscend'
<1>1. /\ proposals \in Seq(Proposal) /\ simulations \in Seq(Simulation)
      /\ Len(proposals) \in Nat
  BY DEF ChainConsistent, TypeOK
<1>2. CASE simulations' = simulations
  BY <1>2 DEF SimulationsAscend
<1>3. ASSUME NEW finding \in Findings, CreateSimulation(finding)
      PROVE  SimulationsAscend'
  <2> DEFINE row == [proposal |-> Len(proposals), finding |-> finding]
             last == Len(simulations) + 1
  <2>1. simulations' = Append(simulations, row)
    BY <1>3 DEF CreateSimulation
  <2>2. /\ DOMAIN simulations' = DOMAIN simulations \union {last}
        /\ \A s \in DOMAIN simulations : simulations'[s] = simulations[s]
        /\ simulations'[last] = row
        /\ DOMAIN simulations = 1 .. Len(simulations) /\ Len(simulations) \in Nat
    BY <1>1, <2>1, GrownTable
  <2>3. \A s \in DOMAIN simulations : simulations[s].proposal <= Len(proposals)
    BY <1>1 DEF ChainConsistent
  <2>4. row.proposal = Len(proposals)
    OBVIOUS
  <2> HIDE DEF row
  <2> SUFFICES ASSUME NEW s \in DOMAIN simulations', NEW t \in DOMAIN simulations',
                      s <= t
               PROVE  simulations'[s].proposal <= simulations'[t].proposal
    BY DEF SimulationsAscend
  <2>5. CASE t = last
    BY <1>1, <2>2, <2>3, <2>4, <2>5
  <2>6. CASE t \in DOMAIN simulations
    <3>1. s \in DOMAIN simulations
      BY <2>2, <2>6
    <3>2. QED
      BY <2>2, <2>6, <3>1 DEF SimulationsAscend
  <2>7. QED
    BY <2>2, <2>5, <2>6
<1>4. QED
  BY <1>2, <1>3, ChainSteps
     DEF CreateProposal, CreateDecision, CreateExecutionPlan, Settle, chain

Records == [Places -> Record \union {NoRecord}]

(* A row that is there is there in a longer table.                         *)
LEMMA RowStays ==
  ASSUME NEW row \in Nat, NEW before \in Nat, NEW after \in Nat,
         row <= before, before <= after
  PROVE  row <= after
  OBVIOUS

(* Records stay traceable as the tables grow.                              *)
LEMMA TraceableStays ==
  ASSUME TypeOK, TypeOK', RowsGrow, NEW rec \in Records,
         TraceableIn(rec, proposals, simulations, decisions, plans)
  PROVE  TraceableIn(rec, proposals', simulations', decisions', plans')
<1>1. /\ rec[7].output \in Nat /\ rec[8].output \in Nat
      /\ rec[9].output \in Nat /\ rec[10].output \in Nat
  <2>1. 7 \in Places /\ 8 \in Places /\ 9 \in Places /\ 10 \in Places
    BY DEF Places
  <2>2. \A p \in Places : rec[p].output \in Nat
    BY DEF Records, Record, NoRecord
  <2>3. QED
    BY <2>1, <2>2
<1>2. /\ Len(proposals) \in Nat /\ Len(simulations) \in Nat
      /\ Len(decisions) \in Nat /\ Len(plans) \in Nat
      /\ Len(proposals') \in Nat /\ Len(simulations') \in Nat
      /\ Len(decisions') \in Nat /\ Len(plans') \in Nat
  BY TablesTyped, TablesTypedAfter
<1>3. /\ rec[7].output <= Len(proposals) /\ rec[8].output <= Len(simulations)
      /\ rec[9].output <= Len(decisions) /\ rec[10].output <= Len(plans)
  BY DEF TraceableIn, RowsExist
<1>4. RowsExist(rec, proposals', simulations', decisions', plans')
  <2>1. /\ Len(proposals) <= Len(proposals')
        /\ Len(simulations) <= Len(simulations')
        /\ Len(decisions) <= Len(decisions') /\ Len(plans) <= Len(plans')
    BY DEF RowsGrow
  <2>2. rec[7].output <= Len(proposals')
    BY <1>1, <1>2, <1>3, <2>1, RowStays, Zenon
  <2>3. rec[8].output <= Len(simulations')
    BY <1>1, <1>2, <1>3, <2>1, RowStays, Zenon
  <2>4. rec[9].output <= Len(decisions')
    BY <1>1, <1>2, <1>3, <2>1, RowStays, Zenon
  <2>5. rec[10].output <= Len(plans')
    BY <1>1, <1>2, <1>3, <2>1, RowStays, Zenon
  <2>6. QED
    BY <2>2, <2>3, <2>4, <2>5 DEF TraceableIn, RowsExist
<1>5. /\ rec[8].output # 0 => rec[8].output \in 1 .. Len(simulations)
      /\ rec[9].output # 0 => rec[9].output \in 1 .. Len(decisions)
      /\ rec[10].output # 0 => rec[10].output \in 1 .. Len(plans)
  <2>1. ASSUME NEW n \in Nat, NEW r \in Nat, r <= n
        PROVE  r # 0 => r \in 1 .. n
    BY <2>1
  <2>2. QED
    BY <1>1, <1>2, <1>3, <2>1, Zenon
<1>6. RowsDescend(rec, simulations', decisions', plans')
  BY <1>5 DEF TraceableIn, RowsDescend, RowsGrow
<1>7. QED
  BY <1>4, <1>6 DEF TraceableIn

(* What the record of stage p has to be, over those of the stages before.  *)
RowFits(rec, p, new, ps, ss, ds, es) ==
    /\ p = 7 => new.output <= Len(ps)
    /\ p = 8 => /\ new.output <= Len(ss)
                /\ new.output # 0 => ss[new.output].proposal >= rec[7].output
    /\ p = 9 => /\ new.output <= Len(ds)
                /\ new.output # 0 =>
                       /\ ds[new.output].proposal >= rec[7].output
                       /\ ds[new.output].simulation >= rec[8].output
    /\ p = 10 => /\ new.output <= Len(es)
                 /\ new.status = "COMPLETED" => new.output # 0
                 /\ new.output # 0 => es[new.output].decision >= rec[9].output

LEMMA TraceableRecord ==
  ASSUME NEW rec \in Records, NEW p \in Places, NEW new \in Record,
         \A q \in Places : p < q => rec[q] = NoRecord,
         NEW ps, NEW ss, NEW ds, NEW es,
         Len(ps) \in Nat, Len(ss) \in Nat, Len(ds) \in Nat, Len(es) \in Nat,
         TraceableIn(rec, ps, ss, ds, es), RowFits(rec, p, new, ps, ss, ds, es)
  PROVE  TraceableIn([rec EXCEPT ![p] = new], ps, ss, ds, es)
<1> DEFINE now == [rec EXCEPT ![p] = new]
<1>1. /\ now[p] = new
      /\ \A q \in Places : q # p => now[q] = rec[q]
  BY DEF Records
<1>2. \A q \in {7, 8, 9, 10} : q \in Places
  BY DEF Places
<1> HIDE DEF now
<1>3. CASE p < 7
  <2>1. \A q \in {7, 8, 9, 10} : q \in Places /\ p < q /\ q # p
    BY <1>2, <1>3 DEF Places
  <2>2. now[7] = NoRecord /\ now[8] = NoRecord
    BY <1>1, <2>1
  <2>3. now[9] = NoRecord /\ now[10] = NoRecord
    BY <1>1, <2>1
  <2>4. QED
    BY <2>2, <2>3 DEF TraceableIn, RowsExist, RowsDescend, NoRecord, now
<1>4. CASE p = 7
  <2>1. now[7] = new /\ \A q \in {8, 9, 10} : now[q] = NoRecord
    BY <1>1, <1>2, <1>4 DEF Places
  <2>2. QED
    BY <1>4, <2>1 DEF TraceableIn, RowsExist, RowsDescend, RowFits, NoRecord, now
<1>5. CASE p = 8
  <2>1. /\ now[8] = new /\ now[7] = rec[7]
        /\ \A q \in {9, 10} : now[q] = NoRecord
    BY <1>1, <1>2, <1>5 DEF Places
  <2>2. QED
    BY <1>5, <2>1 DEF TraceableIn, RowsExist, RowsDescend, RowFits, NoRecord, now
<1>6. CASE p = 9
  <2>1. now[9] = new /\ now[7] = rec[7] /\ now[8] = rec[8] /\ now[10] = NoRecord
    BY <1>1, <1>2, <1>6 DEF Places
  <2>2. QED
    BY <1>6, <2>1 DEF TraceableIn, RowsExist, RowsDescend, RowFits, NoRecord, now
<1>7. CASE p = 10
  <2>1. now[10] = new /\ now[7] = rec[7] /\ now[8] = rec[8] /\ now[9] = rec[9]
    BY <1>1, <1>2, <1>7 DEF Places
  <2>2. QED
    BY <1>7, <2>1 DEF TraceableIn, RowsExist, RowsDescend, RowFits, NoRecord, now
<1>8. p < 7 \/ p = 7 \/ p = 8 \/ p = 9 \/ p = 10
  BY DEF Places
<1>9. QED
  BY <1>3, <1>4, <1>5, <1>6, <1>7, <1>8

(* The rows of the last stages fit the records below them: what a resumed  *)
(* stage takes as the latest row is the row on record or a later one.      *)
LEMMA LastRowsFit ==
  ASSUME ChainConsistent, TypeOK', RunTypeOK, InvocationAtWork, SimulationsAscend,
         step = "execute", LastRows, RowsGrow, result' \in Record,
         TraceableIn(records, proposals, simulations, decisions, plans)
  PROVE  RowFits(records, at, result', proposals', simulations', decisions', plans')
<1>1. /\ TypeOK /\ proposals \in Seq(Proposal) /\ simulations \in Seq(Simulation)
      /\ Len(proposals) \in Nat /\ Len(simulations) \in Nat /\ Len(decisions) \in Nat
      /\ Len(proposals') \in Nat /\ Len(simulations') \in Nat
      /\ Len(decisions') \in Nat /\ plans' \in Seq(Plan) /\ Len(plans') \in Nat
  BY TablesTyped, TablesTypedAfter DEF ChainConsistent
<1>2. \A p \in Places : records[p].output \in Nat
  BY DEF RunTypeOK, Record, NoRecord
<1>3. result'.output \in Nat
  BY DEF Record
<1>4. /\ records[7].output <= Len(proposals) /\ records[8].output <= Len(simulations)
      /\ records[9].output <= Len(decisions)
      /\ records[8].output # 0 =>
             simulations[records[8].output].proposal >= records[7].output
  BY DEF TraceableIn, RowsExist, RowsDescend
<1>5. 7 \in Places /\ 8 \in Places /\ 9 \in Places
  BY DEF Places
<1>6. CASE at = 7
  BY <1>1, <1>3, <1>6 DEF RowFits, LastRows
<1>7. CASE at = 8
  <2>1. result'.output <= Len(simulations')
    BY <1>1, <1>3, <1>7 DEF LastRows
  <2>2. result'.output # 0 =>
            simulations'[result'.output].proposal >= records[7].output
    BY <1>1, <1>2, <1>4, <1>5, <1>7 DEF LastRows
  <2>3. QED
    BY <1>7, <2>1, <2>2 DEF RowFits
<1>8. CASE at = 9
  <2>1. result'.output <= Len(decisions')
    BY <1>1, <1>3, <1>8 DEF LastRows
  <2>2. ASSUME result'.output # 0
        PROVE  /\ decisions'[result'.output].proposal >= records[7].output
               /\ decisions'[result'.output].simulation >= records[8].output
    <3>1. /\ result'.output = Len(decisions')
          /\ decisions'[Len(decisions')].proposal = Len(proposals)
      BY <1>8, <2>2 DEF LastRows
    <3>2. PICK s \in DOMAIN simulations :
              /\ IsLatestSimulation(s, Len(proposals))
              /\ decisions'[Len(decisions')].simulation = s
      BY <1>8, <2>2 DEF LastRows
    <3>3. s >= records[8].output
      <4> DEFINE r == records[8].output
      <4>1. r \in Nat /\ s \in 1 .. Len(simulations)
        BY <1>1, <1>2, <1>5
      <4>2. r <= Len(simulations)
        BY <1>4
      <4> HIDE DEF r
      <4>3. CASE r = 0
        BY <4>1, <4>3 DEF r
      <4>4. CASE r # 0 /\ s < r
        <5>1. r \in DOMAIN simulations /\ s \in DOMAIN simulations
          <6>1. DOMAIN simulations = 1 .. Len(simulations)
            BY <1>1
          <6>2. r \in 1 .. Len(simulations)
            BY <1>1, <4>1, <4>2, <4>4
          <6>3. QED
            BY <4>1, <6>1, <6>2
        <5>2. simulations[r].proposal \in DOMAIN proposals
          BY <5>1 DEF ChainConsistent
        <5>3. simulations[s].proposal <= simulations[r].proposal
          BY <1>1, <4>1, <4>4, <5>1 DEF SimulationsAscend
        <5>4. simulations[s].proposal = Len(proposals)
          BY <3>2 DEF IsLatestSimulation
        <5>5. simulations[r].proposal = Len(proposals)
          BY <1>1, <5>2, <5>3, <5>4
        <5>6. r <= s
          BY <3>2, <5>1, <5>5 DEF IsLatestSimulation
        <5>7. QED
          BY <4>1, <4>4, <5>6
      <4>5. QED
        BY <1>1, <4>1, <4>3, <4>4 DEF r
    <3>4. QED
      BY <1>1, <1>2, <1>4, <1>5, <3>1, <3>2, <3>3
  <2>3. QED
    BY <1>8, <2>1, <2>2 DEF RowFits
<1>9. CASE at = 10
  <2>1. /\ result'.status = "COMPLETED" => result'.output # 0
        /\ result'.output # 0 =>
               /\ result'.output \in DOMAIN plans'
               /\ plans'[result'.output].decision = Len(decisions)
    BY <1>9 DEF LastRows
  <2>2. result'.output <= Len(plans')
    BY <1>1, <1>3, <2>1
  <2>3. result'.output # 0 => plans'[result'.output].decision >= records[9].output
    BY <1>1, <1>2, <1>4, <1>5, <2>1
  <2>4. QED
    BY <1>9, <2>1, <2>2, <2>3 DEF RowFits
<1>10. QED
  BY <1>6, <1>7, <1>8, <1>9 DEF RowFits

LEMMA TraceableStep ==
  ASSUME ChainConsistent, TypeOK', RunTypeOK, InvocationAtWork,
         NothingAboveAnOpenStage, SimulationsAscend, Traceable, RowsGrow,
         [RunNext]_runVars
  PROVE  Traceable'
<1> USE DEF invocation, assessed
<1>1. TypeOK /\ records \in Records
  BY DEF ChainConsistent, RunTypeOK, Records
<1>2. TraceableIn(records, proposals', simulations', decisions', plans')
  BY <1>1, TraceableStays DEF Traceable
<1>3. CASE records' = records /\ step' # "record"
  BY <1>2, <1>3 DEF Traceable
<1>4. CASE OutsideStep
  <2>1. UNCHANGED <<records, step, at, result>>
    BY <1>4 DEF OutsideStep
  <2>2. ASSUME step = "record"
        PROVE  TraceableIn(Recorded, proposals', simulations', decisions', plans')
    <3>1. Recorded \in Records
      BY <1>1, <2>2 DEF Recorded, Records, InvocationAtWork
    <3>2. QED
      BY <1>1, <2>2, <3>1, TraceableStays DEF Traceable
  <2>3. QED
    BY <1>2, <2>1, <2>2 DEF Traceable, Recorded
<1>5. CASE StageReturned /\ LastRows
  <2>1. /\ step = "execute" /\ at \in Places /\ records' = records /\ at' = at
        /\ result' \in Record /\ records[at].status # "COMPLETED"
    BY <1>5 DEF StageReturned, InvocationAtWork
  <2>2. \A q \in Places : at < q => records[q] = NoRecord
    BY <2>1 DEF NothingAboveAnOpenStage
  <2>3. RowFits(records, at, result', proposals', simulations', decisions', plans')
    BY <1>5, <2>1, LastRowsFit DEF Traceable
  <2>4. /\ Len(proposals') \in Nat /\ Len(simulations') \in Nat
        /\ Len(decisions') \in Nat /\ Len(plans') \in Nat
    BY DEF TypeOK
  <2>5. TraceableIn([records EXCEPT ![at] = result'], proposals', simulations',
                    decisions', plans')
    BY <1>1, <1>2, <2>1, <2>2, <2>3, <2>4, TraceableRecord
  <2>6. QED
    BY <1>2, <2>1, <2>5 DEF Traceable, Recorded
<1>6. CASE SaveStage
  <2>1. /\ records' = Recorded /\ step = "record" /\ step' # "record"
        /\ UNCHANGED <<proposals, simulations, decisions, plans>>
    BY <1>6 DEF SaveStage, Recorded, vars, chain, execution
  <2>2. QED
    BY <2>1 DEF Traceable
<1>7. CASE InvokeCacheOnly
  BY <1>3, <1>7 DEF InvokeCacheOnly, Idle
<1>8. CASE Invoke \/ SaveRun \/ DryRunCrash
  BY <1>3, <1>8 DEF Invoke, SaveRun, DryRunCrash
<1>9. QED
  BY <1>1, <1>4, <1>5, <1>6, <1>7, <1>8, RunSteps

LEMMA CompletedRunStep ==
  ASSUME TypeOK, TypeOK', RunTypeOK, InvocationAtWork, Traceable, RowsGrow,
         PlanOfCompletedRun, [RunNext]_runVars
  PROVE  PlanOfCompletedRun'
<1> USE DEF invocation, assessed
<1>1. plans \in Seq(Plan) /\ plans' \in Seq(Plan) /\ Len(plans) <= Len(plans')
  BY DEF TypeOK, RowsGrow
<1>2. DOMAIN plans \subseteq DOMAIN plans'
  BY <1>1
<1>3. CASE UNCHANGED <<run, records>>
  BY <1>2, <1>3 DEF PlanOfCompletedRun
<1>4. CASE Invoke \/ InvokeCacheOnly
  BY <1>4 DEF Invoke, InvokeCacheOnly, PlanOfCompletedRun
<1>5. CASE SaveStage
  <2>1. run.status = "RUNNING" /\ run' = run
    BY <1>5 DEF SaveStage, InvocationAtWork
  <2>2. QED
    BY <2>1 DEF PlanOfCompletedRun
<1>6. CASE SaveRun
  <2>1. CASE at # End
    <3>1. run'.status \in {"BLOCKED", "FAILED"}
      BY <1>6, <2>1 DEF SaveRun, InvocationAtWork
    <3>2. QED
      BY <3>1 DEF PlanOfCompletedRun
  <2>2. CASE at = End
    <3>1. \A p \in Places : records[p].status = "COMPLETED"
      BY <1>6, <2>2 DEF SaveRun, InvocationAtWork, DoneBelow, Places, End
    <3>2. /\ records[10].status = "COMPLETED" /\ records[10].output \in Nat
      BY <3>1 DEF Places, RunTypeOK, Record, NoRecord
    <3>3. records[10].output # 0 /\ records[10].output <= Len(plans)
      BY <3>2 DEF Traceable, TraceableIn, RowsExist
    <3>4. records[10].output \in DOMAIN plans
      BY <1>1, <3>2, <3>3
    <3>5. run'.plan = records[10].output /\ records' = records
      BY <1>6, <2>2 DEF SaveRun
    <3>6. QED
      BY <1>2, <3>1, <3>4, <3>5 DEF PlanOfCompletedRun
  <2>3. QED
    BY <2>1, <2>2
<1>7. QED
  BY <1>3, <1>4, <1>5, <1>6, RunSteps DEF OutsideStep, StageReturned, DryRunCrash

LEMMA RunConsistentInit == RunInit => RunConsistent
<1> SUFFICES ASSUME RunInit PROVE RunConsistent
  OBVIOUS
<1>1. ChainConsistent
  BY ChainInit DEF RunInit
<1>2. RunTypeOK
  BY DEF RunInit, RunTypeOK, NoRun, NoRecord, NoFit, NoReason, Reasons, End
<1>3. InvocationAtWork /\ NothingAboveAnOpenStage /\ EffectsAccounted
  BY DEF RunInit, Init, InvocationAtWork, NothingAboveAnOpenStage,
         EffectsAccounted, Accounted, Terminal, NoRun, NoRecord
<1>4. SimulationsAscend /\ PlanOfCompletedRun
  BY DEF RunInit, Init, SimulationsAscend, PlanOfCompletedRun, NoRun
<1>5. Traceable
  <2>1. step # "record" /\ \A p \in {7, 8, 9, 10} : records[p] = NoRecord
    BY DEF RunInit, Places
  <2>2. /\ Len(proposals) = 0 /\ Len(simulations) = 0
        /\ Len(decisions) = 0 /\ Len(plans) = 0
    BY DEF RunInit, Init
  <2>3. QED
    BY <2>1, <2>2
       DEF Traceable, TraceableIn, RowsExist, RowsDescend, NoRecord
<1>6. QED
  BY <1>1, <1>2, <1>3, <1>4, <1>5 DEF RunConsistent

LEMMA RunConsistentStep == RunConsistent /\ [RunNext]_runVars => RunConsistent'
<1> SUFFICES ASSUME RunConsistent, [RunNext]_runVars PROVE RunConsistent'
  OBVIOUS
<1>1. /\ ChainConsistent /\ TypeOK /\ RunTypeOK /\ InvocationAtWork
      /\ NothingAboveAnOpenStage /\ EffectsAccounted /\ SimulationsAscend
      /\ Traceable /\ PlanOfCompletedRun
  BY DEF RunConsistent, ChainConsistent
<1>2. [Next]_vars \/ (TypeOK' /\ UNCHANGED <<chain, execution>> /\ QuietStep)
  BY <1>1, StepOfOpportunity DEF InvocationAtWork
<1>3. ChainConsistent' /\ SimulationsAscend' /\ RowsGrow
  <2>1. CASE [Next]_vars
    BY <1>1, <2>1, ChainStep, AscendStep, RowsGrown DEF ChainConsistent
  <2>2. CASE TypeOK' /\ UNCHANGED <<chain, execution>>
    <3>1. UNCHANGED <<proposals, simulations, decisions, plans>>
      BY <2>2 DEF chain, execution
    <3>2. ChainConsistent' /\ SimulationsAscend'
      BY <1>1, <2>2, <3>1
         DEF ChainConsistent, DecisionConsistent, PlanFromOneRevision,
             SimulationsAscend
    <3>3. /\ Len(proposals) \in Nat /\ Len(simulations) \in Nat
          /\ Len(decisions) \in Nat /\ Len(plans) \in Nat
      BY <1>1 DEF TypeOK
    <3>4. QED
      BY <3>1, <3>2, <3>3 DEF RowsGrow
  <2>3. QED
    BY <1>2, <2>1, <2>2
<1>4. TypeOK'
  BY <1>3 DEF ChainConsistent
<1>5. /\ RunTypeOK' /\ InvocationAtWork' /\ NothingAboveAnOpenStage'
      /\ EffectsAccounted'
  BY <1>1, <1>4, RunTypeStep, AtWorkStep, NothingAboveStep, EffectsStep
<1>6. Traceable' /\ PlanOfCompletedRun'
  BY <1>1, <1>3, <1>4, TraceableStep, CompletedRunStep
<1>7. QED
  BY <1>3, <1>5, <1>6 DEF RunConsistent

(* Every variable of the opportunity and of the run has its type while a   *)
(* dry run works on the opportunity, is cut off and is resumed, and while  *)
(* the operator works on it in between.                                    *)
THEOREM RunTypesHold == RunSpec => [](TypeOK /\ RunTypeOK)
<1>1. RunConsistent => TypeOK /\ RunTypeOK
  BY DEF RunConsistent, ChainConsistent
<1>2. QED
  BY <1>1, RunConsistentInit, RunConsistentStep, PTL DEF RunSpec

(* A plan joins one accepted decision, its simulation and its proposal     *)
(* also where a resumed dry run and the operator advanced the opportunity  *)
(* in turn.                                                                *)
THEOREM RunPlansFromOneRevision == RunSpec => []PlanFromOneRevision
<1>1. RunConsistent => PlanFromOneRevision
  BY DEF RunConsistent, ChainConsistent
<1>2. QED
  BY <1>1, RunConsistentInit, RunConsistentStep, PTL DEF RunSpec

(* No stage has an effect below a stage that is not completed, a completed *)
(* run has all its stages and a plan of an accepted decision, and a stage  *)
(* has its effect once and once more for each process death, for every     *)
(* number of deaths, failures, commands and rows.                          *)
THEOREM RunGoesOnceAndInOrder == RunSpec => []OnceAndInOrder
<1>1. RunConsistent => NothingBelowABlock
  <2> SUFFICES ASSUME RunConsistent PROVE NothingBelowABlock
    OBVIOUS
  <2>1. \A p, q \in Places :
            p < q /\ (records[q] # NoRecord \/ wrote[q] > 0)
                => records[p].status = "COMPLETED"
    BY DEF RunConsistent, NothingAboveAnOpenStage
  <2>2. ASSUME run.status = "COMPLETED"
        PROVE  /\ run.plan \in DOMAIN plans
               /\ \A p \in Places : records[p].status = "COMPLETED"
    BY <2>2 DEF RunConsistent, PlanOfCompletedRun
  <2>3. ASSUME NEW p \in DOMAIN plans
        PROVE  decisions[plans[p].decision].decision = "ACCEPT"
    <3>1. decisions[plans[p].decision] =
              [proposal |-> plans[p].proposal, simulation |-> plans[p].simulation,
               decision |-> "ACCEPT"]
      BY DEF RunConsistent, ChainConsistent, PlanFromOneRevision
    <3>2. QED
      BY <3>1
  <2>4. QED
    BY <2>1, <2>2, <2>3 DEF NothingBelowABlock
<1>2. RunConsistent => EffectRepeatedOnlyAfterCrash
  <2> SUFFICES ASSUME RunConsistent, NEW p \in Places PROVE wrote[p] <= 1 + crashes
    BY DEF EffectRepeatedOnlyAfterCrash
  <2>1. wrote[p] \in Nat /\ crashes \in Nat
    BY DEF RunConsistent, RunTypeOK, ChainConsistent, TypeOK
  <2>2. QED
    BY <2>1 DEF RunConsistent, EffectsAccounted
<1>3. QED
  BY <1>1, <1>2, RunConsistentInit, RunConsistentStep, PTL
     DEF RunSpec, OnceAndInOrder

(* The simulation, the decision and the plan a run has on record come from *)
(* no earlier revision than the rows recorded before them, whatever the    *)
(* operator proposed, simulated or decided between its invocations.        *)
THEOREM RunTakesNoEarlierRevision == RunSpec => []NeverAnEarlierRevision
<1>1. RunConsistent => NeverAnEarlierRevision
  BY DEF RunConsistent, Traceable, TraceableIn, RowsDescend, NeverAnEarlierRevision
<1>2. QED
  BY <1>1, RunConsistentInit, RunConsistentStep, PTL DEF RunSpec

(* A run that completed or that a policy blocked is never touched again.   *)
THEOREM EndedRunsStay == RunSpec => EndedStaysEnded
<1>1. ASSUME RunConsistent, [RunNext]_runVars, Ended
      PROVE  UNCHANGED <<run, records, wrote>>
  <2>1. step = "idle" /\ Terminal
    BY <1>1 DEF RunConsistent, InvocationAtWork, Ended, Terminal
  <2>2. TypeOK /\ RunTypeOK /\ InvocationAtWork /\ TypeOK'
    BY <1>1, RunConsistentStep DEF RunConsistent, ChainConsistent
  <2>3. CASE OutsideStep
    BY <2>3 DEF OutsideStep
  <2>4. ~ StageReturned /\ ~ SaveStage /\ ~ SaveRun /\ ~ DryRunCrash
    BY <2>1 DEF StageReturned, SaveStage, SaveRun, DryRunCrash
  <2>5. ~ Invoke /\ ~ InvokeCacheOnly
    BY <2>1 DEF Invoke, InvokeCacheOnly, Terminal
  <2>6. QED
    BY <1>1, <2>2, <2>3, <2>4, <2>5, RunSteps
<1>2. RunConsistent /\ [RunNext]_runVars
          => [Ended => UNCHANGED <<run, records, wrote>>]_runVars
  BY <1>1
<1>3. QED
  BY <1>2, RunConsistentInit, RunConsistentStep, PTL DEF RunSpec, EndedStaysEnded

(* What the dry run does to the execution tables, the lifecycle does.      *)
LEMMA RunReportsStep ==
  ASSUME RunConsistent, ReportsConsistent, [RunNext]_runVars
  PROVE  /\ ReportsConsistent'
         /\ RematerialisedForCause => RematerialisedForCause'
         /\ TablesKept /\ PlansKept /\ OutcomesKept
<1>1. TypeOK /\ RunTypeOK /\ (step = "execute" => pending = NoPending)
  BY DEF RunConsistent, ChainConsistent, InvocationAtWork
<1>2. CASE [Next]_vars
  BY <1>1, <1>2, ReportsStep, CauseStep, TablesOnlyGrow, RowsKept
<1>3. CASE TypeOK' /\ UNCHANGED <<chain, execution>> /\ QuietStep
  <2>1. UNCHANGED <<proposals, simulations, decisions, plans, confirmations, outcomes>>
    BY <1>3 DEF chain, execution
  <2>2. ReportsConsistent'
    BY <1>3, <2>1
       DEF QuietStep, ReportsConsistent, ReportedOnce, StatusAsReported,
           OutcomeOfExecution, SettleReported
  <2>3. RematerialisedForCause => RematerialisedForCause'
    BY <2>1 DEF RematerialisedForCause
  <2>4. TablesKept
    BY <1>1, <2>1, SameKeeps DEF TablesKept, TypeOK
  <2>5. PlansKept /\ OutcomesKept
    BY <2>1 DEF PlansKept, OutcomesKept
  <2>6. QED
    BY <2>2, <2>3, <2>4, <2>5
<1>4. QED
  BY <1>1, <1>2, <1>3, StepOfOpportunity

(* A stage that is repeated after a process death makes no second plan:    *)
(* under the dry run, too, a plan is made again only for another decision  *)
(* or other broker metadata.                                               *)
THEOREM RunPlansAreMadeForCause == RunSpec => []RematerialisedForCause
<1>1. RunInit => ReportsConsistent /\ RematerialisedForCause
  BY ReportsInit DEF RunInit, Init, RematerialisedForCause
<1>2. QED
  BY <1>1, RunReportsStep, RunConsistentInit, RunConsistentStep, PTL DEF RunSpec

(* The dry run and the operator between its invocations keep history: rows *)
(* are only appended, and nothing that was reported or closed is undone.   *)
THEOREM RunHistoryHeld == RunSpec => HistoryKept
<1>1. RunConsistent /\ ReportsConsistent /\ [RunNext]_runVars
          => [TablesKept /\ PlansKept /\ OutcomesKept]_vars
  BY RunReportsStep
<1>2. RunInit => ReportsConsistent
  BY ReportsInit DEF RunInit
<1>3. QED
  BY <1>1, <1>2, RunReportsStep, RunConsistentInit, RunConsistentStep, PTL
     DEF RunSpec, HistoryKept, TablesKept, PlansKept, OutcomesKept

(***************************************************************************)
(* No stage is skipped under a dry run either.  What its own record of the *)
(* gate says must still be true of the assessments when a later invocation *)
(* ranks or sizes on the strength of it.                                   *)
(***************************************************************************)

GateAnswered ==
    \/ records[4].status = "COMPLETED"
    \/ step = "record" /\ at = 4 /\ result.status = "COMPLETED"

GatePassed ==
    /\ runFit \in fits \union {NoFit} /\ laterFit \in fits \union {NoFit}
    /\ GateAnswered => "ADVANCE" \in fits

(* Assessments are only added.                                             *)
LEMMA FitsGrow ==
  ASSUME TypeOK, RunTypeOK, step = "execute" => pending = NoPending,
         [RunNext]_runVars
  PROVE  fits \subseteq fits'
<1> USE DEF opportunity, world, chain, execution
<1>1. CASE UNCHANGED vars \/ DeskCommand
  BY <1>1 DEF vars, DeskCommand, NewSnapshot, SaveInstrument, DeleteInstrument
<1>2. CASE AnalysisCommand
  <2>1. ASSUME NEW fit \in Fits, AssessPortfolioFit(fit) PROVE fits \subseteq fits'
    BY <2>1 DEF AssessPortfolioFit
  <2>2. ASSUME NEW fit \in Fits, NEW s \in SUBSET Instruments, SelectInstruments(fit, s)
        PROVE  fits' = fits
    BY <2>2 DEF SelectInstruments
  <2>3. ASSUME NEW i \in Instruments, NEW passed \in BOOLEAN, SizePosition(i, passed)
        PROVE  fits' = fits
    BY <2>3 DEF SizePosition
  <2>4. ASSUME NEW finding \in Findings, CreateSimulation(finding) PROVE fits' = fits
    BY <2>4 DEF CreateSimulation
  <2>5. CASE Refresh \/ CreateProposal \/ CreateDecision
    BY <2>5 DEF Refresh, CreateProposal, CreateDecision
  <2>6. QED
    BY <1>2, <2>1, <2>2, <2>3, <2>4, <2>5, Zenon DEF AnalysisCommand
<1>3. CASE ExecutionCommand
  <2>1. ASSUME NEW r \in Reports, Confirm(r) PROVE fits' = fits
    BY <2>1 DEF Confirm
  <2>2. ASSUME NEW b \in BOOLEAN, CreateOutcome(b) \/ CloseOutcome(b) PROVE fits' = fits
    BY <2>2 DEF CreateOutcome, CloseOutcome
  <2>3. CASE CreateExecutionPlan
    BY <2>3 DEF CreateExecutionPlan
  <2>4. QED
    BY <1>3, <2>1, <2>2, <2>3, Zenon DEF ExecutionCommand, ExitTimesAhead
<1>4. CASE Finish \/ Crash \/ DryRunCrash
  BY <1>4 DEF Finish, RefreshWaiting, Mark, Settle, Crash, DryRunCrash
<1>5. ASSUME NEW fit \in Fits, FilterPortfolio(fit) PROVE fits \subseteq fits'
  BY <1>5 DEF FilterPortfolio
<1>6. ASSUME NEW s \in SUBSET Instruments, RankInstruments(s) PROVE fits' = fits
  BY <1>6 DEF RankInstruments
<1>7. ASSUME NEW i \in Instruments, NEW passed \in BOOLEAN, SizeCandidate(i, passed)
      PROVE  fits' = fits
  BY <1>7 DEF SizeCandidate
<1>8. CASE [Next]_vars
  BY <1>1, <1>2, <1>3, <1>4, <1>8, Zenon DEF Next, Command
<1>9. QED
  BY <1>4, <1>5, <1>6, <1>7, <1>8, StepOfLifecycle

(* The assessment of the run and the operator's later one are stored.      *)
LEMMA AssessedStored ==
  ASSUME TypeOK, RunTypeOK, step = "execute" => pending = NoPending, GatePassed,
         [RunNext]_runVars
  PROVE  runFit' \in fits' \union {NoFit} /\ laterFit' \in fits' \union {NoFit}
<1>1. runFit \in fits' \union {NoFit} /\ laterFit \in fits' \union {NoFit}
  BY FitsGrow DEF GatePassed
<1>2. ASSUME NEW fit \in Fits, FilterPortfolio(fit)
      PROVE  runFit' \in fits' /\ laterFit' = laterFit
  BY <1>2 DEF FilterPortfolio
<1>3. ASSUME NEW fit \in Fits, NEW later \in BOOLEAN, OperatorAssessment(fit, later)
      PROVE  runFit' = runFit /\ laterFit' \in {fit, laterFit} /\ fit \in fits'
  BY <1>3 DEF OperatorAssessment, AssessPortfolioFit
<1>4. CASE UNCHANGED assessed
  BY <1>1, <1>4 DEF assessed
<1>5. CASE Execute
  <2>1. \/ UNCHANGED assessed
        \/ \E fit \in Fits : FilterPortfolio(fit)
    BY <1>5 DEF Execute, ValidateSelection, PrepareOpportunity, PassGate,
                RankInstruments, SizeCandidate, SizeNothing, ProposeTrade,
                SimulatePortfolio, DecideTrade, PlanExecution, Raise
  <2>2. QED
    BY <1>1, <1>2, <1>4, <2>1
<1>6. CASE Operator
  BY <1>1, <1>3, <1>4, <1>6 DEF Operator
<1>7. QED
  BY <1>4, <1>5, <1>6
     DEF RunNext, Invoke, InvokeCacheOnly, SaveStage, SaveRun, DryRunCrash, runVars,
         dryVars

LEMMA GatePassedStep ==
  ASSUME RunConsistent, GatePassed, [RunNext]_runVars
  PROVE  GatePassed'
<1>1. TypeOK /\ RunTypeOK /\ InvocationAtWork /\ TypeOK'
      /\ (step = "execute" => pending = NoPending)
  BY RunConsistentStep DEF RunConsistent, ChainConsistent, InvocationAtWork
<1>2. runFit' \in fits' \union {NoFit} /\ laterFit' \in fits' \union {NoFit}
  BY <1>1, AssessedStored
<1>3. fits \subseteq fits'
  BY <1>1, FitsGrow
<1>4. SUFFICES ASSUME GateAnswered' PROVE "ADVANCE" \in fits'
  BY <1>2 DEF GatePassed
<1>5. CASE OutsideStep
  BY <1>3, <1>4, <1>5 DEF OutsideStep, GatePassed, GateAnswered
<1>6. CASE Execute /\ StageReturned
  <2>1. records' = records /\ at' = at /\ step = "execute"
    BY <1>6 DEF StageReturned
  <2>2. CASE records[4].status = "COMPLETED"
    BY <1>3, <2>2 DEF GatePassed, GateAnswered
  <2>3. CASE at = 4 /\ result'.status = "COMPLETED"
    <3>1. StageOrder[at] = "PORTFOLIO_LIFECYCLE_GATE"
      BY <2>3 DEF StageOrder
    <3>2. PassGate
      BY <1>6, <2>3, <3>1
         DEF Execute, Executes, ValidateSelection, PrepareOpportunity, FilterPortfolio,
             RankInstruments, SizeCandidate, SizeNothing, ProposeTrade,
             SimulatePortfolio, DecideTrade, PlanExecution, Raise
    <3>3. GateOpen(GateFit)
      BY <2>3, <3>2 DEF PassGate, Blocks, Returns
    <3>4. GateFit = "ADVANCE" /\ GateFit \in {runFit, laterFit}
      BY <3>3 DEF GateOpen, GateFit
    <3>5. QED
      BY <1>3, <3>4 DEF GatePassed, NoFit
  <2>4. QED
    BY <1>4, <2>1, <2>2, <2>3 DEF GateAnswered
<1>7. CASE SaveStage
  <2>1. step = "record" /\ at \in Places /\ records' = [records EXCEPT ![at] = result]
        /\ step' # "record"
    BY <1>1, <1>7 DEF SaveStage, InvocationAtWork
  <2>2. records'[4].status = "COMPLETED"
    BY <1>4, <2>1 DEF GateAnswered
  <2>3. records'[4] = IF at = 4 THEN result ELSE records[4]
    BY <1>1, <2>1 DEF RunTypeOK, Places
  <2>4. QED
    BY <1>3, <2>1, <2>2, <2>3 DEF GatePassed, GateAnswered
<1>8. CASE Invoke \/ InvokeCacheOnly \/ SaveRun \/ DryRunCrash
  <2>1. records' = records /\ (step' # "record" \/ UNCHANGED <<step, at, result>>)
    BY <1>8 DEF Invoke, InvokeCacheOnly, SaveRun, DryRunCrash, invocation
  <2>2. QED
    BY <1>3, <1>4, <2>1 DEF GatePassed, GateAnswered
<1>9. QED
  BY <1>1, <1>5, <1>6, <1>7, <1>8, RunSteps

LEMMA RunBackedStep ==
  ASSUME RunConsistent, GatePassed, Backed, [RunNext]_runVars
  PROVE  Backed'
<1> USE DEF opportunity, world
<1>1. TypeOK /\ RunTypeOK /\ InvocationAtWork
      /\ (step = "execute" => pending = NoPending)
  BY DEF RunConsistent, ChainConsistent, InvocationAtWork
<1>2. CASE [Next]_vars
  BY <1>1, <1>2, BackedStep
<1>3. CASE DryRunCrash
  BY <1>3 DEF DryRunCrash, Backed, Marking, NoPending, Advanced, chain
<1>4. ASSUME NEW fit \in Fits, FilterPortfolio(fit) PROVE Backed'
  BY <1>4 DEF FilterPortfolio, Backed, Marking, Advanced, chain
<1>5. ASSUME Executes("INSTRUMENT_SELECTION") \/ Executes("POSITION_SIZING")
      PROVE  "ADVANCE" \in fits /\ pending = NoPending
  <2>1. at \in Places /\ at > 4
    BY <1>1, <1>5 DEF Executes, InvocationAtWork, StageOrder, Places
  <2>2. records[4].status = "COMPLETED"
    BY <1>1, <1>5, <2>1 DEF Executes, InvocationAtWork, DoneBelow, Places
  <2>3. QED
    BY <1>1, <1>5, <2>2 DEF GatePassed, GateAnswered, Executes
<1>6. ASSUME NEW s \in SUBSET Instruments, RankInstruments(s) PROVE Backed'
  <2>1. "ADVANCE" \in fits /\ pending = NoPending
    BY <1>5, <1>6 DEF RankInstruments
  <2>2. /\ UNCHANGED <<status, sizing, fits, proposals>>
        /\ pending' = <<"mark", "INSTRUMENTS_RANKED">> \/ pending' = pending
    BY <1>6 DEF RankInstruments, chain
  <2>3. ~ Marking("READY_FOR_PROPOSAL")'
    BY <2>1, <2>2 DEF Marking, NoPending
  <2>4. QED
    BY <2>1, <2>2, <2>3 DEF Backed
<1>7. ASSUME NEW i \in Instruments, NEW passed \in BOOLEAN, SizeCandidate(i, passed)
      PROVE  Backed'
  <2>1. "ADVANCE" \in fits /\ pending = NoPending
    BY <1>5, <1>7 DEF SizeCandidate
  <2>2. /\ UNCHANGED <<status, fits, proposals>>
        /\ sizing' = [instrument |-> i, passed |-> passed]
        /\ pending' = <<"mark", "POSITION_SIZED">> \/ pending' = pending
    BY <1>7 DEF SizeCandidate, chain
  <2>3. sizing' # NoSizing
    BY <2>2, LifecycleAssumption DEF NoSizing
  <2>4. ~ Marking("READY_FOR_PROPOSAL")'
    BY <2>1, <2>2 DEF Marking, NoPending
  <2>5. QED
    BY <2>1, <2>2, <2>3, <2>4 DEF Backed
<1>8. QED
  BY <1>1, <1>2, <1>3, <1>4, <1>6, <1>7, StepOfLifecycle

(* Also where stages of resumed dry runs and the operator's commands take  *)
(* turns, a ranked opportunity passed the gate, a sized one has a sizing,  *)
(* and one that is ready has a proposal.                                   *)
THEOREM RunStatusesAreBacked == RunSpec => []StatusBacked
<1>1. RunInit => Backed /\ GatePassed
  BY DEF RunInit, Init, Backed, Marking, Advanced, NoPending, GatePassed,
         GateAnswered, NoFit,
         NoRecord, Places
<1>2. Backed => StatusBacked
  BY DEF Backed, StatusBacked
<1>3. QED
  BY <1>1, <1>2, GatePassedStep, RunBackedStep, RunConsistentInit, RunConsistentStep,
     PTL DEF RunSpec

(* A dry run plans trades and does nothing else to one: until it has ended *)
(* no step of it, and none of the operator's between its invocations,      *)
(* reports, opens or closes a trade of the opportunity.                    *)
THEOREM RunKeepsPromise == RunSpec => ImplementsPromise
<1>1. ASSUME RunConsistent, ReportsConsistent, [RunNext]_runVars
      PROVE  [Promise!Next]_Trades
  <2>1. CASE [Next]_vars
    BY <1>1, <2>1, StepKeepsPromise
  <2>2. CASE UNCHANGED <<chain, execution>>
    <3>1. DOMAIN plans' = DOMAIN plans /\ UNCHANGED <<confirmations, outcomes>>
      BY <2>2 DEF execution
    <3>2. QED
      BY <3>1, StatusesAreNoTrades
  <2>3. TypeOK /\ RunTypeOK /\ (step = "execute" => pending = NoPending)
    BY <1>1 DEF RunConsistent, ChainConsistent, InvocationAtWork
  <2>4. QED
    BY <1>1, <2>1, <2>2, <2>3, StepOfOpportunity
<1>2. RunConsistent /\ ReportsConsistent /\ [RunNext]_runVars => [Promise!Next]_Trades
  BY <1>1
<1>3. RunInit => ReportsConsistent /\ Promise!Init
  BY ReportsInit, InitKeepsPromise DEF RunInit
<1>4. QED
  BY <1>2, <1>3, RunReportsStep, RunConsistentInit, RunConsistentStep, PTL
     DEF RunSpec, ImplementsPromise, Promise!Spec, Trades

(* A bound of the steps an invocation of the dry run may still take: each  *)
(* stage is executed, its second save is finished, and it is recorded.     *)
StepsLeft ==
    IF step = "idle" THEN 0
    ELSE 3 * (End - at)
         + (IF step = "execute" THEN 4
            ELSE (IF step = "close" THEN 1 ELSE 2)
                 + (IF pending = NoPending THEN 0 ELSE 1))

InvocationStep == \/ Execute \/ SaveStage \/ SaveRun
                  \/ step # "idle" /\ Finish /\ UNCHANGED dryVars

LEMMA InvocationShortens ==
  ASSUME RunConsistent, [RunNext]_runVars, InvocationStep
  PROVE  StepsLeft' < StepsLeft
<1>1. TypeOK /\ RunTypeOK /\ InvocationAtWork /\ TypeOK' /\ End = 11
  BY RunConsistentStep DEF RunConsistent, ChainConsistent, End
<1>2. at \in 0 .. 11 /\ (step \in {"execute", "record"} => at \in 1 .. 10)
  BY <1>1 DEF RunTypeOK, InvocationAtWork, Places
<1>3. CASE Execute
  <2>1. step = "execute" /\ step' = "record" /\ at' = at
    <3>1. step = "execute"
      BY <1>3 DEF Execute, ValidateSelection, PrepareOpportunity, FilterPortfolio,
                  PassGate, RankInstruments, SizeCandidate, SizeNothing, ProposeTrade,
                  SimulatePortfolio, DecideTrade, PlanExecution, Raise, Executes
    <3>2. at \in Places
      BY <1>1, <3>1 DEF InvocationAtWork
    <3>3. QED
      BY <1>1, <1>3, <3>2, ExecutedStage DEF StageReturned
  <2>2. QED
    BY <1>1, <1>2, <2>1 DEF StepsLeft
<1>4. CASE SaveStage
  <2>1. /\ step = "record" /\ pending = NoPending /\ pending' = pending
        /\ \/ at' = at + 1 /\ step' = IF at = 10 THEN "close" ELSE "execute"
           \/ at' = at /\ step' = "close"
    BY <1>4 DEF SaveStage, vars
  <2>2. QED
    BY <1>1, <1>2, <2>1 DEF StepsLeft
<1>5. CASE SaveRun
  <2>1. step = "close" /\ step' = "idle"
    BY <1>5 DEF SaveRun
  <2>2. QED
    BY <1>1, <1>2, <2>1 DEF StepsLeft
<1>6. CASE step # "idle" /\ Finish /\ UNCHANGED dryVars
  <2>1. pending # NoPending /\ pending' = NoPending
    BY <1>6 DEF Finish, RefreshWaiting, Mark, Settle, NoPending
  <2>2. step' = step /\ at' = at
    BY <1>6 DEF dryVars, invocation
  <2>3. step \in {"record", "close"}
    BY <1>1, <1>6, <2>1 DEF RunTypeOK, InvocationAtWork
  <2>4. QED
    BY <1>1, <1>2, <2>1, <2>2, <2>3 DEF StepsLeft
<1>7. QED
  BY <1>3, <1>4, <1>5, <1>6 DEF InvocationStep

(* An invocation of the dry run takes 34 steps at most, whatever its       *)
(* stages answer and however often the lifecycle raises.                   *)
THEOREM RunInvocationsAreBounded ==
  RunSpec => [](StepsLeft \in 0 .. 34) /\ [][InvocationStep => StepsLeft' < StepsLeft]_runVars
<1>1. ASSUME RunConsistent PROVE StepsLeft \in 0 .. 34
  <2>1. End = 11 /\ at \in 0 .. 11
        /\ (step # "idle" => at # 0)
    BY <1>1 DEF RunConsistent, RunTypeOK, InvocationAtWork, End
  <2>2. QED
    BY <2>1 DEF StepsLeft
<1>2. RunConsistent /\ [RunNext]_runVars => [InvocationStep => StepsLeft' < StepsLeft]_runVars
  BY InvocationShortens
<1>3. QED
  BY <1>1, <1>2, RunConsistentInit, RunConsistentStep, PTL DEF RunSpec
===============================================================================
