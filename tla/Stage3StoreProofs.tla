-------------------------- MODULE Stage3StoreProofs --------------------------
(***************************************************************************)
(* Proofs about Stage3Store, for any number of rows, snapshots, fills and  *)
(* ids.                                                                    *)
(*                                                                         *)
(* The run's properties walk chains of rows; none of them is inductive.    *)
(* What is: every stored row still passes the checks its save method made  *)
(* (Backed), because rows are only added, a re-saved row keeps its links,  *)
(* and what may be deleted, an instrument, is no link of a check that      *)
(* stays.                                                                  *)
(***************************************************************************)
EXTENDS Stage3Store, TLAPS

Minted ==
    /\ scope \in Scopes
    /\ DOMAIN opportunities \subseteq scope["opportunities"]
PlanBacked == \A e \in DOMAIN plans : PlanMatches(plans[e])
OutcomeBacked ==
    /\ \A x \in DOMAIN outcomes : OutcomeMatches(outcomes[x])
    /\ \A x, y \in DOMAIN outcomes : outcomes[x].plan = outcomes[y].plan => x = y

Backed == Minted /\ ResearchBacked /\ PortfolioBacked /\ DecisionBacked /\ PlanBacked
          /\ OutcomeBacked

(* The tables a step may change, by the part of the program that steps.    *)
PortfolioTables == <<portfolio, opportunities, fits>>
TradeTables == <<chain, execution, instruments>>

LEMMA PortfolioOnly ==
    ASSUME PortfolioNext
    PROVE  UNCHANGED <<scope, discovery, TradeTables>>
  BY DEF PortfolioNext, SaveAccountState, SavePortfolioSnapshot, SavePortfolioRiskState,
         SaveTradeOpportunity, SavePortfolioFit, portfolio, discovery, chain, execution,
         TradeTables

LEMMA DiscoveryOnly ==
    ASSUME DiscoveryNext
    PROVE  UNCHANGED <<scope, PortfolioTables, TradeTables>>
  BY DEF DiscoveryNext, SaveAIInference, SaveMarketScan, SaveScanCandidate,
         SaveOpportunityResearch, portfolio, discovery, chain, execution, TradeTables,
         PortfolioTables

LEMMA TradeOnly ==
    ASSUME TradeNext
    PROVE  UNCHANGED <<scope, discovery, PortfolioTables>>
  BY DEF TradeNext, SaveFinecoInstrument, DeleteFinecoInstrument, SaveTradeProposal,
         SavePortfolioSimulation, SaveCioDecision, SaveExecutionPlan,
         SaveOperatorConfirmation, SaveTradeOutcome, portfolio, discovery, chain, execution,
         PortfolioTables

(* Every stored candidate and piece of research keeps its parents.         *)
LEMMA DiscoveryKeepsResearch ==
    ASSUME ResearchBacked, DiscoveryNext
    PROVE  ResearchBacked'
  <1>1. ASSUME NEW i, NEW c, SaveAIInference(i, c)
        PROVE  ResearchBacked'
    BY <1>1 DEF SaveAIInference, ResearchBacked, ResearchMatches, Is
  <1>2. ASSUME NEW m, NEW c, SaveMarketScan(m, c)
        PROVE  ResearchBacked'
    BY <1>2 DEF SaveMarketScan, ResearchBacked, ResearchMatches, Is, New, Put
  <1>3. ASSUME NEW k, NEW m, NEW v, NEW c, SaveScanCandidate(k, m, v, c)
        PROVE  ResearchBacked'
    <2> DEFINE row == [scan |-> m, ticker |-> v, context |-> c]
    <2>1. k \notin DOMAIN candidates /\ m \in DOMAIN scans /\ candidates' = Put(candidates, k, row)
          /\ UNCHANGED <<scans, research>>
      BY <1>3 DEF SaveScanCandidate, New, Is
    <2> HIDE DEF row
    <2>2. /\ DOMAIN candidates' = DOMAIN candidates \union {k} /\ candidates'[k] = row
          /\ \A x \in DOMAIN candidates : candidates'[x] = candidates[x]
      BY <2>1 DEF Put
    <2>3. row.scan = m
      BY DEF row
    <2> QED BY <2>1, <2>2, <2>3 DEF ResearchBacked, ResearchMatches, Is
  <1>4. ASSUME NEW x, NEW row, SaveOpportunityResearch(x, row)
        PROVE  ResearchBacked'
    <2>1. /\ x \notin DOMAIN research /\ research' = Put(research, x, row)
          /\ row.candidate \in DOMAIN candidates /\ ResearchMatches(row, candidates[row.candidate])
          /\ UNCHANGED <<scans, candidates>>
      BY <1>4 DEF SaveOpportunityResearch, New, Is
    <2>2. /\ DOMAIN research' = DOMAIN research \union {x} /\ research'[x] = row
          /\ \A y \in DOMAIN research : research'[y] = research[y]
      BY <2>1 DEF Put
    <2> QED BY <2>1, <2>2 DEF ResearchBacked, ResearchMatches, Is
  <1> QED BY <1>1, <1>2, <1>3, <1>4 DEF DiscoveryNext

(* Steps elsewhere leave a part alone when they leave its tables alone.    *)
LEMMA ResearchUntouched ==
    ASSUME ResearchBacked, UNCHANGED discovery
    PROVE  ResearchBacked'
  BY DEF ResearchBacked, ResearchMatches, Is, discovery

LEMMA PortfolioUntouched ==
    ASSUME PortfolioBacked, UNCHANGED PortfolioTables
    PROVE  PortfolioBacked'
  BY DEF PortfolioBacked, FitMatches, Is, portfolio, PortfolioTables

(* Snapshots, risk states and fits keep what they refer to.                *)
LEMMA PortfolioKeepsPortfolio ==
    ASSUME PortfolioBacked, PortfolioNext
    PROVE  PortfolioBacked'
  <1>1. ASSUME NEW a, SaveAccountState(a)
        PROVE  PortfolioBacked'
    BY <1>1 DEF SaveAccountState, PortfolioBacked, FitMatches, Is
  <1>2. ASSUME NEW s, NEW a \in Optional("accounts"), SavePortfolioSnapshot(s, a)
        PROVE  PortfolioBacked'
    <2> DEFINE row == [account |-> a]
    <2>1. /\ s \notin DOMAIN snapshots /\ snapshots' = Put(snapshots, s, row)
          /\ a \in accounts \union {None}
          /\ UNCHANGED <<accounts, riskStates, opportunities, fits>>
      BY <1>2 DEF SavePortfolioSnapshot, New, Is
    <2>2. row.account = a
      OBVIOUS
    <2> HIDE DEF row
    <2>3. /\ DOMAIN snapshots' = DOMAIN snapshots \union {s} /\ snapshots'[s] = row
          /\ \A x \in DOMAIN snapshots : snapshots'[x] = snapshots[x]
      BY <2>1 DEF Put
    <2> QED BY <2>1, <2>2, <2>3 DEF PortfolioBacked, FitMatches, Is
  <1>3. ASSUME NEW r, NEW s, SavePortfolioRiskState(r, s)
        PROVE  PortfolioBacked'
    <2> DEFINE row == [snapshot |-> s]
    <2>1. /\ r \notin DOMAIN riskStates /\ riskStates' = Put(riskStates, r, row)
          /\ s \in DOMAIN snapshots
          /\ UNCHANGED <<accounts, snapshots, opportunities, fits>>
      BY <1>3 DEF SavePortfolioRiskState, New, Is
    <2>2. row.snapshot = s
      OBVIOUS
    <2> HIDE DEF row
    <2>3. /\ DOMAIN riskStates' = DOMAIN riskStates \union {r} /\ riskStates'[r] = row
          /\ \A x \in DOMAIN riskStates : riskStates'[x] = riskStates[x]
      BY <2>1 DEF Put
    <2> QED BY <2>1, <2>2, <2>3 DEF PortfolioBacked, FitMatches, Is
  <1>4. ASSUME NEW o, NEW s, NEW v, SaveTradeOpportunity(o, s, v)
        PROVE  PortfolioBacked'
    <2> DEFINE row == [snapshot |-> s, view |-> v]
    <2>1. /\ o \notin DOMAIN opportunities /\ opportunities' = Put(opportunities, o, row)
          /\ UNCHANGED <<accounts, snapshots, riskStates, fits>>
      BY <1>4 DEF SaveTradeOpportunity, New, Is, portfolio
    <2> HIDE DEF row
    <2>2. /\ DOMAIN opportunities' = DOMAIN opportunities \union {o}
          /\ \A x \in DOMAIN opportunities : opportunities'[x] = opportunities[x]
      BY <2>1 DEF Put
    <2> QED BY <2>1, <2>2 DEF PortfolioBacked, FitMatches, Is
  <1>5. ASSUME NEW x, NEW row, SavePortfolioFit(x, row)
        PROVE  PortfolioBacked'
    <2>1. /\ x \notin DOMAIN fits /\ fits' = Put(fits, x, row) /\ FitMatches(row)
          /\ UNCHANGED <<accounts, snapshots, riskStates, opportunities>>
      BY <1>5 DEF SavePortfolioFit, New, Is, portfolio
    <2>2. /\ DOMAIN fits' = DOMAIN fits \union {x} /\ fits'[x] = row
          /\ \A y \in DOMAIN fits : fits'[y] = fits[y]
      BY <2>1 DEF Put
    <2> QED BY <2>1, <2>2 DEF PortfolioBacked, FitMatches, Is
  <1> QED BY <1>1, <1>2, <1>3, <1>4, <1>5 DEF PortfolioNext

(* What the portfolio's commands add to the tables that plans refer to.    *)
LEMMA PortfolioGrows ==
    ASSUME PortfolioNext
    PROVE  /\ DOMAIN snapshots \subseteq DOMAIN snapshots'
           /\ DOMAIN opportunities \subseteq DOMAIN opportunities'
  BY DEF PortfolioNext, SaveAccountState, SavePortfolioSnapshot, SavePortfolioRiskState,
         SaveTradeOpportunity, SavePortfolioFit, portfolio, Put

LEMMA PortfolioKeepsTrade ==
    ASSUME DecisionBacked, PlanBacked, OutcomeBacked, PortfolioNext
    PROVE  DecisionBacked' /\ PlanBacked' /\ OutcomeBacked'
  <1>1. UNCHANGED <<proposals, simulations, decisions, plans, confirmations, outcomes>>
    BY PortfolioOnly DEF TradeTables, chain, execution
  <1>2. DecisionBacked'
    BY <1>1, PortfolioGrows DEF DecisionBacked, SimulationMatches, DecisionMatches, Is
  <1>3. PlanBacked'
    BY <1>1, PortfolioGrows DEF PlanBacked, PlanMatches, PlanFindsItsRows, Is
  <1>4. OutcomeBacked'
    BY <1>1 DEF OutcomeBacked, OutcomeMatches, OutcomeMatchesLoosely, Links, Is
  <1> QED BY <1>2, <1>3, <1>4

LEMMA TradeUntouched ==
    ASSUME DecisionBacked, PlanBacked, OutcomeBacked,
           UNCHANGED <<snapshots, opportunities, proposals, simulations, decisions, plans,
                       confirmations, outcomes>>
    PROVE  DecisionBacked' /\ PlanBacked' /\ OutcomeBacked'
  BY DEF DecisionBacked, SimulationMatches, DecisionMatches, PlanBacked, PlanMatches,
         PlanFindsItsRows, OutcomeBacked, OutcomeMatches, OutcomeMatchesLoosely, Links, Is

(* Proposals, simulations, decisions, plans and outcomes, step by step.    *)
TradeBacked == DecisionBacked /\ PlanBacked /\ OutcomeBacked

LEMMA ProposalKeeps ==
    ASSUME TradeBacked, NEW p, NEW row, SaveTradeProposal(p, row)
    PROVE  TradeBacked'
  <1>1. /\ p \notin DOMAIN proposals /\ proposals' = Put(proposals, p, row)
        /\ UNCHANGED <<snapshots, opportunities, simulations, decisions, plans, confirmations,
                       outcomes>>
    BY DEF SaveTradeProposal, New, Is, portfolio, execution
  <1>2. /\ DOMAIN proposals' = DOMAIN proposals \union {p}
        /\ \A x \in DOMAIN proposals : proposals'[x] = proposals[x]
    BY <1>1 DEF Put
  <1>3. DecisionBacked'
    BY <1>1, <1>2 DEF TradeBacked, DecisionBacked, SimulationMatches, DecisionMatches, Is
  <1>4. PlanBacked'
    BY <1>1, <1>2 DEF TradeBacked, PlanBacked, PlanMatches, PlanFindsItsRows, Is
  <1>5. OutcomeBacked'
    BY <1>1 DEF TradeBacked, OutcomeBacked, OutcomeMatches, OutcomeMatchesLoosely, Links, Is
  <1> QED BY <1>3, <1>4, <1>5 DEF TradeBacked

LEMMA SimulationKeeps ==
    ASSUME TradeBacked, NEW s, NEW row, SavePortfolioSimulation(s, row)
    PROVE  TradeBacked'
  <1>1. /\ s \notin DOMAIN simulations /\ simulations' = Put(simulations, s, row)
        /\ SimulationMatches(row)
        /\ UNCHANGED <<snapshots, opportunities, proposals, decisions, plans, confirmations,
                       outcomes>>
    BY DEF SavePortfolioSimulation, New, Is, portfolio, execution
  <1>2. /\ DOMAIN simulations' = DOMAIN simulations \union {s} /\ simulations'[s] = row
        /\ \A x \in DOMAIN simulations : simulations'[x] = simulations[x]
    BY <1>1 DEF Put
  <1>3. DecisionBacked'
    BY <1>1, <1>2 DEF TradeBacked, DecisionBacked, SimulationMatches, DecisionMatches, Is
  <1>4. PlanBacked'
    BY <1>1, <1>2 DEF TradeBacked, PlanBacked, PlanMatches, PlanFindsItsRows, Is
  <1>5. OutcomeBacked'
    BY <1>1 DEF TradeBacked, OutcomeBacked, OutcomeMatches, OutcomeMatchesLoosely, Links, Is
  <1> QED BY <1>3, <1>4, <1>5 DEF TradeBacked

LEMMA DecisionKeeps ==
    ASSUME TradeBacked, NEW d, NEW row, SaveCioDecision(d, row)
    PROVE  TradeBacked'
  <1>1. /\ d \notin DOMAIN decisions /\ decisions' = Put(decisions, d, row)
        /\ DecisionMatches(row)
        /\ UNCHANGED <<snapshots, opportunities, proposals, simulations, plans, confirmations,
                       outcomes>>
    BY DEF SaveCioDecision, New, Is, portfolio, execution
  <1>2. /\ DOMAIN decisions' = DOMAIN decisions \union {d} /\ decisions'[d] = row
        /\ \A x \in DOMAIN decisions : decisions'[x] = decisions[x]
    BY <1>1 DEF Put
  <1>3. DecisionBacked'
    BY <1>1, <1>2 DEF TradeBacked, DecisionBacked, SimulationMatches, DecisionMatches, Is
  <1>4. PlanBacked'
    BY <1>1, <1>2 DEF TradeBacked, PlanBacked, PlanMatches, PlanFindsItsRows, Is
  <1>5. OutcomeBacked'
    BY <1>1 DEF TradeBacked, OutcomeBacked, OutcomeMatches, OutcomeMatchesLoosely, Links, Is
  <1> QED BY <1>3, <1>4, <1>5 DEF TradeBacked

(* A plan saved again has another status and the same links.               *)
LEMMA PlanKeeps ==
    ASSUME TradeBacked, NEW e, NEW row, SaveExecutionPlan(e, row)
    PROVE  TradeBacked'
  <1>1. /\ plans' = Put(plans, e, row) /\ PlanMatches(row)
        /\ UNCHANGED <<snapshots, opportunities, proposals, simulations, decisions,
                       confirmations, outcomes>>
    BY DEF SaveExecutionPlan, portfolio, chain
  <1>2. /\ DOMAIN plans' = DOMAIN plans \union {e} /\ plans'[e] = row
        /\ \A x \in DOMAIN plans : x # e => plans'[x] = plans[x]
    BY <1>1 DEF Put
  <1>3. \A x \in DOMAIN plans : Links(plans'[x]) = Links(plans[x])
    <2>1. CASE e \notin DOMAIN plans
      BY <2>1, <1>2
    <2>2. CASE e \in DOMAIN plans
      <3>1. row = [plans[e] EXCEPT !.settled = TRUE]
        BY <2>2 DEF SaveExecutionPlan, New, Is
      <3>2. Links(row) = Links(plans[e])
        BY <3>1 DEF Links
      <3> QED BY <3>2, <1>2
    <2> QED BY <2>1, <2>2
  <1>4. DecisionBacked'
    BY <1>1 DEF TradeBacked, DecisionBacked, SimulationMatches, DecisionMatches, Is
  <1>5. PlanBacked'
    BY <1>1, <1>2 DEF TradeBacked, PlanBacked, PlanMatches, PlanFindsItsRows, Is
  <1>6. OutcomeBacked'
    <2>1. \A x \in DOMAIN outcomes : OutcomeMatches(outcomes[x])'
      <3> SUFFICES ASSUME NEW x \in DOMAIN outcomes
                   PROVE  OutcomeMatches(outcomes[x])'
        OBVIOUS
      <3>1. OutcomeMatches(outcomes[x])
        BY DEF TradeBacked, OutcomeBacked
      <3>2. /\ outcomes[x].plan \in DOMAIN plans
            /\ Links(outcomes[x]) = Links(plans[outcomes[x].plan])
        BY <3>1 DEF OutcomeMatches, OutcomeMatchesLoosely, Is
      <3>3. /\ outcomes[x].plan \in DOMAIN plans'
            /\ Links(outcomes[x]) = Links(plans'[outcomes[x].plan])
        BY <3>2, <1>2, <1>3
      <3> QED BY <3>1, <3>3, <1>1 DEF OutcomeMatches, OutcomeMatchesLoosely, Is, Links
    <2> QED BY <2>1, <1>1 DEF TradeBacked, OutcomeBacked
  <1> QED BY <1>4, <1>5, <1>6 DEF TradeBacked

LEMMA ConfirmationKeeps ==
    ASSUME TradeBacked, NEW c, NEW e, NEW fill, SaveOperatorConfirmation(c, e, fill)
    PROVE  TradeBacked'
  <1> DEFINE row == [plan |-> e, fill |-> fill]
  <1>1. /\ c \notin DOMAIN confirmations /\ confirmations' = Put(confirmations, c, row)
        /\ UNCHANGED <<snapshots, opportunities, proposals, simulations, decisions, plans,
                       outcomes>>
    BY DEF SaveOperatorConfirmation, New, Is, portfolio, chain
  <1> HIDE DEF row
  <1>2. /\ DOMAIN confirmations' = DOMAIN confirmations \union {c}
        /\ \A x \in DOMAIN confirmations : confirmations'[x] = confirmations[x]
    BY <1>1 DEF Put
  <1>3. DecisionBacked' /\ PlanBacked'
    BY <1>1 DEF TradeBacked, DecisionBacked, SimulationMatches, DecisionMatches, PlanBacked,
                PlanMatches, PlanFindsItsRows, Is
  <1>4. OutcomeBacked'
    BY <1>1, <1>2 DEF TradeBacked, OutcomeBacked, OutcomeMatches, OutcomeMatchesLoosely, Links,
                      Is
  <1> QED BY <1>3, <1>4 DEF TradeBacked

(* An outcome is new to its plan, or is the plan's own saved again.        *)
LEMMA OutcomeKeeps ==
    ASSUME TradeBacked, NEW x, NEW row, SaveTradeOutcome(x, row)
    PROVE  TradeBacked'
  <1>1. /\ outcomes' = Put(outcomes, x, row) /\ OutcomeMatches(row)
        /\ \A y \in DOMAIN outcomes : outcomes[y].plan = row.plan => y = x
        /\ UNCHANGED <<snapshots, opportunities, proposals, simulations, decisions, plans,
                       confirmations>>
    BY DEF SaveTradeOutcome, OutcomesOfPlan, portfolio, chain
  <1>2. /\ DOMAIN outcomes' = DOMAIN outcomes \union {x} /\ outcomes'[x] = row
        /\ \A y \in DOMAIN outcomes : y # x => outcomes'[y] = outcomes[y]
    BY <1>1 DEF Put
  <1>3. DecisionBacked' /\ PlanBacked'
    BY <1>1 DEF TradeBacked, DecisionBacked, SimulationMatches, DecisionMatches, PlanBacked,
                PlanMatches, PlanFindsItsRows, Is
  <1>4. \A y \in DOMAIN outcomes' : OutcomeMatches(outcomes[y])'
    BY <1>1, <1>2 DEF TradeBacked, OutcomeBacked, OutcomeMatches, OutcomeMatchesLoosely, Links,
                      Is
  <1>5. \A y, z \in DOMAIN outcomes' : outcomes'[y].plan = outcomes'[z].plan => y = z
    BY <1>1, <1>2 DEF TradeBacked, OutcomeBacked
  <1> QED BY <1>3, <1>4, <1>5 DEF TradeBacked, OutcomeBacked

LEMMA TradeKeepsTrade ==
    ASSUME TradeBacked, TradeNext
    PROVE  TradeBacked'
  <1>1. ASSUME NEW i, SaveFinecoInstrument(i) \/ DeleteFinecoInstrument(i)
        PROVE  TradeBacked'
    BY <1>1, TradeUntouched DEF SaveFinecoInstrument, DeleteFinecoInstrument, TradeBacked,
       portfolio, chain, execution
  <1> QED BY <1>1, ProposalKeeps, SimulationKeeps, DecisionKeeps, PlanKeeps, ConfirmationKeeps,
             OutcomeKeeps DEF TradeNext

(* Opportunities are stored under ids, and None is none.                   *)
LEMMA MintedKept ==
    ASSUME Minted, PortfolioNext
    PROVE  Minted'
  BY PortfolioOnly DEF Minted, PortfolioNext, SaveAccountState, SavePortfolioSnapshot,
     SavePortfolioRiskState, SaveTradeOpportunity, SavePortfolioFit, New, Is, Put, Ids

LEMMA BackedInit == Init => Backed
  BY DEF Init, Empty, Backed, Minted, ResearchBacked, PortfolioBacked, DecisionBacked,
         PlanBacked, OutcomeBacked

LEMMA BackedNext == Backed /\ [Next]_vars => Backed'
  <1> SUFFICES ASSUME Backed, [Next]_vars
               PROVE  Backed'
    OBVIOUS
  <1>1. CASE PortfolioNext
    <2>1. UNCHANGED discovery
      BY <1>1, PortfolioOnly
    <2> QED BY <1>1, <2>1, PortfolioKeepsPortfolio, PortfolioKeepsTrade, ResearchUntouched,
               MintedKept DEF Backed
  <1>2. CASE DiscoveryNext
    <2>1. UNCHANGED <<scope, PortfolioTables, TradeTables>>
      BY <1>2, DiscoveryOnly
    <2>2. UNCHANGED <<snapshots, opportunities, proposals, simulations, decisions, plans,
                      confirmations, outcomes>>
      BY <2>1 DEF PortfolioTables, TradeTables, portfolio, chain, execution
    <2>3. Minted'
      BY <2>1, <2>2 DEF Backed, Minted
    <2> QED BY <1>2, <2>1, <2>2, <2>3, DiscoveryKeepsResearch, PortfolioUntouched,
               TradeUntouched DEF Backed
  <1>3. CASE TradeNext
    <2>1. UNCHANGED <<scope, discovery, PortfolioTables>>
      BY <1>3, TradeOnly
    <2>2. Minted'
      BY <2>1 DEF Backed, Minted, PortfolioTables
    <2>3. ResearchBacked' /\ PortfolioBacked'
      BY <2>1, ResearchUntouched, PortfolioUntouched DEF Backed
    <2>4. TradeBacked'
      BY <1>3, TradeKeepsTrade DEF Backed, TradeBacked
    <2> QED BY <2>2, <2>3, <2>4 DEF Backed, TradeBacked
  <1>4. CASE UNCHANGED vars
    <2>1. UNCHANGED <<scope, discovery, PortfolioTables, snapshots, opportunities, proposals,
                      simulations, decisions, plans, confirmations, outcomes>>
      BY <1>4 DEF vars, portfolio, discovery, chain, execution, PortfolioTables
    <2> QED BY <2>1, ResearchUntouched, PortfolioUntouched, TradeUntouched
            DEF Backed, Minted
  <1> QED BY <1>1, <1>2, <1>3, <1>4 DEF Next

(* Every stored row keeps passing the checks of the method that saved it.  *)
THEOREM EveryRowBacked == Spec => []Backed
  <1> QED BY BackedInit, BackedNext, PTL DEF Spec

(* Every trade outcome tells one story (save_trade_outcome and the saves   *)
(* of the rows behind it).                                                 *)
THEOREM OutcomesTellOneStory == Spec => []OneStory
  <1>1. Backed => OneStory
    <2> SUFFICES ASSUME Backed, NEW x \in DOMAIN outcomes
                 PROVE  OneStory!(x)
      BY DEF OneStory
    <2> DEFINE t == outcomes[x]
               e == plans[t.plan]
               d == decisions[e.decision]
    <2>1. /\ t.plan \in DOMAIN plans /\ t.confirmation \in DOMAIN confirmations
          /\ Links(t) = Links(e) /\ confirmations[t.confirmation].fill = t.fill
          /\ confirmations[t.confirmation].plan = t.plan
      BY DEF Backed, OutcomeBacked, OutcomeMatches, OutcomeMatchesLoosely, Is
    <2>2. /\ t.opportunity = e.opportunity /\ t.proposal = e.proposal
          /\ t.simulation = e.simulation /\ t.decision = e.decision
          /\ t.snapshot = e.snapshot /\ t.instrument = e.instrument
      BY <2>1 DEF Links
    <2>3. PlanMatches(e)
      BY <2>1 DEF Backed, PlanBacked
    <2>4. /\ d.proposal = e.proposal /\ d.simulation = e.simulation
          /\ proposals[d.proposal] = [opportunity |-> e.opportunity, snapshot |-> e.snapshot,
                                      instrument |-> e.instrument]
          /\ simulations[d.simulation] = [proposal |-> e.proposal, snapshot |-> e.snapshot]
          /\ Is(opportunities, e.opportunity) /\ Is(snapshots, e.snapshot)
      BY <2>3 DEF PlanMatches, PlanFindsItsRows
    <2>5. proposals[d.proposal].snapshot = e.snapshot
      BY <2>4
    <2>6. t.confirmation \in ConfirmationsOf(t.plan)
      BY <2>1 DEF ConfirmationsOf
    <2>7. OutcomesOfPlan(t.plan) = {x}
      BY DEF OutcomesOfPlan, Backed, OutcomeBacked
    <2> QED BY <2>1, <2>2, <2>4, <2>5, <2>6, <2>7
  <1> QED BY <1>1, EveryRowBacked, PTL

(* The lists that lead to the same rows agree (list_execution_plans and    *)
(* list_execution_plans_for_proposal, and the others like them).           *)
THEOREM ListsAgree == Spec => []RoutesAgree
  <1>1. Backed => RoutesAgree
    <2> SUFFICES ASSUME Backed, NEW o \in DOMAIN opportunities
                 PROVE  RoutesAgree!(o)
      BY DEF RoutesAgree
    <2>1. \A e \in DOMAIN plans :
            /\ plans[e].proposal \in DOMAIN proposals /\ plans[e].decision \in DOMAIN decisions
            /\ proposals[plans[e].proposal].opportunity = plans[e].opportunity
            /\ decisions[plans[e].decision].proposal = plans[e].proposal
      <3> TAKE e \in DOMAIN plans
      <3>1. PlanMatches(plans[e])
        BY DEF Backed, PlanBacked
      <3> QED BY <3>1 DEF PlanMatches, PlanFindsItsRows, Is
    <2>2. \A x \in DOMAIN outcomes :
            /\ outcomes[x].plan \in DOMAIN plans
            /\ outcomes[x].opportunity = plans[outcomes[x].plan].opportunity
      <3> TAKE x \in DOMAIN outcomes
      <3>1. /\ outcomes[x].plan \in DOMAIN plans
            /\ Links(outcomes[x]) = Links(plans[outcomes[x].plan])
        BY DEF Backed, OutcomeBacked, OutcomeMatches, OutcomeMatchesLoosely, Is
      <3> QED BY <3>1 DEF Links
    <2>3. \A d \in DOMAIN decisions :
            /\ decisions[d].proposal \in DOMAIN proposals
            /\ decisions[d].simulation \in DOMAIN simulations
            /\ simulations[decisions[d].simulation].proposal = decisions[d].proposal
            /\ decisions[d].opportunity \in {None, proposals[decisions[d].proposal].opportunity}
      BY DEF Backed, DecisionBacked, DecisionMatches, Is
    <2>4. o # None
      BY NoneIsNoId DEF Backed, Minted
    <2> DEFINE own == ProposalsOf(o)
    <2>5. PlansOf(o) = UNION {PlansOfProposal(p) : p \in own}
      BY <2>1 DEF PlansOf, PlansOfProposal, ProposalsOf
    <2>6. OutcomesOf(o) = UNION {OutcomesOfPlan(e) : e \in PlansOf(o)}
      BY <2>2 DEF OutcomesOf, OutcomesOfPlan, PlansOf
    <2>7. DecisionsOf(o) = {d \in UNION {DecisionsOfProposal(p) : p \in own} :
                              decisions[d].opportunity # None}
      BY <2>3, <2>4 DEF DecisionsOf, DecisionsOfProposal, ProposalsOf
    <2>8. \A p \in own : \A d \in DecisionsOfProposal(p) :
            decisions[d].simulation \in SimulationsOf(p)
      BY <2>3 DEF DecisionsOfProposal, SimulationsOf
    <2>9. \A e \in PlansOf(o) : plans[e].decision \in DecisionsOfProposal(plans[e].proposal)
      BY <2>1 DEF PlansOf, DecisionsOfProposal
    <2> QED BY <2>5, <2>6, <2>7, <2>8, <2>9
  <1> QED BY <1>1, EveryRowBacked, PTL

(* What was judged was judged on its own ground (save_opportunity_research *)
(* and save_portfolio_fit_assessment).                                     *)
THEOREM JudgementsOnOwnGround == Spec => []JudgedOnOwnGround
  <1>1. Backed => JudgedOnOwnGround
    <2> SUFFICES ASSUME Backed
                 PROVE  JudgedOnOwnGround
      OBVIOUS
    <2>1. \A x \in DOMAIN fits :
            /\ opportunities[fits[x].opportunity] = [snapshot |-> fits[x].snapshot,
                                                     view |-> fits[x].view]
            /\ fits[x].riskState # None =>
                  /\ fits[x].riskState \in DOMAIN riskStates
                  /\ riskStates[fits[x].riskState].snapshot = fits[x].snapshot
      BY DEF Backed, PortfolioBacked, FitMatches, Is
    <2>2. \A v \in Views : \A o \in OpportunitiesOn(v) : \A x \in FitsOf(o) :
            /\ fits[x].view = v
            /\ fits[x].riskState # None =>
                  fits[x].riskState \in RiskStatesOf(opportunities[o].snapshot)
      <3> TAKE v \in Views
      <3> TAKE o \in OpportunitiesOn(v)
      <3> TAKE x \in FitsOf(o)
      <3>1. x \in DOMAIN fits /\ fits[x].opportunity = o /\ opportunities[o].view = v
        BY DEF FitsOf, OpportunitiesOn
      <3>2. opportunities[o] = [snapshot |-> fits[x].snapshot, view |-> fits[x].view]
        BY <2>1, <3>1
      <3>3. opportunities[o].view = fits[x].view /\ opportunities[o].snapshot = fits[x].snapshot
        BY <3>2
      <3> QED BY <2>1, <3>1, <3>3 DEF RiskStatesOf
    <2>3. \A x \in DOMAIN research :
            /\ research[x].candidate \in DOMAIN candidates
            /\ research[x].scan = candidates[research[x].candidate].scan
            /\ research[x].scan \in DOMAIN scans
      BY DEF Backed, ResearchBacked, ResearchMatches, Is
    <2>4. \A m \in DOMAIN scans :
            ResearchOfScan(m) = UNION {ResearchOf(k) : k \in CandidatesOf(m)}
      BY <2>3 DEF ResearchOfScan, ResearchOf, CandidatesOf
    <2> QED BY <2>2, <2>3, <2>4 DEF JudgedOnOwnGround, Is
  <1> QED BY <1>1, EveryRowBacked, PTL
=============================================================================
