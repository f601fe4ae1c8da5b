----------------------------- MODULE Stage3Store -----------------------------
(***************************************************************************)
(* The Stage 3 database (app/cio/storage.py): its tables, what each save   *)
(* method demands of the rows it finds, and the two or three ways the same *)
(* rows are read again.                                                    *)
(*                                                                         *)
(* One action is one method: the checks read what earlier, unrelated       *)
(* commands stored, so a chain of rows is only as sound as every check on  *)
(* its way.  Most links are checked by the methods and not by the schema;  *)
(* the schema adds the account of a snapshot and one outcome per plan.     *)
(*                                                                         *)
(* Every method is an upsert.  A caller either mints a new id or saves a   *)
(* row it has read again with another status: links do not change.         *)
(* Lists are sets here: the order by created_at is left out.               *)
(***************************************************************************)
EXTENDS Naturals, FiniteSets

CONSTANTS
    None,        \* an absent optional reference
    Views,       \* a ticker and, for an opportunity, a direction
    Contexts,    \* the portfolio snapshot and risk state a scan ran under
    Fills,       \* when, how much and at what price an execution was filled
    Scopes       \* bound: the ids a behaviour may mint, per table

ASSUME NoneIsNoId == \A s \in Scopes : None \notin s["opportunities"]

VARIABLES
    scope,
    accounts, snapshots, riskStates, inferences, scans, candidates, research,
    opportunities, proposals, fits, simulations, decisions, plans,
    confirmations, outcomes, instruments

portfolio == <<accounts, snapshots, riskStates>>
discovery == <<inferences, scans, candidates, research>>
chain == <<proposals, simulations, decisions>>
execution == <<plans, confirmations, outcomes>>
vars == <<scope, portfolio, discovery, opportunities, fits, chain, execution, instruments>>

(* A table is a function of the ids it holds.                              *)
Put(table, id, row) ==
    [x \in DOMAIN table \union {id} |-> IF x = id THEN row ELSE table[x]]
Is(table, id) == id \in DOMAIN table
New(name, table, id) == id \in scope[name] /\ ~ Is(table, id)
Empty == [x \in {} |-> None]

Init ==
    /\ scope \in Scopes
    /\ accounts = {} /\ snapshots = Empty /\ riskStates = Empty
    /\ inferences = Empty /\ scans = Empty /\ candidates = Empty /\ research = Empty
    /\ opportunities = Empty /\ fits = Empty
    /\ proposals = Empty /\ simulations = Empty /\ decisions = Empty
    /\ plans = Empty /\ confirmations = Empty /\ outcomes = Empty
    /\ instruments = {}
-----------------------------------------------------------------------------
(* Portfolio analysis.                                                     *)

SaveAccountState(a) ==
    /\ a \in scope["accounts"]
    /\ accounts' = accounts \union {a}
    /\ UNCHANGED <<scope, snapshots, riskStates, discovery, opportunities, fits, chain,
                   execution, instruments>>

SavePortfolioSnapshot(s, account) ==
    /\ New("snapshots", snapshots, s)
    /\ account # None => account \in accounts
    /\ snapshots' = Put(snapshots, s, [account |-> account])
    /\ UNCHANGED <<scope, accounts, riskStates, discovery, opportunities, fits, chain,
                   execution, instruments>>

SavePortfolioRiskState(r, s) ==
    /\ New("riskStates", riskStates, r) /\ Is(snapshots, s)
    /\ riskStates' = Put(riskStates, r, [snapshot |-> s])
    /\ UNCHANGED <<scope, accounts, snapshots, discovery, opportunities, fits, chain,
                   execution, instruments>>

(* list_portfolio_risk_states and its latest *)
RiskStatesOf(s) == {r \in DOMAIN riskStates : riskStates[r].snapshot = s}
-----------------------------------------------------------------------------
(* Scans, candidates and their research.                                   *)

SaveAIInference(i, c) ==
    /\ New("inferences", inferences, i)
    /\ inferences' = Put(inferences, i, [context |-> c])
    /\ UNCHANGED <<scope, portfolio, scans, candidates, research, opportunities, fits, chain,
                   execution, instruments>>

SaveMarketScan(m, c) ==
    /\ New("scans", scans, m)
    /\ scans' = Put(scans, m, [context |-> c])
    /\ UNCHANGED <<scope, portfolio, inferences, candidates, research, opportunities, fits,
                   chain, execution, instruments>>

SaveScanCandidate(k, m, v, c) ==
    /\ New("candidates", candidates, k) /\ Is(scans, m)
    /\ candidates' = Put(candidates, k, [scan |-> m, ticker |-> v, context |-> c])
    /\ UNCHANGED <<scope, portfolio, inferences, scans, research, opportunities, fits, chain,
                   execution, instruments>>

ResearchMatches(x, k) == x.scan = k.scan /\ x.ticker = k.ticker /\ x.context = k.context

SaveOpportunityResearch(x, row) ==
    /\ New("research", research, x) /\ Is(candidates, row.candidate)
    /\ ResearchMatches(row, candidates[row.candidate])
    /\ research' = Put(research, x, row)
    /\ UNCHANGED <<scope, portfolio, inferences, scans, candidates, opportunities, fits, chain,
                   execution, instruments>>

(* list_scan_candidates, list_opportunity_research by their parents.       *)
CandidatesOf(m) == {k \in DOMAIN candidates : candidates[k].scan = m}
ResearchOf(k) == {x \in DOMAIN research : research[x].candidate = k}
ResearchOfScan(m) == {x \in DOMAIN research : research[x].scan = m}
-----------------------------------------------------------------------------
(* Opportunities, their fit, and the instrument cache.                     *)

SaveTradeOpportunity(o, s, v) ==
    /\ New("opportunities", opportunities, o)
    /\ opportunities' = Put(opportunities, o, [snapshot |-> s, view |-> v])
    /\ UNCHANGED <<scope, portfolio, discovery, fits, chain, execution, instruments>>

OpportunitiesOn(v) == {o \in DOMAIN opportunities : opportunities[o].view = v}

(* Mutant: a risk state only has to exist.                                 *)
FitMatchesLoosely(f) ==
    /\ Is(opportunities, f.opportunity) /\ Is(snapshots, f.snapshot)
    /\ opportunities[f.opportunity] = [snapshot |-> f.snapshot, view |-> f.view]
    /\ f.riskState # None => Is(riskStates, f.riskState)
    /\ f.account # None => f.account \in accounts
FitMatches(f) ==
    /\ Is(opportunities, f.opportunity) /\ Is(snapshots, f.snapshot)
    /\ opportunities[f.opportunity] = [snapshot |-> f.snapshot, view |-> f.view]
    /\ f.riskState # None => /\ Is(riskStates, f.riskState)
                             /\ riskStates[f.riskState].snapshot = f.snapshot
    /\ f.account # None => f.account \in accounts

SavePortfolioFit(x, row) ==
    /\ New("fits", fits, x) /\ FitMatches(row)
    /\ fits' = Put(fits, x, row)
    /\ UNCHANGED <<scope, portfolio, discovery, opportunities, chain, execution, instruments>>

FitsOf(o) == {f \in DOMAIN fits : fits[f].opportunity = o}

SaveFinecoInstrument(i) ==
    /\ i \in scope["instruments"]
    /\ instruments' = instruments \union {i}
    /\ UNCHANGED <<scope, portfolio, discovery, opportunities, fits, chain, execution>>

DeleteFinecoInstrument(i) ==
    /\ i \in instruments
    /\ instruments' = instruments \ {i}
    /\ UNCHANGED <<scope, portfolio, discovery, opportunities, fits, chain, execution>>
-----------------------------------------------------------------------------
(* Proposal, simulation, decision.                                         *)

SaveTradeProposal(p, row) ==
    /\ New("proposals", proposals, p)
    /\ proposals' = Put(proposals, p, row)
    /\ UNCHANGED <<scope, portfolio, discovery, opportunities, fits, simulations, decisions,
                   execution, instruments>>

ProposalsOf(o) == {p \in DOMAIN proposals : proposals[p].opportunity = o}

SimulationMatches(x) ==
    /\ Is(proposals, x.proposal) /\ Is(snapshots, x.snapshot)
    /\ proposals[x.proposal].snapshot = x.snapshot

SavePortfolioSimulation(x, row) ==
    /\ New("simulations", simulations, x) /\ SimulationMatches(row)
    /\ simulations' = Put(simulations, x, row)
    /\ UNCHANGED <<scope, portfolio, discovery, opportunities, fits, proposals, decisions,
                   execution, instruments>>

SimulationsOf(p) == {x \in DOMAIN simulations : simulations[x].proposal = p}

DecisionMatches(d) ==
    /\ Is(proposals, d.proposal) /\ Is(simulations, d.simulation)
    /\ simulations[d.simulation].proposal = d.proposal
    /\ simulations[d.simulation].snapshot = proposals[d.proposal].snapshot
    /\ d.opportunity \in {None, proposals[d.proposal].opportunity}
    /\ d.snapshot \in {None, proposals[d.proposal].snapshot}

SaveCioDecision(d, row) ==
    /\ New("decisions", decisions, d) /\ DecisionMatches(row)
    /\ decisions' = Put(decisions, d, row)
    /\ UNCHANGED <<scope, portfolio, discovery, opportunities, fits, proposals, simulations,
                   execution, instruments>>

DecisionsOf(o) == {d \in DOMAIN decisions : decisions[d].opportunity = o}
DecisionsOfProposal(p) == {d \in DOMAIN decisions : decisions[d].proposal = p}
-----------------------------------------------------------------------------
(* Plan, confirmation, outcome.                                            *)

(* Mutant: the plan may name another opportunity than its proposal.        *)
PlanOfAnyOpportunity(e) ==
    /\ Is(opportunities, e.opportunity) /\ Is(proposals, e.proposal)
    /\ Is(simulations, e.simulation) /\ Is(decisions, e.decision) /\ Is(snapshots, e.snapshot)
    /\ proposals[e.proposal].snapshot = e.snapshot
    /\ proposals[e.proposal].instrument = e.instrument
    /\ simulations[e.simulation] = [proposal |-> e.proposal, snapshot |-> e.snapshot]
PlanFindsItsRows(e) ==
    /\ Is(opportunities, e.opportunity) /\ Is(proposals, e.proposal)
    /\ Is(simulations, e.simulation) /\ Is(decisions, e.decision) /\ Is(snapshots, e.snapshot)
    /\ proposals[e.proposal] = [opportunity |-> e.opportunity, snapshot |-> e.snapshot,
                                instrument |-> e.instrument]
    /\ simulations[e.simulation] = [proposal |-> e.proposal, snapshot |-> e.snapshot]
PlanMatches(e) ==
    /\ PlanFindsItsRows(e)
    /\ decisions[e.decision].proposal = e.proposal
    /\ decisions[e.decision].simulation = e.simulation
    /\ decisions[e.decision].opportunity \in {None, e.opportunity}
    /\ decisions[e.decision].snapshot \in {None, e.snapshot}

(* A new plan, or the one the operator's report settles: every demand is   *)
(* made again, the cached instrument included.                             *)
SaveExecutionPlan(e, row) ==
    /\ \/ New("plans", plans, e) /\ ~ row.settled
       \/ /\ Is(plans, e) /\ ~ plans[e].settled
          /\ row = [plans[e] EXCEPT !.settled = TRUE]
    /\ PlanMatches(row) /\ row.instrument \in instruments
    /\ plans' = Put(plans, e, row)
    /\ UNCHANGED <<scope, portfolio, discovery, opportunities, fits, chain, confirmations,
                   outcomes, instruments>>

PlansOf(o) == {e \in DOMAIN plans : plans[e].opportunity = o}
PlansOfProposal(p) == {e \in DOMAIN plans : plans[e].proposal = p}

SaveOperatorConfirmation(c, e, fill) ==
    /\ New("confirmations", confirmations, c) /\ Is(plans, e)
    /\ confirmations' = Put(confirmations, c, [plan |-> e, fill |-> fill])
    /\ UNCHANGED <<scope, portfolio, discovery, opportunities, fits, chain, plans, outcomes,
                   instruments>>

ConfirmationsOf(e) == {c \in DOMAIN confirmations : confirmations[c].plan = e}
OutcomesOfPlan(e) == {t \in DOMAIN outcomes : outcomes[t].plan = e}
OutcomesOf(o) == {t \in DOMAIN outcomes : outcomes[t].opportunity = o}

Links(e) == [opportunity |-> e.opportunity, proposal |-> e.proposal,
             simulation |-> e.simulation, decision |-> e.decision,
             snapshot |-> e.snapshot, instrument |-> e.instrument]

(* Mutant: any confirmation with the outcome's figures will do.            *)
OutcomeMatchesLoosely(t) ==
    /\ Is(plans, t.plan) /\ Is(confirmations, t.confirmation)
    /\ Links(t) = Links(plans[t.plan])
    /\ t.fill = confirmations[t.confirmation].fill
OutcomeMatches(t) ==
    /\ OutcomeMatchesLoosely(t)
    /\ confirmations[t.confirmation].plan = t.plan

(* A new outcome of a plan that has none, or the closing of its own.       *)
SaveTradeOutcome(x, row) ==
    /\ \/ New("outcomes", outcomes, x) /\ ~ row.closed
       \/ /\ Is(outcomes, x) /\ ~ outcomes[x].closed
          /\ row = [outcomes[x] EXCEPT !.closed = TRUE]
    /\ OutcomeMatches(row)
    /\ OutcomesOfPlan(row.plan) \subseteq {x}
    /\ outcomes' = Put(outcomes, x, row)
    /\ UNCHANGED <<scope, portfolio, discovery, opportunities, fits, chain, plans,
                   confirmations, instruments>>
-----------------------------------------------------------------------------
Ids(name) == scope[name]
Optional(name) == Ids(name) \union {None}

ResearchRows == [candidate : Ids("candidates"), scan : Ids("scans"), ticker : Views,
                 context : Contexts]
FitRows == [opportunity : Ids("opportunities"), snapshot : Ids("snapshots"), view : Views,
            riskState : Optional("riskStates"), account : Optional("accounts")]
ProposalRows == [opportunity : Ids("opportunities"), snapshot : Ids("snapshots"),
                 instrument : Ids("instruments")]
SimulationRows == [proposal : Ids("proposals"), snapshot : Ids("snapshots")]
DecisionRows == [proposal : Ids("proposals"), simulation : Ids("simulations"),
                 opportunity : Optional("opportunities"), snapshot : Optional("snapshots")]
PlanRows == [opportunity : Ids("opportunities"), proposal : Ids("proposals"),
             simulation : Ids("simulations"), decision : Ids("decisions"),
             snapshot : Ids("snapshots"), instrument : Ids("instruments"), settled : BOOLEAN]
OutcomeRows == [plan : Ids("plans"), confirmation : Ids("confirmations"),
                opportunity : Ids("opportunities"), proposal : Ids("proposals"),
                simulation : Ids("simulations"), decision : Ids("decisions"),
                snapshot : Ids("snapshots"), instrument : Ids("instruments"),
                fill : Fills, closed : BOOLEAN]

PortfolioNext ==
    \/ \E a \in Ids("accounts") : SaveAccountState(a)
    \/ \E s \in Ids("snapshots"), a \in Optional("accounts") : SavePortfolioSnapshot(s, a)
    \/ \E r \in Ids("riskStates"), s \in Ids("snapshots") : SavePortfolioRiskState(r, s)
    \/ \E o \in Ids("opportunities"), s \in Ids("snapshots"), v \in Views :
            SaveTradeOpportunity(o, s, v)
    \/ \E x \in Ids("fits"), row \in FitRows : SavePortfolioFit(x, row)

DiscoveryNext ==
    \/ \E i \in Ids("inferences"), c \in Contexts : SaveAIInference(i, c)
    \/ \E m \in Ids("scans"), c \in Contexts : SaveMarketScan(m, c)
    \/ \E k \in Ids("candidates"), m \in Ids("scans"), v \in Views, c \in Contexts :
            SaveScanCandidate(k, m, v, c)
    \/ \E x \in Ids("research"), row \in ResearchRows : SaveOpportunityResearch(x, row)

TradeNext ==
    \/ \E i \in Ids("instruments") : SaveFinecoInstrument(i) \/ DeleteFinecoInstrument(i)
    \/ \E p \in Ids("proposals"), row \in ProposalRows : SaveTradeProposal(p, row)
    \/ \E x \in Ids("simulations"), row \in SimulationRows : SavePortfolioSimulation(x, row)
    \/ \E d \in Ids("decisions"), row \in DecisionRows : SaveCioDecision(d, row)
    \/ \E e \in Ids("plans"), row \in PlanRows : SaveExecutionPlan(e, row)
    \/ \E c \in Ids("confirmations"), e \in Ids("plans"), f \in Fills :
            SaveOperatorConfirmation(c, e, f)
    \/ \E x \in Ids("outcomes"), row \in OutcomeRows : SaveTradeOutcome(x, row)

Next == PortfolioNext \/ DiscoveryNext \/ TradeNext

Spec == Init /\ [][Next]_vars
-----------------------------------------------------------------------------
(* What each stored row still finds behind it.                             *)

ResearchBacked ==
    /\ \A k \in DOMAIN candidates : Is(scans, candidates[k].scan)
    /\ \A x \in DOMAIN research :
          /\ Is(candidates, research[x].candidate)
          /\ ResearchMatches(research[x], candidates[research[x].candidate])
PortfolioBacked ==
    /\ \A s \in DOMAIN snapshots : snapshots[s].account \in accounts \union {None}
    /\ \A r \in DOMAIN riskStates : Is(snapshots, riskStates[r].snapshot)
    /\ \A x \in DOMAIN fits : FitMatches(fits[x])
DecisionBacked ==
    /\ \A x \in DOMAIN simulations : SimulationMatches(simulations[x])
    /\ \A d \in DOMAIN decisions : DecisionMatches(decisions[d])

(* Every trade outcome tells one story: its confirmation is of its plan    *)
(* and gives its figures, and plan, decision, simulation and proposal      *)
(* agree on the opportunity, the snapshot and the instrument, whatever was *)
(* stored or deleted between those commands; no plan has two outcomes.     *)
OneStory ==
    \A x \in DOMAIN outcomes :
        LET t == outcomes[x]
            e == plans[t.plan]
            d == decisions[e.decision]
            p == proposals[d.proposal]
        IN  /\ t.confirmation \in ConfirmationsOf(t.plan)
            /\ confirmations[t.confirmation].fill = t.fill
            /\ simulations[d.simulation] = [proposal |-> d.proposal, snapshot |-> p.snapshot]
            /\ p = [opportunity |-> t.opportunity, snapshot |-> t.snapshot,
                    instrument |-> t.instrument]
            /\ t.decision = e.decision /\ t.simulation = d.simulation
            /\ t.proposal = d.proposal
            /\ Is(opportunities, t.opportunity) /\ Is(snapshots, t.snapshot)
            /\ OutcomesOfPlan(t.plan) = {x}

(* The lists that lead to the same rows agree: an opportunity's plans are  *)
(* those of its proposals and its outcomes those of its plans, a           *)
(* proposal's decisions judge its own simulations, and an opportunity's    *)
(* decisions are its proposals' but for those stored without naming it.    *)
RoutesAgree ==
    \A o \in DOMAIN opportunities :
        LET own == ProposalsOf(o)
            decided == UNION {DecisionsOfProposal(p) : p \in own}
        IN  /\ PlansOf(o) = UNION {PlansOfProposal(p) : p \in own}
            /\ OutcomesOf(o) = UNION {OutcomesOfPlan(e) : e \in PlansOf(o)}
            /\ DecisionsOf(o) = {d \in decided : decisions[d].opportunity # None}
            /\ \A p \in own : \A d \in DecisionsOfProposal(p) :
                  decisions[d].simulation \in SimulationsOf(p)
            /\ \A e \in PlansOf(o) : plans[e].decision \in DecisionsOfProposal(plans[e].proposal)

(* What was judged about an opportunity or a candidate was judged on its   *)
(* own ground: a fit's risk state is one of the snapshot the opportunity   *)
(* was found under, and a scan's research is its candidates' research.     *)
JudgedOnOwnGround ==
    /\ \A v \in Views : \A o \in OpportunitiesOn(v) : \A x \in FitsOf(o) :
          /\ fits[x].view = v
          /\ fits[x].riskState # None =>
                fits[x].riskState \in RiskStatesOf(opportunities[o].snapshot)
    /\ \A m \in DOMAIN scans :
          ResearchOfScan(m) = UNION {ResearchOf(k) : k \in CandidatesOf(m)}
    /\ \A x \in DOMAIN research : Is(scans, research[x].scan)
=============================================================================
