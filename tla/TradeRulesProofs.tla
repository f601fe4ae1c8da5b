-------------------------- MODULE TradeRulesProofs --------------------------
(* The rules of TradeRules for every account, portfolio, opportunity,      *)
(* instrument and market: what the filter, the sizer and the simulator     *)
(* have to agree on, although each computes it by itself.                  *)
EXTENDS TradeRules, TLAPS

-----------------------------------------------------------------------------
(* Arithmetic of the limits.                                               *)

LEMMA ProductMonotone ==
    ASSUME NEW k \in Nat, NEW e \in Nat, NEW t \in Nat, e <= t
    PROVE  k * e <= k * t
<1>1. PICK d \in Nat : t = e + d
  <2>1. t - e \in Nat /\ t = e + (t - e)
    OBVIOUS
  <2> QED BY <2>1
<1>2. k * t = k * e + k * d
  BY <1>1
<1>3. k * d \in Nat
  BY <1>1
<1>4. k * e \in Nat
  OBVIOUS
<1> QED BY <1>2, <1>3, <1>4

\* A smaller position is a smaller share of the portfolio it is added to.
LEMMA WeightMonotone ==
    ASSUME NEW w \in Nat, NEW g \in Nat, NEW e \in Nat, NEW t \in Nat,
           e <= t, t * 100 <= w * (g + t)
    PROVE  e * 100 <= w * (g + e)
<1>1. CASE w >= 100
  <2>1. e * 100 <= e * w
    BY <1>1, ProductMonotone
  <2>2. w * (g + e) = w * g + e * w
    OBVIOUS
  <2>3. w * g \in Nat
    OBVIOUS
  <2> QED BY <2>1, <2>2, <2>3
<1>2. CASE w < 100
  <2> DEFINE k == 100 - w
  <2>1. k \in Nat /\ 100 = k + w
    BY <1>2
  <2>2. k * t <= w * g
    <3>1. t * 100 = k * t + w * t
      BY <2>1
    <3>2. w * (g + t) = w * g + w * t
      OBVIOUS
    <3>3. k * t \in Nat /\ w * t \in Nat /\ w * g \in Nat
      BY <2>1
    <3> QED BY <3>1, <3>2, <3>3
  <2>3. k * e <= k * t
    BY <2>1, ProductMonotone
  <2>4. e * 100 = k * e + w * e
    BY <2>1
  <2>5. w * (g + e) = w * g + w * e
    OBVIOUS
  <2>6. k * e \in Nat /\ k * t \in Nat /\ w * g \in Nat /\ w * e \in Nat
    BY <2>1
  <2> HIDE DEF k
  <2> QED BY <2>2, <2>3, <2>4, <2>5, <2>6
<1> QED BY <1>1, <1>2

-----------------------------------------------------------------------------
(* The inductive invariant: every stored record is what the rules say of   *)
(* the records and the account it was computed from.                       *)

Inputs ==
    /\ account \in Accounts
    /\ portfolio \in Portfolios
    /\ opportunity \in Opportunities
    /\ instrument \in Instruments
    /\ changes \in 0..MaxChanges

AssessedAs ==
    fit # Nothing =>
      /\ fit.account \in Accounts
      /\ fit.risk \in {"UNAVAILABLE", "WITHIN", "OVER"}
      /\ ~Known(opportunity.target) => fit.risk = "UNAVAILABLE"
      /\ \E correlated, warned \in BOOLEAN, score \in {"ADVERSE", "MIXED", "STRONG"} :
           fit.decision = FitDecision(
               Checks(opportunity, portfolio, fit.account, fit.risk),
               Scorable(opportunity, portfolio, fit.risk, correlated), score, warned)

RankedAs ==
    candidate # Nothing => candidate \in Instruments /\ Eligible(opportunity, candidate)

SizedAs ==
    sizing # Nothing =>
      /\ candidate # Nothing
      /\ sizing.quantity \in 1..MaxQuantity
      /\ sizing.market \in Markets
      /\ sizing.exposure \in Amounts \ {0}
      /\ sizing.instrument \in Instruments
      /\ sizing.account \in Accounts
      /\ Side(opportunity, sizing.instrument) # "NONE"
      /\ IsQuantity(sizing.quantity,
                    QuantityLimits(opportunity, sizing.instrument, sizing.account,
                                   sizing.market, sizing.exposure))
      /\ sizing.violations = SizingViolations(opportunity, sizing.instrument,
                                sizing.account, sizing.market, sizing.quantity)

ProposedAs ==
    proposal # Nothing =>
      /\ sizing # Nothing
      /\ sizing.violations = {}
      /\ proposal.gross = sizing.quantity * sizing.market.unit
      /\ proposal.loss = IF Known(sizing.market.lossPerUnit)
                         THEN sizing.quantity * sizing.market.lossPerUnit ELSE None
      /\ proposal.capital = Capital(opportunity, sizing.instrument,
                                    sizing.quantity * sizing.market.unit)
      /\ proposal.side = Side(opportunity, sizing.instrument)

SimulatedAs ==
    simulation # Nothing =>
      /\ proposal # Nothing
      /\ simulation.account \in Accounts
      /\ simulation.risk \in {"WITHIN", "OVER"}
      /\ simulation.violations =
           SimulationViolations(proposal, After(portfolio, opportunity, proposal.gross),
                                simulation.account, simulation.risk)
      /\ simulation.unknowns = SimulationUnknowns(proposal, simulation.account)

DecidedAs ==
    /\ decision \in {"NONE", "REJECT", "MODIFY", "ACCEPT"}
    /\ decision # "NONE" =>
         simulation # Nothing /\ decision = DecisionOf(proposal, simulation)

IInv == Inputs /\ AssessedAs /\ RankedAs /\ SizedAs /\ ProposedAs /\ SimulatedAs
          /\ DecidedAs

LEMMA InitIInv == Init => IInv
BY TradeAssumption DEF Init, IInv, Inputs, AssessedAs, RankedAs, SizedAs, ProposedAs,
   SimulatedAs, DecidedAs, Nothing

LEMMA AssessIInv == IInv /\ Assess => IInv'
<1> SUFFICES ASSUME IInv, Assess PROVE IInv'
  OBVIOUS
<1>1. PICK risk \in {"UNAVAILABLE", "WITHIN", "OVER"}, correlated \in BOOLEAN,
           warned \in BOOLEAN, score \in {"ADVERSE", "MIXED", "STRONG"} :
        /\ ~Known(opportunity.target) => risk = "UNAVAILABLE"
        /\ fit' = [decision |-> FitDecision(
                        Checks(opportunity, portfolio, account, risk),
                        Scorable(opportunity, portfolio, risk, correlated), score,
                        warned \/ (Known(opportunity.target) /\ risk = "UNAVAILABLE")),
                    risk |-> risk,
                    account |-> account]
  BY DEF Assess, RiskContexts, MarginalRisks
<1>2. UNCHANGED <<portfolio, opportunity, account, instrument, candidate, sizing,
                  proposal, simulation, decision, changes>>
  BY DEF Assess, inputs
<1> DEFINE noted == warned \/ (Known(opportunity.target) /\ risk = "UNAVAILABLE")
<1>3. noted \in BOOLEAN
  OBVIOUS
<1>4. AssessedAs'
  <2>1. /\ fit'.account = account /\ fit'.risk = risk
        /\ fit'.decision = FitDecision(Checks(opportunity, portfolio, account, risk),
               Scorable(opportunity, portfolio, risk, correlated), score, noted)
    BY <1>1
  <2>2. account \in Accounts
    BY DEF IInv, Inputs
  <2> HIDE DEF noted
  <2>3. \E c, w \in BOOLEAN, s \in {"ADVERSE", "MIXED", "STRONG"} :
           fit'.decision = FitDecision(
               Checks(opportunity, portfolio, fit'.account, fit'.risk),
               Scorable(opportunity, portfolio, fit'.risk, c), s, w)
    BY <2>1, <1>3
  <2> QED BY <2>1, <2>2, <2>3, <1>1, <1>2 DEF AssessedAs, Known, None
<1>5. (Inputs /\ RankedAs /\ SizedAs /\ ProposedAs /\ SimulatedAs /\ DecidedAs)'
  BY <1>2 DEF IInv, Inputs, RankedAs, SizedAs, ProposedAs, SimulatedAs, DecidedAs
<1> QED BY <1>4, <1>5 DEF IInv

LEMMA SelectIInv == IInv /\ Select => IInv'
<1> SUFFICES ASSUME IInv, Select PROVE IInv'
  OBVIOUS
<1>1. UNCHANGED <<portfolio, opportunity, account, instrument, fit, sizing,
                  proposal, simulation, decision, changes>>
  BY DEF Select, inputs
<1>2. RankedAs'
  BY <1>1 DEF IInv, Inputs, RankedAs, Select
<1>3. SizedAs'
  BY <1>1 DEF IInv, SizedAs, Select
<1>4. (Inputs /\ AssessedAs /\ ProposedAs /\ SimulatedAs /\ DecidedAs)'
  BY <1>1 DEF IInv, Inputs, AssessedAs, ProposedAs, SimulatedAs, DecidedAs
<1> QED BY <1>2, <1>3, <1>4 DEF IInv

LEMMA SizeIInv ==
    ASSUME NEW m \in Markets, NEW request \in Requests \cup {None}, IInv, Size(m, request)
    PROVE  IInv'
<1> DEFINE exposure == IF Known(request) THEN request ELSE opportunity.target
<1>1. PICK q \in 1..MaxQuantity :
        /\ IsQuantity(q, QuantityLimits(opportunity, instrument, account, m, exposure))
        /\ sizing' = [quantity |-> q,
                      market |-> m,
                      exposure |-> exposure,
                      instrument |-> instrument,
                      account |-> account,
                      violations |-> SizingViolations(opportunity, instrument,
                                                      account, m, q)]
  BY DEF Size, SizedTo
<1>2. UNCHANGED <<portfolio, opportunity, account, instrument, fit, candidate,
                  proposal, simulation, decision, changes>>
  BY DEF Size, inputs
<1>3. /\ candidate # Nothing /\ proposal = Nothing
      /\ Side(opportunity, instrument) # "NONE"
  BY DEF Size
<1>4. exposure \in Amounts \ {0}
  BY TradeAssumption DEF IInv, Inputs, Known, Amounts, None
<1>5. SizedAs'
  <2> HIDE DEF exposure
  <2>1. /\ sizing'.quantity = q /\ sizing'.market = m /\ sizing'.exposure = exposure
        /\ sizing'.instrument = instrument /\ sizing'.account = account
        /\ sizing'.violations = SizingViolations(opportunity, instrument, account, m, q)
    BY <1>1
  <2>2. account \in Accounts /\ instrument \in Instruments
    BY DEF IInv, Inputs
  <2> QED BY <2>1, <2>2, <1>1, <1>2, <1>3, <1>4 DEF SizedAs
<1>6. ProposedAs' /\ SimulatedAs'
  BY <1>2, <1>3 DEF IInv, ProposedAs, SimulatedAs
<1>7. (Inputs /\ AssessedAs /\ RankedAs /\ DecidedAs)'
  BY <1>2 DEF IInv, Inputs, AssessedAs, RankedAs, DecidedAs
<1> QED BY <1>5, <1>6, <1>7 DEF IInv

LEMMA ProposeIInv == IInv /\ Propose => IInv'
<1> SUFFICES ASSUME IInv, Propose PROVE IInv'
  OBVIOUS
<1>1. UNCHANGED <<portfolio, opportunity, account, instrument, fit, candidate, sizing,
                  simulation, decision, changes>>
  BY DEF Propose, Proposable, inputs
<1>2. ProposedAs'
  <2>1. sizing # Nothing /\ sizing.violations = {}
    BY DEF Propose, Proposable
  <2>2. /\ proposal'.gross = sizing.quantity * sizing.market.unit
        /\ proposal'.loss = IF Known(sizing.market.lossPerUnit)
                           THEN sizing.quantity * sizing.market.lossPerUnit ELSE None
        /\ proposal'.capital = Capital(opportunity, sizing.instrument,
                                      sizing.quantity * sizing.market.unit)
        /\ proposal'.side = Side(opportunity, sizing.instrument)
    BY DEF Propose, Proposable
  <2> QED BY <2>1, <2>2, <1>1 DEF ProposedAs
<1>3. simulation = Nothing
  BY DEF Propose, Proposable, IInv, SimulatedAs
<1>4. SimulatedAs'
  BY <1>1, <1>3 DEF SimulatedAs
<1>5. DecidedAs'
  BY <1>1, <1>3 DEF IInv, DecidedAs
<1>6. (Inputs /\ AssessedAs /\ RankedAs /\ SizedAs)'
  BY <1>1 DEF IInv, Inputs, AssessedAs, RankedAs, SizedAs
<1> QED BY <1>2, <1>4, <1>5, <1>6 DEF IInv

LEMMA SimulateIInv == IInv /\ Simulate => IInv'
<1> SUFFICES ASSUME IInv, Simulate PROVE IInv'
  OBVIOUS
<1> DEFINE after == After(portfolio, opportunity, proposal.gross)
<1>1. UNCHANGED <<portfolio, opportunity, account, instrument, fit, candidate, sizing,
                  proposal, decision, changes>>
  BY DEF Simulate, inputs
<1>2. proposal # Nothing /\ simulation = Nothing
  BY DEF Simulate
<1>3. PICK risk \in {"WITHIN", "OVER"} :
        simulation' = [after |-> after,
                       violations |-> SimulationViolations(proposal, after, account, risk),
                       unknowns |-> SimulationUnknowns(proposal, account),
                       risk |-> risk,
                       account |-> account]
  BY DEF Simulate, SimulatedUnder, MarginalRisks
<1>4. SimulatedAs'
  <2>1. /\ simulation'.account = account /\ simulation'.risk = risk
        /\ simulation'.violations = SimulationViolations(proposal, after, account, risk)
        /\ simulation'.unknowns = SimulationUnknowns(proposal, account)
    BY <1>3
  <2>2. account \in Accounts
    BY DEF IInv, Inputs
  <2> QED BY <2>1, <2>2, <1>1, <1>2 DEF SimulatedAs
<1>5. DecidedAs'
  BY <1>1, <1>2 DEF IInv, DecidedAs
<1>6. (Inputs /\ AssessedAs /\ RankedAs /\ SizedAs /\ ProposedAs)'
  BY <1>1 DEF IInv, Inputs, AssessedAs, RankedAs, SizedAs, ProposedAs
<1> QED BY <1>4, <1>5, <1>6 DEF IInv

LEMMA DecideIInv == IInv /\ Decide => IInv'
<1> SUFFICES ASSUME IInv, Decide PROVE IInv'
  OBVIOUS
<1>1. UNCHANGED <<portfolio, opportunity, account, instrument, fit, candidate, sizing,
                  proposal, simulation, changes>>
  BY DEF Decide, inputs
<1>2. DecidedAs'
  BY <1>1 DEF Decide, DecidedAs, DecisionOf, Rejects, LossUnquantified, CriticalUnknowns
<1>3. (Inputs /\ AssessedAs /\ RankedAs /\ SizedAs /\ ProposedAs /\ SimulatedAs)'
  BY <1>1 DEF IInv, Inputs, AssessedAs, RankedAs, SizedAs, ProposedAs, SimulatedAs
<1> QED BY <1>2, <1>3 DEF IInv

\* The operator and the importer touch no record of the opportunity.
LEMMA ChangeIInv == IInv /\ (SetAccount \/ ImportInstrument) => IInv'
<1> SUFFICES ASSUME IInv, SetAccount \/ ImportInstrument PROVE IInv'
  OBVIOUS
<1>1. UNCHANGED <<portfolio, opportunity, fit, candidate, sizing, proposal, simulation,
                  decision>>
  BY DEF SetAccount, ImportInstrument, inputs
<1>2. Inputs'
  BY <1>1, TradeAssumption DEF IInv, Inputs, SetAccount, ImportInstrument
<1>3. (AssessedAs /\ RankedAs /\ SizedAs /\ ProposedAs /\ SimulatedAs /\ DecidedAs)'
  BY <1>1 DEF IInv, AssessedAs, RankedAs, SizedAs, ProposedAs, SimulatedAs, DecidedAs
<1> QED BY <1>2, <1>3 DEF IInv

LEMMA StepIInv == IInv /\ [Next]_vars => IInv'
<1> SUFFICES ASSUME IInv, [Next]_vars PROVE IInv'
  OBVIOUS
<1>1. CASE UNCHANGED vars
  BY <1>1 DEF vars, IInv, Inputs, AssessedAs, RankedAs, SizedAs, ProposedAs, SimulatedAs,
     DecidedAs
<1>2. CASE \E m \in Markets, request \in Requests \cup {None} : Size(m, request)
  BY <1>2, SizeIInv
<1> QED BY <1>1, <1>2, AssessIInv, SelectIInv, ProposeIInv, SimulateIInv, DecideIInv,
           ChangeIInv DEF Next

LEMMA Invariant == Spec => []IInv
BY InitIInv, StepIInv, PTL DEF Spec

-----------------------------------------------------------------------------
(* What the invariant says of the properties.                              *)

\* Below the minimum coverage the fit is UNKNOWN or REJECT; without a target,
\* without the risk engine or with an empty portfolio at most 25 are covered.
LEMMA MeasuredFromInvariant == IInv => GateNeedsMeasuredRisk
<1> SUFFICES ASSUME IInv, GateOpen
             PROVE  Known(opportunity.target) /\ fit.risk # "UNAVAILABLE"
                      /\ Gross(portfolio) > 0
  BY DEF GateNeedsMeasuredRisk
<1>1. PICK correlated \in BOOLEAN, warned \in BOOLEAN,
           score \in {"ADVERSE", "MIXED", "STRONG"} :
        fit.decision = FitDecision(
            Checks(opportunity, portfolio, fit.account, fit.risk),
            Scorable(opportunity, portfolio, fit.risk, correlated), score, warned)
  BY DEF IInv, AssessedAs, GateOpen
<1> DEFINE scored == Scorable(opportunity, portfolio, fit.risk, correlated)
<1>2. ~(Coverage(scored) < MinScoringCoverage)
  BY <1>1 DEF GateOpen, FitDecision
<1>3. ASSUME {"volatility", "beta", "tail_risk"} \cap scored = {} PROVE FALSE
  <2> HIDE DEF scored
  <2>1. "volatility" \notin scored /\ "beta" \notin scored /\ "tail_risk" \notin scored
    BY <1>3
  <2> QED BY <2>1, <1>2 DEF Coverage, MinScoringCoverage, Weights
<1>4. fit.risk # "UNAVAILABLE" /\ Known(opportunity.target) /\ Gross(portfolio) > 0
  BY <1>3 DEF Scorable
<1> QED BY <1>4

\* A check that failed rejects, whatever else was found.
LEMMA GateOpenNoFailure ==
    ASSUME IInv, GateOpen, NEW c \in {"loss", "weight", "gross"}
    PROVE  Checks(opportunity, portfolio, fit.account, fit.risk)[c] # "FAIL"
<1> DEFINE checks == Checks(opportunity, portfolio, fit.account, fit.risk)
<1>1. PICK correlated \in BOOLEAN, warned \in BOOLEAN,
           score \in {"ADVERSE", "MIXED", "STRONG"} :
        fit.decision = FitDecision(checks,
            Scorable(opportunity, portfolio, fit.risk, correlated), score, warned)
  BY DEF IInv, AssessedAs, GateOpen
<1>2. "FAIL" \notin Statuses(checks)
  BY <1>1 DEF GateOpen, FitDecision
<1>3. c \in DOMAIN checks
  BY DEF Checks
<1> HIDE DEF checks
<1>4. checks[c] \in Statuses(checks)
  BY <1>3 DEF Statuses
<1> QED BY <1>2, <1>4 DEF checks

\* The whole units never exceed the exposure they were cut from.
LEMMA CutToExposure ==
    ASSUME IInv, sizing # Nothing, Known(sizing.exposure)
    PROVE  /\ sizing.quantity \in Nat /\ sizing.market.unit \in Nat
           /\ sizing.exposure \in Nat
           /\ sizing.quantity * sizing.market.unit \in Nat
           /\ sizing.quantity * sizing.market.unit <= sizing.exposure
<1> DEFINE l == [per |-> sizing.market.unit, all |-> sizing.exposure]
           limits == QuantityLimits(opportunity, sizing.instrument, sizing.account,
                                    sizing.market, sizing.exposure)
<1>1. l \in limits
  BY DEF QuantityLimits
<1>2. Within(sizing.quantity, limits)
  BY DEF IInv, SizedAs, IsQuantity
<1> HIDE DEF limits
<1>3. sizing.quantity * l.per <= l.all
  BY <1>1, <1>2 DEF Within
<1>4. /\ sizing.quantity \in Nat /\ sizing.market.unit \in Nat /\ sizing.exposure \in Nat
  BY TradeAssumption DEF IInv, SizedAs, Amounts, Known
<1>5. sizing.quantity * sizing.market.unit \in Nat
  BY <1>4
<1> QED BY <1>3, <1>4, <1>5

LEMMA GrossOfAfter ==
    ASSUME NEW gross \in Nat, IInv
    PROVE  /\ Gross(portfolio) \in Nat
           /\ Gross(After(portfolio, opportunity, gross)) = Gross(portfolio) + gross
BY TradeAssumption DEF IInv, Inputs, Gross, After

LEMMA FitFromInvariant == IInv => WithinTheFit
<1> SUFFICES ASSUME IInv, simulation # Nothing, GateOpen,
                    simulation.account = fit.account,
                    sizing.exposure = opportunity.target
             PROVE  "WEIGHT" \notin simulation.violations
                      /\ "GROSS" \notin simulation.violations
  BY DEF WithinTheFit
<1> DEFINE a == fit.account
           t == opportunity.target
           e == proposal.gross
           g == Gross(portfolio)
           after == After(portfolio, opportunity, e)
<1>1. Known(t)
  BY MeasuredFromInvariant DEF GateNeedsMeasuredRisk
<1>2. proposal # Nothing /\ sizing # Nothing /\ e = sizing.quantity * sizing.market.unit
  BY DEF IInv, SimulatedAs, ProposedAs
<1>3. e \in Nat /\ t \in Nat /\ e <= t
  BY <1>1, <1>2, CutToExposure
<1>4. g \in Nat /\ Gross(after) = g + e
  BY <1>3, GrossOfAfter
<1>5. a \in Accounts
  BY DEF IInv, AssessedAs, GateOpen
<1>6. simulation.violations = SimulationViolations(proposal, after, a, simulation.risk)
  BY DEF IInv, SimulatedAs
<1>7. "WEIGHT" \notin simulation.violations
  <2>1. CASE ~Known(a.limits.weight)
    BY <2>1, <1>6 DEF SimulationViolations, CapitalOver, RiskOver
  <2>2. CASE Known(a.limits.weight)
    <3>1. t * 100 <= a.limits.weight * (g + t)
      BY <2>2, <1>1, GateOpenNoFailure DEF Checks, Verdict
    <3>2. a.limits.weight \in Nat
      BY <2>2, <1>5, TradeAssumption DEF Known, Amounts, Limits
    <3>3. e * 100 <= a.limits.weight * (g + e)
      BY <3>1, <3>2, <1>3, <1>4, WeightMonotone
    <3>4. ~(e * 100 > a.limits.weight * Gross(after))
      BY <3>2, <3>3, <1>3, <1>4
    <3> QED BY <3>4, <1>6 DEF SimulationViolations, CapitalOver, RiskOver
  <2> QED BY <2>1, <2>2
<1>8. "GROSS" \notin simulation.violations
  <2>1. CASE ~Known(a.limits.gross) \/ ~Known(a.nav)
    BY <2>1, <1>6 DEF SimulationViolations, CapitalOver, RiskOver
  <2>2. CASE Known(a.limits.gross) /\ Known(a.nav)
    <3>1. (g + t) * 100 <= a.limits.gross * a.nav
      BY <2>2, <1>1, GateOpenNoFailure DEF Checks, Verdict
    <3>2. a.limits.gross \in Nat /\ a.nav \in Nat
      BY <2>2, <1>5, TradeAssumption DEF Known, Amounts, Limits
    <3>3. a.limits.gross * a.nav \in Nat
      BY <3>2
    <3>4. ~(Gross(after) * 100 > a.limits.gross * a.nav)
      BY <3>1, <3>3, <1>3, <1>4
    <3> QED BY <3>4, <1>6 DEF SimulationViolations, CapitalOver, RiskOver
  <2> QED BY <2>1, <2>2
<1> QED BY <1>7, <1>8

LEMMA SizingFromInvariant == IInv => WithinTheSizing
<1> SUFFICES ASSUME IInv, simulation # Nothing, simulation.account = sizing.account
             PROVE  /\ "LOSS" \notin simulation.violations
                    /\ FundingCurrency(opportunity, sizing.instrument) = "EUR"
                         => "CIO" \notin simulation.violations
  BY DEF WithinTheSizing
<1> DEFINE a == sizing.account
           m == sizing.market
           after == After(portfolio, opportunity, proposal.gross)
<1>1. proposal # Nothing /\ sizing # Nothing /\ sizing.violations = {}
  BY DEF IInv, SimulatedAs, ProposedAs
<1>2. simulation.violations = SimulationViolations(proposal, after, a, simulation.risk)
  BY DEF IInv, SimulatedAs
<1>3. /\ a \in Accounts /\ m \in Markets /\ opportunity \in Opportunities
      /\ sizing.quantity \in Nat
  BY <1>1 DEF IInv, Inputs, SizedAs
<1>4. "LOSS" \notin simulation.violations
  <2>1. CASE ~Known(a.limits.loss) \/ ~Known(proposal.loss)
    BY <2>1, <1>2 DEF SimulationViolations, CapitalOver, RiskOver
  <2>2. CASE Known(a.limits.loss) /\ Known(proposal.loss)
    <3> DEFINE budget == RiskBudget(opportunity, a)
               l == [per |-> m.lossPerUnit, all |-> budget]
               limits == QuantityLimits(opportunity, sizing.instrument, a, m,
                                        sizing.exposure)
    <3>1. Known(m.lossPerUnit) /\ proposal.loss = sizing.quantity * m.lossPerUnit
      BY <2>2, <1>1 DEF IInv, ProposedAs, Known
    <3>2. a.limits.loss \in Nat /\ opportunity.loss \in Amounts
      BY <2>2, <1>3, TradeAssumption DEF Known, Amounts, Limits
    <3>3. Known(budget) /\ budget \in Nat /\ budget <= a.limits.loss
      BY <2>2, <3>2 DEF RiskBudget, LeastKnown, Known, Amounts, None
    <3>4. l \in limits
      BY <3>1, <3>3 DEF QuantityLimits
    <3>5. Within(sizing.quantity, limits)
      BY <1>1 DEF IInv, SizedAs, IsQuantity
    <3> HIDE DEF limits, budget
    <3>6. sizing.quantity * l.per <= l.all
      BY <3>4, <3>5 DEF Within
    <3>7. m.lossPerUnit \in Nat
      BY <3>1, <1>3, TradeAssumption DEF Known, Amounts
    <3>8. proposal.loss \in Nat
      BY <3>1, <3>7, <1>3
    <3>9. ~(proposal.loss > a.limits.loss)
      BY <3>1, <3>2, <3>3, <3>6, <3>8
    <3> QED BY <3>9, <1>2 DEF SimulationViolations, CapitalOver, RiskOver
  <2> QED BY <2>1, <2>2
<1>5. ASSUME FundingCurrency(opportunity, sizing.instrument) = "EUR"
      PROVE  "CIO" \notin simulation.violations
  <2>1. CASE ~Known(a.limits.cio) \/ ~Known(a.cash["EUR"].available)
    BY <2>1, <1>2 DEF SimulationViolations, CapitalOver, RiskOver
  <2>2. CASE Known(a.limits.cio) /\ Known(a.cash["EUR"].available)
    <3> DEFINE capital == Capital(opportunity, sizing.instrument,
                                  sizing.quantity * m.unit)
               funds == Deployable(a, "EUR") * CashFx("EUR", m)
    <3>1. proposal.capital = capital
      BY <1>1 DEF IInv, ProposedAs
    <3>2. sizing.violations = SizingViolations(opportunity, sizing.instrument, a, m,
                                               sizing.quantity)
      BY <1>1 DEF IInv, SizedAs
    <3>3. ~(capital > funds * a.limits.cio)
      BY <1>1, <1>5, <2>2, <3>2 DEF SizingViolations
    <3>4. funds = Deployable(a, "EUR")
      <4>1. /\ a.cash["EUR"].available \in Amounts /\ CashShape(a.cash["EUR"])
        BY <1>3, TradeAssumption DEF Currencies
      <4>2. Deployable(a, "EUR") \in Int
        BY <4>1, <2>2 DEF Deployable, Amounts, CashShape, Known, None
      <4> QED BY <4>2 DEF CashFx
    <3> HIDE DEF capital, funds
    <3>5. ~(proposal.capital > Deployable(a, "EUR") * a.limits.cio)
      BY <3>1, <3>3, <3>4
    <3> QED BY <3>5, <1>2 DEF SimulationViolations, CapitalOver, RiskOver
  <2> QED BY <2>1, <2>2
<1> QED BY <1>4, <1>5

LEMMA AcceptedFromInvariant == IInv => AcceptedWithinLimits
<1> SUFFICES ASSUME IInv, decision = "ACCEPT" PROVE AcceptedWithinLimits
  BY DEF AcceptedWithinLimits
<1> DEFINE a == simulation.account
           e == sizing.quantity * sizing.market.unit
           after == After(portfolio, opportunity, proposal.gross)
<1>1. /\ simulation # Nothing /\ simulation.violations = {} /\ Known(proposal.loss)
      /\ simulation.unknowns \cap Critical = {}
  BY DEF IInv, DecidedAs, DecisionOf, Rejects, LossUnquantified, CriticalUnknowns
<1>2. proposal # Nothing /\ sizing # Nothing /\ proposal.gross = e
  BY <1>1 DEF IInv, SimulatedAs, ProposedAs
<1>3. SimulationViolations(proposal, after, a, simulation.risk) = {}
  BY <1>1 DEF IInv, SimulatedAs
<1>4. SimulationUnknowns(proposal, a) \cap {"LOSS", "NAV"} = {}
  BY <1>1 DEF IInv, SimulatedAs, Critical
<1>5. /\ a \in Accounts /\ simulation.risk \in {"WITHIN", "OVER"}
      /\ sizing.market \in Markets /\ sizing.quantity \in Nat
  BY <1>1, <1>2 DEF IInv, SimulatedAs, SizedAs
<1>6. e \in Nat /\ Gross(portfolio) \in Nat /\ Gross(after) = Gross(portfolio) + e
  <2>1. e \in Nat
    BY <1>5, TradeAssumption
  <2> QED BY <2>1, <1>2, GrossOfAfter
<1>7. Known(sizing.market.lossPerUnit)
      /\ proposal.loss = sizing.quantity * sizing.market.lossPerUnit
  BY <1>1, <1>2 DEF IInv, ProposedAs, Known
<1>8. ASSUME Known(a.limits.loss)
      PROVE  sizing.quantity * sizing.market.lossPerUnit <= a.limits.loss
  <2>1. ~(proposal.loss > a.limits.loss)
    BY <1>8, <1>1, <1>3 DEF SimulationViolations, CapitalOver, RiskOver
  <2>2. a.limits.loss \in Nat /\ sizing.market.lossPerUnit \in Nat
    BY <1>5, <1>7, <1>8, TradeAssumption DEF Known, Amounts, Limits
  <2>3. proposal.loss \in Nat
    BY <2>2, <1>5, <1>7
  <2> QED BY <2>1, <2>2, <2>3, <1>7
<1>9. ASSUME Known(a.limits.weight)
      PROVE  e * 100 <= a.limits.weight * (Gross(portfolio) + e)
  <2>1. ~(proposal.gross * 100 > a.limits.weight * Gross(after))
    BY <1>9, <1>3 DEF SimulationViolations, CapitalOver, RiskOver
  <2>2. a.limits.weight \in Nat
    BY <1>5, <1>9, TradeAssumption DEF Known, Amounts, Limits
  <2>3. a.limits.weight * (Gross(portfolio) + e) \in Nat
    BY <2>2, <1>6
  <2> HIDE DEF e, after, a
  <2> QED BY <2>1, <2>3, <1>2, <1>6
<1>10. ASSUME Known(a.limits.gross)
       PROVE  Known(a.nav) /\ (Gross(portfolio) + e) * 100 <= a.limits.gross * a.nav
  <2>1. Known(a.nav)
    BY <1>10, <1>4 DEF SimulationUnknowns
  <2>2. ~(Gross(after) * 100 > a.limits.gross * a.nav)
    BY <1>10, <2>1, <1>3 DEF SimulationViolations, CapitalOver, RiskOver
  <2>3. a.limits.gross \in Nat /\ a.nav \in Nat
    BY <1>5, <1>10, <2>1, TradeAssumption DEF Known, Amounts, Limits
  <2>4. a.limits.gross * a.nav \in Nat
    BY <2>3
  <2> HIDE DEF e, after, a
  <2> QED BY <2>1, <2>2, <2>4, <1>6
<1>11. Known(a.limits.risk) => simulation.risk = "WITHIN"
  BY <1>3, <1>5 DEF SimulationViolations, CapitalOver, RiskOver
<1>12. ASSUME Known(a.limits.cio), Known(a.cash["EUR"].available)
       PROVE  Capital(opportunity, sizing.instrument, e) <= Deployable(a, "EUR") * a.limits.cio
  <2>1. ~(proposal.capital > Deployable(a, "EUR") * a.limits.cio)
    BY <1>12, <1>3 DEF SimulationViolations, CapitalOver
  <2>2. proposal.capital = Capital(opportunity, sizing.instrument, e)
    BY <1>1, <1>2 DEF IInv, SimulatedAs, ProposedAs
  <2>3. a.limits.cio \in Nat /\ Deployable(a, "EUR") \in Int
    BY <1>5, <1>12, TradeAssumption
    DEF Known, Amounts, Limits, Currencies, CashShape, Deployable, None
  <2>4. sizing.instrument.margin \in Nat
    BY <1>1, <1>2, TradeAssumption DEF IInv, SizedAs
  <2>5. Capital(opportunity, sizing.instrument, e) \in Nat
    <3> HIDE DEF e
    <3> QED BY <2>4, <1>6 DEF Capital
  <2>6. Deployable(a, "EUR") * a.limits.cio \in Int
    BY <2>3
  <2> HIDE DEF e, a
  <2> QED BY <2>1, <2>2, <2>5, <2>6
<1> QED BY <1>7, <1>8, <1>9, <1>10, <1>11, <1>12 DEF AcceptedWithinLimits

LEMMA ViewFromInvariant == IInv => TakesTheView
<1> SUFFICES ASSUME IInv, proposal # Nothing, sizing.instrument = candidate
             PROVE  Bearish(proposal.side, sizing.instrument)
                      <=> opportunity.direction = "SHORT"
  BY DEF TakesTheView
<1>1. sizing # Nothing /\ proposal.side = Side(opportunity, candidate)
  BY DEF IInv, ProposedAs
<1>2. candidate # Nothing /\ Side(opportunity, candidate) # "NONE"
  BY <1>1 DEF IInv, SizedAs
<1>3. Directional(opportunity, candidate)
  BY <1>2 DEF IInv, RankedAs, Eligible
<1>4. opportunity.direction \in {"LONG", "SHORT"}
  BY TradeAssumption DEF IInv, Inputs
<1> QED BY <1>1, <1>2, <1>3, <1>4 DEF Bearish, Side, Directional

-----------------------------------------------------------------------------
(* Theorems.                                                               *)

\* With the weights and the minimum coverage of the scoring engine, the gate
\* opens only on a measured target in a portfolio that is not empty.
THEOREM GateMeasured == Spec => []GateNeedsMeasuredRisk
BY Invariant, MeasuredFromInvariant, PTL

\* Under one account the simulator finds nothing exceeded that the filter and
\* the sizer found within the limits: weight and gross exposure of a target
\* position, its loss and, for EUR funding, the share of deployable cash.
THEOREM BudgetsHold == Spec => []WithinBudgets
<1>1. IInv => WithinBudgets
  BY FitFromInvariant, SizingFromInvariant DEF WithinBudgets
<1> QED BY <1>1, Invariant, PTL

\* An accepted trade keeps every evaluated limit, the share of deployable cash
\* among them, and its loss is known.
THEOREM AcceptanceSound == Spec => []AcceptedWithinLimits
BY Invariant, AcceptedFromInvariant, PTL

\* Without an import in between, a proposal takes the opportunity's side.
THEOREM ViewTaken == Spec => []TakesTheView
BY Invariant, ViewFromInvariant, PTL

\* Both: what is accepted is what was meant, within the limits.
THEOREM AcceptedMeansWell == Spec => []AcceptedAsMeant
<1>1. IInv => AcceptedAsMeant
  BY AcceptedFromInvariant, ViewFromInvariant DEF AcceptedAsMeant
<1> QED BY <1>1, Invariant, PTL
=============================================================================
