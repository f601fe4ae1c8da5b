----------------------------- MODULE TradeRules -----------------------------
(***************************************************************************)
(* The numbers behind the lifecycle of one opportunity: the portfolio      *)
(* filter (portfolio_filter_service.py, portfolio_fit_scoring.py), the     *)
(* instrument selector, the position sizer, the proposal builder, the      *)
(* portfolio simulator and the CIO decision engine, each reading the       *)
(* account that is the latest when it runs.  OpportunityLifecycle has the  *)
(* rows and their order; this module has the rules that decide them.       *)
(*                                                                         *)
(* Amounts are integers: EUR and USD in whole units, percentages in        *)
(* hundredths, capital (gross exposure times margin percentage) in         *)
(* hundredths of EUR, so that no rule needs a division.  The code's        *)
(* tolerances of 1e-9 vanish with the floating point they are there for.   *)
(* What a risk engine computes from prices (beta, VaR, the fit score) is   *)
(* an input.                                                               *)
(***************************************************************************)
EXTENDS Integers

CONSTANTS
    Accounts,       \* AccountState records the operator may set
    LaterAccounts,  \* those among them set while the opportunity is open
    Portfolios,     \* [long, short]: exposures of the snapshot
    Opportunities,  \* [direction, target, loss]
    Instruments,    \* broker metadata, see InstrumentShape
    Markets,        \* [unit, fx, lossPerUnit]: price in EUR, EUR per quote unit
    Requests,       \* exposures an operator may ask for when sizing
    MaxQuantity,    \* bound on the whole units of a position
    MaxChanges      \* bound on changes of account or metadata

None == -1
Known(v) == v # None
Amounts == Nat \cup {None}

Currencies == {"EUR", "USD"}
Limits == {"loss", "weight", "gross", "cio", "risk", "reserve"}

\* CurrencyCash: validated to 0 <= reserve <= available; None: no entry.
CashShape(c) == c.available = None \/ c.reserve \in 0..c.available

ASSUME TradeAssumption ==
    /\ \A a \in Accounts :
         /\ a.nav \in Amounts \ {0}
         /\ \A cur \in Currencies :
              a.cash[cur].available \in Amounts /\ CashShape(a.cash[cur])
         /\ \A l \in Limits : a.limits[l] \in Amounts
    /\ LaterAccounts \subseteq Accounts
    /\ \A p \in Portfolios : p.long \in Nat /\ p.short \in Nat
    /\ \A o \in Opportunities :
         /\ o.direction \in {"LONG", "SHORT"}
         /\ o.target \in Amounts \ {0} /\ o.loss \in Amounts
    /\ \A i \in Instruments :
         /\ i.relationship \in {"DIRECT", "INVERSE", "LEVERAGED_LONG", "STRUCTURED"}
         /\ i.long \in {"YES", "NO", "UNKNOWN"}
         /\ i.short \in {"YES", "NO", "UNKNOWN"}
         /\ i.funding \in Currencies
         /\ i.ordinary \in BOOLEAN
         /\ i.margin \in 1..100 /\ (i.ordinary => i.margin = 100)
         /\ i.session \in {"ANY", "INTRADAY_ONLY"}
    /\ \A m \in Markets : m.unit \in Nat \ {0} /\ m.fx \in Nat \ {0}
                          /\ m.lossPerUnit \in Amounts \ {0}
    /\ Requests \subseteq Amounts \ {0}
    /\ MaxQuantity \in Nat /\ MaxChanges \in Nat

VARIABLES
    account,      \* the latest AccountState
    portfolio,    \* the snapshot's exposures; snapshots are immutable
    opportunity,
    instrument,   \* the metadata row of the broker's instrument
    fit,          \* PortfolioFitAssessment
    candidate,    \* the eligible InstrumentCandidate, with the row it was ranked on
    sizing,       \* PositionSizingResult
    proposal,     \* TradeProposal
    simulation,   \* PortfolioSimulation
    decision,     \* CioDecision
    changes       \* changes of account or metadata so far

vars == <<account, portfolio, opportunity, instrument, fit, candidate, sizing,
          proposal, simulation, decision, changes>>

inputs == <<portfolio, opportunity>>

Nothing == [none |-> TRUE]

-----------------------------------------------------------------------------
(* Portfolio filter.                                                       *)

Gross(p) == p.long + p.short

Verdict(limit, value, holds) ==
    IF ~Known(limit) THEN "NOT_APPLICABLE"
    ELSE IF ~Known(value) THEN "UNKNOWN"
    ELSE IF holds THEN "PASS" ELSE "FAIL"

\* risk: what the marginal-risk engine says of the beta and VaR limits.
Checks(o, p, a, risk) ==
    [target  |-> IF Known(o.target) THEN "PASS" ELSE "UNKNOWN",
     loss    |-> Verdict(a.limits.loss, o.loss, o.loss <= a.limits.loss),
     weight  |-> Verdict(a.limits.weight, o.target,
                   o.target * 100 <= a.limits.weight * (Gross(p) + o.target)),
     gross   |-> Verdict(a.limits.gross, IF Known(o.target) THEN a.nav ELSE None,
                   (Gross(p) + o.target) * 100 <= a.limits.gross * a.nav),
     cio     |-> Verdict(a.limits.cio, None, FALSE),
     risk    |-> Verdict(a.limits.risk, IF risk = "UNAVAILABLE" THEN None ELSE 0,
                   risk = "WITHIN"),
     reserve |-> Verdict(a.limits.reserve, None, FALSE)]

Statuses(checks) == {checks[c] : c \in DOMAIN checks}

Weights == [directional |-> 10, concentration |-> 15, correlation |-> 15,
            volatility |-> 20, beta |-> 15, tail_risk |-> 25]

MinScoringCoverage == 70

\* Mutant: an unknown component counts as neutral.
UnknownIsNeutral(o, p, risk, correlated) == DOMAIN Weights

\* The components that can be scored: an empty portfolio has no exposure
\* ratio, no effective positions and no marginal efficiency.
Scorable(o, p, risk, correlated) ==
    (IF Known(o.target) THEN {"directional"} ELSE {})
      \cup (IF risk # "UNAVAILABLE" /\ correlated THEN {"correlation"} ELSE {})
      \cup (IF Known(o.target) /\ Gross(p) > 0 THEN {"concentration"} ELSE {})
      \cup (IF risk # "UNAVAILABLE" /\ Known(o.target) /\ Gross(p) > 0
            THEN {"volatility", "beta", "tail_risk"} ELSE {})

Coverage(components) ==
    LET share(c) == IF c \in components THEN Weights[c] ELSE 0
    IN share("directional") + share("concentration") + share("correlation")
         + share("volatility") + share("beta") + share("tail_risk")

\* score: where the weighted score falls (below 35, below 70, or above);
\* warned: coverage of the portfolio's analytics below 100 %.
FitDecision(checks, components, score, warned) ==
    IF "FAIL" \in Statuses(checks) THEN "REJECT"
    ELSE IF Coverage(components) < MinScoringCoverage THEN "UNKNOWN"
    ELSE IF score = "ADVERSE" THEN "REJECT"
    ELSE IF "UNKNOWN" \in Statuses(checks) \/ warned \/ score = "MIXED"
         THEN "PASS_WITH_WARNING"
    ELSE "PASS"

\* The marginal-risk engine's answer, if it has one, on the trade as the
\* portfolio would hold it: within the beta and VaR limits or over them.
MarginalRisks == {"WITHIN", "OVER"}
RiskContexts == {"UNAVAILABLE"} \cup MarginalRisks

\* The engine is not called without a target exposure.
Assess ==
    /\ fit = Nothing
    /\ \E risk \in RiskContexts, correlated, warned \in BOOLEAN,
          score \in {"ADVERSE", "MIXED", "STRONG"} :
         /\ ~Known(opportunity.target) => risk = "UNAVAILABLE"
         /\ fit' = [decision |-> FitDecision(
                        Checks(opportunity, portfolio, account, risk),
                        Scorable(opportunity, portfolio, risk, correlated), score,
                        warned \/ (Known(opportunity.target) /\ risk = "UNAVAILABLE")),
                    risk |-> risk,
                    account |-> account]
    /\ UNCHANGED <<inputs, account, instrument, candidate, sizing, proposal,
                   simulation, decision, changes>>

GateOpen == fit # Nothing /\ fit.decision \in {"PASS", "PASS_WITH_WARNING"}

-----------------------------------------------------------------------------
(* Instrument selection.                                                   *)

Directional(o, i) ==
    \/ /\ o.direction = "LONG"
       /\ i.relationship \in {"DIRECT", "LEVERAGED_LONG", "STRUCTURED"}
       /\ i.long # "NO"
    \/ /\ o.direction = "SHORT"
       /\ \/ i.relationship = "DIRECT" /\ i.short = "YES"
          \/ i.relationship = "INVERSE" /\ i.long = "YES"

\* The opportunities here are held over several sessions.
HorizonFits(i) == i.session # "INTRADAY_ONLY"

Eligible(o, i) == Directional(o, i) /\ HorizonFits(i)

\* The ranking is a snapshot of the row; a later import does not repeat it
\* for an opportunity that is past this step.
Select ==
    /\ GateOpen
    /\ candidate = Nothing
    /\ Eligible(opportunity, instrument)
    /\ candidate' = instrument
    /\ UNCHANGED <<inputs, account, instrument, fit, sizing, proposal,
                   simulation, decision, changes>>

-----------------------------------------------------------------------------
(* Position sizing.  Every other reason to raise leaves the store as it    *)
(* is: the action is then not enabled.                                     *)

Side(o, i) ==
    IF o.direction = "LONG" \/ i.relationship = "INVERSE" THEN "BUY"
    ELSE IF i.relationship = "DIRECT" /\ i.short = "YES" THEN "SELL_SHORT"
    ELSE "NONE"

\* The lower of the two amounts that are known.
LeastKnown(v, w) ==
    IF ~Known(v) THEN w ELSE IF ~Known(w) \/ v <= w THEN v ELSE w

\* Mutant: the opportunity's own figure is preferred to the account's limit.
OwnBudget(o, a) == IF Known(o.loss) THEN o.loss ELSE a.limits.loss

RiskBudget(o, a) == LeastKnown(o.loss, a.limits.loss)

DirectShort(o, i) ==
    Side(o, i) = "SELL_SHORT" /\ i.relationship = "DIRECT" /\ i.ordinary

FundingCurrency(o, i) == IF DirectShort(o, i) THEN "EUR" ELSE i.funding

Deployable(a, currency) ==
    a.cash[currency].available - a.cash[currency].reserve

\* Hundredths of EUR bound by a position of the given gross exposure.
Capital(o, i, gross) == IF DirectShort(o, i) THEN gross * 100 ELSE gross * i.margin

\* What one unit of deployable cash of a currency is worth in EUR.
CashFx(currency, m) == IF currency = "EUR" THEN 1 ELSE m.fx

\* The limits a quantity is cut to, each [per unit, in all].
QuantityLimits(o, i, a, m, exposure) ==
    LET budget == RiskBudget(o, a)
        currency == FundingCurrency(o, i)
    IN (IF Known(exposure) THEN {[per |-> m.unit, all |-> exposure]} ELSE {})
         \cup (IF Known(m.lossPerUnit) /\ Known(budget)
               THEN {[per |-> m.lossPerUnit, all |-> budget]} ELSE {})
         \cup (IF Known(a.limits.cio) /\ Known(a.cash[currency].available)
               THEN {[per |-> Capital(o, i, m.unit),
                      all |-> Deployable(a, currency) * CashFx(currency, m)
                                * a.limits.cio]}
               ELSE {})

Within(q, limits) == \A l \in limits : q * l.per <= l.all

\* floor(min(total / per unit)): the largest whole quantity within them all.
IsQuantity(q, limits) == Within(q, limits) /\ ~Within(q + 1, limits)

SizingViolations(o, i, a, m, q) ==
    LET currency == FundingCurrency(o, i)
        capital == Capital(o, i, q * m.unit)
        funds == Deployable(a, currency) * CashFx(currency, m)
        budget == RiskBudget(o, a)
    IN (IF Known(budget) /\ Known(m.lossPerUnit) /\ q * m.lossPerUnit > budget
        THEN {"BUDGET"} ELSE {})
         \cup (IF ~Known(a.cash[currency].available) THEN {"NO_CASH_ENTRY"}
               ELSE (IF capital > funds * 100 THEN {"FUNDS"} ELSE {})
                      \cup (IF Known(a.limits.cio) /\ capital > funds * a.limits.cio
                            THEN {"CIO"} ELSE {}))

\* The PositionSizingResult of a quantity, on the rows as they are now.
SizedTo(q, m, exposure) ==
    [quantity |-> q,
     market |-> m,
     exposure |-> exposure,
     instrument |-> instrument,
     account |-> account,
     violations |-> SizingViolations(opportunity, instrument, account, m, q)]

\* An operator's request replaces the target exposure.  A sizing that fails
\* its constraints is stored and may be repeated.
Size(m, request) ==
    LET exposure == IF Known(request) THEN request ELSE opportunity.target
        limits == QuantityLimits(opportunity, instrument, account, m, exposure)
    IN /\ candidate # Nothing
       /\ proposal = Nothing
       /\ sizing # Nothing => sizing.violations # {}
       /\ Side(opportunity, instrument) # "NONE"
       /\ limits # {}
       /\ \E q \in 1..MaxQuantity :
            /\ IsQuantity(q, limits)
            /\ sizing' = SizedTo(q, m, exposure)
       /\ UNCHANGED <<inputs, account, instrument, fit, candidate, proposal,
                      simulation, decision, changes>>

-----------------------------------------------------------------------------
(* Proposal, simulation, decision.                                         *)

\* TradeProposalBuilder._validate_inputs
Proposable == sizing # Nothing /\ sizing.violations = {}

Propose ==
    /\ proposal = Nothing
    /\ Proposable
    /\ proposal' =
         [gross |-> sizing.quantity * sizing.market.unit,
          loss |-> IF Known(sizing.market.lossPerUnit)
                   THEN sizing.quantity * sizing.market.lossPerUnit ELSE None,
          capital |-> Capital(opportunity, sizing.instrument,
                              sizing.quantity * sizing.market.unit),
          side |-> Side(opportunity, sizing.instrument)]
    /\ UNCHANGED <<inputs, account, instrument, fit, candidate, sizing,
                   simulation, decision, changes>>

After(p, o, gross) ==
    [long  |-> p.long + (IF o.direction = "LONG" THEN gross ELSE 0),
     short |-> p.short + (IF o.direction = "LONG" THEN 0 ELSE gross)]

\* The capital the trade takes against what the account may deploy.
CapitalOver(t, a) ==
    Known(a.limits.cio) /\ Known(a.cash["EUR"].available)
      /\ t.capital > Deployable(a, "EUR") * a.limits.cio

\* The projected beta and VaR always come with the canonical adapter.
RiskOver(a, risk) == Known(a.limits.risk) /\ risk = "OVER"

SimulationViolations(t, after, a, risk) ==
    (IF Known(a.limits.loss) /\ Known(t.loss) /\ t.loss > a.limits.loss
     THEN {"LOSS"} ELSE {})
      \cup (IF Known(a.limits.weight) /\ t.gross * 100 > a.limits.weight * Gross(after)
            THEN {"WEIGHT"} ELSE {})
      \cup (IF Known(a.limits.gross) /\ Known(a.nav)
                 /\ Gross(after) * 100 > a.limits.gross * a.nav
            THEN {"GROSS"} ELSE {})
      \cup (IF CapitalOver(t, a) THEN {"CIO"} ELSE {})
      \cup (IF RiskOver(a, risk) THEN {"RISK"} ELSE {})

\* Limits that are configured and cannot be evaluated; min_cash_reserve is
\* not among them: the simulator does not look at it.
SimulationUnknowns(t, a) ==
    (IF Known(a.limits.loss) /\ ~Known(t.loss) THEN {"LOSS"} ELSE {})
      \cup (IF Known(a.limits.gross) /\ ~Known(a.nav) THEN {"NAV"} ELSE {})
      \cup (IF Known(a.limits.cio) /\ ~Known(a.cash["EUR"].available)
            THEN {"CIO"} ELSE {})

\* The PortfolioSimulation: the portfolio with the trade against the limits
\* of the account as it is now.
SimulatedUnder(risk) ==
    LET after == After(portfolio, opportunity, proposal.gross)
    IN [after |-> after,
        violations |-> SimulationViolations(proposal, after, account, risk),
        unknowns |-> SimulationUnknowns(proposal, account),
        risk |-> risk,
        account |-> account]

Simulate ==
    /\ proposal # Nothing
    /\ simulation = Nothing
    /\ \E risk \in MarginalRisks : simulation' = SimulatedUnder(risk)
    /\ UNCHANGED <<inputs, account, instrument, fit, candidate, sizing, proposal,
                   decision, changes>>

\* Mutant: an unknown NAV is a warning like any other.
OnlyLossIsCritical == {"LOSS"}

\* _is_critical_warning reads the wording: of the three unknowns above, the
\* one about CIO deployable capital is not critical.
Critical == {"LOSS", "NAV"}

\* A hard constraint failed: nothing else is looked at.
Rejects(s) == s.violations # {}

\* The trade's own structure, and the warnings of its simulation.
LossUnquantified(t) == ~Known(t.loss)
CriticalUnknowns(s) == s.unknowns \cap Critical

DecisionOf(t, s) ==
    IF Rejects(s) THEN "REJECT"
    ELSE IF LossUnquantified(t) \/ CriticalUnknowns(s) # {} THEN "MODIFY"
    ELSE "ACCEPT"

Decide ==
    /\ simulation # Nothing
    /\ decision = "NONE"
    /\ decision' = DecisionOf(proposal, simulation)
    /\ UNCHANGED <<inputs, account, instrument, fit, candidate, sizing, proposal,
                   simulation, changes>>

-----------------------------------------------------------------------------
(* What the operator and the bulk importer do meanwhile.                   *)

SetAccount ==
    /\ changes < MaxChanges
    /\ account' \in LaterAccounts \ {account}
    /\ changes' = changes + 1
    /\ UNCHANGED <<inputs, instrument, fit, candidate, sizing, proposal,
                   simulation, decision>>

ImportInstrument ==
    /\ changes < MaxChanges
    /\ instrument' \in Instruments \ {instrument}
    /\ changes' = changes + 1
    /\ UNCHANGED <<inputs, account, fit, candidate, sizing, proposal,
                   simulation, decision>>

Init ==
    /\ account \in Accounts
    /\ portfolio \in Portfolios
    /\ opportunity \in Opportunities
    /\ instrument \in Instruments
    /\ fit = Nothing /\ candidate = Nothing /\ sizing = Nothing
    /\ proposal = Nothing /\ simulation = Nothing
    /\ decision = "NONE"
    /\ changes = 0

Next ==
    \/ Assess
    \/ Select
    \/ \E m \in Markets, request \in Requests \cup {None} : Size(m, request)
    \/ Propose
    \/ Simulate
    \/ Decide
    \/ SetAccount
    \/ ImportInstrument

Spec == Init /\ [][Next]_vars

-----------------------------------------------------------------------------
(* Properties.                                                             *)

\* No opportunity passes the gate unless its effect on a portfolio that
\* already holds something was measured: with the weights and the minimum
\* coverage of portfolio_fit_scoring.py, a missing target, a failed risk
\* engine or an empty portfolio leaves the fit UNKNOWN, which the gate blocks.
GateNeedsMeasuredRisk ==
    GateOpen =>
        Known(opportunity.target) /\ fit.risk # "UNAVAILABLE" /\ Gross(portfolio) > 0

\* What the filter found acceptable for the target exposure stays acceptable
\* for the whole units it was cut to: unless the account changed in between
\* or the operator asked for another exposure, the simulator finds neither
\* the weight nor the gross limit exceeded (_build_checks against
\* simulate, two separate implementations of the limits).
WithinTheFit ==
    (simulation # Nothing /\ GateOpen /\ simulation.account = fit.account
        /\ sizing.exposure = opportunity.target)
      => simulation.violations \cap {"WEIGHT", "GROSS"} = {}

\* The sizer cuts a position so that the simulator accepts it: under one
\* account the simulated loss respects the limit, and so does the share of
\* deployable cash when the position is funded in EUR, the only currency the
\* simulator looks at.
WithinTheSizing ==
    (simulation # Nothing /\ simulation.account = sizing.account)
      => /\ "LOSS" \notin simulation.violations
         /\ FundingCurrency(opportunity, sizing.instrument) = "EUR"
              => "CIO" \notin simulation.violations

\* The three components that check the limits of an account, filter, sizer
\* and simulator, agree on what is within them.
WithinBudgets == WithinTheFit /\ WithinTheSizing

\* An accepted trade has a known loss, and the portfolio with its quantity
\* added keeps the loss, weight, gross and risk limits of the account it was
\* simulated under, each of them evaluated.  It keeps the share of deployable
\* EUR cash where that could be evaluated, and only there: without an entry
\* for EUR the code accepts it unevaluated (AcceptedOnEvidence).  Nothing
\* after the filter looks at the minimum cash reserve.
AcceptedWithinLimits ==
    decision = "ACCEPT" =>
      LET a == simulation.account
          gross == sizing.quantity * sizing.market.unit
          after == Gross(portfolio) + gross
      IN /\ Known(sizing.market.lossPerUnit)
         /\ Known(a.limits.loss) =>
              sizing.quantity * sizing.market.lossPerUnit <= a.limits.loss
         /\ Known(a.limits.weight) => gross * 100 <= a.limits.weight * after
         /\ Known(a.limits.gross) =>
              Known(a.nav) /\ after * 100 <= a.limits.gross * a.nav
         /\ Known(a.limits.cio) /\ Known(a.cash["EUR"].available) =>
              Capital(opportunity, sizing.instrument, gross)
                <= Deployable(a, "EUR") * a.limits.cio
         /\ Known(a.limits.risk) => simulation.risk = "WITHIN"

\* What the decision engine sets out with: "Missing critical evidence must not
\* silently become ACCEPT" (cio_decision_engine.py).  What is accepted had no
\* configured limit that its simulation could not evaluate.  The code does
\* not keep this: see Critical.
AcceptedOnEvidence == decision = "ACCEPT" => simulation.unknowns = {}

\* Buying an inverse product or selling a direct one short is bearish.
Bearish(side, i) ==
    (side = "SELL_SHORT") # (i.relationship = "INVERSE")

\* A proposal takes the side of the opportunity, unless an import rewrote
\* the instrument after it was ranked: the selector's and the sizer's
\* readings of relationship and availability agree.
TakesTheView ==
    (proposal # Nothing /\ sizing.instrument = candidate)
      => (Bearish(proposal.side, sizing.instrument) <=> opportunity.direction = "SHORT")

\* What the desk accepts is what the opportunity meant, within the account's
\* limits: the quantity through filter, sizer and simulator, the side through
\* selector, sizer and proposal.
AcceptedAsMeant == AcceptedWithinLimits /\ TakesTheView
=============================================================================
