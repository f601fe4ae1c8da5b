# TLA+ verification of agentic_portfolio

The repository is a research desk for one operator: it analyses a portfolio,
scans exchanges for candidates, researches them with a local model, and takes a
selected opportunity through a *dry-run* chain of portfolio checks up to an
execution plan the operator confirms by hand. Nothing is ever sent to a broker.
State lives in SQLite tables and in JSON cache files.

What is hard to test here is the control: every save is a transaction of its
own, runs are resumed after crashes, rate limits and cache misses, the same run
is invoked in different modes, several invocations share cache files, and each
layer promises that evidence once stored is never rewritten. Just as hard are
rules written in several places that have to agree, and a language model's
answers that pass through validation and repair. That is what these modules
model.

Contents: [components](#1-the-system), [plan](#2-plan),
[modules and code](#3-modules-and-how-they-correspond-to-the-code),
[runs](#4-runs-bounds-and-fairness), [findings](#5-findings),
[proofs](#6-proofs), [what is left out](#7-not-modelled).

## 1. The system

All paths are below `src/`. The layers call downward, by plain method calls in
one process; there are no background threads except the ranking's thread pool.
`PROJECT.json` lists every component with its source files.

| Component | State it keeps | Operations | What makes it hard | What makes it correct |
| --- | --- | --- | --- | --- |
| **Stage 4 orchestrator** `app/e2e/stage4_service.py`, `stage4_store.py`, `stage4_contracts.py` | tables of runs (manifest), stage records, PARTIAL attempts | `run(request)`; `save_run`, `save_stage`, `save_attempt` | record and manifest are two transactions; resume applies stored outputs again; the mode may change between invocations of one run; a terminal manifest is immutable | stages durable in order, one chain of artefact identities, no plan without the operator's selection, network calls accounted for, no stage executed twice unless a crash lost it |
| **Canonical adapters** `stage4_adapters.py`, `stage4_runtime.py` | none of their own | one function per external stage | turn the outcome of a lower run into a stage result; the same reason means *resumable* below and *terminal* above | each result carries the lineage the orchestrator checks |
| **Candidate replenishment** `stage4_replenishment*.py` | sessions, wave ledger | `run(session)`: plan, execute or resume, save; `execute`, `resume` of a wave | a wave executed and not saved is executed again; a stored wave's outcomes are rebuilt from a record that does not hold them; retry, wave and frontier budgets run out together | bounded; exhaustion only when nothing is left; failed work quarantined; the same session gives the same answer again |
| **Research integration** `app/scanner/research_integration*.py` | runs, hypotheses, outcomes, provenance links; Stage 3 opportunities | `run` in LIVE, CACHE_ONLY, with limits | up to six saves in two databases per hypothesis; rate limit in mid-pass; outcomes of many passes make one manifest | an announced opportunity can be selected; COMPLETED exactly when every hypothesis is terminal; ended work is never done again |
| **AI research and scoring** `app/ai/research_service.py`, `research_validator.py`, `opportunity_scoring_service.py`, `app/scanner/research_integration.py` | none | research with one repair, scoring with two, the gates before an opportunity | every answer of the model is possible; a repair can break what it was not asked for; steps after a check replace what was checked | accepted research is coherent, a created opportunity rests on cited evidence |
| **Selected-opportunity dry run** `app/scanner/selected_opportunity_dry_run*.py` | runs and ten stage records; Stage 3 artefacts | `run` | a stage's effect precedes its record; the operator works on the same opportunity between invocations | no stage below one that is not on record; never an earlier revision; ended runs stay ended |
| **CIO pipeline** `app/cio/portfolio_*`, `instrument_selector.py`, `position_sizer.py`, `trade_proposal_*`, `cio_decision_*`, and the commands of `cli.py` that call them | opportunity status, assessments, candidates, sizings, proposals, simulations, decisions in `storage.py` | refresh, select instruments, size, propose, simulate, decide | every service reads the *latest* artefact of an opportunity; a row and the status that reports it are two transactions; filter, sizer and simulator each implement the account's limits | a plan joins one revision of the chain; no stage is skipped; what is accepted keeps the limits |
| **Manual execution lifecycle** `execution_plan_*`, `operator_confirmation_service.py`, `trade_outcome_*` | plans, confirmations, outcomes | create plan, confirm executed or cancelled, open and close an outcome | confirmation and plan status are two transactions; broker metadata change and instruments disappear under a plan; the outcome updated last is not always the one opened last | one report per plan, a status that never says anything else, one outcome per execution, history never rewritten |
| **Exchange caches and composition** `cached_exchange_provider.py`, `provider_cache.py`, `provider_composition.py`, `universe_provider.py` | cache files | `fetch` with three refresh modes, composition of a universe | expiry, failed refresh, failed write, partial refresh, other invocations on the same files | age limits, no call in cache-only mode, SUCCESS only for a whole universe |
| **Stage 3 store** `app/cio/storage.py`, `models.py` | one SQLite table per artefact, from account states to trade outcomes | upsert, get, list and latest of each | the schema checks few links between tables, the save methods the rest, each against rows stored by other commands | a row leads back to one story; lists that lead to the same rows agree |
| **Instrument cache and bulk import** `app/cio/bulk_importer.py`, the `instrument` and `opportunity` commands of `cli.py` | `fineco_instruments`, waiting opportunities; the importer's map of identities | import (dry or real), add, edit, delete, refresh | one transaction per item, one refresh at the end, a cache read once, other terminals in between | a report that tells the truth; nobody waits beside his instruments without a cause; an import costs no instrument |
| Frontier ranking, shadow ledger, watch universe, verification cache, history gates, eligibility, taxonomy, discovery, portfolio import, analytics, listing commands | see [7](#7-not-modelled) | | | |

### Interactions

`Stage4E2EService.run` calls the adapters, which call portfolio analysis, the
scanner, the watch universe, the research integration and the dry run, each with
a store of its own; a lower run has an identity derived from its inputs, so that
a repeated stage finds its earlier work. The replenishment service sits behind
the research stage: its executor starts child research-integration runs for
waves of listings. The dry run calls the CIO services, which read and write the
Stage 3 store. A selected, planned opportunity then leaves the automatic part:
the operator confirms the plan and records its outcome.

### Hazards

`PROJECT.json` lists 40 hazards, each at its line: what a crash between two
transactions leaves, what a resume reads that has changed or was never stored,
what several invocations or commands add up to, where a budget meets its limit
and where two implementations of one rule have to agree. Those that no property
covers say why.

## 2. Plan

Every module of the plan is written. In the order of the plan:

1. **Stage4Run**, abstract **Stage4Promise**, proofs **Stage4RunProofs**: the
   orchestrator with crashes, resumes and modes.
2. **Replenishment**, proofs **ReplenishmentProofs**: bounded search with replay of
   the wave ledger.
3. **OpportunityLifecycle**, abstract **ManualTradePromise**, proofs
   **OpportunityLifecycleProofs**: one opportunity from discovery to its closed
   trade.
4. **SelectedDryRun** EXTENDS OpportunityLifecycle: the ten stages on the tables
   of 3, with the operator's commands of 3 in between; its theorems stand on those of
   3, in **OpportunityLifecycleProofs**.
5. **ResearchIntegration**, proofs **ResearchIntegrationProofs**: hypothesis
   outcomes over several passes.
6. **HypothesisAppraisal** EXTENDS **ResearchRepair**: what a hypothesis's
   research and score become, whatever the language model answers; its theorems are
   in **ResearchIntegrationProofs**, beside those of the passes it is part of.
7. **TradeRules**, proofs **TradeRulesProofs**: the numbers behind the commands of
   3.
8. **ExchangeCatalog**, proofs **ExchangeCatalogProofs**: the caches, several
   invocations on one directory, and the composed universe.
9. **Stage3Store**, proofs **Stage3StoreProofs**: the tables under 3, what each
   save demands and what the lists say.
10. **InstrumentCache**, proofs **InstrumentCacheProofs**: the bulk import, the
    instrument commands and the opportunities that wait.

What was planned and left, with the reason, is in section 7. Every safety and action
property of a passing run is also a theorem (section 6); the liveness properties are
model-checked.

## 3. Modules and how they correspond to the code

`map` in `PROJECT.json` gives the source lines of every definition.

### Stage4Run

One run, that is, one request fingerprint; `requested` is the part of the request
the control depends on. The mode is not part of the fingerprint, so `Invoke`
picks one each time.

| TLA+ | Code |
| --- | --- |
| `run`, `stages`, `attempts` | tables `stage4_e2e_runs`, `_stages`, `_stage_attempts` |
| `current`, `stage`, `result`, `mode` | locals of `run()`; wiped when it ends or dies |
| `pc` | `stage`: top of the loop; `save`: result validated, nothing stored; `commit`: record stored, manifest not |
| `Invoke` | the look-up, the early return of a terminal run (`Settled`), the first `save_run` |
| `Replay`, `Refuse`, `Execute` | the three cases of `get_stage` at the top of the loop |
| `ExecutionResults`, `AdapterResults` | `_execute`, `ExistingStage4ServicesAdapter`, `CanonicalStage4Runtime` |
| `Validated` | `_validate_result` and the records built from its two exceptions |
| `SaveRecord`, `SaveRun` | `save_stage` or `save_attempt`; `_build_run` and `save_run` |
| `Crash` | the process dies between any two of these |

Artefact identities are model values, so "the same snapshot" is equality. The
orders, mutations and executions counters and the two dry-run flags are one bit
(`effects`): the code refuses a result if any of them is set. Adapters return
any result their code can build for the stage, including lineage that does not
match and calls made in CACHE_ONLY: the orchestrator is supposed to catch these.
`ended`, `crashes` and `executed` only observe. `AttemptCalls`, the calls of the
PARTIAL attempts, counts the pairs of an attempt and one of its calls, for any
`MaxCalls`; it is what `RecordedCalls` adds to the calls of the records.

### Stage4Promise

What the operator relies on, without the program: stages become durable one at
a time in order; a PARTIAL run may start again; every other outcome is final and
comes only where it can. Stage4Run implements it with `status <- run.status`
and `durable <- Durable` (the stages with a COMPLETED record).

### Replenishment

One session invoked any number of times. `waves` is the ledger; everything else
an invocation knows is rebuilt (`FreshMemory`).

| TLA+ | Code |
| --- | --- |
| `wave`, `retry`, `current`, `outcomes`, `attempted`, `quarantined`, `walked` | locals of `Stage4CandidateReplenishmentService.run`; `walked` stands for `wave_record_ids` with the outcomes seen |
| `Decision`, `PlanWave`, `NextBatch` | `plan_candidate_wave` and the frontier order |
| `RecordOf` | the look-up by plan fingerprint; a plan's fingerprint covers all its fields, so plans are compared whole |
| `Execute`, `Resume` | `CanonicalReplenishmentWaveExecutor.execute`, `resume` |
| `Executions`, `RoutedExecutions` | cache miss, history routing, child run, exceptions |
| `SaveWave` | `_validate_execution`, `save_wave` and the rest of the loop body |
| `held` | the execution between `execute` and `save_wave`: lost in a crash |

Listings are numbered in the order the persisted ranking fixes. A listing has
two directional hypotheses, hence one or two outcome classes. `Executed` builds
records whose opportunities are those of the outcomes, as the executor does;
that `_validate_execution` accepts a *replayed* record is part of `ReplayFaithful`
(`ReplayAccepted`). `policy` is the `CandidateReplenishmentPolicy` of the session,
chosen at the start with the bounds of its behaviours, so that one run checks
sessions of different policies.

### OpportunityLifecycle

One opportunity under its current snapshot, its rows in the Stage 3 store, and
around it the portfolio snapshots, the instrument cache and the portfolio fit.
The commands are those of `app/cio/cli.py` with the services they call.

| TLA+ | Code |
| --- | --- |
| `status` | `trade_opportunities.status`; REJECTED, EXPIRED and UNDER_REVIEW are never set |
| `current`, `metadata`, `fits` | the newest portfolio snapshot; `fineco_instruments` with the version of the fields a plan copies; what the stored assessments mean at the gate |
| `eligible`, `sizing` | `instrument_candidates` (replaced as a whole), the newest position sizing |
| `proposals`, `simulations`, `decisions`, `plans`, `confirmations`, `outcomes` | the tables in the order of `created_at`; a row's position stands for its id |
| `updatedLast` | the row `get_latest_trade_outcome` returns: outcomes are ordered by `updated_at`, which closing sets to the exit time the operator typed |
| `SelectInstruments` ... `CloseOutcome` | one action per command: gate, look-ups and refusals as guards, the first save as the effect |
| `pending`, `Mark`, `Settle`, `RefreshWaiting` | the second save of a command, with the conditions under which the store refuses it |
| `Crash` | the process dies between the two saves |

A refused command prints or raises and changes nothing, so it is a guard: one operator
per command names what it demands (`Selectable`, `Sizable`, `Proposable`,
`Simulatable`, `Confirmable`, `Tradable`, `Closable`) and one what it leaves of the
status (`AfterSelection`, `AfterSizing`). A crash between the refresh and the
replacement of the candidates in `opportunity_instruments` leaves what a refresh alone
leaves, so those two saves are one step. Commands of one operator do not overlap:
`Next` starts one only when nothing is pending. A simulation's finding abstracts its
constraints and evidence to what the decision engine makes of them (`Verdict`).

Closing an outcome with an exit time still to come puts it in front of every
outcome opened before that time (`ahead`). An earlier exit time than another
outcome's cannot bring an OPEN outcome to the front again, because an exit is
never before its entry and the entry of the later plan never before the creation
of the earlier outcome.

### ManualTradePromise

What the desk promises about the trades of an opportunity: planned, reported
once as executed or cancelled, an executed one opened once and closed once, and
only the latest may be reported or opened. OpportunityLifecycle implements it
with `trades <- TradeOf(p)` for every plan: what its confirmation and its outcome
say, whatever the plan's own status lags behind.

### SelectedDryRun

One dry run of the opportunity of OpportunityLifecycle, which it extends: a stage
*is* the command, so a change of a command changes both.

| TLA+ | Code |
| --- | --- |
| `run`, `records` | tables `selected_opportunity_dry_runs`, `_stages` |
| `at`, `step`, `result` | the loop of `run()`: stage at hand, what it does next with it, its result before it is saved |
| `Invoke`, `InvokeCacheOnly` | look-up, early return of an ended run, the CACHE_ONLY replay of what is stored |
| `ValidateSelection` ... `PlanExecution` | the ten `_execute_*` methods: effect, block or completion |
| `SaveStage`, `SaveRun` | the record, then the status of the run |
| `Raise`, `DryRunCrash` | an executor that raises; the process dies between any two saves |
| `Operator` | any command of OpportunityLifecycle while no invocation runs |

`runFit` and `laterFit` separate the assessment of the run from one the operator
makes later, because the gate orders assessments by their time and the run
writes its own with its `as_of`.

### ResearchIntegration

One run id, any number of passes.

| TLA+ | Code |
| --- | --- |
| `manifest`, `outcomes`, `links` | the integration store; `opportunities`, `research`: the Stage 3 store |
| `todo`, `step`, `current`, `held`, `assessed` | locals of a pass and the company cache of its process |
| `Selected`, `Start` | `_select_pending_hypotheses` and the running manifest |
| `FetchEvidence` ... `SaveOutcome` | the steps of `_process`, one transaction each |
| `Raise`, `RateLimit`, `Crash` | the two `except` branches of the loop; the process dies |
| `Close` | the final manifest, from the outcomes of all passes |

Hypotheses are numbered in the order of `build_research_hypotheses`, on which the
selection of a limited pass depends. Whether a score is eligible and rests on the
shared assessment is free (`Score`): HypothesisAppraisal decides it.

### ResearchRepair and HypothesisAppraisal

| TLA+ | Code |
| --- | --- |
| `CoverageErrors`, `SemanticErrors` | `ResearchCoverageValidator`, `ResearchSemanticQualityEvaluator` |
| `RepairableFields`, `Repair` | `_repairable_fields`, the merged and normalised second answer |
| `TechnicalBase`, `Bounded` | the deterministic technical score and the bounded adjustment |
| `Shared`, `Mirrored`, `Shrunk`, `Final` | shared company values, the mirror for SHORT, calibration, nulls without context |
| `MissingScores`, `Unsupported`, `Merge`, `Answered`, `OrNull` | the two repairs of a scoring answer |
| `Grounded` | `ComponentAssessment` and `_validate_grounding` |
| `ScoreHypothesis` | one call of `OpportunityScoringService.score`, from the answer over both repairs to the score or the exception |
| `Excess`, `Confidence`, `Fails`, `Decision` | the calculator and the gates of `opportunity_materialization_decision`; the first that refuses gives the reason |

Texts are what the validators tell apart in them: a gap, a future outcome, a
contradiction of a supplied fact. Scores are on the grid of 2.5 points the
software's own calibration uses, 0 to 40; a citation is missing, known or
invented.

### TradeRules

| TLA+ | Code |
| --- | --- |
| `Checks`, `Coverage`, `FitDecision`, `Assess` | `PortfolioFilterService`, `PortfolioFitScoringEngine` |
| `GateOpen` | the decision of `PortfolioLifecycleGate` |
| `Directional`, `Eligible`, `Select` | `InstrumentSelector` |
| `RiskBudget`, `Capital`, `Deployable`, `QuantityLimits`, `SizingViolations`, `Size` | `PositionSizer` and `opportunity_size` |
| `RiskContexts`, `MarginalRisks`, `HorizonFits` | what the filter is told of the portfolio and its risk |
| `SizedTo`, `SimulatedUnder`, `LossUnquantified`, `CriticalUnknowns`, `Rejects` | the records of sizer and simulator, and what the decision makes of them |
| `Propose`, `Simulate`, `Decide` | proposal builder, `PortfolioRiskSimulator`, `CioDecisionEngine` |
| `SetAccount`, `ImportInstrument` | what the operator and the importer change meanwhile |

Amounts are integers and percentages hundredths, so limits are compared by
multiplication and no tolerance is needed. Each record keeps the account and the
market it was computed from. The marginal risk (correlation, beta, VaR) and the
score of the fit are inputs: unavailable, within or over the limit.

### ExchangeCatalog

| TLA+ | Code |
| --- | --- |
| `files`, `now` | the cache directory and the clock, in fractions of a lifetime |
| `Read`, `Load` | `fetch` up to the live call; `ExchangeSymbolFileCache.load` |
| `Refresh`, `RefreshUnwritten`, `FallBack`, `FailLive` | the provider's answer, stored or not; its failure, with and without a usable stale entry |
| `Compose`, `Canonical`, `StatusOf` | `compose_exchange_universe`, `build_canonical_universe` |
| `Damage`, `Die` | a file cut short or edited; the process dies |

An entry remembers when its provider spoke (`answered`) besides the time it was
cached, which is what the code judges by: that the two never part is proved, not
assumed. The lifetime is one constant; in the code it is that of the invocation which
stored the entry (`--ttl-hours` of tools/live_scanner_production_policy.py). The
properties compare an entry with the lifetime it was stored with, so that a second
lifetime would add cases of the same comparison. `CatalogAssumption` says what an
answer is made of (rows of the named fields) and that lifetimes are positive; TLC
evaluates it.

### Stage3Store

The tables as functions from ids to the links of a row; everything else in a row
is left out, but for the fill a confirmation reports and an outcome repeats.

| TLA+ | Code |
| --- | --- |
| `accounts` ... `instruments` | one variable per table |
| `SaveX` | `save_x` of `Stage3Store`, with every look-up and refusal in it |
| `ResearchMatches`, `FitMatches`, `SimulationMatches`, `DecisionMatches`, `PlanMatches`, `OutcomeMatches` | what these methods compare |
| `XOf`, `XOfY` | the list of one parent and its `get_latest` |
| `Put` | `INSERT ... ON CONFLICT DO UPDATE` |

Callers build rows with any links (`FitRows` ... `OutcomeRows`); the store is what
refuses. Assumed of them: an id is new, from `uuid4`, or that of a row read before
and saved with a later status, so the links of a stored row do not change. A plan
is saved again once, when the operator's report settles it, and an outcome once,
when it is closed. The order by `created_at` is OpportunityLifecycle's; lists are
sets here. Only tests call
`delete_trade_opportunity` and `delete_instrument_candidates`: they are no actions.

### InstrumentCache

The instruments of one cache, one opportunity per ticker, one import and one open
edit; everything else is another terminal.

| TLA+ | Code |
| --- | --- |
| `cache`, `opportunity` | `fineco_instruments`; broker discovery in `trade_opportunities.status` |
| `importer` | `import_file`: its items, `existing_by_identity` (`known`), the report so far |
| `StartImport`, `ImportRefused`, `ImportNew`, `ImportKnown`, `FinishImport`, `FinishDryRun` | the steps of `import_file`, a transaction each |
| `ImportDies` | the process dies between two of them |
| `InstrumentAdd`, `InstrumentEditOpen`, `InstrumentEditSubmit`, `InstrumentDelete` | the commands; an edit holds the row it read (`editor`) until the last answer |
| `Reference`, `Cached`, `Refreshed` | the default of `reference_underlying`, its migration included; `find_fineco_instruments`; `refresh_trade_opportunity_broker_state` |
| `Consistent`, `Entered` | the model's validator; what the prompts can put together |
| `Rank` | the pipeline's instrument ranking, after which no refresh sets a status back |

An identity is underlying, type, mode and relationship; its symbol, market and
leverage would only tell more rows apart. A new id is one that nobody has and no
running import or edit still knows (`Unused`): `uuid4` does not repeat. Opportunities
have `broker_instruments_required`, the default. One that is added is saved as
DISCOVERED and refreshed by a second transaction (`OpportunityAdd`,
`OpportunityRefresh`). An import remembers in its map what it saves (`Saved`); a dry
run saves nothing and remembers nothing, so it judges every item by the cache it
started from. `late`, `foretold` and the import's
`disturbed`, `trespassed` and `expected` only observe: rows that came by hand or by
an import that died, what the last dry run reported if nothing changed since, whether
another terminal changed the cache under the import, and whether the file put a new
row under an occupied id.

### MC modules

An `MC` module extends each of these with small sets. No configuration replaces
a definition.

## 4. Runs, bounds and fairness

| Run | Question | Bounds, distinct states |
| --- | --- | --- |
| `stage4_safety` | Does one run keep its evidence, lineage, accounting, immutability and promise, and does each invocation end? | two identities per artefact kind (a match and a mismatch), one opportunity (requested, offered, or not), one PARTIAL attempt, two crashes, calls 0 or 1; 684 472 |
| `stage4_resume` | Is a resume ever refused? **violated**, F1 | one identity, one crash |
| `replenishment_sessions` | Which listings are taken, retried, quarantined; do the bounds, stop reasons and ledger survive a crash and a second invocation? | three listings, two waves, one retry, and two policies: waves of two (a full wave and a rest) over all outcome mixes, history routes and root outcomes; waves of one (the wave budget runs out before the frontier) with one crash and two invocations; 564 487 |
| `lifecycle_execution` | Do status, rows, reports and outcomes agree, is history kept? | one instrument with two metadata versions, two snapshots, proposals, decisions and plans, one crash; 586 060 |
| `dryrun_resume` | Does a resumed dry run keep its order and revision while the operator works? | one instrument, two snapshots, proposals, simulations and decisions, one plan, one crash, one exception, five commands of the operator; 809 934 |
| `research_resume` | Can what is announced be selected, does ended work stay, does the run complete? | a LONG and a SHORT hypothesis of one listing, a monitor, an excluded member, unlimited passes with limit 1 or none, two failures or rate limits, one crash; 973 100 |
| `appraisal` | Is accepted research coherent and a created opportunity supported? | every research answer of two context sets, both directions, three kinds of evidence, eight scoring answers, three repair answers; 78 119 |
| `appraisal_technical` | Is the model's adjustment of the technical score bounded? **violated**, F2 | the same |
| `trade_rules` | Do filter, sizer, simulator and decision agree on the limits, and on the side? | eight accounts (every limit set and unset, no NAV, no cash entry), three portfolios, five instruments, three markets, one change in between; 159 344 |
| `exchange_catalog` | How old is what is served, what is SUCCESS, what is in a file? | two invocations on two files, one lifetime of one tick and a fallback interval of one, four instants, two answers; 628 746 |
| `stage3_store` | Does a stored row lead back to one story, do the lists agree? | five scopes of ids. Three that share no check: two snapshots, risk states and opportunities with one fit; two scans and candidates with one research; two snapshots, proposals, simulations, plans, confirmations, outcomes and fills with one opportunity, decision and instrument. And two of two opportunities with a proposal and a simulation each, one plan and its outcome: one with two decisions, one with two instruments; 213 613 up to the symmetry of ids |
| `instrument_cache` | Who waits beside his instruments, is the report true, does an import cost an instrument? | two ids, a margin line of one ticker and a leveraged fund that may refer to it, two contents (one the margin line's validator refuses), files of one or two items, with and without an id of their own; 1 293 196 |

Why these are enough. In Stage4Run an identity is only compared for equality, so
two values show every match and mismatch; one crash leaves the manifest behind
the records and the second hits the recovery. A second PARTIAL attempt repeats
the first from the same stage. In Replenishment the budget and the frontier each
run out first under one of the two policies; a retry budget of one has both a retry
that recovers and one that does not. The first policy needs waves of two to mix
outcomes within a wave, which makes plans, and so the state space, much larger:
the replay of the ledger is therefore checked with waves of one, where a record
tells everything about its wave except that it was routed to review (`Lossless`;
see the hazard at `stage4_replenishment_runtime.py:265`).

In OpportunityLifecycle two rows of each kind mix revisions, and the two plans of
`lifecycle_execution` are those a metadata change makes. One crash lets any one
second save be lost; a second would only repeat it, as commands do not wait for
each other's second saves. A second proposal lets a status run ahead of its rows.
`PlanFromOneRevision` is checked in `dryrun_resume`, where proposals, simulations and
decisions are two each, and proved for any number.

In Stage3Store a wrong link takes a second row of the kind it leads to, and no
check reaches across fit, scan and trade. In the large scope of a trade these are
snapshots, proposals, simulations, plans, confirmations, outcomes and fills. Second
opportunities, decisions and instruments are in the two scopes of two opportunities:
they let a proposal, a decision or a plan name one opportunity and rest on the rows of
the other, or a plan trade the other's instrument; with the plan's look-up of its
opportunity left out (`PlanOfAnyOpportunity`) `RoutesAgree` fails there and nowhere
else. Symmetry is sound: ids are only compared, the run checks invariants only, and
only ids that come and go together in every scope are permuted. Opportunities,
decisions and instruments are not, and the scopes of two opportunities have a snapshot,
a plan, a confirmation and an outcome of their own (`s3`, `e3`, `c3`, `t3`). In
InstrumentCache two items are a new row and its correction, a row and the one that
takes its id, or a refused item and a good one; a third ticker or id adds another
instance of the same.

In SelectedDryRun an earlier revision takes a second proposal or simulation made
by the operator between two invocations, and a resume: one crash or cache miss
gives the resume, five commands give the second row of every kind that can be
made. In ResearchIntegration both directions of one listing are the smallest
case that shares a company assessment; limit 1 is the only limit that leaves
something out; two failures are a hypothesis that fails again after it was
resumed. The accounts, instruments and markets of `trade_rules` are chosen so
that each limit is the one that binds, is not set, or cannot be evaluated, and
each reading of an instrument (direct, inverse, leveraged, unknown availability,
intraday only) occurs. In ExchangeCatalog four instants reach every combination
of fresh, stale and too old for two files written by either invocation, and the
answers hold one venue that is not enabled, one identity in conflict and one row
without an identity.

Bounds named in the modules: `MaxCalls`, `MaxAttempts`, `MaxCrashes`;
`BatchSize`, `MaxWaves`, `MaxRetries` (the policy's own), `MaxCrashes`, `MaxRuns`,
all fields of `policy`;
`MaxSnapshots`, `MaxAssessments`, and one bound per table in
OpportunityLifecycle; `MaxFailures` and `MaxCommands` in SelectedDryRun;
`MaxFailures`, `MaxCrashes`; `MaxQuantity`, `MaxChanges`; `MaxTime`; `Scopes` (the ids
of each table); `Ids` and `MaxBatch`.

Fairness. `FairSpec` of Stage4Run has weak fairness of `Step`: an invocation
under way is a loop in one thread, so it takes its next step unless the process
dies. Nothing is assumed of the operator (`Invoke`) or of crashes. Adapters are
assumed to return or raise; their providers have timeouts. `InvocationEnds` then
says that no invocation hangs and that without a crash it leaves a documented
outcome.

`LiveSpec` of ResearchIntegration has weak fairness of `Process`, for the same
reason, and strong fairness of `LiveStart`: the operator keeps invoking the run
with network access, as the tool asks him to ("A later invocation without that
limit resumes the same run"). Strong, because a CACHE_ONLY pass may start
whenever a live one may. Failures, rate limits and crashes are finitely many by
their bounds, which is what "eventually" needs: with a provider that fails for
ever no run completes. `EventuallyCompleted` is then not obvious at all, since a
limited pass takes the *first* pending hypotheses and a later pass clears the
manifest of an earlier one.

Replenishment has no liveness property: `StopJustified` bounds the steps of an
invocation, and deadlock checking shows it never gets stuck before it returns,
which is the same thing for a loop that cannot stutter. The other modules have
none either: nothing obliges the operator to go on.

Deadlock is checked where the system does not simply stop: the runs of Stage4Run,
Replenishment, OpportunityLifecycle, ResearchIntegration, ExchangeCatalog and
InstrumentCache;
`Settled` is the deliberate end (a terminal run, an exhausted bound). A dry run
that ended, one appraisal, one decision and a store whose ids are all used are ends
of those models, and their runs do not check it.

What the properties say, in short:

- `StagePrefix`, `ManifestOfRecords`: a resume starts at the first incomplete
  stage; the manifest lags behind the records by at most one stage per crash, and
  never claims more network calls than they show, the same number without crashes.
- `SelectedLineage`: no manifest, in memory or stored, holds a plan without the
  operator's selection of an offered opportunity, not even in runs that failed
  afterwards; a COMPLETED run is one chain of artefacts that ends in that plan.
- `CrashesAccounted`: a stage is executed again only when a crash lost it, and
  without one every invocation that comes back leaves an outcome: F1 needs a crash.
- `EvidenceImmutable`, `ImplementsPromise`: see section 6.
- `SearchDiscipline`: no listing in two waves; a retry exactly after a failure with
  budget left, of the same listings; quarantine exactly what failed at the limit.
- `StopJustified`: the search is bounded and reports exhaustion only when nothing
  pending, fatal or selectable was passed over.
- `LedgerExact`, `ReplayFaithful`: the ledger makes a repeated session repeat its
  answer without researching anything stored again.
- `PlanFromOneRevision`: decision, simulation, proposal and instrument of a plan
  belong together, whatever was proposed or decided in between.
- `StatusBacked`: no stage of the lifecycle without the rows it stands for.
- `ReportsAgree`, `OutcomeOfExecution`: one report per plan, a status that claims
  nothing else, an outcome only for an executed plan.
- `RematerialisedForCause`: a second plan for a proposal only after a new decision
  or changed metadata. One accepted decision can therefore be executed twice, if
  its instrument's metadata changed in between; the code allows it, and the
  property states exactly that much.
- `HistoryKept`: see section 6.
- `OnceAndInOrder`, `EndedStaysEnded`: a stage has an effect only above stages on
  record (`NothingBelowABlock`), once per crash more (`EffectRepeatedOnlyAfterCrash`),
  and never in a run that ended.
- `NeverAnEarlierRevision`: a resumed stage may go on with a *later* revision than
  the run recorded, if the operator made one, never with an earlier one.
- `ListedIsSelectable`, `ManifestTellsOutcomes`, `UnclaimedOnlyByInterruption`,
  `EndedNeverReworked`: what a pass announces is what the selection check of the
  dry run will find in both databases; opportunities nobody names are one per
  interruption at most; ended work is not touched.
- `AcceptedIsCoherent`, `CreatedIsSupported`: no answer of the model makes research
  COMPLETE with a material gap (`StatusIsEarned`), promotes it by repairing contexts
  (`NoSilentPromotion`), or makes an opportunity of a score without evidence
  (`CreatedOnEvidence`); a SHORT's company view is the mirror of the shared one
  (`ShortRestsOnSharedValue`).
- `GateNeedsMeasuredRisk`, `WithinBudgets`, `AcceptedAsMeant`: an unmeasured risk
  cannot pass the gate; filter, sizer and simulator agree; an accepted trade keeps the
  limits of loss, weight, gross exposure and risk, each of them evaluated, and the CIO's
  share of deployable cash where that could be evaluated (`AcceptedWithinLimits`); a
  proposal's side is the opportunity's (`TakesTheView`). `AcceptedOnEvidence`, that no
  limit is left unevaluated, is not kept: section 5.
- `OneStory`, `RoutesAgree`, `JudgedOnOwnGround`: an outcome, its plan, confirmation,
  decision, simulation and proposal name the same opportunity, snapshot and
  instrument; two lists that should lead to the same rows do; a fit's risk state is of
  its opportunity's snapshot and a scan's research of its candidates.
- `WaitingExplained`: an opportunity waits beside its instruments only while an import
  runs, or until the next refresh after a row came by hand or an import died.
- `ReportIsTrue`: an import reports an item otherwise than its dry run did only where
  the same file named the instrument before and had it taken, and both refuse the same
  items (`FirstsForetold`); what is reported as taken is in the cache
  (`ReportedIsStored`); both where no other terminal interfered. `DryRunForetells`, that
  the two reports are the same, is not kept: section 5.
- `VanishesForCause`: an instrument is lost only to a delete or an edit, to a file that
  names an occupied id, or to an import under which another terminal changed rows.
- `AgedWithinLimit`, `SuccessIsWhole`, `FileIsAnAnswer`: section 3.

## 5. Findings

Each is a run that TLC violates, with the document it contradicts.

- **F1** (`stage4_resume`) A crash between the record of a BLOCKED, FAILED or
  WAITING stage and the manifest leaves a run that can never be resumed: every
  later `run()` raises "non-completed persisted stage cannot resume".
- **F2** (`appraisal_technical`) The technical score is bounded to 10 points around
  the deterministic base first, and repaired afterwards: when the research holds no
  canonical TECHNICAL item to cite (its loader failed, the features come from the
  technical context), the grounding repair asks the model again and its new score
  replaces the bounded one. The repair may, by its docstring, only attach evidence
  or null the component. `CanonicalTechnicalIsBounded` proves that this is the only
  way: where there is a canonical item, the bound holds whatever the model answers.

### Disagreements noted, without a run of their own

Met while modelling, each visible in a module. The first two are also stated there,
as `DryRunForetells` and `AcceptedOnEvidence`: named in the configuration of
`instrument_cache`, or of `trade_rules`, as one more invariant, each is refuted by TLC
with the behaviour described.

- A dry run does not preview its import where the file names an instrument twice.
  `import_file` adds to `existing_by_identity` only what it saves
  (bulk_importer.py:374 and 417), so the dry run does not know the items it has passed:
  of a new instrument it reports NEW, NEW, and the import NEW, UNCHANGED
  (app/cio/cli.py:6265 "Validate and preview changes without modifying the
  database."). `ReportsAreTrue` proves that the two differ in no other way.
- A trade is accepted although one of its limits could not be evaluated. Where the
  account has no entry for EUR cash the simulator warns that "Max CIO deployable %
  cannot yet be evaluated" (portfolio_simulator.py:390); `_is_critical_warning` knows
  "cannot be fully evaluated" and four limits by name, none of which is in that text
  (cio_decision_engine.py:707, against its line 36 "Missing critical evidence must not
  silently become ACCEPT."). The loss and gross limits, whose warnings it does match,
  are never accepted unevaluated: `AcceptedWithinLimits`.
- A crash between the record of FINAL_EVIDENCE and the manifest leaves seven
  COMPLETED records and a run every later invocation returns as RUNNING: the loop
  skips all stages and nothing behind it completes the run
  (`stage4_service.py:183`; docs/E2E-S4.0A-FIRST-COMPLETE-E2E-TARGET.md:45
  "are explicit persisted outcomes"). `CrashesAccounted` says it takes a crash.
- A CACHE_ONLY miss of the dry run is stored by the orchestrator as an immutable
  BLOCKED run (`stage4_runtime.py:389`; the same document, line 104, "Cache-only
  misses remain resumable with zero network calls").
- A stored wave whose listings were all routed to history review is rebuilt as
  PROCESSING_FAILED and consumes the technical retry
  (`stage4_replenishment_runtime.py:265`;
  docs/E2E-S4.0A.1-BOUNDED-CANDIDATE-REPLENISHMENT.md:94 "They do not consume the
  technical retry"). `Lossless` excludes such sessions.
- A retry takes the whole wave, terminally excluded listings included
  (`stage4_replenishment.py:426`; the same document, line 18, "never retry terminal
  investment-quality exclusions in the same session").
- Confirming a plan whose instrument was deleted from the cache stores the
  confirmation and then fails to store the plan, which waits for ever
  (`storage.py:3667`; operator_confirmation_service.py:31-34 "EXECUTED -> persist
  OperatorConfirmation -> ExecutionPlan.OPERATOR_CONFIRMED"). `ReportsAgree` allows
  the waiting plan, and the proof of `ReportsHold` covers it.
- A dry run that is resumed after a newer portfolio snapshot goes on to a plan for
  the older one: only its first stage and the gate look at the snapshot
  (`selected_opportunity_dry_run.py:90`; portfolio_lifecycle_gate.py:180-182 "older
  opportunities remain auditable but cannot silently continue through the
  lifecycle").
- The cash reserve limit is UNKNOWN in the filter and evaluated by nobody later, so
  a trade can be ACCEPTed without it (`portfolio_filter_service.py:399`;
  cio_decision_engine.py:36 "Missing critical evidence must not silently become
  ACCEPT."). Here not even a warning is left: `AcceptedAsMeant` does not speak of it.
- FORCE_REFRESH that fails returns FAILED even where the file is fresh, while a
  stale file would have been served (`cached_exchange_provider.py:266`).

## 6. Proofs

The theorems of a component are in a module of their own, those of SelectedDryRun with
the lifecycle it works on and those of HypothesisAppraisal with the passes it is part
of. A theorem holds for every value of the constants that meets the named
assumption; the run of the same property shows it on one small instance. The inductive
invariants are stated in the proof modules, one named conjunct per idea.

### Stage4Run

`Stage4RunProofs` proves, for all identities, opportunities, PARTIAL stages and
bounds, under the one assumption `RunAssumption` (None is not an identity, an
opportunity or a result; PARTIAL comes from external stages; the bounds are
natural numbers), which TLC evaluates in every Stage4Run run:

| Theorem | Says |
| --- | --- |
| `IInvariant` | `Spec => []IInv`, the inductive invariant |
| `TypeCorrect` | `Spec => []TypeOK` |
| `StagePrefixHolds` | `Spec => []StagePrefix` |
| `EvidenceNeverRewritten` | `Spec => EvidenceImmutable` |
| `RunImplementsPromise` | `Spec => ImplementsPromise` |
| `EvidenceIsOneChain` | `Spec => []SelectedLineage` |
| `ManifestIsOfRecords` | `Spec => []ManifestOfRecords` |
| `OnlyCrashesRepeatOrStrand` | `Spec => []CrashesAccounted` |
| `InvocationsAreBounded` | `Spec => [](StepsLeft \in 0 .. 21) /\ [][Step => StepsLeft' < StepsLeft]_vars` |

`StagePrefix` is not inductive. `SaveRecord` stores a record for the stage the
loop is at, and to know that this extends the prefix one must know that the loop
only passed durable stages (`AtStage`, `Passed`), that the stage at hand is still
empty (`AtSave`: nothing else writes it between `Execute` and `SaveRecord`), and
that after the record is stored it is the result held in memory (`AtCommit`).
`Running` says that an invocation under way has stored the manifest as RUNNING,
so `SaveRun` is never refused by a terminal manifest; `AllDurable` that only a
run with all stages stored is COMPLETED. `FitsStage` restricts PARTIAL and WAITING
to the stages that may return them, which the refinement needs. The lemmas
before it are about the operators: every adapter result is a `Result`,
validation passes it or blocks it, `_apply_output` keeps a manifest a manifest.

The invariant has one lemma per action. `EvidenceImmutable` follows from it
because the only writers of `stages` and of a terminal `run` are guarded by
`AtSave` and `Running`. In the refinement `SaveRecord` of a COMPLETED result is
`Advance`, `SaveRun` is `Complete`, `Stop` or a stutter, `Invoke` is `Start` or a
stutter, and every other action stutters.

`InvocationsAreBounded` is what `InvocationEnds` rests on beside its fairness: a
natural number that every step of an invocation lowers. It needs no more than
`TypeOK`, because the loop goes through the stages in one direction.

The three before it each take an invariant of their own on top of `IInv`.

- `Lineage`, for the chain of evidence. `CompletedLineage` speaks of a stored
  COMPLETED manifest, which is written from the manifest in memory, which is put
  together stage by stage from records, some executed now and some replayed. So it
  needs that every durable record, and the result about to become one, is what the
  orchestrator's validation lets through for its stage (`RecordsSound`,
  `ResultSound`), and that the manifest in memory holds, of each stage behind the
  loop, just what that record says (`Reflected`). That no manifest holds a plan
  nobody selected needs that plan and selection in a manifest come from durable
  records (`PlansBacked`, `DoneStored`).
- `Accounts`, for the manifest as an account. Records run ahead of the manifest by
  the one being committed and by one per crash (`Lag`); it is one only because what
  is committed is the newest record (`Newest`). The calls in the manifest are at
  most those of records and attempts, and equal to them while no process died
  (`Counted`, `SameCalls`). The lemmas under it are about sums over stages and over
  attempts: storing a record, or appending an attempt, adds its calls.
- `Crashes`, for what crashes explain. Each execution of a stage beyond the one that
  is on record, or in hand, is paid by a crash (`Repeats`). A run whose newest record
  stops it (`LastStop`) is settled by the very invocation that stored it (`Settling`),
  so that the next one finds it terminal, unless the process died in between.

### Replenishment

Under `ReplenishmentAssumption` (a frontier and policies with a batch, a wave and a
retry budget that are numbers; the bounds of crashes and invocations are numbers)
`ReplenishmentProofs` proves, for every frontier, policy and bound:

| Theorem | Says |
| --- | --- |
| `Invariance` | `Spec => []IInv`, the inductive invariant |
| `SearchIsDisciplined` | `Spec => []SearchDiscipline` |
| `StopsAreJustified` | `Spec => []StopJustified` |
| `LedgerIsExact` | `Spec => []LedgerExact` |
| `ReplayIsFaithful` | `Spec => []ReplayFaithful` |

The idea is that the memory of an invocation is a *function* of the steps it has
walked (`Remembered`: wave, retry, current, attempted and quarantined are what
`PlanAfter` makes of the last of them), and that each step is the plan the planner
makes after the one before it (`Planned`). What a search may do then follows from two
neighbouring steps, and what it has come to from all of them: they ascend by wave and
retry (`Ascending`), each new wave costs one of the budget (`Counted`), what is taken
once is never taken again (`Taken`), and the quarantined are what failed at the last
retry of its wave (`FailedLast`). `Concluded` and `Holding` say the same of an ended
search and of an execution not yet saved.

The ledger adds the other invocations. Two records of one plan are one record
(`Ledger`), because a plan on record is resumed and not executed. `LedgerExact` and
`ReplayFaithful` carry the hypothesis that every record is lossless, so `Lineage` does
too: under it the records form one chain, each the planner's answer to the one before
it (`Chained`); an invocation walks this chain from its beginning (`Reached`); and the
first result a session gave was that of the chain's end (`EndsWith`), which is where a
later invocation arrives, because nothing on the chain lies between a plan and the one
after it. A record that is *not* lossless breaks the chain, as the hazard at
`stage4_replenishment_runtime.py:265` says: the hypothesis is needed.

### OpportunityLifecycle

`OpportunityLifecycleProofs` proves, for all instruments, metadata versions and
bounds, under `LifecycleAssumption` (finitely many instruments, versions are
natural numbers other than `Absent`, the bounds are natural numbers):

| Theorem | Says |
| --- | --- |
| `TypeCorrect` | `Spec => []TypeOK` |
| `OneRevisionPerPlan` | `Spec => []PlanFromOneRevision` |
| `ReportsHold` | `Spec => []ReportsAgree` |
| `OutcomesHold` | `Spec => []OutcomeOfExecution` |
| `HistoryHeld` | `Spec => HistoryKept` |
| `CommandsKeepPromise` | `Spec => ImplementsPromise` |
| `StatusesAreBacked` | `Spec => []StatusBacked` |
| `PlansAreMadeForCause` | `Spec => []RematerialisedForCause` |

The first six need two inductive invariants. `ChainConsistent` adds to
`PlanFromOneRevision` that every simulation is of a stored proposal and every
decision of a stored simulation of the same proposal with the verdict of its
finding: a plan copies its revision from the decision. `ReportsConsistent` adds
to the three report properties what a command between its two saves has already
stored (`SettleReported`): the latest plan still waits and its confirmation holds
the report about to be written. Without it `Settle` could write any status.
`HistoryKept` follows because sequences are only appended to, and because the
two rewrites, `Settle` and `CloseOutcome`, are guarded by the report and by OPEN.
In the refinement a new plan is `Planned`, `Confirm` is `ReportedLatest` (by
`ReportedOnce` the plan was planned before), `CreateOutcome` is `OpenedLatest`,
`CloseOutcome` is `Closed` of that outcome's plan, and everything else, the
writing of a plan's status included, is a stutter.

`StatusBacked` speaks of the status on file; a command stores its rows first and the
status second, so the invariant (`Backed`) adds that the status *about to be written*
is backed already, and stays so until it is, whatever a crash drops. That two plans of
a proposal differ in decision or metadata is its own invariant: `CreateExecutionPlan`
looks the plans of the proposal through, and nothing rewrites these two fields of a
plan.

### SelectedDryRun

The second half of `OpportunityLifecycleProofs` proves, under the same assumption, for
any number of crashes, failures, commands and rows:

| Theorem | Says |
| --- | --- |
| `RunTypesHold` | `RunSpec => [](TypeOK /\ RunTypeOK)` |
| `RunPlansFromOneRevision` | `RunSpec => []PlanFromOneRevision` |
| `RunGoesOnceAndInOrder` | `RunSpec => []OnceAndInOrder` |
| `RunTakesNoEarlierRevision` | `RunSpec => []NeverAnEarlierRevision` |
| `EndedRunsStay` | `RunSpec => EndedStaysEnded` |
| `RunStatusesAreBacked` | `RunSpec => []StatusBacked` |
| `RunPlansAreMadeForCause` | `RunSpec => []RematerialisedForCause` |
| `RunHistoryHeld` | `RunSpec => HistoryKept` |
| `RunKeepsPromise` | `RunSpec => ImplementsPromise` |
| `RunInvocationsAreBounded` | `RunSpec => [](StepsLeft \in 0 .. 34) /\ [][InvocationStep => StepsLeft' < StepsLeft]_runVars` |

A step of the dry run is, to the opportunity, a step of `Next` or one of the few that
leave its chain and its execution tables alone (`StepOfLifecycle`,
`StepOfOpportunity`): what the commands keep is kept by the run. The first five need
`RunConsistent` besides. It says what an invocation at work has found
(`InvocationAtWork`: every stage before the one at hand is completed, and nothing is
executed while a save is pending), that nothing is recorded or done above an open
stage (`NothingAboveAnOpenStage`), and two things a crash between an effect and its
record could break:

- `EffectsAccounted`: an effect is accounted for by its record, by the result about to
  be recorded or by the end of the run, and otherwise by a crash of its own. Hence at
  most one effect more than crashes.
- `Traceable`: each recorded row, and each about to be recorded, comes from no earlier
  revision than the row of the stage before it. A resumed stage takes the *latest* row
  (`LastRows`), which is the recorded one or one the operator made since; that the
  latest simulation is of the latest simulated proposal is `SimulationsAscend`.

`StatusBacked` needs one fact more. The run remembers in the record of stage 4 that the
gate was passed, and a later invocation ranks and sizes on the strength of that record
alone. `GatePassed` says the memory does not go stale: the assessment that opened the
gate is still among the stored ones, because assessments are only added.

`RunInvocationsAreBounded` has no liveness property beside it: no run states fairness
for the dry run. It says that the ten stages, each executed, finished and recorded,
are all an invocation does, also where a lifecycle call raises half way. That nothing
is executed while a save is pending (`InvocationAtWork`) is what makes the measure fall.

### ResearchIntegration

Under `ResearchAssumption` (work is a finite set of positive numbers, the kinds do
not overlap) `ResearchIntegrationProofs` proves `ListedSelectable`
(`Spec => []ListedIsSelectable`), `ManifestFaithful`
(`Spec => []ManifestTellsOutcomes`), `EndedStands` (`Spec => EndedNeverReworked`) and
`UnclaimedForCause` (`Spec => []UnclaimedOnlyByInterruption`)
for any hypotheses, limits and number of interruptions. None of the four is
inductive. The invariant `IInv` adds to the shape of the tables that what a pass is
working on, or still has to, has not ended (`OpenWork`), that whatever an outcome
names, or the outcome *about to be saved* names, stands in the Stage 3 store for
its own hypothesis and is linked (`NamedStand`), and that the manifest announces
nothing while a pass runs (`ManifestAgrees`). That no second outcome names the same
opportunity then follows from its hypothesis. A rate limit leaves something open,
without which `Close` could report COMPLETED and PARTIAL for the same outcomes.
For `UnclaimedOnlyByInterruption` the count must be of what is unclaimed *and not
owed to the work at hand* (`Claims`): between the save of an opportunity and that of
its outcome one more is unclaimed, and it is the one just saved, which an
interruption turns into one that stays.

`PassesAreBounded` (`Spec => [](StepsLeft \in 0 .. AllSteps) /\
[][Process => StepsLeft' < StepsLeft]_vars`) bounds the steps of a pass by eight for
each hypothesis and one for each member kept out, and nine more. So each pass of
`EventuallyCompleted` ends, whatever fails in it; that enough passes complete the run
is what TLC checks. A failed hypothesis is open again, but to the next pass only: the
loop's own list never grows.

### ResearchRepair and HypothesisAppraisal

The second half of `ResearchIntegrationProofs` proves, for every evidence, every set of
context fields and every answer of the language models, on the whole grid of scores:

| Theorem | Says |
| --- | --- |
| `AcceptedResearchIsCoherent` | `AppraisalSpec => []AcceptedIsCoherent` |
| `CreatedOpportunityIsSupported` | `AppraisalSpec => []CreatedIsSupported` |
| `CanonicalTechnicalIsBounded` | `AppraisalSpec => [](evidence.canonical => TechnicalBounded)` |

The assumptions are `AnswersAssumption` and `ScoringAssumption` (answers have the shape
the schemas demand) and `ContextsAssumption` (no context field is named like another
field or an error code: otherwise asking for a context could reopen the status).

The invariant `AppraisalSound` has two halves. `ResearchSound`: an answer awaiting its
repair is the one `before` remembers, what goes on satisfies both validators, and
nothing was promoted silently. The last is the step that takes an argument: the
validators say nothing of the status of a PARTIAL output that asks for more
(`PartialIsNotReopened`), so only the reassessment of forward items opens it, and
neither the removal of a conflicting unknown nor the normalisation makes an output
COMPLETE (`SoftwareNeverPromotes`). `ScoreSound` follows a component through the
pipeline: one that has a score and a citation after the shared assessment is in neither
repair (`RepairsLeave`), so a shared value reaches the score mirrored and calibrated
but otherwise as it was, and so does the bounded technical score *if* its citation was
mended, that is, if there is a canonical item. That is what `TechnicalBounded` lacks in
F2. A gate that is passed is then read off the decision: of the gates that refuse there
would be a first (`FirstRefusal`).

### TradeRules

Under `TradeAssumption` (amounts are natural numbers or unset, NAV not zero)
`TradeRulesProofs` proves `GateMeasured`, `BudgetsHold`, `AcceptanceSound`,
`ViewTaken` and the two together as `AcceptedMeansWell` (`Spec =>
[]GateNeedsMeasuredRisk` and so on) for every account, portfolio, instrument and
market. That an accepted trade keeps the CIO limit too needs that the simulator looked
at it, that is, an entry for EUR cash. The invariant says of each stored record that
it is what the rules say of the records and the account it was computed from; the
properties are then arithmetic: a smaller position is a smaller share of the portfolio
it is added to (`WeightMonotone`), and cutting to whole units only makes a position
smaller. This is where TLC's few amounts say least and a proof most.

### ExchangeCatalog

Under `CatalogAssumption` (lifetimes are positive, policies are sequences of
acquisitions, answers consist of rows) `ExchangeCatalogProofs` proves `AgeBounded`
(`Spec => []AgedWithinLimit`), `FilesHold` (`Spec => FileIsAnAnswer`) and
`SuccessHolds` (`Spec => []SuccessIsWhole`) for any number of invocations and files.
The age is not inductive: it needs that an entry is cached at the instant its provider
speaks and never later, in the files (`FilesTimed`) and in what an invocation has read
and still holds while others replace the file (`HeldTimed`), and that only what may
use the network waits for a provider (`Online`). A universe is composed at once, from
what was brought before: that a SUCCESS is whole needs that whatever an acquisition
brought was fair to its policy (`Fair`) and that an ended invocation still holds what
it was composed of (`Told`).

### Stage3Store

Under `NoneIsNoId` (the absent reference is no opportunity's id) `Stage3StoreProofs`
proves `EveryRowBacked` (`Spec => []Backed`), `OutcomesTellOneStory`
(`Spec => []OneStory`), `ListsAgree` (`Spec => []RoutesAgree`) and
`JudgementsOnOwnGround` (`Spec => []JudgedOnOwnGround`) for any ids and rows. `Backed`
says of every stored row that the demands of its save method would be met again
now: true when it was saved, and kept because the rows it names are not rewritten
and, instruments apart, not deleted. The three properties follow from it by going
along the links, without another induction.

### InstrumentCache

`InstrumentCacheProofs` proves, for any instruments, contents, files and tickers, under
`CacheAssumption` (finitely many ids, and the marks for none are no members):

| Theorem | Says |
| --- | --- |
| `WaitersAreExplained` | `Spec => []WaitingExplained` |
| `ReportsAreTrue` | `Spec => []ReportIsTrue` |
| `InstrumentsVanishForCause` | `Spec => VanishesForCause` |

Beside the shape of the importer (`Shaped`) the first is its own inductive
invariant: a refresh leaves nobody waiting beside his instruments
(`RefreshLeavesNone`), and every step that adds a row is by hand, or by an import
that has by then reported an item.

The report is about a whole import, so it is not inductive. An import works on the map
of identities it read at its start, not on the cache. Where nobody interferes, the two
stay in step (`Tracked`: each identity the map knows is placed in the cache under the
id the map gives it), so that what an import's report has taken so far is in the cache
(`StoredSoFar`). Dry run and import judge an item by the same rule (`Judge`), but the
dry run judges every item by the rows it started from (`Rehearsed`, `Judged`) and the
import by rows that grow (`Learn`). `Departs` says what becomes of the forecast on the
way: the import departed from it at repeated items only, and so it will at the items
to come, because its rows differ from the first ones at identities it has taken.
Nothing differs at the start (`DepartsNowhere`), and each item keeps it
(`DepartsOneMore`). `VanishesForCause` uses `Tracked` for the one step that could lose a
row, an import's write over a row of another identity.

### Only model-checked

- The liveness properties `InvocationEnds` and `EventuallyCompleted`: liveness under
  fairness is beyond the prover. Proved is their half without fairness, that an
  invocation or a pass has boundedly many steps (`InvocationsAreBounded`,
  `PassesAreBounded`).
- That the bounds of a run are reached: theorems hold where nothing happens, and that
  the interesting things do happen is what the runs show.

## 7. Not modelled

- **Frontier ranking**: its loop collects futures in the order it submitted them, so
  the pool adds no order of its own; what it ranks by are figures of downloaded
  news and prices. Replenishment takes its order, fixed per session, as given.
- **Shadow ledger**: insert-or-ignore by key, one transaction per row, nothing that
  resumes; the rest is arithmetic on prices.
- **Watch universe, history gates, eligibility, taxonomy**: pure functions of their
  input, enumerated by the repository's tests; the gates' four routes enter
  Replenishment and the members of the universe ResearchIntegration.
- **Verification cache**: the pattern of ExchangeCatalog with other keys and
  lifetimes; what it stores is a verdict on price bars.
- **Portfolio analytics, reports, technical indicators, marginal risk, P&L**:
  floating-point statistics and rendering. Two of the largest sources
  (`analysis/portfolio.py`, `analysis/risk.py`) are of this kind. What they lead to
  (a risk within or over its limit, a fit, a finding) is an input, free within what
  the code can return.
- **AI inference and evidence**: prompts, the provider, news and evidence adapters
  and their aggregation. What a model answers is free in HypothesisAppraisal.
- **Exchange discovery, constituent providers, price download, portfolio import, the
  JSON shape of an import file**: HTTP and file parsing.
- **Command line and validation tools**: argument handling, printing and manual
  validation scripts, some 9000 lines, around the services. The commands that change
  an opportunity, an account or an instrument are actions; listing and inspection
  commands only read.
- **Two deletes of the Stage 3 store**, `delete_trade_opportunity` and
  `delete_instrument_candidates`: only tests call them.
- **Order of the store's lists**, but for the rows of one opportunity
  (OpportunityLifecycle): ties of `created_at` and the orders of listing commands.
- **Two imports at once**: nothing in the code expects it; one import with any command
  of another terminal shows what a stale map does.
- **Concurrent invocations of one Stage 4 run**: the repository documents a single
  operator process. Look-up and write are separate transactions in
  `stage4_store.py`.
- **Composition of the orchestrator with its lower runs**, and of Replenishment with
  ResearchIntegration: each side alone has close to a million states, so their
  product is out of TLC's reach; the interfaces (adapter results, outcome classes)
  are free instead, which covers what the lower run may do.
- **Mixed replay**: `ReplayFaithful` and `LedgerExact` exclude, by their hypothesis,
  sessions with a record of both standard and review listings.
- That an OPEN outcome can always be closed, or an executed plan always opened: the
  code does not promise it. `close_outcome` takes the outcome updated last and
  `create_open_outcome` the latest plan, so older ones are out of reach.
