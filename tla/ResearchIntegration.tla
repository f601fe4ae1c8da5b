------------------------- MODULE ResearchIntegration -------------------------
(***************************************************************************)
(* One Scanner-to-Research run (app/scanner/research_integration*.py): the *)
(* passes of ScannerResearchIntegrationService.run over the hypotheses of  *)
(* one watch universe, every pass with the same run id.                    *)
(*                                                                         *)
(* Hypotheses are numbered in the order build_research_hypotheses sorts    *)
(* them in.  Every save is a transaction of its own, in one of two         *)
(* databases: research and opportunities go to the Stage 3 store, the      *)
(* manifest, the outcomes and the provenance links to the integration      *)
(* store.  The process may die between any two; a save may also raise.     *)
(*                                                                         *)
(* What the research and the score of a hypothesis say is the model's: the *)
(* gates of opportunity_materialization_decision are HypothesisAppraisal's.*)
(***************************************************************************)
EXTENDS Naturals, FiniteSets, Sequences

CONSTANTS
    Directional,     \* NEW_LONG and NEW_SHORT hypotheses, by their numbers
    Monitors,        \* PORTFOLIO_MONITOR hypotheses, by their numbers
    Members,         \* members member_exclusion_reason keeps out, numbered on
    Listings,
    ListingOf,       \* the listing of a directional hypothesis
    Short,           \* the NEW_SHORT hypotheses
    Limits,          \* values of max_hypotheses, 0 stands for None
    MaxFailures,     \* bound: fetches, calls and saves that go wrong
    MaxCrashes       \* bound: process deaths

Hypotheses == Directional \union Monitors
Work == Hypotheses \union Members

ASSUME ResearchAssumption ==
    /\ Work \subseteq Nat \ {0} /\ IsFiniteSet(Work)
    /\ Directional \intersect Monitors = {} /\ Hypotheses \intersect Members = {}
    /\ ListingOf \in [Directional -> Listings] /\ Short \subseteq Directional
    /\ Limits \subseteq Nat /\ MaxFailures \in Nat /\ MaxCrashes \in Nat

Statuses == {"PENDING", "RESEARCHED", "OPPORTUNITY_CREATED", "DEGRADED",
             "EXCLUDED", "FAILED"}
(* ResearchHypothesisOutcome; opportunity is a row of opportunities or 0.  *)
Outcome == [status : Statuses, opportunity : Nat]
NoOutcome == [status |-> "NONE", opportunity |-> 0]
Said(status) == [status |-> status, opportunity |-> 0]

(* Mutants: what failed is not tried again; what was created is.           *)
CreatedIsOpen == {"RESEARCHED", "EXCLUDED"}
FailureIsTerminal == {"RESEARCHED", "OPPORTUNITY_CREATED", "EXCLUDED", "FAILED"}
TerminalStatuses == {"RESEARCHED", "OPPORTUNITY_CREATED", "EXCLUDED"}

(* ScannerResearchRun.                                                     *)
Manifest == [status : {"RUNNING", "COMPLETED", "PARTIAL", "RATE_LIMITED"},
             completed : SUBSET Work, opportunities : SUBSET Nat]
NoManifest == [status |-> "NONE", completed |-> {}, opportunities |-> {}]

(* A trade opportunity: its hypothesis, the research of that hypothesis it *)
(* rests on, and whether its score is the shared company assessment's.     *)
Opportunity == [hypothesis : Directional, research : Nat, shared : BOOLEAN]

VARIABLES
    manifest,        \* scanner_research_runs
    outcomes,        \* scanner_research_outcomes
    links,           \* trade_opportunity_provenance
    opportunities,   \* trade_opportunities of the Stage 3 store
    research,        \* opportunity_research: rows stored per hypothesis
    step,            \* what the pass does next; "idle" when none runs
    todo,            \* selected_hypotheses the loop has not reached
    bounded,         \* max_hypotheses was given
    cacheOnly,       \* cache_only
    rateLimited,     \* rate_limited
    current,         \* the hypothesis in _process, 0 if none
    held,            \* the outcome or opportunity about to be saved
    assessed,        \* CompanyAssessmentService._cache of this process
    failures,        \* observation: what went wrong, process deaths aside
    crashes          \* observation: process deaths

store == <<manifest, outcomes, links, opportunities, research>>
pass == <<step, todo, bounded, cacheOnly, rateLimited, current, held, assessed>>
observed == <<failures, crashes>>
vars == <<store, pass, observed>>

Terminal(w) == outcomes[w].status \in TerminalStatuses
Completed == {w \in Work : Terminal(w)}
Named == {outcomes[w].opportunity : w \in Work} \ {0}

(* The order in which the loop takes hypotheses: with a limit directional  *)
(* ones first.                                                             *)
Before(limited, h, k) ==
    IF limited /\ (h \in Directional) # (k \in Directional)
    THEN h \in Directional
    ELSE h < k

(* _select_pending_hypotheses.                                             *)
Selected(limit) ==
    LET open == {h \in Hypotheses : ~ Terminal(h)}
    IN  {h \in open : limit = 0
                      \/ Cardinality({k \in open : Before(TRUE, k, h)}) < limit}

NotAssessed == [l \in Listings |-> "unknown"]

(* The memory of the process is gone when the pass ends.                   *)
Forget ==
    /\ step' = "idle" /\ todo' = {} /\ bounded' = FALSE /\ cacheOnly' = FALSE
    /\ rateLimited' = FALSE /\ current' = 0 /\ held' = NoOutcome
    /\ assessed' = NotAssessed

Init ==
    /\ manifest = NoManifest /\ outcomes = [w \in Work |-> NoOutcome]
    /\ links = {} /\ opportunities = <<>>
    /\ research = [h \in Hypotheses |-> 0]
    /\ step = "idle" /\ todo = {} /\ bounded = FALSE /\ cacheOnly = FALSE
    /\ rateLimited = FALSE /\ current = 0 /\ held = NoOutcome
    /\ assessed = NotAssessed /\ failures = 0 /\ crashes = 0
-----------------------------------------------------------------------------
(* A pass: the manifest, the members kept out, the loop.                   *)

(* The manifest is stored as RUNNING without completed work or             *)
(* opportunities; a new invocation has a new assessment cache.             *)
Start(limit, cached) ==
    /\ step = "idle"
    /\ bounded' = (limit # 0) /\ cacheOnly' = cached /\ rateLimited' = FALSE
    /\ todo' = Selected(limit)
    /\ manifest' = [status |-> "RUNNING", completed |-> {}, opportunities |-> {}]
    /\ step' = "members"
    /\ UNCHANGED <<outcomes, links, opportunities, research, current, held,
                   assessed, observed>>

(* The EXCLUDED outcome of a member that has none yet, then the loop.      *)
ReviewMembers ==
    /\ step = "members"
    /\ LET open == {m \in Members : outcomes[m] = NoOutcome}
       IN  IF open = {} THEN step' = "loop" /\ UNCHANGED outcomes
           ELSE /\ \E m \in open :
                       /\ \A n \in open : m <= n
                       /\ outcomes' = [outcomes EXCEPT ![m] = Said("EXCLUDED")]
                /\ UNCHANGED step
    /\ UNCHANGED <<manifest, links, opportunities, research, todo, bounded,
                   cacheOnly, rateLimited, current, held, assessed, observed>>

(* The next selected hypothesis: processed, or, when only caches may       *)
(* answer, left PENDING with reason CACHE_ONLY_MISS.                       *)
Take ==
    /\ step = "loop" /\ todo # {}
    /\ \E h \in todo :
           /\ \A k \in todo \ {h} : Before(bounded, h, k)
           /\ IF cacheOnly
              THEN /\ outcomes' = [outcomes EXCEPT ![h] = Said("PENDING")]
                   /\ UNCHANGED <<step, current>>
              ELSE step' = "fetch" /\ current' = h /\ UNCHANGED outcomes
           /\ todo' = todo \ {h}
    /\ UNCHANGED <<manifest, links, opportunities, research, bounded, cacheOnly,
                   rateLimited, held, assessed, observed>>

(* Mutant: the manifest lists what it listed as the pass began.            *)
CloseWithoutOutcomes ==
    /\ step = "loop" /\ todo = {}
    /\ manifest' = [manifest EXCEPT !.status = "COMPLETED"]
    /\ Forget
    /\ UNCHANGED <<outcomes, links, opportunities, research, observed>>

(* The manifest of the pass, from all outcomes of the run.                 *)
Close ==
    /\ step = "loop" /\ todo = {}
    /\ manifest' =
           [status |-> IF rateLimited THEN "RATE_LIMITED"
                       ELSE IF \/ Completed # Work
                               \/ \E w \in Work : outcomes[w].status
                                      \in {"FAILED", "DEGRADED", "PENDING"}
                            THEN "PARTIAL" ELSE "COMPLETED",
            completed |-> Completed, opportunities |-> Named]
    /\ Forget
    /\ UNCHANGED <<outcomes, links, opportunities, research, observed>>
-----------------------------------------------------------------------------
(* _process of the current hypothesis.                                     *)

Processing == UNCHANGED <<manifest, todo, bounded, cacheOnly, rateLimited,
                          crashes>>

(* The providers, the aggregator and the evidence bundle.                  *)
FetchEvidence ==
    /\ step = "fetch" /\ step' = "research"
    /\ Processing
    /\ UNCHANGED <<outcomes, links, opportunities, research, current, held,
                   assessed, failures>>

NoEvidence ==
    /\ step = "fetch" /\ failures < MaxFailures
    /\ failures' = failures + 1
    /\ held' = Said("DEGRADED") /\ step' = "outcome"
    /\ Processing
    /\ UNCHANGED <<outcomes, links, opportunities, research, current, assessed>>

(* Research stores a row of its own each time; a monitor ends with it.     *)
Research ==
    /\ step = "research"
    /\ research' = [research EXCEPT ![current] = @ + 1]
    /\ IF current \in Monitors
       THEN held' = Said("RESEARCHED") /\ step' = "outcome"
       ELSE step' = "assess" /\ UNCHANGED held
    /\ Processing
    /\ UNCHANGED <<outcomes, links, opportunities, current, assessed, failures>>

(* CompanyAssessmentService.assess: once per listing and process, also     *)
(* when the model call failed.                                             *)
Assess(answered) ==
    /\ step = "assess"
    /\ LET l == ListingOf[current]
       IN  assessed' = [assessed EXCEPT ![l] =
                            IF @ # "unknown" THEN @
                            ELSE IF answered THEN "done" ELSE "failed"]
    /\ step' = "score"
    /\ Processing
    /\ UNCHANGED <<outcomes, links, opportunities, research, current, held,
                   failures>>

(* Mutant: the SHORT side takes whatever score there is.                   *)
AnyScore(shared) == TRUE
(* A SHORT needs a score that rests on the shared assessment.              *)
MayMaterialize(shared) == current \in Short => shared

(* The score is saved; shared says whether its company components are the  *)
(* grounded ones of the assessment, eligible whether all gates passed.     *)
Score(shared, eligible) ==
    /\ step = "score"
    /\ shared => assessed[ListingOf[current]] = "done"
    /\ IF eligible /\ MayMaterialize(shared)
       THEN /\ opportunities' = Append(opportunities,
                   [hypothesis |-> current, research |-> research[current],
                    shared |-> shared])
            /\ step' = "link" /\ UNCHANGED held
       ELSE /\ held' = Said("EXCLUDED") /\ step' = "outcome"
            /\ UNCHANGED opportunities
    /\ Processing
    /\ UNCHANGED <<outcomes, links, research, current, assessed, failures>>

SaveLink ==
    /\ step = "link"
    /\ links' = links \union {Len(opportunities)}
    /\ held' = [status |-> "OPPORTUNITY_CREATED", opportunity |-> Len(opportunities)]
    /\ step' = "outcome"
    /\ Processing
    /\ UNCHANGED <<outcomes, opportunities, research, current, assessed, failures>>

SaveOutcome ==
    /\ step = "outcome"
    /\ outcomes' = [outcomes EXCEPT ![current] = held]
    /\ step' = "loop" /\ current' = 0 /\ held' = NoOutcome
    /\ Processing
    /\ UNCHANGED <<links, opportunities, research, assessed, failures>>

(* Any step of _process raises: FAILED, whatever was already stored.       *)
Raise ==
    /\ step \in {"fetch", "research", "assess", "score", "link", "outcome"}
    /\ failures < MaxFailures /\ failures' = failures + 1
    /\ outcomes' = [outcomes EXCEPT ![current] = Said("FAILED")]
    /\ step' = "loop" /\ current' = 0 /\ held' = NoOutcome
    /\ Processing
    /\ UNCHANGED <<links, opportunities, research, assessed>>

(* A rate limit ends the loop with no outcome.                             *)
RateLimit ==
    /\ step \in {"fetch", "research", "score"}
    /\ failures < MaxFailures /\ failures' = failures + 1
    /\ rateLimited' = TRUE /\ todo' = {}
    /\ step' = "loop" /\ current' = 0
    /\ UNCHANGED <<store, bounded, cacheOnly, held, assessed, crashes>>

Crash ==
    /\ step # "idle" /\ crashes < MaxCrashes
    /\ crashes' = crashes + 1
    /\ Forget
    /\ UNCHANGED <<store, failures>>

Process ==
    \/ ReviewMembers \/ Take \/ Close
    \/ FetchEvidence \/ NoEvidence \/ Research
    \/ \E answered \in BOOLEAN : Assess(answered)
    \/ \E shared, eligible \in BOOLEAN : Score(shared, eligible)
    \/ SaveLink \/ SaveOutcome \/ Raise \/ RateLimit

Next ==
    \/ \E limit \in Limits, cached \in BOOLEAN : Start(limit, cached)
    \/ Process \/ Crash

Spec == Init /\ [][Next]_vars

(* A pass that runs goes on, and the operator keeps invoking the run live: *)
(* "A later invocation without that limit resumes the same run".           *)
LiveStart == \E limit \in Limits : Start(limit, FALSE)
LiveSpec == Spec /\ WF_vars(Process) /\ SF_vars(LiveStart)
-----------------------------------------------------------------------------
(* Properties.                                                             *)

(* What a pass that ended announces is what validate_selected_opportunity  *)
(* looks for across the two databases: exactly one outcome of the run      *)
(* names the opportunity, as created, for its own directional hypothesis,  *)
(* the link is stored, and a SHORT rests on the shared assessment.         *)
ListedIsSelectable ==
    \A o \in manifest.opportunities :
        /\ o \in DOMAIN opportunities /\ o \in links
        /\ opportunities[o].hypothesis \in Short => opportunities[o].shared
        /\ \E w \in Directional :
               /\ outcomes[w] = [status |-> "OPPORTUNITY_CREATED", opportunity |-> o]
               /\ opportunities[o].hypothesis = w
               /\ \A v \in Work \ {w} : outcomes[v].opportunity # o

Ended(w) ==
    outcomes[w].status \in {"RESEARCHED", "OPPORTUNITY_CREATED", "EXCLUDED"}

(* The manifest of a pass that ended agrees with the outcomes, which may   *)
(* stem from many passes: it is COMPLETED exactly when no work is left,    *)
(* and every opportunity an outcome names can be selected.                 *)
ManifestTellsOutcomes ==
    manifest.status \notin {"NONE", "RUNNING"} =>
        /\ manifest.completed = {w \in Work : Ended(w)}
        /\ manifest.opportunities = Named
        /\ manifest.status = "COMPLETED" <=> \A w \in Work : Ended(w)

(* "Completed research, opportunity and exclusion outcomes are skipped on  *)
(* resume": neither the outcome nor the research of ended work is touched. *)
EndedNeverReworked ==
    [][\A h \in Hypotheses : Ended(h) => /\ outcomes'[h] = outcomes[h]
                                        /\ research'[h] = research[h]]_vars

(* An opportunity that no outcome names was left behind by an exception or *)
(* a crash between its save and its outcome's, one for each at most.       *)
UnclaimedOnlyByInterruption ==
    Cardinality({o \in DOMAIN opportunities : o \notin Named})
        <= crashes + failures + (IF step \in {"link", "outcome"} THEN 1 ELSE 0)

(* However passes were limited, cut off or answered from caches alone, and *)
(* whatever failed meanwhile: in the end the run is COMPLETED again and    *)
(* again.                                                                  *)
EventuallyCompleted == []<>(manifest.status = "COMPLETED")
=============================================================================
