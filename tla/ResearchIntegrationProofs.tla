---------------------- MODULE ResearchIntegrationProofs ----------------------
(* What ResearchIntegration keeps for every set of hypotheses, members and *)
(* listings, every limit and any number of failures and process deaths; and*)
(* what HypothesisAppraisal keeps for every evidence and every answer of   *)
(* the language models.                                                    *)
EXTENDS ResearchIntegration, HypothesisAppraisal, FiniteSetTheorems,
        WellFoundedInduction, TLAPS

Steps == {"idle", "members", "loop", "fetch", "research", "assess", "score", "link",
          "outcome"}
Working == {"fetch", "research", "assess", "score", "link", "outcome"}

Shape ==
    /\ outcomes \in [Work -> Outcome \union {NoOutcome}]
    /\ opportunities \in Seq(Opportunity)
    /\ links \subseteq DOMAIN opportunities
    /\ research \in [Hypotheses -> Nat]
    /\ step \in Steps
    /\ todo \subseteq Hypotheses

(* What is being worked on, or is still to be, has not ended; and what is  *)
(* scored is directional.                                                  *)
OpenWork ==
    /\ step = "idle" => todo = {}
    /\ \A h \in todo : ~ Ended(h)
    /\ step \in Working =>
           current \in Hypotheses /\ current \notin todo /\ ~ Ended(current)
    /\ step \in {"assess", "score", "link"} => current \in Directional

(* A created opportunity that can be selected for the hypothesis w.        *)
Stands(o, w) ==
    /\ w \in Directional /\ o \in DOMAIN opportunities
    /\ opportunities[o].hypothesis = w
    /\ w \in Short => opportunities[o].shared

(* Whatever an outcome names, or the outcome about to be saved, stands and *)
(* is linked; the opportunity just saved stands and will be.               *)
NamedStand ==
    /\ \A w \in Work : outcomes[w].opportunity # 0 =>
           /\ Stands(outcomes[w].opportunity, w)
           /\ outcomes[w].opportunity \in links
           /\ outcomes[w].status = "OPPORTUNITY_CREATED"
    /\ step = "outcome" =>
           /\ held \in Outcome
           /\ held.opportunity # 0 =>
                  /\ Stands(held.opportunity, current) /\ held.opportunity \in links
                  /\ held.status = "OPPORTUNITY_CREATED"
    /\ step = "link" => Len(opportunities) > 0 /\ Stands(Len(opportunities), current)

(* The manifest announces nothing while a pass runs, and after it what the *)
(* outcomes say; a rate limit leaves something open.                       *)
ManifestAgrees ==
    /\ step # "idle" => manifest.status = "RUNNING" /\ manifest.opportunities = {}
    /\ manifest.status \in {"NONE", "RUNNING"} => manifest.opportunities = {}
    /\ manifest.status \notin {"NONE", "RUNNING"} =>
           /\ step = "idle"
           /\ manifest.completed = Completed
           /\ manifest.opportunities = Named
           /\ manifest.status = "COMPLETED" <=> Completed = Work
    /\ rateLimited => step = "loop" /\ todo = {} /\ \E h \in Hypotheses : ~ Ended(h)

IInv == Shape /\ OpenWork /\ NamedStand /\ ManifestAgrees

-----------------------------------------------------------------------------
(* Lemmas.                                                                 *)

LEMMA OneOutcome ==
    ASSUME Shape, NEW w \in Work, NEW v \in Outcome,
           outcomes' = [outcomes EXCEPT ![w] = v]
    PROVE  /\ outcomes' \in [Work -> Outcome \union {NoOutcome}]
           /\ outcomes'[w] = v
           /\ \A x \in Work : x # w => outcomes'[x] = outcomes[x]
BY DEF Shape

LEMMA Plain ==
    ASSUME NEW status \in Statuses
    PROVE  /\ Said(status) \in Outcome /\ Said(status).opportunity = 0
           /\ Said(status).status = status
BY DEF Said, Outcome

LEMMA EndedIsTerminal == \A w \in Work : Ended(w) <=> Terminal(w)
BY DEF Ended, Terminal, TerminalStatuses

(* An outcome that says nothing of an opportunity leaves the named ones.   *)
LEMMA PlainOutcome ==
    ASSUME Shape, NamedStand, NEW w \in Work, NEW v \in Outcome, v.opportunity = 0,
           outcomes' = [outcomes EXCEPT ![w] = v],
           UNCHANGED <<opportunities, links>>
    PROVE  \A x \in Work : outcomes'[x].opportunity # 0 =>
               /\ Stands(outcomes[x].opportunity, x)'
               /\ outcomes'[x].opportunity \in links'
               /\ outcomes'[x].status = "OPPORTUNITY_CREATED"
<1> SUFFICES ASSUME NEW x \in Work, outcomes'[x].opportunity # 0
             PROVE  /\ Stands(outcomes[x].opportunity, x)'
                    /\ outcomes'[x].opportunity \in links'
                    /\ outcomes'[x].status = "OPPORTUNITY_CREATED"
  OBVIOUS
<1>1. x # w /\ outcomes'[x] = outcomes[x]
  BY OneOutcome
<1> QED BY <1>1 DEF NamedStand, Stands

LEMMA InitIInv == Init => IInv
<1> SUFFICES ASSUME Init PROVE IInv
  OBVIOUS
<1>1. Shape
  BY DEF Init, Shape, Steps, Outcome, NoOutcome, Work
<1>2. OpenWork
  BY DEF Init, OpenWork, Working
<1>3. NamedStand
  BY DEF Init, NamedStand, NoOutcome
<1>4. ManifestAgrees
  BY DEF Init, ManifestAgrees, NoManifest
<1> QED BY <1>1, <1>2, <1>3, <1>4 DEF IInv

-----------------------------------------------------------------------------
(* The pass.                                                               *)

LEMMA StartIInv ==
    ASSUME NEW limit \in Limits, NEW cached \in BOOLEAN, IInv, Start(limit, cached)
    PROVE  IInv'
<1> USE DEF IInv
<1>1. /\ step = "idle" /\ step' = "members" /\ todo' = Selected(limit)
      /\ rateLimited' = FALSE
      /\ manifest' = [status |-> "RUNNING", completed |-> {}, opportunities |-> {}]
      /\ UNCHANGED <<outcomes, links, opportunities, research, current, held>>
  BY DEF Start
<1>2. \A h \in todo' : h \in Hypotheses /\ ~ Terminal(h)
  BY <1>1 DEF Selected
<1>3. Shape'
  BY <1>1, <1>2 DEF Shape, Steps
<1>4. OpenWork'
  <2>1. \A h \in todo' : ~ Ended(h)'
    BY <1>1, <1>2, EndedIsTerminal DEF Ended, Work
  <2> QED BY <1>1, <2>1 DEF OpenWork, Working
<1>5. NamedStand'
  BY <1>1 DEF NamedStand, Stands
<1>6. ManifestAgrees'
  BY <1>1 DEF ManifestAgrees
<1> QED BY <1>3, <1>4, <1>5, <1>6

LEMMA ReviewMembersIInv == IInv /\ ReviewMembers => IInv'
<1> SUFFICES ASSUME IInv, ReviewMembers PROVE IInv'
  OBVIOUS
<1> USE DEF IInv
<1>1. /\ step = "members" /\ step' \in {"members", "loop"}
      /\ UNCHANGED <<manifest, links, opportunities, research, todo, rateLimited,
                     current, held>>
  BY DEF ReviewMembers
<1>2. CASE outcomes' = outcomes
  <2>1. Shape'
    BY <1>1, <1>2 DEF Shape, Steps
  <2>2. OpenWork'
    BY <1>1, <1>2 DEF OpenWork, Working, Ended
  <2>3. NamedStand'
    BY <1>1, <1>2 DEF NamedStand, Stands
  <2>4. ManifestAgrees'
    BY <1>1, <1>2 DEF ManifestAgrees
  <2> QED BY <2>1, <2>2, <2>3, <2>4
<1>3. ASSUME NEW m \in Members, outcomes' = [outcomes EXCEPT ![m] = Said("EXCLUDED")]
      PROVE  IInv'
  <2>1. m \in Work /\ m \notin Hypotheses
    BY ResearchAssumption DEF Work
  <2>2. Said("EXCLUDED") \in Outcome /\ Said("EXCLUDED").opportunity = 0
    BY Plain DEF Statuses
  <2>3. \A h \in Hypotheses : outcomes'[h] = outcomes[h]
    BY <1>3, <2>1, <2>2, OneOutcome DEF Work
  <2>4. Shape'
    BY <1>1, <1>3, <2>1, <2>2, OneOutcome DEF Shape, Steps
  <2>5. OpenWork'
    BY <1>1, <2>3 DEF OpenWork, Working, Ended, Shape
  <2>6. NamedStand'
    <3>1. step' # "outcome" /\ step' # "link"
      BY <1>1
    <3>2. \A x \in Work : outcomes'[x].opportunity # 0 =>
               /\ Stands(outcomes[x].opportunity, x)'
               /\ outcomes'[x].opportunity \in links'
               /\ outcomes'[x].status = "OPPORTUNITY_CREATED"
      BY <1>1, <1>3, <2>1, <2>2, PlainOutcome
    <3> QED BY <3>1, <3>2 DEF NamedStand
  <2>7. ManifestAgrees'
    BY <1>1 DEF ManifestAgrees
  <2> QED BY <2>4, <2>5, <2>6, <2>7
<1> QED BY <1>2, <1>3 DEF ReviewMembers

LEMMA TakeIInv == IInv /\ Take => IInv'
<1> SUFFICES ASSUME IInv, Take PROVE IInv'
  OBVIOUS
<1> USE DEF IInv
<1>1. PICK h \in todo :
        /\ IF cacheOnly
           THEN /\ outcomes' = [outcomes EXCEPT ![h] = Said("PENDING")]
                /\ UNCHANGED <<step, current>>
           ELSE step' = "fetch" /\ current' = h /\ UNCHANGED outcomes
        /\ todo' = todo \ {h}
  BY DEF Take
<1>2. /\ step = "loop" /\ UNCHANGED <<manifest, links, opportunities, research,
                                     rateLimited, held>>
  BY DEF Take
<1>3. h \in Hypotheses /\ h \in Work /\ ~ Ended(h) /\ todo # {}
  BY DEF Shape, OpenWork, Work
<1>4. ManifestAgrees'
  <2>1. ~ rateLimited /\ manifest.status = "RUNNING" /\ manifest.opportunities = {}
    BY <1>2, <1>3 DEF ManifestAgrees
  <2> QED BY <1>2, <2>1 DEF ManifestAgrees
<1>5. CASE cacheOnly
  <2>1. /\ outcomes' = [outcomes EXCEPT ![h] = Said("PENDING")]
        /\ step' = "loop" /\ current' = current
    BY <1>1, <1>2, <1>5
  <2>2. /\ Said("PENDING") \in Outcome /\ Said("PENDING").opportunity = 0
        /\ Said("PENDING").status = "PENDING"
    BY Plain DEF Statuses
  <2>3. Shape'
    BY <1>1, <1>2, <1>3, <2>1, <2>2, OneOutcome DEF Shape, Steps
  <2>4. OpenWork'
    <3>1. \A k \in todo' : ~ Ended(k)'
      BY <1>1, <1>3, <2>1, <2>2, OneOutcome DEF Ended, OpenWork, Shape, Work
    <3> QED BY <2>1, <3>1 DEF OpenWork, Working
  <2>5. NamedStand'
    <3>1. \A x \in Work : outcomes'[x].opportunity # 0 =>
               /\ Stands(outcomes[x].opportunity, x)'
               /\ outcomes'[x].opportunity \in links'
               /\ outcomes'[x].status = "OPPORTUNITY_CREATED"
      BY <1>2, <1>3, <2>1, <2>2, PlainOutcome
    <3> QED BY <2>1, <3>1 DEF NamedStand
  <2> QED BY <1>4, <2>3, <2>4, <2>5
<1>6. CASE ~ cacheOnly
  <2>1. step' = "fetch" /\ current' = h /\ outcomes' = outcomes
    BY <1>1, <1>6
  <2>2. Shape'
    BY <1>1, <1>2, <2>1 DEF Shape, Steps
  <2>3. OpenWork'
    BY <1>1, <1>3, <2>1 DEF OpenWork, Working, Ended, Shape
  <2>4. NamedStand'
    BY <1>2, <2>1 DEF NamedStand, Stands
  <2> QED BY <1>4, <2>2, <2>3, <2>4
<1> QED BY <1>5, <1>6

LEMMA CloseIInv == IInv /\ Close => IInv'
<1> SUFFICES ASSUME IInv, Close PROVE IInv'
  OBVIOUS
<1> USE DEF IInv
<1>1. /\ step' = "idle" /\ todo' = {} /\ rateLimited' = FALSE
      /\ UNCHANGED <<outcomes, links, opportunities, research>>
  BY DEF Close, Forget
<1>2. Shape'
  BY <1>1 DEF Shape, Steps
<1>3. OpenWork'
  BY <1>1 DEF OpenWork, Working
<1>4. NamedStand'
  BY <1>1 DEF NamedStand, Stands
<1>5. ManifestAgrees'
  <2> DEFINE open == \/ Completed # Work
                     \/ \E w \in Work : outcomes[w].status \in
                                           {"FAILED", "DEGRADED", "PENDING"}
  <2>1. /\ manifest'.status = IF rateLimited THEN "RATE_LIMITED"
                              ELSE IF open THEN "PARTIAL" ELSE "COMPLETED"
        /\ manifest'.completed = Completed /\ manifest'.opportunities = Named
    BY DEF Close
  <2>2. Completed' = Completed /\ Named' = Named
    BY <1>1 DEF Completed, Named, Terminal
  <2>3. Completed = Work => \A w \in Work : outcomes[w].status \notin
                                             {"FAILED", "DEGRADED", "PENDING"}
    BY DEF Completed, Terminal, TerminalStatuses
  <2>4. rateLimited => Completed # Work
    BY EndedIsTerminal DEF ManifestAgrees, Completed, Work
  <2>5. manifest'.status = "COMPLETED" <=> Completed = Work
    BY <2>1, <2>3, <2>4
  <2>6. manifest'.status \notin {"NONE", "RUNNING"}
    BY <2>1
  <2> QED BY <1>1, <2>1, <2>2, <2>5, <2>6 DEF ManifestAgrees
<1> QED BY <1>2, <1>3, <1>4, <1>5

-----------------------------------------------------------------------------
(* The processing of one hypothesis.                                       *)

(* A step of _process that stores nothing the invariant speaks of.         *)
LEMMA QuietIInv ==
    ASSUME IInv, step \in Working, step' \in Working \ {"link"},
           step' \in {"assess", "score"} => current \in Directional,
           step' = "outcome" => held' \in Outcome /\ held'.opportunity = 0,
           research' \in [Hypotheses -> Nat],
           UNCHANGED <<manifest, outcomes, links, opportunities, todo, rateLimited,
                       current>>
    PROVE  IInv'
<1> USE DEF IInv
<1>1. Shape'
  BY DEF Shape, Steps, Working
<1>2. OpenWork'
  BY DEF OpenWork, Working, Ended
<1>3. NamedStand'
  BY DEF NamedStand, Stands
<1>4. ManifestAgrees'
  BY DEF ManifestAgrees, Working
<1> QED BY <1>1, <1>2, <1>3, <1>4

LEMMA FetchIInv == IInv /\ (FetchEvidence \/ NoEvidence) => IInv'
<1> SUFFICES ASSUME IInv, FetchEvidence \/ NoEvidence PROVE IInv'
  OBVIOUS
<1>1. /\ step = "fetch" /\ step' \in {"research", "outcome"}
      /\ step' = "outcome" => held' = Said("DEGRADED")
      /\ UNCHANGED <<manifest, outcomes, links, opportunities, research, todo,
                     rateLimited, current>>
  BY DEF FetchEvidence, NoEvidence, Processing
<1>2. Said("DEGRADED") \in Outcome /\ Said("DEGRADED").opportunity = 0
  BY Plain DEF Statuses
<1>3. research' \in [Hypotheses -> Nat]
  BY <1>1 DEF IInv, Shape
<1> QED BY <1>1, <1>2, <1>3, QuietIInv DEF Working

LEMMA ResearchIInv == IInv /\ Research => IInv'
<1> SUFFICES ASSUME IInv, Research PROVE IInv'
  OBVIOUS
<1>1. /\ step = "research"
      /\ research' = [research EXCEPT ![current] = @ + 1]
      /\ IF current \in Monitors THEN held' = Said("RESEARCHED") /\ step' = "outcome"
                                  ELSE step' = "assess"
      /\ UNCHANGED <<manifest, outcomes, links, opportunities, todo, rateLimited,
                     current>>
  BY DEF Research, Processing
<1>2. current \in Hypotheses
  BY <1>1 DEF IInv, OpenWork, Working
<1>3. research' \in [Hypotheses -> Nat]
  BY <1>1, <1>2 DEF IInv, Shape
<1>4. step' = "assess" => current \in Directional
  BY <1>1, <1>2 DEF Hypotheses
<1>5. Said("RESEARCHED") \in Outcome /\ Said("RESEARCHED").opportunity = 0
  BY Plain DEF Statuses
<1> QED BY <1>1, <1>3, <1>4, <1>5, QuietIInv DEF Working

LEMMA AssessIInv ==
    ASSUME NEW answered \in BOOLEAN, IInv, Assess(answered)
    PROVE  IInv'
<1>1. /\ step = "assess" /\ step' = "score"
      /\ UNCHANGED <<manifest, outcomes, links, opportunities, research, todo,
                     rateLimited, current>>
  BY DEF Assess, Processing
<1>2. current \in Directional /\ research' \in [Hypotheses -> Nat]
  BY <1>1 DEF IInv, OpenWork, Shape
<1> QED BY <1>1, <1>2, QuietIInv DEF Working

LEMMA ScoreIInv ==
    ASSUME NEW shared \in BOOLEAN, NEW eligible \in BOOLEAN, IInv,
           Score(shared, eligible)
    PROVE  IInv'
<1> USE DEF IInv
<1>1. /\ step = "score"
      /\ UNCHANGED <<manifest, outcomes, links, research, todo, rateLimited, current>>
  BY DEF Score, Processing
<1>2. current \in Directional /\ current \in Hypotheses
  BY <1>1 DEF OpenWork, Hypotheses
<1>3. CASE eligible /\ MayMaterialize(shared)
  <2> DEFINE new == [hypothesis |-> current, research |-> research[current],
                     shared |-> shared]
  <2>1. opportunities' = Append(opportunities, new) /\ step' = "link"
    BY <1>3 DEF Score
  <2>2. new \in Opportunity
    BY <1>2 DEF Opportunity, Shape
  <2>3. opportunities \in Seq(Opportunity)
    BY DEF Shape
  <2> HIDE DEF new
  <2>4. /\ opportunities' \in Seq(Opportunity)
        /\ Len(opportunities') = Len(opportunities) + 1 /\ Len(opportunities') > 0
        /\ Len(opportunities') \in DOMAIN opportunities'
        /\ opportunities'[Len(opportunities')] = new
        /\ DOMAIN opportunities \subseteq DOMAIN opportunities'
        /\ \A o \in DOMAIN opportunities : opportunities'[o] = opportunities[o]
    BY <2>1, <2>2, <2>3
  <2>5. Shape'
    BY <1>1, <2>1, <2>4 DEF Shape, Steps
  <2>6. OpenWork'
    BY <1>1, <1>2, <2>1 DEF OpenWork, Working, Ended
  <2>7. NamedStand'
    <3>1. \A w \in Work : outcomes'[w].opportunity # 0 =>
             /\ Stands(outcomes[w].opportunity, w)'
             /\ outcomes'[w].opportunity \in links'
             /\ outcomes'[w].status = "OPPORTUNITY_CREATED"
      BY <1>1, <2>4 DEF NamedStand, Stands
    <3>2. Stands(Len(opportunities), current)'
      <4>1. new.hypothesis = current /\ (current \in Short => new.shared)
        BY <1>3 DEF new, MayMaterialize
      <4> QED BY <1>1, <1>2, <2>4, <4>1 DEF Stands
    <3> QED BY <2>1, <2>4, <3>1, <3>2 DEF NamedStand
  <2>8. ManifestAgrees'
    BY <1>1, <2>1 DEF ManifestAgrees
  <2> QED BY <2>5, <2>6, <2>7, <2>8
<1>4. CASE ~ (eligible /\ MayMaterialize(shared))
  <2>1. /\ held' = Said("EXCLUDED") /\ step' = "outcome"
        /\ UNCHANGED opportunities
    BY <1>4 DEF Score
  <2>2. Said("EXCLUDED") \in Outcome /\ Said("EXCLUDED").opportunity = 0
    BY Plain DEF Statuses
  <2>3. research' \in [Hypotheses -> Nat]
    BY <1>1 DEF Shape
  <2> QED BY <1>1, <2>1, <2>2, <2>3, QuietIInv DEF Working
<1> QED BY <1>3, <1>4

LEMMA SaveLinkIInv == IInv /\ SaveLink => IInv'
<1> SUFFICES ASSUME IInv, SaveLink PROVE IInv'
  OBVIOUS
<1> USE DEF IInv
<1> DEFINE o == Len(opportunities)
<1>1. /\ step = "link" /\ step' = "outcome" /\ links' = links \union {o}
      /\ held' = [status |-> "OPPORTUNITY_CREATED", opportunity |-> o]
      /\ UNCHANGED <<manifest, outcomes, opportunities, research, todo, rateLimited,
                     current>>
  BY DEF SaveLink, Processing
<1>2. o \in Nat /\ o > 0 /\ o \in DOMAIN opportunities /\ Stands(o, current)
  BY <1>1 DEF NamedStand, Shape
<1> HIDE DEF o
<1>3. /\ held' \in Outcome /\ held'.opportunity = o
      /\ held'.status = "OPPORTUNITY_CREATED"
  BY <1>1, <1>2 DEF Outcome, Statuses
<1>4. Shape'
  BY <1>1, <1>2 DEF Shape, Steps
<1>5. OpenWork'
  BY <1>1 DEF OpenWork, Working, Ended
<1>6. NamedStand'
  BY <1>1, <1>2, <1>3 DEF NamedStand, Stands
<1>7. ManifestAgrees'
  BY <1>1 DEF ManifestAgrees
<1> QED BY <1>4, <1>5, <1>6, <1>7

(* The outcome of the current hypothesis ends its processing.              *)
LEMMA OutcomeIInv ==
    ASSUME IInv, step \in Working, NEW v \in Outcome,
           v.opportunity # 0 => /\ Stands(v.opportunity, current)
                                /\ v.opportunity \in links
                                /\ v.status = "OPPORTUNITY_CREATED",
           outcomes' = [outcomes EXCEPT ![current] = v], step' = "loop",
           UNCHANGED <<manifest, links, opportunities, research, todo, rateLimited>>
    PROVE  IInv'
<1> USE DEF IInv
<1>1. current \in Hypotheses /\ current \in Work /\ current \notin todo
  BY DEF OpenWork, Work
<1>2. /\ outcomes' \in [Work -> Outcome \union {NoOutcome}] /\ outcomes'[current] = v
      /\ \A x \in Work : x # current => outcomes'[x] = outcomes[x]
  BY <1>1, OneOutcome
<1>3. Shape'
  BY <1>2 DEF Shape, Steps
<1>4. OpenWork'
  BY <1>1, <1>2 DEF OpenWork, Working, Ended, Shape, Work
<1>5. NamedStand'
  <2>1. ASSUME NEW w \in Work, outcomes'[w].opportunity # 0
        PROVE  /\ Stands(outcomes[w].opportunity, w)'
               /\ outcomes'[w].opportunity \in links'
               /\ outcomes'[w].status = "OPPORTUNITY_CREATED"
    <3>1. CASE w = current
      BY <3>1, <2>1, <1>2 DEF Stands
    <3>2. CASE w # current
      BY <3>2, <2>1, <1>2 DEF NamedStand, Stands
    <3> QED BY <3>1, <3>2
  <2> QED BY <2>1 DEF NamedStand
<1>6. ManifestAgrees'
  BY DEF ManifestAgrees, Working
<1> QED BY <1>3, <1>4, <1>5, <1>6

LEMMA SaveOutcomeIInv == IInv /\ SaveOutcome => IInv'
<1> SUFFICES ASSUME IInv, SaveOutcome PROVE IInv'
  OBVIOUS
<1>1. /\ step = "outcome" /\ step' = "loop"
      /\ outcomes' = [outcomes EXCEPT ![current] = held]
      /\ UNCHANGED <<manifest, links, opportunities, research, todo, rateLimited>>
  BY DEF SaveOutcome, Processing
<1>2. /\ held \in Outcome
      /\ held.opportunity # 0 => /\ Stands(held.opportunity, current)
                                 /\ held.opportunity \in links
                                 /\ held.status = "OPPORTUNITY_CREATED"
  BY <1>1 DEF IInv, NamedStand
<1> QED BY <1>1, <1>2, OutcomeIInv DEF Working

LEMMA RaiseIInv == IInv /\ Raise => IInv'
<1> SUFFICES ASSUME IInv, Raise PROVE IInv'
  OBVIOUS
<1>1. /\ step \in Working /\ step' = "loop"
      /\ outcomes' = [outcomes EXCEPT ![current] = Said("FAILED")]
      /\ UNCHANGED <<manifest, links, opportunities, research, todo, rateLimited>>
  BY DEF Raise, Processing, Working
<1>2. Said("FAILED") \in Outcome /\ Said("FAILED").opportunity = 0
  BY Plain DEF Statuses
<1> QED BY <1>1, <1>2, OutcomeIInv

LEMMA RateLimitIInv == IInv /\ RateLimit => IInv'
<1> SUFFICES ASSUME IInv, RateLimit PROVE IInv'
  OBVIOUS
<1> USE DEF IInv
<1>1. /\ step \in Working /\ step' = "loop" /\ todo' = {} /\ rateLimited' = TRUE
      /\ UNCHANGED <<manifest, outcomes, links, opportunities, research>>
  BY DEF RateLimit, store, Working
<1>2. current \in Hypotheses /\ ~ Ended(current)
  BY <1>1 DEF OpenWork
<1>3. Shape'
  BY <1>1 DEF Shape, Steps
<1>4. OpenWork'
  BY <1>1 DEF OpenWork, Working
<1>5. NamedStand'
  BY <1>1 DEF NamedStand, Stands
<1>6. ManifestAgrees'
  <2>1. \E h \in Hypotheses : ~ Ended(h)'
    BY <1>1, <1>2 DEF Ended
  <2>2. manifest'.status = "RUNNING" /\ manifest'.opportunities = {}
    BY <1>1 DEF ManifestAgrees, Working
  <2> QED BY <1>1, <2>1, <2>2 DEF ManifestAgrees
<1> QED BY <1>3, <1>4, <1>5, <1>6

LEMMA CrashIInv == IInv /\ Crash => IInv'
<1> SUFFICES ASSUME IInv, Crash PROVE IInv'
  OBVIOUS
<1> USE DEF IInv
<1>1. /\ step # "idle" /\ step' = "idle" /\ todo' = {} /\ rateLimited' = FALSE
      /\ UNCHANGED <<manifest, outcomes, links, opportunities, research>>
  BY DEF Crash, Forget, store
<1>2. Shape'
  BY <1>1 DEF Shape, Steps
<1>3. OpenWork'
  BY <1>1 DEF OpenWork, Working
<1>4. NamedStand'
  BY <1>1 DEF NamedStand, Stands
<1>5. ManifestAgrees'
  BY <1>1 DEF ManifestAgrees
<1> QED BY <1>2, <1>3, <1>4, <1>5

LEMMA StepIInv == IInv /\ [Next]_vars => IInv'
<1> SUFFICES ASSUME IInv, [Next]_vars PROVE IInv'
  OBVIOUS
<1>1. CASE UNCHANGED vars
  BY <1>1 DEF vars, store, pass, IInv, Shape, OpenWork, NamedStand, ManifestAgrees,
     Ended, Stands, Completed, Named, Terminal
<1>2. CASE \E limit \in Limits, cached \in BOOLEAN : Start(limit, cached)
  BY <1>2, StartIInv
<1>3. CASE Process
  <2>1. CASE \E answered \in BOOLEAN : Assess(answered)
    BY <2>1, AssessIInv
  <2>2. CASE \E shared, eligible \in BOOLEAN : Score(shared, eligible)
    BY <2>2, ScoreIInv
  <2> QED BY <1>3, <2>1, <2>2, ReviewMembersIInv, TakeIInv, CloseIInv, FetchIInv,
             ResearchIInv, SaveLinkIInv, SaveOutcomeIInv, RaiseIInv, RateLimitIInv
          DEF Process
<1> QED BY <1>1, <1>2, <1>3, CrashIInv DEF Next

LEMMA Invariant == Spec => []IInv
BY InitIInv, StepIInv, PTL DEF Spec

-----------------------------------------------------------------------------
(* Theorems.                                                               *)

(* What the manifest of an ended pass announces can be selected: one       *)
(* outcome names it, the link is stored, a SHORT rests on the shared       *)
(* assessment.                                                             *)
THEOREM ListedSelectable == Spec => []ListedIsSelectable
<1>1. IInv => ListedIsSelectable
  <2> SUFFICES ASSUME IInv, NEW o \in manifest.opportunities
               PROVE  /\ o \in DOMAIN opportunities /\ o \in links
                      /\ opportunities[o].hypothesis \in Short => opportunities[o].shared
                      /\ \E w \in Directional :
                           /\ outcomes[w] = [status |-> "OPPORTUNITY_CREATED",
                                             opportunity |-> o]
                           /\ opportunities[o].hypothesis = w
                           /\ \A v \in Work \ {w} : outcomes[v].opportunity # o
    BY DEF ListedIsSelectable
  <2>1. o \in Named
    BY DEF IInv, ManifestAgrees
  <2>2. PICK w \in Work : outcomes[w].opportunity = o /\ o # 0
    BY <2>1 DEF Named
  <2>3. /\ Stands(o, w) /\ o \in links /\ outcomes[w].status = "OPPORTUNITY_CREATED"
    BY <2>2 DEF IInv, NamedStand
  <2>4. outcomes[w] \in Outcome \union {NoOutcome}
    BY DEF IInv, Shape
  <2>5. outcomes[w] = [status |-> "OPPORTUNITY_CREATED", opportunity |-> o]
    BY <2>2, <2>3, <2>4 DEF Outcome, NoOutcome
  <2>6. ASSUME NEW v \in Work, v # w PROVE outcomes[v].opportunity # o
    BY <2>2, <2>3, <2>6 DEF IInv, NamedStand, Stands
  <2> QED BY <2>3, <2>5, <2>6 DEF Stands
<1> QED BY <1>1, Invariant, PTL

(* The manifest of an ended pass agrees with the outcomes of all passes.   *)
THEOREM ManifestFaithful == Spec => []ManifestTellsOutcomes
<1>1. IInv => ManifestTellsOutcomes
  <2> SUFFICES ASSUME IInv, manifest.status \notin {"NONE", "RUNNING"}
               PROVE  /\ manifest.completed = {w \in Work : Ended(w)}
                      /\ manifest.opportunities = Named
                      /\ manifest.status = "COMPLETED" <=> \A w \in Work : Ended(w)
    BY DEF ManifestTellsOutcomes
  <2>1. Completed = {w \in Work : Ended(w)}
    BY EndedIsTerminal DEF Completed
  <2>2. /\ manifest.completed = Completed /\ manifest.opportunities = Named
        /\ manifest.status = "COMPLETED" <=> Completed = Work
    BY DEF IInv, ManifestAgrees
  <2> QED BY <2>1, <2>2
<1> QED BY <1>1, Invariant, PTL

(* Ended work is neither researched again nor given another outcome.       *)
THEOREM EndedStands == Spec => EndedNeverReworked
<1> DEFINE Kept == \A h \in Hypotheses : Ended(h) => /\ outcomes'[h] = outcomes[h]
                                                    /\ research'[h] = research[h]
<1>1. IInv /\ [Next]_vars => [Kept]_vars
  <2> SUFFICES ASSUME IInv, Next PROVE Kept
    BY DEF vars
  <2>1. CASE UNCHANGED <<outcomes, research>>
    BY <2>1
  <2>2. ASSUME NEW w \in Work, NEW v \in Outcome, ~ Ended(w) \/ w \in Members,
               outcomes' = [outcomes EXCEPT ![w] = v], research' = research
        PROVE  Kept
    <3>1. \A x \in Work : x # w => outcomes'[x] = outcomes[x]
      BY <2>2, OneOutcome DEF IInv
    <3>2. Hypotheses \subseteq Work /\ Hypotheses \intersect Members = {}
      BY ResearchAssumption DEF Work
    <3> QED BY <2>2, <3>1, <3>2
  <2>3. CASE ReviewMembers
    <3>1. Said("EXCLUDED") \in Outcome
      BY Plain DEF Statuses
    <3>2. research' = research
      BY <2>3 DEF ReviewMembers
    <3>3. \/ outcomes' = outcomes
          \/ \E m \in Members : outcomes' = [outcomes EXCEPT ![m] = Said("EXCLUDED")]
      BY <2>3 DEF ReviewMembers
    <3>4. Members \subseteq Work
      BY DEF Work
    <3> QED BY <2>1, <2>2, <3>1, <3>2, <3>3, <3>4
  <2>4. CASE Take
    <3>1. Said("PENDING") \in Outcome
      BY Plain DEF Statuses
    <3>2. research' = research
      BY <2>4 DEF Take
    <3>3. \/ outcomes' = outcomes
          \/ \E h \in todo : outcomes' = [outcomes EXCEPT ![h] = Said("PENDING")]
      BY <2>4 DEF Take
    <3>4. \A h \in todo : h \in Work /\ ~ Ended(h)
      BY DEF IInv, Shape, OpenWork, Work
    <3> QED BY <2>1, <2>2, <3>1, <3>2, <3>3, <3>4
  <2>5. CASE Research
    <3>1. /\ research' = [research EXCEPT ![current] = @ + 1] /\ outcomes' = outcomes
          /\ current \in Hypotheses /\ ~ Ended(current)
      BY <2>5 DEF Research, IInv, OpenWork, Working
    <3>2. \A h \in Hypotheses : h # current => research'[h] = research[h]
      BY <3>1 DEF IInv, Shape
    <3> QED BY <3>1, <3>2
  <2>6. CASE SaveOutcome
    <3>1. /\ outcomes' = [outcomes EXCEPT ![current] = held] /\ research' = research
          /\ step = "outcome"
      BY <2>6 DEF SaveOutcome
    <3>2. held \in Outcome /\ current \in Work /\ ~ Ended(current)
      BY <3>1 DEF IInv, NamedStand, OpenWork, Working, Work
    <3> QED BY <2>2, <3>1, <3>2
  <2>7. CASE Raise
    <3>1. /\ outcomes' = [outcomes EXCEPT ![current] = Said("FAILED")]
          /\ research' = research /\ step \in Working
      BY <2>7 DEF Raise, Working
    <3>2. Said("FAILED") \in Outcome /\ current \in Work /\ ~ Ended(current)
      BY <3>1, Plain DEF IInv, OpenWork, Work, Statuses
    <3> QED BY <2>2, <3>1, <3>2
  <2>8. ASSUME \/ \E limit \in Limits, cached \in BOOLEAN : Start(limit, cached)
               \/ Close \/ FetchEvidence \/ NoEvidence
               \/ \E answered \in BOOLEAN : Assess(answered)
               \/ \E shared, eligible \in BOOLEAN : Score(shared, eligible)
               \/ SaveLink \/ RateLimit \/ Crash
        PROVE  UNCHANGED <<outcomes, research>>
    BY <2>8 DEF Start, Close, FetchEvidence, NoEvidence, Assess, Score, SaveLink,
       RateLimit, Crash, store
  <2> QED BY <2>1, <2>3, <2>4, <2>5, <2>6, <2>7, <2>8 DEF Next, Process
<1> QED BY <1>1, Invariant, PTL DEF Spec, EndedNeverReworked

-----------------------------------------------------------------------------
(* Opportunities left behind.  One that is stored is owed an outcome until *)
(* the outcome that names it is; no outcome that names one is replaced, so *)
(* only what interrupts _process there leaves one unclaimed.               *)

Unclaimed == {o \in DOMAIN opportunities : o \notin Named}
IsOwed == step = "link" \/ (step = "outcome" /\ held.opportunity # 0)
Owed == IF IsOwed THEN 1 ELSE 0
OwedOne == IF step = "link" THEN Len(opportunities) ELSE held.opportunity

Claims ==
    /\ failures \in Nat /\ crashes \in Nat
    /\ IsOwed => OwedOne \notin Named
    /\ Cardinality(Unclaimed) <= crashes + failures + Owed

LEMMA UnclaimedFinite ==
    ASSUME Shape
    PROVE  IsFiniteSet(Unclaimed) /\ Cardinality(Unclaimed) \in Nat
<1>1. DOMAIN opportunities = 1 .. Len(opportunities) /\ Len(opportunities) \in Nat
  BY DEF Shape
<1>2. IsFiniteSet(1 .. Len(opportunities))
  BY <1>1, FS_Interval
<1>3. IsFiniteSet(Unclaimed)
  BY <1>1, <1>2, FS_Subset DEF Unclaimed
<1> QED BY <1>3, FS_CardinalityType

(* What is still open names nothing, so an outcome for it only adds.       *)
LEMMA NamedGrows ==
    ASSUME Shape, NamedStand, NEW w \in Work, ~ Ended(w), NEW v \in Outcome,
           outcomes' = [outcomes EXCEPT ![w] = v]
    PROVE  Named' = Named \union ({v.opportunity} \ {0})
<1>1. /\ outcomes'[w] = v
      /\ \A x \in Work : x # w => outcomes'[x] = outcomes[x]
  BY OneOutcome
<1>2. outcomes[w].opportunity = 0
  BY DEF NamedStand, Ended
<1> QED BY <1>1, <1>2 DEF Named

(* A step that neither stores nor names an opportunity, and settles what   *)
(* was owed only by an interruption.                                       *)
LEMMA ClaimsKept ==
    ASSUME IInv, Claims, opportunities' = opportunities, Named' = Named,
           IsOwed' => IsOwed /\ OwedOne' = OwedOne,
           \/ failures' = failures /\ crashes' = crashes /\ (IsOwed => IsOwed')
           \/ failures' = failures + 1 /\ crashes' = crashes
           \/ failures' = failures /\ crashes' = crashes + 1
    PROVE  Claims'
<1>1. Unclaimed' = Unclaimed
  BY DEF Unclaimed
<1>2. Cardinality(Unclaimed) \in Nat /\ failures \in Nat /\ crashes \in Nat
  BY UnclaimedFinite DEF IInv, Claims
<1>3. IsOwed' => OwedOne' \notin Named'
  BY DEF Claims
<1>4. Cardinality(Unclaimed') <= crashes' + failures' + Owed'
  BY <1>1, <1>2 DEF Claims, Owed
<1> QED BY <1>2, <1>3, <1>4 DEF Claims

LEMMA ClaimsInit == ASSUME Init PROVE Claims
<1>1. Unclaimed = {}
  BY DEF Init, Unclaimed
<1>2. Cardinality(Unclaimed) = 0
  BY <1>1, FS_EmptySet
<1>3. ~ IsOwed /\ failures = 0 /\ crashes = 0
  BY DEF Init, IsOwed
<1> QED BY <1>2, <1>3 DEF Claims, Owed

LEMMA ClaimsScore ==
    ASSUME IInv, Claims, NEW shared \in BOOLEAN, NEW eligible \in BOOLEAN,
           Score(shared, eligible)
    PROVE  Claims'
<1> DEFINE n == Len(opportunities) + 1
<1>1. /\ step = "score" /\ UNCHANGED <<outcomes, failures, crashes>>
      /\ Named' = Named /\ ~ IsOwed
  BY DEF Score, Processing, Named, IsOwed
<1>2. CASE step' = "outcome"
  <2>1. opportunities' = opportunities /\ held'.opportunity = 0
    BY <1>2 DEF Score, Said
  <2> QED BY <1>1, <1>2, <2>1, ClaimsKept DEF IsOwed
<1>3. CASE step' = "link"
  <2> DEFINE row == [hypothesis |-> current, research |-> research[current],
                     shared |-> shared]
  <2>1. opportunities' = Append(opportunities, row)
    BY <1>3 DEF Score
  <2>2. opportunities \in Seq(Opportunity) /\ Len(opportunities) \in Nat
    BY DEF IInv, Shape
  <2>3. row \in Opportunity
    <3>1. /\ current \in Directional /\ current \in Hypotheses
          /\ research \in [Hypotheses -> Nat]
      BY <1>1 DEF IInv, Shape, OpenWork, Working
    <3> QED BY <3>1 DEF Opportunity
  <2> HIDE DEF row
  <2>4. /\ Len(opportunities') = n /\ DOMAIN opportunities' = 1 .. n
        /\ DOMAIN opportunities = 1 .. Len(opportunities)
    BY <2>1, <2>2, <2>3
  <2>5. Named \subseteq DOMAIN opportunities
    BY DEF IInv, NamedStand, Stands, Named
  <2>6. IsOwed' /\ OwedOne' = n /\ n \notin Named
    BY <1>3, <2>2, <2>4, <2>5 DEF IsOwed, OwedOne
  <2>7. Unclaimed' \subseteq Unclaimed \union {n}
    BY <1>1, <2>2, <2>4 DEF Unclaimed
  <2>8. /\ IsFiniteSet(Unclaimed) /\ Cardinality(Unclaimed) \in Nat
        /\ failures \in Nat /\ crashes \in Nat
    BY UnclaimedFinite DEF IInv, Claims
  <2>9. /\ IsFiniteSet(Unclaimed \union {n})
        /\ Cardinality(Unclaimed \union {n}) <= Cardinality(Unclaimed) + 1
        /\ Cardinality(Unclaimed \union {n}) \in Nat
    BY <2>8, FS_AddElement, FS_CardinalityType
  <2>10. /\ Cardinality(Unclaimed') <= Cardinality(Unclaimed \union {n})
         /\ Cardinality(Unclaimed') \in Nat
    BY <2>7, <2>9, FS_Subset, FS_CardinalityType
  <2>11. Cardinality(Unclaimed) <= crashes + failures
    BY <1>1, <2>8 DEF Claims, Owed
  <2>12. Cardinality(Unclaimed') <= crashes + failures + 1
    BY <2>8, <2>9, <2>10, <2>11
  <2> QED BY <1>1, <2>6, <2>8, <2>12 DEF Claims, Owed
<1> QED BY <1>2, <1>3 DEF Score

LEMMA ClaimsSaveOutcome ==
    ASSUME IInv, Claims, SaveOutcome
    PROVE  Claims'
<1>1. /\ step = "outcome" /\ step' = "loop" /\ UNCHANGED <<opportunities, failures, crashes>>
      /\ outcomes' = [outcomes EXCEPT ![current] = held]
      /\ held \in Outcome /\ current \in Work /\ ~ Ended(current)
  BY DEF SaveOutcome, Processing, IInv, NamedStand, OpenWork, Working, Work
<1>2. Named' = Named \union ({held.opportunity} \ {0})
  BY <1>1, NamedGrows DEF IInv
<1>3. ~ IsOwed' /\ Owed' = 0
  BY <1>1 DEF IsOwed, Owed
<1>4. CASE held.opportunity = 0
  <2>1. Named' = Named /\ ~ IsOwed
    BY <1>1, <1>2, <1>4 DEF IsOwed
  <2> QED BY <1>1, <1>3, <2>1, ClaimsKept
<1>5. CASE held.opportunity # 0
  <2>1. held.opportunity \in Unclaimed
    BY <1>1, <1>5 DEF IInv, NamedStand, Stands, Claims, IsOwed, OwedOne, Unclaimed
  <2>2. Unclaimed' = Unclaimed \ {held.opportunity}
    BY <1>1, <1>2, <1>5 DEF Unclaimed
  <2>3. /\ IsFiniteSet(Unclaimed) /\ Cardinality(Unclaimed) \in Nat
        /\ failures \in Nat /\ crashes \in Nat
    BY UnclaimedFinite DEF IInv, Claims
  <2>4. Cardinality(Unclaimed') = Cardinality(Unclaimed) - 1
    BY <2>1, <2>2, <2>3, FS_RemoveElement
  <2>5. Cardinality(Unclaimed) <= crashes + failures + 1
    BY <1>1, <1>5 DEF Claims, Owed, IsOwed
  <2> QED BY <1>1, <1>3, <2>3, <2>4, <2>5 DEF Claims
<1> QED BY <1>4, <1>5

LEMMA ClaimsStep == IInv /\ Claims /\ [Next]_vars => Claims'
<1> SUFFICES ASSUME IInv, Claims, [Next]_vars PROVE Claims'
  OBVIOUS
<1>1. ASSUME outcomes' = outcomes PROVE Named' = Named
  BY <1>1 DEF Named
<1>2. ASSUME NEW w \in Work, NEW s \in Statuses, ~ Ended(w),
             outcomes' = [outcomes EXCEPT ![w] = Said(s)]
      PROVE  Named' = Named
  <2>1. Said(s) \in Outcome /\ Said(s).opportunity = 0
    BY Plain
  <2> QED BY <1>2, <2>1, NamedGrows DEF IInv
<1>3. CASE UNCHANGED vars
  BY <1>1, <1>3, ClaimsKept DEF vars, store, pass, observed, IsOwed, OwedOne
<1>4. ASSUME NEW limit \in Limits, NEW cached \in BOOLEAN, Start(limit, cached)
      PROVE  Claims'
  BY <1>1, <1>4, ClaimsKept DEF Start, observed, IsOwed
<1>5. CASE ReviewMembers
  <2>1. /\ opportunities' = opportunities /\ step = "members"
        /\ step' \in {"members", "loop"} /\ UNCHANGED observed
    BY <1>5 DEF ReviewMembers
  <2>2. \/ outcomes' = outcomes
        \/ \E m \in Members : /\ outcomes[m] = NoOutcome
                              /\ outcomes' = [outcomes EXCEPT ![m] = Said("EXCLUDED")]
    BY <1>5 DEF ReviewMembers
  <2>3. \A m \in Members : outcomes[m] = NoOutcome => m \in Work /\ ~ Ended(m)
    BY DEF Work, Ended, NoOutcome
  <2>4. Named' = Named
    BY <1>1, <1>2, <2>2, <2>3 DEF Statuses
  <2> QED BY <2>1, <2>4, ClaimsKept DEF observed, IsOwed
<1>6. CASE Take
  <2>1. /\ opportunities' = opportunities /\ step = "loop"
        /\ step' \in {"loop", "fetch"} /\ UNCHANGED observed
    BY <1>6 DEF Take
  <2>2. \/ outcomes' = outcomes
        \/ \E h \in todo : outcomes' = [outcomes EXCEPT ![h] = Said("PENDING")]
    BY <1>6 DEF Take
  <2>3. \A h \in todo : h \in Work /\ ~ Ended(h)
    BY DEF IInv, Shape, OpenWork, Work
  <2>4. Named' = Named
    BY <1>1, <1>2, <2>2, <2>3 DEF Statuses
  <2> QED BY <2>1, <2>4, ClaimsKept DEF observed, IsOwed
<1>7. CASE Close
  BY <1>1, <1>7, ClaimsKept DEF Close, Forget, observed, IsOwed
<1>8. CASE FetchEvidence
  BY <1>1, <1>8, ClaimsKept DEF FetchEvidence, Processing, IsOwed
<1>9. CASE NoEvidence
  BY <1>1, <1>9, ClaimsKept DEF NoEvidence, Processing, IsOwed, Said
<1>10. CASE Research
  BY <1>1, <1>10, ClaimsKept DEF Research, Processing, IsOwed, Said
<1>11. ASSUME NEW answered \in BOOLEAN, Assess(answered) PROVE Claims'
  BY <1>1, <1>11, ClaimsKept DEF Assess, Processing, IsOwed
<1>12. CASE SaveLink
  <2>1. /\ step = "link" /\ step' = "outcome" /\ held'.opportunity = Len(opportunities)
        /\ UNCHANGED <<outcomes, opportunities, failures, crashes>>
    BY <1>12 DEF SaveLink, Processing
  <2>2. Len(opportunities) # 0
    BY <2>1 DEF IInv, NamedStand
  <2> QED BY <1>1, <2>1, <2>2, ClaimsKept DEF IsOwed, OwedOne
<1>13. CASE Raise
  <2>1. /\ outcomes' = [outcomes EXCEPT ![current] = Said("FAILED")]
        /\ opportunities' = opportunities /\ failures' = failures + 1
        /\ crashes' = crashes /\ step' = "loop" /\ step \in Working
    BY <1>13 DEF Raise, Processing, Working
  <2>2. current \in Work /\ ~ Ended(current)
    BY <2>1 DEF IInv, OpenWork, Work
  <2>3. Named' = Named
    BY <1>2, <2>1, <2>2 DEF Statuses
  <2> QED BY <2>1, <2>3, ClaimsKept DEF IsOwed
<1>14. CASE RateLimit
  BY <1>1, <1>14, ClaimsKept DEF RateLimit, store, IsOwed
<1>15. CASE Crash
  BY <1>1, <1>15, ClaimsKept DEF Crash, store, Forget, IsOwed
<1>16. CASE Process
  BY <1>5, <1>6, <1>7, <1>8, <1>9, <1>10, <1>11, <1>12, <1>13, <1>14, <1>16,
     ClaimsScore, ClaimsSaveOutcome DEF Process
<1> QED BY <1>3, <1>4, <1>15, <1>16 DEF Next

(* Every opportunity that no outcome names was left behind by a failure or *)
(* a crash of its own, for any number of them; the one being worked on is  *)
(* excepted.                                                               *)
THEOREM UnclaimedForCause == Spec => []UnclaimedOnlyByInterruption
<1>1. Spec => []Claims
  BY ClaimsInit, ClaimsStep, Invariant, PTL DEF Spec
<1>2. IInv /\ Claims => UnclaimedOnlyByInterruption
  <2> SUFFICES ASSUME IInv, Claims PROVE UnclaimedOnlyByInterruption
    OBVIOUS
  <2>1. Cardinality(Unclaimed) \in Nat
    BY UnclaimedFinite DEF IInv
  <2>2. Cardinality(Unclaimed)
          <= crashes + failures + (IF step \in {"link", "outcome"} THEN 1 ELSE 0)
    BY <2>1 DEF Claims, Owed, IsOwed
  <2> QED BY <2>2 DEF Unclaimed, UnclaimedOnlyByInterruption
<1> QED BY <1>1, <1>2, Invariant, PTL
-----------------------------------------------------------------------------
(* A pass ends: what the liveness of EventuallyCompleted rests on beside   *)
(* its fairness.                                                           *)

Unreviewed == {m \in Members : outcomes[m] = NoOutcome}

(* A bound of the steps a pass may still take: it saves the outcome of each*)
(* member kept out, and takes seven steps for a hypothesis at most.        *)
StepsLeft ==
    IF step = "idle" THEN 0
    ELSE 8 * Cardinality(todo)
         + (CASE step = "members"  -> 2 + Cardinality(Unreviewed)
              [] step = "loop"     -> 1
              [] step = "outcome"  -> 2
              [] step = "link"     -> 3
              [] step = "score"    -> 4
              [] step = "assess"   -> 5
              [] step = "research" -> 6
              [] step = "fetch"    -> 7)

AllSteps == 8 * Cardinality(Hypotheses) + 9 + Cardinality(Members)

LEMMA SetsCounted ==
    /\ IsFiniteSet(Hypotheses) /\ Cardinality(Hypotheses) \in Nat
    /\ IsFiniteSet(Members) /\ Cardinality(Members) \in Nat
<1>1. Hypotheses \in SUBSET Work /\ Members \in SUBSET Work /\ IsFiniteSet(Work)
  BY ResearchAssumption DEF Work
<1> QED BY <1>1, FS_Subset, FS_CardinalityType

LEMMA StepsCounted ==
    ASSUME Shape
    PROVE  /\ IsFiniteSet(todo) /\ Cardinality(todo) \in 0 .. Cardinality(Hypotheses)
           /\ IsFiniteSet(Unreviewed)
           /\ Cardinality(Unreviewed) \in 0 .. Cardinality(Members)
<1>1. todo \in SUBSET Hypotheses /\ Unreviewed \in SUBSET Members
  BY DEF Shape, Unreviewed
<1> QED BY <1>1, SetsCounted, FS_Subset, FS_CardinalityType

LEMMA StepsBounded == Shape => StepsLeft \in 0 .. AllSteps
<1> SUFFICES ASSUME Shape PROVE StepsLeft \in 0 .. AllSteps
  OBVIOUS
<1>1. step \in Steps
  BY DEF Shape
<1> QED BY <1>1, StepsCounted, SetsCounted DEF StepsLeft, AllSteps, Steps

LEMMA ProcessShortens ==
    ASSUME IInv, Shape', Process
    PROVE  StepsLeft' < StepsLeft
<1>1. /\ Shape /\ step \in Steps /\ Cardinality(todo) \in Nat
      /\ Cardinality(todo') \in Nat /\ Cardinality(Unreviewed) \in Nat
  <2>1. Shape /\ step \in Steps
    BY DEF IInv, Shape
  <2>2. todo' \in SUBSET Hypotheses
    BY DEF Shape
  <2> QED BY <2>1, <2>2, StepsCounted, SetsCounted, FS_Subset, FS_CardinalityType
<1>2. CASE ReviewMembers
  <2>1. CASE Unreviewed = {}
    <3>1. step = "members" /\ step' = "loop" /\ todo' = todo
      BY <1>2, <2>1 DEF ReviewMembers, Unreviewed
    <3> QED BY <1>1, <3>1 DEF StepsLeft
  <2>2. CASE Unreviewed # {}
    <3>1. /\ step = "members" /\ step' = "members" /\ todo' = todo
          /\ \E m \in Unreviewed : outcomes' = [outcomes EXCEPT ![m] = Said("EXCLUDED")]
      BY <1>2, <2>2 DEF ReviewMembers, Unreviewed
    <3>2. PICK m \in Unreviewed : outcomes' = [outcomes EXCEPT ![m] = Said("EXCLUDED")]
      BY <3>1
    <3>3. m \in Work /\ Said("EXCLUDED") \in Outcome /\ Said("EXCLUDED") # NoOutcome
      BY Plain DEF Unreviewed, Work, Statuses, Said, NoOutcome, Outcome
    <3>4. outcomes'[m] # NoOutcome /\ \A x \in Work : x # m => outcomes'[x] = outcomes[x]
      BY <1>1, <3>2, <3>3, OneOutcome
    <3>5. Unreviewed' = Unreviewed \ {m}
      BY <3>4 DEF Unreviewed, Work
    <3>6. Cardinality(Unreviewed') = Cardinality(Unreviewed) - 1
      BY <1>1, <3>5, StepsCounted, FS_RemoveElement
    <3> QED BY <1>1, <3>1, <3>6 DEF StepsLeft
  <2> QED BY <2>1, <2>2
<1>3. CASE Take
  <2>1. PICK h \in todo : todo' = todo \ {h}
    BY <1>3 DEF Take
  <2>2. Cardinality(todo') = Cardinality(todo) - 1
    BY <1>1, <2>1, StepsCounted, FS_RemoveElement
  <2>3. step = "loop" /\ step' \in {"loop", "fetch"}
    BY <1>3 DEF Take
  <2> QED BY <1>1, <2>2, <2>3 DEF StepsLeft
<1>4. CASE Close
  <2>1. step = "loop" /\ step' = "idle"
    BY <1>4 DEF Close, Forget
  <2> QED BY <1>1, <2>1 DEF StepsLeft
<1>5. CASE RateLimit
  <2>1. step \in {"fetch", "research", "score"} /\ step' = "loop" /\ todo' = {}
    BY <1>5 DEF RateLimit
  <2>2. Cardinality(todo') = 0
    BY <2>1, FS_EmptySet
  <2> QED BY <1>1, <2>1, <2>2 DEF StepsLeft
<1>6. CASE FetchEvidence \/ NoEvidence
  <2>1. step = "fetch" /\ step' \in {"research", "outcome"} /\ todo' = todo
    BY <1>6 DEF FetchEvidence, NoEvidence, Processing
  <2> QED BY <1>1, <2>1 DEF StepsLeft
<1>7. CASE Research
  <2>1. step = "research" /\ step' \in {"outcome", "assess"} /\ todo' = todo
    BY <1>7 DEF Research, Processing
  <2> QED BY <1>1, <2>1 DEF StepsLeft
<1>8. CASE \E answered \in BOOLEAN : Assess(answered)
  <2>1. step = "assess" /\ step' = "score" /\ todo' = todo
    BY <1>8 DEF Assess, Processing
  <2> QED BY <1>1, <2>1 DEF StepsLeft
<1>9. CASE \E shared, eligible \in BOOLEAN : Score(shared, eligible)
  <2>1. step = "score" /\ step' \in {"link", "outcome"} /\ todo' = todo
    BY <1>9 DEF Score, Processing
  <2> QED BY <1>1, <2>1 DEF StepsLeft
<1>10. CASE SaveLink \/ SaveOutcome
  <2>1. /\ todo' = todo
        /\ \/ step = "link" /\ step' = "outcome"
           \/ step = "outcome" /\ step' = "loop"
    BY <1>10 DEF SaveLink, SaveOutcome, Processing
  <2> QED BY <1>1, <2>1 DEF StepsLeft
<1>11. CASE Raise
  <2>1. step \in Working /\ step' = "loop" /\ todo' = todo
    BY <1>11 DEF Raise, Processing, Working
  <2> QED BY <1>1, <2>1 DEF StepsLeft, Working
<1> QED BY <1>2, <1>3, <1>4, <1>5, <1>6, <1>7, <1>8, <1>9, <1>10, <1>11 DEF Process

(* A pass takes eight steps for each hypothesis and one for each member at *)
(* most, and nine more, whatever fails and whatever earlier passes left.   *)
THEOREM PassesAreBounded ==
    Spec => [](StepsLeft \in 0 .. AllSteps) /\ [][Process => StepsLeft' < StepsLeft]_vars
<1>1. IInv => Shape /\ StepsLeft \in 0 .. AllSteps
  BY StepsBounded DEF IInv
<1>2. IInv /\ Shape' => [Process => StepsLeft' < StepsLeft]_vars
  BY ProcessShortens
<1> QED BY <1>1, <1>2, Invariant, PTL
-----------------------------------------------------------------------------
(* What becomes of one hypothesis (HypothesisAppraisal), which the passes  *)
(* above take as any outcome.                                              *)

(* What an accepted research stands on.                                    *)
AcceptedPhases == {"researched", "scored", "monitored"}

ResearchShape ==
    [status : ResearchStatuses, more : BOOLEAN, contexts : SUBSET Contexts,
     cases : SUBSET CaseKinds, unknowns : SUBSET UnknownKinds,
     forward : SUBSET ForwardKinds, confidence : 0..100]

(* The evidence never changes, an answer awaiting its repair is the one    *)
(* first given, and no output goes on but one both validators accept.      *)
ResearchSound ==
    /\ evidence \in Evidences /\ output \in ResearchShape
    /\ phase \in {"research", "repair", "researched", "raised", "scored", "monitored"}
    /\ phase = "repair" => before = <<output.status, output.more>>
    /\ phase \in AcceptedPhases => Valid(output)
    /\ NoSilentPromotion

(* A shared component holds the mirror of the calibrated shared value: no  *)
(* answer of the scoring model, and neither repair, has touched it.        *)
SharedHeld(s) ==
    \A c \in s.sources :
        /\ c \in CompanyFrame /\ s.company[c] # NoScore
        /\ s.final[c].score = Mirrored(c, Shrunk(c, s.company[c]), s.side)

(* A component of its own context has no score without that context.       *)
ContextHeld(s) ==
    \A c \in {"fundamental", "technical", "catalyst"} \ Scorable(output) :
        s.final[c].score = NoScore

(* The technical score after its bound.                                    *)
TechnicalHeld(s) ==
    evidence.canonical /\ BaseKnown(s.features) /\ "technical" \in Scorable(output) =>
        \E opinion \in -1..40 :
            LET base == TechnicalBase(s.features, s.side)
            IN  s.final["technical"].score = Clamp(base + Adjustment(opinion, base))

ScoreSound ==
    phase = "scored" =>
        /\ scored.side \in Sides /\ scored.company \in CompanyValues
        /\ scored.features \in FeatureSets
        /\ Grounded(scored.final) /\ SharedHeld(scored)
        /\ ContextHeld(scored) /\ TechnicalHeld(scored)

AppraisalSound == ResearchSound /\ ScoreSound
-----------------------------------------------------------------------------
LEMMA EvidenceShape ==
    ASSUME evidence \in Evidences
    PROVE  /\ evidence.quality \in {"LOW", "MEDIUM", "HIGH"}
           /\ evidence.stated \subseteq Contexts /\ evidence.tagged \subseteq Contexts
           /\ evidence.canonical \in BOOLEAN
BY AnswersAssumption DEF Evidence

LEMMA OutputShape ==
    ASSUME NEW o \in ResearchShape
    PROVE  /\ o.status \in ResearchStatuses /\ o.more \in BOOLEAN
           /\ o.contexts \subseteq Contexts /\ o.cases \subseteq CaseKinds
           /\ o.unknowns \subseteq UnknownKinds /\ o.forward \subseteq ForwardKinds
           /\ o.confidence \in 0..100
BY DEF ResearchShape

(* An output both validators accept has earned its status.                 *)
LEMMA ValidIsEarned ==
    ASSUME NEW o \in ResearchShape, evidence \in Evidences, Valid(o)
    PROVE  /\ o.status = "COMPLETE" <=> ~ o.more
           /\ o.status = "COMPLETE" =>
                  evidence.quality # "LOW" /\ "gap" \notin o.unknowns \union o.forward
           /\ "conflict" \notin o.unknowns
           /\ evidence.stated \subseteq o.contexts
<1>1. "LOW" \notin CoverageErrors(o) /\ "MORE" \notin CoverageErrors(o)
      /\ "INSUFFICIENT" \notin CoverageErrors(o) /\ "GAPS" \notin CoverageErrors(o)
      /\ "CONFLICT" \notin CoverageErrors(o) /\ "PARTIAL" \notin SemanticErrors(o)
  BY DEF Valid
<1>2. ~ (o.status = "COMPLETE" /\ evidence.quality = "LOW")
  BY <1>1 DEF CoverageErrors
<1>3. ~ (o.status = "COMPLETE" /\ o.more)
  BY <1>1 DEF CoverageErrors
<1>4. ~ (o.status = "INSUFFICIENT_EVIDENCE" /\ ~ o.more)
  BY <1>1 DEF CoverageErrors
<1>5. ~ (o.status = "COMPLETE" /\ MaterialGap(o))
  BY <1>1 DEF CoverageErrors
<1>6. "conflict" \notin o.unknowns
  BY <1>1 DEF CoverageErrors
<1>7. ~ (o.status = "PARTIAL" /\ ~ o.more)
  BY <1>1 DEF SemanticErrors
<1>8. ASSUME NEW c \in evidence.stated
      PROVE  c \in o.contexts
  <2>1. c \in Contexts
    BY EvidenceShape
  <2>2. c \notin CoverageErrors(o)
    BY DEF Valid
  <2> QED
    BY <2>1, <2>2 DEF CoverageErrors
<1>9. o.status \in ResearchStatuses
  BY OutputShape
<1> QED
  BY <1>2, <1>3, <1>4, <1>5, <1>6, <1>7, <1>8, <1>9 DEF ResearchStatuses, MaterialGap
-----------------------------------------------------------------------------
(* The repair.                                                             *)

LEMMA MergedShape ==
    ASSUME NEW o \in ResearchShape, NEW fields, NEW m \in Merges(o, fields)
    PROVE  /\ m \in ResearchShape
           /\ "research_status" \notin fields => m.status = o.status
<1> USE OutputShape DEF Merges
<1>1. m = [status |-> m.status, more |-> m.more, contexts |-> m.contexts,
           cases |-> m.cases, unknowns |-> m.unknowns, forward |-> m.forward,
           confidence |-> m.confidence]
  OBVIOUS
<1>2. m.status \in ResearchStatuses /\ ("research_status" \notin fields => m.status = o.status)
  OBVIOUS
<1>3. m.more \in BOOLEAN
  OBVIOUS
<1>4. m.contexts \subseteq Contexts
  OBVIOUS
<1>5. m.cases \subseteq CaseKinds
  OBVIOUS
<1>6. m.unknowns \subseteq UnknownKinds
  OBVIOUS
<1>7. m.forward \subseteq ForwardKinds
  OBVIOUS
<1>8. m.confidence \in 0..100
  BY AnswersAssumption
<1> HIDE DEF Merges
<1> QED
  BY <1>1, <1>2, <1>3, <1>4, <1>5, <1>6, <1>7, <1>8 DEF ResearchShape

(* Neither the removal of a conflicting unknown nor the normalisation of   *)
(* the status makes an output COMPLETE.                                    *)
LEMMA SoftwareNeverPromotes ==
    ASSUME NEW m \in ResearchShape
    PROVE  /\ Normalized(Canonical(m)) \in ResearchShape
           /\ Normalized(Canonical(m)).status = "COMPLETE" => m.status = "COMPLETE"
<1> DEFINE k == Canonical(m)
<1>1. k \in ResearchShape /\ k.status = m.status
  BY DEF Canonical, ResearchShape
<1>2. Normalized(k) = k \/ Normalized(k) = [k EXCEPT !.status = "PARTIAL", !.more = TRUE]
  BY DEF Normalized
<1>3. /\ [k EXCEPT !.status = "PARTIAL", !.more = TRUE] \in ResearchShape
      /\ [k EXCEPT !.status = "PARTIAL", !.more = TRUE].status = "PARTIAL"
  <2> HIDE DEF k
  <2> QED
    BY <1>1 DEF ResearchShape, ResearchStatuses
<1> HIDE DEF k
<1> QED
  BY <1>1, <1>2, <1>3 DEF k

(* Of a PARTIAL output that asks for more the validators say nothing of    *)
(* its status: only the reassessment of forward items may reopen it.       *)
LEMMA PartialIsNotReopened ==
    ASSUME NEW o \in ResearchShape, evidence \in Evidences,
           o.status = "PARTIAL", o.more,
           "forward_uncertainties" \notin RepairableFields(o)
    PROVE  "research_status" \notin RepairableFields(o)
<1> DEFINE errors == CoverageErrors(o) \union SemanticErrors(o)
<1>1. ~ OnlyForwardItems(o)
  BY DEF RepairableFields
<1>2. errors \intersect StatusErrors = {}
  <2>1. CoverageErrors(o) \subseteq Contexts \union {"CONFLICT"}
    BY DEF CoverageErrors
  <2>2. SemanticErrors(o) = {}
    BY DEF SemanticErrors
  <2>3. "CONFLICT" \notin StatusErrors
    BY DEF StatusErrors
  <2> QED
    BY <2>1, <2>2, <2>3, ContextsAssumption
<1>3. "research_status" \notin Contexts
  BY ContextsAssumption DEF GovernanceFields
<1>4. MissingContexts(o) \subseteq Contexts
  BY EvidenceShape DEF MissingContexts
<1> QED
  BY <1>1, <1>2, <1>3, <1>4 DEF RepairableFields

LEMMA ResearchStarts == ResearchInit => ResearchSound
<1> SUFFICES ASSUME ResearchInit PROVE ResearchSound
  OBVIOUS
<1>1. output \in ResearchShape
  BY DEF ResearchInit, Blank, ResearchShape, ResearchStatuses
<1> QED
  BY <1>1 DEF ResearchInit, ResearchSound, NoSilentPromotion, Accepted, AcceptedPhases

LEMMA FirstAnswerSound ==
    ASSUME ResearchSound, NEW o \in ResearchAnswers, FirstAnswer(o)
    PROVE  ResearchSound'
<1>1. o \in ResearchShape
  BY AnswersAssumption DEF Output, ResearchShape
<1>2. output' = o /\ evidence' = evidence /\ before' = <<o.status, o.more>>
      /\ phase' \in {"repair", "researched"}
  BY DEF FirstAnswer
<1>3. phase' = "researched" => Valid(o)
  BY DEF FirstAnswer, NeedsRepair
<1>4. Valid(o) => Valid(output)'
  BY <1>2 DEF Valid, CoverageErrors, SemanticErrors, UsefulAnalysis, MaterialGap
<1>5. NoSilentPromotion'
  BY <1>2 DEF NoSilentPromotion
<1> QED
  BY <1>1, <1>2, <1>3, <1>4, <1>5 DEF ResearchSound, AcceptedPhases

LEMMA RepairSound ==
    ASSUME ResearchSound, phase = "repair",
           NEW m \in Merges(output, RepairableFields(output)), Repair(m)
    PROVE  ResearchSound'
<1> DEFINE r == Normalized(Canonical(m))
<1>1. output' = r /\ evidence' = evidence /\ before' = before
      /\ asked' = RepairableFields(output) /\ phase' \in {"researched", "raised"}
  BY DEF Repair
<1>2. output \in ResearchShape /\ evidence \in Evidences
      /\ before = <<output.status, output.more>>
  BY DEF ResearchSound
<1>3. m \in ResearchShape
      /\ ("research_status" \notin RepairableFields(output) => m.status = output.status)
  BY <1>2, MergedShape
<1>4. r \in ResearchShape /\ (r.status = "COMPLETE" => m.status = "COMPLETE")
  BY <1>3, SoftwareNeverPromotes
<1>5. phase' = "researched" => Valid(r)
  BY DEF Repair, RepairAccepted
<1> HIDE DEF r
<1>6. Valid(r) => Valid(output)'
  BY <1>1 DEF Valid, CoverageErrors, SemanticErrors, UsefulAnalysis, MaterialGap
<1>7. NoSilentPromotion'
  <2> SUFFICES ASSUME r.status = "COMPLETE", before[1] = "PARTIAL", before[2]
               PROVE  "forward_uncertainties" \in RepairableFields(output)
    BY <1>1 DEF NoSilentPromotion
  <2>1. output.status = "PARTIAL" /\ output.more
    BY <1>2
  <2>2. m.status # output.status
    BY <1>4, <2>1
  <2> QED
    BY <1>2, <1>3, <2>1, <2>2, PartialIsNotReopened
<1> QED
  BY <1>1, <1>2, <1>4, <1>5, <1>6, <1>7 DEF ResearchSound, AcceptedPhases
-----------------------------------------------------------------------------
(* The scoring pipeline.                                                   *)

(* A component that has a score and a citation after the shared assessment *)
(* is in neither repair.                                                   *)
LEMMA RepairsLeave ==
    ASSUME NEW a, NEW mask, NEW c \in Components, a[c].score # NoScore, a[c].cites = "known",
           NEW patch \in [MissingScores(a, mask) -> RepairAnswers],
           NEW support \in [Unsupported(Merge(a, patch)) -> RepairAnswers]
    PROVE  Merge(Merge(a, patch), OrNull(support))[c] = a[c]
<1>1. c \notin DOMAIN patch
  BY DEF MissingScores
<1>2. Merge(a, patch)[c] = a[c]
  BY <1>1 DEF Merge
<1>3. c \notin Unsupported(Merge(a, patch))
  BY <1>2 DEF Unsupported
<1>4. DOMAIN OrNull(support) = Unsupported(Merge(a, patch))
  BY DEF OrNull
<1> DEFINE b == Merge(a, patch)
<1>5. c \notin DOMAIN OrNull(support) /\ b[c] = a[c]
  BY <1>2, <1>3, <1>4
<1> HIDE DEF b
<1>6. Merge(b, OrNull(support))[c] = b[c]
  BY <1>5 DEF Merge
<1> QED
  BY <1>5, <1>6 DEF b

LEMMA FinalScore ==
    ASSUME NEW a \in [Components -> [score : Int, cites : {"none", "known", "invented"}]],
           NEW mask, NEW side, NEW c \in Components
    PROVE  /\ c \in {"fundamental", "technical", "catalyst"} \ mask =>
                  Final(a, mask, side)[c].score = NoScore
           /\ c \in mask =>
                  Final(a, mask, side)[c].score = Mirrored(c, Shrunk(c, a[c].score), side)
<1>1. CASE c \in {"fundamental", "technical", "catalyst"} \ mask
  <2>1. Final(a, mask, side)[c] = Unscored
    BY <1>1 DEF Final
  <2> QED
    BY <1>1, <2>1 DEF Unscored
<1>2. CASE c \notin {"fundamental", "technical", "catalyst"} \ mask
  <2>1. Final(a, mask, side)[c] =
            [a[c] EXCEPT !.score = Mirrored(c, Shrunk(c, @), side)]
    BY <1>2 DEF Final
  <2>2. a[c] \in [score : Int, cites : {"none", "known", "invented"}]
    OBVIOUS
  <2>3. Final(a, mask, side)[c].score = Mirrored(c, Shrunk(c, a[c].score), side)
    <3> DEFINE new == Mirrored(c, Shrunk(c, a[c].score), side)
    <3>1. Final(a, mask, side)[c] = [a[c] EXCEPT !.score = new]
      BY <2>1
    <3> HIDE DEF new
    <3>2. [a[c] EXCEPT !.score = new].score = new
      BY <2>2
    <3> QED
      BY <3>1, <3>2 DEF new
  <2> QED
    BY <1>2, <2>3
<1> QED
  BY <1>1, <1>2

(* Every stage of the pipeline gives an assessment of each component.      *)
Stage == [Components -> [score : Int, cites : {"none", "known", "invented"}]]
LEMMA AssessmentIsStage == Assessment \subseteq [score : Int, cites : {"none", "known", "invented"}]
BY DEF Assessment

LEMMA ClampBounds == \A n \in Int : Clamp(n) \in 0..40
BY DEF Clamp

LEMMA ReadingsCount == \A S \in SUBSET (0..50) : Cardinality(S) \in Int
<1> TAKE S \in SUBSET (0..50)
<1>1. IsFiniteSet(0..50)
  <2>1. 0 \in Int /\ 50 \in Int
    OBVIOUS
  <2> QED
    BY <2>1, FS_Interval
<1>2. IsFiniteSet(S)
  BY <1>1, FS_Subset
<1>3. Cardinality(S) \in Nat
  BY <1>2, FS_CardinalityType
<1> QED
  BY <1>3

(* The deterministic base is a score of the grid.                          *)
LEMMA BaseOnTheGrid ==
    ASSUME NEW f \in Features, NEW side \in Sides
    PROVE  TechnicalBase(f, side) \in 0..40
<1>1. f.momentum \in [{5, 20} -> Regimes] /\ f.trend \in [{20, 50} -> Regimes]
  BY DEF Features
<1>2. \A r : Signals(f, r) \in Int
  <2> TAKE r
  <2>1. Cardinality({n \in {5, 20} : f.momentum[n] = r}) \in Int
    BY ReadingsCount
  <2>2. Cardinality({n \in {20, 50} : f.trend[n] = r}) \in Int
    BY ReadingsCount
  <2> QED
    BY <2>1, <2>2 DEF Signals
<1> DEFINE Up(readings) == Cardinality({n \in DOMAIN readings : readings[n] = "UP"})
           Down(readings) == Cardinality({n \in DOMAIN readings : readings[n] = "DOWN"})
<1>3. Up(f.momentum) \in Int /\ Down(f.momentum) \in Int
  BY <1>1, ReadingsCount
<1>4. Up(f.trend) \in Int /\ Down(f.trend) \in Int
  BY <1>1, ReadingsCount
<1> DEFINE bias == Signals(f, "UP") - Signals(f, "DOWN")
           volume == IF ~ f.elevated \/ bias = 0 THEN 0 ELSE IF bias > 0 THEN 2 ELSE -2
           directional == 3 * (Up(f.momentum) - Down(f.momentum))
                          + 4 * (Up(f.trend) - Down(f.trend)) + volume
           sum == Neutral + (IF side = "SHORT" THEN -directional ELSE directional)
                  - (IF f.extreme THEN 1 ELSE 0)
<1>5. TechnicalBase(f, side) = Clamp(sum)
  BY Zenon DEF TechnicalBase
<1>6. volume \in Int
  BY <1>2
<1> HIDE DEF Up, Down, volume
<1>7. directional \in Int
  BY <1>3, <1>4, <1>6
<1> HIDE DEF directional
<1>8. sum \in Int
  BY <1>7 DEF Neutral
<1> HIDE DEF sum
<1> QED
  BY <1>5, <1>8, ClampBounds

LEMMA BoundedStage ==
    ASSUME NEW a \in ScoringAnswers, NEW f \in FeatureSets, NEW side \in Sides, NEW mask,
           evidence \in Evidences
    PROVE  /\ Bounded(a, f, side, mask) \in Stage
           /\ "technical" \in mask /\ BaseKnown(f) =>
                  LET base == TechnicalBase(f, side)
                  IN  Bounded(a, f, side, mask)["technical"].score
                          = Clamp(base + Adjustment(a["technical"].score, base))
           /\ "technical" \in mask /\ BaseKnown(f) /\ evidence.canonical =>
                  Bounded(a, f, side, mask)["technical"].cites = "known"
<1> DEFINE base == TechnicalBase(f, side)
           mended == IF evidence.canonical THEN "known" ELSE a["technical"].cites
           t == Clamp(base + Adjustment(a["technical"].score, base))
<1>1. a \in Stage /\ a \in [Components -> Assessment]
  BY ScoringAssumption, AssessmentIsStage DEF Stage
<1>2. base \in 0..40
  BY BaseOnTheGrid, ScoringAssumption
<1>3. a["technical"].score \in Int /\ a["technical"].cites \in {"none", "known", "invented"}
  BY <1>1 DEF Stage, Components
<1> HIDE DEF base
<1>4. Adjustment(a["technical"].score, base) \in -4..4
  BY <1>2, <1>3 DEF Adjustment
<1>5. t \in 0..40
  BY <1>2, <1>4, ClampBounds
<1> HIDE DEF t
<1>6. mended \in {"none", "known", "invented"} /\ (evidence.canonical => mended = "known")
  BY <1>3
<1>7. CASE "technical" \notin mask \/ ~ BaseKnown(f)
  BY <1>1, <1>7 DEF Bounded
<1>8. CASE "technical" \in mask /\ BaseKnown(f)
  <2>1. Bounded(a, f, side, mask) = [a EXCEPT !["technical"] = [score |-> t, cites |-> mended]]
    BY <1>8 DEF Bounded, base, t
  <2> HIDE DEF mended
  <2>2. [a EXCEPT !["technical"] = [score |-> t, cites |-> mended]] \in Stage
    <3> DEFINE row == [score |-> t, cites |-> mended]
    <3>1. row \in [score : Int, cites : {"none", "known", "invented"}]
      BY <1>5, <1>6
    <3> HIDE DEF row
    <3>2. [a EXCEPT !["technical"] = row] \in Stage
      BY <1>1, <3>1 DEF Stage
    <3> QED
      BY <3>2 DEF row
  <2>3. [a EXCEPT !["technical"] = [score |-> t, cites |-> mended]]["technical"]
            = [score |-> t, cites |-> mended]
    BY <1>1 DEF Stage, Components
  <2>4. /\ Bounded(a, f, side, mask)["technical"].score = t
        /\ Bounded(a, f, side, mask)["technical"].cites = mended
    BY <2>1, <2>3
  <2> QED
    BY <1>6, <2>1, <2>2, <2>4 DEF t, base
<1> QED
  BY <1>7, <1>8

(* The shared assessment gives its components and no other.                *)
LEMMA SharedStage ==
    ASSUME NEW a \in Stage, NEW company \in CompanyValues, NEW mask
    PROVE  LET first == Shared(Masked(a, mask), company, mask)
           IN  /\ first \in Stage
               /\ \A c \in SharedSources(company, mask) :
                      /\ c \in CompanyFrame /\ c \in mask /\ company[c] \in 0..40
                      /\ first[c] = [score |-> company[c], cites |-> "known"]
               /\ "technical" \in mask => first["technical"] = a["technical"]
<1> DEFINE masked == Masked(a, mask)
           first == Shared(masked, company, mask)
<1>1. company \in [CompanyFrame -> -1..40] /\ CompanyFrame \subseteq Components
  BY ScoringAssumption DEF CompanyFrame, Components
<1>2. masked \in Stage
  <2>1. Unscored \in [score : Int, cites : {"none", "known", "invented"}]
    BY DEF Unscored, NoScore
  <2> QED
    BY <2>1 DEF Masked, Stage
<1>3. ASSUME NEW c \in SharedSources(company, mask)
      PROVE  /\ c \in CompanyFrame /\ c \in mask /\ company[c] \in 0..40
             /\ first[c] = [score |-> company[c], cites |-> "known"]
  <2>1. c \in CompanyFrame /\ c \in mask /\ company[c] # NoScore
    BY DEF SharedSources
  <2>2. company[c] \in 0..40
    BY <1>1, <2>1 DEF NoScore
  <2>3. first[c] = [score |-> company[c], cites |-> "known"]
    BY <1>1, <2>1 DEF Shared
  <2> QED
    BY <2>1, <2>2, <2>3
<1>4. first \in Stage
  <2>1. ASSUME NEW c \in Components
        PROVE  first[c] \in [score : Int, cites : {"none", "known", "invented"}]
    <3>1. CASE c \in SharedSources(company, mask)
      <4>1. company[c] \in 0..40 /\ first[c] = [score |-> company[c], cites |-> "known"]
        BY <1>3, <3>1
      <4> HIDE DEF first
      <4> QED
        BY <4>1
    <3>2. CASE c \notin SharedSources(company, mask)
      <4>1. first[c] = masked[c]
        BY <3>2 DEF Shared
      <4> QED
        BY <1>2, <4>1 DEF Stage
    <3> QED
      BY <3>1, <3>2
  <2>2. first = [c \in Components |-> first[c]]
    BY DEF Shared
  <2> HIDE DEF first
  <2> QED
    BY <2>1, <2>2 DEF Stage
<1>5. ASSUME "technical" \in mask
      PROVE  first["technical"] = a["technical"]
  <2>1. "technical" \notin SharedSources(company, mask) /\ "technical" \in Components
    BY DEF SharedSources, CompanyFrame, Components
  <2>2. first["technical"] = masked["technical"]
    BY <2>1 DEF Shared
  <2>3. masked["technical"] = a["technical"]
    BY <1>5, <2>1 DEF Masked
  <2> QED
    BY <2>2, <2>3
<1> QED
  BY <1>3, <1>4, <1>5

(* What either repair gives is an assessment.                              *)
LEMMA MergeStage ==
    ASSUME NEW a \in Stage, NEW patch,
           \A c \in DOMAIN patch : patch[c] \in [score : Int, cites : {"none", "known", "invented"}]
    PROVE  Merge(a, patch) \in Stage
BY DEF Merge, Stage

LEMMA OrNullGives ==
    ASSUME NEW C, NEW support \in [C -> RepairAnswers]
    PROVE  \A c \in DOMAIN OrNull(support) :
               OrNull(support)[c] \in [score : Int, cites : {"none", "known", "invented"}]
<1>1. RepairAnswers \subseteq [score : Int, cites : {"none", "known", "invented"}]
  BY ScoringAssumption, AssessmentIsStage
<1>2. Unscored \in [score : Int, cites : {"none", "known", "invented"}]
  BY DEF Unscored, NoScore
<1> QED
  BY <1>1, <1>2 DEF OrNull

(* Whatever the scoring model answered, to the scores and to both repairs. *)
LEMMA PipelineSound ==
    ASSUME evidence \in Evidences, NEW side \in Sides, NEW f \in FeatureSets,
           NEW answer \in ScoringAnswers, NEW company \in CompanyValues, NEW mask,
           NEW first, first = Shared(Masked(Bounded(answer, f, side, mask), mask), company, mask),
           NEW patch \in [MissingScores(first, mask) -> RepairAnswers],
           NEW support \in [Unsupported(Merge(first, patch)) -> RepairAnswers],
           NEW final, final = Final(Merge(Merge(first, patch), OrNull(support)), mask, side)
    PROVE  /\ \A c \in SharedSources(company, mask) :
                  /\ c \in CompanyFrame /\ company[c] # NoScore
                  /\ final[c].score = Mirrored(c, Shrunk(c, company[c]), side)
           /\ \A c \in {"fundamental", "technical", "catalyst"} \ mask :
                  final[c].score = NoScore
           /\ evidence.canonical /\ BaseKnown(f) /\ "technical" \in mask =>
                  \E opinion \in -1..40 :
                      LET base == TechnicalBase(f, side)
                      IN  final["technical"].score = Clamp(base + Adjustment(opinion, base))
<1> DEFINE capped == Bounded(answer, f, side, mask)
           second == Merge(first, patch)
           third == Merge(second, OrNull(support))
<1>1. capped \in Stage
  BY BoundedStage
<1>2. first \in Stage
  BY <1>1, SharedStage
<1>3. second \in Stage
  <2>1. RepairAnswers \subseteq [score : Int, cites : {"none", "known", "invented"}]
    BY ScoringAssumption, AssessmentIsStage
  <2>2. \A c \in DOMAIN patch :
            patch[c] \in [score : Int, cites : {"none", "known", "invented"}]
    BY <2>1
  <2> QED
    BY <1>2, <2>2, MergeStage
<1>4. third \in Stage
  <2> HIDE DEF second
  <2>1. \A c \in DOMAIN OrNull(support) :
            OrNull(support)[c] \in [score : Int, cites : {"none", "known", "invented"}]
    BY OrNullGives
  <2> QED
    BY <1>3, <2>1, MergeStage
<1>5. ASSUME NEW c \in Components, first[c].score # NoScore, first[c].cites = "known"
      PROVE  third[c] = first[c]
  BY <1>5, RepairsLeave
<1>6. third \in [Components -> [score : Int, cites : {"none", "known", "invented"}]]
      /\ final = Final(third, mask, side)
  BY <1>4 DEF Stage
<1> HIDE DEF second, third
<1>7. ASSUME NEW c \in Components, c \in mask
      PROVE  final[c].score = Mirrored(c, Shrunk(c, third[c].score), side)
  BY <1>6, <1>7, FinalScore
<1>8. ASSUME NEW c \in SharedSources(company, mask)
      PROVE  /\ c \in CompanyFrame /\ company[c] # NoScore
             /\ final[c].score = Mirrored(c, Shrunk(c, company[c]), side)
  <2>1. /\ c \in CompanyFrame /\ c \in mask /\ company[c] \in 0..40
        /\ first[c] = [score |-> company[c], cites |-> "known"]
    BY <1>1, <1>8, SharedStage
  <2>2. c \in Components /\ company[c] # NoScore
    BY <2>1 DEF CompanyFrame, Components, NoScore
  <2>3. third[c] = first[c]
    BY <1>5, <2>1, <2>2
  <2>4. third[c].score = company[c]
    BY <2>1, <2>3
  <2> QED
    BY <1>7, <2>1, <2>2, <2>4
<1>9. ASSUME NEW c \in {"fundamental", "technical", "catalyst"} \ mask
      PROVE  final[c].score = NoScore
  <2>1. c \in Components
    BY DEF Components
  <2> QED
    BY <1>6, <2>1, FinalScore
<1>10. ASSUME evidence.canonical, BaseKnown(f), "technical" \in mask
       PROVE  \E opinion \in -1..40 :
                  LET base == TechnicalBase(f, side)
                  IN  final["technical"].score = Clamp(base + Adjustment(opinion, base))
  <2> DEFINE base == TechnicalBase(f, side)
             opinion == answer["technical"].score
             t == Clamp(base + Adjustment(opinion, base))
  <2>1. opinion \in -1..40 /\ "technical" \in Components
    BY ScoringAssumption DEF Components, Assessment
  <2>2. capped["technical"].score = t /\ capped["technical"].cites = "known"
    BY <1>10, BoundedStage
  <2>3. base \in 0..40
    BY BaseOnTheGrid, ScoringAssumption
  <2> HIDE DEF base, opinion
  <2>4. t \in 0..40
    <3>1. Adjustment(opinion, base) \in -4..4
      BY <2>1, <2>3 DEF Adjustment
    <3> QED
      BY <2>3, <3>1, ClampBounds
  <2> HIDE DEF t
  <2>5. first["technical"] = capped["technical"]
    BY <1>1, <1>10, SharedStage
  <2>6. third["technical"] = first["technical"]
    BY <1>5, <2>1, <2>2, <2>4, <2>5 DEF NoScore
  <2>7. final["technical"].score = Mirrored("technical", Shrunk("technical", t), side)
    BY <1>7, <1>10, <2>1, <2>2, <2>5, <2>6
  <2>8. Mirrored("technical", Shrunk("technical", t), side) = t
    BY <2>4 DEF Mirrored, Shrunk, NoScore, CompanyFrame
  <2>9. final["technical"].score = Clamp(base + Adjustment(opinion, base))
    BY <2>7, <2>8 DEF t
  <2> QED
    BY <2>1, <2>9 DEF base
<1> QED
  BY <1>8, <1>9, <1>10

LEMMA ScoringSound ==
    ASSUME AppraisalSound, NEW side \in Sides, NEW f \in FeatureSets,
           NEW answer \in ScoringAnswers, NEW company \in CompanyValues,
           ScoreHypothesis(side, f, answer, company)
    PROVE  AppraisalSound'
<1> DEFINE mask == Scorable(output)
           first == Shared(Masked(Bounded(answer, f, side, mask), mask), company, mask)
<1>1. /\ phase = "researched" /\ evidence' = evidence /\ output' = output
      /\ asked' = {} /\ before' = <<"NONE", FALSE>>
  BY DEF ScoreHypothesis
<1>2. evidence \in Evidences /\ output \in ResearchShape /\ Valid(output)
  BY <1>1 DEF AppraisalSound, ResearchSound, AcceptedPhases
<1>3. PICK patch \in [MissingScores(first, mask) -> RepairAnswers] :
         \E support \in [Unsupported(Merge(first, patch)) -> RepairAnswers] :
            LET final == Final(Merge(Merge(first, patch), OrNull(support)), mask, side)
                result == [side |-> side, features |-> f, company |-> company,
                           sources |-> SharedSources(company, mask), final |-> final]
            IN  IF Answered(patch) /\ Grounded(final)
                THEN scored' = result /\ phase' = "scored"
                ELSE scored' = NotScored /\ phase' = "raised"
  BY Zenon DEF ScoreHypothesis
<1>4. PICK support \in [Unsupported(Merge(first, patch)) -> RepairAnswers] :
            LET final == Final(Merge(Merge(first, patch), OrNull(support)), mask, side)
                result == [side |-> side, features |-> f, company |-> company,
                           sources |-> SharedSources(company, mask), final |-> final]
            IN  IF Answered(patch) /\ Grounded(final)
                THEN scored' = result /\ phase' = "scored"
                ELSE scored' = NotScored /\ phase' = "raised"
  BY <1>3, Zenon
<1> DEFINE final == Final(Merge(Merge(first, patch), OrNull(support)), mask, side)
           result == [side |-> side, features |-> f, company |-> company,
                      sources |-> SharedSources(company, mask), final |-> final]
<1>5. \/ phase' = "raised"
      \/ phase' = "scored" /\ scored' = result /\ Grounded(final)
  BY <1>4, Zenon
<1>6. /\ \A c \in SharedSources(company, mask) :
             /\ c \in CompanyFrame /\ company[c] # NoScore
             /\ final[c].score = Mirrored(c, Shrunk(c, company[c]), side)
      /\ \A c \in {"fundamental", "technical", "catalyst"} \ mask :
             final[c].score = NoScore
      /\ evidence.canonical /\ BaseKnown(f) /\ "technical" \in mask =>
             \E opinion \in -1..40 :
                 LET base == TechnicalBase(f, side)
                 IN  final["technical"].score = Clamp(base + Adjustment(opinion, base))
  <2> HIDE DEF mask
  <2>1. first = Shared(Masked(Bounded(answer, f, side, mask), mask), company, mask)
    OBVIOUS
  <2>2. final = Final(Merge(Merge(first, patch), OrNull(support)), mask, side)
    OBVIOUS
  <2> HIDE DEF first, final
  <2> QED
    BY <1>2, <2>1, <2>2, PipelineSound
<1> HIDE DEF first, final
<1>7. ResearchSound'
  <2>1. Valid(output)'
    BY <1>1, <1>2 DEF Valid, CoverageErrors, SemanticErrors, UsefulAnalysis, MaterialGap
  <2>2. NoSilentPromotion'
    BY <1>1, <1>5 DEF NoSilentPromotion, Accepted
  <2> QED
    BY <1>1, <1>2, <1>5, <2>1, <2>2 DEF ResearchSound
<1>8. ScoreSound'
  <2> SUFFICES ASSUME phase' = "scored" PROVE ScoreSound'
    BY DEF ScoreSound
  <2>1. /\ scored'.side = side /\ scored'.company = company /\ scored'.features = f
        /\ scored'.sources = SharedSources(company, mask) /\ scored'.final = final
    BY <1>5
  <2>2. Grounded(final)
    BY <1>5
  <2>3. Scorable(output)' = mask
    BY <1>1 DEF Scorable
  <2>4. Grounded(scored.final)'
    BY <2>1, <2>2 DEF Grounded
  <2>5. SharedHeld(scored)'
    BY <1>6, <2>1 DEF SharedHeld
  <2>6. ContextHeld(scored)'
    BY <1>6, <2>1, <2>3 DEF ContextHeld
  <2>7. TechnicalHeld(scored)'
    BY <1>1, <1>6, <2>1, <2>3 DEF TechnicalHeld
  <2> QED
    BY <2>1, <2>4, <2>5, <2>6, <2>7 DEF ScoreSound
<1> QED
  BY <1>7, <1>8 DEF AppraisalSound
-----------------------------------------------------------------------------
(* The gates.                                                              *)

LEMMA FirstRefusal ==
    ASSUME NEW T \in SUBSET Nat, T # {}
    PROVE  \E n \in T : \A m \in T : n <= m
<1> DEFINE R == {pair \in Nat \X Nat : pair[1] < pair[2]}
<1>1. IsWellFoundedOn(R, Nat)
  BY NatLessThanWellFounded DEF OpToRel
<1>2. PICK n \in T : \A m \in T : ~ (<<m, n>> \in R)
  <2> HIDE DEF R
  <2> QED
    BY <1>1, WFMin, Zenon
<1>3. ASSUME NEW m \in T
      PROVE  n <= m
  <2>1. n \in Nat /\ m \in Nat
    OBVIOUS
  <2>2. ~ (<<m, n>> \in R)
    BY <1>2
  <2>3. m < n => <<m, n>> \in R
    BY <2>1
  <2> QED
    BY <2>1, <2>2, <2>3
<1> QED
  BY <1>3

(* An opportunity is created only when no gate refuses.                    *)
LEMMA NoGateRefuses ==
    ASSUME NEW s, Decision(s) = "OPPORTUNITY_CREATED"
    PROVE  \A n \in 1..8 : ~ Fails(GateOrder[n], s)
<1> DEFINE refusing == {n \in DOMAIN GateOrder : Fails(GateOrder[n], s)}
           least == CHOOSE n \in refusing : \A m \in refusing : n <= m
<1>1. DOMAIN GateOrder = 1..8
  BY DEF GateOrder
<1>2. \A n \in 1..8 : GateOrder[n] # "OPPORTUNITY_CREATED"
  BY DEF GateOrder
<1>3. CASE refusing = {}
  BY <1>1, <1>3
<1>4. CASE refusing # {}
  <2>1. refusing \in SUBSET Nat
    BY <1>1
  <2>2. Decision(s) = GateOrder[least]
    BY <1>4, Zenon DEF Decision
  <2> HIDE DEF refusing
  <2>3. least \in refusing
    BY <1>4, <2>1, FirstRefusal
  <2>4. least \in 1..8
    BY <1>1, <2>3 DEF refusing
  <2> HIDE DEF least
  <2> QED
    BY <1>2, <2>2, <2>4
<1> QED
  BY <1>3, <1>4

LEMMA CreatedPasses ==
    ASSUME NEW s, Decision(s) = "OPPORTUNITY_CREATED"
    PROVE  /\ output.status = "COMPLETE" /\ FiveScored(s)
           /\ s.side = "SHORT" => SharedUsed(s)
<1>1. GateOrder[1] = "RESEARCH_NOT_COMPLETE" /\ GateOrder[4] = "SCORE_NOT_COMPLETE"
      /\ GateOrder[5] = "SCORE_DIRECTION_MISMATCH"
  BY DEF GateOrder
<1>2. 1 \in 1..8 /\ 4 \in 1..8 /\ 5 \in 1..8
  OBVIOUS
<1>3. ~ Fails(GateOrder[1], s) /\ ~ Fails(GateOrder[4], s) /\ ~ Fails(GateOrder[5], s)
  BY <1>2, NoGateRefuses
<1>4. output.status = "COMPLETE"
  BY <1>1, <1>3 DEF Fails
<1>5. FiveScored(s)
  BY <1>1, <1>3 DEF Fails
<1>6. s.side = "SHORT" => SharedUsed(s)
  BY <1>1, <1>3 DEF Fails
<1> QED
  BY <1>4, <1>5, <1>6

(* A calibrated score is a score.                                          *)
LEMMA ShrunkIsScore ==
    ASSUME NEW c \in CompanyFrame, NEW n \in 0..40
    PROVE  Shrunk(c, n) \in Nat
<1>1. CASE c = "expectations"
  BY <1>1 DEF Shrunk, NoScore
<1>2. CASE c = "fundamental"
  <2> DEFINE total == 140 + 13 * n
  <2>1. Shrunk(c, n) = HalfEven(20 * 20 + 13 * (n - 20), 20)
    BY <1>2 DEF Shrunk, NoScore, Neutral
  <2>2. 20 * 20 + 13 * (n - 20) = total /\ total \in Nat
    OBVIOUS
  <2> HIDE DEF total
  <2>3. total \div 20 \in Nat
    BY <2>2
  <2>4. HalfEven(total, 20) \in {total \div 20, (total \div 20) + 1}
    BY DEF HalfEven
  <2> QED
    BY <2>1, <2>2, <2>3, <2>4
<1> QED
  BY <1>1, <1>2 DEF CompanyFrame
-----------------------------------------------------------------------------
LEMMA AppraisalStarts == AppraisalInit => AppraisalSound
<1> SUFFICES ASSUME AppraisalInit PROVE AppraisalSound
  OBVIOUS
<1>1. ResearchSound
  BY ResearchStarts DEF AppraisalInit
<1>2. ScoreSound
  BY DEF AppraisalInit, ResearchInit, ScoreSound
<1> QED
  BY <1>1, <1>2 DEF AppraisalSound

LEMMA AppraisalSteps == AppraisalSound /\ [AppraisalNext]_appraisalVars => AppraisalSound'
<1> SUFFICES ASSUME AppraisalSound, [AppraisalNext]_appraisalVars PROVE AppraisalSound'
  OBVIOUS
<1>1. CASE ResearchNext /\ UNCHANGED scored
  <2>1. ResearchSound
    BY DEF AppraisalSound
  <2>2. ResearchSound' /\ phase' # "scored"
    <3>1. CASE \E o \in ResearchAnswers : FirstAnswer(o)
      <4>1. PICK o \in ResearchAnswers : FirstAnswer(o)
        BY <3>1
      <4>2. phase' # "scored"
        BY <4>1 DEF FirstAnswer
      <4> QED
        BY <2>1, <4>1, <4>2, FirstAnswerSound
    <3>2. CASE /\ phase = "repair"
               /\ \E m \in Merges(output, RepairableFields(output)) : Repair(m)
      <4>1. PICK m \in Merges(output, RepairableFields(output)) : Repair(m)
        BY <3>2
      <4>2. phase' # "scored"
        BY <4>1 DEF Repair
      <4> QED
        BY <2>1, <3>2, <4>1, <4>2, RepairSound
    <3> QED
      BY <1>1, <3>1, <3>2 DEF ResearchNext
  <2>3. ScoreSound'
    BY <2>2 DEF ScoreSound
  <2> QED
    BY <2>2, <2>3 DEF AppraisalSound
<1>2. CASE \E side \in Sides, f \in FeatureSets, answer \in ScoringAnswers,
              company \in CompanyValues : ScoreHypothesis(side, f, answer, company)
  BY <1>2, ScoringSound
<1>3. CASE CloseMonitor
  <2>1. /\ phase = "researched" /\ phase' = "monitored"
        /\ UNCHANGED <<evidence, output, asked, before>>
    BY <1>3 DEF CloseMonitor
  <2>2. ResearchSound /\ Valid(output)
    BY <2>1 DEF AppraisalSound, ResearchSound, AcceptedPhases
  <2>3. Valid(output)'
    BY <2>1, <2>2 DEF Valid, CoverageErrors, SemanticErrors, UsefulAnalysis, MaterialGap
  <2>4. NoSilentPromotion'
    BY <2>1 DEF NoSilentPromotion, Accepted
  <2>5. ResearchSound'
    BY <2>1, <2>2, <2>3, <2>4 DEF ResearchSound
  <2>6. ScoreSound'
    BY <2>1 DEF ScoreSound
  <2> QED
    BY <2>5, <2>6 DEF AppraisalSound
<1>4. CASE UNCHANGED appraisalVars
  <2>1. /\ phase' = phase /\ evidence' = evidence /\ output' = output
        /\ asked' = asked /\ before' = before /\ scored' = scored
    BY <1>4 DEF appraisalVars, researchVars
  <2>2. Valid(output) => Valid(output)'
    BY <2>1 DEF Valid, CoverageErrors, SemanticErrors, UsefulAnalysis, MaterialGap
  <2>3. NoSilentPromotion => NoSilentPromotion'
    BY <2>1 DEF NoSilentPromotion, Accepted
  <2>4. ResearchSound'
    BY <2>1, <2>2, <2>3 DEF AppraisalSound, ResearchSound
  <2>5. ScoreSound'
    <3>1. ScoreSound
      BY DEF AppraisalSound
    <3>2. Scorable(output)' = Scorable(output)
      BY <2>1 DEF Scorable
    <3> QED
      BY <2>1, <3>1, <3>2 DEF ScoreSound, Grounded, SharedHeld, ContextHeld, TechnicalHeld
  <2> QED
    BY <2>4, <2>5 DEF AppraisalSound
<1> QED
  BY <1>1, <1>2, <1>3, <1>4 DEF AppraisalNext

LEMMA AppraisalHolds == AppraisalSpec => []AppraisalSound
<1> QED
  BY AppraisalStarts, AppraisalSteps, PTL DEF AppraisalSpec

LEMMA SoundIsCoherent == AppraisalSound => AcceptedIsCoherent
<1> SUFFICES ASSUME AppraisalSound PROVE AcceptedIsCoherent
  OBVIOUS
<1>1. NoSilentPromotion
  BY DEF AppraisalSound, ResearchSound
<1>2. StatusIsEarned
  <2> SUFFICES ASSUME Accepted PROVE StatusIsEarned
    BY DEF StatusIsEarned
  <2>1. output \in ResearchShape /\ evidence \in Evidences /\ Valid(output)
    BY DEF AppraisalSound, ResearchSound, Accepted, AcceptedPhases
  <2> QED
    BY <2>1, ValidIsEarned DEF StatusIsEarned
<1> QED
  BY <1>1, <1>2 DEF AcceptedIsCoherent

LEMMA SoundIsSupported == AppraisalSound => CreatedIsSupported
<1> SUFFICES ASSUME AppraisalSound, Created PROVE CreatedIsSupported
  BY DEF CreatedIsSupported, CreatedOnEvidence, ShortRestsOnSharedValue
<1>1. phase = "scored" /\ output.status = "COMPLETE" /\ FiveScored(scored)
      /\ (scored.side = "SHORT" => SharedUsed(scored))
  BY CreatedPasses DEF Created
<1>2. /\ output \in ResearchShape /\ evidence \in Evidences /\ Valid(output)
      /\ scored.side \in Sides /\ scored.company \in CompanyValues
      /\ Grounded(scored.final) /\ SharedHeld(scored) /\ ContextHeld(scored)
  BY <1>1 DEF AppraisalSound, ResearchSound, ScoreSound, AcceptedPhases
<1>3. CreatedOnEvidence
  <2>1. \A c \in Components : scored.final[c].score # NoScore
                              /\ scored.final[c].cites = "known"
    BY <1>1, <1>2 DEF FiveScored, Grounded
  <2>2. {"fundamental", "technical"} \subseteq Scorable(output)
    <3>1. \A c \in {"fundamental", "technical"} : scored.final[c].score # NoScore
      BY <2>1 DEF Components
    <3> QED
      BY <1>2, <3>1 DEF ContextHeld
  <2>3. "gap" \notin output.unknowns \union output.forward
        /\ evidence.stated \subseteq output.contexts
    BY <1>1, <1>2, ValidIsEarned
  <2> QED
    BY <2>1, <2>2, <2>3 DEF CreatedOnEvidence
<1>4. ShortRestsOnSharedValue
  <2> SUFFICES ASSUME scored.side = "SHORT", NEW c \in CompanyFrame
               PROVE  /\ scored.company[c] # NoScore
                      /\ scored.final[c].score = 40 - Shrunk(c, scored.company[c])
    BY DEF ShortRestsOnSharedValue
  <2>1. c \in Components
    BY DEF CompanyFrame, Components
  <2>2. c \in scored.sources
    BY <1>1, <2>1 DEF FiveScored, SharedUsed
  <2>3. /\ scored.company[c] # NoScore
        /\ scored.final[c].score = Mirrored(c, Shrunk(c, scored.company[c]), "SHORT")
    BY <1>2, <2>2 DEF SharedHeld
  <2>4. scored.company[c] \in 0..40
    BY <1>2, <2>3, ScoringAssumption DEF NoScore
  <2>5. Shrunk(c, scored.company[c]) \in Nat
    BY <2>4, ShrunkIsScore
  <2> QED
    BY <2>3, <2>5 DEF Mirrored, NoScore
<1> QED
  BY <1>3, <1>4 DEF CreatedIsSupported

LEMMA SoundIsBounded == AppraisalSound => (evidence.canonical => TechnicalBounded)
<1> SUFFICES ASSUME AppraisalSound, evidence.canonical, phase = "scored",
                    BaseKnown(scored.features), scored.final["technical"].score # NoScore
             PROVE  LET base == TechnicalBase(scored.features, scored.side)
                        t == scored.final["technical"].score
                    IN  t - base <= 4 /\ base - t <= 4
  BY DEF TechnicalBounded
<1> DEFINE base == TechnicalBase(scored.features, scored.side)
           t == scored.final["technical"].score
<1>1. /\ scored.side \in Sides /\ scored.features \in FeatureSets
      /\ ContextHeld(scored) /\ TechnicalHeld(scored)
  BY DEF AppraisalSound, ScoreSound
<1>2. "technical" \in Scorable(output)
  BY <1>1 DEF ContextHeld
<1>3. PICK opinion \in -1..40 : t = Clamp(base + Adjustment(opinion, base))
  BY <1>1, <1>2 DEF TechnicalHeld
<1>4. base \in 0..40
  BY <1>1, BaseOnTheGrid, ScoringAssumption
<1> HIDE DEF base, t
<1> DEFINE moved == Adjustment(opinion, base)
<1>5. moved \in -4..4
  BY <1>3, <1>4 DEF Adjustment
<1>6. t = Clamp(base + moved)
  BY <1>3
<1> HIDE DEF moved
<1>7. t - base <= 4
  BY <1>4, <1>5, <1>6 DEF Clamp
<1>8. base - t <= 4
  BY <1>4, <1>5, <1>6 DEF Clamp
<1> QED
  BY <1>7, <1>8 DEF base, t

(* For every answer of the language models to a research and to its        *)
(* repair, and every evidence: what ResearchService.research returns is    *)
(* coherent with that evidence and promoted by nothing silent.             *)
THEOREM AcceptedResearchIsCoherent == AppraisalSpec => []AcceptedIsCoherent
<1> QED
  BY AppraisalHolds, SoundIsCoherent, PTL

(* For every answer to the scoring and to both of its repairs, every       *)
(* shared assessment and every history: an opportunity is created on five  *)
(* supported scores, and for a SHORT on the shared company values.         *)
THEOREM CreatedOpportunityIsSupported == AppraisalSpec => []CreatedIsSupported
<1> QED
  BY AppraisalHolds, SoundIsSupported, PTL

(* Where the research holds canonical technical evidence to cite, no answer*)
(* moves a technical score further than ten points from the deterministic  *)
(* base: the bound fails only where there is none.                         *)
THEOREM CanonicalTechnicalIsBounded ==
    AppraisalSpec => [](evidence.canonical => TechnicalBounded)
<1> QED
  BY AppraisalHolds, SoundIsBounded, PTL
=============================================================================
