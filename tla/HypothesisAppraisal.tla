-------------------------- MODULE HypothesisAppraisal --------------------------
(***************************************************************************)
(* What becomes of an accepted research: OpportunityScoringService.score   *)
(* (app/ai/opportunity_scoring_service.py), the deterministic calculator,  *)
(* and the gates of opportunity_materialization_decision (app/scanner/     *)
(* research_integration.py), for a directional hypothesis.                 *)
(*                                                                         *)
(* Scores are in steps of 2.5 points, the grid of the software's own       *)
(* calibration: 0..40 stands for 0..100 and 20 for the neutral 50.  Whether*)
(* a rationale is given is not modelled; a citation is missing, known or   *)
(* invented.  The model answers three times: the scores, a repair of the   *)
(* scorable components it left null, a repair of the scores it left        *)
(* without evidence.  Rounding to six digits is left out.                  *)
(***************************************************************************)
EXTENDS ResearchRepair

CONSTANTS
    ScoringAnswers,  \* what the scoring model may answer, per component
    RepairAnswers,   \* what either repair may give for a component
    CompanyValues,   \* what the shared company assessment may give
    FeatureSets      \* canonical technical features the history may have

Components == {"thesis", "catalyst", "fundamental", "technical", "expectations"}
CompanyFrame == {"fundamental", "expectations"}
Sides == {"LONG", "SHORT"}
Regimes == {"UP", "FLAT", "DOWN", "UNKNOWN"}
NoScore == -1
Neutral == 20

Assessment == [score : -1..40, cites : {"none", "known", "invented"}]
Unscored == [score |-> NoScore, cites |-> "none"]
Features == [momentum : [{5, 20} -> Regimes], trend : [{20, 50} -> Regimes],
             elevated : BOOLEAN, extreme : BOOLEAN]

ASSUME ScoringAssumption ==
    /\ ScoringAnswers \subseteq [Components -> Assessment]
    /\ RepairAnswers \subseteq Assessment
    /\ CompanyValues \subseteq [CompanyFrame -> -1..40]
    /\ FeatureSets \subseteq Features

VARIABLE scored      \* the score of the hypothesis, or no score yet

appraisalVars == <<researchVars, scored>>

NotScored == [side |-> "NONE"]
-----------------------------------------------------------------------------
(* Technical: a deterministic base and a bounded adjustment.               *)

Clamp(n) == IF n < 0 THEN 0 ELSE IF n > 40 THEN 40 ELSE n

Signals(f, regime) ==
    Cardinality({n \in {5, 20} : f.momentum[n] = regime})
    + Cardinality({n \in {20, 50} : f.trend[n] = regime})

BaseKnown(f) == Signals(f, "UNKNOWN") < 4

(* _deterministic_technical_base_score.                                    *)
TechnicalBase(f, side) ==
    LET weigh(readings, weight) ==
            weight * (Cardinality({n \in DOMAIN readings : readings[n] = "UP"})
                      - Cardinality({n \in DOMAIN readings : readings[n] = "DOWN"}))
        bias == Signals(f, "UP") - Signals(f, "DOWN")
        volume == IF ~ f.elevated \/ bias = 0 THEN 0 ELSE IF bias > 0 THEN 2 ELSE -2
        directional == weigh(f.momentum, 3) + weigh(f.trend, 4) + volume
    IN  Clamp(Neutral + (IF side = "SHORT" THEN -directional ELSE directional)
              - (IF f.extreme THEN 1 ELSE 0))

(* _technical_adjustment_from_ai_score.                                    *)
Adjustment(opinion, base) ==
    LET delta == opinion - base
    IN  IF opinion = NoScore THEN 0
        ELSE IF delta >= 8 THEN 4 ELSE IF delta >= 3 THEN 2
        ELSE IF delta <= -8 THEN -4 ELSE IF delta <= -3 THEN -2 ELSE 0

(* _apply_bounded_technical_score: also mends the citation, if the research*)
(* holds canonical technical evidence to cite.                             *)
Bounded(a, f, side, mask) ==
    LET base == TechnicalBase(f, side)
        mended == IF evidence.canonical THEN "known" ELSE a["technical"].cites
    IN  IF "technical" \notin mask \/ ~ BaseKnown(f) THEN a
        ELSE [a EXCEPT !["technical"] =
                 [score |-> Clamp(base + Adjustment(a["technical"].score, base)),
                  cites |-> mended]]
-----------------------------------------------------------------------------
(* The rest of the pipeline, in its order.                                 *)

(* _build_scorable_mask.                                                   *)
Scorable(o) ==
    {c \in Components :
        \/ c = "thesis" /\ (o.cases # {} \/ o.contexts \ {"expectations_assessment"} # {})
        \/ c = "catalyst" /\ {"event_context", "catalyst_assessment"} \intersect o.contexts # {}
        \/ c = "fundamental" /\ "fundamental_context" \in o.contexts
        \/ c = "technical" /\ "technical_context" \in o.contexts
        \/ c = "expectations" /\ "expectations_assessment" \in o.contexts}

(* _apply_scorable_mask.                                                   *)
Masked(a, mask) == [c \in Components |-> IF c \in mask THEN a[c] ELSE Unscored]

(* Components whose value is taken from the shared company assessment.     *)
SharedSources(company, mask) ==
    {c \in CompanyFrame \intersect mask : company[c] # NoScore}

(* _apply_shared_company_assessment.                                       *)
Shared(a, company, mask) ==
    [c \in Components |-> IF c \in SharedSources(company, mask)
                          THEN [score |-> company[c], cites |-> "known"] ELSE a[c]]

(* _find_scorable_components_returned_null.                                *)
MissingScores(a, mask) == {c \in mask : a[c].score = NoScore}

(* _find_scored_components_without_evidence.                               *)
Unsupported(a) == {c \in Components : a[c].score # NoScore /\ a[c].cites = "none"}

(* Only the components asked for are merged.                               *)
Merge(a, patch) == [c \in Components |-> IF c \in DOMAIN patch THEN patch[c] ELSE a[c]]

(* Each component the scorability repair was asked for must come back      *)
(* numeric and grounded, or the scoring raises.                            *)
Answered(patch) == \A c \in DOMAIN patch :
                       patch[c].score # NoScore /\ patch[c].cites = "known"

(* _repair_scored_components_without_evidence: not grounded is no score.   *)
OrNull(patch) == [c \in DOMAIN patch |-> IF patch[c].cites = "known" THEN patch[c]
                                         ELSE Unscored]

(* round, half to even, of n / d.                                          *)
HalfEven(n, d) ==
    LET q == n \div d  r == n % d
    IN  IF 2 * r > d \/ (2 * r = d /\ q % 2 = 1) THEN q + 1 ELSE q

(* _shrink_semantic_score_toward_neutral with reliability 0.50 or 0.65.    *)
Shrunk(c, score) ==
    IF score = NoScore THEN NoScore
    ELSE IF c = "catalyst" THEN HalfEven(2 * Neutral + score - Neutral, 2)
    ELSE IF c = "fundamental" THEN HalfEven(20 * Neutral + 13 * (score - Neutral), 20)
    ELSE score

(* _mirror_company_frame_components.                                       *)
Mirrored(c, score, side) ==
    IF side = "SHORT" /\ c \in CompanyFrame /\ score # NoScore THEN 40 - score ELSE score

(* Nulled without its context, calibrated, mirrored for the direction.     *)
Final(a, mask, side) ==
    LET forced == {"fundamental", "technical", "catalyst"} \ mask
    IN  [c \in Components |->
            IF c \in forced THEN Unscored
            ELSE [a[c] EXCEPT !.score = Mirrored(c, Shrunk(c, @), side)]]

(* Mutant: a citation is not looked up in the research.                    *)
CitedAtAll(a) == \A c \in Components :
                     (a[c].score = NoScore) = (a[c].cites = "none")
(* ComponentAssessment and _validate_grounding.                            *)
Grounded(a) == \A c \in Components :
                   a[c].cites = (IF a[c].score = NoScore THEN "none" ELSE "known")
-----------------------------------------------------------------------------
(* The calculator, and the gates before an opportunity.                    *)

Weight == [thesis |-> 25, catalyst |-> 25, fundamental |-> 20, technical |-> 15,
           expectations |-> 15]
QualityFactor == [LOW |-> 50, MEDIUM |-> 75, HIGH |-> 100]

FiveScored(s) == \A c \in Components : s.final[c].score # NoScore

(* OpportunityScoreCalculator of five scores: the confidence in millionths,*)
(* and the weighted sum minus that of five neutral scores.                 *)
Confidence == output.confidence * QualityFactor[evidence.quality] * evidence.coverage
Excess(s) ==
    LET w(c) == Weight[c] * (s.final[c].score - Neutral)
    IN  w("thesis") + w("catalyst") + w("fundamental") + w("technical")
        + w("expectations")

SharedUsed(s) == \A c \in CompanyFrame : s.final[c].score # NoScore => c \in s.sources

Thesis == [LONG |-> "bull", SHORT |-> "bear"]

GateOrder == <<"RESEARCH_NOT_COMPLETE", "ADDITIONAL_RESEARCH_REQUIRED",
               "EVIDENCE_QUALITY_LOW", "SCORE_NOT_COMPLETE",
               "SCORE_DIRECTION_MISMATCH", "SCORE_BELOW_THRESHOLD",
               "SCORE_CONFIDENCE_TOO_LOW", "DIRECTIONAL_THESIS_MISSING">>

(* opportunity_materialization_decision: 10 points above neutral after the *)
(* confidence, and a confidence of 0.40, of the policy's defaults.         *)
Fails(gate, s) ==
    \/ gate = "RESEARCH_NOT_COMPLETE" /\ output.status # "COMPLETE"
    \/ gate = "ADDITIONAL_RESEARCH_REQUIRED" /\ output.more
    \/ gate = "EVIDENCE_QUALITY_LOW" /\ evidence.quality = "LOW"
    \/ gate = "SCORE_NOT_COMPLETE" /\ ~ FiveScored(s)
    \/ gate = "SCORE_DIRECTION_MISMATCH" /\ s.side = "SHORT" /\ ~ SharedUsed(s)
    \/ gate = "SCORE_BELOW_THRESHOLD" /\ Excess(s) * Confidence < 400 * 1000000
    \/ gate = "SCORE_CONFIDENCE_TOO_LOW" /\ Confidence < 400000
    \/ gate = "DIRECTIONAL_THESIS_MISSING" /\ Thesis[s.side] \notin output.cases

Decision(s) ==
    LET refusing == {n \in DOMAIN GateOrder : Fails(GateOrder[n], s)}
    IN  IF refusing = {} THEN "OPPORTUNITY_CREATED"
        ELSE GateOrder[CHOOSE n \in refusing : \A m \in refusing : n <= m]
-----------------------------------------------------------------------------
AppraisalInit == ResearchInit /\ scored = NotScored

(* One call of score and of the materialization: it may raise in the       *)
(* scorability repair or in the validation of the result.                  *)
ScoreHypothesis(side, f, answer, company) ==
    LET mask == Scorable(output)
        first == Shared(Masked(Bounded(answer, f, side, mask), mask), company, mask)
    IN  /\ phase = "researched"
        /\ \E patch \in [MissingScores(first, mask) -> RepairAnswers] :
           LET second == Merge(first, patch)
           IN  \E support \in [Unsupported(second) -> RepairAnswers] :
               LET final == Final(Merge(second, OrNull(support)), mask, side)
                   result == [side |-> side, features |-> f, company |-> company,
                              sources |-> SharedSources(company, mask), final |-> final]
               IN  IF Answered(patch) /\ Grounded(final)
                   THEN scored' = result /\ phase' = "scored"
                   ELSE scored' = NotScored /\ phase' = "raised"
        /\ asked' = {} /\ before' = <<"NONE", FALSE>>
        /\ UNCHANGED <<evidence, output>>

(* A PORTFOLIO_MONITOR hypothesis ends with its research.                  *)
CloseMonitor ==
    /\ phase = "researched" /\ phase' = "monitored"
    /\ UNCHANGED <<evidence, output, asked, before, scored>>

AppraisalNext ==
    \/ ResearchNext /\ UNCHANGED scored
    \/ \E side \in Sides, f \in FeatureSets, answer \in ScoringAnswers,
          company \in CompanyValues : ScoreHypothesis(side, f, answer, company)
    \/ CloseMonitor

AppraisalSpec == AppraisalInit /\ [][AppraisalNext]_appraisalVars
-----------------------------------------------------------------------------
(* Properties.                                                             *)

Created == phase = "scored" /\ Decision(scored) = "OPPORTUNITY_CREATED"

(* Whatever the model answered to the five questions it may be asked, an   *)
(* opportunity comes from five scores that each cite evidence of the       *)
(* research and have their context, and from a research without a material *)
(* gap that covers what its evidence states.                               *)
CreatedOnEvidence ==
    Created =>
        /\ \A c \in Components : scored.final[c].score # NoScore
                                 /\ scored.final[c].cites = "known"
        /\ {"fundamental", "technical"} \subseteq Scorable(output)
        /\ "gap" \notin output.unknowns \union output.forward
        /\ evidence.stated \subseteq output.contexts

(* "A SHORT still materializes only with a v3 directional score whose      *)
(* company-frame components all come from the shared assessment": what it  *)
(* was scored with is the mirror of the shared, calibrated value and       *)
(* nothing the scoring model said.                                         *)
ShortRestsOnSharedValue ==
    Created /\ scored.side = "SHORT" =>
        \A c \in CompanyFrame :
            /\ scored.company[c] # NoScore
            /\ scored.final[c].score = 40 - Shrunk(c, scored.company[c])

(* An opportunity is created on evidence alone: five supported scores, and *)
(* for a SHORT the shared assessment of its company.                       *)
CreatedIsSupported == CreatedOnEvidence /\ ShortRestsOnSharedValue

(* "the model may adjust it by at most 10 points": a technical score is    *)
(* never further than that from the deterministic base of its direction.   *)
TechnicalBounded ==
    phase = "scored" /\ BaseKnown(scored.features)
        /\ scored.final["technical"].score # NoScore =>
        LET base == TechnicalBase(scored.features, scored.side)
            t == scored.final["technical"].score
        IN  t - base <= 4 /\ base - t <= 4
=============================================================================
