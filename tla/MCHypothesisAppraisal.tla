------------------------- MODULE MCHypothesisAppraisal -------------------------
(* Instances of HypothesisAppraisal.                                       *)
EXTENDS HypothesisAppraisal

Always == {"event_context", "expectations_assessment"}
MCContexts == Always \union {"technical_context", "fundamental_context"}
MCConfidences == {10, 90}

MCResearchAnswers ==
    [status : ResearchStatuses, more : BOOLEAN,
     contexts : {Always, Always \union {"technical_context", "fundamental_context"}},
     cases : {{"bull"}, CaseKinds}, unknowns : {{}, {"gap"}, {"outcome"}, {"gap", "conflict"}},
     forward : {{}, {"gap"}, {"outcome"}}, confidence : MCConfidences]

(* Stated and tagged contexts, with and without canonical technical items. *)
MCEvidences ==
    {[quality |-> "HIGH", coverage |-> 95, stated |-> {"technical_context"},
      tagged |-> {}, canonical |-> TRUE],
     [quality |-> "MEDIUM", coverage |-> 100, stated |-> {},
      tagged |-> {"fundamental_context"}, canonical |-> FALSE],
     [quality |-> "LOW", coverage |-> 60, stated |-> {},
      tagged |-> {"technical_context"}, canonical |-> FALSE]}

Say(score, cites) == [score |-> score, cites |-> cites]
MCScoringAnswers ==
    {[thesis |-> t, catalyst |-> Say(36, "known"), fundamental |-> f,
      technical |-> k, expectations |-> Say(32, "known")] :
        t \in {Say(36, "known"), Say(36, "none")},
        f \in {Unscored, Say(34, "known")},
        k \in {Say(40, "none"), Say(24, "invented")}}
MCRepairAnswers == {Unscored, Say(38, "known"), Say(38, "invented")}

MCCompanyValues ==
    {[fundamental |-> f, expectations |-> e] : f \in {NoScore, 4}, e \in {NoScore, 6}}

MCFeatureSets ==
    {[momentum |-> [n \in {5, 20} |-> "UP"], trend |-> [n \in {20, 50} |-> m],
      elevated |-> TRUE, extreme |-> TRUE] : m \in {"DOWN"}}
=============================================================================
