SPECIFICATION AppraisalSpec
CONSTANTS
    Contexts <- MCContexts
    Confidences <- MCConfidences
    ResearchAnswers <- MCResearchAnswers
    Evidences <- MCEvidences
    ScoringAnswers <- MCScoringAnswers
    RepairAnswers <- MCRepairAnswers
    CompanyValues <- MCCompanyValues
    FeatureSets <- MCFeatureSets
INVARIANTS
    AcceptedIsCoherent
    CreatedIsSupported
CHECK_DEADLOCK FALSE
