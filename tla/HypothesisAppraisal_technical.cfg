SPECIFICATION AppraisalSpec
CONSTANTS
    Contexts <- MCContexts
    Confidences <- MCConfidences
    ResearchAnswers <- MCResearchAnswers
    Evidences <- MCEvidences
    ScoringAnswers <- MCScoringAnswers
    RepairAnswers <- MCRepairAnswers
    CompanyValues <- MCCompanyValues
    FeatureSets <- MCFeatureSets
INVARIANT TechnicalBounded
CHECK_DEADLOCK FALSE
