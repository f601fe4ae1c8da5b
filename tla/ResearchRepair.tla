---------------------------- MODULE ResearchRepair ----------------------------
(***************************************************************************)
(* The research of one candidate: ResearchService.research (app/ai/        *)
(* research_service.py) with the coverage and the semantic validator       *)
(* (research_validator.py, research_semantics.py).                         *)
(*                                                                         *)
(* The language model may answer anything its schema admits.  The answer   *)
(* is validated, repaired once in the fields the validators authorise,     *)
(* normalised by software, and accepted or raised.                         *)
(*                                                                         *)
(* Texts are what the validators tell apart in them: a context field is    *)
(* there or not; an unknown is a material gap, a future outcome, or the    *)
(* claim that a supplied fact is missing; a forward uncertainty is a future*)
(* outcome or really a gap.  key_risks is taken as not empty.  Confidence  *)
(* and coverage are in per cent.                                           *)
(***************************************************************************)
EXTENDS Integers, FiniteSets

CONSTANTS
    Contexts,        \* context fields, expectations_assessment among them
    Confidences,     \* values a research_confidence takes
    ResearchAnswers, \* what the model may answer to the first question
    Evidences        \* what the evidence of the candidate may be

CaseKinds == {"bull", "bear"}
UnknownKinds == {"gap", "outcome", "conflict"}
ForwardKinds == {"gap", "outcome"}
ResearchStatuses == {"COMPLETE", "PARTIAL", "INSUFFICIENT_EVIDENCE"}

(* ResearchModelOutput.  Its evidence_quality is always overwritten by the *)
(* calibrated one.                                                         *)
Output == [status : ResearchStatuses, more : BOOLEAN,
           contexts : SUBSET Contexts, cases : SUBSET CaseKinds,
           unknowns : SUBSET UnknownKinds, forward : SUBSET ForwardKinds,
           confidence : Confidences]

(* stated: contexts the lexical check finds material for; tagged: those    *)
(* the semantic tags require; canonical: a TECHNICAL item is supplied.     *)
Evidence == [quality : {"LOW", "MEDIUM", "HIGH"}, coverage : 0..100,
             stated : SUBSET Contexts, tagged : SUBSET Contexts,
             canonical : BOOLEAN]

ASSUME AnswersAssumption == /\ Evidences \subseteq Evidence
                            /\ Confidences \subseteq 0..100
                            /\ ResearchAnswers \subseteq Output

VARIABLES
    evidence,        \* the evidence supplied
    phase,           \* where the appraisal stands
    output,          \* the research as it stands
    asked,           \* fields the repair was asked for, {} if none was made
    before           \* observation: status and more of the first answer

researchVars == <<evidence, phase, output, asked, before>>

Blank == [status |-> "PARTIAL", more |-> TRUE, contexts |-> {}, cases |-> {},
          unknowns |-> {}, forward |-> {}, confidence |-> 0]
-----------------------------------------------------------------------------
(* The validators.                                                         *)

(* material_gaps: also what was filed as forward but is missing data.      *)
MaterialGap(o) == "gap" \in o.unknowns \union o.forward

CoverageErrors(o) ==
    {c \in Contexts : c \in evidence.stated \ o.contexts}
    \union {code \in {"LOW"} : o.status = "COMPLETE" /\ evidence.quality = "LOW"}
    \union {code \in {"MORE"} : o.status = "COMPLETE" /\ o.more}
    \union {code \in {"INSUFFICIENT"} :
               o.status = "INSUFFICIENT_EVIDENCE" /\ ~ o.more}
    \union {code \in {"GAPS"} : o.status = "COMPLETE" /\ MaterialGap(o)}
    \union {code \in {"CONFLICT"} : "conflict" \in o.unknowns}

UsefulAnalysis(o) ==
    /\ o.cases = CaseKinds
    /\ Cardinality(o.contexts \ {"expectations_assessment"}) >= 2

SemanticErrors(o) ==
    {code \in {"USEFUL"} : o.status = "INSUFFICIENT_EVIDENCE" /\ UsefulAnalysis(o)}
    \union {code \in {"PARTIAL"} : o.status = "PARTIAL" /\ ~ o.more}
    \union {code \in {"COMPLETE"} : o.status = "COMPLETE" /\ o.more}
    \union {code \in {"QUALITY"} : o.status = "COMPLETE" /\ evidence.quality = "LOW"}

Valid(o) == CoverageErrors(o) = {} /\ SemanticErrors(o) = {}

(* The two warnings that also ask for a repair.                            *)
IncoherentConfidence(o) ==
    /\ o.confidence < 20 /\ o.status # "INSUFFICIENT_EVIDENCE"
    /\ evidence.quality # "LOW"
OnlyForwardItems(o) ==
    /\ o.status = "PARTIAL" /\ evidence.quality # "LOW" /\ ~ MaterialGap(o)
    /\ "outcome" \in o.unknowns \/ o.forward # {}

MissingContexts(o) == evidence.tagged \ o.contexts
-----------------------------------------------------------------------------
(* The repair.                                                             *)

GovernanceFields == {"research_status", "requires_additional_research"}
StatusErrors == {"LOW", "GAPS", "MORE", "INSUFFICIENT", "USEFUL", "PARTIAL",
                 "COMPLETE", "QUALITY"}

(* The name of a context is no error code and no other field's name.       *)
ASSUME ContextsAssumption ==
    Contexts \intersect (StatusErrors \union GovernanceFields
        \union {"CONFLICT", "unknowns", "forward_uncertainties", "research_confidence"}) = {}

(* _repairable_fields and what the warnings and missing contexts add.      *)
RepairableFields(o) ==
    LET errors == CoverageErrors(o) \union SemanticErrors(o)
    IN  (errors \intersect Contexts) \union MissingContexts(o)
        \union (IF errors \intersect StatusErrors # {} THEN GovernanceFields ELSE {})
        \union (IF "CONFLICT" \in errors THEN {"unknowns"} ELSE {})
        \union (IF IncoherentConfidence(o) THEN {"research_confidence"} ELSE {})
        \union (IF OnlyForwardItems(o)
                THEN GovernanceFields \union {"unknowns", "forward_uncertainties"}
                ELSE {})

NeedsRepair(o) == ~ Valid(o) \/ MissingContexts(o) # {} \/ IncoherentConfidence(o)
                  \/ OnlyForwardItems(o)

(* What merging an answer to the repair may give: the previous output with *)
(* any values in the fields the repair schema has.                         *)
Merges(o, fields) ==
    LET free(field, all, old) == IF field \in fields THEN all ELSE {old}
    IN  [status : free("research_status", ResearchStatuses, o.status),
         more : free("requires_additional_research", BOOLEAN, o.more),
         contexts : {(o.contexts \ fields) \union c :
                         c \in SUBSET (Contexts \intersect fields)},
         cases : {o.cases},
         unknowns : free("unknowns", SUBSET UnknownKinds, o.unknowns),
         forward : free("forward_uncertainties", SUBSET ForwardKinds, o.forward),
         confidence : free("research_confidence", Confidences, o.confidence)]

(* _canonicalize_conflicting_unknowns: each removal of such an unknown     *)
(* removes its error and adds none.                                        *)
Canonical(o) == [o EXCEPT !.unknowns = @ \ {"conflict"}]

(* _normalize_repaired_status.                                             *)
Normalized(o) ==
    LET marked == /\ CoverageErrors(o) = {} /\ SemanticErrors(o) = {"USEFUL"}
        gaps == /\ o.status = "COMPLETE" /\ "GAPS" \in CoverageErrors(o)
                /\ CoverageErrors(o) \subseteq {"GAPS", "MORE"}
                /\ SemanticErrors(o) \subseteq {"COMPLETE"}
    IN  IF UsefulAnalysis(o) /\ (marked \/ gaps)
        THEN [o EXCEPT !.status = "PARTIAL", !.more = TRUE]
        ELSE o
-----------------------------------------------------------------------------
ResearchInit ==
    /\ evidence \in Evidences /\ phase = "research"
    /\ output = Blank /\ asked = {} /\ before = <<"NONE", FALSE>>

(* The first inference.                                                    *)
FirstAnswer(o) ==
    /\ phase = "research"
    /\ output' = o /\ before' = <<o.status, o.more>>
    /\ phase' = IF NeedsRepair(o) THEN "repair" ELSE "researched"
    /\ UNCHANGED <<evidence, asked>>

(* Mutant: a repaired output that is still invalid is accepted.            *)
AcceptRepaired(o) == TRUE
RepairAccepted(o) == Valid(o)

(* The one repair pass, merged, canonicalised, normalised and validated.   *)
Repair(merged) ==
    LET repaired == Normalized(Canonical(merged))
    IN  /\ phase = "repair"
        /\ asked' = RepairableFields(output)
        /\ output' = repaired
        /\ phase' = IF RepairAccepted(repaired) THEN "researched" ELSE "raised"
        /\ UNCHANGED <<evidence, before>>

ResearchNext ==
    \/ \E o \in ResearchAnswers : FirstAnswer(o)
    \/ phase = "repair" /\ \E o \in Merges(output, RepairableFields(output)) : Repair(o)
-----------------------------------------------------------------------------
(* Properties.                                                             *)

Accepted == phase = "researched"

(* Whatever the model answered, to the first question and to the repair:   *)
(* an accepted research is COMPLETE only without a material gap, on        *)
(* evidence that is not LOW and requiring nothing more; it requires more   *)
(* if it is anything else; it claims no supplied fact to be missing and    *)
(* covers what the evidence states.                                        *)
StatusIsEarned ==
    Accepted =>
        /\ output.status = "COMPLETE" <=> ~ output.more
        /\ output.status = "COMPLETE" =>
               /\ evidence.quality # "LOW"
               /\ "gap" \notin output.unknowns \union output.forward
        /\ "conflict" \notin output.unknowns
        /\ evidence.stated \subseteq output.contexts

(* "Context presence never independently authorizes rewriting research     *)
(* governance": a research that said it was not COMPLETE and asked for     *)
(* more is COMPLETE after the repair only if it was asked to reassess      *)
(* forward items or its status on an error of the validators.              *)
NoSilentPromotion ==
    Accepted /\ output.status = "COMPLETE" /\ before[1] = "PARTIAL" /\ before[2] =>
        "forward_uncertainties" \in asked

(* What the research service returns, repaired or not, is coherent, and    *)
(* the repair mended nothing it was not asked to mend.                     *)
AcceptedIsCoherent == StatusIsEarned /\ NoSilentPromotion
=============================================================================
