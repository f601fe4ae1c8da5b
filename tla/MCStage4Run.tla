---------------------------- MODULE MCStage4Run ----------------------------
(* Stage4Run on small instances.                                          *)
EXTENDS Stage4Run

CONSTANTS i1, i2, o1

OneId == {i1}
TwoIds == {i1, i2}
OneOpp == {o1}

(* PARTIAL comes from research in the canonical runtime.                   *)
PartialFromResearch == {RESEARCH_INTEGRATION}
=============================================================================
