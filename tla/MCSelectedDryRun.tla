--------------------------- MODULE MCSelectedDryRun ---------------------------
(* SelectedDryRun on small instances.                                      *)
EXTENDS SelectedDryRun

CONSTANT i1

OneInstrument == {i1}
OneVersion == {1}
=============================================================================
