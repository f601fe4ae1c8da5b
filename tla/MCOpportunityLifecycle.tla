------------------------ MODULE MCOpportunityLifecycle ------------------------
(* OpportunityLifecycle on small instances.                                *)
EXTENDS OpportunityLifecycle

CONSTANT i1

OneInstrument == {i1}
TwoVersions == {1, 2}
=============================================================================
