------------------------ MODULE MCResearchIntegration ------------------------
(* ResearchIntegration on a small instance: a monitor stored before the    *)
(* two sides of one listing, and a member that is not ready.               *)
EXTENDS ResearchIntegration

CONSTANT l1

OneListing == {l1}
BothSides == {2, 3}
OneMonitor == {1}
OneMember == {4}
ShortSide == {3}
OfListing == [h \in BothSides |-> l1]
AnyLimit == {0, 1}
=============================================================================
