--------------------------- MODULE MCReplenishment ---------------------------
(* Replenishment on a small instance: a session that searches in waves of  *)
(* two after any root run, and one in waves of one that dies and is        *)
(* invoked again.                                                          *)
EXTENDS Replenishment

ThreeListings == 1 .. 3
AllRoutes == {"STANDARD", "REVIEW"}
AllChildClasses == {"excluded", "opportunity", "failed", "pending"}

Searching == [batch |-> 2, waves |-> 2, retries |-> 1,
              childClasses |-> AllChildClasses \ {"pending"},
              priorClasses |-> AllChildClasses, crashes |-> 0, runs |-> 1]
Replaying == [batch |-> 1, waves |-> 2, retries |-> 1, childClasses |-> AllChildClasses,
              priorClasses |-> {}, crashes |-> 1, runs |-> 2]
SearchedAndReplayed == {Searching, Replaying}
=============================================================================
