---------------------------- MODULE Stage4Promise ----------------------------
(***************************************************************************)
(* What the store promises the operator about one Stage 4 run, without the *)
(* program that keeps the promise: a run starts, its stages become durable *)
(* one at a time in the canonical order, a PARTIAL run may start again,    *)
(* and every other outcome is final.  COMPLETED needs all stages durable,  *)
(* WAITING_FOR_OPERATOR_SELECTION stops just before the selection stage    *)
(* and PARTIAL just before a stage whose adapter may return it.            *)
(***************************************************************************)
EXTENDS Naturals

CONSTANTS
    LastStage,          \* position of FINAL_EVIDENCE in STAGE_ORDER
    PartialStages,      \* the stages that may end a run as PARTIAL
    SelectionStage      \* the only stage that may end a run as WAITING

VARIABLES
    status,             \* Stage4RunStatus, or "ABSENT" before the first save
    durable             \* the stages whose COMPLETED record is stored

promiseVars == <<status, durable>>

StagesBefore(s) == 1 .. (s - 1)

Init ==
    /\ status = "ABSENT"
    /\ durable = {}

(* A new run, or a PARTIAL one resumed.                                     *)
Start ==
    /\ status \in {"ABSENT", "PARTIAL"}
    /\ status' = "RUNNING"
    /\ UNCHANGED durable

(* The next stage becomes durable; none is skipped, none is repeated.       *)
Advance ==
    /\ status = "RUNNING"
    /\ \E s \in 1 .. LastStage :
          /\ durable = StagesBefore(s)
          /\ durable' = durable \union {s}
    /\ UNCHANGED status

Complete ==
    /\ status = "RUNNING"
    /\ durable = 1 .. LastStage
    /\ status' = "COMPLETED"
    /\ UNCHANGED durable

(* A run that stops early says why, and only where that reason can arise.   *)
Stop ==
    /\ status = "RUNNING"
    /\ durable # 1 .. LastStage
    /\ \/ status' \in {"BLOCKED", "FAILED"}
       \/ /\ durable = StagesBefore(SelectionStage)
          /\ status' = "WAITING_FOR_OPERATOR_SELECTION"
       \/ /\ \E s \in PartialStages : durable = StagesBefore(s)
          /\ status' = "PARTIAL"
    /\ UNCHANGED durable

Next == Start \/ Advance \/ Complete \/ Stop

Spec == Init /\ [][Next]_promiseVars
=============================================================================
