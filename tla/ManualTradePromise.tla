-------------------------- MODULE ManualTradePromise --------------------------
(***************************************************************************)
(* What the desk promises about the trades of one opportunity, whatever the*)
(* commands, their order and the crashes between their saves: a trade is   *)
(* planned, the operator reports once what became of it, an executed trade *)
(* is opened once and closed once, and nothing is ever taken back.  Only   *)
(* the trade planned last can be reported or opened.                       *)
(***************************************************************************)
EXTENDS Naturals, Sequences

VARIABLE trades      \* the trades in the order they were planned

Planned == trades' = Append(trades, "planned")

Moves(p, from, to) == trades[p] = from /\ trades' = [trades EXCEPT ![p] = to]

ReportedLatest ==
    /\ trades # <<>>
    /\ \/ Moves(Len(trades), "planned", "executed")
       \/ Moves(Len(trades), "planned", "cancelled")

OpenedLatest == trades # <<>> /\ Moves(Len(trades), "executed", "open")

Closed == \E p \in 1 .. Len(trades) : Moves(p, "open", "closed")

Init == trades = <<>>
Next == Planned \/ ReportedLatest \/ OpenedLatest \/ Closed
Spec == Init /\ [][Next]_trades
=============================================================================
