-------------------------- MODULE MCInstrumentCache --------------------------
(* InstrumentCache on a small instance: one ticker with an opportunity, a  *)
(* margin line of it and a leveraged fund that refers to it, kept under a  *)
(* ticker of its own.                                                      *)
EXTENDS InstrumentCache

Margin == [underlying |-> 1, type |-> "MARGIN", mode |-> "INTRADAY", relationship |-> "DIRECT"]
Fund == [underlying |-> 2, type |-> "ETF", mode |-> "OVERNIGHT",
         relationship |-> "LEVERAGED_LONG"]
Content(reference, intraday) ==
    [reference |-> reference, intraday |-> intraday, overnight |-> "unknown",
     certificate |-> FALSE]
Full == Content(1, "yes")
Bare == Content(NoReference, "no")

MCIdentities == {Margin, Fund}
MCContents == {Full, Bare}
Listed(identity, content, id) == [identity |-> identity, content |-> content, id |-> id]
MCItems ==
    {Listed(Margin, Full, NoId), Listed(Margin, Bare, NoId),
     Listed(Fund, Bare, NoId), Listed(Fund, Full, 1)}
=============================================================================
