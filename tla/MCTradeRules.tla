---------------------------- MODULE MCTradeRules ----------------------------
(* Small instances of TradeRules.                                          *)
EXTENDS TradeRules

Cash(available, reserve) == [available |-> available, reserve |-> reserve]
NoEntry == [available |-> None, reserve |-> 0]

MakeAccount(nav, eur, usd, loss, weight, gross, cio, risk, reserve) ==
    [nav |-> nav, cash |-> [EUR |-> eur, USD |-> usd],
     limits |-> [loss |-> loss, weight |-> weight, gross |-> gross, cio |-> cio,
                 risk |-> risk, reserve |-> reserve]]

\* Every limit set or not, accounts without NAV, without an entry for one of
\* the currencies, and a larger one with other limits.
MCAccounts ==
    {MakeAccount(nav, Cash(5, 1), Cash(4, 1), 2, 50, 100, cio, 0, 4) :
        nav \in {None, 12}, cio \in {None, 50}}
      \cup {MakeAccount(12, NoEntry, Cash(4, 1), loss, 50, 100, 50, None, 4) :
              loss \in {None, 2}}
      \cup {MakeAccount(6, Cash(8, 0), Cash(6, 0), 4, 40, 150, 100, None, None),
            MakeAccount(12, Cash(8, 0), NoEntry, None, None, None, None, None, None)}

MCLater == {MakeAccount(6, Cash(8, 0), Cash(6, 0), 4, 40, 150, 100, None, None),
            MakeAccount(None, Cash(5, 1), Cash(4, 1), 2, 50, 100, 50, 0, 4)}

MCPortfolios == {[long |-> 0, short |-> 0], [long |-> 6, short |-> 0],
                 [long |-> 3, short |-> 3]}

MCOpportunities ==
    [direction : {"LONG", "SHORT"}, target : {None, 3, 6}, loss : {None, 3}]

MakeInstrument(relationship, long, short, funding, ordinary, margin, session) ==
    [relationship |-> relationship, long |-> long, short |-> short,
     funding |-> funding, ordinary |-> ordinary, margin |-> margin, session |-> session]

MCInstruments ==
    {MakeInstrument("DIRECT", "YES", "NO", "EUR", TRUE, 100, "ANY"),
     MakeInstrument("DIRECT", "UNKNOWN", "YES", "USD", TRUE, 100, "ANY"),
     MakeInstrument("DIRECT", "YES", "YES", "USD", FALSE, 50, "ANY"),
     MakeInstrument("INVERSE", "YES", "NO", "EUR", TRUE, 100, "ANY"),
     MakeInstrument("LEVERAGED_LONG", "YES", "YES", "EUR", FALSE, 20, "INTRADAY_ONLY")}

MCMarkets == {[unit |-> 1, fx |-> 1, lossPerUnit |-> 1],
              [unit |-> 2, fx |-> 2, lossPerUnit |-> 1],
              [unit |-> 2, fx |-> 2, lossPerUnit |-> None]}

MCRequests == {6}
=============================================================================
