-------------------------- MODULE MCExchangeCatalog --------------------------
(* ExchangeCatalog on a small instance: one exchange of limited coverage   *)
(* and one aggregate whose rows may name a venue of the other; a second    *)
(* invocation on the same directory takes the aggregate alone.             *)
EXTENDS ExchangeCatalog

CONSTANTS r1, r2

Row(venue, isin) == [venue |-> venue, symbol |-> "S", isin |-> isin]
Answer(status, declares, rows) == [status |-> status, declares |-> declares, rows |-> rows]

MCOrder == [r \in {r1, r2} |-> IF r = r1 THEN <<"BIT", "US">> ELSE <<"US">>]
MCOutputs == [a \in {"BIT", "US"} |-> IF a = "BIT" THEN {"BIT"} ELSE {"NYSE"}]
MCRows == {Row("BIT", "I1"), Row("BIT", "I2"), Row("NYSE", ""), Row("NYSE", "I1"), Row("OTC", "I1")}
MCAnswers == {Answer("SUCCESS", TRUE, {Row("BIT", "I1")}),
              Answer("PARTIAL", FALSE, {Row("BIT", "I2"), Row("NYSE", ""), Row("NYSE", "I1"), Row("OTC", "I1")})}
=============================================================================
