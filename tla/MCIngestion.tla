---------------------------- MODULE MCIngestion ----------------------------
(* Instances of Ingestion for TLC.                                          *)
EXTENDS Ingestion, TLC

(* A statement that refers to no seller, and one that does.                 *)
Put(table, row)         == [table |-> table, row |-> row, seller |-> NoRow]
PutFor(table, row, who) == [table |-> table, row |-> row, seller |-> who]

RunRecord == Put("crawl_runs", "run")

(* A batch with two sellers, one that sees the first again and has a        *)
(* contact of the second, one that the source policy refuses, and the       *)
(* completion record.                                                       *)
Plans ==
  <<<<Put("sellers", "s"), Put("sellers", "t"), RunRecord>>,
    <<Put("sellers", "s"), PutFor("contacts", "c", "t"), RunRecord>>,
    <<Put("sources", "u"), RunRecord>>,
    <<RunRecord>>>>
Verdicts4   == <<"ok", "ok", "policy", "ok">>
Confidences == <<2, 1, 1, 0>>
RowsWritten == {"s", "t", "c", "u", "run"}

(* A crawl that is halted by a cooldown: a product, the notice of the       *)
(* cooldown, and the completion record.                                     *)
HaltedPlans ==
  <<<<Put("sellers", "s"), RunRecord>>,
    <<RunRecord, Put("source_registry", "r")>>,
    <<RunRecord>>>>
HaltedVerdicts    == <<"ok", "ok", "ok">>
HaltedConfidences == <<1, 0, 0>>
HaltedRows        == {"s", "r", "run"}
=============================================================================
