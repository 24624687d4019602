---------------------------- MODULE BatchStore ----------------------------
(***************************************************************************)
(* What signed ingestion promises of each batch, without requests, retries *)
(* or faults: its statements take effect in their order, an effect is      *)
(* never undone, and a batch is acknowledged only when all of it is stored *)
(* and linked to its crawl run.  Nothing is promised of a batch that is    *)
(* never acknowledged: four databases are written without a transaction,   *)
(* so it may stay half stored.                                             *)
(***************************************************************************)
EXTENDS Naturals

CONSTANTS
  Batches,  \* the batches of a crawl run
  Length    \* Length[b]: how many statements batch b becomes

VARIABLES
  stored,  \* stored[b]: how many of the statements of b have taken effect
  linked,  \* the batches that are linked to the crawl run
  acked    \* the batches that have been acknowledged

Init ==
  /\ stored = [b \in Batches |-> 0]
  /\ linked = {}
  /\ acked = {}

(* The next statement of a batch takes effect.                             *)
Store(b) ==
  /\ stored[b] < Length[b]
  /\ stored' = [stored EXCEPT ![b] = @ + 1]
  /\ UNCHANGED <<linked, acked>>

(* A batch that is stored is linked to its run.                            *)
Link(b) ==
  /\ stored[b] = Length[b]
  /\ linked' = linked \cup {b}
  /\ UNCHANGED <<stored, acked>>

(* A batch that is linked is acknowledged.                                 *)
Acknowledge(b) ==
  /\ b \in linked
  /\ acked' = acked \cup {b}
  /\ UNCHANGED <<stored, linked>>

Next == \E b \in Batches : Store(b) \/ Link(b) \/ Acknowledge(b)

Spec == Init /\ [][Next]_<<stored, linked, acked>>
=============================================================================
