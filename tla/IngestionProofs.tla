-------------------------- MODULE IngestionProofs --------------------------
(***************************************************************************)
(* What holds of ingestion for any plan of batches, any number of slots    *)
(* and attempts, and whatever is lost, cut off, copied, retried, replayed  *)
(* or refused.                                                             *)
(*                                                                         *)
(* The inductive invariant IngestionInv says what a request at the Worker  *)
(* may rely on at each of its points (RequestSound), how far the crawl job *)
(* has come (FatesInOrder, NoneAhead) and which rows exist (WrittenRows).  *)
(***************************************************************************)
EXTENDS Ingestion, TLAPS

(* The Worker is at a point that only an accepted or acknowledged batch,   *)
(* or one that passed the checks before, can have reached.                 *)
RequestSound(r) ==
  /\ r.pc = "free" => r.to = Nobody /\ r.batch = NoBatch
  /\ r.pc # "free" => r.batch \in Batches
  /\ r.pc # "free" /\ r.to = Nobody => r.batch \in strays
  /\ r.to = "spider" => r.batch = spider.batch /\ spider.waiting
  /\ r.to = "replayer" => r.batch = replayer.batch
  /\ r.pc \in {"lookup", "insert"} => Verdict[r.batch] # "unsigned" /\ r.nonce \in Slots
  /\ r.pc = "check" => Verdict[r.batch] \notin {"unsigned", "schema"}
  /\ r.pc \in {"write", "link", "record"} => Verdict[r.batch] = "ok"
  /\ r.pc \in {"lookup", "insert", "check"} => r.at = 1
  /\ r.pc = "write" => r.at \in 1..Len(Plan[r.batch]) /\ r.at <= stored[r.batch] + 1
  /\ r.pc = "link" => Stored(r.batch)
  /\ r.pc = "record" \/ (r.pc = "answer" /\ Success(r.code)) =>
       Stored(r.batch) /\ r.batch \in linked

RequestsSound == \A w \in Slots : RequestSound(requests[w])

(* A sender waits for one request at a time.                               *)
OneRequestEach ==
  \A v, w \in Slots :
    requests[v].to # Nobody /\ requests[v].to = requests[w].to => v = w

(* The job goes from batch to batch: none after the one in hand has been   *)
(* settled, each before it has, or the job has been stopped; what is in    *)
(* the spool, or in the hands of the replay, was spooled.                  *)
Stopped == \E b \in Batches \ {Last} : fate[b] \in {"spooled", "rejected"}

FatesInOrder ==
  /\ spider.batch # NoBatch =>
       \A b \in Batches : b >= spider.batch => fate[b] = "unsent"
  /\ \A b \in Batches \ {Last} :
       spider.batch = NoBatch \/ b < spider.batch => fate[b] # "unsent" \/ Stopped
  /\ \A b \in spool : fate[b] = "spooled"
  /\ replayer.batch # NoBatch => fate[replayer.batch] = "spooled"

(* No batch after the one in hand has reached the Worker.                  *)
NoneAhead ==
  /\ spider.batch # NoBatch =>
       \A b \in Batches : b > spider.batch =>
         stored[b] = 0 /\ \A w \in Slots : requests[w].batch # b
  /\ reported \in {"completed", "completed_with_errors"} =>
       spider.batch \in {NoBatch, Last}

(* Statements that have taken effect have left their row.                  *)
WrittenRows ==
  /\ \A b \in Batches : stored[b] <= Len(Plan[b])
  /\ \A b \in Batches : \A i \in 1..stored[b] : rows[Plan[b][i].row] # Absent
  /\ \A k \in Rows : rows[k] # Absent => rows[k].best \in Batches /\ rows[k].last \in Batches

StoreInv ==
  /\ WrittenRows
  /\ AcknowledgedIsStored
  /\ NothingLost
  /\ RefusedLeavesNothing

IngestionInv ==
  /\ TypeOK
  /\ RequestsSound
  /\ OneRequestEach
  /\ FatesInOrder
  /\ NoneAhead
  /\ StoreInv

-----------------------------------------------------------------------------
(* The client.                                                             *)

(* What a step of a sender leaves of the job and of the spool.             *)
ClientEffect(s) ==
  /\ spider' \in Sender /\ replayer' \in Sender
  /\ fate' \in [Batches -> Fates] /\ spool' \subseteq Batches
  /\ FatesInOrder'
  /\ s = "spider" => replayer' = replayer
  /\ s = "replayer" => spider' = spider
  /\ spider'.batch = NoBatch \/ (spider.batch # NoBatch /\ spider'.batch >= spider.batch)
  /\ spider.batch \in {NoBatch, Last} => spider'.batch \in {NoBatch, Last}
  /\ \A b \in Batches :
       /\ fate'[b] = fate[b] \/ (fate[b] = "unsent" /\ spider.batch = b)
       /\ fate'[b] = "accepted" => fate[b] = "accepted" \/ (Stored(b) /\ b \in linked)
       /\ fate'[b] = "spooled" => b \in spool' \/ Stored(b)

(* The numbers the job counts its batches with.                            *)
LEMMA BatchNumbers ==
  /\ Last \in Batches
  /\ \A b \in Batches : b \in Nat /\ b # NoBatch /\ b <= Last
  /\ \A b \in Batches : b # Last => b + 1 \in Batches
BY ConstantsAssumption DEF Batches, NoBatch

LEMMA PlanLengths ==
  \A b \in Batches : Len(Plan[b]) \in Nat /\ Len(Plan[b]) > 0
BY ConstantsAssumption, PlanAssumption

(* Settling the batch in hand.                                             *)
LEMMA SettleEffect ==
  ASSUME IngestionInv, spider.batch \in Batches, NEW o \in Fates \ {"unsent"},
         Settle(o), UNCHANGED replayer,
         o = "accepted" => Stored(spider.batch) /\ spider.batch \in linked
  PROVE  ClientEffect("spider")
<1> DEFINE b == spider.batch
<1>1. /\ spider \in Sender /\ replayer \in Sender /\ fate \in [Batches -> Fates]
      /\ spool \subseteq Batches /\ FatesInOrder /\ NothingLost
  BY DEF IngestionInv, TypeOK, StoreInv
<1>2. /\ fate' = [fate EXCEPT ![b] = o]
      /\ spool' = IF o = "spooled" THEN spool \cup {b} ELSE spool
      /\ Proceed(b)
  BY DEF Settle
<1>3. /\ fate' \in [Batches -> Fates] /\ spool' \subseteq Batches
      /\ \A c \in Batches : fate'[c] = IF c = b THEN o ELSE fate[c]
  BY <1>1, <1>2
<1>4. fate[b] = "unsent" /\ \A c \in Batches : c >= b => fate[c] = "unsent"
  BY <1>1, BatchNumbers DEF FatesInOrder
<1>5. Resting \in Sender /\ Resting.batch = NoBatch
  BY DEF Resting, Sender
<1>6. \/ b = Last /\ spider' = Resting
      \/ b # Last /\ spider' = [Resting EXCEPT !.batch = b + 1]
      \/ b # Last /\ Stopping' /\ spider' = [Resting EXCEPT !.batch = Last]
  BY <1>2 DEF Proceed
<1>7. Stopping' /\ b # Last => Stopped'
  <2>1. b # Last => fate'[Last] = "unsent"
    BY <1>3, <1>4, BatchNumbers
  <2> QED
    BY <2>1 DEF Stopping, Stopped
<1>8. Stopped => Stopped'
  BY <1>3, <1>4 DEF Stopped
<1>9. /\ spider' \in Sender
      /\ \/ b = Last /\ spider'.batch = NoBatch
         \/ b # Last /\ spider'.batch = b + 1
         \/ b # Last /\ Stopped' /\ spider'.batch = Last
  BY <1>5, <1>6, <1>7, BatchNumbers DEF Resting, Sender
<1>10. FatesInOrder'
  <2>1. spider'.batch # NoBatch => \A c \in Batches : c >= spider'.batch => fate'[c] = "unsent"
    BY <1>3, <1>4, <1>9, BatchNumbers
  <2>2. ASSUME NEW c \in Batches \ {Last}, spider'.batch = NoBatch \/ c < spider'.batch
        PROVE  fate'[c] # "unsent" \/ Stopped'
    <3>1. CASE c < b
      BY <1>1, <1>3, <1>8, <3>1 DEF FatesInOrder
    <3>2. CASE c = b
      BY <1>3, <3>2
    <3>3. CASE c > b
      BY <1>9, <2>2, <3>3, BatchNumbers
    <3> QED
      BY <3>1, <3>2, <3>3, BatchNumbers
  <2>3. \A c \in spool' : fate'[c] = "spooled"
    BY <1>1, <1>2, <1>3, <1>4 DEF FatesInOrder
  <2>4. replayer'.batch # NoBatch => fate'[replayer'.batch] = "spooled"
    BY <1>1, <1>3, <1>4 DEF FatesInOrder, Sender
  <2> QED
    BY <2>1, <2>2, <2>3, <2>4 DEF FatesInOrder
<1>11. spider'.batch = NoBatch \/ (spider.batch # NoBatch /\ spider'.batch >= spider.batch)
  BY <1>9, BatchNumbers
<1>12. ASSUME NEW c \in Batches
       PROVE  /\ fate'[c] = fate[c] \/ (fate[c] = "unsent" /\ spider.batch = c)
              /\ fate'[c] = "accepted" => fate[c] = "accepted" \/ (Stored(c) /\ c \in linked)
              /\ fate'[c] = "spooled" => c \in spool' \/ Stored(c)
  BY <1>1, <1>2, <1>3, <1>4 DEF NothingLost
<1> QED
  BY <1>1, <1>3, <1>9, <1>10, <1>11, <1>12, BatchNumbers DEF ClientEffect

(* An attempt that failed leaves everything but the count, or spools.      *)
LEMMA AttemptEffect ==
  ASSUME IngestionInv, spider.batch \in Batches, AttemptFailed, UNCHANGED replayer
  PROVE  ClientEffect("spider")
<1>1. CASE spider.attempt < MaxAttempts
  <2>1. /\ spider \in Sender /\ replayer \in Sender /\ fate \in [Batches -> Fates]
        /\ spool \subseteq Batches /\ FatesInOrder /\ NothingLost
    BY DEF IngestionInv, TypeOK, StoreInv
  <2>2. /\ spider' = [batch |-> spider.batch, attempt |-> spider.attempt + 1, waiting |-> FALSE]
        /\ UNCHANGED <<fate, spool>>
    BY <1>1 DEF AttemptFailed, Resting
  <2>3. spider' \in Sender /\ spider'.batch = spider.batch
    BY <2>1, <2>2 DEF Sender
  <2>4. FatesInOrder'
    BY <2>1, <2>2, <2>3 DEF FatesInOrder, Stopped
  <2> QED
    BY <2>1, <2>2, <2>3, <2>4, BatchNumbers DEF ClientEffect, NothingLost
<1>2. CASE ~(spider.attempt < MaxAttempts)
  <2>1. Settle("spooled")
    BY <1>2 DEF AttemptFailed
  <2> QED
    BY <2>1, SettleEffect DEF Fates
<1> QED
  BY <1>1, <1>2

(* The replay puts its record down, or deletes it when the batch is stored.*)
LEMMA ReplayerEffect ==
  ASSUME IngestionInv, replayer.batch \in Batches, NEW code, ReplayerHears(code),
         Success(code) => Stored(replayer.batch)
  PROVE  ClientEffect("replayer")
<1>1. /\ spider \in Sender /\ replayer \in Sender /\ fate \in [Batches -> Fates]
      /\ spool \subseteq Batches /\ FatesInOrder /\ NothingLost
  BY DEF IngestionInv, TypeOK, StoreInv
<1>2. /\ replayer' = Resting
      /\ spool' = IF Success(code) THEN spool \ {replayer.batch} ELSE spool
      /\ UNCHANGED <<spider, fate>>
  BY DEF ReplayerHears
<1>3. Resting \in Sender /\ Resting.batch = NoBatch
  BY DEF Resting, Sender
<1>4. /\ replayer' \in Sender /\ replayer'.batch = NoBatch /\ spool' \subseteq spool
      /\ \A b \in spool : b \in spool' \/ Stored(b)
  BY <1>2, <1>3
<1>5. FatesInOrder'
  BY <1>1, <1>2, <1>4 DEF FatesInOrder, Stopped
<1>6. spider'.batch = NoBatch \/ (spider.batch # NoBatch /\ spider'.batch >= spider.batch)
  BY <1>1, <1>2, BatchNumbers DEF Sender
<1> QED
  BY <1>1, <1>2, <1>4, <1>5, <1>6 DEF ClientEffect, NothingLost

(* So does hearing any answer.                                             *)
LEMMA HearsEffect ==
  ASSUME IngestionInv, NEW s \in Senders, NEW code \in Codes, Hears(s, code),
         s = "spider" => spider.batch \in Batches,
         s = "replayer" => replayer.batch \in Batches,
         s = "spider" /\ Success(code) => Stored(spider.batch) /\ spider.batch \in linked,
         s = "replayer" /\ Success(code) => Stored(replayer.batch)
  PROVE  ClientEffect(s)
<1>1. CASE s = "spider"
  <2>1. SpiderHears(code)
    BY <1>1 DEF Hears
  <2>2. UNCHANGED replayer
    BY <2>1 DEF SpiderHears
  <2>3. CASE Success(code) /\ Settle("accepted")
    BY <1>1, <2>2, <2>3, SettleEffect DEF Fates
  <2>4. CASE Retryable(code) /\ AttemptFailed
    BY <1>1, <2>2, <2>4, AttemptEffect
  <2>5. CASE ~Success(code) /\ ~Retryable(code) /\ Settle("rejected")
    BY <1>1, <2>2, <2>5, SettleEffect DEF Fates
  <2> QED
    BY <2>1, <2>3, <2>4, <2>5 DEF SpiderHears
<1>2. CASE s = "replayer"
  BY <1>2, ReplayerEffect DEF Hears
<1> QED
  BY <1>1, <1>2 DEF Senders

(* A request that leaves its sender: it goes on unheard, or it is gone.    *)
Released(w) ==
  \E r \in {[requests[w] EXCEPT !.to = Nobody], Free} :
    /\ requests' = [requests EXCEPT ![w] = r]
    /\ r # Free => requests[w].batch \in strays'
    
(* A step of a sender that releases the request it waits for.              *)
LEMMA ReleaseKeeps ==
  ASSUME IngestionInv, NEW s \in Senders, ClientEffect(s),
         NEW w \in Slots, requests[w].to = s, Released(w),
         UNCHANGED <<rows, stored, linked, keys, reported>>,
         nonces' \subseteq Slots, strays \subseteq strays', strays' \subseteq Batches, faults' \in Nat
  PROVE  IngestionInv'
<1>1. PICK r \in {[requests[w] EXCEPT !.to = Nobody], Free} :
        /\ requests' = [requests EXCEPT ![w] = r]
        /\ r # Free => requests[w].batch \in strays'
  BY DEF Released
<1>2. /\ TypeOK /\ RequestsSound /\ OneRequestEach /\ FatesInOrder /\ NoneAhead
      /\ WrittenRows /\ AcknowledgedIsStored /\ NothingLost /\ RefusedLeavesNothing
  BY DEF IngestionInv, StoreInv
<1>3. requests[w] \in Request /\ RequestSound(requests[w])
  BY <1>2 DEF TypeOK, RequestsSound
<1>4. /\ r \in Request /\ r.to = Nobody
      /\ \/ r.pc = "free" /\ r.batch = NoBatch
         \/ /\ r.pc = requests[w].pc /\ r.batch = requests[w].batch /\ r.at = requests[w].at
            /\ r.code = requests[w].code /\ r.nonce = requests[w].nonce /\ r.pc # "free" /\ r.batch \in strays'
  <2>1. CASE r = Free
    BY <2>1 DEF Free, Taken, Request, Points, Codes, Nobody, NoBatch, NoNonce
  <2>2. CASE r # Free /\ r = [requests[w] EXCEPT !.to = Nobody]
    <3>1. requests[w].to # Nobody
      BY DEF Senders, Nobody
    <3>2. requests[w].pc # "free"
      BY <1>3, <3>1 DEF RequestSound
    <3> QED
      BY <1>1, <1>3, <2>2, <3>2 DEF Request, Nobody
  <2> QED
    BY <1>1, <2>1, <2>2
<1>5. \A v \in Slots : requests'[v] = IF v = w THEN r ELSE requests[v]
  BY <1>1, <1>2 DEF TypeOK
<1>6. TypeOK'
  BY <1>1, <1>2, <1>4 DEF TypeOK, ClientEffect
<1>7. RequestsSound'
  <2> SUFFICES ASSUME NEW v \in Slots PROVE RequestSound(requests[v])'
    BY DEF RequestsSound
  <2>1. CASE v = w
    BY <1>3, <1>4, <1>5, <2>1 DEF RequestSound, Nobody, Stored
  <2>2. CASE v # w
    <3>1. requests[v] \in Request /\ RequestSound(requests[v])
      BY <1>2 DEF TypeOK, RequestsSound
    <3>2. requests[v].to # s
      BY <1>2, <2>2 DEF OneRequestEach, Senders, Nobody
    <3>3. /\ requests[v].to = "spider" => spider' = spider
          /\ requests[v].to = "replayer" => replayer' = replayer
      BY <3>2 DEF ClientEffect, Senders
    <3>4. requests'[v] = requests[v]
      BY <1>5, <2>2
    <3> QED
      BY <3>1, <3>3, <3>4 DEF RequestSound, Stored
  <2> QED
    BY <2>1, <2>2
<1>8. OneRequestEach'
  BY <1>2, <1>4, <1>5 DEF OneRequestEach
<1>9. NoneAhead'
  <2>1. \A b \in Batches : spider'.batch # NoBatch /\ b > spider'.batch =>
          spider.batch # NoBatch /\ b > spider.batch
    BY <1>2, BatchNumbers DEF ClientEffect, Sender, TypeOK
  <2>2. \A b \in Batches : r.batch = b => requests[w].batch = b
    BY <1>4, BatchNumbers
  <2> QED
    BY <1>2, <1>5, <2>1, <2>2 DEF NoneAhead, ClientEffect
<1>10. WrittenRows' /\ RefusedLeavesNothing'
  BY <1>2 DEF WrittenRows, RefusedLeavesNothing
<1>11. AcknowledgedIsStored' /\ NothingLost'
  BY <1>2 DEF AcknowledgedIsStored, NothingLost, ClientEffect, Stored
<1> QED
  BY <1>6, <1>7, <1>8, <1>9, <1>10, <1>11 DEF IngestionInv, StoreInv, ClientEffect

(* The job's own post fails before it reaches the Worker.                  *)
LEMMA OfflineKeeps ==
  ASSUME IngestionInv, Offline
  PROVE  IngestionInv'
<1>1. /\ TypeOK /\ RequestsSound /\ OneRequestEach /\ FatesInOrder /\ NoneAhead
      /\ WrittenRows /\ AcknowledgedIsStored /\ NothingLost /\ RefusedLeavesNothing
  BY DEF IngestionInv, StoreInv
<1>2. /\ spider.batch # NoBatch /\ ~spider.waiting /\ AttemptFailed /\ faults' = faults + 1
      /\ UNCHANGED <<rows, stored, linked, keys, nonces, reported, replayer, requests, strays>>
  BY DEF Offline, Fault, store
<1>3. ClientEffect("spider")
  BY <1>1, <1>2, AttemptEffect DEF TypeOK, Sender
<1>4. TypeOK'
  BY <1>1, <1>2, <1>3 DEF TypeOK, ClientEffect
<1>5. RequestsSound'
  BY <1>1, <1>2 DEF RequestsSound, RequestSound, Stored
<1>6. OneRequestEach' /\ WrittenRows' /\ RefusedLeavesNothing'
  BY <1>1, <1>2 DEF OneRequestEach, WrittenRows, RefusedLeavesNothing
<1>7. NoneAhead'
  <2>1. \A b \in Batches : spider'.batch # NoBatch /\ b > spider'.batch =>
          spider.batch # NoBatch /\ b > spider.batch
    BY <1>1, <1>3, BatchNumbers DEF ClientEffect, Sender, TypeOK
  <2> QED
    BY <1>1, <1>2, <1>3, <2>1 DEF NoneAhead, ClientEffect
<1>8. AcknowledgedIsStored' /\ NothingLost'
  BY <1>1, <1>2, <1>3 DEF AcknowledgedIsStored, NothingLost, ClientEffect, Stored
<1> QED
  BY <1>3, <1>4, <1>5, <1>6, <1>7, <1>8 DEF IngestionInv, StoreInv, ClientEffect

(* A request that reaches the Worker for a sender that waited for none.    *)
LEMMA ArriveKeeps ==
  ASSUME IngestionInv, NEW w \in Slots, NEW s \in Senders, NEW b \in Batches,
         Arrive(w, s, b),
         \A v \in Slots : requests[v].to # s,
         s = "spider" => spider' = [spider EXCEPT !.waiting = TRUE] /\ b = spider.batch
                         /\ UNCHANGED replayer,
         s = "replayer" => replayer' = [batch |-> b, attempt |-> 1, waiting |-> TRUE] /\ b \in spool
                         /\ UNCHANGED spider,
         UNCHANGED <<store, fate, spool, strays, faults>>
  PROVE  IngestionInv'
<1>1. /\ TypeOK /\ RequestsSound /\ OneRequestEach /\ FatesInOrder /\ NoneAhead
      /\ WrittenRows /\ AcknowledgedIsStored /\ NothingLost /\ RefusedLeavesNothing
  BY DEF IngestionInv, StoreInv
<1>2. UNCHANGED <<rows, stored, linked, keys, nonces, reported, fate, spool, strays, faults>>
  BY DEF store
<1>3. PICK r \in Request :
        /\ requests' = [requests EXCEPT ![w] = r]
        /\ r.to = s /\ r.batch = b
        /\ \/ r.pc = "answer" /\ r.code = "unsigned"
           \/ r.pc = "lookup" /\ Verdict[b] # "unsigned" /\ r.nonce \in Slots /\ r.at = 1
  <2>1. CASE Verdict[b] = "unsigned"
    <3>1. PICK r : r = [pc |-> "answer", batch |-> b, nonce |-> NoNonce, at |-> 1,
                        code |-> "unsigned", to |-> s]
      OBVIOUS
    <3>2. r \in Request
      BY <3>1 DEF Request, Points, Codes
    <3>3. requests' = [requests EXCEPT ![w] = r]
      BY <2>1, <3>1 DEF Arrive, Unsigned, Taken
    <3> QED
      BY <3>1, <3>2, <3>3
  <2>2. CASE Verdict[b] # "unsigned"
    <3>1. Fresh \in Slots
      BY DEF Arrive, Fresh, Unused
    <3>2. PICK r : r = [pc |-> "lookup", batch |-> b, nonce |-> Fresh, at |-> 1,
                        code |-> "failed", to |-> s]
      OBVIOUS
    <3>3. r \in Request
      BY <3>1, <3>2 DEF Request, Points, Codes
    <3>4. requests' = [requests EXCEPT ![w] = r]
      BY <2>2, <3>2 DEF Arrive, Unsigned, Taken
    <3> QED
      BY <2>2, <3>1, <3>2, <3>3, <3>4
  <2> QED
    BY <2>1, <2>2
<1>4. requests[w] = [requests[w] EXCEPT !.pc = "free"] /\ requests[w].pc = "free"
  BY <1>1 DEF Arrive, TypeOK, Request
<1>5. \A v \in Slots : requests'[v] = IF v = w THEN r ELSE requests[v]
  BY <1>1, <1>3 DEF TypeOK
<1>6. /\ spider' \in Sender /\ spider'.batch = spider.batch /\ (s = "replayer" => spider' = spider)
      /\ replayer' \in Sender /\ (s = "spider" => replayer' = replayer)
      /\ s = "replayer" => replayer'.batch = b
      /\ s = "spider" => spider'.waiting /\ spider'.batch = b
      /\ s = "spider" \/ s = "replayer"
  <2>1. CASE s = "spider"
    <3>1. spider \in Sender /\ replayer \in Sender /\ spider' = [spider EXCEPT !.waiting = TRUE]
      BY <1>1, <2>1 DEF TypeOK
    <3>2. spider' \in Sender /\ spider'.batch = spider.batch /\ spider'.waiting
      BY <3>1 DEF Sender
    <3> QED
      BY <2>1, <3>1, <3>2
  <2>2. CASE s = "replayer"
    <3>1. spider \in Sender /\ spider' = spider /\ s # "spider"
      BY <1>1, <2>2 DEF TypeOK
    <3>2. replayer' = [batch |-> b, attempt |-> 1, waiting |-> TRUE]
      BY <2>2
    <3>3. replayer' \in Sender /\ replayer'.batch = b
      BY <3>2 DEF Sender
    <3> QED
      BY <2>2, <3>1, <3>3
  <2> QED
    BY <2>1, <2>2 DEF Senders
<1>7. TypeOK'
  BY <1>1, <1>2, <1>3, <1>6 DEF TypeOK
<1>8. RequestsSound'
  <2> SUFFICES ASSUME NEW v \in Slots PROVE RequestSound(requests[v])'
    BY DEF RequestsSound
  <2>1. CASE v = w
    BY <1>2, <1>3, <1>5, <1>6, <2>1 DEF RequestSound, Success, Senders, Nobody
  <2>2. CASE v # w
    <3>1. RequestSound(requests[v]) /\ requests[v].to # s /\ requests'[v] = requests[v]
      BY <1>1, <1>5, <2>2 DEF RequestsSound
    <3> QED
      BY <1>2, <1>6, <3>1 DEF RequestSound, Stored
  <2> QED
    BY <2>1, <2>2
<1>9. OneRequestEach'
  BY <1>1, <1>3, <1>5 DEF OneRequestEach
<1>10. FatesInOrder'
  BY <1>1, <1>2, <1>6 DEF FatesInOrder, Stopped
<1>11. NoneAhead'
  <2>1. spider.batch # NoBatch /\ s = "replayer" => ~(b > spider.batch)
    <3>1. s = "replayer" => fate[b] = "spooled"
      BY <1>1 DEF FatesInOrder
    <3> QED
      BY <1>1, <3>1, BatchNumbers DEF FatesInOrder, TypeOK, Sender
  <2>2. spider.batch # NoBatch => ~(b > spider.batch)
    BY <1>6, <2>1, BatchNumbers
  <2> QED
    BY <1>1, <1>2, <1>3, <1>5, <1>6, <2>2 DEF NoneAhead
<1>12. WrittenRows' /\ RefusedLeavesNothing' /\ AcknowledgedIsStored' /\ NothingLost'
  BY <1>1, <1>2 DEF WrittenRows, RefusedLeavesNothing, AcknowledgedIsStored, NothingLost, Stored
<1> QED
  BY <1>7, <1>8, <1>9, <1>10, <1>11, <1>12 DEF IngestionInv, StoreInv

LEMMA SubmitKeeps ==
  ASSUME IngestionInv, NEW w \in Slots, Submit(w)
  PROVE  IngestionInv'
<1>1. PICK b : b = spider.batch
  OBVIOUS
<1>2. /\ b \in Batches /\ ~spider.waiting /\ Arrive(w, "spider", b)
      /\ spider' = [spider EXCEPT !.waiting = TRUE]
      /\ UNCHANGED <<store, replayer, fate, spool, strays, faults>>
  BY <1>1 DEF Submit, IngestionInv, TypeOK, Sender
<1>3. \A v \in Slots : requests[v].to # "spider"
  BY <1>2 DEF IngestionInv, RequestsSound, RequestSound
<1> QED
  BY <1>1, <1>2, <1>3, ArriveKeeps DEF Senders

LEMMA ReplayKeeps ==
  ASSUME IngestionInv, NEW w \in Slots, NEW b \in Batches, Replay(w, b)
  PROVE  IngestionInv'
<1>1. \A v \in Slots : requests[v].to # "replayer"
  <2> SUFFICES ASSUME NEW v \in Slots, requests[v].to = "replayer" PROVE FALSE
    OBVIOUS
  <2>1. RequestSound(requests[v])
    BY DEF IngestionInv, RequestsSound
  <2>2. requests[v].batch = NoBatch
    BY <2>1 DEF RequestSound, Replay
  <2>3. requests[v].pc # "free"
    BY <2>1 DEF RequestSound, Nobody
  <2> QED
    BY <2>1, <2>2, <2>3, BatchNumbers DEF RequestSound
<1> QED
  BY <1>1, ArriveKeeps DEF Replay, Senders

(* Cut, Timeout and Answer release the request w of its sender.            *)
LEMMA HeardKeeps ==
  ASSUME IngestionInv, NEW w \in Slots, requests[w].to # Nobody, Released(w),
         NEW code \in Codes,
         \/ Hears(requests[w].to, code)
         \/ requests[w].to = "spider" /\ Settle("dropped") /\ UNCHANGED replayer,
         Success(code) => Stored(requests[w].batch) /\ requests[w].batch \in linked,
         UNCHANGED <<rows, stored, linked, keys, reported>>,
         nonces' \subseteq Slots, strays \subseteq strays', strays' \subseteq Batches, faults' \in Nat
  PROVE  IngestionInv'
<1>1. PICK s \in Senders : s = requests[w].to
  BY DEF IngestionInv, TypeOK, Request
<1>2. /\ s = "spider" => spider.batch = requests[w].batch
      /\ s = "replayer" => replayer.batch = requests[w].batch
      /\ requests[w].batch \in Batches
  BY <1>1 DEF IngestionInv, RequestsSound, RequestSound
<1>3. ClientEffect(s)
  <2>1. CASE Hears(s, code)
    BY <1>2, <2>1, HearsEffect
  <2>2. CASE s = "spider" /\ Settle("dropped") /\ UNCHANGED replayer
    BY <1>2, <2>2, SettleEffect DEF Fates
  <2> QED
    BY <1>1, <2>1, <2>2
<1> QED
  BY <1>1, <1>3, ReleaseKeeps

LEMMA CutKeeps ==
  ASSUME IngestionInv, NEW w \in Slots, Cut(w) \/ Timeout(w)
  PROVE  IngestionInv'
<1>1. /\ requests[w].to # Nobody /\ faults' = faults + 1
      /\ requests' = [requests EXCEPT ![w].to = Nobody]
      /\ strays' = strays \cup {requests[w].batch}
      /\ UNCHANGED <<rows, stored, linked, keys, nonces, reported>>
      /\ \/ Hears(requests[w].to, "failed")
         \/ requests[w].to = "spider" /\ Settle("dropped") /\ UNCHANGED replayer
  BY DEF Cut, Timeout, Fault, store, Hears, Senders, IngestionInv, TypeOK, Request
<1>2. requests \in [Slots -> Request] /\ RequestSound(requests[w]) /\ faults \in Nat /\ nonces \subseteq Slots
      /\ strays \subseteq Batches
  BY DEF IngestionInv, TypeOK, RequestsSound
<1>3. requests' = [requests EXCEPT ![w] = [requests[w] EXCEPT !.to = Nobody]]
  BY <1>1
<1>4. Released(w)
  BY <1>1, <1>3 DEF Released
<1>5. requests[w].batch \in Batches
  BY <1>1, <1>2 DEF RequestSound
<1> QED
  BY <1>1, <1>2, <1>4, <1>5, HeardKeeps DEF Codes, Success

LEMMA AnswerKeeps ==
  ASSUME IngestionInv, NEW w \in Slots, Answer(w)
  PROVE  IngestionInv'
<1>1. /\ requests[w].pc = "answer"
      /\ requests' = [requests EXCEPT ![w] = Free]
      /\ nonces' \subseteq nonces
      /\ IF requests[w].to = Nobody THEN UNCHANGED <<spider, replayer, fate, spool>>
                                    ELSE Hears(requests[w].to, requests[w].code)
      /\ UNCHANGED <<rows, stored, linked, keys, reported, strays, faults>>
  BY DEF Answer, At, client
<1>2. /\ TypeOK /\ RequestsSound /\ OneRequestEach /\ FatesInOrder /\ NoneAhead
      /\ WrittenRows /\ AcknowledgedIsStored /\ NothingLost /\ RefusedLeavesNothing
  BY DEF IngestionInv, StoreInv
<1>3. /\ requests \in [Slots -> Request] /\ RequestSound(requests[w])
      /\ nonces' \subseteq Slots /\ strays' \subseteq Batches /\ faults' \in Nat
  BY <1>1, <1>2 DEF TypeOK, RequestsSound
<1>4. CASE requests[w].to # Nobody
  <2>1. Released(w)
    BY <1>1 DEF Released
  <2>2. Success(requests[w].code) => Stored(requests[w].batch) /\ requests[w].batch \in linked
    BY <1>1, <1>3 DEF RequestSound
  <2>3. PICK code \in Codes : code = requests[w].code
    BY <1>3 DEF Request
  <2> QED
    BY <1>1, <1>3, <1>4, <2>1, <2>2, <2>3, HeardKeeps
<1>5. CASE requests[w].to = Nobody
  <2>1. Free \in Request /\ Free.pc = "free" /\ Free.batch = NoBatch /\ Free.to = Nobody
    BY DEF Free, Taken, Request, Points, Codes
  <2>2. \A v \in Slots : requests'[v] = IF v = w THEN Free ELSE requests[v]
    BY <1>1, <1>3
  <2>3. UNCHANGED <<spider, replayer, fate, spool>>
    BY <1>1, <1>5
  <2>4. TypeOK'
    BY <1>1, <1>2, <1>3, <2>1, <2>3 DEF TypeOK
  <2>5. RequestsSound'
    <3> SUFFICES ASSUME NEW v \in Slots PROVE RequestSound(requests[v])'
      BY DEF RequestsSound
    <3>1. CASE v = w
      BY <2>1, <2>2, <3>1 DEF RequestSound, Nobody
    <3>2. CASE v # w
      BY <1>1, <1>2, <2>2, <2>3, <3>2 DEF RequestSound, RequestsSound, Stored
    <3> QED
      BY <3>1, <3>2
  <2>6. OneRequestEach'
    BY <1>2, <2>1, <2>2 DEF OneRequestEach
  <2>7. NoneAhead' /\ FatesInOrder'
    BY <1>1, <1>2, <2>1, <2>2, <2>3, BatchNumbers DEF NoneAhead, FatesInOrder, Stopped
  <2>8. WrittenRows' /\ RefusedLeavesNothing' /\ AcknowledgedIsStored' /\ NothingLost'
    BY <1>1, <1>2, <2>3 DEF WrittenRows, RefusedLeavesNothing, AcknowledgedIsStored, NothingLost, Stored
  <2> QED
    BY <2>4, <2>5, <2>6, <2>7, <2>8 DEF IngestionInv, StoreInv
<1> QED
  BY <1>4, <1>5

-----------------------------------------------------------------------------
(* The Worker.                                                             *)

(* A request goes on at the Worker, its batch and its sender as before.    *)
Carries(w, r) ==
  /\ requests[w].pc # "free" /\ r.pc # "free"
  /\ r.batch = requests[w].batch /\ r.to = requests[w].to
  /\ requests' = [requests EXCEPT ![w] = r]
  /\ UNCHANGED <<spider, replayer, fate, spool, strays>>

(* A step of the Worker may add to the databases, for its batch only.      *)
LEMMA HandleKeeps ==
  ASSUME IngestionInv, NEW w \in Slots, NEW r \in Request, Carries(w, r), RequestSound(r)',
         rows' \in [Rows -> Writers], stored' \in [Batches -> Nat], linked' \subseteq Batches,
         keys' \subseteq Batches, nonces' \subseteq Slots, reported' \in Reports, faults' \in Nat,
         \A b \in Batches : stored[b] <= stored'[b] /\ (Stored(b) => Stored(b)'),
         linked \subseteq linked',
         \A b \in Batches : b # requests[w].batch => stored'[b] = stored[b],
         reported' = reported \/ requests[w].batch = Last
           \/ reported' \notin {"completed", "completed_with_errors"},
         WrittenRows', AcknowledgedIsStored', RefusedLeavesNothing'
  PROVE  IngestionInv'
<1>1. /\ TypeOK /\ RequestsSound /\ OneRequestEach /\ FatesInOrder /\ NoneAhead /\ NothingLost
  BY DEF IngestionInv, StoreInv
<1>2. /\ requests[w].pc # "free" /\ r.pc # "free"
      /\ r.batch = requests[w].batch /\ r.to = requests[w].to
      /\ requests' = [requests EXCEPT ![w] = r]
      /\ UNCHANGED <<spider, replayer, fate, spool, strays>>
  BY DEF Carries
<1>3. \A v \in Slots : requests'[v] = IF v = w THEN r ELSE requests[v]
  BY <1>1, <1>2 DEF TypeOK
<1>4. TypeOK'
  BY <1>1, <1>2 DEF TypeOK
<1>5. RequestsSound'
  <2> SUFFICES ASSUME NEW v \in Slots PROVE RequestSound(requests[v])'
    BY DEF RequestsSound
  <2>1. CASE v = w
    BY <1>3, <2>1
  <2>2. CASE v # w
    <3>1. RequestSound(requests[v]) /\ requests[v] \in Request /\ requests'[v] = requests[v]
      BY <1>1, <1>3, <2>2 DEF RequestsSound, TypeOK
    <3>2. requests[v].pc # "free" => stored[requests[v].batch] <= stored'[requests[v].batch]
            /\ stored[requests[v].batch] \in Nat /\ stored'[requests[v].batch] \in Nat
      BY <1>1, <3>1 DEF RequestSound, TypeOK
    <3>3. requests[v].pc = "write" => requests[v].at <= stored'[requests[v].batch] + 1
      BY <3>1, <3>2 DEF RequestSound, Request
    <3> QED
      BY <1>2, <3>1, <3>3 DEF RequestSound
  <2> QED
    BY <2>1, <2>2
<1>6. OneRequestEach'
  BY <1>1, <1>2, <1>3 DEF OneRequestEach
<1>7. FatesInOrder' /\ NothingLost'
  BY <1>1, <1>2 DEF FatesInOrder, Stopped, NothingLost
<1>8. NoneAhead'
  <2>1. requests[w].batch \in Batches
    BY <1>1, <1>2 DEF RequestsSound, RequestSound
  <2>2. spider.batch # NoBatch => ~(requests[w].batch > spider.batch)
    BY <1>1, <2>1 DEF NoneAhead
  <2>3. requests[w].batch = Last => spider.batch \in {NoBatch, Last}
    BY <1>1, <2>2, BatchNumbers DEF TypeOK, Sender
  <2>4. spider.batch # NoBatch => \A b \in Batches : b > spider.batch =>
          stored'[b] = 0 /\ \A v \in Slots : requests'[v].batch # b
    BY <1>1, <1>2, <1>3, <2>2 DEF NoneAhead
  <2> QED
    BY <1>1, <1>2, <2>3, <2>4 DEF NoneAhead
<1> QED
  BY <1>4, <1>5, <1>6, <1>7, <1>8 DEF IngestionInv, StoreInv

(* A step that writes nothing but a nonce.                                 *)
LEMMA ReadKeeps ==
  ASSUME IngestionInv, NEW w \in Slots, NEW r \in Request, Carries(w, r), RequestSound(r),
         UNCHANGED <<rows, stored, linked, keys, reported>>, nonces' \subseteq Slots, faults' \in Nat
  PROVE  IngestionInv'
<1>1. /\ TypeOK /\ WrittenRows /\ AcknowledgedIsStored /\ RefusedLeavesNothing
  BY DEF IngestionInv, StoreInv
<1>2. RequestSound(r)'
  BY DEF RequestSound, Stored, Carries
<1>3. WrittenRows' /\ AcknowledgedIsStored' /\ RefusedLeavesNothing'
  BY <1>1 DEF WrittenRows, AcknowledgedIsStored, RefusedLeavesNothing, Stored, Carries
<1>4. /\ rows' \in [Rows -> Writers] /\ stored' \in [Batches -> Nat] /\ linked' \subseteq Batches
      /\ keys' \subseteq Batches /\ reported' \in Reports
  BY <1>1 DEF TypeOK
<1>5. \A b \in Batches : stored[b] <= stored'[b] /\ (Stored(b) => Stored(b)')
  BY <1>1 DEF TypeOK, Stored
<1> QED
  BY <1>2, <1>3, <1>4, <1>5, HandleKeeps

(* What Go and Reply make of a request.                                    *)
LEMMA GoReply ==
  ASSUME IngestionInv, NEW w \in Slots, requests[w].pc # "free",
         UNCHANGED <<spider, replayer, fate, spool, strays>>
  PROVE  /\ \A p \in Points \ {"free"} : Go(w, p) =>
              \E r \in Request : /\ Carries(w, r)
                                 /\ r.pc = p /\ r.at = requests[w].at /\ r.nonce = requests[w].nonce
         /\ \A code \in Codes : Reply(w, code) =>
              \E r \in Request : Carries(w, r) /\ r.pc = "answer" /\ r.code = code
<1>1. requests \in [Slots -> Request] /\ requests[w] \in Request
  BY DEF IngestionInv, TypeOK
<1>2. ASSUME NEW p \in Points \ {"free"}, Go(w, p)
      PROVE  \E r \in Request : /\ Carries(w, r)
                                /\ r.pc = p /\ r.at = requests[w].at /\ r.nonce = requests[w].nonce
  <2>1. PICK r : r = [requests[w] EXCEPT !.pc = p]
    OBVIOUS
  <2>2. /\ r \in Request /\ r.pc = p /\ r.at = requests[w].at /\ r.nonce = requests[w].nonce
        /\ r.batch = requests[w].batch /\ r.to = requests[w].to
    BY <1>1, <2>1 DEF Request
  <2>3. requests' = [requests EXCEPT ![w] = r]
    BY <1>2, <2>1 DEF Go
  <2> QED
    BY <1>2, <2>2, <2>3 DEF Carries
<1>3. ASSUME NEW code \in Codes, Reply(w, code)
      PROVE  \E r \in Request : Carries(w, r) /\ r.pc = "answer" /\ r.code = code
  <2>1. PICK r : r = Taken("answer", requests[w].batch, requests[w].nonce, code, requests[w].to)
    OBVIOUS
  <2>2. /\ r \in Request /\ r.pc = "answer" /\ r.code = code
        /\ r.batch = requests[w].batch /\ r.to = requests[w].to
    BY <1>1, <2>1 DEF Request, Points, Taken
  <2>3. requests' = [requests EXCEPT ![w] = r]
    BY <1>3, <2>1 DEF Reply
  <2> QED
    BY <2>2, <2>3 DEF Carries
<1> QED
  BY <1>2, <1>3

(* A failed answer says nothing.                                           *)
LEMMA ReplyKeeps ==
  ASSUME IngestionInv, NEW w \in Slots, requests[w].pc # "free", NEW code \in Codes,
         Reply(w, code), Elsewhere,
         Success(code) => Stored(requests[w].batch) /\ requests[w].batch \in linked,
         UNCHANGED <<rows, stored, linked, keys, reported>>, nonces' \subseteq Slots, faults' \in Nat
  PROVE  IngestionInv'
<1>1. UNCHANGED <<spider, replayer, fate, spool, strays>>
  BY DEF Elsewhere, client
<1>2. PICK r \in Request : Carries(w, r) /\ r.pc = "answer" /\ r.code = code
  BY <1>1, GoReply
<1>3. RequestSound(requests[w])
  BY DEF IngestionInv, RequestsSound
<1>4. RequestSound(r)
  BY <1>2, <1>3 DEF RequestSound, Carries
<1> QED
  BY <1>2, <1>4, ReadKeeps

LEMMA LookUpNonceKeeps ==
  ASSUME IngestionInv, NEW w \in Slots, LookUpNonce(w)
  PROVE  IngestionInv'
<1>1. /\ requests[w].pc = "lookup" /\ Elsewhere
      /\ UNCHANGED <<rows, stored, linked, keys, nonces, reported, faults>>
  BY DEF LookUpNonce, At, store
<1>2. nonces' \subseteq Slots /\ faults' \in Nat /\ RequestSound(requests[w])
  BY <1>1 DEF IngestionInv, TypeOK, RequestsSound
<1>3. CASE Reply(w, "nonce")
  BY <1>1, <1>2, <1>3, ReplyKeeps DEF Codes, Success
<1>4. CASE Go(w, "insert")
  <2>1. UNCHANGED <<spider, replayer, fate, spool, strays>>
    BY <1>1 DEF Elsewhere, client
  <2>2. PICK r \in Request : Carries(w, r) /\ r.pc = "insert" /\ r.nonce = requests[w].nonce /\ r.at = requests[w].at
    BY <1>1, <1>4, <2>1, GoReply DEF Points
  <2>3. RequestSound(r)
    BY <1>1, <1>2, <2>2 DEF RequestSound, Carries
  <2> QED
    BY <1>1, <1>2, <2>2, <2>3, ReadKeeps
<1> QED
  BY <1>3, <1>4 DEF LookUpNonce

LEMMA RecordNonceKeeps ==
  ASSUME IngestionInv, NEW w \in Slots, RecordNonce(w)
  PROVE  IngestionInv'
<1>1. /\ requests[w].pc = "insert" /\ Elsewhere
      /\ nonces' = nonces \cup {requests[w].nonce}
      /\ UNCHANGED <<rows, stored, linked, keys, reported, faults>>
  BY DEF RecordNonce, At
<1>2. nonces \subseteq Slots /\ faults' \in Nat /\ RequestSound(requests[w]) /\ requests[w] \in Request
  BY <1>1 DEF IngestionInv, TypeOK, RequestsSound
<1>3. nonces' \subseteq Slots
  BY <1>1, <1>2 DEF RequestSound
<1>4. CASE Reply(w, "schema")
  BY <1>1, <1>2, <1>3, <1>4, ReplyKeeps DEF Codes, Success
<1>5. CASE Verdict[requests[w].batch] # "schema" /\ Go(w, "check")
  <2>1. UNCHANGED <<spider, replayer, fate, spool, strays>>
    BY <1>1 DEF Elsewhere, client
  <2>2. PICK r \in Request : Carries(w, r) /\ r.pc = "check" /\ r.at = requests[w].at
    BY <1>1, <1>5, <2>1, GoReply DEF Points
  <2>3. RequestSound(r)
    BY <1>1, <1>2, <1>5, <2>2 DEF RequestSound, Carries
  <2> QED
    BY <1>1, <1>2, <1>3, <2>2, <2>3, ReadKeeps
<1> QED
  BY <1>4, <1>5 DEF RecordNonce, Malformed

LEMMA CheckKeeps ==
  ASSUME IngestionInv, NEW w \in Slots, Check(w)
  PROVE  IngestionInv'
<1>1. /\ requests[w].pc = "check" /\ Elsewhere
      /\ UNCHANGED <<rows, stored, linked, keys, nonces, reported, faults>>
  BY DEF Check, At, store
<1>2. /\ nonces' \subseteq Slots /\ faults' \in Nat
      /\ RequestSound(requests[w]) /\ AcknowledgedIsStored
  BY <1>1 DEF IngestionInv, StoreInv, TypeOK, RequestsSound
<1>3. requests[w].batch \in Batches
  BY <1>1, <1>2 DEF RequestSound
<1>4. \/ Verdict[requests[w].batch] = "policy" /\ Reply(w, "policy")
      \/ Verdict[requests[w].batch] # "policy" /\ requests[w].batch \in keys /\ Reply(w, "duplicate")
      \/ Verdict[requests[w].batch] # "policy" /\ Go(w, "write")
  BY DEF Check, OutsidePolicy
<1>5. CASE Reply(w, "policy")
  BY <1>1, <1>2, <1>5, ReplyKeeps DEF Codes, Success
<1>6. CASE requests[w].batch \in keys /\ Reply(w, "duplicate")
  BY <1>1, <1>2, <1>3, <1>6, ReplyKeeps DEF Codes, Success, AcknowledgedIsStored
<1>7. CASE Verdict[requests[w].batch] # "policy" /\ Go(w, "write")
  <2>1. UNCHANGED <<spider, replayer, fate, spool, strays>>
    BY <1>1 DEF Elsewhere, client
  <2>2. PICK r \in Request : Carries(w, r) /\ r.pc = "write" /\ r.at = requests[w].at
    BY <1>1, <1>7, <2>1, GoReply DEF Points
  <2>3. Verdict[requests[w].batch] = "ok"
    BY <1>1, <1>2, <1>3, <1>7, ConstantsAssumption DEF RequestSound, Verdicts
  <2>4. r.at = 1 /\ Len(Plan[r.batch]) \in Nat /\ Len(Plan[r.batch]) > 0 /\ stored[r.batch] \in Nat
    BY <1>1, <1>2, <1>3, <2>2, PlanLengths DEF RequestSound, Carries, IngestionInv, TypeOK
  <2>5. RequestSound(r)
    BY <1>1, <1>2, <2>2, <2>3, <2>4 DEF RequestSound, Carries
  <2> QED
    BY <1>1, <1>2, <2>2, <2>5, ReadKeeps
<1> QED
  BY <1>4, <1>5, <1>6, <1>7

LEMMA RefusedKeeps ==
  ASSUME IngestionInv, NEW w \in Slots, WriteRefused(w) \/ Fail(w)
  PROVE  IngestionInv'
<1>1. /\ requests[w].pc # "free" /\ Elsewhere /\ Reply(w, "failed")
      /\ faults' = faults \/ faults' = faults + 1
      /\ UNCHANGED <<rows, stored, linked, keys, nonces, reported>>
  BY DEF WriteRefused, Fail, Fault, At, store
<1>2. nonces' \subseteq Slots /\ faults' \in Nat
  BY <1>1 DEF IngestionInv, TypeOK
<1> QED
  BY <1>1, <1>2, ReplyKeeps DEF Codes, Success

LEMMA LinkKeeps ==
  ASSUME IngestionInv, NEW w \in Slots, Link(w)
  PROVE  IngestionInv'
<1>1. /\ requests[w].pc = "link" /\ Elsewhere /\ Go(w, "record")
      /\ linked' = linked \cup {requests[w].batch}
      /\ UNCHANGED <<rows, stored, keys, nonces, reported, faults>>
  BY DEF Link, At
<1>2. /\ TypeOK /\ RequestSound(requests[w]) /\ AcknowledgedIsStored /\ WrittenRows /\ RefusedLeavesNothing
  BY DEF IngestionInv, StoreInv, RequestsSound
<1>3. requests[w].batch \in Batches /\ Stored(requests[w].batch) /\ Verdict[requests[w].batch] = "ok"
  BY <1>1, <1>2 DEF RequestSound
<1>4. UNCHANGED <<spider, replayer, fate, spool, strays>>
  BY <1>1 DEF Elsewhere, client
<1>5. PICK r \in Request : Carries(w, r) /\ r.pc = "record"
  BY <1>1, <1>4, GoReply DEF Points
<1>6. RequestSound(r)'
  BY <1>1, <1>2, <1>3, <1>4, <1>5 DEF RequestSound, Carries, Stored
<1>7. WrittenRows' /\ AcknowledgedIsStored' /\ RefusedLeavesNothing'
  BY <1>1, <1>2, <1>3, <1>4 DEF WrittenRows, AcknowledgedIsStored, RefusedLeavesNothing, Stored
<1>8. /\ rows' \in [Rows -> Writers] /\ stored' \in [Batches -> Nat] /\ linked' \subseteq Batches
      /\ keys' \subseteq Batches /\ reported' \in Reports /\ nonces' \subseteq Slots /\ faults' \in Nat
      /\ \A b \in Batches : stored[b] <= stored'[b] /\ (Stored(b) => Stored(b)')
  BY <1>1, <1>2, <1>3 DEF TypeOK, Stored
<1> QED
  BY <1>1, <1>5, <1>6, <1>7, <1>8, HandleKeeps

LEMMA RecordKeyKeeps ==
  ASSUME IngestionInv, NEW w \in Slots, RecordKey(w)
  PROVE  IngestionInv'
<1>1. /\ requests[w].pc = "record" /\ Elsewhere /\ Reply(w, "accepted")
      /\ keys' = keys \cup {requests[w].batch}
      /\ UNCHANGED <<rows, stored, linked, nonces, reported, faults>>
  BY DEF RecordKey, At
<1>2. /\ TypeOK /\ RequestSound(requests[w]) /\ AcknowledgedIsStored /\ WrittenRows /\ RefusedLeavesNothing
  BY DEF IngestionInv, StoreInv, RequestsSound
<1>3. /\ requests[w].batch \in Batches /\ Stored(requests[w].batch) /\ requests[w].batch \in linked
      /\ Verdict[requests[w].batch] = "ok"
  BY <1>1, <1>2 DEF RequestSound
<1>4. UNCHANGED <<spider, replayer, fate, spool, strays>>
  BY <1>1 DEF Elsewhere, client
<1>5. PICK r \in Request : Carries(w, r) /\ r.pc = "answer"
  BY <1>1, <1>4, GoReply DEF Codes
<1>6. RequestSound(r)'
  BY <1>1, <1>2, <1>3, <1>4, <1>5 DEF RequestSound, Carries, Stored
<1>7. WrittenRows' /\ AcknowledgedIsStored' /\ RefusedLeavesNothing'
  BY <1>1, <1>2, <1>3, <1>4 DEF WrittenRows, AcknowledgedIsStored, RefusedLeavesNothing, Stored
<1>8. /\ rows' \in [Rows -> Writers] /\ stored' \in [Batches -> Nat] /\ linked' \subseteq Batches
      /\ keys' \subseteq Batches /\ reported' \in Reports /\ nonces' \subseteq Slots /\ faults' \in Nat
      /\ \A b \in Batches : stored[b] <= stored'[b] /\ (Stored(b) => Stored(b)')
  BY <1>1, <1>2, <1>3 DEF TypeOK, Stored
<1> QED
  BY <1>1, <1>5, <1>6, <1>7, <1>8, HandleKeeps

LEMMA CopyKeeps ==
  ASSUME IngestionInv, NEW w \in Slots, NEW v \in Slots, Copy(w, v)
  PROVE  IngestionInv'
<1>1. /\ requests[w].pc = "lookup" /\ requests[v].pc = "free" /\ faults' = faults + 1
      /\ requests' = [requests EXCEPT ![v] = [requests[w] EXCEPT !.to = Nobody]]
      /\ strays' = strays \cup {requests[w].batch}
      /\ UNCHANGED <<rows, stored, linked, keys, nonces, reported, spider, replayer, fate, spool>>
  BY DEF Copy, Fault, store, client
<1>2. /\ TypeOK /\ RequestsSound /\ OneRequestEach /\ FatesInOrder /\ NoneAhead
      /\ WrittenRows /\ AcknowledgedIsStored /\ NothingLost /\ RefusedLeavesNothing
  BY DEF IngestionInv, StoreInv
<1>3. PICK r : r = [requests[w] EXCEPT !.to = Nobody]
  OBVIOUS
<1>4. requests[w] \in Request /\ RequestSound(requests[w]) /\ requests[w].batch \in Batches
  BY <1>1, <1>2 DEF TypeOK, RequestsSound, RequestSound
<1>5. /\ r \in Request /\ r.to = Nobody /\ r.pc = "lookup" /\ r.batch = requests[w].batch
      /\ r.nonce = requests[w].nonce /\ r.at = requests[w].at
  BY <1>1, <1>3, <1>4 DEF Request, Nobody
<1>6. \A u \in Slots : requests'[u] = IF u = v THEN r ELSE requests[u]
  BY <1>1, <1>2, <1>3 DEF TypeOK
<1>7. TypeOK'
  BY <1>1, <1>2, <1>3, <1>4, <1>5 DEF TypeOK
<1>8. RequestsSound'
  <2> SUFFICES ASSUME NEW u \in Slots PROVE RequestSound(requests[u])'
    BY DEF RequestsSound
  <2>1. CASE u = v
    BY <1>1, <1>4, <1>5, <1>6, <2>1 DEF RequestSound, Nobody
  <2>2. CASE u # v
    BY <1>1, <1>2, <1>6, <2>2 DEF RequestSound, RequestsSound, Stored
  <2> QED
    BY <2>1, <2>2
<1>9. OneRequestEach'
  BY <1>2, <1>5, <1>6 DEF OneRequestEach
<1>10. NoneAhead' /\ FatesInOrder'
  BY <1>1, <1>2, <1>4, <1>5, <1>6 DEF NoneAhead, FatesInOrder, Stopped
<1>11. WrittenRows' /\ RefusedLeavesNothing' /\ AcknowledgedIsStored' /\ NothingLost'
  BY <1>1, <1>2 DEF WrittenRows, RefusedLeavesNothing, AcknowledgedIsStored, NothingLost, Stored
<1> QED
  BY <1>7, <1>8, <1>9, <1>10, <1>11 DEF IngestionInv, StoreInv

LEMMA StatementRows ==
  \A b \in Batches : \A i \in 1..Len(Plan[b]) :
    Plan[b][i].row \in Rows /\ Plan[b][i].seller \in Rows \cup {NoRow}
<1> SUFFICES ASSUME NEW b \in Batches, NEW i \in 1..Len(Plan[b])
             PROVE  Plan[b][i].row \in Rows /\ Plan[b][i].seller \in Rows \cup {NoRow}
  OBVIOUS
<1>1. Plan[b] \in Seq(Statement)
  BY ConstantsAssumption
<1>2. PICK s \in Statement : s = Plan[b][i]
  BY <1>1
<1>3. s.row \in Rows /\ s.seller \in Rows \cup {NoRow}
  BY <1>2 DEF Statement
<1> QED
  BY <1>2, <1>3

(* What an upsert leaves of a row.                                         *)
LEMMA UpsertedRow ==
  ASSUME NEW table, NEW old \in Writers, NEW b \in Batches,
         old # Absent => old.best \in Batches /\ old.last \in Batches
  PROVE  LET new == Upserted(table, old, b) IN
         /\ new \in Writers /\ new # Absent /\ new.best \in Batches /\ new.last \in Batches
         /\ table \notin InsertOnce =>
              /\ new.last = b
              /\ Confidence[b] <= Confidence[new.best]
              /\ old # Absent => Confidence[old.best] <= Confidence[new.best]
<1>1. PICK new : new = Upserted(table, old, b)
  OBVIOUS
<1>2. Confidence \in [Batches -> Nat]
  BY ConstantsAssumption
<1>3. CASE old = Absent
  <2>1. new = [best |-> b, last |-> b]
    BY <1>1, <1>3 DEF Upserted
  <2>2. new \in Writers /\ new.best = b /\ new.last = b /\ new # Absent
    BY <2>1, BatchNumbers DEF Writers, Absent
  <2> QED
    BY <1>1, <1>2, <1>3, <2>2
<1>4. CASE old # Absent /\ table \in InsertOnce
  <2>1. new = old
    BY <1>1, <1>4 DEF Upserted
  <2> QED
    BY <1>1, <1>4, <2>1
<1>5. CASE old # Absent /\ table \notin InsertOnce
  <2>1. PICK best : best = IF Confidence[b] >= Confidence[old.best] THEN b ELSE old.best
    OBVIOUS
  <2>2. new = [best |-> best, last |-> b]
    BY <1>1, <1>5, <2>1 DEF Upserted
  <2>3. best \in Batches /\ Confidence[b] <= Confidence[best]
        /\ Confidence[old.best] <= Confidence[best]
    BY <1>2, <1>5, <2>1
  <2>4. new \in Writers /\ new.best = best /\ new.last = b /\ new # Absent
    BY <2>2, <2>3, BatchNumbers DEF Writers, Absent
  <2> QED
    BY <1>1, <2>3, <2>4
<1> QED
  BY <1>3, <1>4, <1>5

(* Batch b writes its i-th statement.                                      *)
Writes(w, b, i) ==
  LET k == Plan[b][i].row IN
  /\ requests[w].pc = "write" /\ requests[w].batch = b /\ requests[w].at = i
  /\ Verdict[b] = "ok" /\ SellerKnown(Plan[b][i])
  /\ i <= stored[b] + 1
  /\ stored' \in [Batches -> Nat]
  /\ \A c \in Batches : stored'[c] = IF c = b /\ i > stored[b] THEN i ELSE stored[c]
  /\ rows' \in [Rows -> Writers]
  /\ \A j \in Rows : rows'[j] = IF j = k THEN Upserted(Plan[b][i].table, rows[k], b) ELSE rows[j]
  /\ \A j \in Rows : rows'[j] # Absent =>
       (j = k \/ rows[j] # Absent) /\ rows'[j].best \in Batches /\ rows'[j].last \in Batches
  /\ rows'[k] # Absent /\ \A j \in Rows : rows[j] # Absent => rows'[j] # Absent
  /\ reported' = reported \/ (Plan[b][i].table = "crawl_runs" /\ reported' = RunStatus(b))
  /\ UNCHANGED <<linked, keys, nonces, faults, spider, replayer, fate, spool, strays>>

LEMMA WriteEffect ==
  ASSUME IngestionInv, NEW w \in Slots, Write(w)
  PROVE  \E b \in Batches : \E i \in 1..Len(Plan[b]) : Writes(w, b, i)
<1>1. /\ TypeOK /\ RequestSound(requests[w]) /\ WrittenRows
  BY DEF IngestionInv, StoreInv, RequestsSound
<1>2. PICK b, i : b = requests[w].batch /\ i = requests[w].at
  OBVIOUS
<1>3. /\ requests[w].pc = "write" /\ b \in Batches /\ Verdict[b] = "ok"
      /\ i \in 1..Len(Plan[b]) /\ i <= stored[b] + 1
  BY <1>1, <1>2 DEF Write, At, RequestSound
<1>4. PICK s : s = Plan[b][i]
  OBVIOUS
<1>5. s.row \in Rows
  BY <1>3, <1>4, StatementRows
<1>6. /\ SellerKnown(s)
      /\ rows' = [rows EXCEPT ![s.row] = Upserted(s.table, rows[s.row], b)]
      /\ stored' = [stored EXCEPT ![b] = IF i > stored[b] THEN i ELSE stored[b]]
      /\ reported' = IF s.table = "crawl_runs" THEN RunStatus(b) ELSE reported
      /\ UNCHANGED <<linked, keys, nonces, faults, spider, replayer, fate, spool, strays>>
  BY <1>2, <1>4 DEF Write, Current, Elsewhere, client
<1>7. PICK new : new = Upserted(s.table, rows[s.row], b)
  OBVIOUS
<1>8. new \in Writers /\ new # Absent /\ new.best \in Batches /\ new.last \in Batches
  <2>1. rows[s.row] \in Writers
        /\ (rows[s.row] # Absent => rows[s.row].best \in Batches /\ rows[s.row].last \in Batches)
    BY <1>1, <1>5 DEF TypeOK, WrittenRows
  <2> QED
    BY <1>3, <1>7, <2>1, UpsertedRow
<1>9. /\ rows' \in [Rows -> Writers]
      /\ \A j \in Rows : rows'[j] = IF j = s.row THEN new ELSE rows[j]
  BY <1>1, <1>5, <1>6, <1>7, <1>8 DEF TypeOK
<1>10. /\ stored' \in [Batches -> Nat]
       /\ \A c \in Batches : stored'[c] = IF c = b /\ i > stored[b] THEN i ELSE stored[c]
  <2>1. i \in Nat /\ stored \in [Batches -> Nat]
    BY <1>1, <1>3, PlanLengths DEF TypeOK
  <2> QED
    BY <1>3, <1>6, <2>1
<1>11. \A j \in Rows : rows'[j] # Absent =>
         (j = s.row \/ rows[j] # Absent) /\ rows'[j].best \in Batches /\ rows'[j].last \in Batches
  BY <1>1, <1>8, <1>9 DEF WrittenRows
<1>12. rows'[s.row] # Absent /\ \A j \in Rows : rows[j] # Absent => rows'[j] # Absent
  BY <1>5, <1>8, <1>9
<1>13. reported' = reported \/ (s.table = "crawl_runs" /\ reported' = RunStatus(b))
  BY <1>6
<1>14. Writes(w, b, i)
  BY <1>2, <1>3, <1>4, <1>6, <1>7, <1>9, <1>10, <1>11, <1>12, <1>13 DEF Writes
<1> QED
  BY <1>3, <1>14

(* The statuses a batch can give to its run.                               *)
LEMMA RunStatuses ==
  \A b \in Batches :
    /\ RunStatus(b) \in Reports
    /\ b # Last => RunStatus(b) \notin {"completed", "completed_with_errors"}
BY DEF RunStatus, Completion, Halting, Reports

LEMMA WriteKeeps ==
  ASSUME IngestionInv, NEW w \in Slots, Write(w)
  PROVE  IngestionInv'
<1>1. /\ TypeOK /\ RequestSound(requests[w]) /\ WrittenRows /\ AcknowledgedIsStored
      /\ RefusedLeavesNothing /\ requests[w] \in Request
  BY DEF IngestionInv, StoreInv, RequestsSound, TypeOK
<1>a. PICK b \in Batches : \E i \in 1..Len(Plan[b]) : Writes(w, b, i)
  BY WriteEffect
<1>2. PICK i \in 1..Len(Plan[b]) : Writes(w, b, i)
  BY <1>a
<1>3. /\ requests[w].pc = "write" /\ requests[w].batch = b /\ requests[w].at = i /\ Verdict[b] = "ok"
      /\ i <= stored[b] + 1
      /\ stored' \in [Batches -> Nat] /\ rows' \in [Rows -> Writers]
      /\ UNCHANGED <<linked, keys, nonces, faults, spider, replayer, fate, spool, strays>>
  BY <1>2 DEF Writes
<1>4. \A c \in Batches : stored'[c] = IF c = b /\ i > stored[b] THEN i ELSE stored[c]
  BY <1>2 DEF Writes
<1>5. i \in Nat /\ Len(Plan[b]) \in Nat /\ i >= 1 /\ i <= Len(Plan[b]) /\ stored[b] \in Nat /\ stored'[b] \in Nat
      /\ stored[b] <= Len(Plan[b])
  BY <1>1, <1>3, PlanLengths DEF TypeOK, WrittenRows
<1>6. /\ i <= stored'[b] /\ stored[b] <= stored'[b] /\ stored'[b] <= Len(Plan[b])
      /\ \A j \in 1..stored'[b] : j \in 1..stored[b] \/ j = i
  BY <1>3, <1>4, <1>5
<1>7. PICK r : r = After(requests[w])
  OBVIOUS
<1>8. /\ r \in Request /\ r.batch = b /\ r.to = requests[w].to
      /\ \/ r.pc = "write" /\ i < Len(Plan[b]) /\ r.at = i + 1
         \/ r.pc = "link" /\ i = Len(Plan[b])
  <2>1. CASE i < Len(Plan[b])
    <3>1. r = [requests[w] EXCEPT !.at = i + 1]
      BY <1>3, <1>7, <2>1 DEF After
    <3> QED
      BY <1>1, <1>3, <1>5, <2>1, <3>1 DEF Request
  <2>2. CASE ~(i < Len(Plan[b]))
    <3>1. r = [requests[w] EXCEPT !.pc = "link"]
      BY <1>3, <1>7, <2>2 DEF After
    <3> QED
      BY <1>1, <1>3, <1>5, <2>2, <3>1 DEF Request, Points
  <2> QED
    BY <2>1, <2>2
<1>9. Carries(w, r)
  <2>1. requests' = [requests EXCEPT ![w] = r]
    BY <1>7 DEF Write
  <2> QED
    BY <1>3, <1>8, <2>1 DEF Carries
<1>10. RequestSound(r)'
  <2>1. r.to # Nobody \/ b \in strays'
    BY <1>1, <1>3, <1>8 DEF RequestSound
  <2>2. /\ r.to = "spider" => r.batch = spider'.batch /\ spider'.waiting
        /\ r.to = "replayer" => r.batch = replayer'.batch
    BY <1>1, <1>3, <1>8 DEF RequestSound
  <2>3. r.pc = "write" => r.at \in 1..Len(Plan[b]) /\ r.at <= stored'[b] + 1
    BY <1>5, <1>6, <1>8
  <2>4. r.pc = "link" => stored'[b] = Len(Plan[b])
    BY <1>5, <1>6, <1>8
  <2> QED
    BY <1>3, <1>8, <2>1, <2>2, <2>3, <2>4 DEF RequestSound, Stored
<1>11. \A c \in Batches : stored[c] <= stored'[c] /\ (Stored(c) => Stored(c)')
  <2> SUFFICES ASSUME NEW c \in Batches
               PROVE  stored[c] <= stored'[c] /\ (Stored(c) => Stored(c)')
    OBVIOUS
  <2>1. CASE c = b
    BY <1>5, <1>6, <2>1 DEF Stored
  <2>2. CASE c # b
    BY <1>1, <1>4, <2>2 DEF TypeOK, Stored
  <2> QED
    BY <2>1, <2>2
<1>12. WrittenRows'
  <2>1. \A c \in Batches : stored'[c] <= Len(Plan[c])
    BY <1>1, <1>4, <1>6 DEF WrittenRows
  <2>2. ASSUME NEW c \in Batches, NEW j \in 1..stored'[c]
        PROVE  rows'[Plan[c][j].row] # Absent
    <3>1. (j \in 1..stored[c]) \/ (c = b /\ j = i)
      BY <1>4, <1>6, <2>2
    <3>2. Plan[c][j].row \in Rows
      <4>1. j \in 1..Len(Plan[c])
        BY <1>3, <2>1, <2>2, PlanLengths
      <4> QED
        BY <4>1, StatementRows
    <3> QED
      BY <1>1, <1>2, <3>1, <3>2 DEF Writes, WrittenRows
  <2>3. \A k \in Rows : rows'[k] # Absent => rows'[k].best \in Batches /\ rows'[k].last \in Batches
    BY <1>2 DEF Writes
  <2> QED
    BY <2>1, <2>2, <2>3 DEF WrittenRows
<1>13. AcknowledgedIsStored'
  BY <1>1, <1>3, <1>11 DEF AcknowledgedIsStored
<1>14. RefusedLeavesNothing'
  BY <1>1, <1>3, <1>4 DEF RefusedLeavesNothing
<1>15. /\ reported' \in Reports
       /\ reported' = reported \/ b = Last \/ reported' \notin {"completed", "completed_with_errors"}
  BY <1>1, <1>2, RunStatuses DEF Writes, TypeOK
<1>16. linked' \subseteq Batches /\ keys' \subseteq Batches /\ nonces' \subseteq Slots /\ faults' \in Nat
  BY <1>1, <1>3 DEF TypeOK
<1> QED
  BY <1>3, <1>4, <1>8, <1>9, <1>10, <1>11, <1>12, <1>13, <1>14, <1>15, <1>16, HandleKeeps

-----------------------------------------------------------------------------
(* The invariant holds.                                                    *)

LEMMA InitInv == Init => IngestionInv
<1> SUFFICES ASSUME Init PROVE IngestionInv
  OBVIOUS
<1>1. Free \in Request /\ Free.pc = "free" /\ Free.batch = NoBatch /\ Free.to = Nobody
  BY DEF Free, Taken, Request, Points, Codes
<1>2. /\ Resting \in Sender /\ Resting.batch = NoBatch
      /\ spider = [batch |-> 1, attempt |-> 1, waiting |-> FALSE] /\ replayer = Resting
  BY DEF Init, Resting, Sender
<1>3. 1 \in Batches
  BY ConstantsAssumption DEF Batches
<1>4. spider \in Sender /\ spider.batch = 1
  BY <1>2, <1>3 DEF Sender
<1>5. Absent \in Writers
  BY DEF Absent, Writers
<1>6. \A w \in Slots : requests[w] = Free
  BY DEF Init
<1>7. TypeOK
  BY <1>1, <1>2, <1>4, <1>5 DEF Init, TypeOK, Reports, Fates
<1>8. RequestsSound /\ OneRequestEach
  BY <1>1, <1>6 DEF RequestsSound, RequestSound, OneRequestEach, Nobody
<1>9. FatesInOrder
  BY <1>2, <1>4, BatchNumbers DEF Init, FatesInOrder, NoBatch
<1>10. NoneAhead
  BY <1>1, <1>4, <1>6, BatchNumbers DEF Init, NoneAhead
<1>11. WrittenRows
  BY PlanLengths DEF Init, WrittenRows
<1>12. AcknowledgedIsStored /\ NothingLost /\ RefusedLeavesNothing
  BY DEF Init, AcknowledgedIsStored, NothingLost, RefusedLeavesNothing
<1> QED
  BY <1>7, <1>8, <1>9, <1>10, <1>11, <1>12 DEF IngestionInv, StoreInv

LEMMA NextInv == IngestionInv /\ [Next]_vars => IngestionInv'
<1> SUFFICES ASSUME IngestionInv, [Next]_vars PROVE IngestionInv'
  OBVIOUS
<1>1. CASE Offline
  BY <1>1, OfflineKeeps
<1>2. ASSUME NEW w \in Slots, Submit(w) \/ Handle(w) \/ Fail(w) \/ Cut(w) \/ Timeout(w)
      PROVE  IngestionInv'
  BY <1>2, SubmitKeeps, LookUpNonceKeeps, RecordNonceKeeps, CheckKeeps, WriteKeeps, RefusedKeeps,
     LinkKeeps, RecordKeyKeeps, AnswerKeeps, CutKeeps DEF Handle
<1>3. ASSUME NEW w \in Slots, NEW b \in Batches, Replay(w, b) PROVE IngestionInv'
  BY <1>3, ReplayKeeps
<1>4. ASSUME NEW w \in Slots, NEW v \in Slots, Copy(w, v) PROVE IngestionInv'
  BY <1>4, CopyKeeps
<1>5. CASE UNCHANGED vars
  <2>1. UNCHANGED <<rows, stored, linked, keys, nonces, reported, spider, replayer, fate, spool,
                    requests, strays, faults>>
    BY <1>5 DEF vars, store, client
  <2>2. UNCHANGED <<TypeOK, RequestsSound, OneRequestEach, FatesInOrder, NoneAhead, WrittenRows,
                    AcknowledgedIsStored, NothingLost, RefusedLeavesNothing>>
    BY <2>1 DEF TypeOK, RequestsSound, RequestSound, Stored, OneRequestEach, FatesInOrder, Stopped,
       NoneAhead, WrittenRows, AcknowledgedIsStored, NothingLost, RefusedLeavesNothing
  <2> QED
    BY <2>2 DEF IngestionInv, StoreInv
<1> QED
  BY <1>1, <1>2, <1>3, <1>4, <1>5 DEF Next

THEOREM IngestionInvHolds == Spec => []IngestionInv
BY InitInv, NextInv, PTL DEF Spec

(* The types of the requests, the senders, the rows and the spool.         *)
THEOREM TypeCorrect == Spec => []TypeOK
BY IngestionInvHolds, PTL DEF IngestionInv

(* What is acknowledged is stored to its last statement and linked.        *)
THEOREM Acknowledged == Spec => []AcknowledgedIsStored
BY IngestionInvHolds, PTL DEF IngestionInv, StoreInv

(* What could not be delivered is on disk until it is stored.              *)
THEOREM Undelivered == Spec => []NothingLost
BY IngestionInvHolds, PTL DEF IngestionInv, StoreInv

(* What the Worker refuses leaves nothing behind.                          *)
THEOREM Refused == Spec => []RefusedLeavesNothing
BY IngestionInvHolds, PTL DEF IngestionInv, StoreInv

-----------------------------------------------------------------------------
(* What a step does to the rows, and to the promise.                       *)

(* No row is written, and only the batch in hand is settled.               *)
Quiet ==
  /\ UNCHANGED <<rows, stored, reported>>
  /\ strays \subseteq strays'
  /\ \A b \in Batches : fate'[b] = fate[b] \/ b = spider.batch

Promises ==
  \/ UNCHANGED <<linked, keys>>
  \/ \E b \in Batches : Promise!Link(b) \/ Promise!Acknowledge(b)

LEMMA SettleQuiet ==
  ASSUME TypeOK, NEW o, Settle(o)
  PROVE  \A b \in Batches : fate'[b] = fate[b] \/ b = spider.batch
BY DEF Settle, TypeOK

LEMMA HearsQuiet ==
  ASSUME TypeOK,
         \/ \E s \in Senders : \E code \in Codes : Hears(s, code)
         \/ AttemptFailed
         \/ Settle("dropped")
  PROVE  \A b \in Batches : fate'[b] = fate[b] \/ b = spider.batch
<1>1. CASE AttemptFailed
  BY <1>1, SettleQuiet DEF AttemptFailed
<1>2. CASE Settle("dropped")
  BY <1>2, SettleQuiet
<1>3. ASSUME NEW s \in Senders, NEW code \in Codes, Hears(s, code)
      PROVE  \A b \in Batches : fate'[b] = fate[b] \/ b = spider.batch
  <2>1. CASE SpiderHears(code)
    BY <1>1, <2>1, SettleQuiet DEF SpiderHears, AttemptFailed
  <2>2. CASE ReplayerHears(code)
    BY <2>2 DEF ReplayerHears
  <2> QED
    BY <1>3, <2>1, <2>2 DEF Hears
<1> QED
  BY <1>1, <1>2, <1>3

LEMMA StepKinds ==
  ASSUME IngestionInv, [Next]_vars
  PROVE  \/ \E w \in Slots : Write(w)
         \/ Quiet /\ Promises
<1>1. TypeOK /\ RequestsSound
  BY DEF IngestionInv
<1>2. CASE Offline
  <2>1. AttemptFailed /\ UNCHANGED <<rows, stored, linked, keys, reported, strays>>
    BY <1>2 DEF Offline, store
  <2> QED
    BY <1>1, <2>1, HearsQuiet DEF Quiet, Promises
<1>3. ASSUME NEW w \in Slots, Submit(w) \/ (\E b \in Batches : Replay(w, b)) \/ (\E v \in Slots : Copy(w, v))
      PROVE  Quiet /\ Promises
  <2>1. UNCHANGED <<rows, stored, linked, keys, reported, fate>> /\ strays \subseteq strays'
    BY <1>3 DEF Submit, Replay, Copy, store, client
  <2> QED
    BY <2>1 DEF Quiet, Promises
<1>4. ASSUME NEW w \in Slots, Cut(w) \/ Timeout(w) PROVE Quiet /\ Promises
  <2>1. UNCHANGED <<rows, stored, linked, keys, reported>> /\ strays \subseteq strays'
    BY <1>4 DEF Cut, Timeout, store
  <2>2. requests[w].to \in Senders
    BY <1>1, <1>4 DEF TypeOK, Request, Cut, Timeout
  <2>3. \/ Hears(requests[w].to, "failed")
        \/ Settle("dropped")
    BY <1>4, <2>2 DEF Cut, Timeout, Hears, Senders
  <2>4. \A b \in Batches : fate'[b] = fate[b] \/ b = spider.batch
    BY <1>1, <2>2, <2>3, HearsQuiet DEF Codes
  <2> QED
    BY <2>1, <2>4 DEF Quiet, Promises
<1>5. ASSUME NEW w \in Slots, Answer(w) PROVE Quiet /\ Promises
  <2>1. UNCHANGED <<rows, stored, linked, keys, reported, strays>>
    BY <1>5 DEF Answer
  <2>2. requests[w].to \in Senders \cup {Nobody} /\ requests[w].code \in Codes
    BY <1>1 DEF TypeOK, Request
  <2>3. \/ Hears(requests[w].to, requests[w].code) /\ requests[w].to # Nobody
       \/ UNCHANGED fate
    BY <1>5 DEF Answer, client
  <2>4. \A b \in Batches : fate'[b] = fate[b] \/ b = spider.batch
    BY <1>1, <2>2, <2>3, HearsQuiet
  <2> QED
    BY <2>1, <2>4 DEF Quiet, Promises
<1>6. ASSUME NEW w \in Slots,
             LookUpNonce(w) \/ RecordNonce(w) \/ Check(w) \/ WriteRefused(w) \/ Fail(w)
      PROVE  Quiet /\ Promises
  <2>1. UNCHANGED <<rows, stored, linked, keys, reported, fate, strays>>
    BY <1>6 DEF LookUpNonce, RecordNonce, Check, WriteRefused, Fail, store, Elsewhere, client
  <2> QED
    BY <2>1 DEF Quiet, Promises
<1>7. ASSUME NEW w \in Slots, Link(w) \/ RecordKey(w) PROVE Quiet /\ Promises
  <2>1. UNCHANGED <<rows, stored, reported, fate, strays>>
    BY <1>7 DEF Link, RecordKey, Elsewhere, client
  <2>2. RequestSound(requests[w])
    BY <1>1 DEF RequestsSound
  <2>3. PICK b : b = requests[w].batch
    OBVIOUS
  <2>4. CASE Link(w)
    <3>1. b \in Batches /\ Stored(b) /\ linked' = linked \cup {b} /\ UNCHANGED keys
      BY <2>2, <2>3, <2>4 DEF Link, At, RequestSound
    <3>2. Promise!Link(b)
      BY <2>1, <3>1 DEF Promise!Link, Stored
    <3> QED
      BY <2>1, <3>1, <3>2 DEF Quiet, Promises
  <2>5. CASE RecordKey(w)
    <3>1. b \in Batches /\ b \in linked /\ keys' = keys \cup {b} /\ UNCHANGED linked
      BY <2>2, <2>3, <2>5 DEF RecordKey, At, RequestSound
    <3>2. Promise!Acknowledge(b)
      BY <2>1, <3>1 DEF Promise!Acknowledge
    <3> QED
      BY <2>1, <3>1, <3>2 DEF Quiet, Promises
  <2> QED
    BY <1>7, <2>4, <2>5
<1>8. CASE UNCHANGED vars
  BY <1>8 DEF vars, store, client, Quiet, Promises
<1> QED
  BY <1>2, <1>3, <1>4, <1>5, <1>6, <1>7, <1>8 DEF Next, Handle

-----------------------------------------------------------------------------
(* The order of the batches.                                               *)

(* The statements that have taken effect after one more.                   *)
LEMMA OneMore ==
  ASSUME IngestionInv, NEW w \in Slots, NEW b \in Batches, NEW i \in 1..Len(Plan[b]), Writes(w, b, i)
  PROVE  /\ \A c \in Batches : \A j \in 1..stored'[c] :
              /\ j \in 1..Len(Plan[c])
              /\ j \in 1..stored[c] \/ (c = b /\ j = i)
         /\ \A c \in Batches : Stored(c) => Stored(c)'
<1>1. /\ TypeOK /\ WrittenRows
  BY DEF IngestionInv, StoreInv
<1>2. /\ i <= stored[b] + 1
      /\ \A c \in Batches : stored'[c] = IF c = b /\ i > stored[b] THEN i ELSE stored[c]
  BY DEF Writes
<1>3. \A c \in Batches : Len(Plan[c]) \in Nat /\ stored[c] \in Nat /\ stored[c] <= Len(Plan[c])
  BY <1>1, PlanLengths DEF TypeOK, WrittenRows
<1>4. i \in Nat /\ i <= Len(Plan[b])
  BY <1>3
<1>5. ASSUME NEW c \in Batches, NEW j \in 1..stored'[c]
      PROVE  j \in 1..Len(Plan[c]) /\ (j \in 1..stored[c] \/ (c = b /\ j = i))
  BY <1>2, <1>3, <1>4
<1>6. ASSUME NEW c \in Batches, Stored(c) PROVE Stored(c)'
  BY <1>2, <1>3, <1>4, <1>6 DEF Stored
<1> QED
  BY <1>5, <1>6

LEMMA ContactsStep ==
  ASSUME IngestionInv, ContactsHaveSellers, [Next]_vars
  PROVE  ContactsHaveSellers'
<1>1. CASE Quiet
  BY <1>1 DEF Quiet, ContactsHaveSellers
<1>2. ASSUME NEW w \in Slots, Write(w) PROVE ContactsHaveSellers'
  <2>a. PICK b \in Batches : \E i \in 1..Len(Plan[b]) : Writes(w, b, i)
    BY <1>2, WriteEffect
  <2>1. PICK i \in 1..Len(Plan[b]) : Writes(w, b, i)
    BY <2>a
  <2>2. ASSUME NEW c \in Batches, NEW j \in 1..stored'[c],
               Plan[c][j].table = "contacts", Plan[c][j].seller # NoRow
        PROVE  rows'[Plan[c][j].seller] # Absent
    <3>1. j \in 1..Len(Plan[c]) /\ (j \in 1..stored[c] \/ (c = b /\ j = i))
      BY <2>1, <2>2, OneMore
    <3>2. Plan[c][j].seller \in Rows
      BY <2>2, <3>1, StatementRows
    <3>3. rows[Plan[c][j].seller] # Absent
      BY <2>1, <2>2, <3>1 DEF ContactsHaveSellers, Writes, SellerKnown
    <3> QED
      BY <2>1, <3>2, <3>3 DEF Writes
  <2> QED
    BY <2>2 DEF ContactsHaveSellers
<1> QED
  BY <1>1, <1>2, StepKinds

LEMMA NamesStep ==
  ASSUME IngestionInv, StrongestNameKept, [Next]_vars
  PROVE  StrongestNameKept'
<1>1. CASE Quiet
  BY <1>1 DEF Quiet, StrongestNameKept, WritersOf
<1>2. ASSUME NEW w \in Slots, Write(w) PROVE StrongestNameKept'
  <2>a. PICK b \in Batches : \E i \in 1..Len(Plan[b]) : Writes(w, b, i)
    BY <1>2, WriteEffect
  <2>1. PICK i \in 1..Len(Plan[b]) : Writes(w, b, i)
    BY <2>a
  <2>2. SUFFICES ASSUME NEW c \in Batches, NEW j \in 1..Len(Plan[c]), Plan[c][j].table = "sellers",
                        NEW d \in Batches, NEW m \in 1..stored'[d], Plan[d][m].row = Plan[c][j].row
                 PROVE  Confidence[d] <= Confidence[rows'[Plan[c][j].row].best]
    BY DEF StrongestNameKept, WritersOf
  <2>3. m \in 1..Len(Plan[d]) /\ (m \in 1..stored[d] \/ (d = b /\ m = i))
    BY <2>1, OneMore
  <2>4. PICK k \in Rows : k = Plan[c][j].row
    BY StatementRows
  <2>5. m \in 1..stored[d] => rows[k] # Absent /\ Confidence[d] <= Confidence[rows[k].best]
    BY <2>2, <2>4 DEF StrongestNameKept, WritersOf, IngestionInv, StoreInv, WrittenRows
  <2>6. CASE k # Plan[b][i].row
    BY <2>1, <2>2, <2>3, <2>4, <2>5, <2>6 DEF Writes
  <2>7. CASE k = Plan[b][i].row
    <3>1. Plan[b][i].table = "sellers"
      BY <2>2, <2>4, <2>7, PlanAssumption
    <3>2. rows'[k] = Upserted("sellers", rows[k], b)
      BY <2>1, <2>7, <3>1 DEF Writes
    <3>3. rows[k] \in Writers /\ (rows[k] # Absent => rows[k].best \in Batches /\ rows[k].last \in Batches)
      BY DEF IngestionInv, StoreInv, TypeOK, WrittenRows
    <3>4. /\ Confidence[b] <= Confidence[rows'[k].best]
          /\ rows[k] # Absent => Confidence[rows[k].best] <= Confidence[rows'[k].best]
          /\ rows'[k].best \in Batches
      BY <3>2, <3>3, UpsertedRow DEF InsertOnce
    <3>5. Confidence \in [Batches -> Nat]
      BY ConstantsAssumption
    <3> QED
      BY <2>3, <2>4, <2>5, <3>3, <3>4, <3>5
  <2> QED
    BY <2>6, <2>7
<1> QED
  BY <1>1, <1>2, StepKinds

LEMMA LaterStep ==
  ASSUME IngestionInv, LaterBatchWins, [Next]_vars
  PROVE  LaterBatchWins'
<1>1. CASE Quiet
  <2>1. \A b \in Batches : fate[b] = "spooled" => fate'[b] = "spooled"
    BY <1>1 DEF Quiet, IngestionInv, FatesInOrder, TypeOK, Sender, Batches, NoBatch
  <2>2. \A k \in Rows : rows[k].last # NoBatch => rows[k].last \in Batches
    BY DEF IngestionInv, TypeOK, Writers
  <2>3. ASSUME NEW b \in Batches, NEW i \in 1..Len(Plan[b])
        PROVE  Plan[b][i].row \in Rows
    BY <2>3, StatementRows
  <2> QED
    BY <1>1, <2>1, <2>2, <2>3 DEF Quiet, LaterBatchWins, WritersOf
<1>2. ASSUME NEW w \in Slots, Write(w) PROVE LaterBatchWins'
  <2>a. PICK b \in Batches : \E i \in 1..Len(Plan[b]) : Writes(w, b, i)
    BY <1>2, WriteEffect
  <2>1. PICK i \in 1..Len(Plan[b]) : Writes(w, b, i)
    BY <2>a
  <2>2. SUFFICES ASSUME NEW c \in Batches, NEW j \in 1..Len(Plan[c]), Plan[c][j].table \notin InsertOnce,
                        rows'[Plan[c][j].row].last # NoBatch,
                        fate'[rows'[Plan[c][j].row].last] # "spooled",
                        rows'[Plan[c][j].row].last \notin strays',
                        NEW d \in Batches, NEW m \in 1..stored'[d], Plan[d][m].row = Plan[c][j].row
                 PROVE  d <= rows'[Plan[c][j].row].last
    BY DEF LaterBatchWins, WritersOf
  <2>3. m \in 1..Len(Plan[d]) /\ (m \in 1..stored[d] \/ (d = b /\ m = i))
    BY <2>1, OneMore
  <2>4. PICK k \in Rows : k = Plan[c][j].row
    BY StatementRows
  <2>5. UNCHANGED <<fate, strays>>
    BY <2>1 DEF Writes
  <2>6. CASE k # Plan[b][i].row
    <3>1. rows'[k] = rows[k] /\ m \in 1..stored[d]
      BY <2>1, <2>2, <2>3, <2>4, <2>6 DEF Writes
    <3> QED
      BY <2>2, <2>4, <2>5, <3>1 DEF LaterBatchWins, WritersOf
  <2>7. CASE k = Plan[b][i].row
    <3>1. Plan[b][i].table = Plan[c][j].table
      BY <2>2, <2>4, <2>7, PlanAssumption
    <3>2. rows'[k] = Upserted(Plan[b][i].table, rows[k], b)
      BY <2>1, <2>7 DEF Writes
    <3>3. rows[k] \in Writers /\ (rows[k] # Absent => rows[k].best \in Batches /\ rows[k].last \in Batches)
      BY DEF IngestionInv, StoreInv, TypeOK, WrittenRows
    <3>t. PICK t : t = Plan[b][i].table
      OBVIOUS
    <3>u. t \notin InsertOnce /\ rows'[k] = Upserted(t, rows[k], b)
      BY <2>2, <3>1, <3>2, <3>t
    <3>4. rows'[k].last = b
      BY <3>3, <3>u, UpsertedRow
    <3>5. fate[b] # "spooled" /\ b \notin strays
      BY <2>2, <2>4, <2>5, <3>4
    <3>6. RequestSound(requests[w]) /\ requests[w].pc = "write" /\ requests[w].batch = b
          /\ requests[w].to \in Senders \cup {Nobody}
      BY <2>1 DEF Writes, IngestionInv, RequestsSound, TypeOK, Request
    <3>7. requests[w].to = "spider"
      BY <3>5, <3>6, BatchNumbers DEF RequestSound, IngestionInv, FatesInOrder, Senders
    <3>8. spider.batch = b
      BY <3>6, <3>7 DEF RequestSound
    <3>9. d > b => stored[d] = 0
      BY <3>8, BatchNumbers DEF IngestionInv, NoneAhead
    <3>10. m \in 1..stored[d] \/ d = b
      BY <2>3
    <3> QED
      BY <2>4, <3>4, <3>9, <3>10, BatchNumbers
  <2> QED
    BY <2>6, <2>7
<1> QED
  BY <1>1, <1>2, StepKinds

(* A contact never refers to a seller that is not there.                   *)
THEOREM ContactsOfSellers == Spec => []ContactsHaveSellers
<1>1. Init => ContactsHaveSellers
  BY DEF Init, ContactsHaveSellers
<1> QED
  BY <1>1, ContactsStep, IngestionInvHolds, PTL DEF Spec

(* A seller keeps the name its most confident batch gave it.               *)
THEOREM StrongestName == Spec => []StrongestNameKept
<1>1. Init => StrongestNameKept
  BY DEF Init, StrongestNameKept, WritersOf
<1> QED
  BY <1>1, NamesStep, IngestionInvHolds, PTL DEF Spec

(* What a later batch has written stays, but for replays and strays.       *)
THEOREM LaterWins == Spec => []LaterBatchWins
<1>1. Init => LaterBatchWins
  BY StatementRows DEF Init, LaterBatchWins, Absent
<1> QED
  BY <1>1, LaterStep, IngestionInvHolds, PTL DEF Spec

-----------------------------------------------------------------------------
(* The completion record.                                                  *)

LEMMA CompletionStep ==
  ASSUME IngestionInv, CompletionHonest, [Next]_vars
  PROVE  CompletionHonest'
<1>1. TypeOK /\ FatesInOrder /\ NoneAhead /\ AcknowledgedIsStored /\ RequestsSound
  BY DEF IngestionInv, StoreInv
<1>2. CASE Quiet
  <2>1. reported' = "completed" => \A b \in Batches \ {Last} : fate'[b] = fate[b]
    BY <1>1, <1>2, BatchNumbers DEF Quiet, NoneAhead
  <2> QED
    BY <1>2, <2>1 DEF Quiet, CompletionHonest, Stored
<1>3. ASSUME NEW w \in Slots, Write(w), reported' = "completed",
             NEW c \in Batches \ {Last}, fate'[c] # "dropped"
      PROVE  Stored(c)'
  <2>a. PICK b \in Batches : \E i \in 1..Len(Plan[b]) : Writes(w, b, i)
    BY <1>3, WriteEffect
  <2>1. PICK i \in 1..Len(Plan[b]) : Writes(w, b, i)
    BY <2>a
  <2>2. UNCHANGED fate /\ (Stored(c) => Stored(c)')
    BY <2>1, OneMore DEF Writes
  <2>3. CASE reported = "completed"
    BY <1>3, <2>2, <2>3 DEF CompletionHonest
  <2>4. CASE reported # "completed"
    <3>1. RunStatus(b) = "completed"
      BY <1>3, <2>1, <2>4 DEF Writes
    <3>2. b = Last /\ Completion = "completed"
      BY <3>1, RunStatuses DEF RunStatus
    <3>3. ~Stopped
      BY <3>2 DEF Completion, Halting, Stopped
    <3>4. spider.batch # NoBatch => ~(Last > spider.batch)
      BY <1>1, <2>1, <3>2 DEF Writes, NoneAhead
    <3>5. spider.batch = NoBatch \/ c < spider.batch
      BY <1>1, <3>4, BatchNumbers DEF TypeOK, Sender
    <3>6. fate[c] # "unsent" /\ fate[c] \notin {"spooled", "rejected"}
      BY <1>1, <3>3, <3>5 DEF FatesInOrder, Stopped
    <3>7. fate[c] = "accepted"
      BY <1>1, <1>3, <2>2, <3>6 DEF TypeOK, Fates
    <3> QED
      BY <1>1, <2>2, <3>7 DEF AcknowledgedIsStored
  <2> QED
    BY <2>3, <2>4
<1> QED
  BY <1>2, <1>3, StepKinds DEF CompletionHonest

(* "completed" is only ever reported of batches that are all stored.       *)
THEOREM HonestCompletion == Spec => []CompletionHonest
<1>1. Init => CompletionHonest
  BY DEF Init, CompletionHonest
<1> QED
  BY <1>1, CompletionStep, IngestionInvHolds, PTL DEF Spec

-----------------------------------------------------------------------------
(* The promise.                                                            *)

LEMMA PromiseStep ==
  ASSUME IngestionInv, [Next]_vars
  PROVE  [Promise!Next]_<<stored, linked, keys>>
<1>1. CASE Quiet /\ Promises
  BY <1>1 DEF Quiet, Promises, Promise!Next
<1>2. ASSUME NEW w \in Slots, Write(w) PROVE [Promise!Next]_<<stored, linked, keys>>
  <2>a. PICK b \in Batches : \E i \in 1..Len(Plan[b]) : Writes(w, b, i)
    BY <1>2, WriteEffect
  <2>1. PICK i \in 1..Len(Plan[b]) : Writes(w, b, i)
    BY <2>a
  <2>2. /\ i <= stored[b] + 1 /\ stored' \in [Batches -> Nat] /\ UNCHANGED <<linked, keys>>
        /\ \A c \in Batches : stored'[c] = IF c = b /\ i > stored[b] THEN i ELSE stored[c]
    BY <2>1 DEF Writes
  <2>3. stored \in [Batches -> Nat] /\ i \in Nat /\ i <= Len(Plan[b]) /\ Len(Plan[b]) \in Nat
    BY PlanLengths DEF IngestionInv, TypeOK
  <2>4. CASE i > stored[b]
    <3>1. i = stored[b] + 1 /\ stored[b] < Len(Plan[b])
      BY <2>2, <2>3, <2>4
    <3>2. stored' = [stored EXCEPT ![b] = stored[b] + 1]
      BY <2>2, <2>3, <3>1
    <3>3. Promise!Store(b)
      BY <2>2, <3>1, <3>2 DEF Promise!Store
    <3> QED
      BY <3>3 DEF Promise!Next
  <2>5. CASE ~(i > stored[b])
    <3>1. stored' = stored
      BY <2>2, <2>3, <2>5
    <3> QED
      BY <2>2, <3>1
  <2> QED
    BY <2>4, <2>5
<1> QED
  BY <1>1, <1>2, StepKinds

(* Ingestion, with all that can go wrong on its way, keeps its promise.    *)
THEOREM IngestionImplementsPromise == Spec => ImplementsPromise
<1>1. Init => Promise!Init
  BY DEF Init, Promise!Init
<1>2. IngestionInv /\ [Next]_vars => [Promise!Next]_<<stored, linked, keys>>
  BY PromiseStep
<1> QED
  BY <1>1, <1>2, IngestionInvHolds, PTL DEF Spec, ImplementsPromise, Promise!Spec
=============================================================================
