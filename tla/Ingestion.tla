----------------------------- MODULE Ingestion -----------------------------
(***************************************************************************)
(* Signed ingestion: a crawl job submits its batches one after the other   *)
(* (crawler/sellerintel/clients/ingestion.py, pipelines.py) to the Worker  *)
(* (apps/worker-api/src/ingestion/route.ts), which checks the nonce, the   *)
(* schema, the source policy and the idempotency key and then writes four  *)
(* databases, statement by statement (repositories/unit-of-work.ts).  What *)
(* cannot be delivered is spooled to disk and replayed later               *)
(* (spool/replay.py).                                                      *)
(*                                                                         *)
(* A request is a process: one action is one database statement together   *)
(* with the code up to the next await.  Between the client and the Worker  *)
(* a request may be cut off while the Worker goes on with it, so a retry   *)
(* and the attempt it replaces can write at the same time.                 *)
(*                                                                         *)
(* What a batch holds is abstracted to the rows it writes, in order.       *)
(* A few definitions stand uncommented just above another one of almost    *)
(* the same name (CheckUnpoliced, Check): nothing uses those; each is a    *)
(* slip the code could have had, and is put in its sibling's place to see  *)
(* that a property notices.                                                *)
(***************************************************************************)
EXTENDS Naturals, Sequences

CONSTANTS
  Last,         \* batches are 1..Last, the last is the completion record
  Rows,         \* the rows, of any table, the batches write
  Plan,         \* Plan[b]: the statements batch b becomes, in their order
  Verdict,      \* Verdict[b]: what the checks of the Worker make of batch b
  Confidence,   \* Confidence[b]: identity_confidence of the sellers in b
  Halt,         \* what stopped the spider itself, see Completion
  Notice,       \* the batch that reports the halt, if there is one
  Slots,        \* concurrent requests at the Worker
  MaxAttempts,  \* max_attempts of the client: 3 in the code
  Faults,       \* which of the faults below can happen
  MaxFaults     \* bound on how many of them happen

Batches == 1..Last
NoBatch == 0
NoRow   == "none"
NoNonce == "none"

(* The tables of the four databases, in the order commit writes them.      *)
Core       == <<"sellers", "marketplace_accounts", "seller_aliases",
                "score_components", "product_links", "resolution_decisions",
                "merge_redirects", "merge_link_audits">>
Contacts   == <<"contacts", "suppressions", "outreach_states", "audit_events">>
Operations == <<"sources", "crawl_runs", "review_queue_items",
                "source_registry", "quota_states", "feature_flags">>
History    == <<"field_history", "recent_diff_metadata">>

Order == Core \o Contacts \o Operations \o History

Place(table) == CHOOSE i \in DOMAIN Order : Order[i] = table

(* A statement: the row it writes, and the seller row it refers to.        *)
Statement == [table : {Order[i] : i \in DOMAIN Order}, row : Rows,
              seller : Rows \cup {NoRow}]

Verdicts == {"ok", "unsigned", "schema", "policy"}

Halts == {"none", "errors", "blocked", "cooldown"}

(***************************************************************************)
(* "error":   a statement fails, or the Worker dies, during a request;     *)
(* "offline": a request does not reach the Worker (URLError);              *)
(* "cut":     the edge answers 5xx, or sending fails, while the Worker     *)
(*            goes on with the request;                                    *)
(* "copy":    a request is delivered twice;                                *)
(* "timeout": the client gives up reading an answer (TimeoutError).        *)
(***************************************************************************)
AllFaults == {"error", "offline", "cut", "copy", "timeout"}

ASSUME ConstantsAssumption ==
  /\ Last \in Nat \ {0}
  /\ MaxAttempts \in Nat \ {0}
  /\ MaxFaults \in Nat
  /\ NoRow \notin Rows
  /\ NoNonce \notin Slots
  /\ Plan \in [Batches -> Seq(Statement)]
  /\ Verdict \in [Batches -> Verdicts]
  /\ Confidence \in [Batches -> Nat]
  /\ Halt \in Halts
  /\ Notice \in 0..(Last - 1)
  /\ Faults \subseteq AllFaults

(* Batches are not empty, their statements are in the order of the tables, *)
(* and a row is of one table.                                              *)
ASSUME PlanAssumption ==
  \A b, c \in Batches :
    /\ Len(Plan[b]) > 0
    /\ \A i, j \in 1..Len(Plan[b]) :
         i < j => Place(Plan[b][i].table) <= Place(Plan[b][j].table)
    /\ \A i \in 1..Len(Plan[b]), j \in 1..Len(Plan[c]) :
         Plan[b][i].row = Plan[c][j].row => Plan[b][i].table = Plan[c][j].table

VARIABLES
  rows,      \* the databases: what of each row depends on who wrote it
  stored,    \* stored[b]: how many of the statements of b have taken effect
  linked,    \* batches linked to their run by recordIngestion
  keys,      \* idempotency_keys: the batches whose key is recorded
  nonces,    \* ingestion_nonces: those that requests at the Worker carry
  reported,  \* crawl_runs: the status of the crawl run
  requests,  \* the requests at the Worker
  spider,    \* the pipeline of the crawl job
  replayer,  \* the replay of the spool
  fate,      \* fate[b]: what the crawl job knows of batch b
  spool,     \* the batches with a record in the spool directory
  strays,    \* the batches that had a request nobody waited for (history)
  faults     \* how many faults have happened

store  == <<rows, stored, linked, keys, nonces, reported>>
client == <<spider, replayer, fate, spool>>
vars   == <<store, client, requests, strays, faults>>

-----------------------------------------------------------------------------

Senders == {"spider", "replayer"}
Nobody  == "nobody"

Codes == {"accepted", "duplicate", "failed", "nonce", "unsigned", "schema", "policy"}

Points == {"free", "lookup", "insert", "check", "write", "link",
           "record", "answer"}

Request == [pc : Points, batch : Batches \cup {NoBatch}, nonce : Slots \cup {NoNonce},
            at : Nat, code : Codes, to : Senders \cup {Nobody}]

Taken(point, b, n, code, s) ==
  [pc |-> point, batch |-> b, nonce |-> n, at |-> 1, code |-> code, to |-> s]

Free == Taken("free", NoBatch, NoNonce, "failed", Nobody)

(* A sender has a batch in hand, at its attempt-th attempt.                *)
Sender == [batch : Batches \cup {NoBatch}, attempt : Nat, waiting : BOOLEAN]

Resting == [batch |-> NoBatch, attempt |-> 1, waiting |-> FALSE]

(* The writers of a row that its columns keep: see Upserted.               *)
Writers == [best : Batches \cup {NoBatch}, last : Batches \cup {NoBatch}]

Absent == [best |-> NoBatch, last |-> NoBatch]

Fates == {"unsent", "accepted", "spooled", "rejected", "dropped"}

Reports == {"none", "running", "completed", "completed_with_errors",
            "paused_by_policy", "cooldown"}

TypeOK ==
  /\ rows \in [Rows -> Writers]
  /\ stored \in [Batches -> Nat]
  /\ linked \subseteq Batches
  /\ keys \subseteq Batches
  /\ nonces \subseteq Slots
  /\ reported \in Reports
  /\ requests \in [Slots -> Request]
  /\ spider \in Sender
  /\ replayer \in Sender
  /\ fate \in [Batches -> Fates]
  /\ spool \subseteq Batches
  /\ strays \subseteq Batches
  /\ faults \in Nat

Init ==
  /\ rows = [k \in Rows |-> Absent]
  /\ stored = [b \in Batches |-> 0]
  /\ linked = {}
  /\ keys = {}
  /\ nonces = {}
  /\ reported = "none"
  /\ requests = [w \in Slots |-> Free]
  /\ spider = [Resting EXCEPT !.batch = 1]
  /\ replayer = Resting
  /\ fate = [b \in Batches |-> "unsent"]
  /\ spool = {}
  /\ strays = {}
  /\ faults = 0

Fault(kind) ==
  /\ kind \in Faults
  /\ faults < MaxFaults
  /\ faults' = faults + 1

-----------------------------------------------------------------------------

Stored(b) == stored[b] = Len(Plan[b])

(* Tables whose inserts do nothing when the row is there.                  *)
InsertOnce == {"score_components", "resolution_decisions", "merge_link_audits",
               "audit_events", "field_history"}

UpsertedLastName(table, old, b) ==
  IF old = Absent THEN [best |-> b, last |-> b]
  ELSE IF table \in InsertOnce THEN old
  ELSE [best |-> b, last |-> b]

UpsertedOnce(table, old, b) ==
  IF old = Absent THEN [best |-> b, last |-> b]
  ELSE [old EXCEPT !.best = IF Confidence[b] >= Confidence[@] THEN b ELSE @]

(***************************************************************************)
(* A row after an upsert by batch b.  A seller keeps the name of the       *)
(* greatest confidence, the later one of two equals; the columns that any  *)
(* table overwrites are the last writer's.                                 *)
(***************************************************************************)
Upserted(table, old, b) ==
  IF old = Absent THEN [best |-> b, last |-> b]
  ELSE IF table \in InsertOnce THEN old
  ELSE [best |-> IF Confidence[b] >= Confidence[old.best] THEN b ELSE old.best,
        last |-> b]

Halting ==
  CASE Halt = "blocked"  -> "paused_by_policy"
    [] Halt = "cooldown" -> "cooldown"
    [] OTHER             -> "running"

CompletionUnspooled ==
  IF Halt \in {"blocked", "cooldown"} THEN Halting
  ELSE IF Halt = "errors" \/ \E b \in Batches \ {Last} : fate[b] = "rejected"
       THEN "completed_with_errors" ELSE "completed"

CompletionOfSpool ==
  IF \E b \in Batches \ {Last} : fate[b] \in {"spooled", "rejected"}
  THEN "spooled" ELSE "completed"

(* The status close_spider reports: a block or a cooldown first, then the  *)
(* errors, with what was spooled or rejected counted among them.           *)
Completion ==
  IF Halt \in {"blocked", "cooldown"} THEN Halting
  ELSE IF Halt = "errors"
          \/ \E b \in Batches \ {Last} : fate[b] \in {"spooled", "rejected"}
       THEN "completed_with_errors" ELSE "completed"

(* Every batch has a crawl_runs record: the run is running, or halted, or  *)
(* complete.  upsertCrawlRun overwrites the status, whatever it was.       *)
RunStatus(b) ==
  IF b = Last THEN Completion ELSE IF b = Notice THEN Halting ELSE "running"

-----------------------------------------------------------------------------
(* The client.                                                             *)

(* _stop_spider: the engine is asked to close, items on their way follow.  *)
Stopping == \E b \in Batches : fate[b] \in {"spooled", "rejected"}

(***************************************************************************)
(* The pipeline goes on: to the next item, or to close_spider, which       *)
(* submits the completion record, when the spider has been stopped.        *)
(***************************************************************************)
Proceed(b) ==
  IF b = Last THEN spider' = Resting
  ELSE \/ spider' = [Resting EXCEPT !.batch = b + 1]
       \/ /\ Stopping'
          /\ spider' = [Resting EXCEPT !.batch = Last]

(* The batch in hand is settled.                                           *)
Settle(outcome) ==
  /\ fate' = [fate EXCEPT ![spider.batch] = outcome]
  /\ spool' = IF outcome = "spooled" THEN spool \cup {spider.batch} ELSE spool
  /\ Proceed(spider.batch)

AttemptUnspooled ==
  IF spider.attempt < MaxAttempts
  THEN /\ spider' = [Resting EXCEPT !.batch = spider.batch, !.attempt = spider.attempt + 1]
       /\ UNCHANGED <<fate, spool>>
  ELSE /\ fate' = [fate EXCEPT ![spider.batch] = "spooled"]
       /\ UNCHANGED spool
       /\ Proceed(spider.batch)

(* The attempt failed in a way that is retried, and spooled in the end.    *)
AttemptFailed ==
  IF spider.attempt < MaxAttempts
  THEN /\ spider' = [Resting EXCEPT !.batch = spider.batch, !.attempt = spider.attempt + 1]
       /\ UNCHANGED <<fate, spool>>
  ELSE Settle("spooled")

Success(code)   == code \in {"accepted", "duplicate"}
Retryable(code) == code = "failed"

(* submit_batch has an answer: 2xx, a retryable status, or a rejection.    *)
SpiderHears(code) ==
  /\ UNCHANGED replayer
  /\ \/ Success(code) /\ Settle("accepted")
     \/ Retryable(code) /\ AttemptFailed
     \/ ~Success(code) /\ ~Retryable(code) /\ Settle("rejected")

ReplayerForgets(code) ==
  /\ replayer' = Resting
  /\ spool' = spool \ {replayer.batch}
  /\ UNCHANGED <<spider, fate>>

(* replay_spool_records: the record is deleted only on a 2xx.              *)
ReplayerHears(code) ==
  /\ replayer' = Resting
  /\ spool' = IF Success(code) THEN spool \ {replayer.batch} ELSE spool
  /\ UNCHANGED <<spider, fate>>

Hears(s, code) ==
  IF s = "spider" THEN SpiderHears(code) ELSE ReplayerHears(code)

(* Nonces are random: a fresh one is one that no request carries, and one  *)
(* that no request carries any more is never met again.  With a slot to    *)
(* spare there is always one.                                              *)
Carried(reqs) == {reqs[w].nonce : w \in Slots} \ {NoNonce}

Unused == Slots \ Carried(requests)

Fresh == CHOOSE n \in Slots : n \in Unused

(* Slots are all alike: the next request takes this one.                   *)
Vacant(w) == w = CHOOSE v \in Slots : requests[v].pc = "free"

(* readIngestionHeaders, validateTimestamp and the signature: the request  *)
(* is refused before its batch is looked at.                               *)
Unsigned(b) == Verdict[b] = "unsigned"

(* The fields of the records of the batch: required, allowed, of their     *)
(* types and identifiers.                                                  *)
Malformed(b) == Verdict[b] = "schema"

(* validateSourcePolicy: a source of the batch is outside the domains that *)
(* are allowed to its run, or is no public URL.                            *)
OutsidePolicy(b) == Verdict[b] = "policy"

(* A post reaches the Worker with a fresh nonce, or its signature, headers *)
(* or encoding are refused before anything is read.                        *)
Arrive(w, s, b) ==
  /\ requests[w].pc = "free"
  /\ Vacant(w)
  /\ Unused # {}
  /\ requests' = [requests EXCEPT ![w] =
       IF Unsigned(b) THEN Taken("answer", b, NoNonce, "unsigned", s)
                      ELSE Taken("lookup", b, Fresh, "failed", s)]

Submit(w) ==
  /\ spider.batch # NoBatch
  /\ ~spider.waiting
  /\ Arrive(w, "spider", spider.batch)
  /\ spider' = [spider EXCEPT !.waiting = TRUE]
  /\ UNCHANGED <<store, replayer, fate, spool, strays, faults>>

(* The spider's post does not reach the Worker: URLError.                  *)
Offline ==
  /\ spider.batch # NoBatch
  /\ ~spider.waiting
  /\ Fault("offline")
  /\ AttemptFailed
  /\ UNCHANGED <<store, replayer, requests, strays>>

(* The replay takes a record of the spool.  A post that does not reach the *)
(* Worker leaves the record as it is, like a replay that is not run.       *)
Replay(w, b) ==
  /\ replayer.batch = NoBatch
  /\ b \in spool
  /\ Arrive(w, "replayer", b)
  /\ replayer' = [batch |-> b, attempt |-> 1, waiting |-> TRUE]
  /\ UNCHANGED <<store, spider, fate, spool, strays, faults>>

(* The request is cut off and the Worker goes on: the sender hears of a    *)
(* retryable failure.                                                      *)
Cut(w) ==
  LET s == requests[w].to IN
  /\ s # Nobody
  /\ Fault("cut")
  /\ Hears(s, "failed")
  /\ requests' = [requests EXCEPT ![w].to = Nobody]
  /\ strays' = strays \cup {requests[w].batch}
  /\ UNCHANGED store

(* The client's read of the answer times out.  TimeoutError is neither an  *)
(* HTTPError nor a URLError: it leaves submit_batch, process_item and the  *)
(* replay as it is, and the item is dropped.                               *)
Timeout(w) ==
  LET s == requests[w].to IN
  /\ s # Nobody
  /\ Fault("timeout")
  /\ IF s = "spider" THEN Settle("dropped") /\ UNCHANGED replayer
                     ELSE ReplayerHears("failed")
  /\ requests' = [requests EXCEPT ![w].to = Nobody]
  /\ strays' = strays \cup {requests[w].batch}
  /\ UNCHANGED store

(* A second copy of a request, with the same nonce.                        *)
Copy(w, v) ==
  /\ requests[w].pc = "lookup"
  /\ requests[w].to # Nobody
  /\ requests[v].pc = "free"
  /\ Vacant(v)
  /\ Fault("copy")
  /\ requests' = [requests EXCEPT ![v] = [requests[w] EXCEPT !.to = Nobody]]
  /\ strays' = strays \cup {requests[w].batch}
  /\ UNCHANGED <<store, client>>

-----------------------------------------------------------------------------
(* The Worker.                                                             *)

At(w, point) == requests[w].pc = point

Go(w, point) == requests' = [requests EXCEPT ![w].pc = point]

Reply(w, code) ==
  requests' = [requests EXCEPT ![w] = Taken("answer", @.batch, @.nonce, code, @.to)]

Elsewhere == UNCHANGED <<client, strays>>

(* getIngestionNonce: a nonce that is known is refused.                    *)
LookUpNonce(w) ==
  /\ At(w, "lookup")
  /\ IF requests[w].nonce \in nonces THEN Reply(w, "nonce") ELSE Go(w, "insert")
  /\ UNCHANGED <<store, faults>> /\ Elsewhere

(* recordIngestionNonce inserts or does nothing; its result is not looked  *)
(* at.  Then the batch is parsed and validated.                            *)
RecordNonce(w) ==
  /\ At(w, "insert")
  /\ nonces' = nonces \cup {requests[w].nonce}
  /\ IF Malformed(requests[w].batch) THEN Reply(w, "schema") ELSE Go(w, "check")
  /\ UNCHANGED <<rows, stored, linked, keys, reported, faults>> /\ Elsewhere

CheckUnpoliced(w) ==
  LET b == requests[w].batch IN
  /\ At(w, "check")
  /\ IF b \in keys THEN Reply(w, "duplicate") ELSE Go(w, "write")
  /\ UNCHANGED <<store, faults>> /\ Elsewhere

(* getIdempotencyKey: a batch that the source policy admits is a duplicate *)
(* if its key is recorded; its bytes, and so its hash, never change.       *)
(* For any other, prepareEntityResolution reads what commit is about to    *)
(* write; module SellerMerge has what it decides.                          *)
Check(w) ==
  LET b == requests[w].batch IN
  /\ At(w, "check")
  /\ CASE OutsidePolicy(b) -> Reply(w, "policy")
       [] ~OutsidePolicy(b) /\ b \in keys -> Reply(w, "duplicate")
       [] OTHER -> Go(w, "write")
  /\ UNCHANGED <<store, faults>> /\ Elsewhere

Current(w) == Plan[requests[w].batch][requests[w].at]

SellerKnownCore(s) ==
  s.table \in {Core[i] : i \in DOMAIN Core} /\ s.seller # NoRow =>
    rows[s.seller] # Absent

(* The seller a statement refers to is there: a foreign key of the core    *)
(* database, and assertKnownSellers for the contacts database.             *)
SellerKnown(s) ==
  s.table \in {Core[i] : i \in DOMAIN Core} \cup {"contacts"} /\ s.seller # NoRow =>
    rows[s.seller] # Absent

AfterButLast(r) ==
  IF r.at + 1 < Len(Plan[r.batch]) THEN [r EXCEPT !.at = @ + 1] ELSE [r EXCEPT !.pc = "link"]

AfterUnlinked(r) ==
  IF r.at < Len(Plan[r.batch]) THEN [r EXCEPT !.at = @ + 1] ELSE [r EXCEPT !.pc = "record"]

(* Where commit goes on after a statement.                                 *)
After(r) ==
  IF r.at < Len(Plan[r.batch]) THEN [r EXCEPT !.at = @ + 1] ELSE [r EXCEPT !.pc = "link"]

(* The next statement of commit.                                           *)
Write(w) ==
  LET r == requests[w]
      s == Current(w)
  IN
  /\ At(w, "write")
  /\ SellerKnown(s)
  /\ rows' = [rows EXCEPT ![s.row] = Upserted(s.table, @, r.batch)]
  /\ stored' = [stored EXCEPT ![r.batch] = IF r.at > @ THEN r.at ELSE @]
  /\ reported' = IF s.table = "crawl_runs" THEN RunStatus(r.batch) ELSE reported
  /\ requests' = [requests EXCEPT ![w] = After(@)]
  /\ UNCHANGED <<linked, keys, nonces, faults>> /\ Elsewhere

(* The seller is not there: commit stops, what it has written stays.       *)
WriteRefused(w) ==
  /\ At(w, "write")
  /\ ~SellerKnown(Current(w))
  /\ Reply(w, "failed")
  /\ UNCHANGED <<store, faults>> /\ Elsewhere

(* recordIngestion links the sellers and contacts of the batch to its run. *)
Link(w) ==
  /\ At(w, "link")
  /\ linked' = linked \cup {requests[w].batch}
  /\ Go(w, "record")
  /\ UNCHANGED <<rows, stored, keys, nonces, reported, faults>> /\ Elsewhere

(* recordIdempotencyKey inserts or does nothing.                           *)
RecordKey(w) ==
  /\ At(w, "record")
  /\ keys' = keys \cup {requests[w].batch}
  /\ Reply(w, "accepted")
  /\ UNCHANGED <<rows, stored, linked, nonces, reported, faults>> /\ Elsewhere

(* A statement fails or the Worker dies: 503, or the edge answers for it.  *)
Fail(w) ==
  /\ requests[w].pc \notin {"free", "answer"}
  /\ Fault("error")
  /\ Reply(w, "failed")
  /\ UNCHANGED store /\ Elsewhere

(* The answer reaches whoever still waits for it.                          *)
Answer(w) ==
  LET r == requests[w] IN
  /\ At(w, "answer")
  /\ requests' = [requests EXCEPT ![w] = Free]
  /\ nonces' = nonces \cap Carried(requests')
  /\ IF r.to = Nobody THEN UNCHANGED client ELSE Hears(r.to, r.code)
  /\ UNCHANGED <<rows, stored, linked, keys, reported, strays, faults>>

Handle(w) ==
  \/ LookUpNonce(w) \/ RecordNonce(w) \/ Check(w)
  \/ Write(w) \/ WriteRefused(w) \/ Link(w) \/ RecordKey(w)
  \/ Answer(w)

Next ==
  \/ Offline
  \/ \E w \in Slots : \/ Submit(w) \/ Handle(w) \/ Fail(w) \/ Cut(w) \/ Timeout(w)
                      \/ \E b \in Batches : Replay(w, b)
                      \/ \E v \in Slots : Copy(w, v)

Spec == Init /\ [][Next]_vars

(***************************************************************************)
(* Every request the Worker has taken goes on to its answer, the job goes  *)
(* on with its items, and the operator replays the spool until it is empty *)
(* (the replay is a command that is run again, not a daemon).              *)
(***************************************************************************)
FairSpec ==
  /\ Spec
  /\ \A w \in Slots : WF_vars(Handle(w))
  /\ WF_vars(\E w \in Slots : Submit(w))
  /\ \A b \in Batches : SF_vars(\E w \in Slots : Replay(w, b))

-----------------------------------------------------------------------------
(* Properties.                                                             *)

(***************************************************************************)
(* A batch whose idempotency key is recorded, or that its sender has been  *)
(* told is accepted, is stored to its last statement and linked to its     *)
(* run: whatever failed, was cut off, retried or replayed before.          *)
(***************************************************************************)
AcknowledgedIsStored ==
  \A b \in Batches :
    b \in keys \/ fate[b] = "accepted" => Stored(b) /\ b \in linked

(***************************************************************************)
(* A batch that could not be delivered is on disk until it is stored: the  *)
(* spool is written when the attempts are exhausted, and a record leaves   *)
(* it only after the Worker has the whole batch.                           *)
(***************************************************************************)
NothingLost ==
  \A b \in Batches : fate[b] = "spooled" => b \in spool \/ Stored(b)

(***************************************************************************)
(* The completion record claims "completed" only when every batch the job  *)
(* submitted is stored: one that was spooled or refused is reported.  A    *)
(* batch dropped by a read timeout is not counted, see NothingDropped.     *)
(***************************************************************************)
CompletionHonest ==
  reported = "completed" =>
    \A b \in Batches \ {Last} : fate[b] # "dropped" => Stored(b)

(***************************************************************************)
(* A batch the Worker refuses on sight, by signature, schema or source     *)
(* policy, leaves nothing in any database, on no attempt and no replay.    *)
(***************************************************************************)
RefusedLeavesNothing ==
  \A b \in Batches : Verdict[b] # "ok" =>
    stored[b] = 0 /\ b \notin linked \cup keys

(***************************************************************************)
(* A contact never refers to a seller that is not there, although no       *)
(* foreign key reaches from one database into another and the seller's own *)
(* batch may still be in the spool.                                        *)
(***************************************************************************)
ContactsHaveSellers ==
  \A b \in Batches : \A i \in 1..stored[b] :
    LET s == Plan[b][i] IN
    s.table = "contacts" /\ s.seller # NoRow => rows[s.seller] # Absent

(* The batches that have written row k.                                    *)
WritersOf(k) ==
  {b \in Batches : \E i \in 1..stored[b] : Plan[b][i].row = k}

(***************************************************************************)
(* The name of a seller comes from the batch with the greatest identity    *)
(* confidence that has been stored, in whatever order the batches and      *)
(* their replays arrived.                                                  *)
(***************************************************************************)
StrongestNameKept ==
  \A b \in Batches : \A i \in 1..Len(Plan[b]) :
    LET s == Plan[b][i] IN
    s.table = "sellers" =>
      \A c \in WritersOf(s.row) : Confidence[c] <= Confidence[rows[s.row].best]

(***************************************************************************)
(* What a later batch has written over an earlier one stays, unless the    *)
(* earlier one was replayed from the spool or a request for it went on     *)
(* after its sender had stopped waiting.  Those two overwrite newer        *)
(* columns with older ones: nothing in the Worker compares observed times. *)
(***************************************************************************)
LaterBatchWins ==
  \A b \in Batches : \A i \in 1..Len(Plan[b]) :
    LET s == Plan[b][i]
        l == rows[s.row].last
    IN
    s.table \notin InsertOnce /\ l # NoBatch =>
      \/ \A c \in WritersOf(s.row) : c <= l
      \/ fate[l] = "spooled"
      \/ l \in strays

(***************************************************************************)
(* docs/operations.md: the completion record of a crawl that was halted    *)
(* stays as it is.  But every batch carries a status for the run, and one  *)
(* that is replayed or was still on its way turns it back to running: the  *)
(* operator queue then takes the run for a success without results.        *)
(***************************************************************************)
CompletionStays ==
  [][reported = "cooldown" /\ Last \in keys => reported' = "cooldown"]_reported

(***************************************************************************)
(* docs/operations.md: temporary network failures are retried, and spooled *)
(* when the retries are exhausted.  A read timeout is neither: the batch   *)
(* is gone from the client, also when the Worker fails to store it.        *)
(***************************************************************************)
NothingDropped ==
  \A b \in Batches :
    fate[b] = "dropped" /\ (\A w \in Slots : requests[w].batch # b) =>
      b \in spool \/ Stored(b)

(***************************************************************************)
(* A spooled batch that the Worker does not refuse is stored in the end,   *)
(* if the spool is replayed often enough: also one whose contact waits for *)
(* a seller in another record of the spool.  When a batch was dropped or   *)
(* rejected, the seller may never come and the record stay for good.       *)
(***************************************************************************)
SpooledLands ==
  \A b \in Batches :
    (fate[b] = "spooled" /\ Verdict[b] = "ok") ~>
      \/ Stored(b) /\ b \in linked
      \/ \E c \in Batches : fate[c] \in {"dropped", "rejected"}

(***************************************************************************)
(* What ingestion promises of each batch: see module BatchStore.           *)
(***************************************************************************)
Promise == INSTANCE BatchStore WITH
  Length <- [b \in Batches |-> Len(Plan[b])],
  acked <- keys

ImplementsPromise == Promise!Spec
=============================================================================
