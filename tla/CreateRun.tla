----------------------------- MODULE CreateRun -----------------------------
(***************************************************************************)
(* Creating crawl runs (apps/worker-api/src/operator-crawl/service.ts,     *)
(* create and retry): a request carries an idempotency key, and a search   *)
(* that was made before is answered with the run it was made by.           *)
(*                                                                         *)
(* A request is a process; one action is one D1 statement with the code up *)
(* to the next await.  Module OperatorQueue has what becomes of a run once *)
(* it is in the table; here a run is only open or over.                    *)
(*                                                                         *)
(* As in the other modules, a definition that nothing uses, just above one *)
(* of almost the same name, is a slip the code could have had.             *)
(***************************************************************************)
EXTENDS Naturals, Sequences, FiniteSets

CONSTANTS
  Asks,      \* what a request can ask for: the bytes that are hashed
  Searches,  \* normalized searches
  Search,    \* Search[a]: the search that a is for, NoSearch for the modes
             \* known_websites and resolve_seller
  Past,      \* what runs from before the search fingerprints were made for
  Keys,      \* idempotency keys
  MaxRuns,   \* bound on the runs there are
  Requests,  \* concurrent requests at the Worker
  MaxSent,   \* bound on the requests that are sent
  Faults,    \* which of the faults below can happen
  MaxFaults  \* bound on how many of them happen

NoSearch == "none"
NoKey    == "none"
NoAsk    == "none"
NoRun    == 0
Runs     == 1..MaxRuns

(***************************************************************************)
(* "error":  a statement fails, or the Worker dies, during a request;      *)
(* "lost":   an INSERT takes effect and its answer is lost;                *)
(* "expiry": a key is used again after the 24 hours its row is good for;   *)
(* "cut":    the sender of a request goes away or is told of a failure     *)
(*           while the Worker goes on.                                     *)
(***************************************************************************)
AllFaults == {"error", "lost", "expiry", "cut"}

ASSUME ConstantsAssumption ==
  /\ MaxRuns \in Nat
  /\ MaxSent \in Nat
  /\ MaxFaults \in Nat
  /\ Search \in [Asks -> Searches \cup {NoSearch}]
  /\ Past \in Seq(Asks)
  /\ Len(Past) <= MaxRuns
  /\ NoAsk \notin Asks
  /\ NoKey \notin Keys
  /\ NoSearch \notin Searches
  /\ Faults \subseteq AllFaults

VARIABLES
  runs,      \* operator_crawl_runs
  keys,      \* operator_crawl_idempotency
  requests,  \* the requests at the Worker
  sent,      \* sent[k]: what key k was first sent with (history)
  answers,   \* the answers that named a run (history)
  excused,   \* the keys that were at the Worker twice at once, or whose
             \* request failed between its two INSERTs (history)
  arrived,   \* how many requests have been sent
  faults     \* how many faults have happened

tables     == <<runs, keys>>
counts     == <<arrived, faults>>
createVars == <<tables, requests, sent, answers, excused, counts>>

-----------------------------------------------------------------------------

Origins == {"none", "past", "created", "retried"}

(* A run: what it was made for, its search_fingerprint, and whether its    *)
(* status is terminal.  The key is that of the request that made it.       *)
Run == [how : Origins, ask : Asks \cup {NoAsk}, print : Searches \cup {NoSearch},
        key : Keys \cup {NoKey}, over : BOOLEAN]

NoRow == [how |-> "none", ask |-> NoAsk, print |-> NoSearch, key |-> NoKey, over |-> FALSE]

KeyRow == [ask : Asks, run : Runs, live : BOOLEAN]

NoKeyRow == [ask |-> NoAsk, run |-> NoRun, live |-> FALSE]

Points == {"free", "key", "search", "history", "insert", "record", "load", "answer"}

Codes == {"accepted", "conflict", "refused", "failed"}

(* A request: heard while its sender waits for it, again when it looks for *)
(* an equal search because its INSERT has failed; it answers with code and *)
(* with run, which was read as over or not.                                *)
Request == [pc : Points, key : Keys \cup {NoKey}, ask : Asks \cup {NoAsk},
            heard : BOOLEAN, again : BOOLEAN, run : Runs \cup {NoRun},
            over : BOOLEAN, code : Codes]

Idle == [pc |-> "free", key |-> NoKey, ask |-> NoAsk, heard |-> FALSE, again |-> FALSE,
         run |-> NoRun, over |-> FALSE, code |-> "failed"]

Answer == [key : Keys, ask : Asks, run : Runs]

CreateTypeOK ==
  /\ runs \in [Runs -> Run]
  /\ keys \in [Keys -> KeyRow \cup {NoKeyRow}]
  /\ requests \in [Requests -> Request]
  /\ sent \in [Keys -> Asks \cup {NoAsk}]
  /\ answers \subseteq Answer
  /\ excused \subseteq Keys
  /\ arrived \in 0..MaxSent
  /\ faults \in 0..MaxFaults

CreateInit ==
  /\ \E n \in 0..Len(Past) :
       runs = [r \in Runs |->
         IF r <= n THEN [NoRow EXCEPT !.how = "past", !.ask = Past[r], !.over = TRUE] ELSE NoRow]
  /\ keys = [k \in Keys |-> NoKeyRow]
  /\ requests = [w \in Requests |-> Idle]
  /\ sent = [k \in Keys |-> NoAsk]
  /\ answers = {}
  /\ excused = {}
  /\ arrived = 0
  /\ faults = 0

Fault(kind) ==
  /\ kind \in Faults
  /\ faults < MaxFaults
  /\ faults' = faults + 1

-----------------------------------------------------------------------------

At(w, point) == requests[w].pc = point

Go(w, point) == requests' = [requests EXCEPT ![w].pc = point]

(* The answer of a request, if anybody waits for it.                       *)
Reply(w, code, r, over) ==
  requests' = [requests EXCEPT ![w] =
    IF @.heard THEN [Idle EXCEPT !.pc = "answer", !.heard = TRUE, !.code = code,
                                 !.run = r, !.over = over]
               ELSE Idle]

(* The request is answered with run r, read as over or not.                *)
Accept(w, r) ==
  /\ Reply(w, "accepted", r, runs[r].over)
  /\ answers' = answers \cup {[key |-> requests[w].key, ask |-> requests[w].ask, run |-> r]}

Refuse(w, code) == Reply(w, code, NoRun, FALSE) /\ UNCHANGED answers

(* The run is loaded with a statement of its own before it is answered.    *)
Load(w, r) ==
  /\ requests' = [requests EXCEPT ![w] = [@ EXCEPT !.pc = "load", !.run = r]]
  /\ UNCHANGED answers

Made(r) == runs[r].how # "none"

(* The first run of a set: the oldest requested_at, or the first row.      *)
First(R) == CHOOSE r \in R : \A q \in R : r <= q

(* Requests are all alike: the next one takes this place.                  *)
Vacant(w) ==
  /\ At(w, "free")
  /\ w = CHOOSE v \in Requests : At(v, "free")

(* The request with key k is still at work at the Worker.                  *)
Working(k) ==
  \E w \in Requests : requests[w].key = k /\ requests[w].pc \notin {"free", "answer"}

(* A request arrives that has passed the validation.                       *)
Arrive(w, k, a, heard) ==
  /\ Vacant(w)
  /\ arrived < MaxSent
  /\ arrived' = arrived + 1
  /\ requests' = [requests EXCEPT ![w] = 
       [Idle EXCEPT !.pc = "key", !.key = k, !.ask = a, !.heard = heard]]
  /\ sent' = [sent EXCEPT ![k] = IF @ = NoAsk THEN a ELSE @]
  /\ excused' = IF Working(k) THEN excused \cup {k} ELSE excused
  /\ UNCHANGED <<tables, answers>>

(* A key that was sent before is sent again, with the same bytes or not.   *)
Repeat(w, k, a) ==
  /\ sent[k] # NoAsk
  /\ Arrive(w, k, a, FALSE)
  /\ UNCHANGED faults

(* The sender of a request no longer waits for it.                         *)
Forgotten(q) ==
  IF q.pc = "answer" THEN Idle ELSE [q EXCEPT !.heard = FALSE]

LookUpKeyUnhashed(w) ==
  LET row == keys[requests[w].key] IN
  /\ At(w, "key")
  /\ \/ row.live /\ Load(w, row.run)
     \/ /\ ~row.live
        /\ Go(w, IF Search[requests[w].ask] = NoSearch THEN "insert" ELSE "search")
        /\ UNCHANGED answers
  /\ UNCHANGED <<tables, sent, excused, counts>>

LookUpKeyForgotten(w) ==
  /\ At(w, "key")
  /\ Go(w, IF Search[requests[w].ask] = NoSearch THEN "insert" ELSE "search")
  /\ UNCHANGED <<tables, sent, answers, excused, counts>>

(* The key is looked up: a row that has not expired is the answer, unless  *)
(* it was made for other bytes.                                            *)
LookUpKey(w) ==
  LET row == keys[requests[w].key] IN
  /\ At(w, "key")
  /\ \/ row.live /\ row.ask # requests[w].ask /\ Refuse(w, "conflict")
     \/ row.live /\ row.ask = requests[w].ask /\ Load(w, row.run)
     \/ /\ ~row.live
        /\ Go(w, IF Search[requests[w].ask] = NoSearch THEN "insert" ELSE "search")
        /\ UNCHANGED answers
  /\ UNCHANGED <<tables, sent, excused, counts>>

(* equivalentSearch: a run with the fingerprint that is not a retry.       *)
Printed(s) == {r \in Runs : Made(r) /\ runs[r].print = s /\ runs[r].how # "retried"}

(* equivalentSearch: a run without fingerprint whose stored search is the  *)
(* same.  A retry has no fingerprint either.                               *)
Historical(s) ==
  {r \in Runs : Made(r) /\ runs[r].print = NoSearch /\ Search[runs[r].ask] = s}

EquivalentSearch(w) ==
  LET found == Printed(Search[requests[w].ask]) IN
  /\ At(w, "search")
  /\ IF found # {} THEN Accept(w, First(found))
                   ELSE Go(w, "history") /\ UNCHANGED answers
  /\ UNCHANGED <<tables, sent, excused, counts>>

HistoricalSearch(w) ==
  LET found == Historical(Search[requests[w].ask]) IN
  /\ At(w, "history")
  /\ CASE found # {} -> Load(w, First(found))
       [] found = {} /\ requests[w].again -> Refuse(w, "failed")
       [] OTHER -> Go(w, "insert") /\ UNCHANGED answers
  /\ UNCHANGED <<tables, sent, excused, counts>>

TargetUnknown(w) ==
  /\ At(w, "insert")
  /\ Search[requests[w].ask] = NoSearch
  /\ Refuse(w, "not_found")
  /\ UNCHANGED <<tables, sent, excused, counts>>

(* The seller that a website crawl or a resolution is for is not there, or *)
(* has another official domain by now.                                     *)
TargetRefused(w) ==
  /\ At(w, "insert")
  /\ Search[requests[w].ask] = NoSearch
  /\ Refuse(w, "refused")
  /\ UNCHANGED <<tables, sent, excused, counts>>

FreeRun == {r \in Runs : ~Made(r)}

(* The catch block: another equal search may have come first.              *)
Caught(w) ==
  IF Search[requests[w].ask] = NoSearch THEN Refuse(w, "failed")
  ELSE /\ requests' = [requests EXCEPT ![w] = [@ EXCEPT !.pc = "search", !.again = TRUE]]
       /\ UNCHANGED answers

Inserted(w) ==
  LET a == requests[w].ask IN
  [how |-> "created", ask |-> a, print |-> Search[a], key |-> requests[w].key, over |-> FALSE]

InsertUnindexed(w) ==
  /\ At(w, "insert")
  /\ FreeRun # {}
  /\ runs' = [runs EXCEPT ![First(FreeRun)] = Inserted(w)]
  /\ requests' = [requests EXCEPT ![w] = [@ EXCEPT !.pc = "record", !.run = First(FreeRun)]]
  /\ UNCHANGED <<keys, sent, answers, excused, counts>>

(* The INSERT of the run, which the unique index on the fingerprint can    *)
(* refuse, with the link of a resolution to its seller.                    *)
Insert(w) ==
  LET s == Search[requests[w].ask] IN
  /\ At(w, "insert")
  /\ FreeRun # {}
  /\ IF s # NoSearch /\ Printed(s) # {}
     THEN Caught(w) /\ UNCHANGED runs
     ELSE /\ runs' = [runs EXCEPT ![First(FreeRun)] = Inserted(w)]
          /\ requests' = [requests EXCEPT ![w] =
               [@ EXCEPT !.pc = "record", !.run = First(FreeRun)]]
          /\ UNCHANGED answers
  /\ UNCHANGED <<keys, sent, excused, counts>>

(* The INSERT takes effect, and create hears of a failure.                 *)
InsertLost(w) ==
  LET s == Search[requests[w].ask] IN
  /\ At(w, "insert")
  /\ Fault("lost")
  /\ FreeRun # {}
  /\ s # NoSearch => Printed(s) = {}
  /\ runs' = [runs EXCEPT ![First(FreeRun)] = Inserted(w)]
  /\ Caught(w)
  /\ excused' = excused \cup {requests[w].key}
  /\ UNCHANGED <<keys, sent, arrived>>

RecordKeyReplacing(w) ==
  LET k == requests[w].key IN
  /\ At(w, "record")
  /\ keys' = [keys EXCEPT ![k] =
       [ask |-> requests[w].ask, run |-> requests[w].run, live |-> TRUE]]
  /\ Go(w, "load")
  /\ UNCHANGED <<runs, sent, answers, excused, counts>>

(* The INSERT of the key.  A row of that key is in the way, also when it   *)
(* has expired: nothing ever deletes it.                                   *)
RecordKey(w) ==
  LET k == requests[w].key IN
  /\ At(w, "record")
  /\ \/ /\ keys[k] = NoKeyRow
        /\ keys' = [keys EXCEPT ![k] =
             [ask |-> requests[w].ask, run |-> requests[w].run, live |-> TRUE]]
        /\ Go(w, "load")
        /\ UNCHANGED answers
     \/ /\ keys[k] # NoKeyRow
        /\ Refuse(w, "failed")
        /\ UNCHANGED keys
  /\ UNCHANGED <<runs, sent, excused, counts>>

(* The queue is pumped and the run loaded for the answer.                  *)
LoadRun(w) ==
  /\ At(w, "load")
  /\ Accept(w, requests[w].run)
  /\ UNCHANGED <<tables, sent, excused, counts>>

(* A statement fails or the Worker dies: 503.                              *)
Fail(w) ==
  /\ requests[w].pc \notin {"free", "answer"}
  /\ Fault("error")
  /\ Refuse(w, "failed")
  /\ excused' = IF At(w, "record") THEN excused \cup {requests[w].key} ELSE excused
  /\ UNCHANGED <<tables, sent, arrived>>

Handle(w) ==
  \/ LookUpKey(w) \/ EquivalentSearch(w) \/ HistoricalSearch(w) \/ TargetRefused(w)
  \/ Insert(w) \/ RecordKey(w) \/ LoadRun(w)

Expire(k) ==
  /\ Fault("expiry")
  /\ keys[k].live
  /\ keys' = [keys EXCEPT ![k].live = FALSE]
  /\ UNCHANGED <<runs, requests, sent, answers, excused, arrived>>

(* retry: the same again, of a run that is over, without fingerprint and   *)
(* without key.                                                            *)
Retry(r) ==
  /\ Made(r)
  /\ runs[r].over
  /\ FreeRun # {}
  /\ runs' = [runs EXCEPT ![First(FreeRun)] =
       [NoRow EXCEPT !.how = "retried", !.ask = runs[r].ask]]
  /\ UNCHANGED <<keys, requests, sent, answers, excused, counts>>

(* A run ends: see OperatorQueue.                                          *)
Finish(r) ==
  /\ Made(r)
  /\ ~runs[r].over
  /\ runs' = [runs EXCEPT ![r].over = TRUE]
  /\ UNCHANGED <<keys, requests, sent, answers, excused, counts>>

-----------------------------------------------------------------------------
(* Properties.                                                             *)

(***************************************************************************)
(* A search is not made again, whatever its other settings and its key,    *)
(* from however many requests at once: neither one that create has made,   *)
(* nor one that was made before there were fingerprints, perhaps several   *)
(* times.  Only retry repeats a search.                                    *)
(***************************************************************************)
OneRunPerSearch ==
  \A r, q \in Runs :
    /\ runs[r].how = "created" /\ runs[q].how \in {"created", "past"}
    /\ Search[runs[r].ask] = Search[runs[q].ask] /\ Search[runs[r].ask] # NoSearch
    => r = q

(***************************************************************************)
(* A key makes at most one run, however often it is sent: unless it was at *)
(* the Worker twice at once, its request failed between the INSERT of the  *)
(* run and that of the key, or the row of the key had expired.             *)
(***************************************************************************)
OneRunPerKey ==
  \A k \in Keys :
    Cardinality({r \in Runs : runs[r].key = k}) > 1 =>
      \/ k \in excused
      \/ keys[k] # NoKeyRow /\ ~keys[k].live

(***************************************************************************)
(* Whoever sends the same bytes with the same key again is never told of   *)
(* another run: not by racing requests, not after a failure half way, and  *)
(* not after the key has expired.  The one that loses hears of a failure.  *)
(* Only a retry of the run can come in its place: a request between its    *)
(* two lookups of equal searches meets one that was just made, as the      *)
(* second lookup does not leave retries out.                               *)
(***************************************************************************)
AnswersAgree ==
  \A x, y \in answers :
    x.key = y.key /\ x.ask = y.ask =>
      x.run = y.run \/ "retried" \in {runs[x.run].how, runs[y.run].how}

(***************************************************************************)
(* The run that is answered is the one that was asked for: made for the    *)
(* same bytes, or for the same search.                                     *)
(***************************************************************************)
AnswerFits ==
  \A x \in answers :
    \/ runs[x.run].ask = x.ask
    \/ Search[x.ask] # NoSearch /\ Search[runs[x.run].ask] = Search[x.ask]
=============================================================================
