----------------------- MODULE OperatorConsoleProofs -----------------------
(***************************************************************************)
(* What holds of the page New Crawl and of create behind it, for any asks, *)
(* searches and runs from the past, any number of requests and poll loops, *)
(* and whatever is sent again, cut off, lost or expired.                   *)
(*                                                                         *)
(* The inductive invariant ConsoleInv has two halves: CreateInv says what  *)
(* a request at the Worker has found out (RequestSound), which runs it may *)
(* be answered with (Answerable), and what the row of a key stands for     *)
(* (KeyOnce); MonitorInv says what a poll loop still knows of its run.     *)
(***************************************************************************)
EXTENDS OperatorConsole, FiniteSetTheorems, WellFoundedInduction, TLAPS

(* A row of operator_crawl_runs: only create gives it a key, and a         *)
(* fingerprint, which is that of its search.                               *)
RunSound(r) ==
  /\ ~Made(r) => runs[r] = NoRow
  /\ Made(r) => runs[r].ask \in Asks
  /\ runs[r].how = "created" => runs[r].print = Search[runs[r].ask]
  /\ runs[r].how # "created" => runs[r].print = NoSearch /\ runs[r].key = NoKey

(* The row of a key names a run that create has made for the same bytes.   *)
KeyRowSound(k) ==
  keys[k] # NoKeyRow =>
    /\ keys[k].run \in Runs
    /\ runs[keys[k].run].how = "created"
    /\ runs[keys[k].run].ask = keys[k].ask

(* The runs that a request with key k for a may be answered with: without  *)
(* a search the one its key stands for; with one, of those from the past   *)
(* the first.                                                              *)
Answerable(r, k, a) ==
  /\ r \in Runs /\ k \in Keys /\ a \in Asks
  /\ Made(r)
  /\ Search[a] = NoSearch => keys[k] # NoKeyRow /\ keys[k].run = r /\ keys[k].ask = a
  /\ Search[a] # NoSearch => Search[runs[r].ask] = Search[a]
  /\ Search[a] # NoSearch /\ runs[r].how = "past" =>
       \A q \in Runs : runs[q].how = "past" /\ Search[runs[q].ask] = Search[a] => r <= q

(* What a request has found out at each of its points.                     *)
RequestSound(q) ==
  /\ q.pc = "free" => q = Idle
  /\ q.pc = "answer" => q.key = NoKey
  /\ q.pc = "answer" /\ q.code = "accepted" => q.run \in Runs /\ Made(q.run)
  /\ q.pc = "answer" /\ q.over => q.run \in Runs /\ runs[q.run].over
  /\ q.pc \notin {"free", "answer"} => q.key \in Keys /\ q.ask \in Asks
  /\ q.pc \in {"search", "history"} => Search[q.ask] # NoSearch
  /\ q.pc = "insert" /\ Search[q.ask] # NoSearch =>
       \A r \in Runs : runs[r].how = "past" => Search[runs[r].ask] # Search[q.ask]
  /\ q.pc = "record" =>
       q.run \in Runs /\ runs[q.run].how = "created" /\ runs[q.run].ask = q.ask
  /\ q.pc = "load" => Answerable(q.run, q.key, q.ask)

Expired(k) == keys[k] # NoKeyRow /\ ~keys[k].live

(* A key is at the Worker once at a time, and while it has no row, the     *)
(* only run it can have made is that of the request about to record it.    *)
KeyOnce(k) ==
  k \notin excused =>
    /\ \A v, w \in Requests : requests[v].key = k /\ requests[w].key = k => v = w
    /\ \/ Expired(k)
       \/ /\ \A w \in Requests :
               requests[w].key = k /\ requests[w].pc \in {"search", "history", "insert", "record"}
               => keys[k] = NoKeyRow
          /\ \A r \in Runs : runs[r].key = k =>
               \/ keys[k] # NoKeyRow /\ keys[k].run = r
               \/ \E w \in Requests :
                    requests[w].key = k /\ requests[w].pc = "record" /\ requests[w].run = r

CreateInv ==
  /\ CreateTypeOK
  /\ \A r \in Runs : RunSound(r)
  /\ \A k \in Keys : KeyRowSound(k)
  /\ \A w \in Requests : RequestSound(requests[w])
  /\ \A x \in answers : Answerable(x.run, x.key, x.ask)
  /\ OneRunPerSearch
  /\ \A k \in Keys : KeyOnce(k)

(* What the component shows was so.                                        *)
MonitorSound ==
  /\ monitor.run # NoRun => Made(monitor.run) /\ Polls # {}
  /\ monitor.hasFetched => monitor.detail # "none"
  /\ monitor.hasFetched /\ monitor.detail = "over" => monitor.final
  /\ monitor.detail = "over" => monitor.run # NoRun /\ runs[monitor.run].over

(* What a loop has read was so; the one that is not stopped is about the   *)
(* run of the component, and has nothing older to tell than it shows.      *)
LoopSound(p) ==
  /\ polls[p].stopped => In(p, "read")
  /\ Live(p) => polls[p].run = monitor.run /\ monitor.run # NoRun
  /\ polls[p].over => polls[p].run # NoRun /\ runs[polls[p].run].over
  /\ In(p, "read") /\ polls[p].over => polls[p].final
  /\ Live(p) /\ polls[p].state \in {"row", "read"}
       /\ monitor.hasFetched /\ monitor.detail = "over" => polls[p].over

MonitorInv ==
  /\ MonitorTypeOK
  /\ MonitorSound
  /\ \A p \in Polls : LoopSound(p)
  /\ PollsOnce
  /\ NeverSilent

ConsoleInv == CreateInv /\ MonitorInv

-----------------------------------------------------------------------------
(* Tables that only grow.                                                  *)

(* A set of runs has a first one, as the sets of the lesser ones of its    *)
(* members are finite.                                                     *)
LEMMA FirstIsLeast ==
  ASSUME NEW R \in SUBSET Runs, R # {}
  PROVE  First(R) \in R /\ \A q \in R : First(R) <= q
<1> DEFINE Below(x) == {y \in R : y < x}
           Belows == {Below(x) : x \in R}
<1>1. MaxRuns \in Nat /\ R \subseteq Nat
  BY ConstantsAssumption DEF Runs
<1>2. IsFiniteSet(R)
  <2>1. IsFiniteSet(1..MaxRuns)
    BY <1>1, FS_Interval
  <2> QED
    BY <2>1, FS_Subset DEF Runs
<1>3. PICK B \in Belows : \A C \in Belows : <<C, B>> \notin StrictSubsetOrdering(R)
  <2>1. IsWellFoundedOn(StrictSubsetOrdering(R), FiniteSubsetsOf(R))
    BY FS_StrictSubsetOrderingWellFounded
  <2>2. ASSUME NEW x \in R PROVE Below(x) \in FiniteSubsetsOf(R)
    <3>1. Below(x) \in SUBSET R
      OBVIOUS
    <3> QED
      BY <3>1, <1>2, FS_Subset DEF FiniteSubsetsOf
  <2>3. Belows \subseteq FiniteSubsetsOf(R) /\ Belows # {}
    BY <2>2
  <2> HIDE DEF Belows
  <2> QED
    BY <2>1, <2>3, WFMin
<1>4. PICK x \in R : B = Below(x)
  BY <1>3
<1>5. ASSUME NEW y \in R PROVE x <= y
  <2>1. SUFFICES ASSUME y < x PROVE FALSE
    BY <1>1
  <2>2. y \in Below(x) /\ y \notin Below(y)
    BY <1>1, <2>1
  <2>3. ASSUME NEW z \in Below(y) PROVE z \in Below(x)
    BY <1>1, <2>1
  <2>4. Below(y) \subseteq Below(x) /\ Below(y) # Below(x)
    BY <2>2, <2>3
  <2>5. <<Below(y), Below(x)>> \notin StrictSubsetOrdering(R)
    BY <1>3, <1>4
  <2>6. Below(x) \subseteq R /\ Below(y) \subseteq R
    OBVIOUS
  <2> HIDE DEF Below
  <2> QED
    BY <2>4, <2>5, <2>6 DEF StrictSubsetOrdering
<1> QED
  BY <1>5 DEF First

(* A row keeps what it was made for, an ended run does not open again, and *)
(* no run comes to the past.                                               *)
RunsGrow ==
  /\ runs' \in [Runs -> Run]
  /\ \A r \in Runs : Made(r) =>
       /\ runs'[r].how = runs[r].how /\ runs'[r].ask = runs[r].ask
       /\ runs'[r].print = runs[r].print /\ runs'[r].key = runs[r].key
       /\ runs[r].over => runs'[r].over
  /\ \A r \in Runs : ~Made(r) => runs'[r].how # "past"

(* A key keeps its run, and an expired one does not come back.             *)
KeysGrow ==
  /\ keys' \in [Keys -> KeyRow \cup {NoKeyRow}]
  /\ \A k \in Keys : keys[k] # NoKeyRow =>
       /\ keys'[k] # NoKeyRow
       /\ keys'[k].ask = keys[k].ask /\ keys'[k].run = keys[k].run
       /\ ~keys[k].live => ~keys'[k].live

Grow == RunsGrow /\ KeysGrow

(* What may be answered stays so.                                          *)
LEMMA AnswerableKept ==
  ASSUME CreateInv, Grow, NEW r, NEW k, NEW a, Answerable(r, k, a)
  PROVE  Answerable(r, k, a)'
<1>1. \A q \in Runs : runs'[q].how = "past" =>
        runs[q].how = "past" /\ runs'[q].ask = runs[q].ask
  BY DEF Grow, RunsGrow, Made
<1> QED
  BY <1>1 DEF Answerable, Grow, RunsGrow, KeysGrow, Made

(* What a request knows stays so, and so do the answers that were given.   *)
LEMMA KnownKept ==
  ASSUME CreateInv, Grow
  PROVE  /\ \A w \in Requests :
              requests'[w] = requests[w] => RequestSound(requests[w])'
         /\ \A x \in answers : Answerable(x.run, x.key, x.ask)'
<1>1. ASSUME NEW w \in Requests, requests'[w] = requests[w]
      PROVE  RequestSound(requests[w])'
  <2>1. PICK q : q = requests[w] /\ q = requests'[w]
    BY <1>1
  <2>2. RequestSound(q)
    BY <2>1 DEF CreateInv
  <2>3. q.pc = "load" => Answerable(q.run, q.key, q.ask)'
    BY <2>2, AnswerableKept DEF RequestSound
  <2>4. \A r \in Runs : runs'[r].how = "past" =>
          runs[r].how = "past" /\ runs'[r].ask = runs[r].ask
    BY DEF Grow, RunsGrow, Made
  <2>5. q.pc = "insert" /\ Search[q.ask] # NoSearch =>
          \A r \in Runs : runs'[r].how = "past" => Search[runs'[r].ask] # Search[q.ask]
    BY <2>2, <2>4 DEF RequestSound
  <2>6. \A r \in Runs : Made(r) => Made(r)' /\ (runs[r].over => runs'[r].over)
          /\ runs'[r].how = runs[r].how /\ runs'[r].ask = runs[r].ask
    BY DEF Grow, RunsGrow, Made
  <2>7. \A r \in Runs : runs[r].over \/ runs[r].how = "created" => Made(r)
    BY DEF CreateInv, RunSound, Made, NoRow
  <2> QED
    BY <2>1, <2>2, <2>3, <2>5, <2>6, <2>7 DEF RequestSound
<1>2. ASSUME NEW x \in answers
      PROVE  Answerable(x.run, x.key, x.ask)'
  BY AnswerableKept DEF CreateInv
<1> QED
  BY <1>1, <1>2

(* Steps that leave the tables as they are.                                *)
LEMMA QuietTables ==
  ASSUME CreateInv, UNCHANGED tables
  PROVE  /\ Grow
         /\ \A r \in Runs : RunSound(r)'
         /\ \A k \in Keys : KeyRowSound(k)'
         /\ OneRunPerSearch'
<1>1. UNCHANGED <<runs, keys>>
  BY DEF tables
<1>2. Grow
  BY <1>1 DEF Grow, RunsGrow, KeysGrow, Made, CreateInv, CreateTypeOK
<1>3. /\ \A r \in Runs : RunSound(r)'
      /\ \A k \in Keys : KeyRowSound(k)'
      /\ OneRunPerSearch'
  BY <1>1 DEF CreateInv, RunSound, KeyRowSound, OneRunPerSearch, Made
<1> QED
  BY <1>2, <1>3

(* Before the key is recorded, and after it has been looked up.            *)
Unrecorded == {"search", "history", "insert", "record"}

(* A key whose row stays, and none of whose requests comes, goes past the  *)
(* lookup without cause, or leaves its run unrecorded.                     *)
LEMMA KeyOnceKept ==
  ASSUME CreateInv, NEW k \in Keys, excused \subseteq excused', keys'[k] = keys[k],
         \A r \in Runs : runs'[r].key = k => runs[r].key = k,
         \A v \in Requests : requests'[v].key = k =>
           /\ requests[v].key = k
           /\ requests'[v].pc \in Unrecorded =>
                requests[v].pc \in Unrecorded \/ keys[k] = NoKeyRow \/ Expired(k),
         \A v \in Requests : requests[v].key = k /\ requests[v].pc = "record" =>
           \/ k \in excused'
           \/ requests'[v].key = k /\ requests'[v].pc = "record"
                /\ requests'[v].run = requests[v].run
  PROVE  KeyOnce(k)'
<1>1. KeyOnce(k)
  BY DEF CreateInv
<1>2. SUFFICES ASSUME k \notin excused' PROVE KeyOnce(k)'
  BY DEF KeyOnce
<1>3. k \notin excused
  BY <1>2
<1>4. \A v, w \in Requests : requests'[v].key = k /\ requests'[w].key = k => v = w
  BY <1>1, <1>3 DEF KeyOnce
<1>5. CASE Expired(k)
  BY <1>4, <1>5 DEF KeyOnce, Expired
<1>6. CASE ~Expired(k)
  <2>1. \A w \in Requests : requests'[w].key = k /\ requests'[w].pc \in Unrecorded =>
          keys'[k] = NoKeyRow
    BY <1>1, <1>3, <1>6 DEF KeyOnce, Unrecorded
  <2>2. \A r \in Runs : runs'[r].key = k =>
          \/ keys'[k] # NoKeyRow /\ keys'[k].run = r
          \/ \E w \in Requests : requests'[w].key = k /\ requests'[w].pc = "record"
                                   /\ requests'[w].run = r
    BY <1>1, <1>2, <1>3, <1>6 DEF KeyOnce
  <2> QED
    BY <1>4, <2>1, <2>2 DEF KeyOnce, Unrecorded
<1> QED
  BY <1>5, <1>6

(* What is left to see of a step.                                          *)
LEMMA CreateInvKept ==
  ASSUME CreateInv, Grow, CreateTypeOK',
         \A r \in Runs : RunSound(r)',
         \A k \in Keys : KeyRowSound(k)',
         \A w \in Requests : requests'[w] = requests[w] \/ RequestSound(requests[w])',
         \A x \in answers' \ answers : Answerable(x.run, x.key, x.ask)',
         OneRunPerSearch',
         \A k \in Keys : KeyOnce(k)'
  PROVE  CreateInv'
<1>1. \A w \in Requests : RequestSound(requests[w])'
  BY KnownKept
<1>2. \A x \in answers' : Answerable(x.run, x.key, x.ask)'
  BY KnownKept
<1> QED
  BY <1>1, <1>2 DEF CreateInv

(* A request goes on, and the tables stay as they are.                     *)
LEMMA QuietRequest ==
  ASSUME CreateInv, UNCHANGED tables, NEW w \in Requests, NEW n \in Request,
         requests' = [requests EXCEPT ![w] = n],
         CreateTypeOK', excused \subseteq excused',
         RequestSound(requests[w])',
         \A x \in answers' \ answers : Answerable(x.run, x.key, x.ask)',
         n.key \in {NoKey, requests[w].key},
         n.pc \in Unrecorded /\ n.key # NoKey =>
           \/ requests[w].pc \in Unrecorded
           \/ keys[n.key] = NoKeyRow \/ Expired(n.key),
         requests[w].pc = "record" => requests[w].key \in excused' \/ Expired(requests[w].key)
  PROVE  CreateInv'
<1>1. UNCHANGED <<runs, keys>> /\ requests \in [Requests -> Request]
  BY DEF tables, CreateInv, CreateTypeOK
<1>2. requests'[w] = n /\ \A v \in Requests \ {w} : requests'[v] = requests[v]
  BY <1>1
<1>3. ASSUME NEW k \in Keys
      PROVE  KeyOnce(k)'
  <2>1. k # NoKey
    BY ConstantsAssumption
  <2>2. CASE requests[w].key = k /\ requests[w].pc = "record" /\ k \notin excused'
    <3>1. KeyOnce(k) /\ k \notin excused /\ Expired(k)
      BY <2>2 DEF CreateInv
    <3> QED
      BY <1>1, <1>2, <2>1, <3>1 DEF KeyOnce, Expired
  <2>3. CASE ~(requests[w].key = k /\ requests[w].pc = "record" /\ k \notin excused')
    BY <1>1, <1>2, <2>1, <2>3, KeyOnceKept
  <2> QED
    BY <2>2, <2>3
<1>4. \A v \in Requests : requests'[v] = requests[v] \/ RequestSound(requests[v])'
  BY <1>2
<1> QED
  BY <1>3, <1>4, QuietTables, CreateInvKept

-----------------------------------------------------------------------------
(* The steps of create.                                                    *)

LEMMA NoOnes == NoKey \notin Keys /\ NoAsk \notin Asks /\ NoSearch \notin Searches
BY ConstantsAssumption

LEMMA IdleIsRequest == Idle \in Request /\ NoRun \notin Runs
BY DEF Idle, Request, Points, Codes, NoRun, Runs

(* A request that is answered, or that nobody waits for any more.          *)
LEMMA ReplyEffect ==
  ASSUME CreateInv, NEW w \in Requests, NEW code \in Codes, NEW r \in Runs \cup {NoRun},
         NEW over \in BOOLEAN, Reply(w, code, r, over),
         code = "accepted" => r \in Runs /\ Made(r)',
         over => r \in Runs /\ runs'[r].over
  PROVE  \E n \in Request : /\ requests' = [requests EXCEPT ![w] = n]
                            /\ n.key = NoKey /\ n.pc \in {"free", "answer"}
                            /\ RequestSound(requests[w])'
<1> DEFINE a == [Idle EXCEPT !.pc = "answer", !.heard = TRUE, !.code = code,
                             !.run = r, !.over = over]
           n == IF requests[w].heard THEN a ELSE Idle
<1>1. requests \in [Requests -> Request]
  BY DEF CreateInv, CreateTypeOK
<1>2. requests' = [requests EXCEPT ![w] = n] /\ requests'[w] = n
  BY <1>1 DEF Reply
<1>3. n \in Request /\ n.key = NoKey /\ n.pc \in {"free", "answer"}
  BY DEF Idle, Request, Points, Codes
<1>4. RequestSound(requests[w])'
  <2>1. CASE n = Idle
    BY <1>2, <2>1 DEF RequestSound, Idle
  <2>2. CASE n = a
    <3>1. PICK q : q = a
      OBVIOUS
    <3>2. q.pc = "answer" /\ q.key = NoKey /\ q.code = code /\ q.run = r /\ q.over = over
      BY <3>1 DEF Idle
    <3>3. requests'[w] = q
      BY <1>2, <2>2, <3>1
    <3> HIDE DEF a, n
    <3> QED
      BY <3>2, <3>3 DEF RequestSound, Made
  <2> QED
    BY <2>1, <2>2
<1> QED
  BY <1>2, <1>3, <1>4

(* A request is refused, and the tables stay as they are.                  *)
LEMMA RefuseStep ==
  ASSUME CreateInv, NEW w \in Requests, NEW code \in Codes \ {"accepted"}, Refuse(w, code),
         UNCHANGED <<tables, sent, arrived>>, excused \subseteq excused',
         excused' \subseteq Keys, faults' \in 0..MaxFaults,
         requests[w].pc = "record" => requests[w].key \in excused' \/ Expired(requests[w].key)
  PROVE  CreateInv'
<1>1. PICK n \in Request : /\ requests' = [requests EXCEPT ![w] = n]
                           /\ n.key = NoKey /\ n.pc \in {"free", "answer"}
                           /\ RequestSound(requests[w])'
  BY ReplyEffect DEF Refuse
<1>2. CreateTypeOK'
  BY <1>1 DEF CreateInv, CreateTypeOK, tables, Refuse
<1>3. answers' = answers
  BY DEF Refuse
<1> QED
  BY <1>1, <1>2, <1>3, QuietRequest

(* A request is answered with a run.                                       *)
LEMMA AcceptStep ==
  ASSUME CreateInv, NEW w \in Requests, NEW r, Accept(w, r),
         requests[w].pc \notin {"free", "answer", "record"},
         Answerable(r, requests[w].key, requests[w].ask),
         UNCHANGED <<tables, sent, excused, counts>>
  PROVE  CreateInv'
<1>1. r \in Runs /\ Made(r) /\ UNCHANGED <<runs, keys>> /\ runs[r].over \in BOOLEAN
  BY DEF Answerable, tables, CreateInv, CreateTypeOK, Run
<1>2. Made(r)'
  BY <1>1 DEF Made
<1>3. PICK n \in Request : /\ requests' = [requests EXCEPT ![w] = n]
                           /\ n.key = NoKey /\ n.pc \in {"free", "answer"}
                           /\ RequestSound(requests[w])'
  BY <1>1, <1>2, ReplyEffect DEF Accept, Codes
<1>4. PICK x \in Answer : /\ answers' = answers \cup {x}
                          /\ x.key = requests[w].key /\ x.ask = requests[w].ask /\ x.run = r
  <2>1. PICK x : x = [key |-> requests[w].key, ask |-> requests[w].ask, run |-> r]
    OBVIOUS
  <2>2. x \in Answer /\ x.key = requests[w].key /\ x.ask = requests[w].ask /\ x.run = r
    BY <2>1 DEF Answerable, Answer
  <2> QED
    BY <2>1, <2>2 DEF Accept
<1>5. CreateTypeOK'
  BY <1>3, <1>4 DEF CreateInv, CreateTypeOK, tables, counts
<1>6. Answerable(x.run, x.key, x.ask)'
  <2>1. PICK k, a : k = x.key /\ a = x.ask
    OBVIOUS
  <2>2. Answerable(r, k, a)
    BY <1>4, <2>1
  <2>3. Answerable(r, k, a)'
    BY <2>2, QuietTables, AnswerableKept
  <2> QED
    BY <1>4, <2>1, <2>3
<1> QED
  BY <1>3, <1>4, <1>5, <1>6, QuietRequest

(* A request is about to load a run.                                       *)
LEMMA LoadStep ==
  ASSUME CreateInv, NEW w \in Requests, NEW r, Load(w, r),
         requests[w].pc \notin {"free", "answer", "record"},
         Answerable(r, requests[w].key, requests[w].ask),
         UNCHANGED <<tables, sent, excused, counts>>
  PROVE  CreateInv'
<1>1. PICK n : n = [requests[w] EXCEPT !.pc = "load", !.run = r]
  OBVIOUS
<1>2. requests \in [Requests -> Request] /\ requests[w] \in Request /\ r \in Runs
  BY DEF CreateInv, CreateTypeOK, Answerable
<1>3. /\ requests' = [requests EXCEPT ![w] = n] /\ requests'[w] = n
      /\ n \in Request /\ n.pc = "load" /\ n.run = r
      /\ n.key = requests[w].key /\ n.ask = requests[w].ask
  BY <1>1, <1>2 DEF Load, Request, Points
<1>4. RequestSound(requests[w])'
  <2>1. Answerable(r, n.key, n.ask)'
    <3>1. Answerable(r, n.key, n.ask)
      BY <1>3
    <3> QED
      BY <3>1, QuietTables, AnswerableKept
  <2>2. n.key \in Keys /\ n.ask \in Asks
    BY <1>3 DEF Answerable
  <2> QED
    BY <1>3, <2>1, <2>2 DEF RequestSound
<1>5. CreateTypeOK'
  BY <1>3 DEF CreateInv, CreateTypeOK, tables, counts, Load
<1> QED
  BY <1>3, <1>4, <1>5, QuietRequest DEF Load, Unrecorded

(* A request goes on to another lookup or to its INSERT.                   *)
LEMMA GoStep ==
  ASSUME CreateInv, NEW w \in Requests, NEW point \in {"search", "history", "insert"},
         Go(w, point), requests[w].pc \notin {"free", "answer", "record"},
         UNCHANGED <<tables, sent, answers, excused, counts>>,
         point \in {"search", "history"} => Search[requests[w].ask] # NoSearch,
         point = "insert" /\ Search[requests[w].ask] # NoSearch =>
           \A r \in Runs : runs[r].how = "past" => Search[runs[r].ask] # Search[requests[w].ask],
         \/ requests[w].pc \in Unrecorded
         \/ keys[requests[w].key] = NoKeyRow \/ Expired(requests[w].key)
  PROVE  CreateInv'
<1>1. PICK n : n = [requests[w] EXCEPT !.pc = point]
  OBVIOUS
<1>2. requests \in [Requests -> Request] /\ requests[w] \in Request
  BY DEF CreateInv, CreateTypeOK
<1>3. /\ requests' = [requests EXCEPT ![w] = n] /\ requests'[w] = n
      /\ n \in Request /\ n.pc = point
      /\ n.key = requests[w].key /\ n.ask = requests[w].ask
  BY <1>1, <1>2 DEF Go, Request, Points
<1>4. RequestSound(requests[w])'
  <2>1. n.key \in Keys /\ n.ask \in Asks /\ UNCHANGED runs
    BY <1>3 DEF CreateInv, RequestSound, tables
  <2> QED
    BY <1>3, <2>1 DEF RequestSound
<1>5. CreateTypeOK'
  BY <1>3 DEF CreateInv, CreateTypeOK, tables, counts
<1> QED
  BY <1>3, <1>4, <1>5, QuietRequest DEF tables

(* Between the lookup of a key and that of its row.                        *)
LEMMA LookUpKeyStep ==
  ASSUME CreateInv, NEW w \in Requests, LookUpKey(w)
  PROVE  CreateInv'
<1> DEFINE k == requests[w].key
           a == requests[w].ask
<1>1. requests[w].pc = "key" /\ k \in Keys /\ a \in Asks /\ UNCHANGED <<tables, sent, excused, counts>>
  BY DEF LookUpKey, At, CreateInv, RequestSound
<1>2. keys[k] \in KeyRow \cup {NoKeyRow} /\ NoKeyRow.live = FALSE
  BY <1>1 DEF CreateInv, CreateTypeOK, NoKeyRow
<1>3. CASE keys[k].live /\ keys[k].ask # a /\ Refuse(w, "conflict")
  <2>1. excused' \subseteq Keys /\ faults' \in 0..MaxFaults
    BY <1>1 DEF CreateInv, CreateTypeOK, counts
  <2> QED
    BY <1>1, <1>3, <2>1, RefuseStep DEF counts, Codes
<1>4. CASE keys[k].live /\ keys[k].ask = a /\ Load(w, keys[k].run)
  <2>1. keys[k] # NoKeyRow
    BY <1>2, <1>4
  <2>2. /\ keys[k].run \in Runs /\ runs[keys[k].run].how = "created"
        /\ runs[keys[k].run].ask = a
    BY <1>1, <1>4, <2>1 DEF CreateInv, KeyRowSound
  <2>3. Answerable(keys[k].run, k, a)
    BY <1>1, <1>4, <2>1, <2>2 DEF Answerable, Made
  <2> QED
    BY <1>1, <1>4, <2>3, LoadStep
<1>5. CASE /\ ~keys[k].live
           /\ Go(w, IF Search[a] = NoSearch THEN "insert" ELSE "search")
           /\ UNCHANGED answers
  <2>1. keys[k] = NoKeyRow \/ Expired(k)
    BY <1>5 DEF Expired
  <2>2. CASE Search[a] = NoSearch
    BY <1>1, <1>5, <2>1, <2>2, GoStep
  <2>3. CASE Search[a] # NoSearch
    BY <1>1, <1>5, <2>1, <2>3, GoStep
  <2> QED
    BY <2>2, <2>3
<1> QED
  BY <1>3, <1>4, <1>5 DEF LookUpKey

LEMMA EquivalentSearchStep ==
  ASSUME CreateInv, NEW w \in Requests, EquivalentSearch(w)
  PROVE  CreateInv'
<1> DEFINE a == requests[w].ask
           found == Printed(Search[a])
<1>1. /\ requests[w].pc = "search" /\ requests[w].key \in Keys /\ a \in Asks
      /\ Search[a] # NoSearch /\ UNCHANGED <<tables, sent, excused, counts>>
  BY DEF EquivalentSearch, At, CreateInv, RequestSound
<1>2. CASE found # {} /\ Accept(w, First(found))
  <2>1. First(found) \in found
    BY <1>2, FirstIsLeast DEF Printed
  <2>2. PICK r : r = First(found)
    OBVIOUS
  <2>3. r \in Runs /\ Made(r) /\ runs[r].print = Search[a]
    BY <2>1, <2>2 DEF Printed
  <2>4. runs[r].how = "created" /\ Search[runs[r].ask] = Search[a]
    BY <1>1, <2>3 DEF CreateInv, RunSound
  <2>5. Answerable(r, requests[w].key, a)
    BY <1>1, <2>3, <2>4 DEF Answerable
  <2> QED
    BY <1>1, <1>2, <2>2, <2>5, AcceptStep
<1>3. CASE Go(w, "history") /\ UNCHANGED answers
  BY <1>1, <1>3, GoStep DEF Unrecorded
<1> QED
  BY <1>2, <1>3 DEF EquivalentSearch

(* A run from the past without a fingerprint is among those looked at.     *)
LEMMA HistoricalSearchStep ==
  ASSUME CreateInv, NEW w \in Requests, HistoricalSearch(w)
  PROVE  CreateInv'
<1> DEFINE a == requests[w].ask
           found == Historical(Search[a])
<1>1. /\ requests[w].pc = "history" /\ requests[w].key \in Keys /\ a \in Asks
      /\ Search[a] # NoSearch /\ UNCHANGED <<tables, sent, excused, counts>>
  BY DEF HistoricalSearch, At, CreateInv, RequestSound
<1>2. \A r \in Runs : runs[r].how = "past" /\ Search[runs[r].ask] = Search[a] => r \in found
  BY DEF CreateInv, RunSound, Historical, Made
<1>3. CASE found # {} /\ Load(w, First(found))
  <2>1. PICK r : r = First(found)
    OBVIOUS
  <2>2. r \in found /\ \A q \in found : r <= q
    BY <1>3, <2>1, FirstIsLeast DEF Historical
  <2>3. r \in Runs /\ Made(r) /\ Search[runs[r].ask] = Search[a]
    BY <2>2 DEF Historical
  <2>4. Answerable(r, requests[w].key, a)
    BY <1>1, <1>2, <2>2, <2>3 DEF Answerable
  <2> QED
    BY <1>1, <1>3, <2>1, <2>4, LoadStep
<1>4. CASE Refuse(w, "failed")
  <2>1. excused' \subseteq Keys /\ faults' \in 0..MaxFaults
    BY <1>1 DEF CreateInv, CreateTypeOK, counts
  <2> QED
    BY <1>1, <1>4, <2>1, RefuseStep DEF counts, Codes
<1>5. CASE found = {} /\ Go(w, "insert") /\ UNCHANGED answers
  BY <1>1, <1>2, <1>5, GoStep DEF Unrecorded
<1> QED
  BY <1>3, <1>4, <1>5 DEF HistoricalSearch

LEMMA TargetRefusedStep ==
  ASSUME CreateInv, NEW w \in Requests, TargetRefused(w)
  PROVE  CreateInv'
<1>1. /\ requests[w].pc = "insert" /\ Refuse(w, "refused")
      /\ UNCHANGED <<tables, sent, excused, counts>>
  BY DEF TargetRefused, At
<1>2. excused' \subseteq Keys /\ faults' \in 0..MaxFaults
  BY <1>1 DEF CreateInv, CreateTypeOK, counts
<1> QED
  BY <1>1, <1>2, RefuseStep DEF counts, Codes

LEMMA LoadRunStep ==
  ASSUME CreateInv, NEW w \in Requests, LoadRun(w)
  PROVE  CreateInv'
<1>1. /\ requests[w].pc = "load" /\ Accept(w, requests[w].run)
      /\ UNCHANGED <<tables, sent, excused, counts>>
  BY DEF LoadRun, At
<1>2. Answerable(requests[w].run, requests[w].key, requests[w].ask)
  BY <1>1 DEF CreateInv, RequestSound
<1> QED
  BY <1>1, <1>2, AcceptStep

LEMMA FailStep ==
  ASSUME CreateInv, NEW w \in Requests, Fail(w)
  PROVE  CreateInv'
<1>1. /\ requests[w].pc \notin {"free", "answer"} /\ Refuse(w, "failed")
      /\ UNCHANGED <<tables, sent, arrived>> /\ faults < MaxFaults /\ faults' = faults + 1
      /\ excused' = IF requests[w].pc = "record" THEN excused \cup {requests[w].key} ELSE excused
  BY DEF Fail, At, Fault
<1>2. requests[w].key \in Keys
  BY <1>1 DEF CreateInv, RequestSound
<1>3. excused' \subseteq Keys /\ faults' \in 0..MaxFaults
  BY <1>1, <1>2, ConstantsAssumption DEF CreateInv, CreateTypeOK
<1> QED
  BY <1>1, <1>3, RefuseStep DEF Codes

(* A row for a new run.                                                    *)
LEMMA FreeRunFirst ==
  ASSUME FreeRun # {}
  PROVE  First(FreeRun) \in Runs /\ ~Made(First(FreeRun))
BY FirstIsLeast DEF FreeRun

LEMMA NewRun ==
  ASSUME CreateInv, NEW f \in Runs, ~Made(f), NEW new \in Run,
         new.how \in {"created", "retried"}, new.ask \in Asks,
         new.how = "created" => new.print = Search[new.ask],
         new.how # "created" => new.print = NoSearch /\ new.key = NoKey,
         runs' = [runs EXCEPT ![f] = new], UNCHANGED keys
  PROVE  /\ Grow
         /\ runs'[f] = new /\ \A r \in Runs \ {f} : runs'[r] = runs[r]
         /\ \A r \in Runs : RunSound(r)'
         /\ \A k \in Keys : KeyRowSound(k)'
<1>1. runs \in [Runs -> Run] /\ keys \in [Keys -> KeyRow \cup {NoKeyRow}]
  BY DEF CreateInv, CreateTypeOK
<1>2. runs'[f] = new /\ \A r \in Runs \ {f} : runs'[r] = runs[r]
  BY <1>1
<1>3. Grow
  BY <1>1, <1>2 DEF Grow, RunsGrow, KeysGrow, Made
<1>4. ASSUME NEW r \in Runs
      PROVE  RunSound(r)'
  BY <1>2 DEF CreateInv, RunSound, Made
<1>5. ASSUME NEW k \in Keys
      PROVE  KeyRowSound(k)'
  <2>1. KeyRowSound(k)
    BY DEF CreateInv
  <2>2. keys[k] # NoKeyRow => keys[k].run # f
    BY <2>1 DEF KeyRowSound, Made
  <2> QED
    BY <1>2, <2>1, <2>2 DEF KeyRowSound
<1> QED
  BY <1>2, <1>3, <1>4, <1>5

(* The INSERT takes effect: the unique index has found no equal search.    *)
LEMMA InsertedRun ==
  ASSUME CreateInv, NEW w \in Requests, requests[w].pc = "insert", FreeRun # {},
         Search[requests[w].ask] # NoSearch => Printed(Search[requests[w].ask]) = {},
         runs' = [runs EXCEPT ![First(FreeRun)] = Inserted(w)], UNCHANGED keys
  PROVE  LET f == First(FreeRun) IN
         /\ f \in Runs /\ Grow
         /\ runs'[f] = Inserted(w) /\ \A r \in Runs \ {f} : runs'[r] = runs[r]
         /\ \A r \in Runs : RunSound(r)'
         /\ \A k \in Keys : KeyRowSound(k)'
         /\ OneRunPerSearch'
<1> DEFINE a == requests[w].ask
<1>1. PICK f \in Runs : f = First(FreeRun) /\ ~Made(f)
  BY FreeRunFirst
<1>2. requests[w].key \in Keys /\ a \in Asks /\ Search[a] \in Searches \cup {NoSearch}
  BY ConstantsAssumption DEF CreateInv, RequestSound
<1>3. /\ Inserted(w) \in Run /\ Inserted(w).how = "created" /\ Inserted(w).ask = a
      /\ Inserted(w).print = Search[a]
  BY <1>2 DEF Inserted, Run, Origins
<1>4. /\ Grow
      /\ runs'[f] = Inserted(w) /\ \A r \in Runs \ {f} : runs'[r] = runs[r]
      /\ \A r \in Runs : RunSound(r)'
      /\ \A k \in Keys : KeyRowSound(k)'
  BY <1>1, <1>2, <1>3, NewRun
<1>5. ASSUME NEW r \in Runs, runs[r].how \in {"created", "past"},
             Search[runs[r].ask] = Search[a], Search[a] # NoSearch
      PROVE  FALSE
  <2>1. CASE runs[r].how = "created"
    <3>1. runs[r].print = Search[a] /\ Made(r)
      BY <1>5, <2>1 DEF CreateInv, RunSound, Made
    <3> QED
      BY <1>5, <2>1, <3>1 DEF Printed
  <2>2. CASE runs[r].how = "past"
    BY <1>5, <2>2 DEF CreateInv, RequestSound
  <2> QED
    BY <1>5, <2>1, <2>2
<1>6. OneRunPerSearch'
  BY <1>3, <1>4, <1>5 DEF CreateInv, OneRunPerSearch
<1> QED
  BY <1>1, <1>4, <1>6

LEMMA InsertStep ==
  ASSUME CreateInv, NEW w \in Requests, Insert(w)
  PROVE  CreateInv'
<1> DEFINE s == Search[requests[w].ask]
<1>1. /\ requests[w].pc = "insert" /\ FreeRun # {} /\ requests[w].key \in Keys
      /\ UNCHANGED <<keys, sent, excused, counts>> /\ requests[w].ask \in Asks
  BY DEF Insert, At, CreateInv, RequestSound
<1>2. requests \in [Requests -> Request] /\ requests[w] \in Request
  BY DEF CreateInv, CreateTypeOK
<1>3. CASE s # NoSearch /\ Printed(s) # {} /\ Caught(w) /\ UNCHANGED runs
  <2>1. PICK n : n = [requests[w] EXCEPT !.pc = "search", !.again = TRUE]
    OBVIOUS
  <2>2. /\ requests' = [requests EXCEPT ![w] = n] /\ requests'[w] = n
        /\ n \in Request /\ n.pc = "search" /\ n.key = requests[w].key
        /\ n.ask = requests[w].ask /\ UNCHANGED answers
    BY <1>2, <1>3, <2>1 DEF Caught, Request, Points
  <2>3. RequestSound(requests[w])'
    BY <1>1, <1>3, <2>2 DEF RequestSound
  <2>4. CreateTypeOK' /\ UNCHANGED tables
    BY <1>1, <1>3, <2>2 DEF CreateInv, CreateTypeOK, counts, tables
  <2> QED
    BY <1>1, <2>2, <2>3, <2>4, QuietRequest DEF Unrecorded
<1>4. CASE /\ s # NoSearch => Printed(s) = {}
           /\ runs' = [runs EXCEPT ![First(FreeRun)] = Inserted(w)]
           /\ requests' = [requests EXCEPT ![w] =
                [@ EXCEPT !.pc = "record", !.run = First(FreeRun)]]
           /\ UNCHANGED answers
  <2>1. PICK f : f = First(FreeRun)
    OBVIOUS
  <2>2. /\ f \in Runs /\ Grow
        /\ runs'[f] = Inserted(w) /\ \A r \in Runs \ {f} : runs'[r] = runs[r]
        /\ \A r \in Runs : RunSound(r)'
        /\ \A k \in Keys : KeyRowSound(k)'
        /\ OneRunPerSearch'
    BY <1>1, <1>4, <2>1, InsertedRun
  <2>3. /\ requests'[w].pc = "record" /\ requests'[w].run = f
        /\ requests'[w].key = requests[w].key /\ requests'[w].ask = requests[w].ask
        /\ requests' \in [Requests -> Request]
        /\ \A v \in Requests \ {w} : requests'[v] = requests[v]
    BY <1>2, <1>4, <2>1, <2>2 DEF Request, Points
  <2>4. Inserted(w).how = "created" /\ Inserted(w).ask = requests[w].ask
        /\ Inserted(w).key = requests[w].key
    BY DEF Inserted
  <2>5. RequestSound(requests[w])'
    BY <1>1, <2>2, <2>3, <2>4 DEF RequestSound
  <2>6. CreateTypeOK'
    BY <1>1, <1>4, <2>2, <2>3 DEF CreateInv, CreateTypeOK, counts, Grow, RunsGrow
  <2>7. ASSUME NEW k \in Keys
        PROVE  KeyOnce(k)'
    <3>1. CASE k # requests[w].key
      <4>1. /\ \A r \in Runs : runs'[r].key = k => runs[r].key = k
            /\ \A v \in Requests : requests'[v].key = k => requests'[v] = requests[v]
            /\ \A v \in Requests : requests[v].key = k => requests'[v] = requests[v]
        BY <2>2, <2>3, <2>4, <3>1
      <4> QED
        BY <1>1, <4>1, KeyOnceKept
    <3>2. CASE k = requests[w].key /\ k \notin excused
      <4>1. KeyOnce(k)
        BY DEF CreateInv
      <4>2. \A v, u \in Requests : requests'[v].key = k /\ requests'[u].key = k => v = u
        BY <2>3, <3>2, <4>1 DEF KeyOnce
      <4>3. CASE Expired(k)
        BY <1>1, <4>2, <4>3 DEF KeyOnce, Expired
      <4>4. CASE ~Expired(k)
        <5>1. keys[k] = NoKeyRow
          BY <1>1, <3>2, <4>1, <4>4 DEF KeyOnce
        <5>2. \A r \in Runs : runs[r].key # k
          BY <1>1, <3>2, <4>1, <4>4, <5>1 DEF KeyOnce
        <5>3. \A r \in Runs : runs'[r].key = k => r = f
          BY <2>2, <5>2
        <5> QED
          BY <1>1, <2>3, <3>2, <4>2, <5>1, <5>3 DEF KeyOnce
      <4> QED
        BY <4>3, <4>4
    <3>3. CASE k \in excused
      BY <1>1, <3>3 DEF KeyOnce
    <3> QED
      BY <3>1, <3>2, <3>3
  <2>8. \A v \in Requests : requests'[v] = requests[v] \/ RequestSound(requests[v])'
    BY <2>3, <2>5
  <2> QED
    BY <1>4, <2>2, <2>6, <2>7, <2>8, CreateInvKept
<1> QED
  BY <1>3, <1>4 DEF Insert

LEMMA InsertLostStep ==
  ASSUME CreateInv, NEW w \in Requests, InsertLost(w)
  PROVE  CreateInv'
<1> DEFINE s == Search[requests[w].ask]
<1>1. /\ requests[w].pc = "insert" /\ FreeRun # {} /\ requests[w].key \in Keys
      /\ requests[w].ask \in Asks
      /\ s # NoSearch => Printed(s) = {}
      /\ runs' = [runs EXCEPT ![First(FreeRun)] = Inserted(w)]
      /\ Caught(w) /\ excused' = excused \cup {requests[w].key}
      /\ UNCHANGED <<keys, sent, arrived>>
      /\ faults < MaxFaults /\ faults' = faults + 1
  BY DEF InsertLost, At, CreateInv, RequestSound, Fault
<1>2. requests \in [Requests -> Request] /\ requests[w] \in Request
  BY DEF CreateInv, CreateTypeOK
<1>3. PICK f : f = First(FreeRun)
  OBVIOUS
<1>4. /\ f \in Runs /\ Grow
      /\ runs'[f] = Inserted(w) /\ \A r \in Runs \ {f} : runs'[r] = runs[r]
      /\ \A r \in Runs : RunSound(r)'
      /\ \A k \in Keys : KeyRowSound(k)'
      /\ OneRunPerSearch'
  BY <1>1, <1>3, InsertedRun
<1>5. PICK n \in Request : /\ requests' = [requests EXCEPT ![w] = n]
                           /\ RequestSound(requests[w])'
                           /\ n.key \in {NoKey, requests[w].key} /\ answers' = answers
  <2>1. CASE s = NoSearch
    <3>1. Refuse(w, "failed")
      BY <1>1, <2>1 DEF Caught
    <3> QED
      BY <3>1, ReplyEffect DEF Refuse, Codes
  <2>2. CASE s # NoSearch
    <3>1. PICK n : n = [requests[w] EXCEPT !.pc = "search", !.again = TRUE]
      OBVIOUS
    <3>2. /\ requests' = [requests EXCEPT ![w] = n] /\ requests'[w] = n
          /\ n \in Request /\ n.pc = "search" /\ n.key = requests[w].key
          /\ n.ask = requests[w].ask /\ UNCHANGED answers
      BY <1>1, <1>2, <2>2, <3>1 DEF Caught, Request, Points
    <3>3. RequestSound(requests[w])'
      BY <1>1, <2>2, <3>2 DEF RequestSound
    <3> QED
      BY <3>2, <3>3
  <2> QED
    BY <2>1, <2>2
<1>6. /\ requests'[w] = n /\ \A v \in Requests \ {w} : requests'[v] = requests[v]
      /\ requests' \in [Requests -> Request]
  BY <1>2, <1>5
<1>7. CreateTypeOK'
  BY <1>1, <1>4, <1>5, <1>6, ConstantsAssumption
  DEF CreateInv, CreateTypeOK, Grow, RunsGrow
<1>8. ASSUME NEW k \in Keys
      PROVE  KeyOnce(k)'
  <2>1. CASE k = requests[w].key
    BY <1>1, <2>1 DEF KeyOnce
  <2>2. CASE k # requests[w].key
    <3>1. k # NoKey /\ Inserted(w).key = requests[w].key
      BY NoOnes DEF Inserted
    <3>2. /\ \A r \in Runs : runs'[r].key = k => runs[r].key = k
          /\ \A v \in Requests : requests'[v].key = k => requests'[v] = requests[v]
          /\ \A v \in Requests : requests[v].key = k => requests'[v] = requests[v]
      BY <1>4, <1>5, <1>6, <2>2, <3>1
    <3> QED
      BY <1>1, <3>2, KeyOnceKept
  <2> QED
    BY <2>1, <2>2
<1>9. \A v \in Requests : requests'[v] = requests[v] \/ RequestSound(requests[v])'
  BY <1>5, <1>6
<1> QED
  BY <1>4, <1>5, <1>7, <1>8, <1>9, CreateInvKept

LEMMA RecordKeyStep ==
  ASSUME CreateInv, NEW w \in Requests, RecordKey(w)
  PROVE  CreateInv'
<1> DEFINE k == requests[w].key
           a == requests[w].ask
           r == requests[w].run
<1>1. /\ requests[w].pc = "record" /\ k \in Keys /\ a \in Asks
      /\ r \in Runs /\ runs[r].how = "created" /\ runs[r].ask = a
      /\ UNCHANGED <<runs, sent, excused, counts>>
  BY DEF RecordKey, At, CreateInv, RequestSound
<1>2. /\ requests \in [Requests -> Request] /\ requests[w] \in Request
      /\ keys \in [Keys -> KeyRow \cup {NoKeyRow}]
  BY DEF CreateInv, CreateTypeOK
<1>3. CASE keys[k] # NoKeyRow /\ Refuse(w, "failed") /\ UNCHANGED keys
  <2>1. k \in excused \/ Expired(k)
    BY <1>1, <1>3 DEF CreateInv, KeyOnce
  <2>2. excused' \subseteq Keys /\ faults' \in 0..MaxFaults
    BY <1>1 DEF CreateInv, CreateTypeOK, counts
  <2> QED
    BY <1>1, <1>3, <2>1, <2>2, RefuseStep DEF counts, tables, Codes
<1>4. CASE /\ keys[k] = NoKeyRow /\ Go(w, "load") /\ UNCHANGED answers
           /\ keys' = [keys EXCEPT ![k] = [ask |-> a, run |-> r, live |-> TRUE]]
  <2>1. PICK row : row = [ask |-> a, run |-> r, live |-> TRUE]
    OBVIOUS
  <2>2. /\ row \in KeyRow /\ row # NoKeyRow /\ row.ask = a /\ row.run = r
        /\ keys'[k] = row /\ \A j \in Keys \ {k} : keys'[j] = keys[j]
        /\ keys' \in [Keys -> KeyRow \cup {NoKeyRow}]
    BY <1>1, <1>2, <1>4, <2>1 DEF KeyRow, NoKeyRow
  <2>3. /\ requests'[w].pc = "load" /\ requests'[w].run = r
        /\ requests'[w].key = k /\ requests'[w].ask = a
        /\ requests' \in [Requests -> Request]
        /\ \A v \in Requests \ {w} : requests'[v] = requests[v]
    BY <1>2, <1>4 DEF Go, Request, Points
  <2>4. Grow
    BY <1>1, <1>4, <2>2 DEF Grow, RunsGrow, KeysGrow, Made, CreateInv, CreateTypeOK
  <2>5. /\ \A q \in Runs : RunSound(q)'
        /\ OneRunPerSearch'
    BY <1>1 DEF CreateInv, RunSound, OneRunPerSearch, Made
  <2>6. \A j \in Keys : KeyRowSound(j)'
    BY <1>1, <2>2 DEF CreateInv, KeyRowSound
  <2>7. CreateTypeOK'
    BY <1>1, <1>4, <2>2, <2>3 DEF CreateInv, CreateTypeOK, counts
  <2>8. Answerable(r, k, a)'
    BY <1>1, <1>4, <2>2, <2>3 DEF Answerable, Made
  <2>9. RequestSound(requests[w])'
    BY <1>1, <2>3, <2>8 DEF RequestSound
  <2>10. ASSUME NEW j \in Keys
         PROVE  KeyOnce(j)'
    <3>1. CASE j # k
      <4>1. /\ \A v \in Requests : requests'[v].key = j => requests'[v] = requests[v]
            /\ \A v \in Requests : requests[v].key = j => requests'[v] = requests[v]
        BY <2>3, <3>1
      <4> QED
        BY <1>1, <2>2, <3>1, <4>1, KeyOnceKept
    <3>2. CASE j = k /\ k \notin excused
      <4>1. /\ KeyOnce(k) /\ ~Expired(k)
        BY <1>1, <1>4 DEF CreateInv, Expired
      <4>2. \A v, u \in Requests : requests[v].key = k /\ requests[u].key = k => v = u
        BY <3>2, <4>1 DEF KeyOnce
      <4>3. \A v \in Requests : requests'[v].key = k => v = w
        BY <2>3, <4>2
      <4>4. \A q \in Runs : runs[q].key = k => q = r
        BY <1>1, <1>4, <3>2, <4>1, <4>2 DEF KeyOnce
      <4> QED
        BY <1>1, <2>2, <2>3, <3>2, <4>3, <4>4 DEF KeyOnce
    <3>3. CASE j \in excused
      BY <1>1, <3>3 DEF KeyOnce
    <3> QED
      BY <3>1, <3>2, <3>3
  <2>11. \A v \in Requests : requests'[v] = requests[v] \/ RequestSound(requests[v])'
    BY <2>3, <2>9
  <2> QED
    BY <1>4, <2>4, <2>5, <2>6, <2>7, <2>10, <2>11, CreateInvKept
<1> QED
  BY <1>3, <1>4 DEF RecordKey

LEMMA ExpireStep ==
  ASSUME CreateInv, NEW k \in Keys, Expire(k)
  PROVE  CreateInv'
<1>1. /\ keys[k].live /\ keys' = [keys EXCEPT ![k].live = FALSE]
      /\ UNCHANGED <<runs, requests, sent, answers, excused, arrived>>
      /\ faults < MaxFaults /\ faults' = faults + 1
      /\ keys \in [Keys -> KeyRow \cup {NoKeyRow}]
  BY DEF Expire, Fault, CreateInv, CreateTypeOK
<1>2. keys[k] \in KeyRow /\ keys[k] # NoKeyRow
  BY <1>1 DEF NoKeyRow
<1>3. /\ keys'[k] \in KeyRow /\ keys'[k] # NoKeyRow /\ ~keys'[k].live
      /\ keys'[k].ask = keys[k].ask /\ keys'[k].run = keys[k].run
      /\ \A j \in Keys \ {k} : keys'[j] = keys[j]
      /\ keys' \in [Keys -> KeyRow \cup {NoKeyRow}]
  BY <1>1, <1>2, NoOnes DEF KeyRow, NoKeyRow
<1>4. Grow
  BY <1>1, <1>3 DEF Grow, RunsGrow, KeysGrow, Made, CreateInv, CreateTypeOK
<1>5. /\ \A q \in Runs : RunSound(q)'
      /\ OneRunPerSearch'
  BY <1>1 DEF CreateInv, RunSound, OneRunPerSearch, Made
<1>6. \A j \in Keys : KeyRowSound(j)'
  BY <1>1, <1>2, <1>3 DEF CreateInv, KeyRowSound
<1>7. CreateTypeOK'
  BY <1>1, <1>3, ConstantsAssumption DEF CreateInv, CreateTypeOK
<1>8. ASSUME NEW j \in Keys
      PROVE  KeyOnce(j)'
  <2>1. CASE j = k
    <3>1. Expired(k)'
      BY <1>3 DEF Expired
    <3> QED
      BY <1>1, <2>1, <3>1 DEF CreateInv, KeyOnce
  <2>2. CASE j # k
    BY <1>1, <1>3, <2>2, KeyOnceKept
  <2> QED
    BY <2>1, <2>2
<1> QED
  BY <1>1, <1>4, <1>5, <1>6, <1>7, <1>8, CreateInvKept

LEMMA RetryStep ==
  ASSUME CreateInv, NEW r \in Runs, Retry(r)
  PROVE  CreateInv'
<1> DEFINE new == [NoRow EXCEPT !.how = "retried", !.ask = runs[r].ask]
<1>1. /\ Made(r) /\ FreeRun # {} /\ runs' = [runs EXCEPT ![First(FreeRun)] = new]
      /\ UNCHANGED <<keys, requests, sent, answers, excused, counts>>
  BY DEF Retry
<1>2. runs[r].ask \in Asks
  BY <1>1 DEF CreateInv, RunSound
<1>3. /\ new \in Run /\ new.how = "retried" /\ new.ask \in Asks
      /\ new.print = NoSearch /\ new.key = NoKey
  BY <1>2 DEF NoRow, Run, Origins
<1>4. PICK f \in Runs : f = First(FreeRun) /\ ~Made(f)
  BY <1>1, FreeRunFirst
<1>5. PICK n : n = new
  OBVIOUS
<1>6. runs' = [runs EXCEPT ![f] = n]
  BY <1>1, <1>4, <1>5
<1> HIDE DEF new
<1>7. /\ Grow
      /\ runs'[f] = n /\ \A q \in Runs \ {f} : runs'[q] = runs[q]
      /\ \A q \in Runs : RunSound(q)'
      /\ \A k \in Keys : KeyRowSound(k)'
  BY <1>1, <1>3, <1>4, <1>5, <1>6, NewRun
<1>8. OneRunPerSearch'
  BY <1>3, <1>5, <1>7 DEF CreateInv, OneRunPerSearch
<1>9. CreateTypeOK'
  BY <1>1, <1>7 DEF CreateInv, CreateTypeOK, counts, Grow, RunsGrow
<1>10. ASSUME NEW k \in Keys
       PROVE  KeyOnce(k)'
  <2>1. \A q \in Runs : runs'[q].key = k => runs[q].key = k
    BY <1>3, <1>5, <1>7, NoOnes
  <2> QED
    BY <1>1, <2>1, KeyOnceKept
<1> QED
  BY <1>1, <1>7, <1>8, <1>9, <1>10, CreateInvKept

LEMMA FinishStep ==
  ASSUME CreateInv, NEW r \in Runs, Finish(r)
  PROVE  CreateInv'
<1>1. /\ Made(r) /\ runs' = [runs EXCEPT ![r].over = TRUE] /\ runs \in [Runs -> Run]
      /\ UNCHANGED <<keys, requests, sent, answers, excused, counts>>
  BY DEF Finish, CreateInv, CreateTypeOK
<1>2. /\ runs' \in [Runs -> Run]
      /\ \A q \in Runs : /\ runs'[q].how = runs[q].how /\ runs'[q].ask = runs[q].ask
                         /\ runs'[q].print = runs[q].print /\ runs'[q].key = runs[q].key
                         /\ runs[q].over => runs'[q].over
                         /\ q # r => runs'[q] = runs[q]
  BY <1>1 DEF Run
<1>3. Grow
  BY <1>1, <1>2 DEF Grow, RunsGrow, KeysGrow, Made, CreateInv, CreateTypeOK
<1>4. \A q \in Runs : RunSound(q)'
  BY <1>1, <1>2 DEF CreateInv, RunSound, Made
<1>5. OneRunPerSearch' /\ \A k \in Keys : KeyRowSound(k)'
  BY <1>1, <1>2 DEF CreateInv, OneRunPerSearch, KeyRowSound
<1>6. CreateTypeOK'
  BY <1>1, <1>2 DEF CreateInv, CreateTypeOK, counts
<1>7. ASSUME NEW k \in Keys
      PROVE  KeyOnce(k)'
  BY <1>1, <1>2, KeyOnceKept
<1> QED
  BY <1>1, <1>3, <1>4, <1>5, <1>6, <1>7, CreateInvKept

(* A request of a key that is still at the Worker excuses the key.         *)
LEMMA ArriveStep ==
  ASSUME CreateInv, NEW w \in Requests, NEW k \in Keys, NEW a \in Asks,
         NEW heard \in BOOLEAN, Arrive(w, k, a, heard), UNCHANGED faults
  PROVE  CreateInv'
<1>1. PICK n : n = [Idle EXCEPT !.pc = "key", !.key = k, !.ask = a, !.heard = heard]
  OBVIOUS
<1>2. /\ requests[w].pc = "free" /\ arrived < MaxSent /\ arrived' = arrived + 1
      /\ requests' = [requests EXCEPT ![w] = n]
      /\ sent' = [sent EXCEPT ![k] = IF @ = NoAsk THEN a ELSE @]
      /\ excused' = IF Working(k) THEN excused \cup {k} ELSE excused
      /\ UNCHANGED <<tables, answers>>
  BY <1>1 DEF Arrive, Vacant, At
<1>3. n \in Request /\ n.pc = "key" /\ n.key = k /\ n.ask = a
  BY <1>1 DEF Idle, Request, Points, Codes
<1>4. requests \in [Requests -> Request]
  BY DEF CreateInv, CreateTypeOK
<1>5. requests'[w] = n /\ \A v \in Requests \ {w} : requests'[v] = requests[v]
  BY <1>2, <1>4
<1>6. RequestSound(requests[w])'
  BY <1>3, <1>5 DEF RequestSound
<1>7. CreateTypeOK'
  BY <1>2, <1>3, <1>4, ConstantsAssumption DEF CreateInv, CreateTypeOK, tables
<1>8. ASSUME NEW j \in Keys
      PROVE  KeyOnce(j)'
  <2>1. UNCHANGED keys /\ UNCHANGED runs
    BY <1>2 DEF tables
  <2>2. CASE j # k
    BY <1>2, <1>3, <1>5, <2>1, <2>2, KeyOnceKept
  <2>3. CASE j = k /\ ~Working(k)
    <3>1. \A v \in Requests : requests[v].key # k
      BY <2>3, NoOnes DEF Working, CreateInv, RequestSound, Idle
    <3>2. \A v \in Requests : requests'[v].key = k => v = w
      BY <1>5, <3>1
    <3>3. KeyOnce(k)
      BY DEF CreateInv
    <3>4. CASE k \notin excused /\ Expired(k)
      BY <1>2, <2>1, <2>3, <3>2, <3>4 DEF KeyOnce, Expired
    <3>5. CASE k \notin excused /\ ~Expired(k)
      <4>1. \A r \in Runs : runs[r].key = k => keys[k] # NoKeyRow /\ keys[k].run = r
        BY <3>1, <3>3, <3>5 DEF KeyOnce
      <4> QED
        BY <1>3, <1>5, <2>1, <2>3, <3>2, <4>1 DEF KeyOnce
    <3>6. CASE k \in excused
      BY <1>2, <2>3, <3>6 DEF KeyOnce
    <3> QED
      BY <3>4, <3>5, <3>6
  <2>4. CASE j = k /\ Working(k)
    BY <1>2, <2>4 DEF KeyOnce
  <2> QED
    BY <2>2, <2>3, <2>4
<1>9. \A v \in Requests : requests'[v] = requests[v] \/ RequestSound(requests[v])'
  BY <1>5, <1>6
<1> QED
  BY <1>2, <1>7, <1>8, <1>9, QuietTables, CreateInvKept

(* The page takes its answer, and forgets about the others.                *)
LEMMA HeardStep ==
  ASSUME CreateInv, NEW w \in Requests, At(w, "answer"),
         requests' = [requests EXCEPT ![w] = Idle],
         UNCHANGED <<tables, sent, answers, excused, counts>>
  PROVE  CreateInv'
<1>1. requests'[w] = Idle /\ requests' \in [Requests -> Request]
  BY IdleIsRequest DEF CreateInv, CreateTypeOK
<1>2. RequestSound(requests[w])'
  BY <1>1 DEF RequestSound, Idle
<1>3. CreateTypeOK'
  BY <1>1 DEF CreateInv, CreateTypeOK, tables, counts
<1>4. Idle.key = NoKey
  BY DEF Idle
<1> QED
  BY <1>2, <1>3, <1>4, IdleIsRequest, QuietRequest DEF At

LEMMA AbandonedStep ==
  ASSUME CreateInv, requests' = Abandoned, UNCHANGED <<tables, sent, answers, excused, arrived>>,
         faults' \in 0..MaxFaults
  PROVE  CreateInv'
<1>1. ASSUME NEW w \in Requests
      PROVE  /\ requests'[w] \in Request
             /\ requests'[w] = Idle \/ /\ requests[w].pc # "answer"
                                       /\ requests'[w].pc = requests[w].pc
                                       /\ requests'[w].key = requests[w].key
                                       /\ requests'[w].run = requests[w].run
             /\ RequestSound(requests[w])'
  <2>1. PICK q, n : q = requests[w] /\ n = requests'[w]
    OBVIOUS
  <2>2. q \in Request /\ RequestSound(q)
    BY <2>1 DEF CreateInv, CreateTypeOK
  <2>3. n = Forgotten(q)
    BY <2>1 DEF Abandoned
  <2>4. CASE q.pc \in {"answer", "free"}
    <3>1. n = Idle
      <4>1. CASE q.pc = "answer"
        BY <2>3, <4>1 DEF Forgotten
      <4>2. CASE q = Idle
        BY <2>3, <4>2 DEF Forgotten, Idle
      <4> QED
        BY <2>2, <2>4, <4>1, <4>2 DEF RequestSound
    <3>2. RequestSound(requests[w])'
      BY <2>1, <3>1 DEF RequestSound, Idle
    <3> QED
      BY <2>1, <3>1, <3>2, IdleIsRequest
  <2>5. CASE q.pc \notin {"answer", "free"}
    <3>1. /\ n \in Request /\ n.pc = q.pc /\ n.key = q.key /\ n.ask = q.ask /\ n.run = q.run
      BY <2>2, <2>3, <2>5 DEF Forgotten, Request
    <3>2. UNCHANGED runs /\ UNCHANGED keys
      BY DEF tables
    <3>3. q.pc = "load" => Answerable(q.run, q.key, q.ask)'
      BY <2>2, QuietTables, AnswerableKept DEF RequestSound
    <3>4. RequestSound(requests[w])'
      BY <2>1, <2>2, <2>5, <3>1, <3>2, <3>3 DEF RequestSound
    <3> QED
      BY <2>1, <2>5, <3>1, <3>4
  <2> QED
    BY <2>4, <2>5
<1>2. requests' \in [Requests -> Request]
  BY <1>1 DEF Abandoned
<1>3. CreateTypeOK'
  BY <1>2 DEF CreateInv, CreateTypeOK, tables
<1>4. ASSUME NEW k \in Keys
      PROVE  KeyOnce(k)'
  <2>1. Idle.key # k
    BY NoOnes DEF Idle
  <2>2. \A v \in Requests : requests'[v].key = k =>
          requests[v].key = k /\ requests'[v].pc = requests[v].pc
    BY <1>1, <2>1
  <2>3. \A v \in Requests : requests[v].key = k => requests[v].pc \notin {"free", "answer"}
    BY NoOnes DEF CreateInv, RequestSound, Idle
  <2>4. ASSUME NEW v \in Requests, requests[v].key = k, requests[v].pc = "record"
        PROVE  /\ requests'[v].key = k /\ requests'[v].pc = "record"
               /\ requests'[v].run = requests[v].run
    <3>1. requests[v] \in Request
      BY DEF CreateInv, CreateTypeOK
    <3> QED
      BY <2>4, <3>1 DEF Abandoned, Forgotten, Request
  <2> QED
    BY <2>2, <2>4, KeyOnceKept DEF tables
<1> QED
  BY <1>1, <1>3, <1>4, QuietTables, CreateInvKept

LEMMA WorkerStep ==
  ASSUME CreateInv, Worker
  PROVE  CreateInv'
<1>1. ASSUME NEW w \in Requests, Handle(w)
      PROVE  CreateInv'
  BY <1>1, LookUpKeyStep, EquivalentSearchStep, HistoricalSearchStep, TargetRefusedStep,
     InsertStep, RecordKeyStep, LoadRunStep DEF Handle
<1>2. ASSUME NEW w \in Requests, NEW k \in Keys, NEW a \in Asks, Repeat(w, k, a)
      PROVE  CreateInv'
  BY <1>2, ArriveStep DEF Repeat
<1> QED
  BY <1>1, <1>2, InsertLostStep, FailStep, ExpireStep, RetryStep, FinishStep DEF Worker

(* The Worker never takes a run away, nor opens one again.                 *)
LEMMA WorkerGrows ==
  ASSUME CreateInv, Worker
  PROVE  \A r \in Runs : /\ Made(r) => Made(r)'
                         /\ runs[r].over => runs'[r].over
<1>1. \A r \in Runs : runs[r].over => Made(r)
  BY DEF CreateInv, RunSound, NoRow
<1>2. CASE UNCHANGED runs
  BY <1>2 DEF Made
<1>3. ASSUME FreeRun # {}, NEW new, runs' = [runs EXCEPT ![First(FreeRun)] = new]
      PROVE  \A r \in Runs : Made(r) => runs'[r] = runs[r]
  BY <1>3, FreeRunFirst DEF CreateInv, CreateTypeOK
<1>4. ASSUME NEW w \in Requests, Insert(w) \/ InsertLost(w)
      PROVE  UNCHANGED runs \/ \A r \in Runs : Made(r) => runs'[r] = runs[r]
  BY <1>3, <1>4 DEF Insert, InsertLost
<1>5. ASSUME NEW r \in Runs, Retry(r)
      PROVE  \A q \in Runs : Made(q) => runs'[q] = runs[q]
  BY <1>3, <1>5 DEF Retry
<1>6. ASSUME NEW r \in Runs, Finish(r)
      PROVE  \A q \in Runs : Made(q) => runs'[q].how = runs[q].how
                                        /\ (runs[q].over => runs'[q].over)
  BY <1>6 DEF Finish, CreateInv, CreateTypeOK, Run
<1>7. ASSUME NEW w \in Requests, Handle(w) \/ Fail(w)
      PROVE  UNCHANGED runs \/ Insert(w)
  BY <1>7 DEF Handle, Fail, LookUpKey, EquivalentSearch, HistoricalSearch, TargetRefused,
              RecordKey, LoadRun, tables
<1>8. ASSUME NEW w \in Requests, NEW k \in Keys, NEW a \in Asks, Repeat(w, k, a) \/ Expire(k)
      PROVE  UNCHANGED runs
  BY <1>8 DEF Repeat, Arrive, Expire, tables
<1>9. \/ \A r \in Runs : Made(r) => runs'[r] = runs[r]
      \/ \A q \in Runs : Made(q) => runs'[q].how = runs[q].how
                                    /\ (runs[q].over => runs'[q].over)
      \/ UNCHANGED runs
  <2>1. ASSUME NEW k \in Keys, Expire(k) PROVE UNCHANGED runs
    BY <2>1 DEF Expire
  <2> QED
    BY <1>4, <1>5, <1>6, <1>7, <1>8, <2>1 DEF Worker
<1> QED
  BY <1>1, <1>2, <1>9 DEF Made

LEMMA CreateInvInit == CreateInit => CreateInv
<1> SUFFICES ASSUME CreateInit PROVE CreateInv
  OBVIOUS
<1>1. PICK n \in 0..Len(Past) :
        runs = [r \in Runs |->
          IF r <= n THEN [NoRow EXCEPT !.how = "past", !.ask = Past[r], !.over = TRUE] ELSE NoRow]
  BY DEF CreateInit
<1>2. /\ keys = [k \in Keys |-> NoKeyRow] /\ requests = [w \in Requests |-> Idle]
      /\ sent = [k \in Keys |-> NoAsk] /\ answers = {} /\ excused = {}
      /\ arrived = 0 /\ faults = 0
  BY DEF CreateInit
<1>3. NoRow \in Run /\ NoRow.how = "none" /\ NoRow.print = NoSearch /\ NoRow.key = NoKey
  BY DEF NoRow, Run, Origins
<1>4. ASSUME NEW r \in Runs, r <= n
      PROVE  /\ runs[r] \in Run /\ runs[r].how = "past" /\ runs[r].ask \in Asks
             /\ runs[r].print = NoSearch /\ runs[r].key = NoKey
  <2>1. r \in 1..Len(Past) /\ Past[r] \in Asks
    BY <1>4, ConstantsAssumption DEF Runs
  <2> QED
    BY <1>1, <1>4, <2>1 DEF NoRow, Run, Origins
<1>5. \A r \in Runs : ~(r <= n) => runs[r] = NoRow
  BY <1>1
<1>6. runs \in [Runs -> Run]
  <2>1. \A r \in Runs : runs[r] \in Run
    BY <1>3, <1>4, <1>5
  <2>2. runs = [r \in Runs |-> runs[r]]
    BY <1>1
  <2> QED
    BY <2>1, <2>2
<1>7. CreateTypeOK
  BY <1>2, <1>6, IdleIsRequest, ConstantsAssumption DEF CreateTypeOK
<1>8. \A r \in Runs : RunSound(r) /\ runs[r].how # "created" /\ runs[r].key = NoKey
  BY <1>3, <1>4, <1>5 DEF RunSound, Made
<1>9. \A w \in Requests : RequestSound(requests[w])
  BY <1>2 DEF RequestSound, Idle
<1>10. OneRunPerSearch /\ \A k \in Keys : KeyRowSound(k)
  BY <1>2, <1>8 DEF OneRunPerSearch, KeyRowSound
<1>11. \A k \in Keys : KeyOnce(k)
  BY <1>2, <1>8, NoOnes DEF KeyOnce, Idle
<1> QED
  BY <1>2, <1>7, <1>8, <1>9, <1>10, <1>11 DEF CreateInv

-----------------------------------------------------------------------------
(* The page.                                                               *)

(* While the page does nothing, its run is still there, and what it has    *)
(* been told of runs that are over stays true.                             *)
LEMMA PageKept ==
  ASSUME MonitorInv, UNCHANGED pageVars,
         \A r \in Runs : /\ Made(r) => Made(r)'
                         /\ runs[r].over => runs'[r].over
  PROVE  MonitorInv'
<1>1. UNCHANGED <<monitor, polls>>
  BY DEF pageVars
<1>2. MonitorTypeOK' /\ PollsOnce' /\ NeverSilent'
  BY <1>1 DEF MonitorInv, MonitorTypeOK, PollsOnce, NeverSilent, Displayed, Live, In
<1>3. monitor.run \in Runs \cup {NoRun} /\ \A p \in Polls : polls[p].run \in Runs \cup {NoRun}
  BY DEF MonitorInv, MonitorTypeOK, Monitor, Poll
<1>4. MonitorSound'
  BY <1>1, <1>3 DEF MonitorInv, MonitorSound
<1>5. ASSUME NEW p \in Polls
      PROVE  LoopSound(p)'
  BY <1>1, <1>3 DEF MonitorInv, LoopSound, Live, In
<1> QED
  BY <1>2, <1>4, <1>5 DEF MonitorInv

LEMMA NoLoopIsPoll == NoLoop \in Poll /\ \A r \in Runs : [NoLoop EXCEPT !.state = "sent", !.run = r] \in Poll
BY DEF NoLoop, Poll

(* Steps that leave the loops as they are and do not touch what has been   *)
(* fetched: the next answer is only seen by the form.                      *)
LEMMA InitialStep ==
  ASSUME MonitorInv, NEW known \in Shown, monitor' = [monitor EXCEPT !.initial = known],
         UNCHANGED <<polls, runs>>
  PROVE  MonitorInv'
<1>1. monitor \in Monitor
  BY DEF MonitorInv, MonitorTypeOK
<1>2. /\ monitor' \in Monitor /\ monitor'.run = monitor.run /\ monitor'.detail = monitor.detail
      /\ monitor'.final = monitor.final /\ monitor'.hasFetched = monitor.hasFetched
      /\ monitor'.error = monitor.error /\ monitor'.loading = monitor.loading
  BY <1>1 DEF Monitor
<1>3. MonitorTypeOK' /\ PollsOnce' /\ NeverSilent'
  BY <1>2 DEF MonitorInv, MonitorTypeOK, PollsOnce, NeverSilent, Live, In
<1>4. MonitorSound' /\ \A p \in Polls : LoopSound(p)'
  BY <1>2 DEF MonitorInv, MonitorSound, LoopSound, Live, In, Made
<1> QED
  BY <1>3, <1>4 DEF MonitorInv

(* A new loop is the only one that goes on: the others are gone, or have   *)
(* been stopped with the answer they brought.                              *)
LEMMA OneLoop ==
  ASSUME MonitorInv, NEW p \in Polls, NEW r \in Runs, Made(r), UNCHANGED runs,
         monitor' \in Monitor, monitor'.run = r, monitor'.loading, MonitorSound',
         polls' \in [Polls -> Poll],
         polls'[p] = [NoLoop EXCEPT !.state = "sent", !.run = r],
         \A q \in Polls \ {p} : polls'[q] \in {NoLoop, CleanedUp(q)}
  PROVE  MonitorInv'
<1>1. /\ polls'[p].state = "sent" /\ polls'[p].run = r /\ ~polls'[p].over
      /\ ~polls'[p].stopped /\ r # NoRun
  BY ConstantsAssumption DEF NoLoop, Runs, NoRun
<1>2. ASSUME NEW q \in Polls \ {p}
      PROVE  ~Live(q)' /\ LoopSound(q)'
  <2>1. PICK old, new : old = polls[q] /\ new = polls'[q]
    OBVIOUS
  <2>2. old \in Poll /\ LoopSound(q)
    BY <2>1 DEF MonitorInv, MonitorTypeOK
  <2>3. CASE new = NoLoop
    BY <2>1, <2>3 DEF NoLoop, Live, LoopSound, In
  <2>4. CASE new = [old EXCEPT !.stopped = TRUE] /\ old.state = "read"
    <3>1. new.stopped /\ new.state = "read" /\ new.run = old.run /\ new.over = old.over
          /\ new.final = old.final
      BY <2>2, <2>4 DEF Poll
    <3> QED
      BY <2>1, <2>2, <2>4, <3>1 DEF Live, LoopSound, In
  <2> QED
    BY <2>1, <2>3, <2>4 DEF CleanedUp, In
<1>3. LoopSound(p)'
  BY <1>1 DEF LoopSound, Live, In
<1>4. PollsOnce'
  BY <1>2 DEF PollsOnce
<1>5. NeverSilent'
  BY <1>1 DEF NeverSilent, Live, In
<1> QED
  BY <1>2, <1>3, <1>4, <1>5 DEF MonitorInv, MonitorTypeOK

LEMMA EffectStep ==
  ASSUME MonitorInv, NEW p \in Polls, NEW r \in Runs, Made(r), UNCHANGED runs,
         monitor' \in Monitor, monitor'.run = r, monitor'.loading, MonitorSound',
         Effect(p, r)
  PROVE  MonitorInv'
<1>1. \A q \in Polls : CleanedUp(q) \in Poll
  BY NoLoopIsPoll DEF CleanedUp, MonitorInv, MonitorTypeOK, Poll
<1>2. polls' \in [Polls -> Poll]
  BY <1>1, NoLoopIsPoll DEF Effect
<1> QED
  BY <1>2, OneLoop DEF Effect

LEMMA MountStep ==
  ASSUME MonitorInv, NEW p \in Polls, NEW r \in Runs, Made(r), UNCHANGED runs,
         NEW over \in BOOLEAN, over => runs[r].over, Mount(p, r, Status(over))
  PROVE  MonitorInv'
<1>1. Status(over) \in Shown /\ (Status(over) = "over" => over)
  BY DEF Status, Shown
<1>2. monitor' \in Monitor /\ monitor'.run = r /\ monitor'.loading /\ ~monitor'.hasFetched
      /\ monitor'.detail = Status(over)
  BY <1>1 DEF Mount, Monitor
<1>3. MonitorSound'
  BY <1>1, <1>2 DEF MonitorSound, Made, NoRun, Runs
<1> QED
  BY <1>2, <1>3, EffectStep DEF Mount

LEMMA RefreshStep ==
  ASSUME MonitorInv, NEW p \in Polls, Refresh(p), UNCHANGED runs
  PROVE  MonitorInv'
<1>1. monitor \in Monitor /\ monitor.run \in Runs /\ Made(monitor.run)
  BY DEF MonitorInv, MonitorTypeOK, MonitorSound, Monitor, Refresh
<1>2. /\ monitor' \in Monitor /\ monitor'.run = monitor.run /\ monitor'.detail = monitor.detail
      /\ monitor'.final = monitor.final /\ monitor'.hasFetched = monitor.hasFetched
      /\ monitor'.loading
  BY <1>1 DEF Refresh, Monitor
<1>3. MonitorSound'
  BY <1>2 DEF MonitorInv, MonitorSound, Made
<1> QED
  BY <1>1, <1>2, <1>3, EffectStep DEF Refresh

LEMMA ReloadStep ==
  ASSUME MonitorInv, Reload
  PROVE  MonitorInv'
<1>1. UNCHANGED runs /\ monitor.run \in Runs /\ Made(monitor.run) /\ Polls # {}
  BY DEF Reload, tables, MonitorInv, MonitorTypeOK, MonitorSound, Monitor
<1>2. PICK p \in Polls : p = CHOOSE q \in Polls : TRUE
  BY <1>1
<1>3. PICK loop : loop = [NoLoop EXCEPT !.state = "sent", !.run = monitor.run]
  OBVIOUS
<1>4. polls' = [q \in Polls |-> IF q = p THEN loop ELSE NoLoop]
  BY <1>2, <1>3 DEF Reload
<1>5. loop \in Poll
  BY <1>1, <1>3, NoLoopIsPoll
<1>6. polls' \in [Polls -> Poll] /\ polls'[p] = loop /\ \A q \in Polls \ {p} : polls'[q] = NoLoop
  BY <1>4, <1>5, NoLoopIsPoll
<1>7. /\ monitor' \in Monitor /\ monitor'.run = monitor.run /\ monitor'.detail = "none"
      /\ ~monitor'.hasFetched /\ monitor'.loading
  BY <1>1 DEF Reload, Unmounted, Monitor, Shown
<1>8. MonitorSound'
  BY <1>1, <1>7 DEF MonitorSound, Made
<1> QED
  BY <1>1, <1>3, <1>6, <1>7, <1>8, OneLoop

(* A loop reads: what it has read was so, and no less than what the page   *)
(* shows, as the run does not open again.                                  *)
LEMMA ReadStep ==
  ASSUME MonitorInv, NEW p \in Polls, Detail(p), UNCHANGED runs,
         \A r \in Runs : runs[r].over \in BOOLEAN
  PROVE  MonitorInv'
<1>1. PICK old, new, over : /\ old = polls[p] /\ new = polls'[p]
                            /\ over = runs[polls[p].run].over
  OBVIOUS
<1>2. old \in Poll /\ LoopSound(p) /\ old.run \in Runs /\ over \in BOOLEAN
  BY <1>1 DEF MonitorInv, MonitorTypeOK, Poll, Detail
<1>3. UNCHANGED monitor /\ \A q \in Polls \ {p} : polls'[q] = polls[q]
  BY DEF Detail, ReadRow, ReadSellers, MonitorInv, MonitorTypeOK
<1>4. \/ old.state = "sent" /\ new = [old EXCEPT !.state = "row", !.over = over]
      \/ old.state = "row" /\ new = [old EXCEPT !.state = "read", !.final = over]
  BY <1>1 DEF Detail, ReadRow, ReadSellers, In, MonitorInv, MonitorTypeOK
<1>5. /\ new \in Poll /\ new.run = old.run /\ new.stopped = old.stopped /\ ~new.stopped
      /\ old.state # "idle" /\ new.state # "idle"
      /\ new.over => over
      /\ new.state = "row" => new.over = over
      /\ new.state = "read" => old.state = "row" /\ new.over = old.over /\ new.final = over
      /\ new.state \in {"row", "read"}
  BY <1>1, <1>2, <1>4 DEF Poll, LoopSound, In
<1>6. polls' \in [Polls -> Poll]
  <2>1. polls' = [polls EXCEPT ![p] = new]
    BY <1>1 DEF Detail, ReadRow, ReadSellers, MonitorInv, MonitorTypeOK
  <2> QED
    BY <1>5, <2>1 DEF MonitorInv, MonitorTypeOK
<1>7. Live(p) /\ \A q \in Polls : Live(q)' <=> Live(q)
  BY <1>1, <1>3, <1>5 DEF Live, In
<1>8. PollsOnce' /\ NeverSilent'
  BY <1>1, <1>3, <1>5, <1>7 DEF MonitorInv, PollsOnce, NeverSilent
<1>9. MonitorSound' /\ \A q \in Polls \ {p} : LoopSound(q)'
  BY <1>3 DEF MonitorInv, MonitorSound, LoopSound, Live, In, Made
<1>10. LoopSound(p)'
  <2>1. old.run = monitor.run /\ monitor.run # NoRun
    BY <1>1, <1>2, <1>7 DEF LoopSound
  <2>2. monitor.detail = "over" => over
    BY <1>1, <2>1 DEF MonitorInv, MonitorSound
  <2>3. old.state = "row" /\ monitor.hasFetched /\ monitor.detail = "over" => old.over
    BY <1>1, <1>2, <1>7 DEF LoopSound
  <2> QED
    BY <1>1, <1>2, <1>3, <1>5, <2>1, <2>2, <2>3 DEF LoopSound, Live, In
<1> QED
  BY <1>3, <1>6, <1>8, <1>9, <1>10 DEF MonitorInv, MonitorTypeOK

(* A step of loop p alone, which leaves it as it may be.                   *)
LEMMA LoopStep ==
  ASSUME MonitorInv, NEW p \in Polls, NEW new \in Poll, polls' = [polls EXCEPT ![p] = new],
         UNCHANGED <<runs, monitor>>, new.state # "idle" /\ ~new.stopped => Live(p),
         LoopSound(p)', NeverSilent'
  PROVE  MonitorInv'
<1>1. polls' \in [Polls -> Poll] /\ polls'[p] = new /\ \A q \in Polls \ {p} : polls'[q] = polls[q]
  BY DEF MonitorInv, MonitorTypeOK
<1>2. \A q \in Polls : Live(q)' => Live(q)
  BY <1>1 DEF Live, In
<1>3. PollsOnce'
  BY <1>2 DEF MonitorInv, PollsOnce
<1>4. MonitorSound' /\ \A q \in Polls \ {p} : LoopSound(q)'
  BY <1>1 DEF MonitorInv, MonitorSound, LoopSound, Live, In, Made
<1> QED
  BY <1>1, <1>3, <1>4 DEF MonitorInv, MonitorTypeOK

LEMMA TimerStep ==
  ASSUME MonitorInv, NEW p \in Polls, TimerFires(p), UNCHANGED runs
  PROVE  MonitorInv'
<1>1. PICK old, new : old = polls[p] /\ new = [old EXCEPT !.state = "sent"]
  OBVIOUS
<1>2. old \in Poll /\ LoopSound(p) /\ old.state = "timer"
  BY <1>1 DEF MonitorInv, MonitorTypeOK, TimerFires, In
<1>3. /\ new \in Poll /\ new.state = "sent" /\ new.run = old.run /\ new.over = old.over
      /\ new.stopped = old.stopped /\ ~old.stopped
  BY <1>1, <1>2 DEF Poll, LoopSound, In
<1>4. polls' = [polls EXCEPT ![p] = new] /\ UNCHANGED monitor
  BY <1>1 DEF TimerFires
<1>5. Live(p) /\ polls'[p] = new /\ \A q \in Polls \ {p} : polls'[q] = polls[q]
  BY <1>1, <1>2, <1>3, <1>4 DEF Live, In, MonitorInv, MonitorTypeOK
<1>6. LoopSound(p)'
  BY <1>1, <1>2, <1>3, <1>4, <1>5 DEF LoopSound, Live, In
<1>7. NeverSilent'
  BY <1>1, <1>3, <1>4, <1>5 DEF MonitorInv, NeverSilent, Live, In
<1> QED
  BY <1>3, <1>4, <1>5, <1>6, <1>7, LoopStep

(* The answer of a loop that is stopped is dropped.                        *)
LEMMA DropStep ==
  ASSUME MonitorInv, NEW p \in Polls, Deliver(p), polls[p].stopped, UNCHANGED runs
  PROVE  MonitorInv'
<1>1. polls' = [polls EXCEPT ![p] = NoLoop] /\ UNCHANGED monitor
  BY DEF Deliver
<1>2. polls'[p] = NoLoop /\ \A q \in Polls \ {p} : polls'[q] = polls[q]
  BY <1>1 DEF MonitorInv, MonitorTypeOK
<1>3. LoopSound(p)' /\ NoLoop.state = "idle"
  BY <1>2 DEF LoopSound, Live, In, NoLoop
<1>4. NeverSilent'
  BY <1>1, <1>2 DEF MonitorInv, NeverSilent, Live, In
<1> QED
  BY <1>1, <1>3, <1>4, NoLoopIsPoll, LoopStep

(* What is shown is what the one loop has read.                            *)
LEMMA ShowStep ==
  ASSUME MonitorInv, NEW p \in Polls, Deliver(p), ~polls[p].stopped, UNCHANGED runs
  PROVE  MonitorInv'
<1>1. PICK old : old = polls[p]
  OBVIOUS
<1>2. old \in Poll /\ LoopSound(p) /\ old.state = "read" /\ Live(p)
  BY <1>1 DEF MonitorInv, MonitorTypeOK, Deliver, In, Live
<1>3. /\ old.run = monitor.run /\ monitor.run \in Runs /\ monitor.run # NoRun
      /\ old.over => old.final /\ runs[monitor.run].over
  BY <1>1, <1>2 DEF LoopSound, In, MonitorInv, MonitorTypeOK, Monitor
<1>4. monitor' = [monitor EXCEPT !.detail = Status(old.over), !.final = old.final,
                                 !.hasFetched = TRUE, !.error = FALSE, !.loading = FALSE]
  BY <1>1 DEF Deliver
<1>5. /\ monitor' \in Monitor /\ monitor'.run = monitor.run /\ monitor'.hasFetched
      /\ monitor'.detail = Status(old.over) /\ monitor'.final = old.final
  <2>1. monitor \in Monitor /\ Status(old.over) \in Shown /\ old.final \in BOOLEAN
    BY <1>2 DEF MonitorInv, MonitorTypeOK, Status, Shown, Poll
  <2> QED
    BY <1>4, <2>1 DEF Monitor
<1>6. Status(old.over) # "none" /\ (Status(old.over) = "over" <=> old.over)
  BY DEF Status
<1>7. PICK new : new = Afterwards(p)
  OBVIOUS
<1>8. /\ old.over => new = NoLoop
      /\ ~old.over => new = [NoLoop EXCEPT !.state = "timer", !.run = old.run]
  BY <1>1, <1>7 DEF Afterwards
<1>9. /\ new \in Poll /\ ~new.stopped /\ ~new.over
      /\ old.over => new.state = "idle"
      /\ ~old.over => new.state = "timer" /\ new.run = old.run
  <2>1. CASE old.over
    <3>1. ~NoLoop.stopped /\ ~NoLoop.over /\ NoLoop.state = "idle"
      BY DEF NoLoop
    <3> QED
      BY <1>8, <2>1, <3>1, NoLoopIsPoll
  <2>2. CASE ~old.over
    <3>1. new = [state |-> "timer", run |-> old.run, over |-> FALSE, final |-> FALSE,
                 stopped |-> FALSE]
      BY <1>8, <2>2 DEF NoLoop
    <3> QED
      BY <1>2, <2>2, <3>1 DEF Poll
  <2> QED
    BY <2>1, <2>2
<1>10. polls' \in [Polls -> Poll] /\ polls'[p] = new /\ \A q \in Polls \ {p} : polls'[q] = polls[q]
  <2>1. polls' = [polls EXCEPT ![p] = new]
    BY <1>7 DEF Deliver
  <2> QED
    BY <1>9, <2>1 DEF MonitorInv, MonitorTypeOK
<1>11. \A q \in Polls \ {p} : ~Live(q) /\ ~Live(q)'
  BY <1>2, <1>10 DEF MonitorInv, PollsOnce, Live, In
<1>12. Live(p)' <=> ~old.over
  BY <1>9, <1>10 DEF Live, In
<1>13. MonitorSound'
  BY <1>3, <1>5, <1>6 DEF MonitorInv, MonitorSound, Made
<1>14. ASSUME NEW q \in Polls
       PROVE  LoopSound(q)'
  <2>1. CASE q = p
    BY <1>3, <1>5, <1>9, <1>10, <2>1 DEF LoopSound, Live, In
  <2>2. CASE q # p
    BY <1>10, <1>11, <2>2 DEF MonitorInv, LoopSound, In
  <2> QED
    BY <2>1, <2>2
<1>15. PollsOnce'
  BY <1>5, <1>6, <1>11, <1>12 DEF PollsOnce
<1>16. NeverSilent'
  BY <1>3, <1>5, <1>6, <1>9, <1>10, <1>12 DEF NeverSilent
<1> QED
  BY <1>5, <1>10, <1>13, <1>14, <1>15, <1>16 DEF MonitorInv, MonitorTypeOK

(* A fetch that fails leaves its loop; the error is shown.                 *)
LEMMA FetchFailsStep ==
  ASSUME MonitorInv, NEW p \in Polls, FetchFails(p), UNCHANGED runs
  PROVE  MonitorInv'
<1>1. /\ polls' = [polls EXCEPT ![p] = NoLoop]
      /\ monitor' = [monitor EXCEPT !.error = TRUE, !.loading = FALSE]
      /\ polls[p].state \in {"sent", "row"}
  BY DEF FetchFails
<1>2. /\ polls' \in [Polls -> Poll]
      /\ polls'[p] = NoLoop /\ \A q \in Polls \ {p} : polls'[q] = polls[q]
  BY <1>1, NoLoopIsPoll DEF MonitorInv, MonitorTypeOK
<1>3. /\ monitor' \in Monitor /\ monitor'.run = monitor.run /\ monitor'.detail = monitor.detail
      /\ monitor'.final = monitor.final /\ monitor'.hasFetched = monitor.hasFetched
      /\ monitor'.error
  <2>1. monitor \in Monitor
    BY DEF MonitorInv, MonitorTypeOK
  <2> QED
    BY <1>1, <2>1 DEF Monitor
<1>4. Live(p)
  BY <1>1 DEF MonitorInv, LoopSound, Live, In
<1>5. \A q \in Polls : ~Live(q)'
  <2>1. NoLoop.state = "idle"
    BY DEF NoLoop
  <2>2. \A q \in Polls \ {p} : ~Live(q)
    BY <1>4 DEF MonitorInv, PollsOnce
  <2> QED
    BY <1>2, <2>1, <2>2 DEF Live, In
<1>6. PollsOnce' /\ NeverSilent'
  BY <1>3, <1>5 DEF PollsOnce, NeverSilent
<1>7. MonitorSound'
  BY <1>3 DEF MonitorInv, MonitorSound, Made
<1>8. ASSUME NEW q \in Polls
      PROVE  LoopSound(q)'
  <2>1. CASE q = p
    BY <1>2, <1>5, <2>1 DEF LoopSound, In, NoLoop
  <2>2. CASE q # p
    BY <1>2, <1>5, <2>2 DEF MonitorInv, LoopSound, In
  <2> QED
    BY <2>1, <2>2
<1> QED
  BY <1>2, <1>3, <1>6, <1>7, <1>8 DEF MonitorInv, MonitorTypeOK

(* The form is answered: with a run that is there, and that is over if it  *)
(* says so.                                                                *)
LEMMA HearStep ==
  ASSUME ConsoleInv, NEW w \in Requests, Hear(w)
  PROVE  ConsoleInv'
<1>1. PICK q : q = requests[w]
  OBVIOUS
<1>2. q \in Request /\ RequestSound(q) /\ q.pc = "answer"
  BY <1>1 DEF ConsoleInv, CreateInv, CreateTypeOK, Hear, At
<1>3. UNCHANGED tables /\ UNCHANGED runs
  BY DEF Hear, tables
<1>4. CreateInv'
  BY HeardStep DEF ConsoleInv, Hear
<1>5. q.over \in BOOLEAN /\ Status(q.over) \in Shown
  BY <1>2 DEF Request, Status, Shown
<1>6. UNCHANGED pageVars => MonitorInv'
  BY <1>3, PageKept DEF ConsoleInv, Made
<1>7. monitor' = [monitor EXCEPT !.initial = Status(q.over)] /\ UNCHANGED polls => MonitorInv'
  BY <1>3, <1>5, InitialStep DEF ConsoleInv
<1>8. ASSUME NEW p \in Polls, q.code = "accepted", Mount(p, q.run, Status(q.over))
      PROVE  MonitorInv'
  BY <1>2, <1>3, <1>5, <1>8, MountStep DEF ConsoleInv, RequestSound
<1>9. MonitorInv'
  BY <1>1, <1>6, <1>7, <1>8 DEF Hear
<1> QED
  BY <1>4, <1>9 DEF ConsoleInv

LEMMA SubmitStep ==
  ASSUME ConsoleInv, NEW w \in Requests, NEW a \in Asks, Submit(w, a)
  PROVE  ConsoleInv'
<1>1. PICK k \in Keys : Arrive(w, k, a, TRUE)
  BY DEF Submit, Fresh
<1>2. UNCHANGED faults /\ UNCHANGED polls /\ UNCHANGED runs
      /\ monitor' = [monitor EXCEPT !.initial = "none"]
  BY DEF Submit, Arrive, tables
<1>3. CreateInv'
  BY <1>1, <1>2, ArriveStep DEF ConsoleInv
<1>4. MonitorInv'
  BY <1>2, InitialStep DEF ConsoleInv, Shown
<1> QED
  BY <1>3, <1>4 DEF ConsoleInv

(* One fault more, of those there may be.                                  *)
LEMMA FaultCounts ==
  ASSUME CreateInv, NEW kind, Fault(kind)
  PROVE  faults' \in 0..MaxFaults
BY ConstantsAssumption DEF CreateInv, CreateTypeOK, Fault

LEMMA UnreachableStep ==
  ASSUME ConsoleInv, Unreachable
  PROVE  ConsoleInv'
<1>1. CreateInv'
  BY FaultCounts, AbandonedStep DEF ConsoleInv, Unreachable
<1>2. UNCHANGED runs /\ UNCHANGED pageVars
  BY DEF Unreachable, tables
<1>3. MonitorInv'
  BY <1>2, PageKept DEF ConsoleInv, Made
<1> QED
  BY <1>1, <1>3 DEF ConsoleInv

LEMMA ReloadedStep ==
  ASSUME ConsoleInv, Reload
  PROVE  ConsoleInv'
<1>1. CreateInv'
  BY FaultCounts, AbandonedStep DEF ConsoleInv, Reload
<1> QED
  BY <1>1, ReloadStep DEF ConsoleInv

(* The steps of the page alone.                                            *)
LEMMA PageStep ==
  ASSUME ConsoleInv, NEW p \in Polls, Refresh(p) \/ Detail(p) \/ Browser(p),
         UNCHANGED createVars
  PROVE  ConsoleInv'
<1>1. UNCHANGED <<runs, keys, requests, sent, answers, excused, arrived, faults>>
  BY DEF createVars, tables, counts
<1>2. CreateInv'
  <2>1. UNCHANGED tables /\ CreateTypeOK'
    BY <1>1 DEF ConsoleInv, CreateInv, CreateTypeOK, tables
  <2>2. \A k \in Keys : KeyOnce(k)'
    BY <1>1 DEF ConsoleInv, CreateInv, KeyOnce, Expired
  <2> QED
    BY <1>1, <2>1, <2>2, QuietTables, CreateInvKept DEF ConsoleInv
<1>3. \A r \in Runs : runs[r].over \in BOOLEAN
  BY DEF ConsoleInv, CreateInv, CreateTypeOK, Run
<1>4. MonitorInv'
  BY <1>1, <1>3, RefreshStep, ReadStep, TimerStep, DropStep, ShowStep DEF ConsoleInv, Browser
<1> QED
  BY <1>2, <1>4 DEF ConsoleInv

LEMMA FetchLostStep ==
  ASSUME ConsoleInv, NEW p \in Polls, FetchLost(p)
  PROVE  ConsoleInv'
<1>1. /\ UNCHANGED <<runs, keys, requests, sent, answers, excused, arrived>>
      /\ FetchFails(p) /\ faults' \in 0..MaxFaults
  BY FaultCounts DEF FetchLost, tables, ConsoleInv
<1>2. CreateInv'
  <2>1. UNCHANGED tables /\ CreateTypeOK'
    BY <1>1 DEF ConsoleInv, CreateInv, CreateTypeOK, tables
  <2>2. \A k \in Keys : KeyOnce(k)'
    BY <1>1 DEF ConsoleInv, CreateInv, KeyOnce, Expired
  <2> QED
    BY <1>1, <2>1, <2>2, QuietTables, CreateInvKept DEF ConsoleInv
<1> QED
  BY <1>1, <1>2, FetchFailsStep DEF ConsoleInv

LEMMA ConsoleInvInit == Init => ConsoleInv
<1> SUFFICES ASSUME Init PROVE ConsoleInv
  OBVIOUS
<1>1. monitor = Unmounted /\ polls = [p \in Polls |-> NoLoop]
  BY DEF Init, MonitorInit
<1>2. Unmounted \in Monitor
  BY DEF Unmounted, Monitor, Shown
<1>3. MonitorTypeOK
  BY <1>1, <1>2, NoLoopIsPoll DEF MonitorTypeOK
<1>4. MonitorSound /\ NeverSilent
  BY <1>1 DEF MonitorSound, NeverSilent, Unmounted
<1>5. PollsOnce /\ \A p \in Polls : LoopSound(p)
  BY <1>1 DEF PollsOnce, LoopSound, Live, In, NoLoop
<1> QED
  BY <1>3, <1>4, <1>5, CreateInvInit DEF Init, ConsoleInv, MonitorInv

LEMMA ConsoleInvStep == ConsoleInv /\ [Next]_vars => ConsoleInv'
<1> SUFFICES ASSUME ConsoleInv, [Next]_vars PROVE ConsoleInv'
  OBVIOUS
<1>1. CASE Worker /\ UNCHANGED pageVars
  BY <1>1, WorkerStep, WorkerGrows, PageKept DEF ConsoleInv
<1>2. CASE UNCHANGED vars
  <2>1. UNCHANGED <<runs, keys, requests, sent, answers, excused, arrived, faults>>
        /\ UNCHANGED pageVars
    BY <1>2 DEF vars, createVars, tables, counts
  <2>2. UNCHANGED tables /\ CreateTypeOK'
    BY <2>1 DEF ConsoleInv, CreateInv, CreateTypeOK, tables
  <2>3. \A k \in Keys : KeyOnce(k)'
    BY <2>1 DEF ConsoleInv, CreateInv, KeyOnce, Expired
  <2>4. CreateInv'
    BY <2>1, <2>2, <2>3, QuietTables, CreateInvKept DEF ConsoleInv
  <2> QED
    BY <2>1, <2>4, PageKept DEF ConsoleInv, Made
<1> QED
  BY <1>1, <1>2, PageStep, FetchLostStep, HearStep, SubmitStep, UnreachableStep, ReloadedStep
     DEF Next

LEMMA ConsoleInvHolds == Spec => []ConsoleInv
BY ConsoleInvInit, ConsoleInvStep, PTL DEF Spec

-----------------------------------------------------------------------------
(* What holds of every state that is reached.                              *)

(***************************************************************************)
(* The rows of create, the requests at the Worker, the component and its   *)
(* loops always have the shape their code gives them.                      *)
(***************************************************************************)
THEOREM TypeCorrect == Spec => []TypeOK
<1>1. ConsoleInv => TypeOK
  BY DEF ConsoleInv, CreateInv, MonitorInv, TypeOK
<1> QED
  BY <1>1, ConsoleInvHolds, PTL

(***************************************************************************)
(* However many requests create is at work on, for whatever searches, keys *)
(* and runs of the past, it makes no run for a search that it or the past  *)
(* has made one for: the lookups miss it, the unique index refuses it.     *)
(***************************************************************************)
THEOREM NoSecondRun == Spec => []OneRunPerSearch
<1>1. ConsoleInv => OneRunPerSearch
  BY DEF ConsoleInv, CreateInv
<1> QED
  BY <1>1, ConsoleInvHolds, PTL

(***************************************************************************)
(* A key that was never at the Worker twice at once, whose request did not *)
(* fail between its INSERTs and whose row has not expired has made at most *)
(* one run, however often it is sent.                                      *)
(***************************************************************************)
THEOREM KeyMakesOneRun == Spec => []OneRunPerKey
<1>1. ASSUME ConsoleInv PROVE OneRunPerKey
  <2>1. SUFFICES ASSUME NEW k \in Keys, k \notin excused, ~Expired(k)
                 PROVE  Cardinality({r \in Runs : runs[r].key = k}) <= 1
    <3>1. IsFiniteSet(Runs)
      BY ConstantsAssumption, FS_Interval DEF Runs
    <3>2. \A k \in Keys : Cardinality({r \in Runs : runs[r].key = k}) \in Nat
      BY <3>1, FS_Subset, FS_CardinalityType
    <3> QED
      BY <2>1, <3>2 DEF OneRunPerKey, Expired
  <2>2. ASSUME NEW r \in Runs, NEW q \in Runs, runs[r].key = k, runs[q].key = k
        PROVE  r = q
    BY <1>1, <2>1, <2>2 DEF ConsoleInv, CreateInv, KeyOnce
  <2> DEFINE R == {r \in Runs : runs[r].key = k}
  <2>3. R # {} => \E r \in Runs : R = {r}
    BY <2>2
  <2>4. Cardinality(R) <= 1
    <3> HIDE DEF R
    <3>1. CASE R = {}
      BY <3>1, FS_EmptySet
    <3>2. CASE R # {}
      <4>1. PICK r \in Runs : R = {r}
        BY <2>3, <3>2
      <4> QED
        BY <4>1, FS_Singleton
    <3> QED
      BY <3>1, <3>2
  <2> QED
    BY <2>4
<1> QED
  BY <1>1, ConsoleInvHolds, PTL

(***************************************************************************)
(* The same bytes with the same key are never answered with two runs that  *)
(* were not made by retry: not by requests that race, not after a failure  *)
(* between the INSERTs, not after the row of the key has expired.          *)
(***************************************************************************)
THEOREM SameAnswer == Spec => []AnswersAgree
<1>1. ASSUME ConsoleInv PROVE AnswersAgree
  <2>1. SUFFICES ASSUME NEW x \in answers, NEW y \in answers,
                        x.key = y.key, x.ask = y.ask,
                        runs[x.run].how # "retried", runs[y.run].how # "retried"
                 PROVE  x.run = y.run
    BY DEF AnswersAgree
  <2>2. Answerable(x.run, x.key, x.ask) /\ Answerable(y.run, y.key, y.ask)
    BY <1>1 DEF ConsoleInv, CreateInv
  <2>3. CASE Search[x.ask] = NoSearch
    BY <2>1, <2>2, <2>3 DEF Answerable
  <2>4. CASE Search[x.ask] # NoSearch
    <3>1. /\ x.run \in Runs /\ Search[runs[x.run].ask] = Search[x.ask]
          /\ y.run \in Runs /\ Search[runs[y.run].ask] = Search[x.ask]
      BY <2>1, <2>2, <2>4 DEF Answerable
    <3>2. runs[x.run].how \in {"created", "past"} /\ runs[y.run].how \in {"created", "past"}
      BY <1>1, <2>1, <2>2, <3>1
         DEF ConsoleInv, CreateInv, CreateTypeOK, Run, Origins, Answerable, Made
    <3>3. CASE runs[x.run].how = "created" \/ runs[y.run].how = "created"
      BY <1>1, <2>4, <3>1, <3>2, <3>3 DEF ConsoleInv, CreateInv, OneRunPerSearch
    <3>4. CASE runs[x.run].how = "past" /\ runs[y.run].how = "past"
      <4>1. x.run <= y.run /\ y.run <= x.run
        BY <2>1, <2>2, <2>4, <3>1, <3>4 DEF Answerable
      <4>2. x.run \in Nat /\ y.run \in Nat
        BY <3>1, ConstantsAssumption DEF Runs
      <4> QED
        BY <4>1, <4>2
    <3> QED
      BY <3>2, <3>3, <3>4
  <2> QED
    BY <2>3, <2>4
<1> QED
  BY <1>1, ConsoleInvHolds, PTL

(***************************************************************************)
(* Every request is answered with a run made for the same bytes, or for    *)
(* the same search.                                                        *)
(***************************************************************************)
THEOREM FittingAnswer == Spec => []AnswerFits
<1>1. ASSUME ConsoleInv PROVE AnswerFits
  <2>1. SUFFICES ASSUME NEW x \in answers
                 PROVE  \/ runs[x.run].ask = x.ask
                        \/ Search[x.ask] # NoSearch
                           /\ Search[runs[x.run].ask] = Search[x.ask]
    BY DEF AnswerFits
  <2>2. Answerable(x.run, x.key, x.ask) /\ KeyRowSound(x.key)
    BY <1>1 DEF ConsoleInv, CreateInv, Answerable
  <2> QED
    BY <2>2 DEF Answerable, KeyRowSound
<1> QED
  BY <1>1, ConsoleInvHolds, PTL

(***************************************************************************)
(* The page never shows the results of a run of which it has only read the *)
(* sellers that were there before the run was over.                        *)
(***************************************************************************)
THEOREM WholeResults == Spec => []ResultsComplete
<1>1. ConsoleInv => ResultsComplete
  BY DEF ConsoleInv, MonitorInv, MonitorSound, ResultsComplete, ShowsResults, Displayed
<1> QED
  BY <1>1, ConsoleInvHolds, PTL

(***************************************************************************)
(* However many monitors, refreshes and answers that come after all there  *)
(* are, one poll loop goes on at most, and none for a run shown as over.   *)
(***************************************************************************)
THEOREM OnePoll == Spec => []PollsOnce
<1>1. ConsoleInv => PollsOnce
  BY DEF ConsoleInv, MonitorInv
<1> QED
  BY <1>1, ConsoleInvHolds, PTL

(***************************************************************************)
(* Until the page has fetched that its run is over, or shows an error, a   *)
(* fetch or a timer for that very run is under way.                        *)
(***************************************************************************)
THEOREM SomePoll == Spec => []NeverSilent
<1>1. ConsoleInv => NeverSilent
  BY DEF ConsoleInv, MonitorInv
<1> QED
  BY <1>1, ConsoleInvHolds, PTL

(***************************************************************************)
(* No answer that was on its way when the operator refreshed takes back    *)
(* that the run is over.                                                   *)
(***************************************************************************)
THEOREM OverIsShownForGood == Spec => OverStaysShown
<1> DEFINE Stays == monitor.hasFetched /\ monitor.detail = "over"
                      /\ monitor'.run = monitor.run /\ monitor'.hasFetched
                    => monitor'.detail = "over"
<1>1. ASSUME ConsoleInv, [Next]_vars PROVE [Stays]_monitor
  <2>1. monitor \in Monitor
    BY <1>1 DEF ConsoleInv, MonitorInv, MonitorTypeOK
  <2>2. CASE UNCHANGED pageVars \/ UNCHANGED vars
    BY <2>2 DEF pageVars, vars
  <2>3. ASSUME NEW p \in Polls, Refresh(p) \/ Detail(p) \/ TimerFires(p) \/ FetchLost(p)
        PROVE  monitor'.detail = monitor.detail
    BY <2>1, <2>3 DEF Refresh, Detail, ReadRow, ReadSellers, TimerFires, FetchLost, FetchFails,
                      Monitor
  <2>4. ASSUME NEW p \in Polls, Deliver(p)
        PROVE  UNCHANGED monitor \/ Stays
    <3>1. CASE polls[p].stopped
      BY <2>4, <3>1 DEF Deliver
    <3>2. CASE ~polls[p].stopped
      <4>1. monitor'.detail = Status(polls[p].over)
        BY <2>1, <2>4, <3>2 DEF Deliver, Monitor
      <4>2. monitor.hasFetched /\ monitor.detail = "over" => polls[p].over
        BY <1>1, <2>4, <3>2 DEF ConsoleInv, MonitorInv, LoopSound, Deliver, Live, In
      <4> QED
        BY <4>1, <4>2 DEF Status
    <3> QED
      BY <3>1, <3>2
  <2>5. ASSUME NEW w \in Requests, Hear(w)
        PROVE  UNCHANGED monitor \/ monitor'.detail = monitor.detail \/ ~monitor'.hasFetched
    BY <2>1, <2>5 DEF Hear, pageVars, Mount, Monitor
  <2>6. ASSUME NEW w \in Requests, NEW a \in Asks, Submit(w, a)
        PROVE  monitor'.detail = monitor.detail
    BY <2>1, <2>6 DEF Submit, Monitor
  <2>7. Reload => ~monitor'.hasFetched
    BY DEF Reload, Unmounted
  <2>8. Unreachable => UNCHANGED monitor
    BY DEF Unreachable, pageVars
  <2> QED
    BY <1>1, <2>2, <2>3, <2>4, <2>5, <2>6, <2>7, <2>8 DEF Next, Browser
<1> QED
  BY <1>1, ConsoleInvHolds, PTL DEF Spec, OverStaysShown
=============================================================================
