------------------------ MODULE OperatorQueueProofs ------------------------
(***************************************************************************)
(* What holds of the operator queue for every set of runs, invocations and *)
(* jobs, whatever fails and however invocations interleave.                *)
(*                                                                         *)
(* The four theorems follow from one inductive invariant, QueueInv.  Its   *)
(* first half says what a snapshot can still be used for; its second half  *)
(* says which stages of a run cannot have been launched yet.               *)
(***************************************************************************)
EXTENDS OperatorQueue, TLAPS

(* A run that has never been given the unit.                               *)
Waiting == {"absent", "queued"}

(* The status of a slot holder whose stage has not been claimed: pump      *)
(* writes 'starting', handoff the name of the stage.                       *)
Ready == {"starting", "resolving", "enriching"}

(* The stages that can follow stage s of a run, and s with them.           *)
After(s) ==
  IF s = "discovering" THEN {"resolving", "enriching"}
  ELSE IF s = "resolving" THEN {"enriching"}
  ELSE {}

From(s) == {s} \cup After(s)

(* A row: the unit and the job say how far the run has come.               *)
RowOK(row) ==
  /\ row.status \in Waiting => ~row.slot /\ row.job = NoJob
  /\ row.slot =>
       /\ row.stage \in CrawlStages
       /\ row.status \in Ready \cup {"launching", "running", "ingesting"}
       /\ row.job # NoJob <=> row.status \in {"running", "ingesting"}

(* An invocation: what its snapshot and its next write can be.             *)
InvocationOK(i) ==
  /\ i.pc \notin {"idle", "pump", "recheck", "pick"} => i.id \in Runs
  /\ i.pc \in {"sync", "outcome"} => i.row.status \in {"running", "ingesting"}
  /\ i.pc \in {"start", "claimLaunch"} => i.row.status # "launching"
  /\ i.pc = "transition" => i.to \in Terminal
  /\ i.pc = "handoff" => i.toStage \in After(i.row.stage)
  /\ i.pc \in {"setJob", "recoverSet"} => i.job \in Jobs
  /\ i.pc = "post" => i.row.stage \in CrawlStages

(* A fresh snapshot about to claim a launch names the stage of its row.    *)
Current(i) ==
  i.pc \in {"start", "claimLaunch"} /\ i.fresh => i.row.stage = rows[i.id].stage

(* Stage s of run r has a job, or invocation w is about to ask for one.    *)
Posting(w, r, s) == At(w, "post") /\ inv[w].id = r /\ inv[w].row.stage = s

Launched(r, s) == Tagged(r, s) # {}

(* The stages of a row that cannot have been launched.                     *)
Due(row) ==
  IF row.status \in Waiting THEN StageNames
  ELSE IF ~row.slot THEN {}
  ELSE IF row.status \in Ready THEN From(row.stage)
  ELSE After(row.stage)

SnapshotInv ==
  /\ TypeOK
  /\ SlotUnique
  /\ \A r \in Runs : RowOK(rows[r])
  /\ \A w \in Workers : InvocationOK(inv[w])

LaunchInv ==
  /\ \A w \in Workers : Current(inv[w])
  /\ \A r \in Runs : \A s \in Due(rows[r]) :
       ~Launched(r, s) /\ \A w \in Workers : ~Posting(w, r, s)
  /\ \A w \in Workers : At(w, "post") => ~Launched(inv[w].id, inv[w].row.stage)
  /\ \A v, w \in Workers : \A r \in Runs, s \in StageNames :
       Posting(v, r, s) /\ Posting(w, r, s) => v = w
  /\ LaunchOnce

QueueInv == SnapshotInv /\ LaunchInv

-----------------------------------------------------------------------------
(* What the invocations of the model are built from.                       *)

(* The points an invocation passes without a snapshot it relies on.        *)
Unaimed == {"idle", "pump", "recheck", "pick"}

(* Idle, and an invocation that is about to pump, are well formed.         *)
LEMMA UnaimedOK ==
  ASSUME NEW p \in Unaimed
  PROVE  /\ [Idle EXCEPT !.pc = p] \in Invocation
         /\ InvocationOK([Idle EXCEPT !.pc = p])
         /\ [Idle EXCEPT !.pc = p].pc = p
         /\ Idle \in Invocation
         /\ InvocationOK(Idle)
         /\ Idle.pc = "idle"
BY ConstantsAssumption DEF Unaimed, Idle, Invocation, Points, Row, NoRow, Statuses, StageNames,
   Terminal, CrawlStages, InvocationOK, NoRun, NoJob

(* What a snapshot of row r holds.                                         *)
LEMMA SnapshotShape ==
  ASSUME TypeOK, NEW r \in Runs, NEW p \in Points, NEW then \in {"idle", "recheck", "pump"}
  PROVE  /\ Snapshot(r, p, then) \in Invocation
         /\ Snapshot(r, p, then).pc = p
         /\ Snapshot(r, p, then).id = r
         /\ Snapshot(r, p, then).row = rows[r]
BY DEF Snapshot, TypeOK, Idle, Invocation, Points, Row, NoRow, Statuses, StageNames,
   Terminal, CrawlStages, NoRun, NoJob

(* EnterStage ends, or goes on with a snapshot it may use.                 *)
LEMMA EnterStageOK ==
  ASSUME SnapshotInv, NEW r \in Runs, NEW then \in {"idle", "recheck", "pump"}
  PROVE  /\ EnterStage(r, then) \in Invocation
         /\ InvocationOK(EnterStage(r, then))
         /\ Current(EnterStage(r, then))
         /\ EnterStage(r, then).pc # "post"
<1>1. /\ then \in Unaimed /\ "recover" \in Points /\ "start" \in Points /\ "claimLaunch" \in Points
  BY DEF Unaimed, Points
<1>2. CASE rows[r].status = "launching" /\ ~aged[r]
  <2>1. EnterStage(r, then) = [Idle EXCEPT !.pc = then]
    BY <1>2 DEF EnterStage
  <2> QED
    BY <1>1, <2>1, UnaimedOK DEF Current, Unaimed
<1>3. CASE rows[r].status = "launching" /\ aged[r]
  <2>1. EnterStage(r, then) = Snapshot(r, "recover", then)
    BY <1>3 DEF EnterStage
  <2> QED
    BY <1>1, <2>1, SnapshotShape DEF Current, InvocationOK, SnapshotInv
<1>4. CASE rows[r].status # "launching"
  <2>1. PICK p \in {"start", "claimLaunch"} : EnterStage(r, then) = Snapshot(r, p, then)
    BY <1>4 DEF EnterStage
  <2> QED
    BY <1>1, <1>4, <2>1, SnapshotShape DEF Current, InvocationOK, SnapshotInv
<1> QED
  BY <1>2, <1>3, <1>4

(* So does Advance, for a run that holds the unit.                         *)
LEMMA AdvanceOK ==
  ASSUME SnapshotInv, NEW r \in Runs, HoldsSlot(r), NEW then \in {"idle", "recheck", "pump"}
  PROVE  /\ Advance(r, then) \in Invocation
         /\ InvocationOK(Advance(r, then))
         /\ Current(Advance(r, then))
         /\ Advance(r, then).pc # "post"
<1>1. CASE rows[r].job = NoJob
  BY <1>1, EnterStageOK DEF Advance
<1>2. CASE rows[r].job # NoJob
  <2>1. "sync" \in Points /\ Advance(r, then) = Snapshot(r, "sync", then)
    BY <1>2 DEF Advance, Points
  <2>2. rows[r].status \in {"running", "ingesting"}
    BY <1>2 DEF SnapshotInv, RowOK, HoldsSlot
  <2> QED
    BY <2>1, <2>2, SnapshotShape DEF Current, InvocationOK, SnapshotInv
<1> QED
  BY <1>1, <1>2

(* What follows a sync, a launch or a transition is well formed.           *)
LEMMA DoneOK ==
  ASSUME SnapshotInv, NEW w \in Workers
  PROVE  /\ Done(w) \in Invocation
         /\ InvocationOK(Done(w))
         /\ Current(Done(w))
         /\ Done(w).pc \notin {"post", "start", "claimLaunch"}
<1>1. inv[w].then \in {"idle", "recheck", "pump"}
  BY DEF SnapshotInv, TypeOK, Invocation
<1>2. CASE inv[w].then = "idle"
  <2>1. Done(w) = Idle
    BY <1>2 DEF Done
  <2> QED
    BY <2>1, UnaimedOK DEF Current, Unaimed
<1>3. CASE inv[w].then # "idle"
  <2>1. Done(w) = [Idle EXCEPT !.pc = inv[w].then]
    BY <1>3 DEF Done
  <2> QED
    BY <1>1, <2>1, UnaimedOK DEF Current, Unaimed
<1> QED
  BY <1>2, <1>3

(* An invocation with a snapshot may turn to a terminal transition.        *)
LEMMA TowardsOK ==
  ASSUME SnapshotInv, NEW w \in Workers, inv[w].pc \notin Unaimed,
         NEW status \in Terminal, NEW stage \in StageNames
  PROVE  /\ Towards(w, status, stage) \in Invocation
         /\ InvocationOK(Towards(w, status, stage))
         /\ Current(Towards(w, status, stage))
         /\ Towards(w, status, stage).pc = "transition"
<1>1. inv[w] \in Invocation /\ InvocationOK(inv[w]) /\ inv[w].id \in Runs
  BY DEF SnapshotInv, TypeOK, InvocationOK, Unaimed
<1> QED
  BY <1>1 DEF Towards, Invocation, InvocationOK, Current, Points, Statuses, Terminal

-----------------------------------------------------------------------------
(* What a step must respect to preserve the invariant.                     *)

(* No job is accepted, and none changes the stage it was accepted for.     *)
SameTags ==
  \A j \in Jobs : /\ cloud'[j].run = cloud[j].run
                  /\ cloud'[j].stage = cloud[j].stage
                  /\ Accepted(j)' <=> Accepted(j)

(* The steps that neither accept a job nor set out to ask for one keep     *)
(* LaunchInv when every run has at most the stages due that it had.        *)
LEMMA LaunchInvKept ==
  ASSUME LaunchInv, SameTags,
         \A r \in Runs : Due(rows'[r]) \subseteq Due(rows[r]),
         \A v \in Workers : Current(inv[v])',
         \A v \in Workers : inv'[v].pc = "post" =>
           /\ inv[v].pc = "post" /\ inv'[v].id = inv[v].id
           /\ inv'[v].row.stage = inv[v].row.stage
  PROVE  LaunchInv'
<1>1. ASSUME NEW r, NEW s PROVE Launched(r, s)' <=> Launched(r, s)
  BY DEF Launched, Tagged, SameTags
<1>2. ASSUME NEW v \in Workers, NEW r, NEW s, Posting(v, r, s)' PROVE Posting(v, r, s)
  BY <1>2 DEF Posting, At
<1>3. (\A r \in Runs : \A s \in Due(rows[r]) :
         ~Launched(r, s) /\ \A w \in Workers : ~Posting(w, r, s))'
  BY <1>1, <1>2 DEF LaunchInv
<1>4. (\A w \in Workers : At(w, "post") => ~Launched(inv[w].id, inv[w].row.stage))'
  BY <1>1 DEF LaunchInv, At
<1>5. (\A v, w \in Workers : \A r \in Runs, s \in StageNames :
         Posting(v, r, s) /\ Posting(w, r, s) => v = w)'
  BY <1>2 DEF LaunchInv
<1>6. LaunchOnce'
  BY DEF LaunchInv, LaunchOnce, SameTags
<1> QED
  BY <1>3, <1>4, <1>5, <1>6 DEF LaunchInv

(* A step that leaves the rows alone.                                      *)
LEMMA ReadStep ==
  ASSUME QueueInv, NEW w \in Workers, NEW n \in Invocation, Proceed(w, n),
         InvocationOK(n), Current(n), n.pc # "post",
         SameTags, cloud' \in [Jobs -> Job], outcome' \in [Runs -> Outcomes],
         cooling' \in BOOLEAN, crashes' \in Nat, UNCHANGED <<found, chilled, late>>
  PROVE  QueueInv'
<1> USE DEF QueueInv, SnapshotInv, Proceed
<1>1. TypeOK'
  BY DEF TypeOK
<1>2. SlotUnique' /\ \A r \in Runs : RowOK(rows'[r])
  BY DEF SlotUnique, HoldsSlot
<1>3. \A v \in Workers : inv'[v] = IF v = w THEN n ELSE inv[v]
  BY DEF TypeOK
<1>4. \A v \in Workers : InvocationOK(inv'[v])
  BY <1>3
<1>5. \A v \in Workers : Current(inv[v])'
  BY <1>3 DEF Current, LaunchInv
<1>6. LaunchInv'
  BY <1>3, <1>5, LaunchInvKept
<1> QED
  BY <1>1, <1>2, <1>4, <1>6

(* A snapshot that stops being current keeps all else.                     *)
LEMMA StaleShape ==
  ASSUME NEW i \in Invocation
  PROVE  /\ [i EXCEPT !.fresh = FALSE] \in Invocation
         /\ [i EXCEPT !.fresh = FALSE].pc = i.pc
         /\ [i EXCEPT !.fresh = FALSE].id = i.id
         /\ [i EXCEPT !.fresh = FALSE].row = i.row
         /\ [i EXCEPT !.fresh = FALSE].to = i.to
         /\ [i EXCEPT !.fresh = FALSE].toStage = i.toStage
         /\ [i EXCEPT !.fresh = FALSE].job = i.job
         /\ ~[i EXCEPT !.fresh = FALSE].fresh
BY DEF Invocation

(* And it asks no more of its invocation than before.                     *)
LEMMA StaleOK ==
  ASSUME NEW i \in Invocation
  PROVE  InvocationOK(i) => InvocationOK([i EXCEPT !.fresh = FALSE])
BY StaleShape DEF InvocationOK

(* A step that writes the row of one run.                                  *)
LEMMA WriteStep ==
  ASSUME QueueInv, NEW w \in Workers, NEW r \in Runs, NEW new \in Row, NEW n \in Invocation,
         Write(w, r, new, n), RowOK(new), InvocationOK(n),
         n.pc \notin {"post", "start", "claimLaunch"},
         new.slot => HoldsSlot(r) \/ ~SlotTaken,
         Due(new) \subseteq Due(rows[r]),
         UNCHANGED <<cloud, outcome, found, cooling, crashes, late>>,
         UNCHANGED chilled \/ Chill(r)
  PROVE  QueueInv'
<1> USE DEF QueueInv, SnapshotInv
<1>1. \A q \in Runs : rows'[q] = IF q = r THEN new ELSE rows[q]
  BY DEF Write, TypeOK
<1>2. \A v \in Workers :
        inv'[v] = IF v = w THEN n
                  ELSE IF inv[v].id = r THEN [inv[v] EXCEPT !.fresh = FALSE] ELSE inv[v]
  BY DEF Write, Outdated, TypeOK
<1>3. \A v \in Workers : inv[v] \in Invocation /\ [inv[v] EXCEPT !.fresh = FALSE] \in Invocation
  BY StaleShape DEF TypeOK
<1>4. TypeOK'
  <2>1. rows' \in [Runs -> Row] /\ aged' \in [Runs -> BOOLEAN]
    BY DEF Write, TypeOK
  <2>2. inv' \in [Workers -> Invocation]
    BY <1>2, <1>3 DEF Write, Outdated, TypeOK
  <2>3. chilled' \subseteq Runs
    BY DEF Chill, TypeOK
  <2> QED
    BY <2>1, <2>2, <2>3 DEF TypeOK
<1>5. SlotUnique'
  BY <1>1 DEF SlotUnique, SlotTaken, HoldsSlot
<1>6. \A q \in Runs : RowOK(rows'[q])
  BY <1>1
<1>7. \A v \in Workers : InvocationOK(inv'[v])
  BY <1>2, <1>3, StaleOK
<1>8. ASSUME NEW v \in Workers PROVE Current(inv[v])'
  <2>1. CASE v = w
    BY <1>2, <2>1 DEF Current
  <2>2. CASE v # w /\ inv[v].id = r
    BY <1>2, <1>3, <2>2, StaleShape DEF Current
  <2>3. CASE v # w /\ inv[v].id # r
    <3>1. inv'[v] = inv[v] /\ Current(inv[v])
      BY <1>2, <2>3 DEF LaunchInv
    <3>2. inv[v].pc \in {"start", "claimLaunch"} => rows'[inv[v].id] = rows[inv[v].id]
      BY <1>1, <2>3 DEF InvocationOK
    <3> QED
      BY <3>1, <3>2 DEF Current
  <2> QED
    BY <2>1, <2>2, <2>3
<1>9. LaunchInv'
  <2>1. SameTags
    BY DEF SameTags, Accepted
  <2>2. \A v \in Workers : inv'[v].pc = "post" =>
          /\ inv[v].pc = "post" /\ inv'[v].id = inv[v].id
          /\ inv'[v].row.stage = inv[v].row.stage
    BY <1>2, <1>3, StaleShape
  <2> QED
    BY <1>1, <1>8, <2>1, <2>2, LaunchInvKept
<1> QED
  BY <1>4, <1>5, <1>6, <1>7, <1>9

-----------------------------------------------------------------------------
(* Every action preserves the invariant.                                   *)

(* A step that only reads the store.                                       *)
LEMMA ReadOnlyStep ==
  ASSUME QueueInv, NEW w \in Workers, NEW n \in Invocation, Proceed(w, n),
         InvocationOK(n), Current(n), n.pc # "post",
         UNCHANGED <<cloud, outcome, found, cooling, chilled, crashes, late>>
  PROVE  QueueInv'
<1>1. SameTags
  BY DEF SameTags, Accepted
<1>2. /\ cloud' \in [Jobs -> Job] /\ outcome' \in [Runs -> Outcomes]
      /\ cooling' \in BOOLEAN /\ crashes' \in Nat
  BY DEF QueueInv, SnapshotInv, TypeOK
<1> QED
  BY <1>1, <1>2, ReadStep

(* The end of an invocation, or its move to another point of the pump.     *)
LEMMA UnaimedStep ==
  ASSUME QueueInv, NEW w \in Workers, NEW p \in Unaimed,
         Proceed(w, [Idle EXCEPT !.pc = p]) \/ Proceed(w, Idle),
         UNCHANGED <<cloud, outcome, found, cooling, chilled, crashes, late>>
  PROVE  QueueInv'
<1>1. Current([Idle EXCEPT !.pc = p]) /\ Current(Idle)
  BY UnaimedOK DEF Current, Unaimed
<1>2. [Idle EXCEPT !.pc = p].pc # "post" /\ Idle.pc # "post"
  BY UnaimedOK DEF Unaimed
<1> QED
  BY <1>1, <1>2, UnaimedOK, ReadOnlyStep

(* The end of syncActive, startActiveStage or transition.                  *)
LEMMA DoneStep ==
  ASSUME QueueInv, NEW w \in Workers, Proceed(w, Done(w)),
         UNCHANGED <<cloud, outcome, found, cooling, chilled, crashes, late>>
  PROVE  QueueInv'
BY DoneOK, ReadOnlyStep DEF QueueInv

(* An invocation that has read a row turns to a terminal transition.       *)
LEMMA TowardsStep ==
  ASSUME QueueInv, NEW w \in Workers, inv[w].pc \notin Unaimed,
         NEW status \in Terminal, NEW stage \in StageNames,
         Proceed(w, Towards(w, status, stage)),
         UNCHANGED <<cloud, outcome, found, cooling, chilled, crashes, late>>
  PROVE  QueueInv'
BY TowardsOK, ReadOnlyStep DEF QueueInv

(* An invocation keeps its snapshot and moves on to a point that asks      *)
(* nothing more of it.                                                     *)
LEMMA OnwardOK ==
  ASSUME SnapshotInv, NEW w \in Workers, inv[w].pc \notin Unaimed,
         NEW p \in {"claimed", "handedOff", "cancelStop", "recoverSet", "setJob"},
         NEW j \in Jobs
  PROVE  /\ [inv[w] EXCEPT !.pc = p, !.job = j] \in Invocation
         /\ InvocationOK([inv[w] EXCEPT !.pc = p, !.job = j])
         /\ [inv[w] EXCEPT !.pc = p, !.job = j].pc = p
BY DEF SnapshotInv, TypeOK, InvocationOK, Invocation, Points, Unaimed

LEMMA WaitOK ==
  ASSUME SnapshotInv, NEW w \in Workers, inv[w].pc \notin Unaimed,
         NEW p \in {"claimed", "handedOff"}
  PROVE  /\ [inv[w] EXCEPT !.pc = p] \in Invocation
         /\ InvocationOK([inv[w] EXCEPT !.pc = p])
         /\ [inv[w] EXCEPT !.pc = p].pc = p
BY DEF SnapshotInv, TypeOK, InvocationOK, Invocation, Points, Unaimed

(* An INSERT of a row whose id is new, and the pump after it.              *)
LEMMA InsertStep ==
  ASSUME QueueInv, NEW w \in Workers, NEW r \in Runs, rows[r].status = "absent",
         Write(w, r, Queued, [Idle EXCEPT !.pc = "pump"]),
         UNCHANGED <<cloud, outcome, found, cooling, crashes, late>>, Chill(r)
  PROVE  QueueInv'
<1>1. Queued \in Row /\ RowOK(Queued) /\ ~Queued.slot
  BY DEF Queued, NoRow, Row, Statuses, StageNames, RowOK, Waiting
<1>2. Due(Queued) = Due(rows[r])
  BY DEF Queued, NoRow, Due, Waiting
<1>3. "pump" \in Unaimed
  BY DEF Unaimed
<1> QED
  BY <1>1, <1>2, <1>3, UnaimedOK, WriteStep DEF Unaimed

LEMMA CreateStep ==
  ASSUME QueueInv, NEW w \in Workers, NEW r \in Runs, Create(w, r)
  PROVE  QueueInv'
BY InsertStep DEF Create

LEMMA RetryStep ==
  ASSUME QueueInv, NEW w \in Workers, NEW src \in Runs, NEW r \in Runs, Retry(w, src, r)
  PROVE  QueueInv'
BY InsertStep DEF Retry

LEMMA DetailStep ==
  ASSUME QueueInv, NEW w \in Workers, NEW r \in Runs, Detail(w, r)
  PROVE  QueueInv'
<1>1. Advance(r, "idle") \in Invocation /\ InvocationOK(Advance(r, "idle"))
      /\ Current(Advance(r, "idle")) /\ Advance(r, "idle").pc # "post"
  BY AdvanceOK DEF Detail, QueueInv
<1> QED
  BY <1>1, ReadOnlyStep DEF Detail

LEMMA CancelStep ==
  ASSUME QueueInv, NEW w \in Workers, NEW r \in Runs, Cancel(w, r)
  PROVE  QueueInv'
<1> DEFINE read == Snapshot(r, "cancelTag", "pump")
           stop == [read EXCEPT !.pc = "cancelStop", !.job = rows[r].job]
           end  == [read EXCEPT !.pc = "transition", !.to = "cancelled", !.toStage = "cancelled"]
<1>1. read \in Invocation /\ read.pc = "cancelTag" /\ read.id = r
  BY SnapshotShape DEF QueueInv, SnapshotInv, Points
<1>2. rows[r].job \in Jobs \cup {NoJob}
  BY DEF QueueInv, SnapshotInv, TypeOK, Row
<1> HIDE DEF read
<1>3. InvocationOK(read) /\ Current(read) /\ read.pc # "post"
  BY <1>1 DEF InvocationOK, Current
<1>4. stop \in Invocation /\ InvocationOK(stop) /\ Current(stop) /\ stop.pc # "post"
  BY <1>1, <1>2 DEF InvocationOK, Current, Invocation, Points
<1>5. end \in Invocation /\ InvocationOK(end) /\ Current(end) /\ end.pc # "post"
  BY <1>1 DEF InvocationOK, Current, Invocation, Points, Statuses, StageNames, Terminal
<1>6. Proceed(w, read) \/ Proceed(w, stop) \/ Proceed(w, end)
  BY DEF Cancel, read
<1> HIDE DEF stop, end
<1> QED
  BY <1>1, <1>3, <1>4, <1>5, <1>6, ReadOnlyStep DEF Cancel

LEMMA CancelTagStep ==
  ASSUME QueueInv, NEW w \in Workers, CancelTag(w)
  PROVE  QueueInv'
<1>1. inv[w].pc \notin Unaimed /\ "idle" \in Unaimed
  BY DEF CancelTag, At, Unaimed
<1>2. CASE Proceed(w, Idle)
  BY <1>1, <1>2, UnaimedStep DEF CancelTag
<1>3. ASSUME NEW j \in Jobs, Proceed(w, [inv[w] EXCEPT !.pc = "cancelStop", !.job = j])
      PROVE  QueueInv'
  <2>1. PICK n : n = [inv[w] EXCEPT !.pc = "cancelStop", !.job = j]
    OBVIOUS
  <2>2. n \in Invocation /\ InvocationOK(n) /\ n.pc = "cancelStop"
    BY <1>1, <2>1, OnwardOK DEF QueueInv
  <2>3. Current(n)
    BY <2>2 DEF Current
  <2>4. Proceed(w, n) /\ UNCHANGED <<cloud, outcome, found, cooling, chilled, crashes, late>>
    BY <1>3, <2>1 DEF CancelTag
  <2> QED
    BY <2>2, <2>3, <2>4, ReadOnlyStep
<1>4. CASE Proceed(w, Towards(w, "cancelled", "cancelled"))
  BY <1>1, <1>4, TowardsStep DEF CancelTag, Terminal, StageNames
<1>5. \/ Proceed(w, Idle) \/ Proceed(w, Towards(w, "cancelled", "cancelled"))
      \/ \E j \in Jobs : Proceed(w, [inv[w] EXCEPT !.pc = "cancelStop", !.job = j])
  BY DEF CancelTag, Tagged
<1> QED
  BY <1>2, <1>3, <1>4, <1>5

LEMMA CancelStopStep ==
  ASSUME QueueInv, NEW w \in Workers, CancelStop(w)
  PROVE  QueueInv'
<1>1. inv[w].pc \notin Unaimed /\ "idle" \in Unaimed
  BY DEF CancelStop, At, Unaimed
<1>2. CASE Proceed(w, Idle) /\ UNCHANGED cloud
  BY <1>1, <1>2, UnaimedStep DEF CancelStop
<1>3. CASE cloud' = Stopped(inv[w].job) /\ Proceed(w, Towards(w, "cancelled", "cancelled"))
  <2>1. SameTags /\ cloud' \in [Jobs -> Job]
    <3>1. cloud \in [Jobs -> Job]
      BY DEF QueueInv, SnapshotInv, TypeOK
    <3> QED
      BY <1>3, <3>1 DEF Stopped, SameTags, Accepted, Live, Job, JobStates
  <2>2. outcome' \in [Runs -> Outcomes] /\ cooling' \in BOOLEAN /\ crashes' \in Nat
    BY DEF CancelStop, QueueInv, SnapshotInv, TypeOK
  <2> QED
    BY <1>1, <1>3, <2>1, <2>2, TowardsOK, ReadStep
    DEF CancelStop, Terminal, StageNames, QueueInv
<1> QED
  BY <1>2, <1>3 DEF CancelStop

LEMMA PumpStep ==
  ASSUME QueueInv, NEW w \in Workers, Pump(w)
  PROVE  QueueInv'
<1>1. ASSUME NEW r \in Runs, HoldsSlot(r), Proceed(w, Advance(r, "recheck"))
      PROVE  QueueInv'
  BY <1>1, AdvanceOK, ReadOnlyStep DEF Pump, QueueInv
<1>2. CASE Proceed(w, [Idle EXCEPT !.pc = "pick"])
  BY <1>2, UnaimedStep DEF Pump, Unaimed
<1> QED
  BY <1>1, <1>2 DEF Pump

LEMMA RecheckStep ==
  ASSUME QueueInv, NEW w \in Workers, Recheck(w)
  PROVE  QueueInv'
BY UnaimedStep DEF Recheck, Unaimed

LEMMA PickStep ==
  ASSUME QueueInv, NEW w \in Workers, Pick(w)
  PROVE  QueueInv'
<1>1. CASE Proceed(w, Idle)
  BY <1>1, UnaimedStep DEF Pick, Unaimed
<1>2. ASSUME NEW r \in Runs,
             Proceed(w, [Snapshot(r, "transition", "idle") EXCEPT
                           !.to = "cooldown", !.toStage = "cooldown"])
      PROVE  QueueInv'
  <2> DEFINE read == Snapshot(r, "transition", "idle")
             end  == [read EXCEPT !.to = "cooldown", !.toStage = "cooldown"]
  <2>1. read \in Invocation /\ read.pc = "transition" /\ read.id = r
    BY SnapshotShape DEF QueueInv, SnapshotInv, Points
  <2> HIDE DEF read
  <2>2. end \in Invocation /\ InvocationOK(end) /\ Current(end) /\ end.pc # "post"
    BY <2>1 DEF InvocationOK, Current, Invocation, Statuses, StageNames, Terminal
  <2>3. Proceed(w, end)
    BY <1>2 DEF read
  <2> HIDE DEF end
  <2> QED
    BY <2>2, <2>3, ReadOnlyStep DEF Pick
<1>3. ASSUME NEW r \in Runs, Proceed(w, Snapshot(r, "claim", "idle"))
      PROVE  QueueInv'
  <2> DEFINE read == Snapshot(r, "claim", "idle")
  <2>1. read \in Invocation /\ read.pc = "claim" /\ read.id = r
    BY SnapshotShape DEF QueueInv, SnapshotInv, Points
  <2> HIDE DEF read
  <2>2. InvocationOK(read) /\ Current(read) /\ read.pc # "post"
    BY <2>1 DEF InvocationOK, Current
  <2>3. Proceed(w, read)
    BY <1>3 DEF read
  <2> QED
    BY <2>1, <2>2, <2>3, ReadOnlyStep DEF Pick
<1> QED
  BY <1>1, <1>2, <1>3 DEF Pick

(* The claim of the unit: every stage of a queued run is due, and still is *)
(* from the stage the run starts with.                                     *)
LEMMA ClaimStep ==
  ASSUME QueueInv, NEW w \in Workers, Claim(w)
  PROVE  QueueInv'
<1> DEFINE r    == inv[w].id
           next == [inv[w] EXCEPT !.pc = "claimed"]
           new  == [rows[r] EXCEPT !.status = "starting", !.stage = StartStage(r), !.slot = TRUE]
<1>1. inv[w].pc = "claim" /\ inv[w].pc \notin Unaimed
  BY DEF Claim, At, Unaimed
<1>2. r \in Runs
  BY <1>1 DEF QueueInv, SnapshotInv, InvocationOK
<1>3. next \in Invocation /\ InvocationOK(next) /\ next.pc = "claimed"
  BY <1>1, WaitOK DEF QueueInv
<1>4. UNCHANGED <<cloud, outcome, found, cooling, crashes, late>>
  BY DEF Claim
<1> HIDE DEF next
<1>5. CASE Claimable(r) /\ Write(w, r, new, next) /\ Chill(r)
  <2>1. StartStage(r) \in CrawlStages
    BY <1>2, ConstantsAssumption DEF StartStage, CrawlStages, Modes
  <2>2. rows[r] \in Row /\ rows[r].status = "queued" /\ rows[r].job = NoJob /\ ~SlotTaken
    BY <1>2, <1>5 DEF Claimable, QueueInv, SnapshotInv, TypeOK, RowOK, Waiting
  <2>3. new \in Row /\ new.status = "starting" /\ new.stage \in CrawlStages /\ new.job = NoJob
    BY <2>1, <2>2 DEF Row, Statuses, StageNames
  <2> HIDE DEF new
  <2>4. RowOK(new)
    BY <2>3 DEF RowOK, Waiting, Ready
  <2>5. Due(new) \subseteq Due(rows[r])
    BY <2>2, <2>3 DEF Due, Waiting, Ready, From, After, StageNames, CrawlStages
  <2> HIDE DEF r
  <2> QED
    BY <1>2, <1>3, <1>4, <1>5, <2>2, <2>3, <2>4, <2>5, WriteStep
<1>6. CASE Proceed(w, next) /\ UNCHANGED chilled
  <2> HIDE DEF r, new
  <2> QED
    BY <1>3, <1>4, <1>6, ReadOnlyStep DEF Current
<1> QED
  BY <1>5, <1>6 DEF Claim, next

LEMMA ClaimedStep ==
  ASSUME QueueInv, NEW w \in Workers, Claimed(w)
  PROVE  QueueInv'
<1>1. inv[w].id \in Runs
  BY DEF Claimed, At, QueueInv, SnapshotInv, InvocationOK
<1>2. CASE Proceed(w, EnterStage(inv[w].id, "idle"))
  BY <1>1, <1>2, EnterStageOK, ReadOnlyStep DEF Claimed, QueueInv
<1>3. CASE Proceed(w, Idle)
  BY <1>3, UnaimedStep DEF Claimed, Unaimed
<1> QED
  BY <1>2, <1>3 DEF Claimed

LEMMA StartDiscoveryStep ==
  ASSUME QueueInv, NEW w \in Workers, StartDiscovery(w)
  PROVE  QueueInv'
<1> DEFINE next == [inv[w] EXCEPT !.pc = "claimLaunch"]
<1>1. inv[w].pc = "start" /\ inv[w].pc \notin Unaimed
  BY DEF StartDiscovery, At, Unaimed
<1>2. CASE Proceed(w, ToCooldown(w))
  BY <1>1, <1>2, TowardsStep DEF StartDiscovery, ToCooldown, Terminal, StageNames
<1>3. CASE Proceed(w, next)
  <2>1. /\ inv[w] \in Invocation /\ InvocationOK(inv[w]) /\ Current(inv[w])
    BY DEF QueueInv, SnapshotInv, LaunchInv, TypeOK
  <2>2. /\ next \in Invocation /\ next.pc = "claimLaunch" /\ next.id = inv[w].id
        /\ next.row = inv[w].row /\ next.fresh = inv[w].fresh
    BY <2>1 DEF Invocation, Points
  <2> HIDE DEF next
  <2>3. InvocationOK(next) /\ Current(next) /\ next.pc # "post"
    BY <1>1, <2>1, <2>2 DEF InvocationOK, Current
  <2> QED
    BY <1>3, <2>2, <2>3, ReadOnlyStep DEF StartDiscovery
<1> QED
  BY <1>2, <1>3 DEF StartDiscovery

(* A launched job becomes known, the stage being due no longer.            *)
LEMMA TrackedOK ==
  ASSUME SnapshotInv, NEW r \in Runs, NEW j \in Jobs
  PROVE  /\ Tracked(rows[r], j) \in Row
         /\ RowOK(Tracked(rows[r], j))
         /\ Tracked(rows[r], j).slot => HoldsSlot(r)
         /\ Due(Tracked(rows[r], j)) \subseteq Due(rows[r])
<1> DEFINE new == Tracked(rows[r], j)
<1>1. rows[r] \in Row /\ RowOK(rows[r]) /\ j # NoJob
  BY ConstantsAssumption DEF SnapshotInv, TypeOK
<1>2. /\ new \in Row /\ new.status = "running" /\ new.job = j
      /\ new.slot = rows[r].slot /\ new.stage = rows[r].stage
  BY <1>1 DEF Tracked, Row, Statuses
<1> HIDE DEF new
<1>3. RowOK(new)
  BY <1>1, <1>2 DEF RowOK, Waiting, Ready
<1>4. Due(new) \subseteq Due(rows[r])
  BY <1>1, <1>2 DEF Due, RowOK, Waiting, Ready, From
<1> QED
  BY <1>2, <1>3, <1>4 DEF new, HoldsSlot

LEMMA SetJobStep ==
  ASSUME QueueInv, NEW w \in Workers, SetJob(w)
  PROVE  QueueInv'
<1>1. inv[w].pc = "setJob" /\ inv[w].pc \notin Unaimed
  BY DEF SetJob, At, Unaimed
<1>2. inv[w].id \in Runs /\ inv[w].job \in Jobs /\ inv[w].row.stage \in StageNames
  BY <1>1 DEF QueueInv, SnapshotInv, InvocationOK, TypeOK, Invocation, Row
<1>3. /\ LaunchFailed(w) \in Invocation /\ InvocationOK(LaunchFailed(w))
      /\ LaunchFailed(w).pc = "transition"
  BY <1>1, <1>2, TowardsOK DEF LaunchFailed, QueueInv, Terminal
<1>4. /\ Done(w) \in Invocation /\ InvocationOK(Done(w))
      /\ Done(w).pc \notin {"post", "start", "claimLaunch"}
  BY DoneOK DEF QueueInv
<1>5. ASSUME NEW n \in {Done(w), LaunchFailed(w)},
             Write(w, inv[w].id, Tracked(rows[inv[w].id], inv[w].job), n)
      PROVE  QueueInv'
  BY <1>2, <1>3, <1>4, <1>5, TrackedOK, WriteStep DEF SetJob, QueueInv
<1>6. CASE Proceed(w, LaunchFailed(w))
  BY <1>1, <1>2, <1>6, TowardsStep DEF SetJob, LaunchFailed, Terminal
<1> QED
  BY <1>5, <1>6 DEF SetJob

LEMMA RecoverStep ==
  ASSUME QueueInv, NEW w \in Workers, Recover(w)
  PROVE  QueueInv'
<1>1. inv[w].pc = "recover" /\ inv[w].pc \notin Unaimed
  BY DEF Recover, At, Unaimed
<1>2. CASE Proceed(w, Done(w))
  BY <1>2, DoneStep DEF Recover
<1>3. ASSUME NEW j \in Jobs, Proceed(w, [inv[w] EXCEPT !.pc = "recoverSet", !.job = j])
      PROVE  QueueInv'
  <2>1. PICK n : n = [inv[w] EXCEPT !.pc = "recoverSet", !.job = j]
    OBVIOUS
  <2>2. n \in Invocation /\ InvocationOK(n) /\ n.pc = "recoverSet"
    BY <1>1, <2>1, OnwardOK DEF QueueInv
  <2>3. Current(n)
    BY <2>2 DEF Current
  <2>4. Proceed(w, n) /\ UNCHANGED <<cloud, outcome, found, cooling, chilled, crashes, late>>
    BY <1>3, <2>1 DEF Recover
  <2> QED
    BY <2>2, <2>3, <2>4, ReadOnlyStep
<1>4. CASE Proceed(w, LaunchFailed(w))
  <2>1. inv[w].row.stage \in StageNames
    BY DEF QueueInv, SnapshotInv, TypeOK, Invocation, Row
  <2> QED
    BY <1>1, <1>4, <2>1, TowardsStep DEF Recover, LaunchFailed, Terminal
<1>5. \/ Proceed(w, Done(w)) \/ Proceed(w, LaunchFailed(w))
      \/ \E j \in Jobs : Proceed(w, [inv[w] EXCEPT !.pc = "recoverSet", !.job = j])
  BY DEF Recover, Tagged
<1> QED
  BY <1>2, <1>3, <1>4, <1>5

LEMMA RecoverSetStep ==
  ASSUME QueueInv, NEW w \in Workers, RecoverSet(w)
  PROVE  QueueInv'
<1>1. inv[w].id \in Runs /\ inv[w].job \in Jobs
  BY DEF RecoverSet, At, QueueInv, SnapshotInv, InvocationOK
<1>2. CASE Write(w, inv[w].id, Tracked(rows[inv[w].id], inv[w].job), Done(w))
  BY <1>1, <1>2, TrackedOK, DoneOK, WriteStep DEF RecoverSet, QueueInv
<1>3. CASE Proceed(w, Done(w))
  BY <1>3, DoneStep DEF RecoverSet
<1> QED
  BY <1>2, <1>3 DEF RecoverSet

LEMMA SyncActiveStep ==
  ASSUME QueueInv, NEW w \in Workers, SyncActive(w)
  PROVE  QueueInv'
<1>1. inv[w].pc = "sync" /\ inv[w].pc \notin Unaimed
  BY DEF SyncActive, At, Unaimed
<1>2. inv[w].row.status \in {"running", "ingesting"} /\ inv[w] \in Invocation /\ inv[w].id \in Runs
  BY <1>1 DEF QueueInv, SnapshotInv, InvocationOK, TypeOK
<1>3. CASE Proceed(w, Done(w))
  BY <1>3, DoneStep DEF SyncActive
<1>4. CASE \/ Proceed(w, Towards(w, "cancelled", "cancelled"))
           \/ Proceed(w, Towards(w, "failed", "failed"))
  BY <1>1, <1>4, TowardsStep DEF SyncActive, Terminal, StageNames
<1>5. CASE Proceed(w, [inv[w] EXCEPT !.pc = "outcome"])
  <2> DEFINE next == [inv[w] EXCEPT !.pc = "outcome"]
  <2>1. /\ next \in Invocation /\ next.pc = "outcome" /\ next.id = inv[w].id
        /\ next.row = inv[w].row
    BY <1>2 DEF Invocation, Points
  <2> HIDE DEF next
  <2>2. InvocationOK(next) /\ Current(next) /\ next.pc # "post"
    BY <1>2, <2>1 DEF InvocationOK, Current
  <2>3. Proceed(w, next)
    BY <1>5 DEF next
  <2> QED
    BY <2>1, <2>2, <2>3, ReadOnlyStep DEF SyncActive
<1> QED
  BY <1>2, <1>3, <1>4, <1>5 DEF SyncActive

LEMMA ReadOutcomeStep ==
  ASSUME QueueInv, NEW w \in Workers, ReadOutcome(w)
  PROVE  QueueInv'
<1> DEFINE r    == inv[w].id
           to   == NextStage(r, inv[w].row.stage)
           next == [inv[w] EXCEPT !.pc = "handoff", !.toStage = to]
<1>1. inv[w].pc = "outcome" /\ inv[w].pc \notin Unaimed
  BY DEF ReadOutcome, At, Unaimed
<1>2. inv[w] \in Invocation /\ r \in Runs
  BY <1>1 DEF QueueInv, SnapshotInv, InvocationOK, TypeOK
<1>3. ASSUME NEW o \in {"blocked", "cooldown"}, Proceed(w, Towards(w, o, o))
      PROVE  QueueInv'
  BY <1>1, <1>3, TowardsStep DEF ReadOutcome, Terminal, StageNames
<1>4. ASSUME NEW status \in {"completed", "completed_with_warnings"},
             Proceed(w, Towards(w, status, "completed"))
      PROVE  QueueInv'
  BY <1>1, <1>4, TowardsStep DEF ReadOutcome, Terminal, StageNames
<1>5. CASE to # "completed" /\ Proceed(w, next)
  <2>1. to \in After(inv[w].row.stage) /\ to \in StageNames
    BY <1>5 DEF NextStage, After, StageNames, CrawlStages
  <2> HIDE DEF to
  <2>2. /\ next \in Invocation /\ next.pc = "handoff" /\ next.id = r
        /\ next.row = inv[w].row /\ next.toStage = to
    BY <1>2, <2>1 DEF Invocation, Points
  <2> HIDE DEF next
  <2>3. InvocationOK(next) /\ Current(next) /\ next.pc # "post"
    BY <1>2, <2>1, <2>2 DEF InvocationOK, Current
  <2> QED
    BY <1>5, <2>2, <2>3, ReadOnlyStep DEF ReadOutcome
<1> QED
  BY <1>3, <1>4, <1>5 DEF ReadOutcome

(* Only terminal transitions are ever written: each releases the unit.     *)
LEMMA TransitionStep ==
  ASSUME QueueInv, NEW w \in Workers, Transition(w)
  PROVE  QueueInv'
<1> DEFINE r   == inv[w].id
           new == [rows[r] EXCEPT !.status = inv[w].to, !.stage = inv[w].toStage,
                                  !.slot = SlotAfter(w)]
<1>1. inv[w] \in Invocation /\ r \in Runs /\ inv[w].to \in Terminal
  BY DEF Transition, At, QueueInv, SnapshotInv, InvocationOK, TypeOK
<1>2. SlotAfter(w) = FALSE
  BY <1>1 DEF SlotAfter
<1>3. rows[r] \in Row /\ inv[w].to \in Statuses /\ inv[w].toStage \in StageNames
  BY <1>1 DEF QueueInv, SnapshotInv, TypeOK, Invocation
<1>4. new \in Row /\ ~new.slot /\ new.status = inv[w].to
  BY <1>2, <1>3 DEF Row
<1>5. Write(w, r, new, Done(w))
  BY DEF Transition
<1> HIDE DEF new
<1>6. RowOK(new) /\ Due(new) \subseteq Due(rows[r])
  BY <1>1, <1>4 DEF RowOK, Due, Waiting, Terminal
<1> HIDE DEF r
<1> QED
  BY <1>1, <1>4, <1>5, <1>6, DoneOK, WriteStep DEF Transition, QueueInv

(* The stages after the one that is handed on are all due.                 *)
LEMMA HandoffStep ==
  ASSUME QueueInv, NEW w \in Workers, Handoff(w)
  PROVE  QueueInv'
<1> DEFINE r    == inv[w].id
           s    == inv[w].toStage
           new  == HandedTo(rows[r], s)
           next == [inv[w] EXCEPT !.pc = "handedOff"]
<1>1. inv[w].pc = "handoff" /\ inv[w].pc \notin Unaimed
  BY DEF Handoff, At, Unaimed
<1>2. r \in Runs /\ s \in After(inv[w].row.stage)
  BY <1>1 DEF QueueInv, SnapshotInv, InvocationOK
<1>3. next \in Invocation /\ InvocationOK(next) /\ next.pc = "handedOff"
  BY <1>1, WaitOK DEF QueueInv
<1> HIDE DEF next
<1>4. CASE rows[r].stage = inv[w].row.stage /\ Write(w, r, new, next)
  <2>1. rows[r] \in Row /\ RowOK(rows[r])
    BY <1>2 DEF QueueInv, SnapshotInv, TypeOK
  <2>2. s \in {"resolving", "enriching"} /\ s \in After(rows[r].stage)
    BY <1>2, <1>4 DEF After
  <2>3. /\ new \in Row /\ new.status = s /\ new.stage = s /\ new.job = NoJob
        /\ new.slot = rows[r].slot
    BY <2>1, <2>2 DEF HandedTo, Row, Statuses, StageNames, CrawlStages
  <2> HIDE DEF new, s
  <2>4. RowOK(new)
    BY <2>2, <2>3 DEF RowOK, Waiting, Ready, CrawlStages
  <2>5. Due(new) \subseteq Due(rows[r])
    BY <2>1, <2>2, <2>3 DEF RowOK, Due, Waiting, Ready, From, After, CrawlStages
  <2> HIDE DEF r
  <2> QED
    BY <1>2, <1>3, <1>4, <2>3, <2>4, <2>5, WriteStep DEF Handoff, HoldsSlot
<1>5. CASE Proceed(w, Done(w))
  BY <1>5, DoneStep DEF Handoff
<1> QED
  BY <1>4, <1>5 DEF Handoff, next

LEMMA HandedOffStep ==
  ASSUME QueueInv, NEW w \in Workers, HandedOff(w)
  PROVE  QueueInv'
<1>1. inv[w].id \in Runs /\ inv[w].then \in {"idle", "recheck", "pump"}
  BY DEF HandedOff, At, QueueInv, SnapshotInv, InvocationOK, TypeOK, Invocation
<1>2. CASE Proceed(w, EnterStage(inv[w].id, inv[w].then))
  BY <1>1, <1>2, EnterStageOK, ReadOnlyStep DEF HandedOff, QueueInv
<1>3. CASE Proceed(w, Done(w))
  BY <1>3, DoneStep DEF HandedOff
<1> QED
  BY <1>2, <1>3 DEF HandedOff

LEMMA CrashStep ==
  ASSUME QueueInv, NEW w \in Workers, Crash(w)
  PROVE  QueueInv'
<1>1. SameTags /\ cloud' \in [Jobs -> Job] /\ outcome' \in [Runs -> Outcomes]
      /\ cooling' \in BOOLEAN /\ crashes' \in Nat
  BY DEF Crash, SameTags, Accepted, QueueInv, SnapshotInv, TypeOK
<1> QED
  BY <1>1, UnaimedOK, ReadStep DEF Crash, Unaimed, Current

(* The claim of a launch: the stage was due, so nobody has launched it or  *)
(* is about to, and from now on it is due no longer.                       *)
LEMMA ClaimLaunchStep ==
  ASSUME QueueInv, NEW w \in Workers, ClaimLaunch(w)
  PROVE  QueueInv'
<1> DEFINE r    == inv[w].id
           s    == inv[w].row.stage
           new  == [rows[r] EXCEPT !.status = "launching"]
           next == [inv[w] EXCEPT !.pc = "post", !.row.status = "launching"]
<1>1. inv[w].pc = "claimLaunch"
  BY DEF ClaimLaunch, At
<1>2. /\ r \in Runs /\ inv[w] \in Invocation /\ rows[r] \in Row /\ RowOK(rows[r])
      /\ inv[w].row.status # "launching" /\ s \in StageNames
  BY <1>1 DEF QueueInv, SnapshotInv, InvocationOK, TypeOK, Invocation, Row
<1>3. CASE Proceed(w, Done(w))
  BY <1>3, DoneStep DEF ClaimLaunch
<1>4. CASE Launchable(w) /\ Write(w, r, new, next)
  <2>1. /\ rows[r].slot /\ rows[r].job = NoJob /\ rows[r].status \in Ready
        /\ rows[r].stage = s /\ s \in CrawlStages
    BY <1>1, <1>2, <1>4 DEF Launchable, RowOK, QueueInv, LaunchInv, Current
  <2>2. /\ s \in Due(rows[r])
        /\ ~Launched(r, s) /\ \A v \in Workers : ~Posting(v, r, s)
    BY <1>2, <2>1 DEF Due, Ready, Waiting, From, QueueInv, LaunchInv
  <2>3. /\ new \in Row /\ new.status = "launching" /\ new.slot /\ new.job = NoJob
        /\ new.stage = s
    BY <1>2, <2>1 DEF Row, Statuses
  <2>4. next \in Invocation /\ next.pc = "post" /\ next.id = r /\ next.row.stage = s
    BY <1>2 DEF Invocation, Points, Row, Statuses
  <2>5. \A q \in Runs : rows'[q] = IF q = r THEN new ELSE rows[q]
    BY <1>4 DEF Write, QueueInv, SnapshotInv, TypeOK
  <2>6. /\ inv'[w] = next
        /\ \A v \in Workers \ {w} :
             inv'[v] = IF inv[v].id = r THEN [inv[v] EXCEPT !.fresh = FALSE] ELSE inv[v]
    BY <1>4 DEF Write, Outdated, QueueInv, SnapshotInv, TypeOK
  <2> HIDE DEF new, next
  <2>7. \A v \in Workers : inv[v] \in Invocation /\ [inv[v] EXCEPT !.fresh = FALSE] \in Invocation
    BY StaleShape DEF QueueInv, SnapshotInv, TypeOK
  <2>8. \A v \in Workers \ {w} :
           inv'[v].pc = inv[v].pc /\ inv'[v].id = inv[v].id /\ inv'[v].row = inv[v].row
    <3> HIDE DEF r
    <3>1. ASSUME NEW v \in Workers \ {w}
          PROVE  inv'[v].pc = inv[v].pc /\ inv'[v].id = inv[v].id /\ inv'[v].row = inv[v].row
      <4>1. inv[v] \in Invocation
        BY <2>7
      <4> QED
        BY <2>6, <4>1, StaleShape
    <3> QED
      BY <3>1
  <2>9. TypeOK'
    <3>1. rows' \in [Runs -> Row] /\ aged' \in [Runs -> BOOLEAN]
      BY <1>4, <2>3 DEF Write, QueueInv, SnapshotInv, TypeOK
    <3>2. inv' \in [Workers -> Invocation]
      BY <1>4, <2>4, <2>7 DEF Write, Outdated, QueueInv, SnapshotInv, TypeOK
    <3> QED
      BY <3>1, <3>2 DEF ClaimLaunch, QueueInv, SnapshotInv, TypeOK
  <2>10. SlotUnique'
    BY <2>1, <2>3, <2>5 DEF QueueInv, SnapshotInv, SlotUnique, HoldsSlot
  <2>11. \A q \in Runs : RowOK(rows'[q])
    <3>1. RowOK(new)
      BY <1>2, <2>1, <2>3 DEF RowOK, Waiting
    <3> QED
      BY <2>5, <3>1 DEF QueueInv, SnapshotInv
  <2>12. \A v \in Workers : InvocationOK(inv'[v])
    <3>1. InvocationOK(next)
      BY <1>2, <2>1, <2>4 DEF InvocationOK
    <3> QED
      BY <2>6, <2>7, <3>1, StaleOK DEF QueueInv, SnapshotInv
  <2>13. ASSUME NEW v \in Workers PROVE Current(inv[v])'
    <3>1. CASE v = w
      BY <2>4, <2>6, <3>1 DEF Current
    <3>2. CASE v # w /\ inv[v].id = r
      BY <2>6, <2>7, <3>2, StaleShape DEF Current
    <3>3. CASE v # w /\ inv[v].id # r
      <4>1. inv'[v] = inv[v] /\ Current(inv[v])
        BY <2>6, <3>3 DEF QueueInv, LaunchInv
      <4>2. inv[v].pc \in {"start", "claimLaunch"} => rows'[inv[v].id] = rows[inv[v].id]
        BY <2>5, <3>3 DEF QueueInv, SnapshotInv, InvocationOK
      <4> QED
        BY <4>1, <4>2 DEF Current
    <3> QED
      BY <3>1, <3>2, <3>3
  <2>14. ASSUME NEW q, NEW t PROVE Launched(q, t)' <=> Launched(q, t)
    BY DEF ClaimLaunch, Launched, Tagged, Accepted
  <2>15. ASSUME NEW v \in Workers, NEW q, NEW t, Posting(v, q, t)'
         PROVE  Posting(v, q, t) \/ (v = w /\ q = r /\ t = s)
    <3>1. CASE v = w
      BY <2>4, <2>6, <2>15, <3>1 DEF Posting, At
    <3>2. CASE v # w
      BY <2>15, <2>8, <3>2 DEF Posting, At
    <3> QED
      BY <3>1, <3>2
  <2>16. (\A q \in Runs : \A t \in Due(rows[q]) :
            ~Launched(q, t) /\ \A v \in Workers : ~Posting(v, q, t))'
    <3>1. Due(new) \subseteq Due(rows[r]) \ {s}
      BY <2>1, <2>3 DEF Due, Ready, Waiting, From, After
    <3> QED
      BY <2>5, <2>14, <2>15, <3>1 DEF QueueInv, LaunchInv
  <2>17. (\A v \in Workers : At(v, "post") => ~Launched(inv[v].id, inv[v].row.stage))'
    <3>1. ASSUME NEW v \in Workers, At(v, "post")'
          PROVE  ~Launched(inv'[v].id, inv'[v].row.stage)
      <4>1. CASE v = w
        BY <2>2, <2>4, <2>6, <4>1
      <4>2. CASE v # w
        BY <2>8, <3>1, <4>2 DEF At, QueueInv, LaunchInv
      <4> QED
        BY <4>1, <4>2
    <3> QED
      BY <2>14, <3>1
  <2>18. (\A u, v \in Workers : \A q \in Runs, t \in StageNames :
            Posting(u, q, t) /\ Posting(v, q, t) => u = v)'
    BY <2>2, <2>15 DEF QueueInv, LaunchInv
  <2>19. LaunchOnce'
    BY DEF ClaimLaunch, QueueInv, LaunchInv, LaunchOnce, Accepted
  <2> QED
    BY <2>9, <2>10, <2>11, <2>12, <2>13, <2>16, <2>17, <2>18, <2>19
    DEF QueueInv, SnapshotInv, LaunchInv
<1> QED
  BY <1>3, <1>4 DEF ClaimLaunch

(* The acceptance of a job: the invocation that asked for it was the only  *)
(* one to ask, and leaves the point at which it asks.                      *)
LEMMA AcceptStep ==
  ASSUME QueueInv, NEW w \in Workers, At(w, "post"), NEW j \in Jobs, Accept(w, j),
         NEW n \in Invocation, Proceed(w, n), InvocationOK(n),
         n.pc \notin {"post", "start", "claimLaunch"},
         UNCHANGED <<outcome, found, cooling, chilled, crashes, late>>
  PROVE  QueueInv'
<1> DEFINE r == inv[w].id
           s == inv[w].row.stage
<1>1. r \in Runs /\ s \in StageNames
  BY DEF At, QueueInv, SnapshotInv, InvocationOK, TypeOK, Invocation, Row
<1>2. /\ cloud'[j] = [run |-> r, stage |-> s, state |-> "live", close |-> "none"]
      /\ \A k \in Jobs \ {j} : cloud'[k] = cloud[k]
      /\ cloud[j].state = "free"
  BY DEF Accept, QueueInv, SnapshotInv, TypeOK
<1>3. cloud' \in [Jobs -> Job]
  BY <1>1 DEF Accept, QueueInv, SnapshotInv, TypeOK, Job, JobStates, Closes
<1>4. /\ rows' = rows
      /\ \A v \in Workers : inv'[v] = IF v = w THEN n ELSE inv[v]
  BY DEF Proceed, QueueInv, SnapshotInv, TypeOK
<1>5. SnapshotInv'
  <2>1. TypeOK'
    BY <1>3 DEF Proceed, QueueInv, SnapshotInv, TypeOK
  <2>2. SlotUnique' /\ \A q \in Runs : RowOK(rows'[q])
    BY <1>4 DEF QueueInv, SnapshotInv, SlotUnique, HoldsSlot
  <2> QED
    BY <1>4, <2>1, <2>2 DEF QueueInv, SnapshotInv
<1>6. ASSUME NEW q, NEW t, Launched(q, t)'
      PROVE  Launched(q, t) \/ (q = r /\ t = s)
  BY <1>2, <1>6 DEF Launched, Tagged, Accepted
<1>7. ASSUME NEW v \in Workers, NEW q, NEW t, Posting(v, q, t)'
      PROVE  v # w /\ Posting(v, q, t)
  BY <1>4, <1>7 DEF Posting, At
<1>8. Posting(w, r, s)
  BY DEF Posting
<1>9. \A v \in Workers : Current(inv[v])'
  BY <1>4 DEF Current, QueueInv, LaunchInv
<1>10. (\A q \in Runs : \A t \in Due(rows[q]) :
          ~Launched(q, t) /\ \A v \in Workers : ~Posting(v, q, t))'
  BY <1>1, <1>4, <1>6, <1>7, <1>8 DEF QueueInv, LaunchInv
<1>11. (\A v \in Workers : At(v, "post") => ~Launched(inv[v].id, inv[v].row.stage))'
  <2>1. ASSUME NEW v \in Workers, At(v, "post")'
        PROVE  ~Launched(inv[v].id, inv[v].row.stage)'
    <3>1. v # w /\ inv'[v] = inv[v] /\ At(v, "post")
      BY <1>4, <2>1 DEF At
    <3>2. ~Launched(inv[v].id, inv[v].row.stage)
      BY <3>1 DEF QueueInv, LaunchInv
    <3>3. ~(inv[v].id = r /\ inv[v].row.stage = s)
      BY <1>1, <1>8, <3>1 DEF Posting, QueueInv, LaunchInv
    <3>4. inv'[v].id = inv[v].id /\ inv'[v].row.stage = inv[v].row.stage
      BY <3>1
    <3> QED
      BY <1>6, <3>2, <3>3, <3>4
  <2> QED
    BY <2>1
<1>12. (\A u, v \in Workers : \A q \in Runs, t \in StageNames :
          Posting(u, q, t) /\ Posting(v, q, t) => u = v)'
  BY <1>7 DEF QueueInv, LaunchInv
<1>13. LaunchOnce'
  <2>1. ~Launched(r, s)
    BY DEF QueueInv, LaunchInv
  <2>2. \A k \in Jobs : ~(Accepted(k) /\ cloud[k].run = r /\ cloud[k].stage = s)
    BY <2>1 DEF Launched, Tagged
  <2> QED
    BY <1>2, <2>2 DEF QueueInv, LaunchInv, LaunchOnce, Accepted
<1> QED
  BY <1>5, <1>9, <1>10, <1>11, <1>12, <1>13 DEF QueueInv, LaunchInv

LEMMA PostStep ==
  ASSUME QueueInv, NEW w \in Workers, Post(w)
  PROVE  QueueInv'
<1>1. At(w, "post") /\ inv[w].pc \notin Unaimed /\ inv[w].row.stage \in StageNames
  BY DEF Post, At, Unaimed, QueueInv, SnapshotInv, TypeOK, Invocation, Row
<1>2. /\ LaunchFailed(w) \in Invocation /\ InvocationOK(LaunchFailed(w))
      /\ LaunchFailed(w).pc = "transition"
  BY <1>1, TowardsOK DEF LaunchFailed, QueueInv, Terminal
<1>3. ASSUME NEW j \in Jobs, Accept(w, j), Proceed(w, [inv[w] EXCEPT !.pc = "setJob", !.job = j])
      PROVE  QueueInv'
  <2> DEFINE n == [inv[w] EXCEPT !.pc = "setJob", !.job = j]
  <2>1. n \in Invocation /\ InvocationOK(n) /\ n.pc = "setJob"
    BY <1>1, OnwardOK DEF QueueInv
  <2>2. Proceed(w, n)
    BY <1>3
  <2> HIDE DEF n
  <2> QED
    BY <1>1, <1>3, <2>1, <2>2, AcceptStep DEF Post
<1>4. ASSUME NEW j \in Jobs, Accept(w, j), Proceed(w, LaunchFailed(w))
      PROVE  QueueInv'
  BY <1>1, <1>2, <1>4, AcceptStep DEF Post
<1>5. CASE Proceed(w, LaunchFailed(w)) /\ UNCHANGED cloud
  BY <1>1, <1>5, TowardsStep DEF Post, LaunchFailed, Terminal
<1> QED
  BY <1>3, <1>4, <1>5 DEF Post

-----------------------------------------------------------------------------
(* The steps of Scrapy Cloud, of ingestion and of time.                    *)

(* What a batch writes beside the row: its record, its links, a cooldown.  *)
LEMMA RecordWrites ==
  ASSUME QueueInv, NEW j \in Jobs, RecordIngestion(j)
  PROVE  /\ outcome' \in [Runs -> Outcomes]
         /\ cooling' \in BOOLEAN
         /\ found' \in [Runs -> SUBSET {"candidates", "targets"}]
         /\ late' \in Nat
<1>1. PICK o \in Outcomes : outcome' = [outcome EXCEPT ![cloud[j].run] = o]
  BY DEF RecordIngestion, Outcomes
<1>2. outcome' \in [Runs -> Outcomes]
  BY <1>1 DEF QueueInv, SnapshotInv, TypeOK
<1>3. cooling' \in BOOLEAN
  <2>1. CASE UNCHANGED cooling
    BY <2>1 DEF QueueInv, SnapshotInv, TypeOK
  <2>2. CASE cooling' = (cooling \/ cloud[j].stage = "discovering")
    BY <2>2, Zenon DEF QueueInv, SnapshotInv, TypeOK
  <2> QED
    BY <2>1, <2>2, Zenon DEF RecordIngestion
<1>4. found' \in [Runs -> SUBSET {"candidates", "targets"}]
  <2>1. PICK f \in Linked(j) : found' = [found EXCEPT ![cloud[j].run] = f]
    BY DEF RecordIngestion
  <2>2. found \in [Runs -> SUBSET {"candidates", "targets"}] /\ cloud[j].run \in Runs \cup {NoRun}
    BY DEF QueueInv, SnapshotInv, TypeOK, Job
  <2>3. CASE cloud[j].run \in Runs
    <3>1. f \in SUBSET {"candidates", "targets"}
      BY <2>2, <2>3 DEF Linked
    <3> QED
      BY <2>1, <2>2, <3>1
  <2>4. CASE cloud[j].run \notin Runs
    BY <2>1, <2>2, <2>4
  <2> QED
    BY <2>3, <2>4
<1>5. late' \in Nat
  BY DEF RecordIngestion, QueueInv, SnapshotInv, TypeOK
<1> QED
  BY <1>2, <1>3, <1>4, <1>5

LEMMA RecordIngestionStep ==
  ASSUME QueueInv, NEW j \in Jobs, RecordIngestion(j)
  PROVE  QueueInv'
<1> DEFINE r   == cloud[j].run
           new == IF rows[r].status = "running" THEN "ingesting" ELSE rows[r].status
<1>1. /\ rows' = [rows EXCEPT ![r].status = new]
      /\ aged' = [aged EXCEPT ![r] = FALSE]
      /\ inv' = Outdated(r)
      /\ UNCHANGED <<cloud, chilled, crashes>>
  BY DEF RecordIngestion
<1>2. \A q \in Runs : /\ rows'[q].stage = rows[q].stage /\ rows'[q].slot = rows[q].slot
                      /\ rows'[q].job = rows[q].job /\ rows'[q] \in Row
                      /\ \/ rows'[q].status = rows[q].status
                         \/ rows[q].status = "running" /\ rows'[q].status = "ingesting"
  BY <1>1 DEF QueueInv, SnapshotInv, TypeOK, Row, Statuses
<1>3. \A v \in Workers :
        /\ inv[v] \in Invocation /\ InvocationOK(inv[v])
        /\ inv'[v] = IF inv[v].id = r THEN [inv[v] EXCEPT !.fresh = FALSE] ELSE inv[v]
  BY <1>1 DEF Outdated, QueueInv, SnapshotInv, TypeOK
<1>4. \A v \in Workers :
        /\ inv'[v] \in Invocation /\ InvocationOK(inv'[v])
        /\ inv'[v].pc = inv[v].pc /\ inv'[v].id = inv[v].id /\ inv'[v].row = inv[v].row
        /\ inv'[v].fresh => inv[v].fresh
  BY <1>3, StaleShape, StaleOK
<1>5. TypeOK'
  <2>1. rows' \in [Runs -> Row] /\ aged' \in [Runs -> BOOLEAN]
    BY <1>1, <1>2 DEF QueueInv, SnapshotInv, TypeOK
  <2>2. inv' \in [Workers -> Invocation]
    BY <1>1, <1>4 DEF Outdated
  <2> QED
    BY <1>1, <2>1, <2>2, RecordWrites DEF QueueInv, SnapshotInv, TypeOK
<1>6. SlotUnique' /\ \A q \in Runs : RowOK(rows'[q])
  BY <1>2 DEF QueueInv, SnapshotInv, SlotUnique, HoldsSlot, RowOK, Waiting, Ready
<1>7. \A v \in Workers : Current(inv[v])'
  <2>1. ASSUME NEW v \in Workers PROVE Current(inv[v])'
    <3>1. inv[v].pc \in {"start", "claimLaunch"} => rows'[inv[v].id].stage = rows[inv[v].id].stage
      BY <1>2, <1>3 DEF InvocationOK
    <3> QED
      BY <1>4, <3>1 DEF Current, QueueInv, LaunchInv
  <2> QED
    BY <2>1
<1>8. \A q \in Runs : Due(rows'[q]) \subseteq Due(rows[q])
  BY <1>2 DEF Due, Waiting, Ready
<1>9. SameTags
  BY <1>1 DEF SameTags, Accepted
<1>10. LaunchInv'
  BY <1>4, <1>7, <1>8, <1>9, LaunchInvKept DEF QueueInv
<1> QED
  BY <1>4, <1>5, <1>6, <1>10 DEF QueueInv, SnapshotInv

(* A step of Scrapy Cloud or of time: it writes no row of the queue.       *)
LEMMA OutsideStep ==
  ASSUME QueueInv, UNCHANGED <<rows, outcome, inv, crashes, late>>, SameTags,
         aged' \in [Runs -> BOOLEAN], cloud' \in [Jobs -> Job],
         cooling' \in BOOLEAN, chilled' \subseteq Runs,
         found' \in [Runs -> SUBSET {"candidates", "targets"}]
  PROVE  QueueInv'
<1>1. SnapshotInv'
  BY DEF QueueInv, SnapshotInv, TypeOK, SlotUnique, HoldsSlot
<1>2. \A v \in Workers : Current(inv[v])'
  BY DEF QueueInv, LaunchInv, Current
<1>3. LaunchInv'
  BY <1>2, LaunchInvKept DEF QueueInv
<1> QED
  BY <1>1, <1>3 DEF QueueInv

LEMMA JobKeepsTags ==
  ASSUME QueueInv, NEW j \in Jobs, JobFinishes(j)
  PROVE  SameTags /\ cloud' \in [Jobs -> Job]
<1>1. PICK close \in Closes :
        cloud' = [cloud EXCEPT ![j].state = "finished", ![j].close = close]
  BY DEF JobFinishes, Closes
<1>2. cloud \in [Jobs -> Job] /\ cloud[j].state \in {"live", "stopping"}
  BY DEF JobFinishes, QueueInv, SnapshotInv, TypeOK
<1>3. \A k \in Jobs : /\ cloud'[k] \in Job /\ cloud'[k].run = cloud[k].run
                      /\ cloud'[k].stage = cloud[k].stage
                      /\ cloud'[k].state = IF k = j THEN "finished" ELSE cloud[k].state
  BY <1>1, <1>2 DEF Job, JobStates
<1>4. SameTags
  BY <1>2, <1>3 DEF SameTags, Accepted
<1>5. cloud' \in [Jobs -> Job]
  BY <1>1, <1>2, <1>3
<1> QED
  BY <1>4, <1>5

LEMMA JobFinishesStep ==
  ASSUME QueueInv, NEW j \in Jobs, JobFinishes(j)
  PROVE  QueueInv'
<1>1. UNCHANGED <<rows, aged, outcome, found, cooling, chilled, inv, crashes, late>>
  BY DEF JobFinishes
<1> QED
  BY <1>1, JobKeepsTags, OutsideStep DEF QueueInv, SnapshotInv, TypeOK

LEMMA TimeStep ==
  ASSUME QueueInv,
         CooldownExpires \/ \E r \in Runs : LeaseExpires(r) \/ SellersChange(r)
  PROVE  QueueInv'
<1>1. UNCHANGED <<rows, cloud, outcome, inv, crashes, late>>
  BY DEF CooldownExpires, LeaseExpires, SellersChange
<1>2. aged' \in [Runs -> BOOLEAN] /\ cooling' \in BOOLEAN /\ chilled' \subseteq Runs
  BY DEF CooldownExpires, LeaseExpires, SellersChange, QueueInv, SnapshotInv, TypeOK
<1>3. found' \in [Runs -> SUBSET {"candidates", "targets"}]
  BY DEF CooldownExpires, LeaseExpires, SellersChange, QueueInv, SnapshotInv, TypeOK
<1>4. SameTags
  BY <1>1 DEF SameTags, Accepted
<1> QED
  BY <1>1, <1>2, <1>3, <1>4, OutsideStep DEF QueueInv, SnapshotInv, TypeOK

-----------------------------------------------------------------------------
(* The invariant, and what follows from it.                                *)

LEMMA QueueInvInit == Init => QueueInv
<1> SUFFICES ASSUME Init PROVE QueueInv
  OBVIOUS
<1>1. NoRow \in Row /\ RowOK(NoRow) /\ ~NoRow.slot
  BY DEF NoRow, Row, Statuses, StageNames, RowOK, Waiting
<1>2. Idle \in Invocation /\ InvocationOK(Idle) /\ Idle.pc = "idle"
  BY UnaimedOK DEF Unaimed
<1>3. FreeJob \in Job /\ FreeJob.state = "free"
  BY DEF FreeJob, Job, StageNames, JobStates, Closes
<1>4. SnapshotInv
  BY <1>1, <1>2, <1>3 DEF Init, SnapshotInv, TypeOK, SlotUnique, HoldsSlot, Outcomes
<1>5. \A v \in Workers : Current(inv[v]) /\ inv[v].pc # "post"
  BY <1>2 DEF Init, Current
<1>6. \A j \in Jobs : ~Accepted(j)
  BY <1>3 DEF Init, Accepted
<1>7. LaunchInv
  BY <1>5, <1>6 DEF LaunchInv, LaunchOnce, Launched, Tagged, Posting, At
<1> QED
  BY <1>4, <1>7 DEF QueueInv

LEMMA QueueInvStep == QueueInv /\ [Next]_vars => QueueInv'
<1> SUFFICES ASSUME QueueInv, [Next]_vars PROVE QueueInv'
  OBVIOUS
<1>1. ASSUME NEW w \in Workers, Continue(w) PROVE QueueInv'
  BY <1>1, PumpStep, RecheckStep, PickStep, ClaimStep, ClaimedStep, StartDiscoveryStep,
     ClaimLaunchStep, PostStep, SetJobStep, RecoverStep, RecoverSetStep, SyncActiveStep,
     ReadOutcomeStep, TransitionStep, HandoffStep, HandedOffStep, CancelTagStep, CancelStopStep
  DEF Continue
<1>2. ASSUME NEW w \in Workers, Tick(w) PROVE QueueInv'
  BY <1>2, PumpStep DEF Tick
<1>3. ASSUME NEW w \in Workers, Request(w) PROVE QueueInv'
  BY <1>3, CreateStep, RetryStep, DetailStep, CancelStep DEF Request
<1>4. ASSUME NEW w \in Workers, Crash(w) PROVE QueueInv'
  BY <1>4, CrashStep
<1>5. ASSUME NEW j \in Jobs, JobStep(j) PROVE QueueInv'
  BY <1>5, RecordIngestionStep, JobFinishesStep DEF JobStep
<1>6. CASE CooldownExpires \/ \E r \in Runs : LeaseExpires(r) \/ SellersChange(r)
  BY <1>6, TimeStep
<1>7. CASE UNCHANGED vars
  <2>1. SameTags
    BY <1>7 DEF vars, SameTags, Accepted
  <2> QED
    BY <1>7, <2>1, OutsideStep DEF vars, QueueInv, SnapshotInv, TypeOK
<1> QED
  BY <1>1, <1>2, <1>3, <1>4, <1>5, <1>6, <1>7 DEF Next

LEMMA QueueInvHolds == Spec => []QueueInv
  BY QueueInvInit, QueueInvStep, PTL DEF Spec

(* Rows, jobs and invocations keep their types: no stage, status or job id *)
(* is ever written to a column that does not hold such a value.            *)
THEOREM TypeCorrect == Spec => []TypeOK
<1>1. QueueInv => TypeOK
  BY DEF QueueInv, SnapshotInv
<1> QED
  BY <1>1, QueueInvHolds, PTL

(* At most one run holds the Scrapy Cloud unit, so the unique index never  *)
(* rejects a write of the queue.                                           *)
THEOREM UnitIsExclusive == Spec => []SlotUnique
<1>1. QueueInv => SlotUnique
  BY DEF QueueInv, SnapshotInv
<1> QED
  BY <1>1, QueueInvHolds, PTL

(* A slot holder with a job is 'running' or 'ingesting': syncActive never  *)
(* writes the slot of an old snapshot back.                                *)
THEOREM TrackedJobIsRunning == Spec => []TrackedJobRunning
<1>1. QueueInv => TrackedJobRunning
  BY DEF QueueInv, SnapshotInv, RowOK, TrackedJobRunning, HoldsSlot
<1> QED
  BY <1>1, QueueInvHolds, PTL

(* No stage of a run is launched twice, whatever is lost, retried or       *)
(* recovered: the tag recovery looks for names at most one job.            *)
THEOREM StageLaunchedOnce == Spec => []LaunchOnce
<1>1. QueueInv => LaunchOnce
  BY DEF QueueInv, LaunchInv
<1> QED
  BY <1>1, QueueInvHolds, PTL


-----------------------------------------------------------------------------
(* Which steps can give a run the unit, and what they are to CrawlUnit.    *)

UnitFromQueue == \A r \in Runs : ~HoldsSlot(r) /\ HoldsSlot(r)' => rows[r].status = "queued"

PhaseOfRuns == [r \in Runs |-> Phase(r)]

LaunchedStages == {<<cloud[j].run, cloud[j].stage>> : j \in {k \in Jobs : Accepted(k)}}

UnitMove == UnitFromQueue /\ [Unit!Next]_<<PhaseOfRuns, LaunchedStages>>

(* A step that writes one row, as each of the queue's statements does.     *)
LEMMA WriteMove ==
  ASSUME QueueInv, NEW w \in Workers, NEW r \in Runs, NEW new, NEW n, Write(w, r, new, n),
         UNCHANGED cloud,
         new.slot => HoldsSlot(r) \/ (rows[r].status = "queued" /\ ~SlotTaken),
         new.status \in Waiting => ~new.slot /\ rows[r].status \in Waiting
  PROVE  UnitMove
<1>1. \A q \in Runs : rows'[q] = IF q = r THEN new ELSE rows[q]
  BY DEF Write, QueueInv, SnapshotInv, TypeOK
<1>2. UnitFromQueue
  BY <1>1 DEF UnitFromQueue, HoldsSlot
<1>3. LaunchedStages' = LaunchedStages
  BY DEF LaunchedStages, Accepted
<1>4. rows[r].status \in Waiting => ~HoldsSlot(r)
  BY DEF QueueInv, SnapshotInv, RowOK, HoldsSlot
<1>5. \A q \in Runs : Phase(q)' = IF q = r THEN Phase(r)' ELSE Phase(q)
  BY <1>1 DEF Phase, HoldsSlot
<1>6. PhaseOfRuns' = [PhaseOfRuns EXCEPT ![r] = Phase(r)']
  BY <1>5 DEF PhaseOfRuns
<1>7. PhaseOfRuns[r] = Phase(r)
  BY DEF PhaseOfRuns
<1>8. CASE Phase(r)' = Phase(r)
  BY <1>2, <1>3, <1>5, <1>8 DEF UnitMove, PhaseOfRuns
<1>9. CASE Phase(r)' = "released" /\ Phase(r) # "released"
  <2>1. Unit!Release(r)
    BY <1>3, <1>6, <1>7, <1>9 DEF Unit!Release, PhaseOfRuns, LaunchedStages
  <2> QED
    BY <1>2, <2>1 DEF UnitMove, Unit!Next
<1>10. CASE Phase(r)' = "holding" /\ Phase(r) = "waiting" /\ ~SlotTaken
  <2>1. \A q \in Runs : PhaseOfRuns[q] # "holding"
    BY <1>10 DEF PhaseOfRuns, Phase, SlotTaken
  <2>2. Unit!Grant(r)
    BY <1>3, <1>6, <1>7, <1>10, <2>1 DEF Unit!Grant, PhaseOfRuns, LaunchedStages
  <2> QED
    BY <1>2, <2>2 DEF UnitMove, Unit!Next
<1> QED
  BY <1>1, <1>4, <1>8, <1>9, <1>10 DEF Phase, HoldsSlot, Waiting

LEMMA ReadMove ==
  ASSUME UNCHANGED rows, SameTags
  PROVE  UnitMove
<1>1. UnitFromQueue
  BY DEF UnitFromQueue, HoldsSlot
<1>2. PhaseOfRuns' = PhaseOfRuns
  BY DEF PhaseOfRuns, Phase, HoldsSlot
<1>3. LaunchedStages' = LaunchedStages
  BY DEF LaunchedStages, SameTags
<1> QED
  BY <1>1, <1>2, <1>3 DEF UnitMove

LEMMA UnchangedMove ==
  ASSUME UNCHANGED <<rows, cloud>>
  PROVE  UnitMove
BY ReadMove DEF SameTags, Accepted

(* Scrapy Cloud accepts a job: its stage is launched, and was not before.  *)
LEMMA PostMove ==
  ASSUME QueueInv, NEW w \in Workers, Post(w)
  PROVE  UnitMove
<1>1. At(w, "post") /\ UNCHANGED rows
  BY DEF Post, Proceed
<1>2. PICK r \in Runs, s \in CrawlStages : r = inv[w].id /\ s = inv[w].row.stage
  BY <1>1 DEF At, QueueInv, SnapshotInv, InvocationOK
<1>3. ASSUME NEW j \in Jobs, Accept(w, j) PROVE UnitMove
  <2>1. UnitFromQueue /\ PhaseOfRuns' = PhaseOfRuns
    BY <1>1 DEF UnitFromQueue, PhaseOfRuns, Phase, HoldsSlot
  <2>2. /\ cloud'[j].run = r /\ cloud'[j].stage = s /\ Accepted(j)' /\ ~Accepted(j)
        /\ \A k \in Jobs \ {j} : cloud'[k] = cloud[k]
    BY <1>2, <1>3 DEF Accept, Accepted, QueueInv, SnapshotInv, TypeOK
  <2>3. LaunchedStages' = LaunchedStages \cup {<<r, s>>}
    BY <2>2 DEF LaunchedStages, Accepted
  <2>4. <<r, s>> \notin LaunchedStages
    <3>1. Tagged(r, s) = {}
      BY <1>1, <1>2 DEF QueueInv, LaunchInv, Launched
    <3> QED
      BY <3>1 DEF LaunchedStages, Tagged
  <2>5. PhaseOfRuns[r] # "waiting"
    <3>1. Posting(w, r, s) /\ s \in StageNames
      BY <1>1, <1>2 DEF Posting, StageNames
    <3>2. rows[r].status \notin Waiting
      BY <1>2, <3>1 DEF QueueInv, LaunchInv, Due
    <3> QED
      BY <1>2, <3>2 DEF PhaseOfRuns, Phase, Waiting
  <2>6. Unit!Launch(r, s)
    BY <2>1, <2>3, <2>4, <2>5 DEF Unit!Launch, PhaseOfRuns, LaunchedStages
  <2>7. Unit!Next
    BY <2>6 DEF Unit!Next
  <2> QED
    BY <2>1, <2>7 DEF UnitMove
<1>4. CASE UNCHANGED cloud
  BY <1>1, <1>4, UnchangedMove
<1> QED
  BY <1>3, <1>4 DEF Post

LEMMA ContinueMove ==
  ASSUME QueueInv, NEW w \in Workers, Continue(w)
  PROVE  UnitMove
<1>1. inv[w].pc \notin Unaimed => inv[w].id \in Runs /\ rows[inv[w].id] \in Row
  BY DEF QueueInv, SnapshotInv, InvocationOK, Unaimed, TypeOK
<1>2. CASE UNCHANGED <<rows, cloud>>
  BY <1>2, UnchangedMove
<1>3. CASE CancelStop(w)
  <2>1. SameTags
    BY <1>3 DEF CancelStop, Stopped, SameTags, Accepted, Live, QueueInv, SnapshotInv, TypeOK, Job
  <2> QED
    BY <1>3, <2>1, ReadMove DEF CancelStop, Proceed
<1>4. CASE Claim(w) /\ ~UNCHANGED rows
  <2> DEFINE new == [rows[inv[w].id] EXCEPT !.status = "starting",
                                            !.stage = StartStage(inv[w].id), !.slot = TRUE]
  <2>1. inv[w].id \in Runs /\ rows[inv[w].id].status = "queued" /\ ~SlotTaken
    BY <1>1, <1>4 DEF Claim, At, Unaimed, Claimable, Proceed
  <2>2. new.status = "starting"
    BY <1>1, <1>4 DEF Claim, At, Unaimed, Row
  <2>3. PICK n : Write(w, inv[w].id, new, n)
    BY <1>4 DEF Claim, Proceed
  <2> HIDE DEF new
  <2> QED
    BY <1>4, <2>1, <2>2, <2>3, WriteMove DEF Claim, Waiting
<1>5. CASE ClaimLaunch(w) /\ ~UNCHANGED rows
  <2> DEFINE new == [rows[inv[w].id] EXCEPT !.status = "launching"]
  <2>1. inv[w].id \in Runs /\ HoldsSlot(inv[w].id)
    BY <1>1, <1>5 DEF ClaimLaunch, At, Unaimed, Launchable, HoldsSlot, Proceed
  <2>2. new.status = "launching"
    BY <1>1, <1>5 DEF ClaimLaunch, At, Unaimed, Row
  <2>3. PICK n : Write(w, inv[w].id, new, n)
    BY <1>5 DEF ClaimLaunch, Proceed
  <2> HIDE DEF new
  <2> QED
    BY <1>5, <2>1, <2>2, <2>3, WriteMove DEF ClaimLaunch, Waiting
<1>6. CASE (SetJob(w) \/ RecoverSet(w)) /\ ~UNCHANGED rows
  <2> DEFINE new == Tracked(rows[inv[w].id], inv[w].job)
  <2>1. inv[w].id \in Runs /\ inv[w].job \in Jobs
    BY <1>6 DEF SetJob, RecoverSet, At, QueueInv, SnapshotInv, InvocationOK
  <2>2. PICK n : Write(w, inv[w].id, new, n)
    BY <1>6 DEF SetJob, RecoverSet, Proceed
  <2>3. rows[inv[w].id] \in Row
    BY <2>1 DEF QueueInv, SnapshotInv, TypeOK
  <2>4. new.status = "running" /\ (new.slot => HoldsSlot(inv[w].id))
    BY <2>3 DEF Tracked, Row, HoldsSlot
  <2> HIDE DEF new
  <2> QED
    BY <1>6, <2>1, <2>2, <2>4, WriteMove DEF SetJob, RecoverSet, Waiting
<1>7. CASE Transition(w)
  <2>1. inv[w].id \in Runs /\ rows[inv[w].id] \in Row /\ SlotAfter(w) = FALSE
        /\ inv[w].to \in Terminal
    BY <1>1, <1>7 DEF Transition, At, Unaimed, SlotAfter, QueueInv, SnapshotInv, InvocationOK
  <2> DEFINE new == [rows[inv[w].id] EXCEPT !.status = inv[w].to, !.stage = inv[w].toStage,
                                            !.slot = SlotAfter(w)]
  <2>2. ~new.slot /\ new.status \notin Waiting
    BY <2>1 DEF Row, Waiting, Terminal
  <2>3. Write(w, inv[w].id, new, Done(w))
    BY <1>7 DEF Transition
  <2> HIDE DEF new
  <2> QED
    BY <1>7, <2>1, <2>2, <2>3, WriteMove DEF Transition
<1>8. CASE Handoff(w) /\ ~UNCHANGED rows
  <2> DEFINE new == HandedTo(rows[inv[w].id], inv[w].toStage)
  <2>1. /\ inv[w].id \in Runs /\ rows[inv[w].id] \in Row
        /\ inv[w].toStage \in {"resolving", "enriching"}
    BY <1>1, <1>8 DEF Handoff, At, Unaimed, QueueInv, SnapshotInv, InvocationOK, After
  <2>2. (new.slot => HoldsSlot(inv[w].id)) /\ new.status \notin Waiting
    BY <2>1 DEF HandedTo, Row, HoldsSlot, Waiting
  <2>3. PICK n : Write(w, inv[w].id, new, n)
    BY <1>8 DEF Handoff, Proceed
  <2> HIDE DEF new
  <2> QED
    BY <1>8, <2>1, <2>2, <2>3, WriteMove DEF Handoff
<1>9. CASE Post(w)
  BY <1>9, PostMove
<1>10. UNCHANGED rows \/ Claim(w) \/ ClaimLaunch(w) \/ SetJob(w) \/ RecoverSet(w)
       \/ Transition(w) \/ Handoff(w)
  BY DEF Continue, Pump, Recheck, Pick, Claimed, StartDiscovery, Post, Recover, SyncActive,
     ReadOutcome, HandedOff, CancelTag, CancelStop, Proceed
<1>11. UNCHANGED cloud \/ Post(w) \/ CancelStop(w)
  BY DEF Continue, Pump, Recheck, Pick, Claim, Claimed, StartDiscovery, ClaimLaunch, SetJob,
     Recover, RecoverSet, SyncActive, ReadOutcome, Transition, Handoff, HandedOff, CancelTag
<1> QED
  BY <1>2, <1>3, <1>4, <1>5, <1>6, <1>7, <1>8, <1>9, <1>10, <1>11

LEMMA NextMove ==
  ASSUME QueueInv, [Next]_vars
  PROVE  UnitMove
<1>1. ASSUME NEW w \in Workers, Continue(w) PROVE UnitMove
  BY <1>1, ContinueMove
<1>2. ASSUME NEW w \in Workers, Tick(w) \/ Crash(w) PROVE UnitMove
  BY <1>2, UnchangedMove DEF Tick, Pump, Crash, Proceed
<1>3. ASSUME NEW w \in Workers, NEW r \in Runs, Detail(w, r) \/ Cancel(w, r)
      PROVE  UnitMove
  BY <1>3, UnchangedMove DEF Detail, Cancel, Proceed
<1>4. ASSUME NEW w \in Workers, NEW r \in Runs, NEW src \in Runs, Create(w, r) \/ Retry(w, src, r)
      PROVE  UnitMove
  <2>1. ~Queued.slot
    BY DEF Queued, NoRow
  <2>2. rows[r].status = "absent" /\ UNCHANGED cloud
    BY <1>4 DEF Create, Retry
  <2>3. Write(w, r, Queued, [Idle EXCEPT !.pc = "pump"])
    BY <1>4 DEF Create, Retry
  <2> QED
    BY <2>1, <2>2, <2>3, WriteMove DEF Waiting
<1>5. ASSUME NEW j \in Jobs, RecordIngestion(j) PROVE UnitMove
  <2>1. \A q \in Runs : /\ rows'[q].slot = rows[q].slot
                        /\ rows'[q].status \in {"absent", "queued"}
                             <=> rows[q].status \in {"absent", "queued"}
    BY <1>5 DEF RecordIngestion, QueueInv, SnapshotInv, TypeOK, Row
  <2>2. UnitFromQueue /\ PhaseOfRuns' = PhaseOfRuns
    BY <2>1 DEF UnitFromQueue, HoldsSlot, PhaseOfRuns, Phase
  <2>3. LaunchedStages' = LaunchedStages
    BY <1>5 DEF RecordIngestion, LaunchedStages, Accepted
  <2> QED
    BY <2>2, <2>3 DEF UnitMove
<1>6. ASSUME NEW j \in Jobs, JobFinishes(j) PROVE UnitMove
  BY <1>6, JobKeepsTags, ReadMove DEF JobFinishes
<1>7. CASE CooldownExpires \/ (\E r \in Runs : LeaseExpires(r) \/ SellersChange(r))
             \/ UNCHANGED vars
  BY <1>7, UnchangedMove DEF CooldownExpires, LeaseExpires, SellersChange, vars
<1> QED
  BY <1>1, <1>2, <1>3, <1>4, <1>5, <1>6, <1>7 DEF Next, Request, JobStep

(* The unit is only ever given to a queued run: no late write, of a launch *)
(* or of a transition, brings it back to a run that has released it.       *)
THEOREM UnitOnlyFromQueue == Spec => SlotOnlyFromQueue
<1>1. QueueInv /\ [Next]_vars => [UnitFromQueue]_rows
  BY NextMove DEF UnitMove
<1>2. Spec => [][UnitFromQueue]_rows
  BY <1>1, QueueInvHolds, PTL DEF Spec
<1> QED
  BY <1>2 DEF SlotOnlyFromQueue, UnitFromQueue

(* The queue, with its invocations, stale snapshots, lost answers, crashes *)
(* and recoveries, implements the one-unit scheduler of CrawlUnit.         *)
THEOREM QueueImplementsUnit == Spec => ImplementsUnit
<1>1. Init => Unit!Init
  BY DEF Init, Unit!Init, Phase, NoRow, Accepted, FreeJob
<1>2. QueueInv /\ [Next]_vars
        => [Unit!Next]_<<[r \in Runs |-> Phase(r)],
                         {<<cloud[j].run, cloud[j].stage>> : j \in {k \in Jobs : Accepted(k)}}>>
  BY NextMove DEF UnitMove, PhaseOfRuns, LaunchedStages
<1> QED
  BY <1>1, <1>2, QueueInvHolds, PTL DEF Spec, ImplementsUnit, Unit!Spec

=============================================================================
