----------------------- MODULE SequentialQueueProofs -----------------------
(***************************************************************************)
(* What the operator queue does when its invocations do not overlap, which *)
(* may then die at any await, be cancelled at any moment, fail in any      *)
(* request and take as long as they like, and whose batches may be stored  *)
(* at any time, after their job's end as well: one external job at a time, *)
(* which the queue never loses sight of, and runs that end once.           *)
(*                                                                         *)
(* SteadyQueueProofs has the same of invocations that overlap and live.    *)
(* Here launches are given up half-way and found again by their tag, and   *)
(* cancels stop jobs that no row records yet.  Nobody else writes a row    *)
(* between an invocation's read and its write, so SequentialInv, which is  *)
(* added to QueueInv, can say of a snapshot that it is the row (Agrees);   *)
(* what is left to show is what an invocation that died has left behind.   *)
(***************************************************************************)
EXTENDS TimelyQueueProofs

(* Invocations do not overlap, and no answer of Scrapy Cloud to an         *)
(* accepted launch is lost.  Any number of them may die.                   *)
Sequential == (\A v, w \in Workers : v = w) /\ "lost" \notin Faults

Ended(j) == cloud[j].state = "finished"

(* No job of run r is at work.                                             *)
Quiet(r) == \A j \in Jobs : Live(j) => cloud[j].run # r

(* A snapshot is still the row, but for what ingestion does to it.         *)
Agrees(old, row) ==
  /\ row.slot = old.slot /\ row.stage = old.stage /\ row.job = old.job
  /\ \/ row.status = old.status
     \/ old.status = "running" /\ row.status = "ingesting"

(* The points at which a snapshot is a slot holder's, one that has not     *)
(* been launched, and one that has but whose job is not recorded.          *)
Starters  == {"start", "claimLaunch"}
Launchers == {"post", "setJob", "recover", "recoverSet", "cancelTag"}
Holders   == {"sync", "outcome", "handoff", "cancelStop"} \cup Starters \cup Launchers

(* What invocation i relies on, its run's row being as it is now.          *)
Fits(i, row) ==
  /\ i.pc \in Holders \cup {"claim"} => Agrees(i.row, row)
  /\ i.pc \in Holders => i.row.slot
  /\ i.pc \in Starters => i.row.job = NoJob
  /\ i.pc \in Launchers => i.row.status = "launching"
  /\ i.pc \in {"setJob", "recoverSet", "cancelStop"} => i.job \in Tagged(i.id, i.row.stage)
  /\ i.pc \in {"outcome", "handoff"} => i.row.job # NoJob /\ Ended(i.row.job)
  /\ i.pc = "claim" => i.row.status = "queued"
  /\ i.pc = "claimed" => row.job = NoJob
  /\ i.pc = "handedOff" => row.slot
  /\ i.pc = "transition" => Quiet(i.id)

(* A job at work is one of the holder's current stage.                     *)
Placed(row, r) ==
  \A j \in Jobs : Live(j) /\ cloud[j].run = r => row.slot /\ row.stage = cloud[j].stage

SequentialInv ==
  /\ \A j \in Jobs : Live(j) => cloud[j].run \in Runs
  /\ \A j \in Jobs : cloud[j].close = "none" \/ Ended(j)
  /\ \A r \in Runs : Placed(rows[r], r) /\ RowTracked(rows[r], r)
  /\ \A w \in Workers : Fits(inv[w], rows[inv[w].id])

-----------------------------------------------------------------------------
(* Steps that respect SequentialInv.                                       *)

(* Jobs may end or be told to stop, but none starts.                       *)
Calmer ==
  /\ SameTags
  /\ \A j \in Jobs : (Live(j)' => Live(j)) /\ (Ended(j) => Ended(j)')

LEMMA CloudCalmer ==
  ASSUME UNCHANGED cloud PROVE Calmer
BY DEF Calmer, SameTags, Accepted, Live, Ended

(* What fits goes on fitting while no job starts.                          *)
LEMMA FitsKept ==
  ASSUME Calmer, NEW i \in Invocation, NEW row, Fits(i, row)
  PROVE  Fits(i, row)'
<1>1. \A r, s : Tagged(r, s)' = Tagged(r, s)
  BY DEF Tagged, Calmer, SameTags
<1>2. Quiet(i.id) => Quiet(i.id)'
  BY DEF Quiet, Calmer, SameTags
<1>3. i.row.job # NoJob /\ Ended(i.row.job) => Ended(i.row.job)'
  BY DEF Calmer, Invocation, Row
<1>4. Agrees(i.row, row)' <=> Agrees(i.row, row)
  BY DEF Agrees
<1> QED
  BY <1>1, <1>2, <1>3, <1>4 DEF Fits

(* So does a job in its place.                                             *)
LEMMA PlacedKept ==
  ASSUME Calmer, NEW row, NEW r, Placed(row, r), RowTracked(row, r)
  PROVE  (Placed(row, r) /\ RowTracked(row, r))'
BY DEF Calmer, SameTags, Placed, RowTracked, Tagged

(* Nothing is asked of an invocation without a snapshot it relies on.      *)
LEMMA UnaimedFits ==
  ASSUME NEW i, i.pc \in Unaimed, NEW row
  PROVE  Fits(i, row)
BY DEF Unaimed, Fits, Holders, Starters, Launchers

LEMMA IdleFits ==
  ASSUME NEW p \in Unaimed, NEW row
  PROVE  Fits([Idle EXCEPT !.pc = p], row) /\ Fits(Idle, row)
<1>1. Idle.pc \in Unaimed /\ [Idle EXCEPT !.pc = p].pc \in Unaimed
  BY UnaimedOK DEF Unaimed
<1> QED
  BY <1>1, UnaimedFits

LEMMA DoneFits ==
  ASSUME QueueInv, NEW w \in Workers, NEW row
  PROVE  Fits(Done(w), row) /\ Done(w) \in Invocation
<1>1. inv[w].then \in Unaimed
  BY DEF QueueInv, SnapshotInv, TypeOK, Invocation, Unaimed
<1> QED
  BY <1>1, IdleFits, DoneOK DEF Done, QueueInv

(* A step of the only invocation that leaves the rows alone.               *)
LEMMA SequentialRead ==
  ASSUME Sequential, QueueInv, SequentialInv, NEW w \in Workers, NEW n \in Invocation,
         Proceed(w, n), UNCHANGED cloud, Fits(n, rows[n.id])
  PROVE  SequentialInv'
<1>1. /\ UNCHANGED rows
      /\ \A v \in Workers : v = w /\ inv'[v] = n
  BY DEF Sequential, Proceed, QueueInv, SnapshotInv, TypeOK
<1>2. Fits(n, rows[n.id])'
  <2>1. PICK row : row = rows[n.id]
    OBVIOUS
  <2>2. Fits(n, row)'
    BY <2>1, FitsKept, CloudCalmer
  <2>3. rows'[n.id] = row
    BY <1>1, <2>1
  <2> QED
    BY <2>2, <2>3 DEF Fits, Agrees
<1>3. ASSUME NEW v \in Workers PROVE Fits(inv[v], rows[inv[v].id])'
  <2>1. inv'[v] = n
    BY <1>1
  <2> QED
    BY <1>2, <2>1 DEF Fits, Agrees, Tagged, Accepted, Quiet, Live, Ended
<1>4. ASSUME NEW r \in Runs PROVE (Placed(rows[r], r) /\ RowTracked(rows[r], r))'
  BY <1>1 DEF SequentialInv, Placed, RowTracked, Tagged, Accepted, Live
<1> QED
  BY <1>1, <1>3, <1>4 DEF SequentialInv, Live, Ended

(* A step of the only invocation that writes a row.                        *)
LEMMA SequentialWrite ==
  ASSUME Sequential, QueueInv, SequentialInv, NEW w \in Workers, NEW r \in Runs,
         NEW new, NEW n \in Invocation, Write(w, r, new, n), UNCHANGED cloud,
         Placed(new, r), RowTracked(new, r),
         n.pc \in Unaimed \/ (n.id = r /\ Fits(n, new))
  PROVE  SequentialInv'
<1>1. /\ \A q \in Runs : rows'[q] = IF q = r THEN new ELSE rows[q]
      /\ \A v \in Workers : inv'[v] = n
  BY DEF Sequential, Write, Outdated, QueueInv, SnapshotInv, TypeOK
<1>2. ASSUME NEW v \in Workers PROVE Fits(inv[v], rows[inv[v].id])'
  <2>1. PICK row : row = rows'[n.id]
    OBVIOUS
  <2>2. Fits(n, row)
    BY <1>1, <2>1, UnaimedFits
  <2>3. Fits(n, row)'
    BY <2>2, FitsKept, CloudCalmer
  <2>4. inv'[v] = n
    BY <1>1
  <2> QED
    BY <2>1, <2>3, <2>4 DEF Fits, Agrees, Tagged, Accepted, Quiet, Live, Ended
<1>3. ASSUME NEW q \in Runs PROVE (Placed(rows[q], q) /\ RowTracked(rows[q], q))'
  <2>1. PICK row : row = rows'[q]
    OBVIOUS
  <2>2. Placed(row, q) /\ RowTracked(row, q)
    BY <1>1, <2>1 DEF SequentialInv
  <2> QED
    BY <2>1, <2>2 DEF Placed, RowTracked, Tagged, Accepted, Live
<1> QED
  BY <1>2, <1>3 DEF SequentialInv, Live, Ended

-----------------------------------------------------------------------------
(* What is known of a run.                                                 *)

(* What an invocation that stands for a slot holder knows.                 *)
LEMMA HolderNow ==
  ASSUME QueueInv, SequentialInv, NEW w \in Workers, inv[w].pc \in Holders
  PROVE  /\ inv[w].id \in Runs /\ inv[w] \in Invocation /\ inv[w].pc \notin Unaimed
         /\ inv[w].row.slot /\ Agrees(inv[w].row, rows[inv[w].id])
         /\ rows[inv[w].id].slot /\ rows[inv[w].id] \in Row /\ RowOK(rows[inv[w].id])
         /\ rows[inv[w].id].status \notin Terminal
         /\ Placed(rows[inv[w].id], inv[w].id) /\ RowTracked(rows[inv[w].id], inv[w].id)
<1>1. inv[w].pc \notin Unaimed /\ inv[w].id \in Runs
  BY DEF Holders, Starters, Launchers, Unaimed, QueueInv, SnapshotInv, InvocationOK
<1>2. inv[w].row.slot /\ Agrees(inv[w].row, rows[inv[w].id])
  BY DEF SequentialInv, Fits
<1>3. /\ rows[inv[w].id].slot /\ RowOK(rows[inv[w].id])
      /\ rows[inv[w].id] \in Row /\ inv[w] \in Invocation
  BY <1>1, <1>2 DEF Agrees, QueueInv, SnapshotInv, TypeOK
<1>4. rows[inv[w].id].status \notin Terminal
  BY <1>3 DEF RowOK, Ready, Terminal
<1> QED
  BY <1>1, <1>2, <1>3, <1>4 DEF SequentialInv

(* A run is quiet when no job of its stage is at work while it holds the   *)
(* unit, for a job at work is in its place.                                *)
LEMMA StageQuiet ==
  ASSUME SequentialInv, NEW r \in Runs,
         rows[r].slot => \A k \in Tagged(r, rows[r].stage) : ~Live(k)
  PROVE  Quiet(r)
BY DEF SequentialInv, Placed, Quiet, Tagged, Live, Accepted

(* So it is without the unit, before the launch of its stage is claimed    *)
(* and once its job is known to have ended.                                *)
LEMMA RunQuiet ==
  ASSUME QueueInv, SequentialInv, NEW r \in Runs,
         \/ ~rows[r].slot
         \/ rows[r].job = NoJob /\ rows[r].status # "launching"
         \/ rows[r].job # NoJob /\ Ended(rows[r].job)
  PROVE  Quiet(r)
<1>1. CASE ~rows[r].slot
  BY <1>1, StageQuiet
<1>2. CASE rows[r].slot /\ rows[r].job = NoJob /\ rows[r].status # "launching"
  <2>1. rows[r].status \in Ready /\ rows[r].status \notin Waiting
    BY <1>2 DEF QueueInv, SnapshotInv, RowOK, Ready, Waiting
  <2>2. rows[r].stage \in Due(rows[r])
    BY <1>2, <2>1 DEF Due, From
  <2>3. Tagged(r, rows[r].stage) = {}
    BY <2>2 DEF QueueInv, LaunchInv, Launched
  <2> QED
    BY <2>3, StageQuiet
<1>3. CASE rows[r].slot /\ rows[r].job # NoJob /\ Ended(rows[r].job)
  <2>1. rows[r].job \in Tagged(r, rows[r].stage)
    BY <1>3 DEF SequentialInv, RowTracked
  <2>2. \A k \in Tagged(r, rows[r].stage) : k = rows[r].job
    BY <2>1 DEF Tagged, QueueInv, LaunchInv, LaunchOnce
  <2> QED
    BY <1>3, <2>2, StageQuiet DEF Live, Ended
<1> QED
  BY <1>1, <1>2, <1>3

(* EnterStage goes on with the holder's row, or ends.                      *)
LEMMA EnterFits ==
  ASSUME QueueInv, SequentialInv, NEW r \in Runs, rows[r].slot, rows[r].job = NoJob,
         NEW then \in {"idle", "recheck", "pump"}
  PROVE  /\ EnterStage(r, then) \in Invocation
         /\ Fits(EnterStage(r, then), rows[EnterStage(r, then).id])
<1>1. /\ then \in Unaimed /\ "recover" \in Points /\ "start" \in Points /\ "claimLaunch" \in Points
      /\ TypeOK
  BY DEF Unaimed, Points, QueueInv, SnapshotInv
<1>2. CASE rows[r].status = "launching" /\ ~aged[r]
  <2>1. EnterStage(r, then) = [Idle EXCEPT !.pc = then]
    BY <1>2 DEF EnterStage
  <2> QED
    BY <1>1, <2>1, IdleFits, UnaimedOK
<1>3. CASE rows[r].status = "launching" /\ aged[r]
  <2>1. EnterStage(r, then) = Snapshot(r, "recover", then)
    BY <1>3 DEF EnterStage
  <2> QED
    BY <1>1, <1>3, <2>1, SnapshotShape DEF Fits, Agrees, Holders, Starters, Launchers
<1>4. CASE rows[r].status # "launching"
  <2>1. PICK p \in Starters : EnterStage(r, then) = Snapshot(r, p, then)
    BY <1>4 DEF EnterStage, Starters
  <2> QED
    BY <1>1, <2>1, SnapshotShape DEF Fits, Agrees, Holders, Starters, Launchers
<1> QED
  BY <1>2, <1>3, <1>4

(* So does Advance.                                                        *)
LEMMA AdvanceFits ==
  ASSUME QueueInv, SequentialInv, NEW r \in Runs, HoldsSlot(r),
         NEW then \in {"idle", "recheck", "pump"}
  PROVE  /\ Advance(r, then) \in Invocation
         /\ Fits(Advance(r, then), rows[Advance(r, then).id])
<1>1. CASE rows[r].job = NoJob
  BY <1>1, EnterFits DEF Advance, HoldsSlot
<1>2. CASE rows[r].job # NoJob
  <2>1. Advance(r, then) = Snapshot(r, "sync", then) /\ "sync" \in Points /\ TypeOK
    BY <1>2 DEF Advance, Points, QueueInv, SnapshotInv
  <2> QED
    BY <2>1, SnapshotShape DEF Fits, Agrees, Holders, Starters, Launchers, HoldsSlot
<1> QED
  BY <1>1, <1>2

-----------------------------------------------------------------------------
(* Steps that only read.                                                   *)

LEMMA SequentialUnaimed ==
  ASSUME Sequential, QueueInv, SequentialInv, NEW w \in Workers, NEW p \in Unaimed,
         Proceed(w, [Idle EXCEPT !.pc = p]) \/ Proceed(w, Idle), UNCHANGED cloud
  PROVE  SequentialInv'
BY IdleFits, UnaimedOK, SequentialRead

LEMMA SequentialDone ==
  ASSUME Sequential, QueueInv, SequentialInv, NEW w \in Workers, Proceed(w, Done(w)),
         UNCHANGED cloud
  PROVE  SequentialInv'
BY DoneFits, SequentialRead

(* Only a run without a job at work is about to end.                       *)
LEMMA TowardsFits ==
  ASSUME QueueInv, NEW w \in Workers, inv[w].pc \notin Unaimed,
         NEW status \in Terminal, NEW stage \in StageNames, NEW row, Quiet(inv[w].id)
  PROVE  /\ Towards(w, status, stage) \in Invocation
         /\ Fits(Towards(w, status, stage), row)
         /\ Towards(w, status, stage).id = inv[w].id
<1>1. /\ Towards(w, status, stage) \in Invocation
      /\ Towards(w, status, stage).pc = "transition"
  BY TowardsOK DEF QueueInv
<1>2. Towards(w, status, stage).id = inv[w].id
  BY DEF Towards, QueueInv, SnapshotInv, TypeOK, Invocation
<1> QED
  BY <1>1, <1>2 DEF Fits, Holders, Starters, Launchers

LEMMA SequentialTowards ==
  ASSUME Sequential, QueueInv, SequentialInv, NEW w \in Workers, inv[w].pc \notin Unaimed,
         NEW status \in Terminal, NEW stage \in StageNames, Quiet(inv[w].id),
         Proceed(w, Towards(w, status, stage)), UNCHANGED cloud
  PROVE  SequentialInv'
<1>1. PICK row : row = rows[Towards(w, status, stage).id]
  OBVIOUS
<1> QED
  BY <1>1, TowardsFits, SequentialRead

LEMMA SequentialPump ==
  ASSUME Sequential, QueueInv, SequentialInv, NEW w \in Workers,
         Pump(w) \/ Recheck(w) \/ \E r \in Runs : Detail(w, r)
  PROVE  SequentialInv'
<1>1. "pick" \in Unaimed /\ "idle" \in Unaimed
  BY DEF Unaimed
<1>2. UNCHANGED cloud
  BY DEF Pump, Recheck, Detail
<1>3. CASE \E r \in Runs, then \in {"idle", "recheck", "pump"} :
             HoldsSlot(r) /\ Proceed(w, Advance(r, then))
  BY <1>2, <1>3, AdvanceFits, SequentialRead
<1>4. CASE Proceed(w, Idle) \/ Proceed(w, [Idle EXCEPT !.pc = "pick"])
  BY <1>1, <1>2, <1>4, SequentialUnaimed
<1> QED
  BY <1>3, <1>4 DEF Pump, Recheck, Detail

(* A queued run does not hold the unit.                                    *)
LEMMA SequentialPick ==
  ASSUME Sequential, QueueInv, SequentialInv, NEW w \in Workers, Pick(w)
  PROVE  SequentialInv'
<1>1. UNCHANGED cloud /\ TypeOK /\ "idle" \in Unaimed
  BY DEF Pick, QueueInv, SnapshotInv, Unaimed
<1>2. CASE Proceed(w, Idle)
  BY <1>1, <1>2, SequentialUnaimed
<1>3. ASSUME NEW r \in Runs, rows[r].status = "queued",
             Proceed(w, [Snapshot(r, "transition", "idle") EXCEPT
                           !.to = "cooldown", !.toStage = "cooldown"])
      PROVE  SequentialInv'
  <2> DEFINE n == [Snapshot(r, "transition", "idle") EXCEPT
                     !.to = "cooldown", !.toStage = "cooldown"]
  <2>1. /\ Snapshot(r, "transition", "idle") \in Invocation
        /\ Snapshot(r, "transition", "idle").pc = "transition"
        /\ Snapshot(r, "transition", "idle").id = r
    BY <1>1, SnapshotShape DEF Points
  <2>2. n \in Invocation /\ n.pc = "transition" /\ n.id = r
    BY <2>1 DEF Invocation, Statuses, StageNames, Terminal
  <2>3. Quiet(r)
    BY <1>3, RunQuiet DEF QueueInv, SnapshotInv, RowOK, Waiting
  <2>4. Fits(n, rows[n.id])
    BY <2>2, <2>3 DEF Fits, Holders, Starters, Launchers
  <2> HIDE DEF n
  <2> QED
    BY <1>1, <1>3, <2>2, <2>4, SequentialRead DEF n
<1>4. ASSUME NEW r \in Runs, rows[r].status = "queued", Proceed(w, Snapshot(r, "claim", "idle"))
      PROVE  SequentialInv'
  <2>1. /\ Snapshot(r, "claim", "idle") \in Invocation
        /\ Snapshot(r, "claim", "idle").pc = "claim"
        /\ Snapshot(r, "claim", "idle").id = r
        /\ Snapshot(r, "claim", "idle").row = rows[r]
    BY <1>1, SnapshotShape DEF Points
  <2>2. Fits(Snapshot(r, "claim", "idle"), rows[Snapshot(r, "claim", "idle").id])
    BY <1>4, <2>1 DEF Fits, Agrees, Holders, Starters, Launchers
  <2> QED
    BY <1>1, <1>4, <2>1, <2>2, SequentialRead
<1> QED
  BY <1>2, <1>3, <1>4 DEF Pick

(* The re-reads after the claim and the handoff.                           *)
LEMMA SequentialReread ==
  ASSUME Sequential, QueueInv, SequentialInv, NEW w \in Workers, Claimed(w) \/ HandedOff(w)
  PROVE  SequentialInv'
<1>1. /\ UNCHANGED cloud /\ "idle" \in Unaimed /\ inv[w].id \in Runs
      /\ inv[w].then \in {"idle", "recheck", "pump"}
      /\ Fits(inv[w], rows[inv[w].id])
  BY DEF Claimed, HandedOff, At, QueueInv, SnapshotInv, TypeOK, Invocation, InvocationOK,
     SequentialInv, Unaimed
<1>2. CASE Proceed(w, Idle) \/ Proceed(w, Done(w))
  BY <1>1, <1>2, SequentialUnaimed, SequentialDone
<1>3. ASSUME NEW then \in {"idle", "recheck", "pump"}, Proceed(w, EnterStage(inv[w].id, then)),
             rows[inv[w].id].slot, rows[inv[w].id].job = NoJob
      PROVE  SequentialInv'
  BY <1>1, <1>3, EnterFits, SequentialRead
<1> QED
  BY <1>1, <1>2, <1>3 DEF Claimed, HandedOff, At, HoldsSlot, Fits

(* A discovery found in cooldown has no job yet.                           *)
LEMMA SequentialStart ==
  ASSUME Sequential, QueueInv, SequentialInv, NEW w \in Workers, StartDiscovery(w)
  PROVE  SequentialInv'
<1>1. /\ UNCHANGED cloud /\ At(w, "start") /\ inv[w].pc \in Holders /\ inv[w].pc \notin Unaimed
      /\ Fits(inv[w], rows[inv[w].id]) /\ InvocationOK(inv[w])
  BY DEF StartDiscovery, At, Holders, Starters, Unaimed, SequentialInv, QueueInv, SnapshotInv
<1>2. CASE Proceed(w, ToCooldown(w))
  <2>1. rows[inv[w].id].job = NoJob /\ rows[inv[w].id].status # "launching"
    BY <1>1 DEF Fits, Agrees, At, Holders, Starters, InvocationOK
  <2>2. Quiet(inv[w].id)
    BY <1>1, <2>1, HolderNow, RunQuiet
  <2> QED
    BY <1>1, <1>2, <2>2, SequentialTowards DEF ToCooldown, Terminal, StageNames
<1>3. CASE Proceed(w, [inv[w] EXCEPT !.pc = "claimLaunch"])
  <2>1. PICK n : n = [inv[w] EXCEPT !.pc = "claimLaunch"]
    OBVIOUS
  <2>2. /\ n \in Invocation /\ n.pc = "claimLaunch" /\ n.id = inv[w].id /\ n.row = inv[w].row
    BY <1>1, <2>1, HolderNow DEF Invocation, Points
  <2>3. Fits(n, rows[n.id])
    BY <1>1, <2>2 DEF Fits, At, Holders, Starters, Launchers
  <2> QED
    BY <1>1, <1>3, <2>1, <2>2, <2>3, SequentialRead
<1> QED
  BY <1>2, <1>3 DEF StartDiscovery

-----------------------------------------------------------------------------
(* Cancels, and what has become of a launch or a job.                      *)

LEMMA SequentialCancel ==
  ASSUME Sequential, QueueInv, SequentialInv, NEW w \in Workers, NEW r \in Runs, Cancel(w, r)
  PROVE  SequentialInv'
<1> DEFINE read == Snapshot(r, "cancelTag", "pump")
           row  == rows[r]
<1>1. UNCHANGED cloud /\ TypeOK /\ RowOK(row) /\ row \in Row /\ row.status \notin Terminal
  BY DEF Cancel, QueueInv, SnapshotInv, TypeOK
<1>2. read \in Invocation /\ read.pc = "cancelTag" /\ read.id = r /\ read.row = row
  BY <1>1, SnapshotShape DEF Points
<1> HIDE DEF read
<1>3. CASE HoldsSlot(r) /\ row.status = "launching" /\ Proceed(w, read)
  <2>1. Fits(read, rows[read.id])
    BY <1>2, <1>3 DEF Fits, Agrees, Holders, Starters, Launchers, HoldsSlot
  <2> QED
    BY <1>1, <1>2, <1>3, <2>1, SequentialRead
<1>4. CASE /\ HoldsSlot(r) /\ row.job # NoJob
           /\ Proceed(w, [read EXCEPT !.pc = "cancelStop", !.job = row.job])
  <2>1. PICK n : n = [read EXCEPT !.pc = "cancelStop", !.job = row.job]
    OBVIOUS
  <2>2. n \in Invocation /\ n.pc = "cancelStop" /\ n.id = r /\ n.row = row /\ n.job = row.job
    BY <1>1, <1>2, <2>1 DEF Invocation, Points, Row
  <2>3. row.job \in Tagged(r, row.stage)
    BY <1>4 DEF SequentialInv, RowTracked, HoldsSlot
  <2>4. Fits(n, rows[n.id])
    BY <1>4, <2>2, <2>3 DEF Fits, Agrees, Holders, Starters, Launchers, HoldsSlot
  <2> QED
    BY <1>1, <1>4, <2>1, <2>2, <2>4, SequentialRead
<1>5. CASE /\ ~HoldsSlot(r) \/ (row.job = NoJob /\ row.status # "launching")
           /\ Proceed(w, [read EXCEPT !.pc = "transition", !.to = "cancelled",
                                      !.toStage = "cancelled"])
  <2>1. PICK n : n = [read EXCEPT !.pc = "transition", !.to = "cancelled",
                                  !.toStage = "cancelled"]
    OBVIOUS
  <2>2. n \in Invocation /\ n.pc = "transition" /\ n.id = r
    BY <1>2, <2>1 DEF Invocation, Points, Statuses, StageNames, Terminal
  <2>3. Quiet(r)
    BY <1>5, RunQuiet DEF HoldsSlot
  <2>4. Fits(n, rows[n.id])
    BY <2>2, <2>3 DEF Fits, Holders, Starters, Launchers
  <2> QED
    BY <1>1, <1>5, <2>1, <2>2, <2>4, SequentialRead
<1> QED
  BY <1>3, <1>4, <1>5 DEF Cancel, read

(* A launch that nobody finished: its job is found by its tag, or there is *)
(* none, and nobody else can be about to ask for one.                      *)
LEMMA SequentialFind ==
  ASSUME Sequential, QueueInv, SequentialInv, NEW w \in Workers, CancelTag(w) \/ Recover(w)
  PROVE  SequentialInv'
<1> DEFINE i == inv[w]
           jobs == Tagged(i.id, i.row.stage)
<1>1. /\ UNCHANGED cloud /\ i.pc \in Launchers /\ i.pc \in Holders /\ i.pc \notin Unaimed
      /\ "idle" \in Unaimed /\ Fits(i, rows[i.id]) /\ InvocationOK(i)
  BY DEF CancelTag, Recover, At, Holders, Launchers, Unaimed, SequentialInv, QueueInv, SnapshotInv
<1>2. /\ i \in Invocation /\ i.id \in Runs /\ i.row.stage = rows[i.id].stage /\ i.row \in Row
      /\ jobs \subseteq Jobs
  BY <1>1, HolderNow DEF Agrees, Invocation, Tagged
<1>3. CASE Proceed(w, Idle) \/ Proceed(w, Done(w))
  BY <1>1, <1>3, SequentialUnaimed, SequentialDone
<1>4. ASSUME NEW j \in jobs, NEW p \in {"cancelStop", "recoverSet"},
             p = "recoverSet" => At(w, "recover"),
             Proceed(w, [i EXCEPT !.pc = p, !.job = j])
      PROVE  SequentialInv'
  <2>1. PICK n : n = [i EXCEPT !.pc = p, !.job = j]
    OBVIOUS
  <2>2. n \in Invocation /\ n.pc = p /\ n.id = i.id /\ n.row = i.row /\ n.job = j
    BY <1>2, <2>1 DEF Invocation, Points
  <2>3. Fits(n, rows[n.id])
    BY <1>1, <2>2 DEF Fits, Holders, Starters, Launchers
  <2> QED
    BY <1>1, <1>4, <2>1, <2>2, <2>3, SequentialRead
<1>5. ASSUME NEW status \in Terminal, NEW stage \in StageNames, jobs = {},
             Proceed(w, Towards(w, status, stage))
      PROVE  SequentialInv'
  <2>1. Quiet(i.id)
    BY <1>2, <1>5, StageQuiet
  <2> QED
    BY <1>1, <1>5, <2>1, SequentialTowards
<1>6. "cancelled" \in Terminal /\ "cancelled" \in StageNames /\ "failed" \in Terminal
      /\ i.row.stage \in StageNames
  BY <1>2 DEF Terminal, StageNames, Row
<1> HIDE DEF i, jobs
<1>7. CASE CancelTag(w)
  BY <1>3, <1>4, <1>5, <1>6, <1>7 DEF CancelTag, i, jobs
<1>8. CASE Recover(w)
  BY <1>3, <1>4, <1>5, <1>6, <1>8 DEF Recover, LaunchFailed, i, jobs
<1> QED
  BY <1>7, <1>8

(* The job that is stopped is the only one of its run that can be at work. *)
LEMMA SequentialStop ==
  ASSUME Sequential, QueueInv, SequentialInv, NEW w \in Workers, CancelStop(w)
  PROVE  SequentialInv'
<1> DEFINE i == inv[w]
           n == Towards(w, "cancelled", "cancelled")
<1>1. /\ i.pc \in Holders /\ i.pc \notin Unaimed /\ "idle" \in Unaimed
      /\ i.job \in Tagged(i.id, i.row.stage)
  BY DEF CancelStop, At, Holders, Unaimed, SequentialInv, Fits
<1>2. CASE Proceed(w, Idle) /\ UNCHANGED cloud
  BY <1>1, <1>2, SequentialUnaimed
<1>3. CASE cloud' = Stopped(i.job) /\ Proceed(w, n)
  <2>1. /\ i.job \in Jobs /\ i.id \in Runs /\ i.row.stage = rows[i.id].stage
        /\ \A k \in Jobs : Live(k) /\ cloud[k].run = i.id => k = i.job
    <3>1. /\ i.id \in Runs /\ i.row.stage = rows[i.id].stage
          /\ Placed(rows[i.id], i.id)
      BY <1>1, HolderNow DEF Agrees
    <3>2. \A k \in Tagged(i.id, i.row.stage) : k = i.job
      BY <1>1 DEF Tagged, QueueInv, LaunchInv, LaunchOnce
    <3> QED
      BY <1>1, <3>1, <3>2 DEF Placed, Tagged, Live, Accepted
  <2>2. \A k \in Jobs :
          /\ cloud'[k].run = cloud[k].run /\ cloud'[k].stage = cloud[k].stage
          /\ cloud'[k].close = cloud[k].close
          /\ cloud'[k].state = IF k = i.job /\ Live(k) THEN "stopping" ELSE cloud[k].state
    BY <1>3, <2>1 DEF Stopped, Live, QueueInv, SnapshotInv, TypeOK, Job
  <2>3. Calmer
    BY <2>2 DEF Calmer, SameTags, Live, Accepted, Ended
  <2>4. PICK r \in Runs : r = i.id
    BY <2>1
  <2>5. Quiet(r)'
    BY <2>1, <2>2, <2>4 DEF Quiet, Live
  <2>6. PICK m : m = n
    OBVIOUS
  <2>7. m \in Invocation /\ m.pc = "transition" /\ m.id = r
    <3>1. i \in Invocation
      BY <1>1, HolderNow
    <3> QED
      BY <2>4, <2>6, <3>1 DEF Towards, Invocation, Points, Statuses, StageNames, Terminal
  <2>8. ASSUME NEW v \in Workers PROVE Fits(inv[v], rows[inv[v].id])'
    <3>1. inv'[v] = m
      BY <1>3, <2>6 DEF Sequential, Proceed, QueueInv, SnapshotInv, TypeOK
    <3> QED
      BY <2>5, <2>7, <3>1 DEF Fits, Holders, Starters, Launchers, Quiet, Live
  <2>9. ASSUME NEW q \in Runs PROVE (Placed(rows[q], q) /\ RowTracked(rows[q], q))'
    <3>1. PICK row : row = rows[q] /\ row = rows'[q]
      BY <1>3 DEF Proceed
    <3>2. (Placed(row, q) /\ RowTracked(row, q))'
      BY <2>3, <3>1, PlacedKept DEF SequentialInv
    <3> QED
      BY <3>1, <3>2 DEF Placed, RowTracked, Tagged, Accepted, Live
  <2> QED
    BY <2>2, <2>3, <2>8, <2>9 DEF SequentialInv, Calmer, SameTags, Live, Ended
<1> QED
  BY <1>2, <1>3 DEF CancelStop

(* A run ends, or goes on, when its job is known to have ended.            *)
LEMMA SequentialPolled ==
  ASSUME Sequential, QueueInv, SequentialInv, NEW w \in Workers, SyncActive(w) \/ ReadOutcome(w)
  PROVE  SequentialInv'
<1> DEFINE i == inv[w]
<1>1. /\ UNCHANGED cloud /\ i.pc \in {"sync", "outcome"} /\ i.pc \in Holders
      /\ i.pc \notin Unaimed /\ i.row.status \in {"running", "ingesting"}
      /\ Fits(i, rows[i.id])
  BY DEF SyncActive, ReadOutcome, At, Holders, Unaimed, SequentialInv, QueueInv, SnapshotInv,
     InvocationOK
<1>2. /\ i \in Invocation /\ i.id \in Runs /\ rows[i.id].job = i.row.job
      /\ i.row.job \in Jobs /\ i.row.job # NoJob
  BY <1>1, HolderNow DEF Agrees, RowOK, Row
<1>3. CASE Proceed(w, Done(w))
  BY <1>1, <1>3, SequentialDone
<1>4. ASSUME NEW status \in Terminal, NEW stage \in StageNames, Ended(i.row.job),
             Proceed(w, Towards(w, status, stage))
      PROVE  SequentialInv'
  <2>1. Quiet(i.id)
    BY <1>2, <1>4, RunQuiet
  <2> QED
    BY <1>1, <1>4, <2>1, SequentialTowards
<1>5. CASE SyncActive(w)
  <2>1. /\ cloud[i.row.job].close # "none" => Ended(i.row.job)
        /\ {"cancelled", "failed"} \subseteq Terminal
        /\ {"cancelled", "failed"} \subseteq StageNames
    BY <1>2 DEF SequentialInv, Terminal, StageNames
  <2>2. CASE /\ cloud[i.row.job].close = "finished"
             /\ Proceed(w, [i EXCEPT !.pc = "outcome"])
    <3>1. PICK n : n = [i EXCEPT !.pc = "outcome"]
      OBVIOUS
    <3>2. n \in Invocation /\ n.pc = "outcome" /\ n.id = i.id /\ n.row = i.row
      BY <1>2, <3>1 DEF Invocation, Points
    <3>3. Fits(n, rows[n.id])
      BY <1>1, <1>2, <2>1, <2>2, <3>2 DEF Fits, Holders, Starters, Launchers
    <3> QED
      BY <1>1, <2>2, <3>1, <3>2, <3>3, SequentialRead
  <2> QED
    BY <1>1, <1>3, <1>4, <1>5, <2>1, <2>2 DEF SyncActive
<1>6. CASE ReadOutcome(w)
  <2>1. Ended(i.row.job) /\ i.pc = "outcome"
    BY <1>1, <1>6 DEF ReadOutcome, At, Fits
  <2>2. ASSUME NEW next \in CrawlStages,
               Proceed(w, [i EXCEPT !.pc = "handoff", !.toStage = next])
        PROVE  SequentialInv'
    <3>1. PICK n : n = [i EXCEPT !.pc = "handoff", !.toStage = next]
      OBVIOUS
    <3>2. n \in Invocation /\ n.pc = "handoff" /\ n.id = i.id /\ n.row = i.row
      BY <1>2, <3>1 DEF Invocation, Points, StageNames
    <3>3. Fits(n, rows[n.id])
      BY <1>1, <1>2, <2>1, <3>2 DEF Fits, Holders, Starters, Launchers
    <3> QED
      BY <1>1, <2>2, <3>1, <3>2, <3>3, SequentialRead
  <2>3. \A next : next = NextStage(i.id, i.row.stage) /\ next # "completed" => next \in CrawlStages
    BY DEF NextStage, CrawlStages
  <2>4. /\ {"blocked", "cooldown", "completed", "completed_with_warnings"} \subseteq Terminal
        /\ {"blocked", "cooldown", "completed"} \subseteq StageNames
    BY DEF Terminal, StageNames
  <2> HIDE DEF i
  <2> QED
    BY <1>4, <1>6, <2>1, <2>2, <2>3, <2>4 DEF ReadOutcome, i
<1> QED
  BY <1>5, <1>6

-----------------------------------------------------------------------------
(* Steps that write a row.                                                 *)

(* A new run is not at work.                                               *)
LEMMA SequentialInsert ==
  ASSUME Sequential, QueueInv, SequentialInv, NEW w \in Workers, NEW r \in Runs,
         Create(w, r) \/ \E src \in Runs : Retry(w, src, r)
  PROVE  SequentialInv'
<1>1. /\ rows[r].status = "absent" /\ UNCHANGED cloud
      /\ Write(w, r, Queued, [Idle EXCEPT !.pc = "pump"])
  BY DEF Create, Retry
<1>2. /\ "pump" \in Unaimed /\ ~rows[r].slot
      /\ Queued.job = NoJob
  BY <1>1 DEF Unaimed, QueueInv, SnapshotInv, RowOK, Waiting, Queued, NoRow
<1>3. Placed(Queued, r) /\ RowTracked(Queued, r)
  BY <1>2 DEF SequentialInv, Placed, RowTracked
<1> QED
  BY <1>1, <1>2, <1>3, UnaimedOK, SequentialWrite

(* The unit goes to a run without a job at work.                           *)
LEMMA SequentialClaim ==
  ASSUME Sequential, QueueInv, SequentialInv, NEW w \in Workers, Claim(w)
  PROVE  SequentialInv'
<1> DEFINE r == inv[w].id
           new == [rows[r] EXCEPT !.status = "starting", !.stage = StartStage(r), !.slot = TRUE]
<1>1. /\ UNCHANGED cloud /\ inv[w].pc \notin Unaimed /\ r \in Runs /\ rows[r] \in Row
      /\ RowOK(rows[r]) /\ Agrees(inv[w].row, rows[r]) /\ inv[w].row.status = "queued"
  BY DEF Claim, At, Unaimed, QueueInv, SnapshotInv, TypeOK, InvocationOK, SequentialInv, Fits
<1>2. /\ rows[r].status = "queued" /\ ~rows[r].slot /\ rows[r].job = NoJob
  BY <1>1 DEF Agrees, RowOK, Waiting
<1>3. PICK n : n = [inv[w] EXCEPT !.pc = "claimed"]
  OBVIOUS
<1>4. n \in Invocation /\ n.pc = "claimed" /\ n.id = r
  <2>1. inv[w] \in Invocation
    BY DEF QueueInv, SnapshotInv, TypeOK
  <2> QED
    BY <1>3, <2>1 DEF Invocation, Points
<1>5. Fits(n, rows[n.id])
  BY <1>2, <1>4 DEF Fits, Holders, Starters, Launchers
<1>6. CASE Write(w, r, new, n)
  <2>1. new.job = NoJob
    BY <1>1, <1>2 DEF Row
  <2>2. Placed(new, r) /\ RowTracked(new, r)
    BY <1>1, <1>2, <2>1 DEF SequentialInv, Placed, RowTracked
  <2>3. Fits(n, new)
    BY <1>4, <2>1 DEF Fits, Holders, Starters, Launchers
  <2> HIDE DEF new, r
  <2> QED
    BY <1>1, <1>4, <1>6, <2>2, <2>3, SequentialWrite
<1>7. CASE Proceed(w, n)
  BY <1>1, <1>4, <1>5, <1>7, SequentialRead
<1> QED
  BY <1>3, <1>6, <1>7 DEF Claim

(* The claim of a launch leaves the stage and the unit as they are.        *)
LEMMA SequentialClaimLaunch ==
  ASSUME Sequential, QueueInv, SequentialInv, NEW w \in Workers, ClaimLaunch(w)
  PROVE  SequentialInv'
<1> DEFINE r == inv[w].id
           new == [rows[r] EXCEPT !.status = "launching"]
<1>1. UNCHANGED cloud /\ inv[w].pc = "claimLaunch" /\ inv[w].pc \in Holders
  BY DEF ClaimLaunch, At, Holders, Starters
<1>2. CASE Proceed(w, Done(w))
  BY <1>1, <1>2, SequentialDone
<1>3. CASE Write(w, r, new, [inv[w] EXCEPT !.pc = "post", !.row.status = "launching"])
  <2>1. PICK n : n = [inv[w] EXCEPT !.pc = "post", !.row.status = "launching"]
    OBVIOUS
  <2>2. /\ n \in Invocation /\ n.pc = "post" /\ n.id = r
        /\ n.row = [inv[w].row EXCEPT !.status = "launching"] /\ inv[w].row \in Row
    <3>1. inv[w] \in Invocation /\ inv[w].row \in Row
      BY <1>1, HolderNow DEF Invocation
    <3>2. PICK old : old = [inv[w].row EXCEPT !.status = "launching"]
      OBVIOUS
    <3>3. old \in Row
      BY <3>1, <3>2 DEF Row, Statuses
    <3>4. n = [inv[w] EXCEPT !.pc = "post", !.row = old]
      BY <2>1, <3>1, <3>2 DEF Invocation
    <3> QED
      BY <3>1, <3>2, <3>3, <3>4 DEF Invocation, Points
  <2>3. /\ new.slot = rows[r].slot /\ new.stage = rows[r].stage /\ new.job = rows[r].job
        /\ new.status = "launching"
    BY <1>1, HolderNow DEF Row
  <2>4. Placed(new, r) /\ RowTracked(new, r)
    BY <1>1, <2>3, HolderNow DEF Placed, RowTracked
  <2>5. Agrees(n.row, new) /\ n.row.slot /\ n.row.status = "launching"
    BY <1>1, <2>2, <2>3, HolderNow DEF Agrees, Row
  <2>6. Fits(n, new)
    BY <2>2, <2>5 DEF Fits, Holders, Starters, Launchers
  <2>7. r \in Runs
    BY <1>1, HolderNow
  <2> HIDE DEF new, r
  <2> QED
    BY <1>1, <1>3, <2>1, <2>2, <2>4, <2>6, <2>7, SequentialWrite
<1> QED
  BY <1>2, <1>3 DEF ClaimLaunch

(* The job that is recorded is the one of the row's stage.                 *)
LEMMA SequentialRecord ==
  ASSUME Sequential, QueueInv, SequentialInv, NEW w \in Workers, SetJob(w) \/ RecoverSet(w)
  PROVE  SequentialInv'
<1> DEFINE r == inv[w].id
           new == Tracked(rows[r], inv[w].job)
<1>1. /\ UNCHANGED cloud /\ inv[w].pc \in Holders /\ inv[w].job \in Tagged(r, inv[w].row.stage)
  BY DEF SetJob, RecoverSet, At, Holders, Launchers, SequentialInv, Fits
<1>2. CASE Proceed(w, Done(w))
  BY <1>1, <1>2, SequentialDone
<1>3. CASE Write(w, r, new, Done(w))
  <2>1. /\ new.slot = rows[r].slot /\ new.stage = rows[r].stage /\ new.job = inv[w].job
        /\ inv[w].row.stage = rows[r].stage /\ r \in Runs
    BY <1>1, HolderNow DEF Tracked, Row, Agrees
  <2>2. Placed(new, r) /\ RowTracked(new, r)
    BY <1>1, <2>1, HolderNow DEF Placed, RowTracked
  <2>3. Done(w).pc \in Unaimed /\ Done(w) \in Invocation
    <3>1. inv[w].then \in Unaimed
      BY DEF QueueInv, SnapshotInv, TypeOK, Invocation, Unaimed
    <3> QED
      BY <3>1, UnaimedOK, DoneFits DEF Done, Unaimed
  <2> HIDE DEF new, r
  <2> QED
    BY <1>1, <1>3, <2>1, <2>2, <2>3, SequentialWrite
<1> QED
  BY <1>2, <1>3 DEF SetJob, RecoverSet, Sequential

(* The unit is given back when no job of the run is at work.               *)
LEMMA SequentialTransition ==
  ASSUME Sequential, QueueInv, SequentialInv, NEW w \in Workers, Transition(w)
  PROVE  SequentialInv'
<1> DEFINE r == inv[w].id
           new == [rows[r] EXCEPT !.status = inv[w].to, !.stage = inv[w].toStage,
                                  !.slot = SlotAfter(w)]
<1>1. /\ Write(w, r, new, Done(w)) /\ UNCHANGED cloud /\ r \in Runs /\ rows[r] \in Row
      /\ inv[w].to \in Terminal /\ Quiet(r)
  BY DEF Transition, At, QueueInv, SnapshotInv, TypeOK, InvocationOK, SequentialInv, Fits
<1>2. ~new.slot
  BY <1>1 DEF SlotAfter, Row
<1>3. Placed(new, r) /\ RowTracked(new, r)
  BY <1>1, <1>2 DEF Placed, RowTracked, Quiet
<1>4. Done(w).pc \in Unaimed /\ Done(w) \in Invocation
  <2>1. inv[w].then \in Unaimed
    BY DEF QueueInv, SnapshotInv, TypeOK, Invocation, Unaimed
  <2> QED
    BY <2>1, UnaimedOK, DoneFits DEF Done, Unaimed
<1> HIDE DEF new, r
<1> QED
  BY <1>1, <1>3, <1>4, SequentialWrite

(* A run goes on when its job has ended.                                   *)
LEMMA SequentialHandoff ==
  ASSUME Sequential, QueueInv, SequentialInv, NEW w \in Workers, Handoff(w)
  PROVE  SequentialInv'
<1> DEFINE r == inv[w].id
           s == inv[w].toStage
           new == HandedTo(rows[r], s)
<1>1. /\ UNCHANGED cloud /\ inv[w].pc \in Holders /\ Agrees(inv[w].row, rows[r])
      /\ inv[w].row.job # NoJob /\ Ended(inv[w].row.job)
  BY DEF Handoff, At, Holders, SequentialInv, Fits
<1>2. CASE Proceed(w, Done(w))
  BY <1>1, <1>2, SequentialDone
<1>3. CASE Write(w, r, new, [inv[w] EXCEPT !.pc = "handedOff"])
  <2>1. PICK n : n = [inv[w] EXCEPT !.pc = "handedOff"]
    OBVIOUS
  <2>2. n \in Invocation /\ n.pc = "handedOff" /\ n.id = r /\ r \in Runs
    BY <1>1, <2>1, HolderNow DEF Invocation, Points
  <2>3. new.slot /\ new.job = NoJob
    BY <1>1, HolderNow DEF HandedTo, Row
  <2>4. Quiet(r)
    BY <1>1, <2>2, RunQuiet DEF Agrees
  <2>5. Placed(new, r) /\ RowTracked(new, r)
    BY <2>3, <2>4 DEF Placed, RowTracked, Quiet
  <2>6. Fits(n, new)
    BY <2>2, <2>3 DEF Fits, Holders, Starters, Launchers
  <2> HIDE DEF new, r
  <2> QED
    BY <1>1, <1>3, <2>1, <2>2, <2>5, <2>6, SequentialWrite
<1> QED
  BY <1>2, <1>3 DEF Handoff

(* A job is launched for the stage its row is in.                          *)
LEMMA SequentialPost ==
  ASSUME Sequential, QueueInv, SequentialInv, NEW w \in Workers, Post(w)
  PROVE  SequentialInv'
<1> DEFINE i == inv[w]
<1>1. /\ i.pc = "post" /\ i.pc \in Holders /\ i.pc \notin Unaimed /\ Fits(i, rows[i.id])
      /\ Tagged(i.id, i.row.stage) = {}
  BY DEF Post, At, Holders, Launchers, Unaimed, SequentialInv, QueueInv, LaunchInv, Launched
<1>2. /\ i \in Invocation /\ i.id \in Runs /\ i.row.stage = rows[i.id].stage
      /\ rows[i.id].slot /\ i.row.stage \in StageNames
  BY <1>1, HolderNow DEF Agrees, Invocation, Row
<1>3. CASE Proceed(w, LaunchFailed(w)) /\ UNCHANGED cloud
  <2>1. Quiet(i.id)
    BY <1>1, <1>2, StageQuiet
  <2> QED
    BY <1>1, <1>2, <1>3, <2>1, SequentialTowards DEF LaunchFailed, Terminal
<1>4. ASSUME NEW j \in Jobs, Accept(w, j), Proceed(w, [i EXCEPT !.pc = "setJob", !.job = j])
      PROVE  SequentialInv'
  <2>1. PICK n : n = [i EXCEPT !.pc = "setJob", !.job = j]
    OBVIOUS
  <2>2. n \in Invocation /\ n.pc = "setJob" /\ n.id = i.id /\ n.row = i.row /\ n.job = j
    BY <1>2, <2>1 DEF Invocation, Points
  <2>3. PICK job : job = [run |-> i.id, stage |-> i.row.stage, state |-> "live", close |-> "none"]
    OBVIOUS
  <2>4. /\ ~Accepted(j) /\ UNCHANGED rows
        /\ \A k \in Jobs : cloud'[k] = IF k = j THEN job ELSE cloud[k]
        /\ \A v \in Workers : inv'[v] = n
    BY <1>4, <2>1, <2>3
    DEF Accept, Accepted, Proceed, Sequential, QueueInv, SnapshotInv, TypeOK
  <2>5. PICK row : row = rows[i.id] /\ row = rows'[n.id]
    BY <2>2, <2>4
  <2>6. /\ Agrees(n.row, row) /\ n.row.slot /\ n.row.status = "launching"
        /\ j \in Tagged(n.id, n.row.stage)'
    BY <1>1, <2>2, <2>3, <2>4, <2>5 DEF Fits, Holders, Launchers, Tagged, Accepted
  <2>7. ASSUME NEW v \in Workers PROVE Fits(inv[v], rows[inv[v].id])'
    <3>1. Fits(n, row)'
      BY <2>2, <2>6 DEF Fits, Holders, Starters, Launchers, Agrees
    <3>2. inv'[v] = n
      BY <2>4
    <3> QED
      BY <2>5, <3>1, <3>2 DEF Fits, Agrees, Tagged, Accepted, Quiet, Live, Ended
  <2>8. ASSUME NEW q \in Runs PROVE (Placed(rows[q], q) /\ RowTracked(rows[q], q))'
    BY <1>2, <2>3, <2>4 DEF SequentialInv, Placed, RowTracked, Tagged, Accepted, Live
  <2>9. \A k \in Jobs : (Live(k) => cloud[k].run \in Runs)'
    BY <1>2, <2>3, <2>4 DEF SequentialInv, Live
  <2>10. \A k \in Jobs : (cloud[k].close = "none" \/ Ended(k))'
    BY <2>3, <2>4 DEF SequentialInv, Ended
  <2> QED
    BY <2>7, <2>8, <2>9, <2>10 DEF SequentialInv
<1> QED
  BY <1>3, <1>4 DEF Post, Sequential

-----------------------------------------------------------------------------
(* Steps of the crawler, of Scrapy Cloud and of time, and crashes.         *)

(* Steps that leave all of it alone, except what does not matter to it.    *)
LEMMA SequentialOutside ==
  ASSUME QueueInv, SequentialInv, Calmer,
         \A j \in Jobs : cloud'[j].close = "none" \/ Ended(j)',
         \A r \in Runs :
           /\ rows'[r].stage = rows[r].stage /\ rows'[r].slot = rows[r].slot
           /\ rows'[r].job = rows[r].job
           /\ \/ rows'[r].status = rows[r].status
              \/ rows[r].status = "running" /\ rows'[r].status = "ingesting",
         \A v \in Workers : /\ inv'[v].pc = inv[v].pc /\ inv'[v].id = inv[v].id
                            /\ inv'[v].row = inv[v].row /\ inv'[v].job = inv[v].job
  PROVE  SequentialInv'
<1>1. ASSUME NEW v \in Workers PROVE Fits(inv[v], rows[inv[v].id])'
  <2>1. PICK i \in Invocation : i = inv[v]
    BY DEF QueueInv, SnapshotInv, TypeOK
  <2>2. PICK old, row : old = rows[i.id] /\ row = rows'[i.id]
    OBVIOUS
  <2>3. i.pc \in Unaimed \/ i.id \in Runs
    BY <2>1 DEF QueueInv, SnapshotInv, InvocationOK, Unaimed
  <2>4. Fits(i, row)
    <3>1. CASE i.pc \in Unaimed
      BY <3>1, UnaimedFits
    <3>2. CASE i.pc \notin Unaimed
      <4>1. Fits(i, old)
        BY <2>1, <2>2 DEF SequentialInv
      <4>2. /\ row.slot = old.slot /\ row.stage = old.stage /\ row.job = old.job
            /\ \/ row.status = old.status
               \/ old.status = "running" /\ row.status = "ingesting"
        BY <2>2, <2>3, <3>2
      <4>3. i.pc \in Holders \cup {"claim"} => Agrees(i.row, row)
        BY <4>1, <4>2 DEF Fits, Agrees
      <4> QED
        BY <4>1, <4>2, <4>3 DEF Fits
    <3> QED
      BY <3>1, <3>2
  <2>5. Fits(i, row)'
    BY <2>4, FitsKept
  <2>6. /\ inv'[v].pc = i.pc /\ inv'[v].id = i.id /\ inv'[v].row = i.row /\ inv'[v].job = i.job
    BY <2>1
  <2> QED
    BY <2>2, <2>5, <2>6 DEF Fits, Agrees, Tagged, Accepted, Quiet, Live, Ended
<1>2. ASSUME NEW q \in Runs PROVE (Placed(rows[q], q) /\ RowTracked(rows[q], q))'
  BY DEF SequentialInv, Placed, RowTracked, Tagged, Calmer, SameTags
<1> QED
  BY <1>1, <1>2 DEF SequentialInv, Calmer, SameTags

LEMMA SequentialIngestion ==
  ASSUME QueueInv, SequentialInv, NEW j \in Jobs, RecordIngestion(j)
  PROVE  SequentialInv'
<1>1. Calmer /\ \A k \in Jobs : cloud'[k].close = "none" \/ Ended(k)'
  BY IngestionShape, CloudCalmer DEF SequentialInv, Ended
<1> QED
  BY <1>1, IngestionShape, SequentialOutside

LEMMA SequentialFinishes ==
  ASSUME QueueInv, SequentialInv, NEW j \in Jobs, JobFinishes(j)
  PROVE  SequentialInv'
<1>1. UNCHANGED <<rows, inv>> /\ SameTags
  BY JobKeepsTags DEF JobFinishes
<1>2. PICK close : cloud' = [cloud EXCEPT ![j].state = "finished", ![j].close = close]
  BY DEF JobFinishes
<1>3. /\ cloud \in [Jobs -> Job]
      /\ \A k \in Jobs : k # j => cloud'[k] = cloud[k]
      /\ cloud'[j].state = "finished"
  BY <1>2 DEF QueueInv, SnapshotInv, TypeOK, Job
<1>4. Calmer
  BY <1>1, <1>3 DEF Calmer, Live, Ended
<1>5. \A k \in Jobs : cloud'[k].close = "none" \/ Ended(k)'
  BY <1>3 DEF SequentialInv, Ended
<1> QED
  BY <1>1, <1>4, <1>5, SequentialOutside

LEMMA SequentialTime ==
  ASSUME QueueInv, SequentialInv,
         \/ \E r \in Runs : LeaseExpires(r) \/ SellersChange(r)
         \/ CooldownExpires \/ UNCHANGED vars
  PROVE  SequentialInv'
<1>1. UNCHANGED <<rows, inv, cloud>>
  BY DEF LeaseExpires, SellersChange, CooldownExpires, vars
<1>2. Calmer /\ \A k \in Jobs : cloud'[k].close = "none" \/ Ended(k)'
  BY <1>1, CloudCalmer DEF SequentialInv, Ended
<1> QED
  BY <1>1, <1>2, SequentialOutside

(* An invocation may die anywhere: what it knew is not needed.             *)
LEMMA SequentialCrash ==
  ASSUME Sequential, QueueInv, SequentialInv, NEW w \in Workers, Crash(w)
  PROVE  SequentialInv'
BY SequentialUnaimed DEF Crash, Unaimed

LEMMA SequentialInvInit == Init => SequentialInv
<1> SUFFICES ASSUME Init PROVE SequentialInv
  OBVIOUS
<1>1. ~\E j \in Jobs : Live(j)
  BY DEF Init, FreeJob, Live
<1>2. \A r \in Runs : Placed(rows[r], r) /\ RowTracked(rows[r], r)
  BY <1>1 DEF Init, Placed, RowTracked, NoRow
<1>3. \A w \in Workers : Fits(inv[w], rows[inv[w].id])
  BY IdleFits DEF Init, Unaimed
<1>4. \A j \in Jobs : cloud[j].close = "none"
  BY DEF Init, FreeJob
<1> QED
  BY <1>1, <1>2, <1>3, <1>4 DEF SequentialInv

LEMMA SequentialInvStep ==
  ASSUME Sequential, QueueInv, SequentialInv, [Next]_vars
  PROVE  SequentialInv'
<1>1. ASSUME NEW w \in Workers, Continue(w) PROVE SequentialInv'
  BY <1>1, SequentialPump, SequentialPick, SequentialClaim, SequentialReread, SequentialStart,
     SequentialClaimLaunch, SequentialPost, SequentialRecord, SequentialFind, SequentialPolled,
     SequentialTransition, SequentialHandoff, SequentialStop
  DEF Continue
<1>2. ASSUME NEW w \in Workers, Tick(w) PROVE SequentialInv'
  BY <1>2, SequentialPump DEF Tick
<1>3. ASSUME NEW w \in Workers, Request(w) PROVE SequentialInv'
  BY <1>3, SequentialInsert, SequentialPump, SequentialCancel DEF Request
<1> QED
  BY <1>1, <1>2, <1>3, SequentialIngestion, SequentialFinishes, SequentialTime, SequentialCrash
  DEF Next, JobStep

-----------------------------------------------------------------------------
(* A run that has ended is not written to again.                           *)

LEMMA ContinueEnds ==
  ASSUME Sequential, QueueInv, SequentialInv, NEW w \in Workers, Continue(w)
  PROVE  RunsEndOnce
<1> DEFINE r == inv[w].id
<1>1. CASE UNCHANGED rows
  BY <1>1 DEF RunsEndOnce
<1>2. CASE Claim(w) /\ ~UNCHANGED rows
  <2>1. r \in Runs /\ rows[r].status = "queued"
    BY <1>2 DEF Claim, Claimable, At, Proceed, QueueInv, SnapshotInv, InvocationOK
  <2>2. \E new, n : Write(w, r, new, n)
    BY <1>2 DEF Claim, Proceed
  <2> HIDE DEF r
  <2> QED
    BY <2>1, <2>2, WriteMoves DEF Terminal
<1>3. CASE (ClaimLaunch(w) \/ SetJob(w) \/ RecoverSet(w) \/ Handoff(w)) /\ ~UNCHANGED rows
  <2>1. inv[w].pc \in Holders
    BY <1>3 DEF ClaimLaunch, SetJob, RecoverSet, Handoff, At, Holders, Starters, Launchers
  <2>2. \E new, n : Write(w, r, new, n)
    BY <1>3 DEF ClaimLaunch, SetJob, RecoverSet, Handoff, Proceed
  <2>3. r \in Runs /\ rows[r].status \notin Terminal
    BY <2>1, HolderNow
  <2> HIDE DEF r
  <2> QED
    BY <2>2, <2>3, WriteMoves
<1>4. CASE Transition(w)
  <2> DEFINE new == [rows[r] EXCEPT !.status = inv[w].to, !.stage = inv[w].toStage,
                                    !.slot = SlotAfter(w)]
  <2>1. /\ r \in Runs /\ Write(w, r, new, Done(w)) /\ rows[r] \in Row /\ inv[w].to \in Terminal
    BY <1>4 DEF Transition, At, QueueInv, SnapshotInv, TypeOK, InvocationOK
  <2>2. new.status \in Terminal
    BY <2>1 DEF Row
  <2> HIDE DEF new, r
  <2> QED
    BY <2>1, <2>2, WriteMoves
<1>5. ASSUME \/ Pump(w) \/ Recheck(w) \/ Pick(w) \/ Claimed(w) \/ StartDiscovery(w) \/ Post(w)
             \/ Recover(w) \/ SyncActive(w) \/ ReadOutcome(w) \/ HandedOff(w)
             \/ CancelTag(w) \/ CancelStop(w)
      PROVE  UNCHANGED rows
  BY <1>5 DEF Pump, Recheck, Pick, Claimed, StartDiscovery, Post, Recover, SyncActive,
     ReadOutcome, HandedOff, CancelTag, CancelStop, Proceed
<1> QED
  BY <1>1, <1>2, <1>3, <1>4, <1>5 DEF Continue

LEMMA StepEnds ==
  ASSUME Sequential, QueueInv, SequentialInv, [Next]_vars
  PROVE  RunsEndOnce
<1>1. ASSUME NEW w \in Workers, NEW r \in Runs, Create(w, r) \/ \E src \in Runs : Retry(w, src, r)
      PROVE  RunsEndOnce
  <2>1. rows[r].status \notin Terminal /\ \E n : Write(w, r, Queued, n)
    BY <1>1 DEF Create, Retry, Terminal
  <2> QED
    BY <2>1, WriteMoves
<1>2. ASSUME NEW j \in Jobs, RecordIngestion(j) PROVE RunsEndOnce
  BY <1>2, IngestionShape DEF RunsEndOnce, Terminal
<1>3. ASSUME \/ \E w \in Workers :
                  Tick(w) \/ Crash(w) \/ \E r \in Runs : Detail(w, r) \/ Cancel(w, r)
             \/ \E j \in Jobs : JobFinishes(j)
             \/ \E r \in Runs : LeaseExpires(r) \/ SellersChange(r)
             \/ CooldownExpires \/ UNCHANGED vars
      PROVE  UNCHANGED rows
  BY <1>3 DEF Tick, Pump, Crash, Detail, Cancel, Proceed, JobFinishes, LeaseExpires,
     SellersChange, CooldownExpires, vars
<1>4. UNCHANGED rows => RunsEndOnce
  BY DEF RunsEndOnce
<1> QED
  BY <1>1, <1>2, <1>3, <1>4, ContinueEnds DEF Next, Request, JobStep

-----------------------------------------------------------------------------
(* The theorems.                                                           *)

LEMMA SequentialInvHolds == Sequential => (Spec => [](QueueInv /\ SequentialInv))
<1> SUFFICES ASSUME Sequential PROVE Spec => [](QueueInv /\ SequentialInv)
  OBVIOUS
<1>1. Init => SequentialInv
  BY SequentialInvInit
<1>2. QueueInv /\ SequentialInv /\ [Next]_vars => SequentialInv'
  BY SequentialInvStep
<1> QED
  BY <1>1, <1>2, QueueInvHolds, PTL DEF Spec

(* A job at work belongs to the run that holds the unit, although the      *)
(* invocation that launched it may have died before it recorded the job,   *)
(* and the cancel that stops it may have died before it said so.           *)
THEOREM DeadLaunchKeepsUnit == Sequential => (Spec => []LiveJobHoldsUnit)
<1> SUFFICES ASSUME Sequential PROVE Spec => []LiveJobHoldsUnit
  OBVIOUS
<1>1. SequentialInv => LiveJobHoldsUnit
  BY DEF SequentialInv, Placed, LiveJobHoldsUnit, HoldsSlot
<1> QED
  BY <1>1, SequentialInvHolds, PTL

(* Scrapy Cloud is never asked to run two jobs at once: a launch that was  *)
(* given up half-way is found by its tag and not repeated.                 *)
THEOREM DeadLaunchNotRepeated == Sequential => (Spec => []OneLiveJob)
<1> SUFFICES ASSUME Sequential PROVE Spec => []OneLiveJob
  OBVIOUS
<1>1. ASSUME QueueInv, SequentialInv, NEW j \in Jobs, NEW k \in Jobs, Live(j), Live(k)
      PROVE  j = k
  <2>1. /\ cloud[j].run \in Runs /\ rows[cloud[j].run].slot
        /\ rows[cloud[j].run].stage = cloud[j].stage
        /\ cloud[k].run \in Runs /\ rows[cloud[k].run].slot
        /\ rows[cloud[k].run].stage = cloud[k].stage
    BY <1>1 DEF SequentialInv, Placed
  <2>2. cloud[j].run = cloud[k].run
    BY <1>1, <2>1 DEF QueueInv, SnapshotInv, SlotUnique, HoldsSlot
  <2> QED
    BY <1>1, <2>1, <2>2 DEF QueueInv, LaunchInv, LaunchOnce, Live, Accepted
<1>2. QueueInv /\ SequentialInv => OneLiveJob
  BY <1>1 DEF OneLiveJob
<1> QED
  BY <1>2, SequentialInvHolds, PTL

(* The job a slot holder is polled by is the one of its current stage,     *)
(* also when its id was recovered from the stage's tag.                    *)
THEOREM RecoveredJobIsOfStage == Sequential => (Spec => []TrackedJobOfStage)
<1> SUFFICES ASSUME Sequential PROVE Spec => []TrackedJobOfStage
  OBVIOUS
<1>1. SequentialInv => TrackedJobOfStage
  BY DEF SequentialInv, RowTracked, Tagged, TrackedJobOfStage, HoldsSlot
<1> QED
  BY <1>1, SequentialInvHolds, PTL

(* A run that has ended, was cancelled or was given up stays so: nothing   *)
(* that an invocation which died left undone brings it back.               *)
THEOREM CancelledRunStaysEnded == Sequential => (Spec => TerminalStays)
<1> SUFFICES ASSUME Sequential PROVE Spec => TerminalStays
  OBVIOUS
<1>1. QueueInv /\ SequentialInv /\ [Next]_vars => [RunsEndOnce]_rows
  BY StepEnds
<1>2. Spec => [][RunsEndOnce]_rows
  BY <1>1, SequentialInvHolds, PTL DEF Spec
<1> QED
  BY <1>2 DEF TerminalStays, RunsEndOnce
=============================================================================
