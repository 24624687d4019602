------------------------- MODULE TimelyQueueProofs -------------------------
(***************************************************************************)
(* What holds of the operator queue when invocations run to their end      *)
(* within the launch lease and Scrapy Cloud's answers arrive: for every    *)
(* set of runs, invocations and jobs, and whichever requests fail.         *)
(*                                                                         *)
(* TimelyInv is added to QueueInv of OperatorQueueProofs: a launch in      *)
(* progress has its launcher, so that no lease runs out, a job that is     *)
(* about to be recorded has one recorder, and a job that is polled is the  *)
(* one of its stage.  Batches may be stored, and sellers change, whenever  *)
(* they like.  That a cooldown is honoured needs none of this: ChilledInv  *)
(* is inductive whatever fails and however slow invocations are.           *)
(***************************************************************************)
EXTENDS OperatorQueueProofs

(* No invocation dies, none outlives the lease or an external job, and no  *)
(* answer of Scrapy Cloud to an accepted launch is lost.  Its requests may *)
(* fail, the operator may cancel, and a cooldown may run out at any time.  *)
Timely == MaxCrashes = 0 /\ Faults \cap {"lost", "slow"} = {}

(* An invocation that launches: from the claim of the launch on.           *)
Posts(i) == i.pc \in {"post", "setJob"}

(* One that finds out what the job of its snapshot has come to.            *)
Polls(i) == i.pc \in {"sync", "outcome", "handoff"}

(* One on which a row in 'launching' can still rely.                       *)
Launches(i, r) == i.id = r /\ i.pc \in {"post", "setJob", "transition"}

TimelySound(i) ==
  /\ i.pc \notin {"recover", "recoverSet"}
  /\ Posts(i) /\ HoldsSlot(i.id) =>
       rows[i.id].status = "launching" /\ rows[i.id].stage = i.row.stage
  /\ i.pc = "setJob" => i.job \in Tagged(i.id, i.row.stage)
  /\ Polls(i) => i.row.job \in Tagged(i.id, i.row.stage)

RowTracked(row, r) == row.slot /\ row.job # NoJob => row.job \in Tagged(r, row.stage)

(* A job about to be recorded has one recorder, and nobody polls it yet.   *)
Recorded ==
  /\ \A v, w \in Workers :
       At(v, "setJob") /\ At(w, "setJob") /\ inv[v].job = inv[w].job => v = w
  /\ \A v, w \in Workers :
       At(v, "setJob") /\ Polls(inv[w]) => inv[v].job # inv[w].row.job

TimelyInv ==
  /\ \A r \in Runs : ~aged[r]
  /\ \A r \in Runs : rows[r].status = "launching" => \E w \in Workers : Launches(inv[w], r)
  /\ \A r \in Runs : RowTracked(rows[r], r)
  /\ \A w \in Workers : TimelySound(inv[w])
  /\ Recorded

-----------------------------------------------------------------------------
(* Steps that respect TimelyInv.                                           *)

(* An accepted job keeps its tag.                                          *)
TagsGrow ==
  \A j \in Jobs : Accepted(j) =>
    Accepted(j)' /\ cloud'[j].run = cloud[j].run /\ cloud'[j].stage = cloud[j].stage

LEMMA TaggedGrow ==
  ASSUME TagsGrow, NEW r, NEW s, NEW j, j \in Tagged(r, s)
  PROVE  j \in Tagged(r, s)'
BY DEF Tagged, TagsGrow

(* An invocation that holds nothing of a launch or of a job.               *)
Plain(i) == ~Posts(i) /\ ~Polls(i) /\ i.pc \notin {"recover", "recoverSet"}

(* A step of one invocation that leaves the rows alone.                    *)
LEMMA TimelyRead ==
  ASSUME QueueInv, TimelyInv, NEW w \in Workers, NEW n, Proceed(w, n), TagsGrow,
         n.pc # "setJob", TimelySound(n)',
         Polls(n) => \A v \in Workers : At(v, "setJob") => inv[v].job # n.row.job,
         \A r \in Runs : Launches(inv[w], r) => Launches(n, r)
  PROVE  TimelyInv'
<1>1. /\ UNCHANGED <<rows, aged>>
      /\ \A v \in Workers : inv'[v] = IF v = w THEN n ELSE inv[v]
  BY DEF Proceed, QueueInv, SnapshotInv, TypeOK
<1>2. \A r \in Runs : RowTracked(rows[r], r)'
  BY <1>1, TaggedGrow DEF TimelyInv, RowTracked
<1>3. ASSUME NEW v \in Workers PROVE TimelySound(inv[v])'
  <2>1. CASE v = w
    BY <1>1, <2>1
  <2>2. CASE v # w
    <3>1. PICK i : i = inv[v] /\ i = inv'[v]
      BY <1>1, <2>2
    <3>2. TimelySound(i)
      BY <3>1 DEF TimelyInv
    <3>3. TimelySound(i)'
      BY <1>1, <3>2, TaggedGrow DEF TimelySound, HoldsSlot
    <3> QED
      BY <3>1, <3>3
  <2> QED
    BY <2>1, <2>2
<1>4. Recorded'
  BY <1>1 DEF TimelyInv, Recorded, At
<1>5. ASSUME NEW r \in Runs, rows'[r].status = "launching"
      PROVE  \E v \in Workers : Launches(inv'[v], r)
  BY <1>1, <1>5 DEF TimelyInv
<1> QED
  BY <1>1, <1>2, <1>3, <1>4, <1>5 DEF TimelyInv

(* The usual case of it.                                                   *)
LEMMA TimelyPlain ==
  ASSUME QueueInv, TimelyInv, NEW w \in Workers, NEW n, Proceed(w, n), TagsGrow, Plain(n),
         \A r \in Runs : Launches(inv[w], r) => Launches(n, r)
  PROVE  TimelyInv'
<1>1. TimelySound(n)'
  BY DEF Plain, TimelySound, Posts, Polls
<1> QED
  BY <1>1, TimelyRead DEF Plain, Posts, Polls

LEMMA SameTagsGrow ==
  ASSUME SameTags PROVE TagsGrow
BY DEF SameTags, TagsGrow

(* A step that writes the row of one run.                                  *)
LEMMA TimelyWrite ==
  ASSUME QueueInv, TimelyInv, NEW w \in Workers, NEW r \in Runs, NEW new, NEW n,
         Write(w, r, new, n), UNCHANGED cloud,
         inv[w].pc \in {"post", "setJob", "transition"} => inv[w].id = r,
         ~Polls(n), n.pc \notin {"setJob", "recover", "recoverSet"},
         new.slot /\ n.pc = "post" =>
           n.id = r /\ new.status = "launching" /\ new.stage = n.row.stage,
         n.pc = "post" => n.id = r,
         new.status = "launching" => Launches(n, r),
         RowTracked(new, r),
         \A v \in Workers \ {w} : new.slot /\ Posts(inv[v]) /\ inv[v].id = r =>
           new.status = "launching" /\ new.stage = inv[v].row.stage
  PROVE  TimelyInv'
<1>1. /\ \A q \in Runs : rows'[q] = IF q = r THEN new ELSE rows[q]
      /\ \A q \in Runs : aged'[q] => aged[q]
  BY DEF Write, QueueInv, SnapshotInv, TypeOK
<1>2. /\ inv'[w] = n
      /\ \A v \in Workers \ {w} :
           inv'[v].pc = inv[v].pc /\ inv'[v].id = inv[v].id /\ inv'[v].row = inv[v].row
           /\ inv'[v].job = inv[v].job
  <2>1. \A v \in Workers :
          inv'[v] = IF v = w THEN n
                    ELSE IF inv[v].id = r THEN [inv[v] EXCEPT !.fresh = FALSE] ELSE inv[v]
    BY DEF Write, Outdated, QueueInv, SnapshotInv, TypeOK
  <2>2. \A v \in Workers : inv[v] \in Invocation
    BY DEF QueueInv, SnapshotInv, TypeOK
  <2> QED
    BY <2>1, <2>2, StaleShape
<1>3. ASSUME NEW q, NEW s PROVE Tagged(q, s)' = Tagged(q, s)
  BY DEF Tagged, Accepted
<1>4. ASSUME NEW q \in Runs PROVE RowTracked(rows[q], q)'
  BY <1>1, <1>3 DEF TimelyInv, RowTracked
<1>5. ASSUME NEW v \in Workers PROVE TimelySound(inv[v])'
  <2>1. CASE v = w
    BY <1>1, <1>2, <2>1 DEF TimelySound, Posts, Polls, HoldsSlot
  <2>2. CASE v # w
    <3>1. TimelySound(inv[v]) /\ InvocationOK(inv[v])
      BY DEF TimelyInv, QueueInv, SnapshotInv
    <3>2. /\ inv'[v].pc = inv[v].pc /\ inv'[v].id = inv[v].id
          /\ inv'[v].row = inv[v].row /\ inv'[v].job = inv[v].job
      BY <1>2, <2>2
    <3>3. Posts(inv[v]) => inv[v].id \in Runs
      BY <3>1 DEF InvocationOK, Posts
    <3>4. Posts(inv'[v]) /\ rows'[inv'[v].id].slot =>
            rows'[inv'[v].id].status = "launching" /\ rows'[inv'[v].id].stage = inv'[v].row.stage
      BY <1>1, <2>2, <3>1, <3>2, <3>3 DEF TimelySound, Posts, HoldsSlot
    <3> QED
      BY <1>3, <3>1, <3>2, <3>4 DEF TimelySound, Posts, Polls, HoldsSlot
  <2> QED
    BY <2>1, <2>2
<1>6. Recorded'
  BY <1>2 DEF TimelyInv, Recorded, At, Polls
<1>7. ASSUME NEW q \in Runs, rows'[q].status = "launching"
      PROVE  \E v \in Workers : Launches(inv'[v], q)
  <2>1. CASE q = r
    BY <1>1, <1>2, <1>7, <2>1
  <2>2. CASE q # r
    <3>1. PICK v \in Workers : Launches(inv[v], q)
      BY <1>1, <1>7, <2>2 DEF TimelyInv
    <3>2. v # w
      BY <2>2, <3>1 DEF Launches
    <3> QED
      BY <1>2, <3>1, <3>2 DEF Launches
  <2> QED
    BY <2>1, <2>2
<1> QED
  BY <1>1, <1>4, <1>5, <1>6, <1>7 DEF TimelyInv

-----------------------------------------------------------------------------
(* Every action preserves TimelyInv.                                       *)

LEMMA UnaimedPlain ==
  ASSUME NEW p \in Unaimed
  PROVE  Plain([Idle EXCEPT !.pc = p]) /\ Plain(Idle)
BY DEF Unaimed, Idle, Plain, Posts, Polls

LEMMA DonePlain ==
  ASSUME QueueInv, NEW w \in Workers
  PROVE  Plain(Done(w)) /\ Done(w).pc \in Unaimed
<1>1. inv[w].then \in {"idle", "recheck", "pump"}
  BY DEF QueueInv, SnapshotInv, TypeOK, Invocation
<1>2. Done(w) = Idle \/ Done(w) = [Idle EXCEPT !.pc = inv[w].then]
  BY DEF Done
<1> QED
  BY <1>1, <1>2, UnaimedPlain, UnaimedOK DEF Unaimed

LEMMA TowardsPlain ==
  ASSUME QueueInv, NEW w \in Workers, NEW status, NEW stage
  PROVE  /\ Plain(Towards(w, status, stage))
         /\ Towards(w, status, stage).pc = "transition"
         /\ Towards(w, status, stage).id = inv[w].id
         /\ Towards(w, status, stage).row = inv[w].row
         /\ Towards(w, status, stage).to = status
         /\ Towards(w, status, stage).toStage = stage
<1>1. inv[w] \in Invocation
  BY DEF QueueInv, SnapshotInv, TypeOK
<1> QED
  BY <1>1 DEF Towards, Invocation, Plain, Posts, Polls

(* No lease has run out, so no launch is ever recovered.                   *)
LEMMA EnterStagePlain ==
  ASSUME QueueInv, NEW r \in Runs, ~aged[r], NEW then \in {"idle", "recheck", "pump"}
  PROVE  /\ Plain(EnterStage(r, then))
         /\ \/ EnterStage(r, then) = [Idle EXCEPT !.pc = then]
            \/ /\ rows[r].status # "launching"
               /\ \/ /\ EnterStage(r, then) = Snapshot(r, "start", then)
                     /\ Mode[r] = "find_sellers" /\ rows[r].stage = "discovering"
                  \/ /\ EnterStage(r, then) = Snapshot(r, "claimLaunch", then)
                     /\ ~(Mode[r] = "find_sellers" /\ rows[r].stage = "discovering")
<1>1. /\ Snapshot(r, "start", then).pc = "start"
      /\ Snapshot(r, "claimLaunch", then).pc = "claimLaunch"
  BY SnapshotShape DEF QueueInv, SnapshotInv, Points
<1> QED
  BY <1>1, UnaimedPlain DEF EnterStage, Plain, Posts, Polls, Unaimed

(* The row of a slot holder is polled by the job of its stage, which       *)
(* nobody is about to record any more.                                     *)
LEMMA TimelyAdvance ==
  ASSUME QueueInv, TimelyInv, NEW w \in Workers, NEW r \in Runs, HoldsSlot(r),
         NEW then \in {"idle", "recheck", "pump"}, Proceed(w, Advance(r, then)),
         inv[w].pc \in {"idle", "pump"}, UNCHANGED cloud
  PROVE  TimelyInv'
<1>1. SameTags /\ TagsGrow
  BY SameTagsGrow DEF SameTags, Accepted
<1>2. \A q \in Runs : ~Launches(inv[w], q)
  BY DEF Launches
<1>3. CASE rows[r].job = NoJob
  <2>1. Plain(Advance(r, then))
    BY <1>3, EnterStagePlain DEF Advance, TimelyInv
  <2> QED
    BY <1>1, <1>2, <2>1, TimelyPlain
<1>4. CASE rows[r].job # NoJob
  <2>1. PICK n : n = Advance(r, then)
    OBVIOUS
  <2>2. n.pc = "sync" /\ n.id = r /\ n.row = rows[r]
    BY <1>4, <2>1, SnapshotShape DEF Advance, QueueInv, SnapshotInv, Points
  <2>3. n.row.job \in Tagged(r, n.row.stage) /\ rows[r].status # "launching"
    BY <1>4, <2>2 DEF TimelyInv, RowTracked, HoldsSlot, QueueInv, SnapshotInv, RowOK
  <2>4. TimelySound(n)'
    BY <1>1, <2>2, <2>3, TaggedGrow DEF TimelySound, Posts, Polls
  <2>5. ASSUME NEW v \in Workers, At(v, "setJob")
        PROVE  inv[v].job # n.row.job
    <3>1. inv[v].job \in Tagged(inv[v].id, inv[v].row.stage)
      BY <2>5 DEF TimelyInv, TimelySound, At
    <3>2. inv[v].id # r
      BY <2>3, <2>5 DEF TimelyInv, TimelySound, At, Posts
    <3> QED
      BY <2>3, <3>1, <3>2 DEF Tagged
  <2>6. Proceed(w, n)
    BY <2>1
  <2> QED
    BY <1>1, <1>2, <2>2, <2>4, <2>5, <2>6, TimelyRead
<1> QED
  BY <1>3, <1>4

(* A queued run has been launched by nobody.                               *)
LEMMA WaitingUnposted ==
  ASSUME QueueInv, TimelyInv, NEW r \in Runs, rows[r].status \in Waiting
  PROVE  /\ \A s \in StageNames : ~Launched(r, s)
         /\ \A v \in Workers : Posts(inv[v]) => inv[v].id # r
<1>1. \A s \in StageNames : ~Launched(r, s) /\ \A w \in Workers : ~Posting(w, r, s)
  BY DEF QueueInv, LaunchInv, Due
<1>2. ASSUME NEW v \in Workers, Posts(inv[v]), inv[v].id = r PROVE FALSE
  <2>1. inv[v].row.stage \in StageNames
    BY DEF QueueInv, SnapshotInv, TypeOK, Invocation, Row
  <2>2. CASE inv[v].pc = "post"
    BY <1>1, <1>2, <2>1, <2>2 DEF Posting, At
  <2>3. CASE inv[v].pc = "setJob"
    BY <1>1, <1>2, <2>1, <2>3 DEF TimelyInv, TimelySound, Launched
  <2> QED
    BY <1>2, <2>2, <2>3 DEF Posts
<1> QED
  BY <1>1, <1>2

LEMMA TimelyInsert ==
  ASSUME QueueInv, TimelyInv, NEW w \in Workers, NEW r \in Runs, At(w, "idle"),
         Write(w, r, Queued, [Idle EXCEPT !.pc = "pump"]), UNCHANGED cloud
  PROVE  TimelyInv'
<1>1. ~Queued.slot /\ Queued.status = "queued"
  BY DEF Queued, NoRow
<1>2. [Idle EXCEPT !.pc = "pump"].pc = "pump"
  BY UnaimedOK DEF Unaimed
<1> QED
  BY <1>1, <1>2, TimelyWrite DEF RowTracked, Polls, At

(* The read-only steps of an invocation that launches nothing.             *)
LEMMA TimelyTowards ==
  ASSUME QueueInv, TimelyInv, NEW w \in Workers, NEW status, NEW stage,
         Proceed(w, Towards(w, status, stage)), TagsGrow
  PROVE  TimelyInv'
BY TowardsPlain, TimelyPlain DEF Launches

LEMMA TimelyDone ==
  ASSUME QueueInv, TimelyInv, NEW w \in Workers, NEW p \in Unaimed,
         Proceed(w, Done(w)) \/ Proceed(w, Idle) \/ Proceed(w, [Idle EXCEPT !.pc = p]),
         inv[w].pc \notin {"post", "setJob", "transition"}, UNCHANGED cloud
  PROVE  TimelyInv'
<1>1. TagsGrow /\ \A r \in Runs : ~Launches(inv[w], r)
  BY SameTagsGrow DEF SameTags, Accepted, Launches
<1>2. ASSUME NEW n, Plain(n), Proceed(w, n) PROVE TimelyInv'
  BY <1>1, <1>2, TimelyPlain
<1> QED
  BY <1>2, DonePlain, UnaimedPlain

LEMMA TimelyPump ==
  ASSUME QueueInv, TimelyInv, NEW w \in Workers, Pump(w)
  PROVE  TimelyInv'
<1>1. UNCHANGED cloud /\ inv[w].pc \in {"idle", "pump"}
  BY DEF Pump, At
<1>2. ASSUME NEW r \in Runs, HoldsSlot(r), Proceed(w, Advance(r, "recheck"))
      PROVE  TimelyInv'
  BY <1>1, <1>2, TimelyAdvance
<1>3. CASE Proceed(w, [Idle EXCEPT !.pc = "pick"])
  BY <1>1, <1>3, TimelyDone DEF Unaimed
<1> QED
  BY <1>2, <1>3 DEF Pump

LEMMA TimelyCancels ==
  ASSUME QueueInv, TimelyInv, NEW w \in Workers,
         (\E r \in Runs : Cancel(w, r)) \/ CancelTag(w) \/ CancelStop(w)
  PROVE  TimelyInv'
<1>1. ASSUME NEW r \in Runs, Cancel(w, r)
      PROVE  TimelyInv'
  <2> DEFINE read == Snapshot(r, "cancelTag", "pump")
             stop == [read EXCEPT !.pc = "cancelStop", !.job = rows[r].job]
             end  == [read EXCEPT !.pc = "transition", !.to = "cancelled", !.toStage = "cancelled"]
  <2>1. read \in Invocation /\ read.pc = "cancelTag"
    BY SnapshotShape DEF QueueInv, SnapshotInv, Points
  <2>2. Proceed(w, read) \/ Proceed(w, stop) \/ Proceed(w, end)
    BY <1>1 DEF Cancel
  <2> HIDE DEF read
  <2>3. Plain(read) /\ Plain(stop) /\ Plain(end)
    BY <2>1 DEF Plain, Posts, Polls, Invocation
  <2>4. TagsGrow /\ \A q \in Runs : ~Launches(inv[w], q)
    BY <1>1, SameTagsGrow DEF Cancel, SameTags, Accepted, Launches, At
  <2> QED
    BY <2>2, <2>3, <2>4, TimelyPlain
<1>2. CASE CancelTag(w)
  <2>1. TagsGrow /\ UNCHANGED cloud /\ inv[w].pc = "cancelTag"
    BY <1>2, SameTagsGrow DEF CancelTag, SameTags, Accepted, At
  <2>2. ASSUME NEW j \in Jobs, Proceed(w, [inv[w] EXCEPT !.pc = "cancelStop", !.job = j])
        PROVE  TimelyInv'
    <3>1. PICK n : n = [inv[w] EXCEPT !.pc = "cancelStop", !.job = j]
      OBVIOUS
    <3>2. n.pc = "cancelStop"
      BY <3>1 DEF QueueInv, SnapshotInv, TypeOK, Invocation
    <3>3. Plain(n)
      BY <3>2 DEF Plain, Posts, Polls
    <3> QED
      BY <2>1, <2>2, <3>1, <3>3, TimelyPlain DEF Launches
  <2>3. \/ Proceed(w, Idle) \/ Proceed(w, Towards(w, "cancelled", "cancelled"))
        \/ \E j \in Jobs : Proceed(w, [inv[w] EXCEPT !.pc = "cancelStop", !.job = j])
    BY <1>2 DEF CancelTag, Tagged
  <2> QED
    BY <2>1, <2>2, <2>3, TimelyTowards, TimelyDone DEF Unaimed
<1>3. CASE CancelStop(w)
  <2>1. SameTags /\ TagsGrow
    <3>1. UNCHANGED cloud \/ cloud' = Stopped(inv[w].job)
      BY <1>3 DEF CancelStop
    <3>2. SameTags
      BY <3>1 DEF SameTags, Stopped, Accepted, Live, Job, QueueInv, SnapshotInv, TypeOK
    <3> QED
      BY <3>2, SameTagsGrow
  <2>2. \A q \in Runs : ~Launches(inv[w], q)
    BY <1>3 DEF CancelStop, At, Launches
  <2>3. Plain(Idle)
    BY UnaimedPlain DEF Unaimed
  <2> QED
    BY <1>3, <2>1, <2>2, <2>3, TimelyPlain, TimelyTowards DEF CancelStop
<1> QED
  BY <1>1, <1>2, <1>3

LEMMA TimelyPick ==
  ASSUME QueueInv, TimelyInv, NEW w \in Workers, Pick(w) \/ Recheck(w)
  PROVE  TimelyInv'
<1>1. /\ UNCHANGED cloud /\ inv[w].pc \in {"pick", "recheck"} /\ TagsGrow
      /\ \A q \in Runs : ~Launches(inv[w], q)
  BY SameTagsGrow DEF Pick, Recheck, At, SameTags, Accepted, Launches
<1>2. ASSUME NEW r \in Runs,
             \/ Proceed(w, [Snapshot(r, "transition", "idle") EXCEPT
                              !.to = "cooldown", !.toStage = "cooldown"])
             \/ Proceed(w, Snapshot(r, "claim", "idle"))
      PROVE  TimelyInv'
  <2> DEFINE read == Snapshot(r, "transition", "idle")
             end  == [read EXCEPT !.to = "cooldown", !.toStage = "cooldown"]
             next == Snapshot(r, "claim", "idle")
  <2>1. read \in Invocation /\ read.pc = "transition" /\ next.pc = "claim"
    BY SnapshotShape DEF QueueInv, SnapshotInv, Points
  <2>2. Proceed(w, end) \/ Proceed(w, next)
    BY <1>2
  <2> HIDE DEF read, next
  <2>3. Plain(end) /\ Plain(next)
    BY <2>1 DEF Plain, Posts, Polls, Invocation
  <2> QED
    BY <1>1, <2>2, <2>3, TimelyPlain
<1>3. CASE Proceed(w, Idle) \/ Proceed(w, [Idle EXCEPT !.pc = "pick"])
  BY <1>1, <1>3, TimelyDone DEF Unaimed
<1> QED
  BY <1>2, <1>3 DEF Pick, Recheck

(* The unit is given to a run that nobody has launched a stage of.         *)
LEMMA TimelyClaim ==
  ASSUME QueueInv, TimelyInv, NEW w \in Workers, Claim(w)
  PROVE  TimelyInv'
<1> DEFINE r    == inv[w].id
           next == [inv[w] EXCEPT !.pc = "claimed"]
           new  == [rows[r] EXCEPT !.status = "starting", !.stage = StartStage(r), !.slot = TRUE]
<1>1. inv[w].pc = "claim" /\ r \in Runs /\ UNCHANGED cloud
  BY DEF Claim, At, QueueInv, SnapshotInv, InvocationOK
<1>2. next.pc = "claimed" /\ Plain(next)
  BY DEF QueueInv, SnapshotInv, TypeOK, Invocation, Plain, Posts, Polls
<1>3. CASE Claimable(r) /\ Write(w, r, new, next)
  <2>1. rows[r].status \in Waiting /\ rows[r] \in Row /\ RowOK(rows[r])
    BY <1>1, <1>3 DEF Claimable, Waiting, QueueInv, SnapshotInv, TypeOK
  <2>2. new.status = "starting" /\ new.job = NoJob
    BY <2>1 DEF Row, RowOK
  <2>3. \A v \in Workers : Posts(inv[v]) => inv[v].id # r
    BY <1>1, <2>1, WaitingUnposted
  <2> HIDE DEF new, next, r
  <2> QED
    BY <1>1, <1>2, <1>3, <2>2, <2>3, TimelyWrite DEF RowTracked, Plain, Polls
<1>4. CASE Proceed(w, next)
  <2>1. TagsGrow /\ \A q \in Runs : ~Launches(inv[w], q)
    BY <1>1, SameTagsGrow DEF SameTags, Accepted, Launches
  <2> HIDE DEF next
  <2> QED
    BY <1>2, <1>4, <2>1, TimelyPlain
<1> QED
  BY <1>3, <1>4 DEF Claim

LEMMA TimelyClaimed ==
  ASSUME QueueInv, TimelyInv, NEW w \in Workers, Claimed(w) \/ HandedOff(w)
  PROVE  TimelyInv'
<1>1. /\ UNCHANGED cloud /\ inv[w].pc \in {"claimed", "handedOff"} /\ TagsGrow
      /\ inv[w].id \in Runs /\ inv[w].then \in {"idle", "recheck", "pump"}
      /\ \A q \in Runs : ~Launches(inv[w], q)
  BY SameTagsGrow DEF Claimed, HandedOff, At, SameTags, Accepted, Launches, QueueInv,
     SnapshotInv, InvocationOK, TypeOK, Invocation
<1>2. ASSUME NEW then \in {"idle", "recheck", "pump"}, Proceed(w, EnterStage(inv[w].id, then))
      PROVE  TimelyInv'
  BY <1>1, <1>2, EnterStagePlain, TimelyPlain DEF TimelyInv
<1>3. CASE Proceed(w, Idle) \/ Proceed(w, Done(w))
  BY <1>1, <1>3, TimelyDone DEF Unaimed
<1> QED
  BY <1>1, <1>2, <1>3 DEF Claimed, HandedOff

LEMMA TimelyStart ==
  ASSUME QueueInv, TimelyInv, NEW w \in Workers, StartDiscovery(w)
  PROVE  TimelyInv'
<1> DEFINE next == [inv[w] EXCEPT !.pc = "claimLaunch"]
<1>1. TagsGrow /\ inv[w].pc = "start" /\ \A q \in Runs : ~Launches(inv[w], q)
  BY SameTagsGrow DEF StartDiscovery, At, SameTags, Accepted, Launches
<1>2. Plain(next)
  BY DEF QueueInv, SnapshotInv, TypeOK, Invocation, Plain, Posts, Polls
<1>3. Proceed(w, next) => TimelyInv'
  BY <1>1, <1>2, TimelyPlain
<1> QED
  BY <1>1, <1>3, TimelyTowards DEF StartDiscovery, ToCooldown

(* The row is not 'launching' before, so nobody else is at a launch.       *)
LEMMA TimelyClaimLaunch ==
  ASSUME QueueInv, TimelyInv, NEW w \in Workers, ClaimLaunch(w)
  PROVE  TimelyInv'
<1> DEFINE r    == inv[w].id
           new  == [rows[r] EXCEPT !.status = "launching"]
           next == [inv[w] EXCEPT !.pc = "post", !.row.status = "launching"]
<1>1. inv[w].pc = "claimLaunch" /\ UNCHANGED cloud
  BY DEF ClaimLaunch, At
<1>2. /\ r \in Runs /\ inv[w] \in Invocation /\ rows[r] \in Row /\ RowOK(rows[r])
      /\ inv[w].row.status # "launching"
  BY <1>1 DEF QueueInv, SnapshotInv, InvocationOK, TypeOK
<1>3. CASE Launchable(w) /\ Write(w, r, new, next)
  <2>1. /\ rows[r].slot /\ rows[r].job = NoJob /\ rows[r].status # "launching"
        /\ rows[r].stage = inv[w].row.stage
    BY <1>1, <1>2, <1>3 DEF Launchable, QueueInv, LaunchInv, Current
  <2>2. /\ new.status = "launching" /\ new.job = NoJob /\ new.stage = rows[r].stage
        /\ next.pc = "post" /\ next.id = r /\ next.row.stage = inv[w].row.stage
    BY <1>2, <2>1 DEF Row, Invocation
  <2>3. \A v \in Workers : Posts(inv[v]) => inv[v].id # r
    BY <2>1 DEF TimelyInv, TimelySound, HoldsSlot
  <2> HIDE DEF new, next, r
  <2> QED
    BY <1>1, <1>2, <1>3, <2>1, <2>2, <2>3, TimelyWrite DEF RowTracked, Polls, Launches
<1>4. CASE Proceed(w, Done(w))
  BY <1>1, <1>4, TimelyDone DEF Unaimed
<1> QED
  BY <1>3, <1>4 DEF ClaimLaunch

(* The job that is accepted is new: nobody records or polls it.            *)
LEMMA TimelyPost ==
  ASSUME Timely, QueueInv, TimelyInv, NEW w \in Workers, Post(w)
  PROVE  TimelyInv'
<1>1. inv[w].pc = "post" /\ inv[w] \in Invocation
  BY DEF Post, At, QueueInv, SnapshotInv, TypeOK
<1>2. ASSUME NEW j \in Jobs, Accept(w, j), Proceed(w, [inv[w] EXCEPT !.pc = "setJob", !.job = j])
      PROVE  TimelyInv'
  <2>1. PICK n : n = [inv[w] EXCEPT !.pc = "setJob", !.job = j]
    OBVIOUS
  <2>2. n.pc = "setJob" /\ n.job = j /\ n.id = inv[w].id /\ n.row = inv[w].row
    BY <1>1, <2>1 DEF Invocation
  <2>3. /\ UNCHANGED <<rows, aged>>
        /\ \A v \in Workers : inv'[v] = IF v = w THEN n ELSE inv[v]
    BY <1>2, <2>1 DEF Proceed, QueueInv, SnapshotInv, TypeOK
  <2>4. /\ ~Accepted(j)
        /\ cloud'[j] = [run |-> inv[w].id, stage |-> inv[w].row.stage,
                        state |-> "live", close |-> "none"]
        /\ \A k \in Jobs \ {j} : cloud'[k] = cloud[k]
    BY <1>2 DEF Accept, Accepted, QueueInv, SnapshotInv, TypeOK
  <2>5. TagsGrow /\ j \in Tagged(n.id, n.row.stage)'
    BY <2>2, <2>4 DEF TagsGrow, Tagged, Accepted
  <2>6. \A r \in Runs : RowTracked(rows[r], r)'
    BY <2>3, <2>5, TaggedGrow DEF TimelyInv, RowTracked
  <2>7. ASSUME NEW v \in Workers PROVE TimelySound(inv[v])'
    <3>1. PICK i : i = inv'[v] /\ (v # w => i = inv[v]) /\ (v = w => i = n)
      BY <2>3
    <3>2. CASE v = w
      <4>1. HoldsSlot(inv[w].id) =>
              rows[inv[w].id].status = "launching" /\ rows[inv[w].id].stage = inv[w].row.stage
        BY <1>1 DEF TimelyInv, TimelySound, Posts
      <4>2. TimelySound(n)'
        BY <2>2, <2>3, <2>5, <4>1 DEF TimelySound, Posts, Polls, HoldsSlot
      <4> QED
        BY <3>1, <3>2, <4>2
    <3>3. CASE v # w
      <4>1. TimelySound(i)
        BY <3>1, <3>3 DEF TimelyInv
      <4>2. TimelySound(i)'
        BY <2>3, <2>5, <4>1, TaggedGrow DEF TimelySound, HoldsSlot
      <4> QED
        BY <3>1, <4>2
    <3> QED
      BY <3>2, <3>3
  <2>8. \A v \in Workers : /\ At(v, "setJob") => inv[v].job # j
                           /\ Polls(inv[v]) => inv[v].row.job # j
    BY <2>4 DEF TimelyInv, TimelySound, At, Tagged
  <2>9. Recorded'
    BY <2>2, <2>3, <2>8 DEF TimelyInv, Recorded, At, Polls
  <2>10. ASSUME NEW r \in Runs, rows'[r].status = "launching"
         PROVE  \E v \in Workers : Launches(inv'[v], r)
    BY <1>1, <2>2, <2>3, <2>10 DEF TimelyInv, Launches
  <2> QED
    BY <2>3, <2>6, <2>7, <2>9, <2>10 DEF TimelyInv
<1>3. CASE Proceed(w, LaunchFailed(w)) /\ UNCHANGED cloud
  <2>1. TagsGrow
    BY <1>3, SameTagsGrow DEF SameTags, Accepted
  <2> QED
    BY <1>3, <2>1, TimelyTowards DEF LaunchFailed
<1> QED
  BY <1>2, <1>3 DEF Post, Timely

(* No two launchers are at the same stage: one would have found the job    *)
(* of the other.                                                           *)
LEMMA OneRecorder ==
  ASSUME QueueInv, TimelyInv, NEW r \in Runs, NEW j \in Tagged(r, rows[r].stage), HoldsSlot(r),
         NEW v \in Workers, Posts(inv[v]), inv[v].id = r
  PROVE  At(v, "setJob") /\ inv[v].job = j
<1>1. inv[v].row.stage = rows[r].stage
  BY DEF TimelyInv, TimelySound
<1>2. Launched(r, rows[r].stage)
  BY DEF Launched
<1>3. inv[v].pc = "setJob"
  BY <1>1, <1>2 DEF QueueInv, LaunchInv, At, Posts
<1>4. inv[v].job \in Tagged(r, rows[r].stage)
  BY <1>1, <1>3 DEF TimelyInv, TimelySound
<1> QED
  BY <1>3, <1>4 DEF QueueInv, LaunchInv, LaunchOnce, Tagged, At

LEMMA TimelySetJob ==
  ASSUME Timely, QueueInv, TimelyInv, NEW w \in Workers, SetJob(w)
  PROVE  TimelyInv'
<1> DEFINE r   == inv[w].id
           new == Tracked(rows[r], inv[w].job)
<1>1. inv[w].pc = "setJob" /\ r \in Runs /\ inv[w].job \in Jobs
  BY DEF SetJob, At, QueueInv, SnapshotInv, InvocationOK
<1>2. UNCHANGED cloud /\ Write(w, r, new, Done(w))
  BY DEF SetJob, Timely
<1>3. /\ new.status = "running" /\ new.job = inv[w].job
      /\ new.slot = rows[r].slot /\ new.stage = rows[r].stage
  BY <1>1 DEF Tracked, Row, QueueInv, SnapshotInv, TypeOK
<1>4. HoldsSlot(r) => inv[w].job \in Tagged(r, rows[r].stage)
  BY <1>1 DEF TimelyInv, TimelySound, Posts
<1>5. \A v \in Workers \ {w} : new.slot /\ Posts(inv[v]) => inv[v].id # r
  BY <1>1, <1>3, <1>4, OneRecorder DEF HoldsSlot, TimelyInv, Recorded, At
<1>6. RowTracked(new, r)
  BY <1>3, <1>4 DEF RowTracked, HoldsSlot
<1> HIDE DEF new, r
<1>7. Done(w).pc \in Unaimed
  BY DonePlain
<1> QED
  BY <1>1, <1>2, <1>3, <1>5, <1>6, <1>7, TimelyWrite DEF Polls, Unaimed, r

(* A transition releases the unit.                                         *)
LEMMA TimelyTransition ==
  ASSUME QueueInv, TimelyInv, NEW w \in Workers, Transition(w)
  PROVE  TimelyInv'
<1> DEFINE r   == inv[w].id
           new == [rows[r] EXCEPT !.status = inv[w].to, !.stage = inv[w].toStage,
                                  !.slot = SlotAfter(w)]
<1>1. r \in Runs /\ inv[w].to \in Terminal /\ UNCHANGED cloud /\ Write(w, r, new, Done(w))
  BY DEF Transition, At, QueueInv, SnapshotInv, InvocationOK
<1>2. ~new.slot /\ new.status # "launching"
  BY <1>1 DEF SlotAfter, QueueInv, SnapshotInv, TypeOK, Row, Terminal
<1>3. Done(w).pc \in Unaimed
  BY DonePlain
<1> HIDE DEF new
<1> QED
  BY <1>1, <1>2, <1>3, TimelyWrite DEF Polls, Unaimed, RowTracked

(* An invocation that polls goes on with the same snapshot.                *)
LEMMA TimelyPolled ==
  ASSUME QueueInv, TimelyInv, NEW w \in Workers, SyncActive(w) \/ ReadOutcome(w)
  PROVE  TimelyInv'
<1>1. /\ UNCHANGED cloud /\ Polls(inv[w]) /\ TagsGrow /\ inv[w] \in Invocation
      /\ inv[w].pc \in {"sync", "outcome"} /\ \A q \in Runs : ~Launches(inv[w], q)
  BY SameTagsGrow DEF SyncActive, ReadOutcome, At, Polls, SameTags, Accepted, Launches,
     QueueInv, SnapshotInv, TypeOK
<1>2. ASSUME NEW n, Proceed(w, n), Polls(n), n.row = inv[w].row, n.id = inv[w].id
      PROVE  TimelyInv'
  <2>1. n.row.job \in Tagged(n.id, n.row.stage)
    BY <1>1, <1>2 DEF TimelyInv, TimelySound
  <2>2. TimelySound(n)'
    BY <1>1, <1>2, <2>1, TaggedGrow DEF TimelySound, Posts, Polls
  <2>3. \A v \in Workers : At(v, "setJob") => inv[v].job # n.row.job
    BY <1>1, <1>2 DEF TimelyInv, Recorded
  <2> QED
    BY <1>1, <1>2, <2>2, <2>3, TimelyRead DEF Polls
<1>3. ASSUME Proceed(w, [inv[w] EXCEPT !.pc = "outcome"])
      PROVE  TimelyInv'
  <2>1. PICK n : n = [inv[w] EXCEPT !.pc = "outcome"]
    OBVIOUS
  <2> QED
    BY <1>1, <1>2, <1>3, <2>1 DEF Invocation, Polls
<1>4. ASSUME NEW s, Proceed(w, [inv[w] EXCEPT !.pc = "handoff", !.toStage = s])
      PROVE  TimelyInv'
  <2>1. PICK n : n = [inv[w] EXCEPT !.pc = "handoff", !.toStage = s]
    OBVIOUS
  <2> QED
    BY <1>1, <1>2, <1>4, <2>1 DEF Invocation, Polls
<1>5. Proceed(w, Done(w)) => TimelyInv'
  BY <1>1, TimelyDone DEF Unaimed
<1>6. ASSUME NEW status, NEW stage, Proceed(w, Towards(w, status, stage))
      PROVE  TimelyInv'
  BY <1>1, <1>6, TimelyTowards
<1> QED
  BY <1>3, <1>4, <1>5, <1>6 DEF SyncActive, ReadOutcome

(* A stage that is handed on has been launched and recorded, so nobody is  *)
(* at its launch.                                                          *)
LEMMA TimelyHandoff ==
  ASSUME QueueInv, TimelyInv, NEW w \in Workers, Handoff(w)
  PROVE  TimelyInv'
<1> DEFINE r    == inv[w].id
           s    == inv[w].toStage
           new  == HandedTo(rows[r], s)
           next == [inv[w] EXCEPT !.pc = "handedOff"]
<1>1. /\ inv[w].pc = "handoff" /\ r \in Runs /\ s \in After(inv[w].row.stage)
      /\ inv[w] \in Invocation /\ UNCHANGED cloud
  BY DEF Handoff, At, QueueInv, SnapshotInv, InvocationOK, TypeOK
<1>2. next.pc = "handedOff"
  BY <1>1 DEF Invocation
<1>3. CASE rows[r].stage = inv[w].row.stage /\ Write(w, r, new, next)
  <2>1. /\ new.status = s /\ new.job = NoJob /\ new.slot = rows[r].slot /\ s # "launching"
    BY <1>1 DEF HandedTo, Row, QueueInv, SnapshotInv, TypeOK, After
  <2>2. inv[w].row.job \in Tagged(r, rows[r].stage)
    BY <1>1, <1>3 DEF TimelyInv, TimelySound, Polls
  <2>3. \A v \in Workers : HoldsSlot(r) /\ Posts(inv[v]) => inv[v].id # r
    BY <1>1, <2>2, OneRecorder DEF TimelyInv, Recorded, Polls
  <2> HIDE DEF new, next, s, r
  <2> QED
    BY <1>1, <1>2, <1>3, <2>1, <2>3, TimelyWrite DEF Polls, RowTracked, HoldsSlot
<1>4. CASE Proceed(w, Done(w))
  BY <1>1, <1>4, TimelyDone DEF Unaimed
<1> QED
  BY <1>3, <1>4 DEF Handoff

(* An ended invocation is not there under the hypotheses, nor is one that  *)
(* recovers a launch.                                                      *)
LEMMA TimelyNever ==
  ASSUME Timely, QueueInv, TimelyInv, NEW w \in Workers
  PROVE  ~Crash(w) /\ ~Recover(w) /\ ~RecoverSet(w)
<1>1. ~Crash(w)
  BY DEF Crash, Timely, QueueInv, SnapshotInv, TypeOK
<1>2. ~Recover(w) /\ ~RecoverSet(w)
  BY DEF Recover, RecoverSet, At, TimelyInv, TimelySound
<1> QED
  BY <1>1, <1>2

(* The lease of a row in 'launching' does not run out while its launcher   *)
(* is at work.                                                             *)
LEMMA LeaseKept ==
  ASSUME Timely, QueueInv, TimelyInv, NEW r \in Runs
  PROVE  ~LeaseExpires(r)
BY DEF LeaseExpires, Timely, TimelyInv, Launches

(* Steps that leave all of it alone, except what does not matter to it.    *)
LEMMA TimelyOutside ==
  ASSUME QueueInv, TimelyInv, SameTags,
         \A r \in Runs : /\ rows'[r].stage = rows[r].stage /\ rows'[r].slot = rows[r].slot
                         /\ rows'[r].job = rows[r].job
                         /\ rows'[r].status = "launching" <=> rows[r].status = "launching"
                         /\ aged'[r] => aged[r],
         \A v \in Workers : /\ inv'[v].pc = inv[v].pc /\ inv'[v].id = inv[v].id
                            /\ inv'[v].row = inv[v].row /\ inv'[v].job = inv[v].job
  PROVE  TimelyInv'
<1>1. ASSUME NEW r, NEW s PROVE Tagged(r, s)' = Tagged(r, s)
  BY DEF Tagged, SameTags
<1>2. \A r \in Runs : RowTracked(rows[r], r)'
  BY <1>1 DEF TimelyInv, RowTracked
<1>3. ASSUME NEW v \in Workers PROVE TimelySound(inv[v])'
  <2>1. TimelySound(inv[v]) /\ (Posts(inv[v]) => inv[v].id \in Runs)
    BY DEF TimelyInv, QueueInv, SnapshotInv, InvocationOK, Posts
  <2> QED
    BY <1>1, <2>1 DEF TimelySound, Posts, Polls, HoldsSlot
<1>4. Recorded'
  BY DEF TimelyInv, Recorded, At, Polls
<1>5. \A r \in Runs : rows'[r].status = "launching" => \E w \in Workers : Launches(inv'[w], r)
  BY DEF TimelyInv, Launches
<1>6. \A r \in Runs : ~aged'[r]
  BY DEF TimelyInv
<1> QED
  BY <1>2, <1>3, <1>4, <1>5, <1>6 DEF TimelyInv

(* What the ingestion of a batch leaves alone.                             *)
LEMMA IngestionShape ==
  ASSUME QueueInv, NEW j \in Jobs, RecordIngestion(j)
  PROVE  /\ SameTags /\ UNCHANGED <<cloud, chilled>>
         /\ \A r \in Runs :
              /\ rows'[r].stage = rows[r].stage /\ rows'[r].slot = rows[r].slot
              /\ rows'[r].job = rows[r].job
              /\ \/ rows'[r].status = rows[r].status
                 \/ rows[r].status = "running" /\ rows'[r].status = "ingesting"
              /\ aged'[r] => aged[r]
         /\ \A v \in Workers : /\ inv'[v].pc = inv[v].pc /\ inv'[v].id = inv[v].id
                               /\ inv'[v].row = inv[v].row /\ inv'[v].job = inv[v].job
                               /\ inv'[v].to = inv[v].to /\ inv'[v].toStage = inv[v].toStage
<1> DEFINE r   == cloud[j].run
           new == IF rows[r].status = "running" THEN "ingesting" ELSE rows[r].status
<1>1. /\ rows' = [rows EXCEPT ![r].status = new]
      /\ aged' = [aged EXCEPT ![r] = FALSE]
      /\ inv' = Outdated(r)
      /\ UNCHANGED <<cloud, chilled>>
  BY DEF RecordIngestion
<1>2. rows \in [Runs -> Row] /\ aged \in [Runs -> BOOLEAN] /\ inv \in [Workers -> Invocation]
  BY DEF QueueInv, SnapshotInv, TypeOK
<1>3. \A q \in Runs :
        /\ rows'[q].stage = rows[q].stage /\ rows'[q].slot = rows[q].slot
        /\ rows'[q].job = rows[q].job
        /\ \/ rows'[q].status = rows[q].status
           \/ rows[q].status = "running" /\ rows'[q].status = "ingesting"
        /\ aged'[q] => aged[q]
  BY <1>1, <1>2 DEF Row
<1>4. \A v \in Workers :
        inv'[v] = IF inv[v].id = r THEN [inv[v] EXCEPT !.fresh = FALSE] ELSE inv[v]
  BY <1>1, <1>2 DEF Outdated
<1>5. SameTags
  BY <1>1 DEF SameTags, Accepted
<1>6. ASSUME NEW v \in Workers
      PROVE  /\ inv'[v].pc = inv[v].pc /\ inv'[v].id = inv[v].id
             /\ inv'[v].row = inv[v].row /\ inv'[v].job = inv[v].job
             /\ inv'[v].to = inv[v].to /\ inv'[v].toStage = inv[v].toStage
  <2>1. CASE inv[v].id = r
    <3>1. inv'[v] = [inv[v] EXCEPT !.fresh = FALSE] /\ inv[v] \in Invocation
      BY <1>2, <1>4, <2>1
    <3> QED
      BY <3>1, StaleShape
  <2>2. CASE inv[v].id # r
    BY <1>4, <2>2
  <2> QED
    BY <2>1, <2>2
<1> HIDE DEF new, r
<1> QED
  BY <1>1, <1>3, <1>5, <1>6

LEMMA TimelyIngestion ==
  ASSUME QueueInv, TimelyInv, NEW j \in Jobs, RecordIngestion(j)
  PROVE  TimelyInv'
<1>1. \A r \in Runs : rows'[r].status = "launching" <=> rows[r].status = "launching"
  BY IngestionShape
<1> QED
  BY <1>1, IngestionShape, TimelyOutside

LEMMA TimelyInvInit == Init => TimelyInv
<1> SUFFICES ASSUME Init PROVE TimelyInv
  OBVIOUS
<1>1. NoRow.status # "launching" /\ ~NoRow.slot
  BY DEF NoRow
<1>2. Plain(Idle) /\ Idle.pc = "idle"
  BY UnaimedPlain, UnaimedOK DEF Unaimed
<1>3. Recorded
  BY <1>2 DEF Init, Recorded, At
<1>4. \A w \in Workers : TimelySound(inv[w])
  BY <1>2 DEF Init, TimelySound, Plain
<1> QED
  BY <1>1, <1>3, <1>4 DEF Init, TimelyInv, RowTracked

LEMMA TimelyInvStep ==
  ASSUME Timely, QueueInv, TimelyInv, [Next]_vars
  PROVE  TimelyInv'
<1>1. ASSUME NEW w \in Workers, Continue(w) PROVE TimelyInv'
  BY <1>1, TimelyPump, TimelyPick, TimelyClaim, TimelyClaimed, TimelyStart, TimelyClaimLaunch,
     TimelyPost, TimelySetJob, TimelyPolled, TimelyTransition, TimelyHandoff, TimelyCancels,
     TimelyNever
  DEF Continue
<1>2. ASSUME NEW w \in Workers, Tick(w) PROVE TimelyInv'
  BY <1>2, TimelyPump DEF Tick
<1>3. ASSUME NEW w \in Workers, Request(w) PROVE TimelyInv'
  <2>1. ASSUME NEW r \in Runs, Detail(w, r) PROVE TimelyInv'
    BY <2>1, TimelyAdvance DEF Detail, At
  <2>2. ASSUME NEW r \in Runs, Create(w, r) \/ \E src \in Runs : Retry(w, src, r)
        PROVE  TimelyInv'
    BY <2>2, TimelyInsert DEF Create, Retry
  <2> QED
    BY <1>3, <2>1, <2>2, TimelyCancels DEF Request
<1>4. ASSUME NEW j \in Jobs, JobFinishes(j) PROVE TimelyInv'
  <2>1. UNCHANGED <<rows, aged, inv>> /\ SameTags
    BY <1>4, JobKeepsTags DEF JobFinishes
  <2> QED
    BY <2>1, TimelyOutside
<1>5. CASE CooldownExpires \/ (\E r \in Runs : SellersChange(r)) \/ UNCHANGED vars
  <2>1. UNCHANGED <<rows, aged, inv, cloud>>
    BY <1>5 DEF CooldownExpires, SellersChange, vars
  <2>2. SameTags
    BY <2>1 DEF SameTags, Accepted
  <2> QED
    BY <2>1, <2>2, TimelyOutside
<1> QED
  BY <1>1, <1>2, <1>3, <1>4, <1>5, TimelyNever, TimelyIngestion, LeaseKept DEF Next, JobStep

(***************************************************************************)
(* The job a slot holder is polled by is the one of its current stage, so  *)
(* that the result of one stage is never taken for that of the next, even  *)
(* if the operator cancels at any moment: provided that every launch runs  *)
(* to its end within its lease and hears what Scrapy Cloud has answered.   *)
(***************************************************************************)
THEOREM PolledJobIsOfStage == Timely => (Spec => []TrackedJobOfStage)
<1> SUFFICES ASSUME Timely PROVE Spec => []TrackedJobOfStage
  OBVIOUS
<1>1. Init => TimelyInv
  BY TimelyInvInit
<1>2. QueueInv /\ TimelyInv /\ [Next]_vars => TimelyInv'
  BY TimelyInvStep
<1>3. TimelyInv => TrackedJobOfStage
  BY DEF TimelyInv, RowTracked, Tagged, TrackedJobOfStage, HoldsSlot
<1> QED
  BY <1>1, <1>2, <1>3, QueueInvHolds, PTL DEF Spec

-----------------------------------------------------------------------------
(* A run that has ended is not brought back.                               *)

RunsEndOnce == \A r \in Runs : rows[r].status \in Terminal => rows'[r].status \in Terminal

LEMMA WriteMoves ==
  ASSUME QueueInv, NEW w \in Workers, NEW r \in Runs, NEW new, NEW n, Write(w, r, new, n),
         rows[r].status \in Terminal => new.status \in Terminal
  PROVE  RunsEndOnce
<1>1. \A q \in Runs : rows'[q] = IF q = r THEN new ELSE rows[q]
  BY DEF Write, QueueInv, SnapshotInv, TypeOK
<1> QED
  BY <1>1 DEF RunsEndOnce

-----------------------------------------------------------------------------
(* The cooldown of a marketplace, and the runs it chills.                  *)

(* What an invocation has in hand has not been chilled since it looked: a  *)
(* queued run it is about to claim, a discovery it is about to launch.     *)
Unchilled(i) ==
  /\ i.pc = "claim" => rows[i.id].status # "absent"
  /\ i.pc = "claim" /\ rows[i.id].status = "queued" => i.id \notin chilled
  /\ i.pc \in {"start", "claimLaunch", "post"} /\ i.row.stage = "discovering" =>
       rows[i.id].status \notin Waiting
  /\ i.pc \in {"claimLaunch", "post"} /\ i.row.stage = "discovering" => i.id \notin chilled
  /\ i.pc = "handedOff" => i.toStage # "discovering"

ChilledInv ==
  /\ chilled # {} => cooling
  /\ \A r \in chilled : Mode[r] = "find_sellers"
  /\ \A w \in Workers : Unchilled(inv[w])

(* No chilled run is given the unit, or gets a job that crawls Amazon.     *)
UnitKept == \A r \in chilled : HoldsSlot(r)' => HoldsSlot(r)

NoneStarted ==
  \A r \in chilled : \A j \in Jobs : Accepted(j)' /\ ~Accepted(j) =>
    <<cloud'[j].run, cloud'[j].stage>> # <<r, "discovering">>

Honours == ChilledInv' /\ UnitKept /\ NoneStarted

(* The points at which an invocation has nothing in hand.                  *)
Handy == {"claim", "start", "claimLaunch", "post", "handedOff"}

LEMMA EmptyHanded ==
  ASSUME NEW i, i.pc \notin Handy
  PROVE  Unchilled(i)
BY DEF Unchilled, Handy

(* A step that writes no row.                                              *)
LEMMA ChillRead ==
  ASSUME QueueInv, ChilledInv, NEW w \in Workers, NEW n, Proceed(w, n), Unchilled(n),
         UNCHANGED <<cooling, chilled>>
  PROVE  ChilledInv' /\ UnitKept
<1>1. UNCHANGED rows /\ \A v \in Workers : inv'[v] = IF v = w THEN n ELSE inv[v]
  BY DEF Proceed, QueueInv, SnapshotInv, TypeOK
<1>2. ASSUME NEW v \in Workers PROVE Unchilled(inv[v])'
  <2>1. Unchilled(inv'[v])
    BY <1>1 DEF ChilledInv
  <2> QED
    BY <1>1, <2>1 DEF Unchilled
<1> QED
  BY <1>1, <1>2 DEF ChilledInv, UnitKept, HoldsSlot

(* A write that brings a run further: it chills no run but one that was    *)
(* waiting, and gives the unit to no chilled one.                          *)
LEMMA ChillWrite ==
  ASSUME QueueInv, ChilledInv, NEW w \in Workers, NEW r \in Runs, NEW new, NEW n,
         Write(w, r, new, n), n.pc \notin Handy \ {"handedOff"},
         n.pc = "handedOff" => n.toStage # "discovering",
         new.status \notin Waiting,
         new.slot => rows[r].slot \/ r \notin chilled,
         UNCHANGED cooling,
         UNCHANGED chilled \/ (rows[r].status = "queued" /\ Chill(r))
  PROVE  ChilledInv' /\ UnitKept
<1>1. /\ \A q \in Runs : rows'[q] = IF q = r THEN new ELSE rows[q]
      /\ \A v \in Workers :
           inv'[v] = IF v = w THEN n
                     ELSE IF inv[v].id = r THEN [inv[v] EXCEPT !.fresh = FALSE] ELSE inv[v]
      /\ \A v \in Workers : inv[v] \in Invocation /\ InvocationOK(inv[v])
      /\ chilled \subseteq Runs
  BY DEF Write, Outdated, QueueInv, SnapshotInv, TypeOK
<1>2. /\ chilled' # {} => cooling'
      /\ \A q \in chilled' : Mode[q] = "find_sellers"
      /\ \A q : q \in chilled' => q \in chilled \/ (q = r /\ rows[r].status = "queued")
  BY DEF Chill, ChilledInv
<1>3. ASSUME NEW v \in Workers PROVE Unchilled(inv[v])'
  <2>1. CASE v = w
    BY <1>1, <2>1 DEF Unchilled, Handy
  <2>2. CASE v # w
    <3>1. /\ inv'[v].pc = inv[v].pc /\ inv'[v].id = inv[v].id /\ inv'[v].row = inv[v].row
          /\ inv'[v].toStage = inv[v].toStage
      BY <1>1, <2>2, StaleShape
    <3>2. Unchilled(inv[v])
      BY DEF ChilledInv
    <3>3. inv[v].pc \in Handy => inv[v].id \in Runs
      BY <1>1 DEF InvocationOK, Handy
    <3>4. CASE inv[v].id = r
      BY <1>1, <1>2, <3>1, <3>2, <3>4 DEF Unchilled, Waiting
    <3>5. CASE inv[v].id # r
      BY <1>1, <1>2, <3>1, <3>2, <3>3, <3>5 DEF Unchilled, Handy
    <3> QED
      BY <3>4, <3>5
  <2> QED
    BY <2>1, <2>2
<1>4. UnitKept
  BY <1>1 DEF UnitKept, HoldsSlot
<1> QED
  BY <1>2, <1>3, <1>4 DEF ChilledInv

(* A run that is queued anew.                                              *)
LEMMA ChillInsert ==
  ASSUME QueueInv, ChilledInv, NEW w \in Workers, NEW r \in Runs,
         Create(w, r) \/ \E src \in Runs : Retry(w, src, r)
  PROVE  ChilledInv' /\ UnitKept
<1>1. /\ UNCHANGED cooling /\ Chill(r) /\ rows[r].status = "absent"
      /\ Write(w, r, Queued, [Idle EXCEPT !.pc = "pump"])
  BY DEF Create, Retry
<1>2. PICK n : n = [Idle EXCEPT !.pc = "pump"]
  OBVIOUS
<1>3. n.pc = "pump" /\ Queued.status = "queued" /\ ~Queued.slot
  BY <1>2 DEF Idle, Queued, NoRow
<1>4. /\ \A q \in Runs : rows'[q] = IF q = r THEN Queued ELSE rows[q]
      /\ \A v \in Workers :
           inv'[v] = IF v = w THEN n
                     ELSE IF inv[v].id = r THEN [inv[v] EXCEPT !.fresh = FALSE] ELSE inv[v]
      /\ \A v \in Workers : inv[v] \in Invocation /\ InvocationOK(inv[v])
  BY <1>1, <1>2 DEF Write, Outdated, QueueInv, SnapshotInv, TypeOK
<1>5. /\ chilled' # {} => cooling'
      /\ \A q \in chilled' : Mode[q] = "find_sellers"
      /\ \A q : q \in chilled' => q \in chilled \/ q = r
  BY <1>1 DEF Chill, ChilledInv
<1>6. ASSUME NEW v \in Workers PROVE Unchilled(inv[v])'
  <2>1. CASE v = w
    BY <1>3, <1>4, <2>1 DEF Unchilled
  <2>2. CASE v # w
    <3>1. /\ inv'[v].pc = inv[v].pc /\ inv'[v].id = inv[v].id /\ inv'[v].row = inv[v].row
          /\ inv'[v].toStage = inv[v].toStage
      BY <1>4, <2>2, StaleShape
    <3>2. Unchilled(inv[v])
      BY DEF ChilledInv
    <3>3. inv[v].pc \in Handy => inv[v].id \in Runs
      BY <1>4 DEF InvocationOK, Handy
    <3>4. inv'[v].pc = "claim" => inv[v].id # r
      BY <1>1, <3>1, <3>2 DEF Unchilled
    <3>5. CASE inv[v].id = r /\ inv[v].pc \in {"start", "claimLaunch", "post"}
      <4>1. inv[v].row.stage # "discovering"
        BY <1>1, <3>2, <3>5 DEF Unchilled, Waiting
      <4> QED
        BY <3>1, <3>5, <4>1 DEF Unchilled
    <3>6. CASE inv[v].id # r
      BY <1>4, <1>5, <3>1, <3>2, <3>3, <3>6 DEF Unchilled, Handy
    <3>7. CASE inv[v].pc \notin {"claim", "start", "claimLaunch", "post"}
      BY <3>1, <3>2, <3>7 DEF Unchilled
    <3> QED
      BY <3>1, <3>4, <3>5, <3>6, <3>7
  <2> QED
    BY <2>1, <2>2
<1>7. UnitKept
  BY <1>3, <1>4 DEF UnitKept, HoldsSlot, ChilledInv, QueueInv, SnapshotInv, TypeOK
<1> QED
  BY <1>5, <1>6, <1>7 DEF ChilledInv

(* Where startActiveStage and syncActive begin: with a discovery only for  *)
(* a run that holds the unit, and then at the look at the cooldown.        *)
LEMMA EnterUnchilled ==
  ASSUME QueueInv, ChilledInv, NEW r \in Runs, NEW then \in {"idle", "recheck", "pump"},
         HoldsSlot(r) \/ rows[r].stage # "discovering"
  PROVE  Unchilled(EnterStage(r, then)) /\ Unchilled(Advance(r, then))
<1>1. ASSUME NEW p \in {"recover", "start", "claimLaunch", "sync"}
      PROVE  /\ Snapshot(r, p, then).pc = p /\ Snapshot(r, p, then).id = r
             /\ Snapshot(r, p, then).row = rows[r]
  BY SnapshotShape DEF QueueInv, SnapshotInv, Points
<1>2. [Idle EXCEPT !.pc = then].pc \notin Handy
  BY DEF Idle, Handy
<1>3. HoldsSlot(r) => rows[r].status \notin Waiting
  BY DEF HoldsSlot, QueueInv, SnapshotInv, RowOK
<1>4. ASSUME NEW p \in {"recover", "sync"} PROVE Unchilled(Snapshot(r, p, then))
  BY <1>1, <1>4, EmptyHanded DEF Handy
<1>5. Unchilled(Snapshot(r, "start", then))
  BY <1>1, <1>3 DEF Unchilled
<1>6. CASE Mode[r] = "find_sellers" /\ rows[r].stage = "discovering"
  BY <1>2, <1>4, <1>5, <1>6, EmptyHanded DEF EnterStage, Advance
<1>7. CASE ~(Mode[r] = "find_sellers" /\ rows[r].stage = "discovering")
  <2>1. Unchilled(Snapshot(r, "claimLaunch", then))
    BY <1>1, <1>3, <1>7 DEF Unchilled, ChilledInv
  <2> QED
    BY <1>2, <1>4, <1>5, <2>1, EmptyHanded DEF EnterStage, Advance
<1> QED
  BY <1>6, <1>7

(* A step that accepts no job starts no crawl.                             *)
LEMMA NoJobAccepted ==
  ASSUME \A j \in Jobs : Accepted(j)' => Accepted(j)
  PROVE  NoneStarted
BY DEF NoneStarted

LEMMA CloudKept ==
  ASSUME UNCHANGED cloud
  PROVE  NoneStarted
BY NoJobAccepted DEF Accepted

(* The one step that picks a run reads the cooldown with it.               *)
LEMMA ChillPick ==
  ASSUME QueueInv, ChilledInv, NEW w \in Workers, Pick(w)
  PROVE  Honours
<1>1. UNCHANGED <<cooling, chilled>> /\ NoneStarted
  BY CloudKept DEF Pick
<1>2. CASE Proceed(w, Idle)
  BY <1>1, <1>2, ChillRead, EmptyHanded, UnaimedOK DEF Unaimed, Handy, Honours
<1>3. ASSUME NEW r \in Runs,
             Proceed(w, [Snapshot(r, "transition", "idle") EXCEPT
                           !.to = "cooldown", !.toStage = "cooldown"])
      PROVE  Honours
  <2>1. [Snapshot(r, "transition", "idle") EXCEPT !.to = "cooldown", !.toStage = "cooldown"].pc
          \notin Handy
    BY DEF Snapshot, Idle, Handy
  <2> QED
    BY <1>1, <1>3, <2>1, ChillRead, EmptyHanded DEF Honours
<1>4. ASSUME NEW r \in Runs, rows[r].status = "queued", ~CoolingFor(r),
             Proceed(w, Snapshot(r, "claim", "idle"))
      PROVE  Honours
  <2>1. PICK n : n = Snapshot(r, "claim", "idle")
    OBVIOUS
  <2>2. n.id = r /\ n.pc = "claim"
    BY <2>1, SnapshotShape DEF QueueInv, SnapshotInv, Points
  <2>3. r \notin chilled
    BY <1>4 DEF ChilledInv, CoolingFor
  <2>4. Unchilled(n)
    BY <1>4, <2>2, <2>3 DEF Unchilled
  <2> QED
    BY <1>1, <1>4, <2>1, <2>4, ChillRead DEF Honours
<1> QED
  BY <1>2, <1>3, <1>4 DEF Pick

(* The claim gives the unit to a queued run, and chills it if a batch has  *)
(* brought a cooldown since the run was picked.                            *)
LEMMA ChillClaim ==
  ASSUME QueueInv, ChilledInv, NEW w \in Workers, Claim(w)
  PROVE  Honours
<1> DEFINE r == inv[w].id
           new == [rows[r] EXCEPT !.status = "starting", !.stage = StartStage(r), !.slot = TRUE]
           n == [inv[w] EXCEPT !.pc = "claimed"]
<1>1. /\ UNCHANGED cooling /\ r \in Runs /\ rows[r] \in Row /\ NoneStarted
      /\ rows[r].status = "queued" => r \notin chilled
  BY CloudKept DEF Claim, ChilledInv, Unchilled, At, QueueInv, SnapshotInv, TypeOK, InvocationOK
<1>2. n.pc = "claimed"
  BY DEF QueueInv, SnapshotInv, TypeOK, Invocation
<1>3. new.status = "starting"
  BY <1>1 DEF Row
<1>4. \/ rows[r].status = "queued" /\ Write(w, r, new, n) /\ Chill(r)
      \/ Proceed(w, n) /\ UNCHANGED chilled
  BY DEF Claim, Claimable
<1> HIDE DEF r, new, n
<1>5. CASE rows[r].status = "queued" /\ Write(w, r, new, n) /\ Chill(r)
  BY <1>1, <1>2, <1>3, <1>5, ChillWrite DEF Handy, Waiting, Honours
<1>6. CASE Proceed(w, n) /\ UNCHANGED chilled
  BY <1>1, <1>2, <1>6, ChillRead, EmptyHanded DEF Handy, Honours
<1> QED
  BY <1>4, <1>5, <1>6

(* The other writes bring a run further, and give it no unit.              *)
LEMMA ChillWrites ==
  ASSUME QueueInv, ChilledInv, NEW w \in Workers,
         SetJob(w) \/ RecoverSet(w) \/ Transition(w) \/ Handoff(w)
  PROVE  Honours
<1> DEFINE r == inv[w].id
<1>1. /\ UNCHANGED <<cooling, chilled>> /\ NoneStarted
      /\ r \in Runs /\ rows[r] \in Row /\ inv[w] \in Invocation
      /\ inv[w].pc = "transition" => inv[w].to \in Terminal
      /\ inv[w].pc = "handoff" => inv[w].toStage \in {"resolving", "enriching"}
  BY CloudKept DEF SetJob, RecoverSet, Transition, Handoff, At, QueueInv, SnapshotInv,
     TypeOK, InvocationOK, After
<1>2. Done(w).pc \notin Handy /\ LaunchFailed(w).pc \notin Handy
  BY DonePlain, TowardsPlain DEF Unaimed, LaunchFailed, Handy
<1>3. CASE SetJob(w) \/ RecoverSet(w)
  <2> DEFINE new == Tracked(rows[r], inv[w].job)
  <2>1. \E n \in {Done(w), LaunchFailed(w)} : Write(w, r, new, n) \/ Proceed(w, n)
    BY <1>3 DEF SetJob, RecoverSet
  <2>2. new.slot = rows[r].slot /\ new.status = "running"
    BY <1>1 DEF Tracked, Row
  <2> HIDE DEF r, new
  <2> QED
    BY <1>1, <1>2, <2>1, <2>2, ChillRead, ChillWrite, EmptyHanded DEF Waiting, Honours, Handy
<1>4. CASE Transition(w)
  <2> DEFINE new == [rows[r] EXCEPT !.status = inv[w].to, !.stage = inv[w].toStage,
                                    !.slot = SlotAfter(w)]
  <2>1. Write(w, r, new, Done(w)) /\ inv[w].pc = "transition"
    BY <1>4 DEF Transition, At
  <2>2. ~new.slot /\ new.status \notin Waiting
    BY <1>1, <2>1 DEF SlotAfter, Row, Waiting, Terminal
  <2> HIDE DEF r, new
  <2> QED
    BY <1>1, <1>2, <2>1, <2>2, ChillWrite DEF Honours, Handy
<1>5. CASE Handoff(w)
  <2> DEFINE new == HandedTo(rows[r], inv[w].toStage)
             n == [inv[w] EXCEPT !.pc = "handedOff"]
  <2>1. Write(w, r, new, n) \/ Proceed(w, Done(w))
    BY <1>5 DEF Handoff
  <2>2. /\ new.slot = rows[r].slot /\ new.status = inv[w].toStage
        /\ n.pc = "handedOff" /\ n.toStage = inv[w].toStage
        /\ inv[w].toStage \in {"resolving", "enriching"}
    BY <1>1, <1>5 DEF HandedTo, Row, Invocation, Handoff, At
  <2> HIDE DEF r, new, n
  <2> QED
    BY <1>1, <1>2, <2>1, <2>2, ChillRead, ChillWrite, EmptyHanded DEF Waiting, Handy, Honours
<1> QED
  BY <1>3, <1>4, <1>5

(* A launch goes from the look at the cooldown to the claim, to the        *)
(* request, and to a job.                                                  *)
LEMMA ChillLaunch ==
  ASSUME QueueInv, ChilledInv, NEW w \in Workers, StartDiscovery(w) \/ ClaimLaunch(w) \/ Post(w)
  PROVE  Honours
<1> DEFINE r == inv[w].id
<1>1. /\ UNCHANGED <<cooling, chilled>>
      /\ r \in Runs /\ rows[r] \in Row /\ inv[w] \in Invocation /\ inv[w].row \in Row
      /\ Unchilled(inv[w])
  BY DEF StartDiscovery, ClaimLaunch, Post, At, QueueInv, SnapshotInv, TypeOK, InvocationOK,
     Invocation, ChilledInv
<1>2. Done(w).pc \notin Handy /\ LaunchFailed(w).pc \notin Handy /\ ToCooldown(w).pc \notin Handy
  BY DonePlain, TowardsPlain DEF Unaimed, LaunchFailed, ToCooldown, Handy
<1>3. CASE StartDiscovery(w)
  <2> DEFINE n == [inv[w] EXCEPT !.pc = "claimLaunch"]
  <2>1. /\ NoneStarted /\ inv[w].pc = "start"
        /\ Proceed(w, ToCooldown(w)) \/ (~cooling /\ Proceed(w, n))
    BY <1>3, CloudKept DEF StartDiscovery, At
  <2>2. n.pc = "claimLaunch" /\ n.id = inv[w].id /\ n.row = inv[w].row
    BY <1>1 DEF Invocation
  <2> HIDE DEF n, r
  <2>3. ~cooling => Unchilled(n)
    BY <1>1, <2>1, <2>2 DEF Unchilled, ChilledInv
  <2> QED
    BY <1>1, <1>2, <2>1, <2>3, ChillRead, EmptyHanded DEF Honours
<1>4. CASE ClaimLaunch(w)
  <2> DEFINE new == [rows[r] EXCEPT !.status = "launching"]
             n == [inv[w] EXCEPT !.pc = "post", !.row.status = "launching"]
  <2>1. /\ NoneStarted /\ inv[w].pc = "claimLaunch"
        /\ Write(w, r, new, n) \/ Proceed(w, Done(w))
    BY <1>4, CloudKept DEF ClaimLaunch, At
  <2>2. /\ new.slot = rows[r].slot /\ new.status = "launching"
        /\ n.pc = "post" /\ n.id = r /\ n.row.stage = inv[w].row.stage
    BY <1>1 DEF Row, Invocation
  <2> HIDE DEF new, n
  <2>3. CASE Proceed(w, Done(w))
    BY <1>1, <1>2, <2>1, <2>3, ChillRead, EmptyHanded DEF Honours
  <2>4. CASE Write(w, r, new, n)
    <3>1. /\ \A q \in Runs : rows'[q] = IF q = r THEN new ELSE rows[q]
          /\ \A v \in Workers :
               inv'[v] = IF v = w THEN n
                         ELSE IF inv[v].id = r THEN [inv[v] EXCEPT !.fresh = FALSE] ELSE inv[v]
          /\ \A v \in Workers : inv[v] \in Invocation /\ InvocationOK(inv[v])
      BY <2>4 DEF Write, Outdated, QueueInv, SnapshotInv, TypeOK
    <3>2. Unchilled(inv[w])'
      BY <1>1, <2>1, <2>2, <3>1 DEF Unchilled, Waiting
    <3>3. ASSUME NEW v \in Workers \ {w} PROVE Unchilled(inv[v])'
      <4>1. /\ inv'[v].pc = inv[v].pc /\ inv'[v].id = inv[v].id /\ inv'[v].row = inv[v].row
            /\ inv'[v].toStage = inv[v].toStage
        BY <3>1, StaleShape
      <4>2. Unchilled(inv[v])
        BY DEF ChilledInv
      <4>3. inv[v].pc \in Handy => inv[v].id \in Runs
        BY <3>1 DEF InvocationOK, Handy
      <4> HIDE DEF r
      <4> QED
        BY <1>1, <2>2, <3>1, <4>1, <4>2, <4>3 DEF Unchilled, Waiting, Handy
    <3>4. UnitKept
      BY <2>2, <3>1 DEF UnitKept, HoldsSlot, ChilledInv, QueueInv, SnapshotInv, TypeOK
    <3> QED
      BY <1>1, <2>1, <3>2, <3>3, <3>4 DEF ChilledInv, Honours
  <2> QED
    BY <2>1, <2>3, <2>4
<1>5. CASE Post(w)
  <2>1. inv[w].pc = "post"
    BY <1>5 DEF Post, At
  <2>2. ASSUME NEW j \in Jobs, NEW n, n.pc \notin Handy, Accept(w, j), Proceed(w, n)
        PROVE  Honours
    <3>1. /\ cloud \in [Jobs -> Job]
          /\ cloud' = [cloud EXCEPT ![j] = [run |-> r, stage |-> inv[w].row.stage,
                                            state |-> "live", close |-> "none"]]
      BY <2>2 DEF Accept, QueueInv, SnapshotInv, TypeOK
    <3>2. ASSUME NEW k \in Jobs, Accepted(k)', ~Accepted(k)
          PROVE  cloud'[k].run = r /\ cloud'[k].stage = inv[w].row.stage
      BY <3>1, <3>2 DEF Accepted
    <3>3. inv[w].row.stage = "discovering" => r \notin chilled
      BY <1>1, <2>1 DEF Unchilled
    <3>4. NoneStarted
      BY <3>2, <3>3 DEF NoneStarted
    <3> QED
      BY <1>1, <2>2, <3>4, ChillRead, EmptyHanded DEF Honours
  <2>3. CASE Proceed(w, LaunchFailed(w)) /\ UNCHANGED cloud
    BY <1>1, <1>2, <2>3, ChillRead, EmptyHanded, CloudKept DEF Honours
  <2>4. ASSUME NEW j \in Jobs PROVE [inv[w] EXCEPT !.pc = "setJob", !.job = j].pc \notin Handy
    BY <1>1 DEF Invocation, Handy
  <2> HIDE DEF r
  <2> QED
    BY <1>2, <1>5, <2>2, <2>3, <2>4 DEF Post
<1> QED
  BY <1>3, <1>4, <1>5

(* The steps that read a row, or act on a snapshot of one.                 *)
LEMMA ChillReads ==
  ASSUME QueueInv, ChilledInv, NEW w \in Workers,
         \/ Pump(w) \/ Recheck(w) \/ Claimed(w) \/ HandedOff(w)
         \/ Recover(w) \/ SyncActive(w) \/ ReadOutcome(w) \/ CancelTag(w) \/ CancelStop(w)
         \/ Crash(w) \/ \E r \in Runs : Detail(w, r) \/ Cancel(w, r)
  PROVE  Honours
<1>1. /\ UNCHANGED <<cooling, chilled>> /\ inv[w] \in Invocation
      /\ inv[w].then \in {"idle", "recheck", "pump"}
      /\ inv[w].pc \notin Unaimed => inv[w].id \in Runs
      /\ Unchilled(inv[w])
  BY DEF Pump, Recheck, Claimed, HandedOff, Recover, SyncActive, ReadOutcome, CancelTag,
     CancelStop, Crash, Detail, Cancel, QueueInv, SnapshotInv, TypeOK, Invocation,
     InvocationOK, Unaimed, ChilledInv
<1>2. NoneStarted
  <2>1. CASE UNCHANGED cloud
    BY <2>1, CloudKept
  <2>2. CASE cloud' = Stopped(inv[w].job) /\ CancelStop(w)
    <3>1. /\ cloud \in [Jobs -> Job]
          /\ cloud' = cloud \/ (Live(inv[w].job) /\
                                cloud' = [cloud EXCEPT ![inv[w].job].state = "stopping"])
      BY <2>2 DEF Stopped, QueueInv, SnapshotInv, TypeOK
    <3>2. \A j \in Jobs : Accepted(j)' => Accepted(j)
      BY <3>1 DEF Accepted, Live
    <3> QED
      BY <3>2, NoJobAccepted
  <2> QED
    BY <2>1, <2>2 DEF Pump, Recheck, Claimed, HandedOff, Recover, SyncActive, ReadOutcome,
       CancelTag, CancelStop, Crash, Detail, Cancel
<1>3. SUFFICES \E n : Proceed(w, n) /\ Unchilled(n)
  BY <1>1, <1>2, ChillRead DEF Honours
<1>4. /\ Unchilled(Done(w)) /\ Unchilled(Idle) /\ Unchilled([Idle EXCEPT !.pc = "pick"])
      /\ \A status, stage : Unchilled(Towards(w, status, stage))
  BY DonePlain, TowardsPlain, UnaimedOK, EmptyHanded DEF Unaimed, Handy
<1>5. \A p \in Points \ Handy : \A j, s :
        /\ Unchilled([inv[w] EXCEPT !.pc = p])
        /\ Unchilled([inv[w] EXCEPT !.pc = p, !.job = j])
        /\ Unchilled([inv[w] EXCEPT !.pc = p, !.toStage = s])
  <2>1. \A p \in Points \ Handy : \A j, s :
          /\ [inv[w] EXCEPT !.pc = p].pc = p
          /\ [inv[w] EXCEPT !.pc = p, !.job = j].pc = p
          /\ [inv[w] EXCEPT !.pc = p, !.toStage = s].pc = p
    BY <1>1 DEF Invocation
  <2> QED
    BY <2>1, EmptyHanded
<1>6. CASE Pump(w) \/ Recheck(w) \/ \E r \in Runs : Detail(w, r)
  BY <1>4, <1>6, EnterUnchilled DEF Pump, Recheck, Detail
<1>7. CASE Claimed(w)
  <2>1. inv[w].id \in Runs
    BY <1>1, <1>7 DEF Claimed, At, Unaimed
  <2>2. HoldsSlot(inv[w].id) => Unchilled(EnterStage(inv[w].id, "idle"))
    BY <2>1, EnterUnchilled
  <2> QED
    BY <1>4, <1>7, <2>2 DEF Claimed
<1>8. CASE HandedOff(w)
  <2>1. inv[w].id \in Runs /\ inv[w].toStage # "discovering"
    BY <1>1, <1>8 DEF HandedOff, At, Unaimed, Unchilled
  <2>2. rows[inv[w].id].stage = inv[w].toStage =>
          Unchilled(EnterStage(inv[w].id, inv[w].then))
    BY <1>1, <2>1, EnterUnchilled
  <2> QED
    BY <1>4, <1>8, <2>2 DEF HandedOff
<1>9. CASE Recover(w) \/ SyncActive(w) \/ ReadOutcome(w) \/ CancelTag(w) \/ CancelStop(w)
           \/ Crash(w)
  BY <1>4, <1>5, <1>9 DEF Recover, LaunchFailed, SyncActive, ReadOutcome, CancelTag,
     CancelStop, Crash, Points, Handy
<1>10. ASSUME NEW r \in Runs, Cancel(w, r) PROVE \E n : Proceed(w, n) /\ Unchilled(n)
  <2>1. PICK read : read = Snapshot(r, "cancelTag", "pump")
    OBVIOUS
  <2>2. read \in Invocation /\ read.pc = "cancelTag"
    BY <2>1, SnapshotShape DEF QueueInv, SnapshotInv, Points
  <2>3. /\ read.pc \notin Handy
        /\ [read EXCEPT !.pc = "cancelStop", !.job = rows[r].job].pc \notin Handy
        /\ [read EXCEPT !.pc = "transition", !.to = "cancelled",
                        !.toStage = "cancelled"].pc \notin Handy
    BY <2>2 DEF Invocation, Handy
  <2>4. /\ Unchilled(read)
        /\ Unchilled([read EXCEPT !.pc = "cancelStop", !.job = rows[r].job])
        /\ Unchilled([read EXCEPT !.pc = "transition", !.to = "cancelled",
                                  !.toStage = "cancelled"])
    BY <2>3, EmptyHanded
  <2> QED
    BY <1>10, <2>1, <2>4 DEF Cancel
<1> QED
  BY <1>6, <1>7, <1>8, <1>9, <1>10

(* A batch may start a cooldown at any time; it gives no unit and no job.  *)
LEMMA ChillIngestion ==
  ASSUME QueueInv, ChilledInv, NEW j \in Jobs, RecordIngestion(j)
  PROVE  Honours
<1>1. NoneStarted
  BY IngestionShape, CloudKept
<1>2. cooling => cooling'
  <2>1. CASE UNCHANGED cooling
    BY <2>1
  <2>2. CASE cooling' = (cooling \/ cloud[j].stage = "discovering")
    BY <2>2, Zenon
  <2> QED
    BY <2>1, <2>2, Zenon DEF RecordIngestion
<1>3. \A r \in Runs : /\ rows'[r].slot = rows[r].slot
                      /\ rows'[r].status \in Waiting => rows[r].status = rows'[r].status
                      /\ rows[r].status \in Waiting => rows[r].status = rows'[r].status
  BY IngestionShape DEF Waiting
<1>4. ASSUME NEW v \in Workers PROVE Unchilled(inv[v])'
  <2>1. inv[v].pc \in Handy => inv[v].id \in Runs
    BY DEF QueueInv, SnapshotInv, InvocationOK, Handy
  <2>2. Unchilled(inv[v])
    BY DEF ChilledInv
  <2>3. /\ inv'[v].pc = inv[v].pc /\ inv'[v].id = inv[v].id /\ inv'[v].row = inv[v].row
        /\ inv'[v].toStage = inv[v].toStage /\ UNCHANGED chilled
    BY IngestionShape
  <2> QED
    BY <1>3, <2>1, <2>2, <2>3 DEF Unchilled, Waiting, Handy
<1>5. ChilledInv'
  BY <1>2, <1>4, IngestionShape DEF ChilledInv
<1>6. UnitKept
  BY <1>3 DEF UnitKept, HoldsSlot, ChilledInv, QueueInv, SnapshotInv, TypeOK
<1> QED
  BY <1>1, <1>5, <1>6 DEF Honours

(* A cooldown that runs out chills no run any more.                        *)
LEMMA ChillOutside ==
  ASSUME QueueInv, ChilledInv,
         \/ \E j \in Jobs : JobFinishes(j)
         \/ \E r \in Runs : LeaseExpires(r) \/ SellersChange(r)
         \/ CooldownExpires \/ UNCHANGED vars
  PROVE  Honours
<1>1. UNCHANGED <<rows, inv>> /\ chilled' \subseteq chilled /\ (chilled' # {} => cooling')
  BY DEF JobFinishes, LeaseExpires, SellersChange, CooldownExpires, vars, ChilledInv
<1>2. NoneStarted
  <2>1. CASE UNCHANGED cloud
    BY <2>1, CloudKept
  <2>2. ASSUME NEW j \in Jobs, JobFinishes(j) PROVE NoneStarted
    BY <2>2, JobKeepsTags, NoJobAccepted DEF SameTags
  <2> QED
    BY <2>1, <2>2 DEF LeaseExpires, SellersChange, CooldownExpires, vars
<1>3. ASSUME NEW v \in Workers PROVE Unchilled(inv[v])'
  BY <1>1 DEF ChilledInv, Unchilled
<1> QED
  BY <1>1, <1>2, <1>3 DEF ChilledInv, UnitKept, HoldsSlot, Honours

LEMMA ChillStep ==
  ASSUME QueueInv, ChilledInv, [Next]_vars
  PROVE  Honours
<1>1. ASSUME NEW w \in Workers, Continue(w) PROVE Honours
  BY <1>1, ChillPick, ChillClaim, ChillWrites, ChillLaunch, ChillReads DEF Continue
<1>2. ASSUME NEW w \in Workers, Request(w) PROVE Honours
  <2>1. ASSUME NEW r \in Runs, Create(w, r) \/ \E src \in Runs : Retry(w, src, r)
        PROVE  Honours
    <3>1. NoneStarted
      BY <2>1, CloudKept DEF Create, Retry
    <3> QED
      BY <2>1, <3>1, ChillInsert DEF Honours
  <2> QED
    BY <1>2, <2>1, ChillReads DEF Request
<1> QED
  BY <1>1, <1>2, ChillIngestion, ChillOutside, ChillReads DEF Next, JobStep, Tick

(***************************************************************************)
(* No crawl of Amazon is started in a cooldown that was on when its run    *)
(* was queued or given the unit, whatever fails, however long invocations  *)
(* last and whenever batches are stored: every discovery is preceded by a  *)
(* look at the registry after the unit was given, and an invocation that   *)
(* still carries the row of an earlier one finds that it has been written. *)
(***************************************************************************)
THEOREM CooldownIsHonoured == Spec => CooldownHonoured
<1>1. Init => ChilledInv
  BY UnaimedOK, EmptyHanded DEF Init, ChilledInv, Unaimed, Handy
<1>2. QueueInv /\ ChilledInv /\ [Next]_vars => Honours
  BY ChillStep
<1>3. Honours => ChilledInv' /\ [UnitKept /\ NoneStarted]_vars
  BY DEF Honours
<1>4. Spec => [][UnitKept /\ NoneStarted]_vars
  BY <1>1, <1>2, <1>3, QueueInvHolds, PTL DEF Spec
<1>5. (UnitKept /\ NoneStarted) =>
        \A r \in chilled :
          /\ HoldsSlot(r)' => HoldsSlot(r)
          /\ \A j \in Jobs : Accepted(j)' /\ ~Accepted(j) =>
                               <<cloud'[j].run, cloud'[j].stage>> # <<r, "discovering">>
  BY DEF UnitKept, NoneStarted
<1> QED
  BY <1>4, <1>5, PTL DEF CooldownHonoured
=============================================================================
