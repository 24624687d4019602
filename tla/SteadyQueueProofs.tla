------------------------- MODULE SteadyQueueProofs -------------------------
(***************************************************************************)
(* What the operator queue does with the unit and with Scrapy Cloud when,  *)
(* besides, the operator does not cancel, no cooldown runs out behind a    *)
(* pump's back, and what syncActive reads of a finished job does not       *)
(* change: no batch is stored after its job's end, nobody else writes to   *)
(* the sellers of the run.  Then there is one external job at a time,      *)
(* which the queue never loses sight of, and runs end once.                *)
(*                                                                         *)
(* The last condition is needed.  Two invocations that poll a finished job *)
(* on either side of a late batch can read different outcomes, and the one *)
(* that ends the run takes the unit from the job the other has launched.   *)
(*                                                                         *)
(* The writes of transition, handoff and setJob name the row by its id     *)
(* alone or by little more.  What makes them right is what the invocation  *)
(* has read, so SteadyInv, which is added to QueueInv and TimelyInv, says  *)
(* of every invocation in flight how its snapshot and the row are related. *)
(***************************************************************************)
EXTENDS TimelyQueueProofs

(* Invocations run to their end in time and answers arrive (Timely); the   *)
(* operator creates, retries and looks, but does not cancel; batches come  *)
(* during the crawl, as often as they like, and only then.                 *)
Steady ==
  /\ Timely
  /\ MaxLate = 0
  /\ "expiry" \notin Faults
  /\ Operations \cap {"cancel", "decide"} = {}

Finished(j) == cloud[j].state = "finished"

(* The run r ends with stage s; otherwise it is handed to the next stage.  *)
Ends(r, s) == outcome[r] \in {"blocked", "cooldown"} \/ NextStage(r, s) = "completed"

(* A job whose run has gone on, or will.                                   *)
GoesOn(j) ==
  Finished(j) /\ cloud[j].close = "finished" /\ ~Ends(cloud[j].run, cloud[j].stage)

(* An invocation that launches, or gives a launch up.                      *)
Failing(i)  == i.pc = "transition" /\ i.row.status = "launching"
Launcher(i) == Posts(i) \/ Failing(i)

(* It alone may write its row, which has not moved on.                     *)
LauncherSound(i, row) ==
  Launcher(i) =>
    /\ i.row.status = "launching"
    /\ row.slot /\ row.status = "launching" /\ row.stage = i.row.stage
    /\ Failing(i) => ~Launched(i.id, i.row.stage)

(* An invocation with a job in its snapshot: while the run holds the unit, *)
(* that job is still the row's, or it has finished and its run goes on;    *)
(* whoever ends the run has seen the job finish.                           *)
Tracking(i) ==
  i.pc \in {"sync", "outcome", "handoff", "start", "transition"} /\ i.row.job # NoJob

TrackerSound(i, row) ==
  Tracking(i) =>
    /\ i.row.job \in Tagged(i.id, i.row.stage)
    /\ row.slot => row.job = i.row.job \/ GoesOn(i.row.job)
    /\ i.pc \in {"outcome", "handoff"} =>
         Finished(i.row.job) /\ cloud[i.row.job].close = "finished"
    /\ i.pc = "handoff" => ~Ends(i.id, i.row.stage)
    /\ i.pc = "transition" /\ row.slot => Finished(i.row.job) /\ ~GoesOn(i.row.job)
    /\ i.pc = "start" /\ row.slot => ~cooling

(* A queued run that has been picked: its cooldown was read before, and a  *)
(* job that has brought one since is still at work, so that the unit is    *)
(* not free; once its stage is claimed there is no cooldown.               *)
PickSound(i, row) ==
  /\ i.pc \in {"claim", "claimed"} =>
       /\ i.row.status = "queued"
       /\ row.slot /\ row.status # "starting" => ~CoolingFor(i.id)
  /\ i.pc = "claim" /\ CoolingFor(i.id) => \E j \in Jobs : Live(j)
  /\ i.pc = "transition" /\ i.row.status \in Waiting => ~row.slot /\ CoolingFor(i.id)

(* A discovery that has no job yet: a cooldown is found before its launch  *)
(* is claimed, or not at all.                                              *)
StarterSound(i, row) ==
  /\ i.pc = "start" => i.row.stage = "discovering"
  /\ i.row.job = NoJob /\ row.slot =>
       /\ i.pc = "start" =>
            /\ row.stage = "discovering"
            /\ \A j \in Tagged(i.id, "discovering") : ~Finished(j)
            /\ cooling => row.status = "starting"
       /\ i.pc = "transition" /\ i.row.status \notin Waiting \cup {"launching"} =>
            cooling /\ row.stage = "discovering" /\ row.status = "starting"
       /\ i.pc = "claimLaunch" /\ i.row.stage = "discovering" => ~cooling

JobKnown(row) == row.job # NoJob => row.status \notin Waiting \cup Ready \cup {"launching"}

SnapshotSound(i, row) ==
  /\ i.pc \notin Unaimed => JobKnown(i.row)
  /\ i.pc \notin {"cancelTag", "cancelStop"}
  /\ i.pc \notin Unaimed \cup {"claim", "claimed", "transition"} => i.row.status \notin Waiting
  /\ i.pc \notin Unaimed /\ i.row.status \notin Waiting => row.status \notin Waiting
  /\ i.pc = "transition" /\ i.toStage \in CrawlStages =>
       i.row.status = "launching" /\ i.toStage = i.row.stage

(* What invocation i relies on, its run's row being as it is now.          *)
Sound(i, row) ==
  /\ LauncherSound(i, row)
  /\ TrackerSound(i, row)
  /\ PickSound(i, row)
  /\ StarterSound(i, row)
  /\ SnapshotSound(i, row)

RowSteady(row, r) ==
  /\ row.slot \/ row.status \in Waiting \cup Terminal
  /\ row.status = "starting" => row.stage = StartStage(r)
  /\ row.stage = "discovering" => Mode[r] = "find_sellers"
  /\ row.status \in CrawlStages => row.stage = row.status
  /\ row.status \in Terminal /\ row.stage \in CrawlStages => ~Launched(r, row.stage)

(* Somebody is about to record job j.                                      *)
Recording(j) == \E w \in Workers : At(w, "setJob") /\ inv[w].job = j

JobSteady(j) ==
  /\ cloud[j].state # "stopping"
  /\ cloud[j].close = "none" \/ Finished(j)
  /\ Live(j) => /\ cloud[j].run \in Runs /\ HoldsSlot(cloud[j].run)
                /\ rows[cloud[j].run].job = j \/ Recording(j)

(* A run has one launcher at most.                                         *)
OneLauncher ==
  \A v, w \in Workers :
    Launcher(inv[v]) /\ Launcher(inv[w]) /\ inv[v].id = inv[w].id => v = w

SteadyInv ==
  /\ \A w \in Workers : Sound(inv[w], rows[inv[w].id])
  /\ \A r \in Runs : RowSteady(rows[r], r)
  /\ \A j \in Jobs : JobSteady(j)
  /\ OneLauncher

-----------------------------------------------------------------------------
(* What Sound depends on.                                                  *)

(* Whether the snapshot is fresh, and where the invocation goes on, are    *)
(* not part of it.                                                         *)
LEMMA SoundSame ==
  ASSUME NEW i, NEW k, NEW row, k.pc = i.pc, k.id = i.id, k.row = i.row,
         k.toStage = i.toStage, Sound(i, row)
  PROVE  Sound(k, row)
<1>1. LauncherSound(k, row)
  BY DEF Sound, LauncherSound, Launcher, Posts, Failing
<1>2. TrackerSound(k, row)
  BY DEF Sound, TrackerSound, Tracking
<1>3. PickSound(k, row) /\ StarterSound(k, row) /\ SnapshotSound(k, row)
  BY DEF Sound, PickSound, StarterSound, SnapshotSound
<1> QED
  BY <1>1, <1>2, <1>3 DEF Sound

(* Nothing is asked of an invocation without a snapshot it relies on.      *)
LEMMA UnaimedSound ==
  ASSUME NEW i, i.pc \in Unaimed, NEW row
  PROVE  Sound(i, row) /\ Sound(i, row)' /\ ~Launcher(i)
BY DEF Unaimed, Sound, Launcher, Posts, Failing, LauncherSound, TrackerSound, Tracking,
   PickSound, StarterSound, SnapshotSound

LEMMA IdleSound ==
  ASSUME NEW p \in Unaimed, NEW row
  PROVE  /\ Sound([Idle EXCEPT !.pc = p], row) /\ Sound(Idle, row)
         /\ ~Launcher([Idle EXCEPT !.pc = p]) /\ ~Launcher(Idle)
<1>1. Idle.pc \in Unaimed /\ [Idle EXCEPT !.pc = p].pc \in Unaimed
  BY UnaimedOK DEF Unaimed
<1> QED
  BY <1>1, UnaimedSound

LEMMA DoneSound ==
  ASSUME QueueInv, NEW w \in Workers, NEW row
  PROVE  Sound(Done(w), row) /\ ~Launcher(Done(w))
<1>1. inv[w].then \in Unaimed
  BY DEF QueueInv, SnapshotInv, TypeOK, Invocation, Unaimed
<1> QED
  BY <1>1, IdleSound DEF Done

(* The definitions of Sound read the jobs, the completion records, what    *)
(* was found and the cooldown.                                             *)
LEMMA SoundKept ==
  ASSUME UNCHANGED <<cloud, outcome, found, cooling>>, NEW i, NEW row, Sound(i, row)
  PROVE  Sound(i, row)'
<1>1. ASSUME NEW r, NEW s
      PROVE  Tagged(r, s)' = Tagged(r, s) /\ (Launched(r, s)' <=> Launched(r, s))
             /\ (Ends(r, s)' <=> Ends(r, s))
  BY DEF Launched, Tagged, Accepted, Ends, NextStage, HasCandidates, HasTargets
<1>2. ASSUME NEW j
      PROVE  (GoesOn(j)' <=> GoesOn(j)) /\ (Finished(j)' <=> Finished(j))
  BY <1>1 DEF GoesOn, Finished
<1>3. LauncherSound(i, row)'
  BY <1>1 DEF Sound, LauncherSound
<1>4. TrackerSound(i, row)'
  BY <1>1, <1>2 DEF Sound, TrackerSound
<1>5. StarterSound(i, row)'
  BY <1>1, <1>2 DEF Sound, StarterSound
<1>6. PickSound(i, row)' /\ SnapshotSound(i, row)'
  BY DEF Sound, PickSound, CoolingFor, SnapshotSound, Live
<1> QED
  BY <1>3, <1>4, <1>5, <1>6 DEF Sound

-----------------------------------------------------------------------------
(* Steps that respect SteadyInv.                                           *)

(* A step of one invocation that leaves the rows alone.                    *)
LEMMA SteadyRead ==
  ASSUME QueueInv, SteadyInv, NEW w \in Workers, NEW n, Proceed(w, n),
         UNCHANGED <<cloud, outcome, found, cooling>>, inv[w].pc # "setJob",
         Sound(n, rows[n.id]),
         Launcher(n) => Launcher(inv[w]) /\ n.id = inv[w].id
  PROVE  SteadyInv'
<1>1. /\ UNCHANGED rows
      /\ \A v \in Workers : inv'[v] = IF v = w THEN n ELSE inv[v]
  BY DEF Proceed, QueueInv, SnapshotInv, TypeOK
<1>2. ASSUME NEW v \in Workers PROVE Sound(inv[v], rows[inv[v].id])'
  <2>1. PICK i : i = inv'[v]
    OBVIOUS
  <2>2. PICK row : row = rows[i.id]
    OBVIOUS
  <2>3. Sound(i, row)
    BY <1>1, <2>1, <2>2 DEF SteadyInv
  <2>4. Sound(i, row)'
    BY <2>3, SoundKept
  <2> QED
    BY <1>1, <2>1, <2>2, <2>4
<1>3. ASSUME NEW r \in Runs PROVE RowSteady(rows[r], r)'
  BY <1>1 DEF SteadyInv, RowSteady, Launched, Tagged, Accepted
<1>4. ASSUME NEW j \in Jobs PROVE JobSteady(j)'
  BY <1>1 DEF SteadyInv, JobSteady, Recording, Finished, Live, HoldsSlot, At
<1>5. ASSUME NEW u \in Workers, NEW v \in Workers,
             Launcher(inv'[u]), Launcher(inv'[v]), inv'[u].id = inv'[v].id
      PROVE  u = v
  BY <1>1, <1>5 DEF SteadyInv, OneLauncher
<1>6. OneLauncher'
  BY <1>5 DEF OneLauncher, Launcher, Posts, Failing
<1> QED
  BY <1>2, <1>3, <1>4, <1>6 DEF SteadyInv

(* A step that writes the row of one run.                                  *)
LEMMA SteadyWrite ==
  ASSUME QueueInv, SteadyInv, NEW w \in Workers, NEW r \in Runs, NEW new, NEW n,
         Write(w, r, new, n), UNCHANGED <<cloud, outcome, found, cooling>>,
         At(w, "setJob") => cloud[inv[w].job].run = r,
         n.pc \in Unaimed \/ (n.id = r /\ Sound(n, new)),
         Launcher(n) => n.id = r /\ \A v \in Workers : Launcher(inv[v]) => inv[v].id # r,
         \A v \in Workers \ {w} : inv[v].id = r => Sound(inv[v], new),
         RowSteady(new, r),
         \A j \in Jobs : Live(j) /\ cloud[j].run = r =>
           new.slot /\ (new.job = j \/ \E v \in Workers \ {w} : At(v, "setJob") /\ inv[v].job = j)
  PROVE  SteadyInv'
<1>1. \A q \in Runs : rows'[q] = IF q = r THEN new ELSE rows[q]
  BY DEF Write, QueueInv, SnapshotInv, TypeOK
<1>2. /\ inv'[w] = n
      /\ \A v \in Workers \ {w} :
           /\ inv'[v].pc = inv[v].pc /\ inv'[v].id = inv[v].id /\ inv'[v].row = inv[v].row
           /\ inv'[v].toStage = inv[v].toStage /\ inv'[v].job = inv[v].job
  <2>1. \A v \in Workers :
          inv'[v] = IF v = w THEN n
                    ELSE IF inv[v].id = r THEN [inv[v] EXCEPT !.fresh = FALSE] ELSE inv[v]
    BY DEF Write, Outdated, QueueInv, SnapshotInv, TypeOK
  <2>2. \A v \in Workers : inv[v] \in Invocation
    BY DEF QueueInv, SnapshotInv, TypeOK
  <2> QED
    BY <2>1, <2>2, StaleShape
<1>3. ASSUME NEW v \in Workers PROVE Sound(inv[v], rows[inv[v].id])'
  <2>1. PICK i, row : i = inv'[v] /\ row = rows'[i.id]
    OBVIOUS
  <2>2. CASE i.pc \in Unaimed
    BY <2>1, <2>2, UnaimedSound, SoundKept
  <2>3. CASE v = w /\ i.pc \notin Unaimed
    BY <1>1, <1>2, <2>1, <2>3, SoundKept
  <2>4. CASE v # w /\ i.pc \notin Unaimed
    <3>1. i.id \in Runs /\ i.id = inv[v].id
      BY <1>2, <2>1, <2>4 DEF QueueInv, SnapshotInv, InvocationOK, Unaimed
    <3>2. Sound(inv[v], row)
      BY <1>1, <2>1, <2>4, <3>1 DEF SteadyInv
    <3>3. Sound(i, row)
      BY <1>2, <2>1, <2>4, <3>2, SoundSame
    <3> QED
      BY <2>1, <3>3, SoundKept
  <2> QED
    BY <2>2, <2>3, <2>4
<1>4. ASSUME NEW q \in Runs PROVE RowSteady(rows[q], q)'
  BY <1>1 DEF SteadyInv, RowSteady, Launched, Tagged, Accepted
<1>5. ASSUME NEW j \in Jobs PROVE JobSteady(j)'
  <2>1. JobSteady(j)
    BY DEF SteadyInv
  <2>2. ASSUME Live(j)
        PROVE  /\ rows'[cloud[j].run].slot
               /\ \/ rows'[cloud[j].run].job = j
                  \/ \E v \in Workers \ {w} : At(v, "setJob") /\ inv[v].job = j
    BY <1>1, <2>1, <2>2 DEF JobSteady, Recording, HoldsSlot
  <2> QED
    BY <1>2, <2>1, <2>2 DEF JobSteady, Recording, Finished, Live, HoldsSlot, At
<1>6. OneLauncher'
  BY <1>2 DEF SteadyInv, OneLauncher, Launcher, Posts, Failing
<1> QED
  BY <1>3, <1>4, <1>5, <1>6 DEF SteadyInv

-----------------------------------------------------------------------------
(* What an invocation finds when it reads a row.                           *)

(* A row without the unit is waiting or terminal; one with it and without  *)
(* a job has not been launched.                                            *)
LEMMA RowJobKnown ==
  ASSUME QueueInv, SteadyInv, NEW r \in Runs
  PROVE  JobKnown(rows[r])
<1>1. RowOK(rows[r]) /\ RowSteady(rows[r], r)
  BY DEF QueueInv, SnapshotInv, SteadyInv
<1>2. CASE rows[r].slot
  BY <1>1, <1>2 DEF RowOK, JobKnown, Waiting, Ready
<1>3. CASE ~rows[r].slot
  BY <1>1, <1>3 DEF RowOK, RowSteady, JobKnown, Waiting, Ready, Terminal
<1> QED
  BY <1>2, <1>3

(* A row that is ready to be launched names its stage, which has no job.   *)
LEMMA ReadyUnlaunched ==
  ASSUME QueueInv, NEW r \in Runs, HoldsSlot(r), rows[r].status \in Ready
  PROVE  ~Launched(r, rows[r].stage)
<1>1. rows[r].status \notin Waiting
  BY DEF Ready, Waiting
<1>2. rows[r].stage \in Due(rows[r])
  BY <1>1 DEF HoldsSlot, Due, From
<1> QED
  BY <1>2 DEF QueueInv, LaunchInv

(* startActiveStage finds the row as a discovery needs it, or any stage.   *)
LEMMA EnterSound ==
  ASSUME QueueInv, TimelyInv, SteadyInv, NEW r \in Runs, NEW then \in {"idle", "recheck", "pump"},
         rows[r].status \notin Waiting,
         rows[r].job = NoJob \/ (HoldsSlot(r) /\ ~CoolingFor(r))
  PROVE  /\ ~Launcher(EnterStage(r, then))
         /\ \/ EnterStage(r, then).pc \in Unaimed
            \/ EnterStage(r, then).id = r /\ Sound(EnterStage(r, then), rows[r])
<1>1. PICK n : n = EnterStage(r, then)
  OBVIOUS
<1>2. CASE n = [Idle EXCEPT !.pc = then]
  BY <1>1, <1>2, IdleSound, UnaimedOK DEF Unaimed
<1>3. CASE /\ n = Snapshot(r, "claimLaunch", then)
           /\ ~(Mode[r] = "find_sellers" /\ rows[r].stage = "discovering")
  <2>1. n.pc = "claimLaunch" /\ n.id = r /\ n.row = rows[r]
    BY <1>3, SnapshotShape DEF QueueInv, SnapshotInv, Points
  <2>2. rows[r].stage # "discovering"
    BY <1>3 DEF SteadyInv, RowSteady
  <2>3. Sound(n, rows[r])
    BY <2>1, <2>2, RowJobKnown DEF Sound, LauncherSound, Launcher, Posts, Failing, TrackerSound,
       Tracking, PickSound, StarterSound, SnapshotSound, Unaimed
  <2> QED
    BY <1>1, <2>1, <2>3 DEF Launcher, Posts, Failing
<1>4. CASE /\ n = Snapshot(r, "start", then) /\ rows[r].status # "launching"
           /\ Mode[r] = "find_sellers" /\ rows[r].stage = "discovering"
  <2>1. n.pc = "start" /\ n.id = r /\ n.row = rows[r]
    BY <1>4, SnapshotShape DEF QueueInv, SnapshotInv, Points
  <2>2. ~Launcher(n) /\ LauncherSound(n, rows[r]) /\ PickSound(n, rows[r])
    BY <2>1 DEF Launcher, Posts, Failing, LauncherSound, PickSound
  <2>3. SnapshotSound(n, rows[r])
    BY <2>1, RowJobKnown DEF SnapshotSound, Unaimed
  <2>4. TrackerSound(n, rows[r])
    <3>1. CASE rows[r].job = NoJob
      BY <2>1, <3>1 DEF TrackerSound, Tracking
    <3>2. CASE HoldsSlot(r) /\ ~cooling /\ rows[r].job # NoJob
      BY <2>1, <3>2 DEF TrackerSound, TimelyInv, RowTracked, HoldsSlot
    <3> QED
      BY <1>4, <3>1, <3>2 DEF CoolingFor
  <2>5. StarterSound(n, rows[r])
    <3>1. ASSUME rows[r].job = NoJob, rows[r].slot
          PROVE  rows[r].status = "starting" /\ ~Launched(r, "discovering")
      <4>1. rows[r].status \in Ready
        BY <1>4, <3>1 DEF QueueInv, SnapshotInv, RowOK
      <4>2. rows[r].status = "starting"
        BY <1>4, <4>1 DEF SteadyInv, RowSteady, Ready, CrawlStages
      <4> QED
        BY <1>4, <3>1, <4>1, <4>2, ReadyUnlaunched DEF HoldsSlot
    <3> QED
      BY <1>4, <2>1, <3>1 DEF StarterSound, Launched
  <2> QED
    BY <1>1, <2>1, <2>2, <2>3, <2>4, <2>5 DEF Sound
<1> QED
  BY <1>1, <1>2, <1>3, <1>4, EnterStagePlain DEF TimelyInv

-----------------------------------------------------------------------------
(* Every action preserves SteadyInv.                                       *)

(* An invocation that ends, or goes on without a snapshot.                 *)
LEMMA SteadyEnds ==
  ASSUME QueueInv, SteadyInv, NEW w \in Workers, NEW p \in Unaimed,
         Proceed(w, Done(w)) \/ Proceed(w, Idle) \/ Proceed(w, [Idle EXCEPT !.pc = p]),
         UNCHANGED <<cloud, outcome, found, cooling>>, inv[w].pc # "setJob"
  PROVE  SteadyInv'
<1>1. ASSUME NEW n, Proceed(w, n), ~Launcher(n), \A row : Sound(n, row)
      PROVE  SteadyInv'
  BY <1>1, SteadyRead
<1> QED
  BY <1>1, DoneSound, IdleSound

(* One that starts a stage.                                                *)
LEMMA SteadyEnters ==
  ASSUME QueueInv, TimelyInv, SteadyInv, NEW w \in Workers, NEW r \in Runs,
         NEW then \in {"idle", "recheck", "pump"}, rows[r].status \notin Waiting,
         rows[r].job = NoJob \/ (HoldsSlot(r) /\ ~CoolingFor(r)),
         Proceed(w, EnterStage(r, then)),
         UNCHANGED <<cloud, outcome, found, cooling>>, inv[w].pc # "setJob"
  PROVE  SteadyInv'
<1>1. PICK n : n = EnterStage(r, then)
  OBVIOUS
<1>2. ~Launcher(n) /\ Sound(n, rows[n.id])
  BY <1>1, EnterSound, UnaimedSound
<1> QED
  BY <1>1, <1>2, SteadyRead

(* pump and detail: a slot holder is polled, or its stage is started.      *)
LEMMA SteadyAdvance ==
  ASSUME QueueInv, TimelyInv, SteadyInv, NEW w \in Workers, NEW r \in Runs, HoldsSlot(r),
         NEW then \in {"idle", "recheck", "pump"}, Proceed(w, Advance(r, then)),
         UNCHANGED <<cloud, outcome, found, cooling>>, inv[w].pc # "setJob"
  PROVE  SteadyInv'
<1>1. rows[r].status \notin Waiting
  BY DEF QueueInv, SnapshotInv, RowOK, HoldsSlot
<1>2. CASE rows[r].job = NoJob
  BY <1>1, <1>2, SteadyEnters DEF Advance
<1>3. CASE rows[r].job # NoJob
  <2>1. PICK n : n = Advance(r, then)
    OBVIOUS
  <2>2. n.pc = "sync" /\ n.id = r /\ n.row = rows[r]
    BY <1>3, <2>1, SnapshotShape DEF Advance, QueueInv, SnapshotInv, Points
  <2>3. TrackerSound(n, rows[r])
    BY <1>3, <2>2 DEF TrackerSound, TimelyInv, RowTracked, HoldsSlot
  <2>4. Sound(n, rows[r]) /\ ~Launcher(n)
    BY <1>1, <2>2, <2>3, RowJobKnown DEF Sound, LauncherSound, Launcher, Posts, Failing,
       PickSound, StarterSound, SnapshotSound
  <2> QED
    BY <2>1, <2>2, <2>4, SteadyRead
<1> QED
  BY <1>2, <1>3

LEMMA SteadyPump ==
  ASSUME QueueInv, TimelyInv, SteadyInv, NEW w \in Workers, Pump(w)
  PROVE  SteadyInv'
<1>1. UNCHANGED <<cloud, outcome, found, cooling>> /\ inv[w].pc # "setJob"
  BY DEF Pump, At
<1>2. ASSUME NEW r \in Runs, HoldsSlot(r), Proceed(w, Advance(r, "recheck"))
      PROVE  SteadyInv'
  BY <1>1, <1>2, SteadyAdvance
<1>3. CASE Proceed(w, [Idle EXCEPT !.pc = "pick"])
  BY <1>1, <1>3, SteadyEnds DEF Unaimed
<1> QED
  BY <1>2, <1>3 DEF Pump

(* A queued run that is picked has no unit, and its cooldown is read.      *)
LEMMA SteadyPick ==
  ASSUME QueueInv, SteadyInv, NEW w \in Workers, Pick(w) \/ Recheck(w)
  PROVE  SteadyInv'
<1>1. UNCHANGED <<cloud, outcome, found, cooling>> /\ inv[w].pc # "setJob"
  BY DEF Pick, Recheck, At
<1>2. ASSUME NEW r \in Runs, rows[r].status = "queued", CoolingFor(r),
             Proceed(w, [Snapshot(r, "transition", "idle") EXCEPT
                           !.to = "cooldown", !.toStage = "cooldown"])
      PROVE  SteadyInv'
  <2>1. PICK read : read = Snapshot(r, "transition", "idle")
    OBVIOUS
  <2>2. read \in Invocation /\ read.pc = "transition" /\ read.id = r /\ read.row = rows[r]
    BY <2>1, SnapshotShape DEF QueueInv, SnapshotInv, Points
  <2>3. PICK n : n = [read EXCEPT !.to = "cooldown", !.toStage = "cooldown"]
    OBVIOUS
  <2>4. /\ n.pc = "transition" /\ n.id = r /\ n.row = rows[r] /\ n.toStage = "cooldown"
    BY <2>2, <2>3 DEF Invocation
  <2>5. ~rows[r].slot /\ rows[r].job = NoJob /\ rows[r].status \in Waiting
    BY <1>2 DEF QueueInv, SnapshotInv, RowOK, Waiting
  <2>6. Sound(n, rows[r]) /\ ~Launcher(n)
    BY <1>2, <2>4, <2>5 DEF Sound, LauncherSound, Launcher, Posts, Failing, TrackerSound, Tracking,
       PickSound, StarterSound, SnapshotSound, JobKnown, CrawlStages, Unaimed
  <2> QED
    BY <1>1, <1>2, <2>1, <2>3, <2>4, <2>6, SteadyRead
<1>3. ASSUME NEW r \in Runs, rows[r].status = "queued", ~CoolingFor(r),
             Proceed(w, Snapshot(r, "claim", "idle"))
      PROVE  SteadyInv'
  <2>1. PICK n : n = Snapshot(r, "claim", "idle")
    OBVIOUS
  <2>2. n.pc = "claim" /\ n.id = r /\ n.row = rows[r]
    BY <2>1, SnapshotShape DEF QueueInv, SnapshotInv, Points
  <2>3. rows[r].job = NoJob
    BY <1>3 DEF QueueInv, SnapshotInv, RowOK, Waiting
  <2>4. Sound(n, rows[r]) /\ ~Launcher(n)
    BY <1>3, <2>2, <2>3 DEF Sound, LauncherSound, Launcher, Posts, Failing, TrackerSound, Tracking,
       PickSound, StarterSound, SnapshotSound, JobKnown, Waiting
  <2> QED
    BY <1>1, <1>3, <2>1, <2>2, <2>4, SteadyRead
<1>4. CASE Proceed(w, Idle) \/ Proceed(w, [Idle EXCEPT !.pc = "pick"])
  BY <1>1, <1>4, SteadyEnds DEF Unaimed
<1> QED
  BY <1>2, <1>3, <1>4 DEF Pick, Recheck

(* What an aimed invocation relies on.                                     *)
LEMMA SoundNow ==
  ASSUME QueueInv, SteadyInv, NEW w \in Workers, inv[w].pc \notin Unaimed
  PROVE  /\ inv[w].id \in Runs /\ inv[w] \in Invocation
         /\ Sound(inv[w], rows[inv[w].id])
BY DEF QueueInv, SnapshotInv, TypeOK, InvocationOK, SteadyInv, Unaimed

LEMMA SteadyClaimed ==
  ASSUME QueueInv, TimelyInv, SteadyInv, NEW w \in Workers, Claimed(w) \/ HandedOff(w)
  PROVE  SteadyInv'
<1>1. /\ UNCHANGED <<cloud, outcome, found, cooling>> /\ inv[w].pc \in {"claimed", "handedOff"}
      /\ inv[w].pc \notin Unaimed
  BY DEF Claimed, HandedOff, At, Unaimed
<1>2. /\ inv[w].id \in Runs /\ inv[w].then \in {"idle", "recheck", "pump"}
      /\ Sound(inv[w], rows[inv[w].id])
  BY <1>1, SoundNow DEF Invocation
<1>3. CASE Proceed(w, Idle) \/ Proceed(w, Done(w))
  BY <1>1, <1>3, SteadyEnds DEF Unaimed
<1>4. CASE inv[w].pc = "claimed" /\ HoldsSlot(inv[w].id)
           /\ Proceed(w, EnterStage(inv[w].id, "idle"))
  <2>1. rows[inv[w].id].job = NoJob \/ ~CoolingFor(inv[w].id)
    BY <1>2, <1>4, RowJobKnown DEF Sound, PickSound, JobKnown, Ready, HoldsSlot
  <2>2. rows[inv[w].id].status \notin Waiting
    BY <1>2, <1>4 DEF QueueInv, SnapshotInv, RowOK, HoldsSlot
  <2> QED
    BY <1>1, <1>2, <1>4, <2>1, <2>2, SteadyEnters
<1>5. CASE inv[w].pc = "handedOff" /\ rows[inv[w].id].job = NoJob
           /\ Proceed(w, EnterStage(inv[w].id, inv[w].then))
  <2>1. rows[inv[w].id].status \notin Waiting
    BY <1>1, <1>2, <1>5 DEF Sound, SnapshotSound
  <2> QED
    BY <1>1, <1>2, <1>5, <2>1, SteadyEnters
<1> QED
  BY <1>3, <1>4, <1>5 DEF Claimed, HandedOff, At

(* A cooldown that is found before a discovery either ends a run that has  *)
(* not been launched, or is that of the job that has been.                 *)
LEMMA SteadyStart ==
  ASSUME QueueInv, SteadyInv, NEW w \in Workers, StartDiscovery(w)
  PROVE  SteadyInv'
<1> DEFINE r == inv[w].id
<1>1. /\ UNCHANGED <<cloud, outcome, found, cooling>> /\ inv[w].pc = "start"
      /\ inv[w].pc \notin Unaimed
  BY DEF StartDiscovery, At, Unaimed
<1>2. /\ r \in Runs /\ inv[w] \in Invocation /\ Sound(inv[w], rows[r])
      /\ inv[w].row.status \notin Waiting \cup {"launching"}
  BY <1>1, SoundNow DEF Sound, SnapshotSound, QueueInv, SnapshotInv, InvocationOK, Unaimed
<1>3. CASE cooling /\ Proceed(w, ToCooldown(w))
  <2>1. PICK n : n = ToCooldown(w)
    OBVIOUS
  <2>2. n.pc = "transition" /\ n.id = r /\ n.row = inv[w].row /\ n.toStage = "cooldown"
    BY <2>1, TowardsPlain DEF ToCooldown
  <2>3. TrackerSound(n, rows[r])
    <3>1. ASSUME Tracking(n), rows[r].slot
          PROVE  Finished(n.row.job) /\ ~GoesOn(n.row.job)
      <4>1. /\ Finished(n.row.job) /\ outcome[r] = "cooldown"
            /\ n.row.job \in Tagged(r, inv[w].row.stage)
        BY <1>1, <1>2, <1>3, <2>2, <3>1 DEF Sound, TrackerSound, Tracking
      <4> QED
        BY <4>1 DEF GoesOn, Ends, Tagged
    <3> QED
      BY <1>1, <1>2, <2>2, <3>1 DEF Sound, TrackerSound, Tracking
  <2>4. StarterSound(n, rows[r])
    BY <1>1, <1>2, <1>3, <2>2 DEF Sound, StarterSound
  <2>5. Sound(n, rows[r]) /\ ~Launcher(n)
    BY <1>1, <1>2, <2>2, <2>3, <2>4 DEF Sound, LauncherSound, Launcher, Posts, Failing, PickSound,
       SnapshotSound, CrawlStages, Unaimed
  <2> QED
    BY <1>1, <1>3, <2>1, <2>2, <2>5, SteadyRead
<1>4. CASE ~cooling /\ Proceed(w, [inv[w] EXCEPT !.pc = "claimLaunch"])
  <2>1. PICK n : n = [inv[w] EXCEPT !.pc = "claimLaunch"]
    OBVIOUS
  <2>2. n.pc = "claimLaunch" /\ n.id = r /\ n.row = inv[w].row
    BY <1>2, <2>1 DEF Invocation
  <2>3. Sound(n, rows[r]) /\ ~Launcher(n)
    BY <1>1, <1>2, <1>4, <2>2 DEF Sound, LauncherSound, Launcher, Posts, Failing, TrackerSound,
       Tracking, PickSound, StarterSound, SnapshotSound, Unaimed
  <2> QED
    BY <1>1, <1>4, <2>1, <2>2, <2>3, SteadyRead
<1> QED
  BY <1>3, <1>4 DEF StartDiscovery

(* A job that is polled and has finished: what its invocation does next.   *)
LEMMA SteadyPolled ==
  ASSUME QueueInv, TimelyInv, SteadyInv, NEW w \in Workers, SyncActive(w) \/ ReadOutcome(w)
  PROVE  SteadyInv'
<1> DEFINE r == inv[w].id
           k == inv[w].row.job
           s == inv[w].row.stage
<1>1. /\ UNCHANGED <<cloud, outcome, found, cooling>> /\ inv[w].pc \in {"sync", "outcome"}
      /\ inv[w].pc \notin Unaimed
  BY DEF SyncActive, ReadOutcome, At, Unaimed
<1>2. /\ r \in Runs /\ inv[w] \in Invocation /\ Sound(inv[w], rows[r])
      /\ inv[w].row.status \in {"running", "ingesting"}
  BY <1>1, SoundNow DEF QueueInv, SnapshotInv, InvocationOK
<1>3. k \in Tagged(r, s) /\ k \in Jobs /\ k # NoJob /\ JobSteady(k)
  BY <1>1, ConstantsAssumption DEF TimelyInv, TimelySound, Polls, Tagged, SteadyInv
<1>4. /\ SnapshotSound(inv[w], rows[r]) /\ TrackerSound(inv[w], rows[r])
      /\ inv[w].row.status \notin Waiting \cup {"launching"} /\ Tracking(inv[w])
  BY <1>1, <1>2, <1>3 DEF Sound, Waiting, Tracking
<1>5. ASSUME NEW n, Proceed(w, n), n.id = r, n.row = inv[w].row, TrackerSound(n, rows[r]),
             n.pc \in {"outcome", "handoff", "transition"},
             n.pc = "transition" => n.toStage \notin CrawlStages
      PROVE  SteadyInv'
  <2>1. Sound(n, rows[r]) /\ ~Launcher(n)
    BY <1>1, <1>2, <1>3, <1>4, <1>5 DEF Sound, LauncherSound, Launcher, Posts, Failing, PickSound,
       StarterSound, SnapshotSound, Unaimed
  <2> QED
    BY <1>1, <1>5, <2>1, SteadyRead
<1>6. ASSUME NEW status, NEW stage, stage \notin CrawlStages, Finished(k), ~GoesOn(k),
             Proceed(w, Towards(w, status, stage))
      PROVE  SteadyInv'
  <2>1. PICK n : n = Towards(w, status, stage)
    OBVIOUS
  <2>2. n.pc = "transition" /\ n.id = r /\ n.row = inv[w].row /\ n.toStage = stage
    BY <2>1, TowardsPlain
  <2>3. TrackerSound(n, rows[r])
    BY <1>4, <1>6, <2>2 DEF TrackerSound
  <2> QED
    BY <1>5, <1>6, <2>1, <2>2, <2>3
<1>7. CASE Proceed(w, Done(w))
  BY <1>1, <1>7, SteadyEnds DEF Unaimed
<1>8. CASE SyncActive(w) /\ ~Proceed(w, Done(w))
  <2>1. cloud[k].close # "none" => Finished(k)
    BY <1>3 DEF JobSteady
  <2>2. CASE cloud[k].close = "finished" /\ Proceed(w, [inv[w] EXCEPT !.pc = "outcome"])
    <3>1. PICK n : n = [inv[w] EXCEPT !.pc = "outcome"]
      OBVIOUS
    <3>2. n.pc = "outcome" /\ n.id = r /\ n.row = inv[w].row
      BY <1>2, <3>1 DEF Invocation
    <3>3. TrackerSound(n, rows[r])
      BY <1>4, <2>1, <2>2, <3>2 DEF TrackerSound
    <3> QED
      BY <1>5, <2>2, <3>1, <3>2, <3>3
  <2>3. CASE cloud[k].close = "cancelled" /\ Proceed(w, Towards(w, "cancelled", "cancelled"))
    BY <1>6, <2>1, <2>3 DEF GoesOn, CrawlStages
  <2>4. CASE cloud[k].close = "undelivered" /\ Proceed(w, Towards(w, "failed", "failed"))
    BY <1>6, <2>1, <2>4 DEF GoesOn, CrawlStages
  <2> QED
    BY <1>2, <1>8, <2>2, <2>3, <2>4 DEF SyncActive
<1>9. CASE ReadOutcome(w)
  <2>1. /\ inv[w].pc = "outcome" /\ Finished(k) /\ cloud[k].close = "finished"
        /\ cloud[k].run = r /\ cloud[k].stage = s
    BY <1>3, <1>4, <1>9 DEF ReadOutcome, At, TrackerSound, Tagged
  <2>2. CASE outcome[r] \in {"blocked", "cooldown"} /\ Proceed(w, Towards(w, outcome[r], outcome[r]))
    BY <1>6, <2>1, <2>2 DEF GoesOn, Ends, CrawlStages
  <2>3. ASSUME NEW status, NextStage(r, s) = "completed", Proceed(w, Towards(w, status, "completed"))
        PROVE  SteadyInv'
    BY <1>6, <2>1, <2>3 DEF GoesOn, Ends, CrawlStages
  <2>4. CASE /\ outcome[r] = "none" /\ NextStage(r, s) # "completed"
             /\ Proceed(w, [inv[w] EXCEPT !.pc = "handoff", !.toStage = NextStage(r, s)])
    <3>1. PICK n : n = [inv[w] EXCEPT !.pc = "handoff", !.toStage = NextStage(r, s)]
      OBVIOUS
    <3>2. n.pc = "handoff" /\ n.id = r /\ n.row = inv[w].row
      BY <1>2, <3>1 DEF Invocation
    <3>3. ~Ends(r, s)
      BY <2>4 DEF Ends
    <3>4. TrackerSound(n, rows[r])
      BY <1>4, <2>1, <3>2, <3>3 DEF TrackerSound
    <3> QED
      BY <1>5, <2>4, <3>1, <3>2, <3>4
  <2> QED
    BY <1>9, <2>2, <2>3, <2>4 DEF ReadOutcome
<1> QED
  BY <1>7, <1>8, <1>9

(* A run without the unit has no job at work and no launcher.              *)
LEMMA Unheld ==
  ASSUME QueueInv, SteadyInv, NEW r \in Runs, ~HoldsSlot(r)
  PROVE  /\ \A j \in Jobs : Live(j) => cloud[j].run # r
         /\ \A v \in Workers : Launcher(inv[v]) => inv[v].id # r
<1>1. ASSUME NEW v \in Workers, Launcher(inv[v]) PROVE inv[v].id # r
  <2>1. inv[v].pc \notin Unaimed
    BY <1>1 DEF Launcher, Posts, Failing, Unaimed
  <2> QED
    BY <1>1, <2>1, SoundNow DEF Sound, LauncherSound, HoldsSlot
<1> QED
  BY <1>1 DEF SteadyInv, JobSteady

(* Nobody relies on a waiting row but those who want to give it the unit,  *)
(* or to end it because of its cooldown.                                   *)
LEMMA WaitingSound ==
  ASSUME QueueInv, SteadyInv, NEW r \in Runs, rows[r].status \in Waiting,
         NEW v \in Workers, inv[v].id = r, NEW row,
         row.slot => row.status = "starting" /\ (inv[v].pc = "transition" => ~CoolingFor(r))
  PROVE  Sound(inv[v], row)
<1>1. CASE inv[v].pc \in Unaimed
  BY <1>1, UnaimedSound
<1>2. CASE inv[v].pc \notin Unaimed
  <2>1. Sound(inv[v], rows[r])
    BY <1>2, SoundNow
  <2>2. /\ inv[v].row.status \in Waiting /\ inv[v].pc \in {"claim", "claimed", "transition"}
        /\ JobKnown(inv[v].row) /\ inv[v].row.job = NoJob
    BY <1>2, <2>1 DEF Sound, SnapshotSound, JobKnown
  <2>3. PickSound(inv[v], row) /\ SnapshotSound(inv[v], row)
    BY <1>2, <2>1, <2>2 DEF Sound, PickSound, SnapshotSound
  <2> QED
    BY <2>2, <2>3 DEF Sound, LauncherSound, Launcher, Posts, Failing, TrackerSound,
       Tracking, StarterSound, Waiting
<1> QED
  BY <1>1, <1>2

LEMMA SteadyInsert ==
  ASSUME QueueInv, SteadyInv, NEW w \in Workers, NEW r \in Runs, At(w, "idle"),
         rows[r].status = "absent", Write(w, r, Queued, [Idle EXCEPT !.pc = "pump"]),
         UNCHANGED <<cloud, outcome, found, cooling>>
  PROVE  SteadyInv'
<1>1. ~Queued.slot /\ Queued.status = "queued" /\ Queued.stage = "queued"
  BY DEF Queued, NoRow
<1>2. [Idle EXCEPT !.pc = "pump"].pc \in Unaimed /\ ~Launcher([Idle EXCEPT !.pc = "pump"])
  BY UnaimedOK, IdleSound DEF Unaimed
<1>3. rows[r].status \in Waiting /\ ~HoldsSlot(r)
  BY DEF Waiting, QueueInv, SnapshotInv, RowOK, HoldsSlot
<1>4. \A v \in Workers \ {w} : inv[v].id = r => Sound(inv[v], Queued)
  BY <1>1, <1>3, WaitingSound
<1>5. RowSteady(Queued, r)
  BY <1>1 DEF RowSteady, Waiting, Terminal, CrawlStages
<1>6. PICK n : n = [Idle EXCEPT !.pc = "pump"]
  OBVIOUS
<1>7. /\ n.pc \in Unaimed /\ ~Launcher(n) /\ Write(w, r, Queued, n) /\ ~At(w, "setJob")
      /\ \A j \in Jobs : Live(j) => cloud[j].run # r
  BY <1>2, <1>3, <1>6, Unheld DEF At
<1> QED
  BY <1>4, <1>5, <1>7, SteadyWrite

LEMMA SteadyClaim ==
  ASSUME QueueInv, SteadyInv, NEW w \in Workers, Claim(w)
  PROVE  SteadyInv'
<1> DEFINE r    == inv[w].id
           next == [inv[w] EXCEPT !.pc = "claimed"]
           new  == [rows[r] EXCEPT !.status = "starting", !.stage = StartStage(r), !.slot = TRUE]
<1>1. /\ inv[w].pc = "claim" /\ inv[w].pc \notin Unaimed
      /\ UNCHANGED <<cloud, outcome, found, cooling>>
  BY DEF Claim, At, Unaimed
<1>2. r \in Runs /\ inv[w] \in Invocation /\ Sound(inv[w], rows[r])
  BY <1>1, SoundNow
<1>3. inv[w].row.status = "queued" /\ JobKnown(inv[w].row)
  BY <1>1, <1>2 DEF Sound, PickSound, SnapshotSound
<1>4. next.pc = "claimed" /\ next.id = r /\ next.row = inv[w].row
  BY <1>2 DEF Invocation
<1>5. ASSUME NEW row, row.slot /\ row.status # "starting" => ~CoolingFor(r)
      PROVE  Sound(next, row) /\ ~Launcher(next)
  BY <1>3, <1>4, <1>5 DEF Sound, LauncherSound, Launcher, Posts, Failing, TrackerSound, Tracking,
     PickSound, StarterSound, SnapshotSound, Waiting
<1>6. CASE Claimable(r) /\ Write(w, r, new, next)
  <2>1. rows[r].status \in Waiting /\ ~HoldsSlot(r) /\ rows[r] \in Row
    BY <1>2, <1>6 DEF Claimable, Waiting, QueueInv, SnapshotInv, RowOK, HoldsSlot, TypeOK
  <2>2. new.status = "starting" /\ new.stage = StartStage(r) /\ new.slot
    BY <2>1 DEF Row
  <2>3. ~CoolingFor(r)
    <3>1. \A j \in Jobs : ~Live(j)
      BY <1>6 DEF SteadyInv, JobSteady, Claimable, SlotTaken
    <3> QED
      BY <1>1, <1>2, <3>1 DEF Sound, PickSound
  <2>4. \A v \in Workers \ {w} : inv[v].id = r => Sound(inv[v], new)
    BY <1>2, <2>1, <2>2, <2>3, WaitingSound
  <2>5. RowSteady(new, r)
    <3>1. StartStage(r) = "discovering" => Mode[r] = "find_sellers"
      BY <1>2, ConstantsAssumption DEF StartStage, Modes
    <3> QED
      BY <2>2, <3>1 DEF RowSteady, Terminal, CrawlStages
  <2>6. \A j \in Jobs : Live(j) => cloud[j].run # r
    BY <1>2, <2>1, Unheld
  <2>7. Sound(next, new) /\ ~Launcher(next)
    BY <1>5, <2>2
  <2> HIDE DEF new, next, r
  <2> QED
    BY <1>1, <1>2, <1>4, <1>6, <2>4, <2>5, <2>6, <2>7, SteadyWrite DEF At
<1>7. CASE Proceed(w, next)
  <2>1. Sound(next, rows[r]) /\ ~Launcher(next)
    BY <1>1, <1>2, <1>5 DEF Sound, PickSound
  <2> HIDE DEF next
  <2> QED
    BY <1>1, <1>4, <1>7, <2>1, SteadyRead
<1> QED
  BY <1>6, <1>7 DEF Claim

(* Whoever wins the launch of a discovery has seen no cooldown, so nobody  *)
(* is about to end the run for one.                                        *)
LEMMA SteadyClaimLaunch ==
  ASSUME QueueInv, TimelyInv, SteadyInv, NEW w \in Workers, ClaimLaunch(w)
  PROVE  SteadyInv'
<1> DEFINE r    == inv[w].id
           new  == [rows[r] EXCEPT !.status = "launching"]
           next == [inv[w] EXCEPT !.pc = "post", !.row.status = "launching"]
<1>1. /\ inv[w].pc = "claimLaunch" /\ inv[w].pc \notin Unaimed
      /\ UNCHANGED <<cloud, outcome, found, cooling>>
  BY DEF ClaimLaunch, At, Unaimed
<1>2. /\ r \in Runs /\ inv[w] \in Invocation /\ Sound(inv[w], rows[r])
      /\ rows[r] \in Row /\ RowOK(rows[r]) /\ RowSteady(rows[r], r)
      /\ inv[w].row.status # "launching"
  BY <1>1, SoundNow DEF QueueInv, SnapshotInv, InvocationOK, TypeOK, SteadyInv
<1>3. CASE Launchable(w) /\ Write(w, r, new, next)
  <2>1. /\ rows[r].slot /\ rows[r].job = NoJob /\ rows[r].status = inv[w].row.status
        /\ rows[r].stage = inv[w].row.stage
    BY <1>1, <1>3 DEF Launchable, QueueInv, LaunchInv, Current
  <2>2. rows[r].status \in Ready /\ rows[r].status # "launching"
    BY <1>2, <2>1 DEF RowOK
  <2>3. inv[w].row.job = NoJob /\ (rows[r].stage = "discovering" => ~cooling)
    BY <1>1, <1>2, <2>1, <2>2 DEF Sound, SnapshotSound, StarterSound, JobKnown
  <2>4. /\ new.status = "launching" /\ new.job = NoJob /\ new.stage = rows[r].stage
        /\ new.slot
    BY <1>2, <2>1 DEF Row
  <2>5. /\ next.pc = "post" /\ next.id = r /\ next.row.stage = inv[w].row.stage
        /\ next.row.job = NoJob /\ next.row.status = "launching"
    BY <1>2, <2>3 DEF Row, Invocation
  <2>6. Sound(next, new)
    BY <2>1, <2>4, <2>5 DEF Sound, LauncherSound, Launcher, Posts, Failing, TrackerSound, Tracking,
       PickSound, StarterSound, SnapshotSound, JobKnown, Waiting
  <2>7. ASSUME NEW v \in Workers, inv[v].id = r
        PROVE  ~Launcher(inv[v]) /\ Sound(inv[v], new)
    <3>1. CASE inv[v].pc \in Unaimed
      BY <3>1, UnaimedSound
    <3>2. CASE inv[v].pc \notin Unaimed
      <4>1. Sound(inv[v], rows[r])
        BY <2>7, <3>2, SoundNow
      <4>2. ~Launcher(inv[v])
        BY <2>2, <4>1 DEF Sound, LauncherSound
      <4>3. TrackerSound(inv[v], new)
        BY <2>1, <2>4, <4>1 DEF Sound, TrackerSound
      <4>4. StarterSound(inv[v], new)
        BY <2>1, <2>3, <2>4, <4>1 DEF Sound, StarterSound
      <4>5. PickSound(inv[v], new) /\ SnapshotSound(inv[v], new)
        <5>1. CoolingFor(r) => rows[r].status # "starting"
          BY <1>2, <2>3 DEF CoolingFor, RowSteady, StartStage
        <5> QED
          BY <2>1, <2>4, <2>7, <4>1, <5>1 DEF Sound, PickSound, SnapshotSound, Waiting
      <4> QED
        BY <4>2, <4>3, <4>4, <4>5 DEF Sound, LauncherSound
    <3> QED
      BY <3>1, <3>2
  <2>8. RowSteady(new, r)
    BY <1>2, <2>4 DEF RowSteady, Terminal, CrawlStages
  <2>9. ASSUME NEW j \in Jobs, Live(j), cloud[j].run = r
        PROVE  \E v \in Workers \ {w} : At(v, "setJob") /\ inv[v].job = j
    BY <1>1, <2>1, <2>9, ConstantsAssumption DEF SteadyInv, JobSteady, Recording, At
  <2> HIDE DEF new, next, r
  <2> QED
    BY <1>1, <1>2, <1>3, <2>4, <2>5, <2>6, <2>7, <2>8, <2>9, SteadyWrite DEF At
<1>4. CASE Proceed(w, Done(w))
  BY <1>1, <1>4, SteadyEnds DEF Unaimed
<1> QED
  BY <1>3, <1>4 DEF ClaimLaunch

(* The job that is accepted is new, and its stage had none.                *)
LEMMA SteadyPost ==
  ASSUME Steady, QueueInv, TimelyInv, SteadyInv, NEW w \in Workers, Post(w)
  PROVE  SteadyInv'
<1> DEFINE r == inv[w].id
           s == inv[w].row.stage
<1>1. /\ inv[w].pc = "post" /\ inv[w].pc \notin Unaimed /\ Launcher(inv[w])
      /\ UNCHANGED <<outcome, found, cooling>>
  BY DEF Post, At, Unaimed, Launcher, Posts
<1>2. r \in Runs /\ inv[w] \in Invocation /\ Sound(inv[w], rows[r])
  BY <1>1, SoundNow
<1>3. /\ inv[w].row.status = "launching" /\ JobKnown(inv[w].row) /\ inv[w].row.job = NoJob
      /\ rows[r].slot /\ rows[r].status = "launching" /\ rows[r].stage = s
  BY <1>1, <1>2 DEF Sound, LauncherSound, SnapshotSound, JobKnown
<1>4. CASE Proceed(w, LaunchFailed(w)) /\ UNCHANGED cloud
  <2>1. PICK n : n = LaunchFailed(w)
    OBVIOUS
  <2>2. n.pc = "transition" /\ n.id = r /\ n.row = inv[w].row /\ n.toStage = s
    BY <2>1, TowardsPlain DEF LaunchFailed
  <2>3. ~Launched(r, s)
    BY <1>1 DEF QueueInv, LaunchInv, At
  <2>4. SnapshotSound(n, rows[r])
    BY <1>3, <2>2 DEF SnapshotSound, Waiting
  <2>5. Sound(n, rows[r])
    BY <1>3, <2>2, <2>3, <2>4 DEF Sound, LauncherSound, Launcher, Failing, TrackerSound, Tracking,
       PickSound, StarterSound, Waiting
  <2> QED
    BY <1>1, <1>4, <2>1, <2>2, <2>5, SteadyRead
<1>5. ASSUME NEW j \in Jobs, Accept(w, j), Proceed(w, [inv[w] EXCEPT !.pc = "setJob", !.job = j])
      PROVE  SteadyInv'
  <2>1. PICK n : n = [inv[w] EXCEPT !.pc = "setJob", !.job = j]
    OBVIOUS
  <2>2. n.pc = "setJob" /\ n.job = j /\ n.id = r /\ n.row = inv[w].row
    BY <1>2, <2>1 DEF Invocation
  <2>3. /\ UNCHANGED rows
        /\ \A v \in Workers : inv'[v] = IF v = w THEN n ELSE inv[v]
    BY <1>5, <2>1 DEF Proceed, QueueInv, SnapshotInv, TypeOK
  <2>4. /\ cloud[j].state = "free"
        /\ cloud'[j] = [run |-> r, stage |-> s, state |-> "live", close |-> "none"]
        /\ \A k \in Jobs \ {j} : cloud'[k] = cloud[k]
    BY <1>5 DEF Accept, QueueInv, SnapshotInv, TypeOK
  <2>5. ASSUME NEW q, NEW t
        PROVE  /\ Tagged(q, t)' = Tagged(q, t) \cup (IF q = r /\ t = s THEN {j} ELSE {})
               /\ j \notin Tagged(q, t)
    BY <2>4 DEF Tagged, Accepted
  <2>6. ASSUME NEW k \in Jobs, k # j
        PROVE  (Finished(k)' <=> Finished(k)) /\ cloud'[k].close = cloud[k].close
               /\ (GoesOn(k)' <=> GoesOn(k))
    BY <1>1, <2>4, <2>6 DEF Finished, GoesOn, Ends, NextStage, HasCandidates, HasTargets
  <2>7. ~Finished(j)'
    BY <2>4 DEF Finished
  <2>8. ASSUME NEW q, NEW t PROVE Ends(q, t)' <=> Ends(q, t)
    BY <1>1 DEF Ends, NextStage, HasCandidates, HasTargets
  <2>9. ASSUME NEW v \in Workers PROVE Sound(inv[v], rows[inv[v].id])'
    <3>1. PICK i, row : i = inv'[v] /\ row = rows[i.id]
      OBVIOUS
    <3>2. CASE v = w
      <4>1. SnapshotSound(i, row)'
        BY <1>3, <2>2, <2>3, <3>1, <3>2 DEF SnapshotSound, Waiting
      <4>2. Sound(i, row)'
        BY <1>3, <2>2, <2>3, <3>1, <3>2, <4>1 DEF Sound, LauncherSound, Launcher, Posts, Failing,
           TrackerSound, Tracking, PickSound, StarterSound, Waiting
      <4> QED
        BY <2>3, <3>1, <4>2
    <3>3. CASE v # w
      <4>1. Sound(i, row) /\ i = inv[v]
        BY <2>3, <3>1, <3>3 DEF SteadyInv
      <4>2. LauncherSound(i, row)'
        <5>1. Launcher(i) => i.id # r
          BY <1>1, <3>3, <4>1 DEF SteadyInv, OneLauncher
        <5> QED
          BY <2>5, <4>1, <5>1 DEF Sound, LauncherSound, Failing, Launcher, Launched
      <4>3. TrackerSound(i, row)'
        <5>1. Tracking(i) => i.row.job \in Jobs /\ i.row.job # j
          BY <2>5, <4>1 DEF Sound, TrackerSound, Tagged
        <5> QED
          BY <1>1, <2>5, <2>6, <2>8, <4>1, <5>1 DEF Sound, TrackerSound
      <4>4. StarterSound(i, row)'
        <5>1. \A k \in Tagged(i.id, "discovering") : k \in Jobs /\ k # j
          BY <2>5 DEF Tagged
        <5>2. (\A k \in Tagged(i.id, "discovering") : ~Finished(k)) =>
                (\A k \in Tagged(i.id, "discovering") : ~Finished(k))'
          BY <2>5, <2>6, <2>7, <5>1
        <5> QED
          BY <1>1, <4>1, <5>2 DEF Sound, StarterSound
      <4>5. PickSound(i, row)' /\ SnapshotSound(i, row)'
        <5>1. (\E k \in Jobs : Live(k)) => (\E k \in Jobs : Live(k))'
          BY <2>4 DEF Live
        <5> QED
          BY <1>1, <4>1, <5>1 DEF Sound, PickSound, SnapshotSound, CoolingFor
      <4> QED
        BY <2>3, <3>1, <4>2, <4>3, <4>4, <4>5 DEF Sound
    <3> QED
      BY <3>2, <3>3
  <2>10. ASSUME NEW q \in Runs PROVE RowSteady(rows[q], q)'
    <3>1. rows[r].status \notin Terminal
      BY <1>3 DEF Terminal
    <3>2. q # r => (Launched(q, rows[q].stage)' <=> Launched(q, rows[q].stage))
      BY <2>3, <2>5 DEF Launched
    <3> QED
      BY <2>3, <3>1, <3>2 DEF SteadyInv, RowSteady
  <2>11. ASSUME NEW k \in Jobs PROVE JobSteady(k)'
    <3>1. CASE k = j
      BY <1>2, <1>3, <2>2, <2>3, <2>4, <3>1 DEF JobSteady, Live, HoldsSlot, Recording, At
    <3>2. CASE k # j
      <4>1. Recording(k) => Recording(k)'
        BY <1>1, <2>3 DEF Recording, At
      <4> QED
        BY <2>3, <2>4, <2>6, <3>2, <4>1 DEF SteadyInv, JobSteady, Live, HoldsSlot
    <3> QED
      BY <3>1, <3>2
  <2>12. OneLauncher'
    BY <1>1, <2>2, <2>3 DEF SteadyInv, OneLauncher, Launcher, Posts, Failing
  <2> QED
    BY <2>9, <2>10, <2>11, <2>12 DEF SteadyInv
<1> QED
  BY <1>4, <1>5 DEF Post, Steady, Timely

(* The launcher is the only one; nobody else expects the row without a     *)
(* job, and nobody is about to end the run.                                *)
LEMMA SteadySetJob ==
  ASSUME Steady, QueueInv, TimelyInv, SteadyInv, NEW w \in Workers, SetJob(w)
  PROVE  SteadyInv'
<1> DEFINE r   == inv[w].id
           new == Tracked(rows[r], inv[w].job)
<1>1. /\ inv[w].pc = "setJob" /\ inv[w].pc \notin Unaimed /\ Launcher(inv[w])
      /\ UNCHANGED <<cloud, outcome, found, cooling>>
  BY DEF SetJob, At, Unaimed, Launcher, Posts
<1>2. /\ r \in Runs /\ inv[w] \in Invocation /\ Sound(inv[w], rows[r])
      /\ rows[r] \in Row /\ RowOK(rows[r]) /\ RowSteady(rows[r], r)
  BY <1>1, SoundNow DEF QueueInv, SnapshotInv, TypeOK, SteadyInv
<1>3. rows[r].slot /\ rows[r].status = "launching" /\ rows[r].job = NoJob
  BY <1>1, <1>2 DEF Sound, LauncherSound, RowOK
<1>4. Write(w, r, new, Done(w))
  BY DEF SetJob, Steady, Timely
<1>5. /\ new.status = "running" /\ new.job = inv[w].job /\ new.slot
      /\ new.stage = rows[r].stage
  BY <1>2, <1>3 DEF Tracked, Row
<1>6. cloud[inv[w].job].run = r
  BY <1>1 DEF TimelyInv, TimelySound, Tagged
<1>7. ASSUME NEW v \in Workers \ {w}, inv[v].id = r
      PROVE  Sound(inv[v], new)
  <2>1. CASE inv[v].pc \in Unaimed
    BY <2>1, UnaimedSound
  <2>2. CASE inv[v].pc \notin Unaimed
    <3>1. Sound(inv[v], rows[r])
      BY <1>7, <2>2, SoundNow
    <3>2. ~Launcher(inv[v])
      BY <1>1, <1>7 DEF SteadyInv, OneLauncher
    <3>3. TrackerSound(inv[v], new)
      BY <1>3, <1>5, <3>1 DEF Sound, TrackerSound, Tracking
    <3>4. StarterSound(inv[v], new)
      BY <1>3, <1>5, <3>1 DEF Sound, StarterSound
    <3>5. PickSound(inv[v], new) /\ SnapshotSound(inv[v], new)
      BY <1>3, <1>5, <3>1 DEF Sound, PickSound, SnapshotSound, Waiting
    <3> QED
      BY <3>2, <3>3, <3>4, <3>5 DEF Sound, LauncherSound
  <2> QED
    BY <2>1, <2>2
<1>8. RowSteady(new, r)
  BY <1>2, <1>5 DEF RowSteady, Terminal, CrawlStages
<1>9. ASSUME NEW j \in Jobs, Live(j), cloud[j].run = r
      PROVE  new.slot /\ new.job = j
  <2>1. Recording(j)
    BY <1>3, <1>9, ConstantsAssumption DEF SteadyInv, JobSteady
  <2>2. PICK v \in Workers : At(v, "setJob") /\ inv[v].job = j
    BY <2>1 DEF Recording
  <2>3. inv[v].id = r /\ Launcher(inv[v])
    BY <1>9, <2>2 DEF TimelyInv, TimelySound, Tagged, At, Launcher, Posts
  <2>4. v = w
    BY <1>1, <2>3 DEF SteadyInv, OneLauncher
  <2> QED
    BY <1>5, <2>2, <2>4
<1> HIDE DEF new, r
<1>10. Done(w).pc \in Unaimed /\ ~Launcher(Done(w))
  BY DonePlain, DoneSound
<1> QED
  BY <1>1, <1>2, <1>4, <1>6, <1>7, <1>8, <1>9, <1>10, SteadyWrite

(* Whoever ends a run has either failed to launch it, has seen its job     *)
(* finish, or has not launched it: nothing of it is at work.               *)
LEMMA EndsAtRest ==
  ASSUME QueueInv, TimelyInv, SteadyInv, NEW w \in Workers, At(w, "transition")
  PROVE  /\ \A j \in Jobs : Live(j) => cloud[j].run # inv[w].id
         /\ \A v \in Workers \ {w} : Launcher(inv[v]) => inv[v].id # inv[w].id
<1> DEFINE r == inv[w].id
<1>1. /\ r \in Runs /\ Sound(inv[w], rows[r]) /\ RowOK(rows[r]) /\ inv[w].pc \notin Unaimed
      /\ inv[w].pc = "transition"
  BY SoundNow DEF QueueInv, SnapshotInv, At, Unaimed
<1>2. ASSUME NEW v \in Workers, Launcher(inv[v]), inv[v].id = r
      PROVE  rows[r].slot /\ rows[r].status = "launching" /\ rows[r].job = NoJob
  <2>1. inv[v].pc \notin Unaimed
    BY <1>2 DEF Launcher, Posts, Failing, Unaimed
  <2> QED
    BY <1>1, <1>2, <2>1, SoundNow DEF Sound, LauncherSound, RowOK
<1>3. ASSUME NEW j \in Jobs, Live(j), cloud[j].run = r, rows[r].job # j
      PROVE  \E v \in Workers : Launcher(inv[v]) /\ inv[v].id = r /\ v # w
  <2>1. PICK v \in Workers : At(v, "setJob") /\ inv[v].job = j
    BY <1>3 DEF SteadyInv, JobSteady, Recording
  <2> QED
    BY <1>1, <1>3, <2>1 DEF TimelyInv, TimelySound, Tagged, At, Launcher, Posts
<1>4. rows[r].slot => ~(rows[r].job \in Jobs /\ Live(rows[r].job))
  <2>1. CASE inv[w].row.status = "launching"
    BY <1>1, <2>1, ConstantsAssumption DEF Sound, LauncherSound, Launcher, Failing, RowOK
  <2>2. CASE inv[w].row.status \in Waiting
    BY <1>1, <2>2 DEF Sound, PickSound
  <2>3. CASE inv[w].row.job # NoJob
    BY <1>1, <2>3 DEF Sound, TrackerSound, Tracking, Finished, GoesOn, Live
  <2>4. CASE inv[w].row.status \notin Waiting \cup {"launching"} /\ inv[w].row.job = NoJob
    BY <1>1, <2>4, ConstantsAssumption DEF Sound, StarterSound, RowOK
  <2> QED
    BY <2>1, <2>2, <2>3, <2>4
<1>5. ASSUME NEW v \in Workers \ {w}, Launcher(inv[v]), inv[v].id = r
      PROVE  FALSE
  <2>1. rows[r].slot /\ rows[r].status = "launching" /\ rows[r].job = NoJob
    BY <1>2, <1>5
  <2>2. ~Launcher(inv[w])
    BY <1>5 DEF SteadyInv, OneLauncher
  <2>3. inv[w].row.status # "launching"
    BY <1>1, <2>2 DEF Launcher, Failing
  <2>4. CASE inv[w].row.status \in Waiting
    BY <1>1, <2>1, <2>4 DEF Sound, PickSound
  <2>5. CASE inv[w].row.job # NoJob
    BY <1>1, <2>1, <2>5 DEF Sound, TrackerSound, Tracking
  <2>6. CASE inv[w].row.status \notin Waiting /\ inv[w].row.job = NoJob
    BY <1>1, <2>1, <2>3, <2>6 DEF Sound, StarterSound
  <2> QED
    BY <2>4, <2>5, <2>6
<1>6. ASSUME NEW j \in Jobs, Live(j), cloud[j].run = r PROVE FALSE
  <2>1. rows[r].slot
    BY <1>6 DEF SteadyInv, JobSteady, HoldsSlot
  <2> QED
    BY <1>3, <1>4, <1>5, <1>6, <2>1
<1> QED
  BY <1>5, <1>6

LEMMA SteadyTransition ==
  ASSUME QueueInv, TimelyInv, SteadyInv, NEW w \in Workers, Transition(w)
  PROVE  SteadyInv'
<1> DEFINE r   == inv[w].id
           new == [rows[r] EXCEPT !.status = inv[w].to, !.stage = inv[w].toStage,
                                  !.slot = SlotAfter(w)]
<1>1. /\ inv[w].pc = "transition" /\ inv[w].pc \notin Unaimed /\ inv[w].to \in Terminal
      /\ UNCHANGED <<cloud, outcome, found, cooling>> /\ Write(w, r, new, Done(w))
  BY DEF Transition, At, QueueInv, SnapshotInv, InvocationOK, Unaimed
<1>2. /\ r \in Runs /\ inv[w] \in Invocation /\ Sound(inv[w], rows[r]) /\ rows[r] \in Row
      /\ RowSteady(rows[r], r)
  BY <1>1, SoundNow DEF QueueInv, SnapshotInv, TypeOK, SteadyInv
<1>3. new.status \in Terminal /\ new.stage = inv[w].toStage /\ ~new.slot
  BY <1>1, <1>2 DEF SlotAfter, Row
<1>4. /\ \A j \in Jobs : Live(j) => cloud[j].run # r
      /\ \A v \in Workers \ {w} : Launcher(inv[v]) => inv[v].id # r
  BY <1>1, EndsAtRest DEF At
<1>5. ASSUME NEW v \in Workers \ {w}, inv[v].id = r
      PROVE  Sound(inv[v], new)
  <2>1. CASE inv[v].pc \in Unaimed
    BY <2>1, UnaimedSound
  <2>2. CASE inv[v].pc \notin Unaimed
    <3>1. Sound(inv[v], rows[r])
      BY <1>5, <2>2, SoundNow
    <3> QED
      BY <1>3, <1>4, <1>5, <3>1 DEF Sound, LauncherSound, TrackerSound, StarterSound, PickSound,
         SnapshotSound, Terminal, Waiting
  <2> QED
    BY <2>1, <2>2
<1>6. RowSteady(new, r)
  <2>1. new.stage \in CrawlStages =>
          new.stage = rows[r].stage /\ ~Launched(r, new.stage)
    BY <1>1, <1>2, <1>3 DEF Sound, SnapshotSound, LauncherSound, Launcher, Failing
  <2> QED
    BY <1>2, <1>3, <2>1 DEF RowSteady, Terminal, CrawlStages
<1> HIDE DEF new, r
<1>7. Done(w).pc \in Unaimed /\ ~Launcher(Done(w))
  BY DonePlain, DoneSound
<1> QED
  BY <1>1, <1>2, <1>4, <1>5, <1>6, <1>7, SteadyWrite DEF At

(* A run that is handed on holds the unit still: one that has ended at     *)
(* this stage would not have been launched there.                          *)
LEMMA HandsOn ==
  ASSUME QueueInv, TimelyInv, SteadyInv, NEW w \in Workers, At(w, "handoff"),
         rows[inv[w].id].stage = inv[w].row.stage
  PROVE  /\ HoldsSlot(inv[w].id)
         /\ inv[w].row.job \in Tagged(inv[w].id, inv[w].row.stage)
         /\ GoesOn(inv[w].row.job)
<1> DEFINE r == inv[w].id
           s == inv[w].row.stage
           k == inv[w].row.job
<1>1. /\ r \in Runs /\ Sound(inv[w], rows[r]) /\ inv[w].pc = "handoff"
      /\ s \in CrawlStages /\ s \in StageNames
  <2>1. inv[w].pc = "handoff" /\ inv[w].pc \notin Unaimed
    BY DEF At, Unaimed
  <2>2. r \in Runs /\ Sound(inv[w], rows[r]) /\ inv[w].toStage \in After(s)
    BY <2>1, SoundNow DEF QueueInv, SnapshotInv, InvocationOK
  <2> QED
    BY <2>1, <2>2 DEF After, CrawlStages, StageNames
<1>2. k \in Tagged(r, s) /\ k # NoJob /\ Launched(r, s)
  BY <1>1, ConstantsAssumption DEF TimelyInv, TimelySound, Polls, Tagged, Launched
<1>3. GoesOn(k)
  BY <1>1, <1>2 DEF Sound, TrackerSound, Tracking, GoesOn, Tagged
<1>4. rows[r].status \notin Waiting
  BY <1>1, <1>2, WaitingUnposted
<1>5. rows[r].slot
  BY <1>1, <1>2, <1>4 DEF SteadyInv, RowSteady
<1> QED
  BY <1>2, <1>3, <1>5 DEF HoldsSlot

LEMMA SteadyHandoff ==
  ASSUME QueueInv, TimelyInv, SteadyInv, NEW w \in Workers, Handoff(w)
  PROVE  SteadyInv'
<1> DEFINE r    == inv[w].id
           s    == inv[w].toStage
           k    == inv[w].row.job
           new  == HandedTo(rows[r], s)
           next == [inv[w] EXCEPT !.pc = "handedOff"]
<1>1. /\ inv[w].pc = "handoff" /\ inv[w].pc \notin Unaimed
      /\ UNCHANGED <<cloud, outcome, found, cooling>>
  BY DEF Handoff, At, Unaimed
<1>2. /\ r \in Runs /\ inv[w] \in Invocation /\ Sound(inv[w], rows[r]) /\ rows[r] \in Row
      /\ RowOK(rows[r]) /\ RowSteady(rows[r], r) /\ s \in After(inv[w].row.stage)
  BY <1>1, SoundNow DEF QueueInv, SnapshotInv, TypeOK, SteadyInv, InvocationOK
<1>3. CASE Proceed(w, Done(w))
  BY <1>1, <1>3, SteadyEnds DEF Unaimed
<1>4. CASE rows[r].stage = inv[w].row.stage /\ Write(w, r, new, next)
  <2>1. HoldsSlot(r) /\ k \in Tagged(r, rows[r].stage) /\ GoesOn(k) /\ Finished(k)
    BY <1>1, <1>4, HandsOn DEF At, GoesOn
  <2>2. ASSUME NEW j \in Jobs, j \in Tagged(r, rows[r].stage) PROVE j = k
    BY <2>1, <2>2 DEF Tagged, QueueInv, LaunchInv, LaunchOnce
  <2>3. Launched(r, rows[r].stage)
    BY <2>1 DEF Launched
  <2>4. /\ new.status = s /\ new.stage = s /\ new.job = NoJob /\ new.slot
        /\ s \in {"resolving", "enriching"}
    BY <1>2, <2>1 DEF HandedTo, Row, After, HoldsSlot
  <2>5. next.pc = "handedOff" /\ next.id = r /\ next.row = inv[w].row
    BY <1>2 DEF Invocation
  <2>6. Sound(next, new) /\ ~Launcher(next)
    <3>1. JobKnown(inv[w].row) /\ inv[w].row.status \notin Waiting
      BY <1>1, <1>2 DEF Sound, SnapshotSound
    <3> QED
      BY <2>4, <2>5, <3>1 DEF Sound, LauncherSound, Launcher, Posts, Failing, TrackerSound, Tracking,
         PickSound, StarterSound, SnapshotSound, Waiting
  <2>7. ASSUME NEW v \in Workers, Launcher(inv[v]) PROVE inv[v].id # r
    <3>1. SUFFICES ASSUME inv[v].id = r PROVE FALSE
      OBVIOUS
    <3>2. inv[v].pc \notin Unaimed
      BY <2>7 DEF Launcher, Posts, Failing, Unaimed
    <3>3. inv[v].row.stage = rows[r].stage /\ ~Failing(inv[v])
      BY <2>3, <2>7, <3>1, <3>2, SoundNow DEF Sound, LauncherSound
    <3>4. At(v, "setJob") /\ inv[v].job = k
      BY <1>2, <2>1, <2>7, <3>1, <3>3, OneRecorder DEF Launcher
    <3> QED
      BY <1>1, <3>4 DEF TimelyInv, Recorded, Polls
  <2>8. ASSUME NEW v \in Workers \ {w}, inv[v].id = r
        PROVE  Sound(inv[v], new)
    <3>1. CASE inv[v].pc \in Unaimed
      BY <3>1, UnaimedSound
    <3>2. CASE inv[v].pc \notin Unaimed
      <4>1. Sound(inv[v], rows[r]) /\ ~Launcher(inv[v])
        BY <2>7, <2>8, <3>2, SoundNow
      <4>2. TrackerSound(inv[v], new)
        <5>1. ASSUME Tracking(inv[v]) PROVE GoesOn(inv[v].row.job)
          <6>1. CASE rows[r].job = inv[v].row.job
            <7>1. rows[r].job \in Tagged(r, rows[r].stage) /\ rows[r].job \in Jobs
              BY <1>2, <2>1, <5>1, <6>1 DEF TimelyInv, RowTracked, Tracking, HoldsSlot, Tagged
            <7> QED
              BY <2>1, <2>2, <6>1, <7>1
          <6>2. CASE rows[r].job # inv[v].row.job
            BY <2>1, <4>1, <5>1, <6>2 DEF Sound, TrackerSound, HoldsSlot
          <6> QED
            BY <6>1, <6>2
        <5> QED
          BY <2>1, <2>4, <4>1, <5>1 DEF Sound, TrackerSound, HoldsSlot
      <4>3. StarterSound(inv[v], new)
        <5>1. inv[v].row.job = NoJob => inv[v].pc # "start"
          BY <2>1, <2>8, <4>1 DEF Sound, StarterSound, HoldsSlot
        <5>2. rows[r].status \notin Ready
          BY <1>2, <2>1, <2>3, ReadyUnlaunched
        <5>3. inv[v].row.job = NoJob /\ inv[v].pc = "transition" =>
                inv[v].row.status \in Waiting \cup {"launching"}
          BY <2>1, <4>1, <5>2 DEF Sound, StarterSound, HoldsSlot, Ready
        <5> QED
          BY <2>1, <4>1, <5>1, <5>3 DEF Sound, StarterSound, HoldsSlot
      <4>4. PickSound(inv[v], new) /\ SnapshotSound(inv[v], new)
        <5>1. rows[r].status # "starting"
          BY <1>2, <2>1, <2>3, ReadyUnlaunched DEF Ready
        <5> QED
          BY <2>1, <2>4, <2>8, <4>1, <5>1 DEF Sound, PickSound, SnapshotSound, HoldsSlot, Waiting
      <4> QED
        BY <4>1, <4>2, <4>3, <4>4 DEF Sound, LauncherSound
    <3> QED
      BY <3>1, <3>2
  <2>9. RowSteady(new, r)
    BY <2>4 DEF RowSteady, Terminal
  <2>10. ASSUME NEW j \in Jobs, Live(j), cloud[j].run = r PROVE FALSE
    <3>1. CASE rows[r].job = j
      <4>1. j \in Tagged(r, rows[r].stage)
        BY <1>2, <2>1, <2>10, <3>1, ConstantsAssumption DEF TimelyInv, RowTracked, HoldsSlot
      <4> QED
        BY <2>1, <2>2, <2>10, <4>1 DEF Live, Finished
    <3>2. CASE rows[r].job # j
      <4>1. PICK v \in Workers : At(v, "setJob") /\ inv[v].job = j
        BY <2>10, <3>2 DEF SteadyInv, JobSteady, Recording
      <4>2. inv[v].id = r /\ Launcher(inv[v])
        BY <2>10, <4>1 DEF TimelyInv, TimelySound, Tagged, At, Launcher, Posts
      <4> QED
        BY <2>7, <4>2
    <3> QED
      BY <3>1, <3>2
  <2> HIDE DEF new, next, r
  <2> QED
    BY <1>1, <1>2, <1>4, <2>5, <2>6, <2>8, <2>9, <2>10, SteadyWrite DEF At
<1> QED
  BY <1>3, <1>4 DEF Handoff

(* A stage that has been launched comes after those that went on.          *)
LEMMA EarlierStage ==
  ASSUME QueueInv, TimelyInv, SteadyInv, NEW k \in Jobs, Live(k),
         NEW j \in Jobs, j # k, Accepted(j), cloud[j].run = cloud[k].run
  PROVE  cloud[j].stage \notin {cloud[k].stage} \cup After(cloud[k].stage)
<1> DEFINE r == cloud[k].run
<1>1. /\ JobSteady(k) /\ r \in Runs /\ HoldsSlot(r)
      /\ rows[r].job = k \/ Recording(k)
  BY DEF SteadyInv, JobSteady
<1>2. k \in Tagged(r, rows[r].stage) /\ rows[r].status \notin Waiting
  <2>1. CASE rows[r].job = k
    BY <1>1, <2>1, ConstantsAssumption DEF TimelyInv, RowTracked, HoldsSlot, QueueInv, SnapshotInv, RowOK
  <2>2. CASE Recording(k)
    <3>1. PICK v \in Workers : At(v, "setJob") /\ inv[v].job = k
      BY <2>2 DEF Recording
    <3>2. k \in Tagged(inv[v].id, inv[v].row.stage) /\ inv[v].id = r
      BY <3>1 DEF TimelyInv, TimelySound, At, Tagged
    <3>3. rows[r].stage = inv[v].row.stage /\ rows[r].status = "launching"
      BY <1>1, <3>1, <3>2 DEF TimelyInv, TimelySound, Posts, At
    <3> QED
      BY <3>2, <3>3 DEF Waiting
  <2> QED
    BY <1>1, <2>1, <2>2
<1>3. rows[r].stage = cloud[k].stage
  BY <1>2 DEF Tagged
<1>4. \A s \in After(cloud[k].stage) : ~Launched(r, s)
  <2>1. After(cloud[k].stage) \subseteq Due(rows[r])
    BY <1>1, <1>2, <1>3 DEF Due, From, HoldsSlot
  <2> QED
    BY <1>1, <2>1 DEF QueueInv, LaunchInv
<1>5. cloud[j].stage \notin After(cloud[k].stage)
  BY <1>4 DEF Launched, Tagged
<1>6. cloud[j].stage # cloud[k].stage
  BY DEF QueueInv, LaunchInv, LaunchOnce, Live, Accepted
<1> QED
  BY <1>5, <1>6

(* A batch of a job at work. Until one halts the run, whoever has an older *)
(* job of the run in hand reads what he would have read before: found only *)
(* grows in what counts. When one does, nobody has.                        *)
LEMMA IngestionReads ==
  ASSUME Steady, QueueInv, TimelyInv, SteadyInv, NEW k \in Jobs, RecordIngestion(k)
  PROVE  /\ Live(k) /\ JobSteady(k)
         /\ \A q \in Runs : q # cloud[k].run => outcome'[q] = outcome[q] /\ found'[q] = found[q]
         /\ cooling => cooling'
         /\ \/ /\ UNCHANGED cooling
               /\ outcome'[cloud[k].run] = "none"
            \/ Underway(k)
         /\ \A s \in {"discovering", "resolving"} :
              s \notin {cloud[k].stage} \cup After(cloud[k].stage) =>
                (NextStage(cloud[k].run, s) # "completed" =>
                   (NextStage(cloud[k].run, s) # "completed")')
<1> DEFINE r == cloud[k].run
<1>1. JobSteady(k)
  BY DEF SteadyInv
<1>2. late \in Nat /\ MaxLate = 0 /\ cloud \in [Jobs -> Job]
  BY DEF QueueInv, SnapshotInv, TypeOK, Steady
<1>3. Live(k)
  BY <1>1, <1>2 DEF RecordIngestion, Accepted, JobSteady, Live, Job, JobStates
<1>4. r \in Runs /\ outcome \in [Runs -> Outcomes]
      /\ found \in [Runs -> SUBSET {"candidates", "targets"}]
  BY <1>1, <1>3 DEF JobSteady, QueueInv, SnapshotInv, TypeOK
<1>5. PICK f \in Linked(k) : found' = [found EXCEPT ![r] = f]
  BY DEF RecordIngestion
<1>6. \/ outcome' = [outcome EXCEPT ![r] = "none"] /\ UNCHANGED cooling
      \/ /\ Underway(k)
         /\ \E o \in Outcomes : outcome' = [outcome EXCEPT ![r] = o]
         /\ cooling' = (cooling \/ cloud[k].stage = "discovering")
  BY <1>3 DEF RecordIngestion, Live, Steady, Timely
<1>7. \A q \in Runs : q # r => outcome'[q] = outcome[q] /\ found'[q] = found[q]
  BY <1>4, <1>5, <1>6
<1>8. cooling => cooling'
  BY <1>6, Zenon
<1>9. (UNCHANGED cooling /\ outcome'[r] = "none") \/ Underway(k)
  BY <1>4, <1>6
<1>10. ASSUME NEW s \in {"discovering", "resolving"},
              s \notin {cloud[k].stage} \cup After(cloud[k].stage),
              NextStage(r, s) # "completed"
       PROVE  (NextStage(r, s) # "completed")'
  <2>1. UNCHANGED cloud /\ found'[r] = f
    BY <1>4, <1>5 DEF RecordIngestion
  <2>2. cloud[k].stage # "discovering"
    BY <1>10 DEF After
  <2>3. f \in {found[r], found[r] \cup {"targets"}, {"targets"}}
    BY <1>5, <2>2 DEF Linked
  <2>4. s = "discovering" \/ f = found[r]
    BY <1>5, <1>10, <2>2 DEF Linked, After
  <2>5. "candidates" \in found[r] \/ "targets" \in found[r]
    BY <1>10 DEF NextStage, HasCandidates, HasTargets
  <2>6. ("candidates" \in f \/ "targets" \in f) /\ ("targets" \in found[r] => "targets" \in f)
    BY <2>3, <2>5
  <2>7. s = "resolving" => "targets" \in found[r]
    BY <1>10 DEF NextStage, HasTargets
  <2>8. /\ s = "discovering" => (HasCandidates(r) \/ HasTargets(r))'
        /\ s = "resolving" => HasTargets(r)'
    BY <2>1, <2>6, <2>7 DEF HasCandidates, HasTargets
  <2> QED
    BY <2>8 DEF NextStage
<1> QED
  BY <1>1, <1>3, <1>7, <1>8, <1>9, <1>10

(* No batch ends a run that somebody has read to go on, nor the other way  *)
(* round: a batch comes while its job is at work, and whoever has read an  *)
(* outcome has that of an older job, or none.                              *)
LEMMA SteadyIngestion ==
  ASSUME Steady, QueueInv, TimelyInv, SteadyInv, NEW k \in Jobs, RecordIngestion(k)
  PROVE  SteadyInv'
<1>1. /\ SameTags /\ UNCHANGED cloud
      /\ \A q \in Runs :
           /\ rows'[q].stage = rows[q].stage /\ rows'[q].slot = rows[q].slot
           /\ rows'[q].job = rows[q].job
           /\ \/ rows'[q].status = rows[q].status
              \/ rows[q].status = "running" /\ rows'[q].status = "ingesting"
      /\ \A v \in Workers : /\ inv'[v].pc = inv[v].pc /\ inv'[v].id = inv[v].id
                            /\ inv'[v].row = inv[v].row /\ inv'[v].job = inv[v].job
                            /\ inv'[v].toStage = inv[v].toStage
  BY IngestionShape
<1>2. Live(k) /\ cloud[k].run \in Runs /\ HoldsSlot(cloud[k].run) /\ (cooling => cooling')
  BY IngestionReads DEF JobSteady
<1> PICK r \in Runs : r = cloud[k].run
  BY <1>2
<1>3. /\ \A q \in Runs \ {r} : outcome'[q] = outcome[q] /\ found'[q] = found[q]
      /\ (UNCHANGED cooling /\ outcome'[r] = "none") \/ Underway(k)
      /\ \A s \in {"discovering", "resolving"} :
           s \notin {cloud[k].stage} \cup After(cloud[k].stage) =>
             (NextStage(r, s) # "completed" => (NextStage(r, s) # "completed")')
  BY <1>1, IngestionReads DEF NextStage, HasCandidates, HasTargets
<1>4. ASSUME NEW q \in Runs, q # r, NEW s PROVE Ends(q, s)' <=> Ends(q, s)
  BY <1>3, <1>4 DEF Ends, NextStage, HasCandidates, HasTargets
<1>5. ASSUME NEW q, NEW s
      PROVE  Tagged(q, s)' = Tagged(q, s) /\ (Launched(q, s)' <=> Launched(q, s))
  BY <1>1 DEF Launched, Tagged, Accepted
<1>6. ASSUME NEW j PROVE (Finished(j)' <=> Finished(j)) /\ (Live(j)' <=> Live(j))
  BY <1>1 DEF Finished, Live
<1>7. ASSUME NEW q \in Runs, q # r, NEW s, NEW j \in Tagged(q, s)
      PROVE  GoesOn(j)' <=> GoesOn(j)
  BY <1>1, <1>4, <1>6, <1>7 DEF GoesOn, Tagged
<1>8. ASSUME NEW v \in Workers, inv[v].id = r, inv[v].pc \in {"claim", "claimed", "start", "claimLaunch"},
             inv[v].pc # "start" => inv[v].row.job # k
      PROVE  UNCHANGED cooling
  <2>1. inv[v].pc \in {"claim", "claimed"} => inv[v].row.status = "queued"
    BY <1>8, SoundNow DEF Sound, PickSound, Unaimed
  <2>2. inv[v].row.status # "launching" \/ inv[v].pc = "start"
    BY <1>8, <2>1 DEF QueueInv, SnapshotInv, InvocationOK
  <2> QED
    BY <1>3, <1>8, <2>2 DEF Underway
<1>9. ASSUME NEW v \in Workers PROVE Sound(inv[v], rows[inv[v].id])'
  <2>1. PICK i, row : i = inv'[v] /\ row = rows'[i.id]
    OBVIOUS
  <2>2. CASE i.pc \in Unaimed
    BY <2>1, <2>2, UnaimedSound
  <2>3. CASE i.pc \notin Unaimed
    <3> PICK old : old = rows[i.id]
      OBVIOUS
    <3>1. /\ i.id \in Runs /\ Sound(inv[v], old) /\ inv[v] \in Invocation
          /\ i.pc = inv[v].pc /\ i.id = inv[v].id /\ i.row = inv[v].row /\ i.toStage = inv[v].toStage
      BY <1>1, <2>1, <2>3, SoundNow
    <3>2. Sound(i, old) /\ i.row.stage \in StageNames /\ JobKnown(i.row)
      BY <2>3, <3>1, SoundSame DEF Invocation, Row, Sound, SnapshotSound
    <3>3. /\ row.stage = old.stage /\ row.slot = old.slot /\ row.job = old.job
          /\ row.status = old.status \/ (old.status = "running" /\ row.status = "ingesting")
      BY <1>1, <2>1, <3>1
    <3>4. i.id # r => ~old.slot
      BY <1>2, <3>1 DEF HoldsSlot, QueueInv, SnapshotInv, SlotUnique
    <3>5. /\ i.id = r /\ i.pc = "start" => UNCHANGED cooling
          /\ i.id = r /\ i.pc \in {"claim", "claimed", "claimLaunch"} /\ i.row.job = NoJob =>
               UNCHANGED cooling
      BY <1>8, <3>1, ConstantsAssumption
    <3>6. i.pc \in {"claim", "claimed"} => i.row.job = NoJob
      BY <3>2 DEF Sound, PickSound, JobKnown, Waiting
    <3>7. LauncherSound(i, row)'
      BY <1>5, <3>2, <3>3 DEF Sound, LauncherSound
    <3>8. PickSound(i, row)'
      <4>1. CASE i.pc \in {"claim", "claimed"}
        <5>1. i.row.status = "queued" /\ (\E j \in Jobs : Live(j))'
          BY <1>2, <1>6, <3>2, <4>1 DEF Sound, PickSound
        <5>2. CASE i.id = r
          BY <3>2, <3>3, <3>5, <3>6, <4>1, <5>1, <5>2 DEF Sound, PickSound, CoolingFor
        <5>3. CASE i.id # r
          BY <3>3, <3>4, <4>1, <5>1, <5>3 DEF PickSound
        <5> QED
          BY <5>2, <5>3
      <4>2. CASE i.pc \notin {"claim", "claimed"}
        BY <1>2, <3>2, <3>3, <4>2 DEF Sound, PickSound, CoolingFor
      <4> QED
        BY <4>1, <4>2
    <3>9. SnapshotSound(i, row)'
      BY <3>2, <3>3 DEF Sound, SnapshotSound, Waiting
    <3>10. StarterSound(i, row)'
      <4>1. CASE i.id # r
        BY <3>2, <3>3, <3>4, <4>1 DEF Sound, StarterSound
      <4>2. CASE i.id = r
        BY <1>2, <1>5, <1>6, <3>2, <3>3, <3>5, <4>2 DEF Sound, StarterSound
      <4> QED
        BY <4>1, <4>2
    <3>11. TrackerSound(i, row)'
      <4> SUFFICES ASSUME Tracking(i) PROVE TrackerSound(i, row)'
        BY DEF TrackerSound
      <4>1. TrackerSound(i, old) /\ i.row.job \in Tagged(i.id, i.row.stage)
        BY <3>2 DEF Sound, TrackerSound
      <4>2. CASE i.id # r
        BY <1>1, <1>4, <1>5, <1>6, <1>7, <3>1, <3>3, <3>4, <4>1, <4>2 DEF TrackerSound
      <4>3. CASE i.id = r /\ i.row.job = k
        <5>1. old.slot /\ ~Finished(k)
          BY <1>2, <4>3 DEF HoldsSlot, Live, Finished
        <5>2. i.pc \in {"sync", "start"} /\ row.job = k
          BY <3>3, <4>1, <4>3, <5>1 DEF TrackerSound, Tracking, GoesOn
        <5> QED
          BY <1>5, <3>3, <3>5, <4>1, <4>3, <5>1, <5>2 DEF TrackerSound
      <4>4. CASE i.id = r /\ i.row.job # k
        <5>1. i.row.status # "launching" /\ old.slot
          BY <1>2, <3>2, <4>4 DEF JobKnown, Tracking, HoldsSlot
        <5>2. UNCHANGED cooling /\ outcome'[r] = "none"
          BY <1>3, <3>1, <4>4, <5>1 DEF Underway
        <5>3. old.job # i.row.job
          <6>1. SUFFICES ASSUME old.job = i.row.job PROVE FALSE
            OBVIOUS
          <6>2. rows[r].job # NoJob /\ rows[r].job # k
            BY <4>4, <6>1 DEF Tracking
          <6>3. Recording(k)
            BY <1>2, <6>2 DEF SteadyInv, JobSteady
          <6>4. PICK u \in Workers : At(u, "setJob") /\ inv[u].job = k
            BY <6>3 DEF Recording
          <6>5. inv[u].id = r
            BY <6>4 DEF TimelyInv, TimelySound, Tagged, At
          <6>6. rows[r].status = "launching"
            BY <1>2, <6>4, <6>5 DEF TimelyInv, TimelySound, Posts, At
          <6> QED
            BY <1>2, <6>2, <6>6 DEF QueueInv, SnapshotInv, RowOK, HoldsSlot
        <5>4. GoesOn(i.row.job)
          BY <4>1, <5>1, <5>3 DEF TrackerSound
        <5>5. ~Ends(r, i.row.stage) /\ NextStage(r, i.row.stage) # "completed"
          BY <4>1, <4>4, <5>4 DEF GoesOn, Tagged, Ends
        <5>6. i.row.stage \in {"discovering", "resolving"}
          BY <5>5 DEF NextStage
        <5>7. i.row.stage \notin {cloud[k].stage} \cup After(cloud[k].stage)
          <6>1. i.row.job \in Jobs /\ Accepted(i.row.job) /\ cloud[i.row.job].run = r
                /\ cloud[i.row.job].stage = i.row.stage
            BY <4>1, <4>4 DEF Tagged
          <6> QED
            BY <1>2, <4>4, <6>1, EarlierStage
        <5>8. ~Ends(r, i.row.stage)'
          BY <1>3, <5>2, <5>5, <5>6, <5>7 DEF Ends
        <5>9. GoesOn(i.row.job)'
          BY <1>1, <1>6, <4>1, <4>4, <5>4, <5>8 DEF GoesOn, Tagged
        <5> QED
          BY <1>1, <1>5, <1>6, <3>3, <3>5, <4>1, <4>4, <5>1, <5>2, <5>4, <5>8, <5>9 DEF TrackerSound
      <4> QED
        BY <4>2, <4>3, <4>4
    <3> QED
      BY <2>1, <3>7, <3>8, <3>9, <3>10, <3>11 DEF Sound
  <2> QED
    BY <2>2, <2>3
<1>10. ASSUME NEW q \in Runs PROVE RowSteady(rows[q], q)'
  BY <1>1, <1>5 DEF SteadyInv, RowSteady, Waiting, Terminal, CrawlStages
<1>11. ASSUME NEW j \in Jobs PROVE JobSteady(j)'
  <2>1. Recording(j) => Recording(j)'
    BY <1>1 DEF Recording, At
  <2> QED
    BY <1>1, <1>6, <2>1 DEF SteadyInv, JobSteady, Live, HoldsSlot
<1>12. OneLauncher'
  BY <1>1 DEF SteadyInv, OneLauncher, Launcher, Posts, Failing
<1> QED
  BY <1>9, <1>10, <1>11, <1>12 DEF SteadyInv

(* Whoever is at work on the run of a job that ends knows that job, and    *)
(* nobody is between a look at the cooldown and the claim of the unit.     *)
LEMMA SteadyFinishes ==
  ASSUME Steady, QueueInv, TimelyInv, SteadyInv, NEW k \in Jobs, JobFinishes(k)
  PROVE  SteadyInv'
<1>1. /\ UNCHANGED <<rows, outcome, found, cooling, inv>> /\ Live(k)
      /\ \E close \in Closes :
           cloud' = [cloud EXCEPT ![k].state = "finished", ![k].close = close]
  BY DEF JobFinishes, SteadyInv, JobSteady, Live, Closes
<1>2. Live(k) /\ JobSteady(k) /\ cloud[k].run \in Runs /\ HoldsSlot(cloud[k].run)
  BY <1>1 DEF SteadyInv, JobSteady
<1> PICK r \in Runs : r = cloud[k].run
  BY <1>2
<1>3. \A v \in Workers : /\ inv[v].id = r => inv[v].row.job = k
                         /\ inv[v].row.status # "queued"
  BY DEF JobFinishes, Steady, Timely, Outlived
<1>4. /\ SameTags /\ Finished(k)' /\ ~Finished(k) /\ ~Live(k)'
      /\ \A j \in Jobs \ {k} : cloud'[j] = cloud[j]
  <2>1. PICK close : cloud' = [cloud EXCEPT ![k].state = "finished", ![k].close = close]
    BY <1>1
  <2>2. cloud \in [Jobs -> Job]
    BY DEF QueueInv, SnapshotInv, TypeOK
  <2>3. cloud'[k].state = "finished" /\ \A j \in Jobs \ {k} : cloud'[j] = cloud[j]
    BY <2>1, <2>2 DEF Job
  <2> QED
    BY <1>2, <2>3, JobKeepsTags DEF Finished, Live
<1>5. ASSUME NEW q, NEW s
      PROVE  Tagged(q, s)' = Tagged(q, s) /\ (Launched(q, s)' <=> Launched(q, s))
             /\ (Ends(q, s)' <=> Ends(q, s))
  BY <1>1, <1>4 DEF Launched, Tagged, SameTags, Ends, NextStage, HasCandidates, HasTargets
<1>6. ASSUME NEW j \in Jobs \ {k}
      PROVE  (Finished(j)' <=> Finished(j)) /\ cloud'[j] = cloud[j] /\ (GoesOn(j)' <=> GoesOn(j))
  BY <1>4, <1>5 DEF GoesOn, Finished
<1>7. ~(rows[r].status \in Waiting) /\ rows[r].slot
  BY <1>2 DEF QueueInv, SnapshotInv, RowOK, HoldsSlot
<1>8. ASSUME NEW v \in Workers PROVE Sound(inv[v], rows[inv[v].id])'
  <2>1. PICK i, row : i = inv'[v] /\ row = rows'[i.id]
    OBVIOUS
  <2>2. CASE i.pc \in Unaimed
    BY <2>1, <2>2, UnaimedSound
  <2>3. CASE i.pc \notin Unaimed
    <3>1. i = inv[v] /\ row = rows[i.id] /\ i.id \in Runs /\ Sound(i, row)
      BY <1>1, <2>1, <2>3, SoundNow
    <3>2. i.row.status # "queued" /\ (i.id = r => i.row.job = k /\ i.row.job # NoJob)
      BY <1>3, <3>1, ConstantsAssumption
    <3>3. i.id # r => ~row.slot
      BY <1>2, <3>1 DEF HoldsSlot, QueueInv, SnapshotInv, SlotUnique
    <3>4. LauncherSound(i, row)'
      BY <1>5, <3>1 DEF Sound, LauncherSound
    <3>5. PickSound(i, row)' /\ SnapshotSound(i, row)'
      BY <1>1, <3>1, <3>2 DEF Sound, PickSound, SnapshotSound, CoolingFor
    <3>6. StarterSound(i, row)'
      BY <3>1, <3>2, <3>3 DEF Sound, StarterSound
    <3>7. CASE i.id # r
      <4> SUFFICES ASSUME Tracking(i) PROVE TrackerSound(i, row)'
        BY <2>1, <3>4, <3>5, <3>6 DEF Sound, TrackerSound
      <4>1. i.row.job \in Tagged(i.id, i.row.stage) /\ TrackerSound(i, row)
        BY <3>1 DEF Sound, TrackerSound
      <4>2. i.row.job \in Jobs \ {k}
        BY <3>7, <4>1 DEF Tagged
      <4> QED
        BY <1>5, <1>6, <3>1, <3>3, <3>7, <4>1, <4>2 DEF TrackerSound
    <3>8. CASE i.id = r
      <4> SUFFICES ASSUME Tracking(i) PROVE TrackerSound(i, row)'
        BY <2>1, <3>4, <3>5, <3>6 DEF Sound, TrackerSound
      <4>1. /\ i.row.job = k /\ TrackerSound(i, row) /\ row.slot
        BY <1>7, <3>1, <3>2, <3>8 DEF Sound
      <4>2. i.pc \in {"sync", "start"} /\ row.job = k
        BY <1>4, <4>1 DEF TrackerSound, Tracking, GoesOn
      <4> QED
        BY <1>1, <1>5, <3>8, <4>1, <4>2 DEF TrackerSound
    <3> QED
      BY <2>1, <3>1, <3>4, <3>5, <3>6, <3>7, <3>8 DEF Sound
  <2> QED
    BY <2>2, <2>3
<1>9. ASSUME NEW q \in Runs PROVE RowSteady(rows[q], q)'
  BY <1>1, <1>5 DEF SteadyInv, RowSteady
<1>10. ASSUME NEW j \in Jobs PROVE JobSteady(j)'
  <2>1. CASE j = k
    BY <1>4, <2>1 DEF JobSteady, Finished, Live
  <2>2. CASE j # k
    <3>1. cloud'[j] = cloud[j] /\ JobSteady(j)
      BY <1>4, <2>2 DEF SteadyInv
    <3>2. Recording(j) => Recording(j)'
      BY <1>1 DEF Recording, At
    <3> QED
      BY <1>1, <3>1, <3>2 DEF JobSteady, Finished, Live, HoldsSlot
  <2> QED
    BY <2>1, <2>2
<1>11. OneLauncher'
  BY <1>1 DEF SteadyInv, OneLauncher, Launcher, Posts, Failing
<1> QED
  BY <1>8, <1>9, <1>10, <1>11 DEF SteadyInv

(* A cooldown runs out between pumps.                                      *)
LEMMA SteadyExpires ==
  ASSUME Steady, SteadyInv, CooldownExpires
  PROVE  SteadyInv'
<1>1. /\ UNCHANGED <<rows, cloud, outcome, found, inv>>
      /\ \A v \in Workers : inv[v].pc \in Unaimed
  BY DEF CooldownExpires, Steady, Unaimed
<1>2. ASSUME NEW v \in Workers PROVE Sound(inv[v], rows[inv[v].id])'
  <2>1. PICK i, row : i = inv'[v] /\ row = rows'[i.id]
    OBVIOUS
  <2> QED
    BY <1>1, <2>1, UnaimedSound
<1>3. ASSUME NEW r \in Runs PROVE RowSteady(rows[r], r)'
  BY <1>1 DEF SteadyInv, RowSteady, Launched, Tagged, Accepted
<1>4. ASSUME NEW j \in Jobs PROVE JobSteady(j)'
  BY <1>1 DEF SteadyInv, JobSteady, Finished, Live, HoldsSlot, Recording, At
<1>5. OneLauncher'
  BY <1>1 DEF SteadyInv, OneLauncher, Launcher, Posts, Failing
<1> QED
  BY <1>2, <1>3, <1>4, <1>5 DEF SteadyInv

(* The operator does not cancel.                                           *)
LEMMA SteadyNever ==
  ASSUME Steady, SteadyInv, NEW w \in Workers, NEW r \in Runs
  PROVE  ~Cancel(w, r) /\ ~CancelTag(w) /\ ~CancelStop(w)
BY DEF Steady, Cancel, CancelTag, CancelStop, At, SteadyInv, Sound, SnapshotSound

LEMMA SteadyInvInit == Init => SteadyInv
<1> SUFFICES ASSUME Init PROVE SteadyInv
  OBVIOUS
<1>1. ASSUME NEW w \in Workers PROVE Sound(inv[w], rows[inv[w].id]) /\ ~Launcher(inv[w])
  BY IdleSound DEF Init, Unaimed
<1>2. \A r \in Runs : RowSteady(rows[r], r)
  BY DEF Init, RowSteady, NoRow, Waiting, Terminal, CrawlStages
<1>3. \A j \in Jobs : JobSteady(j)
  BY DEF Init, JobSteady, FreeJob, Live
<1> QED
  BY <1>1, <1>2, <1>3 DEF SteadyInv, OneLauncher

LEMMA SteadyInvStep ==
  ASSUME Steady, QueueInv, TimelyInv, SteadyInv, [Next]_vars
  PROVE  SteadyInv'
<1>1. Timely
  BY DEF Steady
<1>2. ASSUME NEW w \in Workers, Continue(w) PROVE SteadyInv'
  <2>1. CASE CancelTag(w) \/ CancelStop(w)
    BY <2>1 DEF CancelTag, CancelStop, At, SteadyInv, Sound, SnapshotSound
  <2> QED
    BY <1>1, <1>2, <2>1, SteadyPump, SteadyPick, SteadyClaim, SteadyClaimed, SteadyStart,
       SteadyClaimLaunch, SteadyPost, SteadySetJob, SteadyPolled, SteadyTransition, SteadyHandoff,
       TimelyNever
    DEF Continue
<1>3. ASSUME NEW w \in Workers, Tick(w) PROVE SteadyInv'
  BY <1>3, SteadyPump DEF Tick
<1>4. ASSUME NEW w \in Workers, Request(w) PROVE SteadyInv'
  <2>1. ASSUME NEW r \in Runs, Detail(w, r) PROVE SteadyInv'
    BY <2>1, SteadyAdvance DEF Detail, At
  <2>2. ASSUME NEW r \in Runs, Create(w, r) \/ \E src \in Runs : Retry(w, src, r)
        PROVE  SteadyInv'
    BY <2>2, SteadyInsert DEF Create, Retry
  <2> QED
    BY <1>4, <2>1, <2>2, SteadyNever DEF Request
<1>5. CASE UNCHANGED vars
  <2>1. UNCHANGED <<rows, cloud, outcome, found, cooling, inv>>
    BY <1>5 DEF vars
  <2>2. ASSUME NEW v \in Workers PROVE Sound(inv[v], rows[inv[v].id])'
    <3>1. PICK i, row : i = inv[v] /\ row = rows[i.id]
      OBVIOUS
    <3> QED
      BY <2>1, <3>1, SoundKept DEF SteadyInv
  <2>3. \A r \in Runs : RowSteady(rows[r], r)'
    BY <2>1 DEF SteadyInv, RowSteady, Launched, Tagged, Accepted
  <2>4. \A j \in Jobs : JobSteady(j)'
    BY <2>1 DEF SteadyInv, JobSteady, Finished, Live, HoldsSlot, Recording, At
  <2>5. OneLauncher'
    BY <2>1 DEF SteadyInv, OneLauncher, Launcher, Posts, Failing
  <2> QED
    BY <2>2, <2>3, <2>4, <2>5 DEF SteadyInv
<1>6. \A r \in Runs : ~SellersChange(r)
  BY DEF SellersChange, Steady
<1> QED
  BY <1>1, <1>2, <1>3, <1>4, <1>5, <1>6, TimelyNever, SteadyIngestion, SteadyFinishes, SteadyExpires,
     LeaseKept
  DEF Next, JobStep

-----------------------------------------------------------------------------
(* What a step does to the rows.                                           *)

LEMMA ContinueMoves ==
  ASSUME Steady, QueueInv, TimelyInv, SteadyInv, NEW w \in Workers, Continue(w)
  PROVE  RunsEndOnce
<1> DEFINE r == inv[w].id
<1>1. ASSUME inv[w].pc \notin Unaimed
      PROVE  /\ r \in Runs /\ Sound(inv[w], rows[r]) /\ rows[r] \in Row /\ RowOK(rows[r])
             /\ InvocationOK(inv[w])
  BY <1>1, SoundNow DEF QueueInv, SnapshotInv, TypeOK
<1>2. rows[r].slot /\ RowOK(rows[r]) => rows[r].status \notin Terminal
  BY DEF RowOK, Ready, Terminal
<1>3. CASE UNCHANGED rows
  BY <1>3 DEF RunsEndOnce
<1>4. CASE Claim(w) /\ ~UNCHANGED rows
  <2> DEFINE new == [rows[r] EXCEPT !.status = "starting", !.stage = StartStage(r), !.slot = TRUE]
  <2>1. inv[w].pc = "claim" /\ inv[w].pc \notin Unaimed
    BY <1>4 DEF Claim, At, Unaimed
  <2>2. /\ rows[r].status \notin Terminal
        /\ Write(w, r, new, [inv[w] EXCEPT !.pc = "claimed"])
    BY <1>1, <1>4, <2>1 DEF Claim, Claimable, Proceed, Terminal
  <2> HIDE DEF new, r
  <2> QED
    BY <1>1, <2>1, <2>2, WriteMoves DEF r
<1>5. CASE ClaimLaunch(w) /\ ~UNCHANGED rows
  <2> DEFINE new == [rows[r] EXCEPT !.status = "launching"]
  <2>1. inv[w].pc \notin Unaimed
    BY <1>5 DEF ClaimLaunch, At, Unaimed
  <2>2. /\ rows[r].slot
        /\ Write(w, r, new, [inv[w] EXCEPT !.pc = "post", !.row.status = "launching"])
    BY <1>5 DEF ClaimLaunch, Launchable, Proceed
  <2>3. r \in Runs /\ rows[r].status \notin Terminal
    BY <1>1, <1>2, <2>1, <2>2
  <2> HIDE DEF new, r
  <2> QED
    BY <2>2, <2>3, WriteMoves
<1>6. CASE SetJob(w) /\ ~UNCHANGED rows
  <2> DEFINE new == Tracked(rows[r], inv[w].job)
  <2>1. inv[w].pc = "setJob" /\ inv[w].pc \notin Unaimed
    BY <1>6 DEF SetJob, At, Unaimed
  <2>2. rows[r].slot /\ \E n : Write(w, r, new, n)
    BY <1>1, <1>6, <2>1 DEF SetJob, Proceed, Sound, LauncherSound, Launcher, Posts
  <2>3. r \in Runs /\ rows[r].status \notin Terminal
    BY <1>1, <1>2, <2>1, <2>2
  <2> HIDE DEF new, r
  <2> QED
    BY <2>2, <2>3, WriteMoves
<1>7. CASE Transition(w)
  <2> DEFINE new == [rows[r] EXCEPT !.status = inv[w].to, !.stage = inv[w].toStage,
                                    !.slot = SlotAfter(w)]
  <2>1. inv[w].pc = "transition" /\ inv[w].pc \notin Unaimed /\ Write(w, r, new, Done(w))
    BY <1>7 DEF Transition, At, Unaimed
  <2>2. new.status \in Terminal
    BY <1>1, <2>1 DEF Row, InvocationOK
  <2>3. r \in Runs
    BY <1>1, <2>1
  <2> HIDE DEF new, r
  <2> QED
    BY <2>1, <2>2, <2>3, WriteMoves
<1>8. CASE Handoff(w) /\ ~UNCHANGED rows
  <2> DEFINE new == HandedTo(rows[r], inv[w].toStage)
  <2>1. /\ inv[w].pc \notin Unaimed /\ At(w, "handoff") /\ rows[r].stage = inv[w].row.stage
        /\ Write(w, r, new, [inv[w] EXCEPT !.pc = "handedOff"])
    BY <1>8 DEF Handoff, At, Unaimed, Proceed
  <2>2. rows[r].slot
    BY <2>1, HandsOn DEF HoldsSlot
  <2>3. r \in Runs /\ rows[r].status \notin Terminal
    BY <1>1, <1>2, <2>1, <2>2
  <2> HIDE DEF new, r
  <2> QED
    BY <2>1, <2>2, <2>3, WriteMoves
<1>9. ASSUME \/ Pump(w) \/ Recheck(w) \/ Pick(w) \/ Claimed(w) \/ StartDiscovery(w) \/ Post(w)
             \/ SyncActive(w) \/ ReadOutcome(w) \/ HandedOff(w) \/ CancelTag(w) \/ CancelStop(w)
      PROVE  UNCHANGED rows
  BY <1>9 DEF Pump, Recheck, Pick, Claimed, StartDiscovery, Post, SyncActive, ReadOutcome,
     HandedOff, CancelTag, CancelStop, Proceed
<1>10. ~Recover(w) /\ ~RecoverSet(w)
  BY TimelyNever DEF Steady
<1> QED
  BY <1>3, <1>4, <1>5, <1>6, <1>7, <1>8, <1>9, <1>10 DEF Continue

LEMMA StepMoves ==
  ASSUME Steady, QueueInv, TimelyInv, SteadyInv, [Next]_vars
  PROVE  RunsEndOnce
<1>1. ASSUME NEW w \in Workers, Request(w)
      PROVE  RunsEndOnce
  <2>1. ASSUME NEW r \in Runs, Create(w, r) \/ \E src \in Runs : Retry(w, src, r)
        PROVE  RunsEndOnce
    <3>1. /\ rows[r].status \notin Terminal
          /\ \E n : Write(w, r, Queued, n)
      BY <2>1 DEF Create, Retry, Terminal
    <3> QED
      BY <3>1, WriteMoves
  <2>2. ASSUME NEW r \in Runs, Detail(w, r) \/ Cancel(w, r)
        PROVE  UNCHANGED rows
    BY <2>2 DEF Detail, Cancel, Proceed
  <2> QED
    BY <1>1, <2>1, <2>2 DEF Request, RunsEndOnce
<1>2. ASSUME NEW j \in Jobs, RecordIngestion(j)
      PROVE  RunsEndOnce
  BY <1>2, IngestionShape DEF RunsEndOnce, Terminal
<1>3. ASSUME \/ \E w \in Workers : Tick(w) \/ Crash(w)
             \/ \E j \in Jobs : JobFinishes(j)
             \/ \E r \in Runs : LeaseExpires(r) \/ SellersChange(r)
             \/ CooldownExpires \/ UNCHANGED vars
      PROVE  UNCHANGED rows
  BY <1>3 DEF Tick, Pump, Crash, Proceed, JobFinishes, LeaseExpires, SellersChange,
     CooldownExpires, vars
<1> QED
  BY <1>1, <1>2, <1>3, ContinueMoves DEF Next, JobStep, RunsEndOnce

-----------------------------------------------------------------------------
(* The theorems.                                                           *)

LEMMA SteadyInvHolds == Steady => (Spec => [](QueueInv /\ TimelyInv /\ SteadyInv))
<1> SUFFICES ASSUME Steady PROVE Spec => [](QueueInv /\ TimelyInv /\ SteadyInv)
  OBVIOUS
<1>1. Timely
  BY DEF Steady
<1>2. Init => TimelyInv /\ SteadyInv
  BY TimelyInvInit, SteadyInvInit
<1>3. QueueInv /\ TimelyInv /\ SteadyInv /\ [Next]_vars => TimelyInv' /\ SteadyInv'
  BY <1>1, TimelyInvStep, SteadyInvStep
<1> QED
  BY <1>2, <1>3, QueueInvHolds, PTL DEF Spec

(* Under Steady, so with no batch later than its job's end: a job that     *)
(* runs and was not asked to stop belongs to the run that holds the unit.  *)
(* No write of the queue releases the unit while its job is at work,       *)
(* however many invocations are about to write.                            *)
THEOREM LiveJobIsOfHolder == Steady => (Spec => []LiveJobHoldsUnit)
<1> SUFFICES ASSUME Steady PROVE Spec => []LiveJobHoldsUnit
  OBVIOUS
<1>1. SteadyInv => LiveJobHoldsUnit
  BY DEF SteadyInv, JobSteady, LiveJobHoldsUnit
<1> QED
  BY <1>1, SteadyInvHolds, PTL

(* Under Steady, Scrapy Cloud is never asked to run two jobs at once.      *)
THEOREM JobsRunOneByOne == Steady => (Spec => []OneLiveJob)
<1> SUFFICES ASSUME Steady PROVE Spec => []OneLiveJob
  OBVIOUS
<1>1. ASSUME QueueInv, TimelyInv, SteadyInv PROVE OneLiveJob
  <2>1. SUFFICES ASSUME NEW j \in Jobs, NEW k \in Jobs, Live(j), Live(k)
                 PROVE  j = k
    BY DEF OneLiveJob
  <2>2. JobSteady(j) /\ JobSteady(k) /\ cloud[j].run \in Runs /\ cloud[k].run \in Runs
    BY <1>1, <2>1 DEF SteadyInv, JobSteady
  <2>3. cloud[j].run = cloud[k].run
    BY <1>1, <2>1, <2>2 DEF JobSteady, QueueInv, SnapshotInv, SlotUnique
  <2> DEFINE r == cloud[j].run
  <2>4. ASSUME NEW i \in Jobs, Live(i), cloud[i].run = r, Recording(i)
        PROVE  /\ rows[r].job = NoJob
               /\ \E v \in Workers : Launcher(inv[v]) /\ inv[v].id = r /\ inv[v].job = i
    <3>1. PICK v \in Workers : At(v, "setJob") /\ inv[v].job = i
      BY <2>4 DEF Recording
    <3>2. inv[v].id = r /\ Launcher(inv[v]) /\ inv[v].pc \notin Unaimed
      BY <1>1, <2>4, <3>1 DEF TimelyInv, TimelySound, Tagged, At, Launcher, Posts, Unaimed
    <3>3. rows[r].slot /\ rows[r].status = "launching"
      BY <1>1, <3>2, SoundNow DEF Sound, LauncherSound
    <3>4. rows[r].job = NoJob
      BY <1>1, <2>2, <3>3 DEF QueueInv, SnapshotInv, RowOK
    <3> QED
      BY <3>1, <3>2, <3>4
  <2>5. CASE rows[r].job = j /\ rows[r].job = k
    BY <2>5
  <2>6. CASE Recording(j) /\ Recording(k)
    BY <1>1, <2>1, <2>3, <2>4, <2>6 DEF SteadyInv, OneLauncher
  <2>7. CASE (rows[r].job = j /\ Recording(k)) \/ (rows[r].job = k /\ Recording(j))
    BY <2>1, <2>3, <2>4, <2>7, ConstantsAssumption
  <2> QED
    BY <2>1, <2>2, <2>3, <2>5, <2>6, <2>7 DEF JobSteady
<1> QED
  BY <1>1, SteadyInvHolds, PTL

(* Under Steady, a run that the dashboard has been told to have ended, and *)
(* whose page it therefore polls no longer, does not come back to life.    *)
THEOREM EndedRunStaysEnded == Steady => (Spec => TerminalStays)
<1> SUFFICES ASSUME Steady PROVE Spec => TerminalStays
  OBVIOUS
<1>1. QueueInv /\ TimelyInv /\ SteadyInv /\ [Next]_vars => [RunsEndOnce]_rows
  BY StepMoves
<1>2. Spec => [][RunsEndOnce]_rows
  BY <1>1, SteadyInvHolds, PTL DEF Spec
<1> QED
  BY <1>2 DEF TerminalStays, RunsEndOnce
=============================================================================
