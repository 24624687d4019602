--------------------------- MODULE OperatorQueue ---------------------------
(***************************************************************************)
(* The operator crawl queue of the Worker API                              *)
(* (apps/worker-api/src/operator-crawl/service.ts): runs wait in one D1    *)
(* table, one of them holds the single Scrapy Cloud unit (the column       *)
(* active_unit_slot), and every stage of that run is one external job.     *)
(*                                                                         *)
(* Nothing serialises the Worker's invocations: the minute cron, every     *)
(* dashboard list and detail read, create, cancel and retry all advance    *)
(* the queue.  An invocation is therefore a process here: it reads a row   *)
(* into a snapshot (the TypeScript parameter `run'), awaits, and writes    *)
(* with that snapshot.  One action is one database statement or one        *)
(* request to Scrapy Cloud together with the code up to the next await.    *)
(*                                                                         *)
(* A few definitions come with a wrong sibling just above (NextStage and   *)
(* NextStageIngesting, Claimable and ClaimableAgain): nothing uses those;  *)
(* each is a slip the code could have had, and is put in its sibling's     *)
(* place to see that a property notices.                                   *)
(***************************************************************************)
EXTENDS Naturals, FiniteSets

CONSTANTS
  Runs,        \* ids of operator_crawl_runs rows, in the order of requested_at
  Mode,        \* Mode[r]: the mode a run with id r is created with
  Workers,     \* concurrent invocations of the Worker
  Jobs,        \* ids Scrapy Cloud can hand out: bounds the launches
  Operations,  \* which of the optional requests the operator sends
  Faults,      \* which of the faults below can happen
  MaxCrashes,  \* bound on invocations that die before they end
  MaxLate      \* bound on batches that are stored after their job has ended

NoRun == 0
NoJob == 0

Modes == {"find_sellers", "resolve_seller", "known_websites"}

(***************************************************************************)
(* "error":   a request to Scrapy Cloud fails and has had no effect;       *)
(* "lost":    run.json is accepted, and then its response, the recording   *)
(*            of its job id or that of its event fails;                    *)
(* "slow":    an invocation can outlive the 120-second launch lease, the   *)
(*            start of a crawl it knew nothing of, or a whole crawl;       *)
(* "expiry":  an Amazon cooldown can run out while pumps are running.      *)
(***************************************************************************)
AllFaults == {"error", "lost", "slow", "expiry"}

ASSUME ConstantsAssumption ==
  /\ Runs \subseteq Nat \ {NoRun}
  /\ Jobs \subseteq Nat \ {NoJob}
  /\ Mode \in [Runs -> Modes]
  /\ Faults \subseteq AllFaults
  /\ Operations \subseteq {"detail", "cancel", "retry", "decide"}
  /\ MaxCrashes \in Nat
  /\ MaxLate \in Nat

VARIABLES
  rows,     \* operator_crawl_runs: what the queue reads and writes of it
  aged,     \* aged[r]: 120 s have passed since the row's updated_at
  cloud,    \* the jobs Scrapy Cloud has accepted, by id
  outcome,  \* crawl_runs: the completion record the stages of a run share
  found,    \* what ingestion has linked to a run for its next stages
  cooling,  \* source_registry: the Amazon marketplace is in cooldown
  chilled,  \* history: the runs that were queued, or given the unit, in the
            \* cooldown that still lasts
  inv,      \* the invocations in flight
  crashes,  \* how many invocations have died
  late      \* how many batches were stored after their job's end

vars == <<rows, aged, cloud, outcome, found, cooling, chilled, inv, crashes, late>>

-----------------------------------------------------------------------------

CrawlStages == {"discovering", "resolving", "enriching"}
Terminal    == {"completed", "completed_with_warnings", "failed", "blocked",
                "cooldown", "cancelled"}
Statuses    == {"absent", "queued", "starting", "resolving", "enriching",
                "launching", "running", "ingesting"} \cup Terminal
StageNames  == {"queued", "completed", "failed", "blocked", "cooldown",
                "cancelled"} \cup CrawlStages

Row == [status : Statuses, stage : StageNames, slot : BOOLEAN,
        job : Jobs \cup {NoJob}]

NoRow == [status |-> "absent", stage |-> "queued", slot |-> FALSE, job |-> NoJob]

Queued == [NoRow EXCEPT !.status = "queued"]

(* The stage the pump writes when it claims the slot for a run.            *)
StartStage(r) ==
  CASE Mode[r] = "find_sellers"   -> "discovering"
    [] Mode[r] = "resolve_seller" -> "resolving"
    [] Mode[r] = "known_websites" -> "enriching"

(* "live" is Scrapy Cloud's pending or running, not asked to stop.         *)
JobStates == {"free", "live", "stopping", "finished"}
Closes    == {"none", "finished", "cancelled", "undelivered"}

Job == [run : Runs \cup {NoRun}, stage : StageNames, state : JobStates, close : Closes]

FreeJob == [run |-> NoRun, stage |-> "queued", state |-> "free", close |-> "none"]

Accepted(j) == cloud[j].state # "free"
Live(j)     == cloud[j].state = "live"

(* The jobs that carry the tag operator:<run-id>:<stage>.                  *)
Tagged(r, s) == {j \in Jobs : Accepted(j) /\ cloud[j].run = r /\ cloud[j].stage = s}

(* What syncActive tells apart of the record: "none" stands for no record  *)
(* and for that of a crawl that no source has halted.                      *)
Outcomes == {"none", "blocked", "cooldown"}

(***************************************************************************)
(* An invocation: where it is (pc), the snapshot it carries (id, row),     *)
(* whether the row's updated_at is still the snapshot's (fresh), the       *)
(* status and stage it is about to write (to, toStage), the job id it has  *)
(* been told (job), and where it goes on afterwards (then).                *)
(***************************************************************************)
Points == {"idle", "pump", "recheck", "pick", "claim", "claimed", "sync",
           "outcome", "transition", "handoff", "handedOff", "start",
           "claimLaunch", "post", "setJob", "recover", "recoverSet",
           "cancelTag", "cancelStop"}

Invocation ==
  [pc : Points, id : Runs \cup {NoRun}, row : Row, fresh : BOOLEAN,
   to : Statuses, toStage : StageNames, job : Jobs \cup {NoJob},
   then : {"idle", "recheck", "pump"}]

Idle == [pc |-> "idle", id |-> NoRun, row |-> NoRow, fresh |-> FALSE,
         to |-> "absent", toStage |-> "queued", job |-> NoJob, then |-> "idle"]

TypeOK ==
  /\ rows \in [Runs -> Row]
  /\ aged \in [Runs -> BOOLEAN]
  /\ cloud \in [Jobs -> Job]
  /\ outcome \in [Runs -> Outcomes]
  /\ found \in [Runs -> SUBSET {"candidates", "targets"}]
  /\ cooling \in BOOLEAN
  /\ chilled \subseteq Runs
  /\ inv \in [Workers -> Invocation]
  /\ crashes \in Nat
  /\ late \in Nat

Init ==
  /\ rows = [r \in Runs |-> NoRow]
  /\ aged = [r \in Runs |-> FALSE]
  /\ cloud = [j \in Jobs |-> FreeJob]
  /\ outcome = [r \in Runs |-> "none"]
  /\ found = [r \in Runs |-> {}]
  /\ cooling = FALSE
  /\ chilled = {}
  /\ inv = [w \in Workers |-> Idle]
  /\ crashes = 0
  /\ late = 0

-----------------------------------------------------------------------------
(* How invocations read, write and end.                                    *)

At(w, p) == inv[w].pc = p

(* The snapshot SELECT * makes of row r.                                   *)
Snapshot(r, p, next) ==
  [Idle EXCEPT !.pc = p, !.id = r, !.row = rows[r], !.fresh = TRUE, !.then = next]

(* An invocation that only moves on, or only reads.                        *)
Proceed(w, next) ==
  /\ inv' = [inv EXCEPT ![w] = next]
  /\ UNCHANGED <<rows, aged>>

(* The snapshots of row r stop being current once its updated_at changes.  *)
Outdated(r) ==
  [v \in Workers |->
     IF inv[v].id = r THEN [inv[v] EXCEPT !.fresh = FALSE] ELSE inv[v]]

(* An INSERT or UPDATE of row r: its updated_at is now, so every other     *)
(* snapshot of it is outdated and the launch lease starts again.           *)
Write(w, r, new, next) ==
  /\ rows' = [rows EXCEPT ![r] = new]
  /\ aged' = [aged EXCEPT ![r] = FALSE]
  /\ inv' = [Outdated(r) EXCEPT ![w] = next]

(* What follows the end of syncActive, startActiveStage or transition.     *)
Done(w) == IF inv[w].then = "idle" THEN Idle ELSE [Idle EXCEPT !.pc = inv[w].then]

(* A launching row taken for any other, its lease forgotten.               *)
EnterStageUnleased(r, next) == Snapshot(r, "claimLaunch", next)

(* The next await of startActiveStage after its synchronous lease check,   *)
(* or the end of it while the launch lease is young.                       *)
EnterStage(r, next) ==
  IF rows[r].status = "launching"
    THEN IF aged[r] THEN Snapshot(r, "recover", next)
         ELSE [Idle EXCEPT !.pc = next]
  ELSE IF Mode[r] = "find_sellers" /\ rows[r].stage = "discovering"
    THEN Snapshot(r, "start", next)
  ELSE Snapshot(r, "claimLaunch", next)

(* syncActive for a row with a job, startActiveStage for one without.      *)
Advance(r, next) ==
  IF rows[r].job # NoJob THEN Snapshot(r, "sync", next) ELSE EnterStage(r, next)

(* The transition the invocation is about to write.                        *)
Towards(w, status, stage) ==
  [inv[w] EXCEPT !.pc = "transition", !.to = status, !.toStage = stage]

HoldsSlot(r) == rows[r].slot

SlotTaken == \E r \in Runs : HoldsSlot(r)

(* amazonCooldownUntil for a queued run.                                   *)
CoolingForgotten(r) == FALSE
CoolingFor(r) == Mode[r] = "find_sellers" /\ cooling

-----------------------------------------------------------------------------
(* Requests of the operator.                                               *)

(* Run r is queued, or given the unit: is its marketplace in cooldown?     *)
Chill(r) ==
  chilled' = IF Mode[r] = "find_sellers" /\ cooling THEN chilled \cup {r} ELSE chilled

(* create, from the INSERT on; the pump follows in the same invocation.    *)
Create(w, r) ==
  /\ At(w, "idle")
  /\ rows[r].status = "absent"
  /\ Write(w, r, Queued, [Idle EXCEPT !.pc = "pump"])
  /\ Chill(r)
  /\ UNCHANGED <<cloud, outcome, found, cooling, crashes, late>>

(* retry of the terminal run src: a new row copies its parameters.         *)
Retry(w, src, r) ==
  /\ "retry" \in Operations
  /\ At(w, "idle")
  /\ rows[src].status \in Terminal
  /\ rows[r].status = "absent"
  /\ Mode[r] = Mode[src]
  /\ Write(w, r, Queued, [Idle EXCEPT !.pc = "pump"])
  /\ Chill(r)
  /\ UNCHANGED <<cloud, outcome, found, cooling, crashes, late>>

(* detail: refreshById, which does nothing for a run without the slot.     *)
Detail(w, r) ==
  /\ "detail" \in Operations
  /\ At(w, "idle")
  /\ HoldsSlot(r)
  /\ Proceed(w, Advance(r, "idle"))
  /\ UNCHANGED <<cloud, outcome, found, cooling, chilled, crashes, late>>

(* cancel: read the run; find out about a launch in progress, stop the job *)
(* it holds the slot for, or go straight to the cancelled transition.      *)
Cancel(w, r) ==
  /\ "cancel" \in Operations
  /\ At(w, "idle")
  /\ rows[r].status \notin Terminal \cup {"absent"}
  /\ LET read == Snapshot(r, "cancelTag", "pump")
         row  == rows[r]
     IN  \/ /\ HoldsSlot(r) /\ row.job = NoJob /\ row.status = "launching"
            /\ Proceed(w, read)
         \/ /\ HoldsSlot(r) /\ row.job # NoJob
            /\ Proceed(w, [read EXCEPT !.pc = "cancelStop", !.job = row.job])
         \/ /\ ~HoldsSlot(r) \/ (row.job = NoJob /\ row.status # "launching")
            /\ Proceed(w, [read EXCEPT !.pc = "transition", !.to = "cancelled",
                                       !.toStage = "cancelled"])
  /\ UNCHANGED <<cloud, outcome, found, cooling, chilled, crashes, late>>

(* The tagged-job lookup of cancel.  A lookup that fails answers 503; no   *)
(* job under a young lease answers 409; both leave the run as it is.       *)
CancelTag(w) ==
  /\ At(w, "cancelTag")
  /\ LET jobs == Tagged(inv[w].id, inv[w].row.stage)
     IN  \/ /\ "error" \in Faults \/ Cardinality(jobs) > 1
            /\ Proceed(w, Idle)
         \/ \E j \in jobs :
               /\ jobs = {j}
               /\ Proceed(w, [inv[w] EXCEPT !.pc = "cancelStop", !.job = j])
         \/ /\ jobs = {}
            /\ ~aged[inv[w].id] \/ ~inv[w].fresh
            /\ Proceed(w, Idle)
         \/ /\ jobs = {}
            /\ aged[inv[w].id] \/ ~inv[w].fresh
            /\ Proceed(w, Towards(w, "cancelled", "cancelled"))
  /\ UNCHANGED <<cloud, outcome, found, cooling, chilled, crashes, late>>

(* Scrapy Cloud stops job j, unless it has ended.                          *)
StopForgotten(j) == cloud
Stopped(j) == IF Live(j) THEN [cloud EXCEPT ![j].state = "stopping"] ELSE cloud

(* POST jobs/stop.json; when it fails, cancel fails.                       *)
CancelStop(w) ==
  /\ At(w, "cancelStop")
  /\ \/ "error" \in Faults /\ Proceed(w, Idle) /\ UNCHANGED cloud
     \/ /\ cloud' = Stopped(inv[w].job)
        /\ Proceed(w, Towards(w, "cancelled", "cancelled"))
  /\ UNCHANGED <<outcome, found, cooling, chilled, crashes, late>>

-----------------------------------------------------------------------------
(* The pump: cron, list, and the last step of create, cancel and retry.    *)

(* SELECT the run that holds the slot, and advance it.                     *)
Pump(w) ==
  /\ At(w, "idle") \/ At(w, "pump")
  /\ \/ \E r \in Runs : HoldsSlot(r) /\ Proceed(w, Advance(r, "recheck"))
     \/ ~SlotTaken /\ Proceed(w, [Idle EXCEPT !.pc = "pick"])
  /\ UNCHANGED <<cloud, outcome, found, cooling, chilled, crashes, late>>

(* stillActive: has the slot been released?                                *)
Recheck(w) ==
  /\ At(w, "recheck")
  /\ Proceed(w, IF SlotTaken THEN Idle ELSE [Idle EXCEPT !.pc = "pick"])
  /\ UNCHANGED <<cloud, outcome, found, cooling, chilled, crashes, late>>

(* The oldest queued run; an Amazon run under cooldown ends there.         *)
Pick(w) ==
  /\ At(w, "pick")
  /\ LET queued == {r \in Runs : rows[r].status = "queued"}
     IN  \/ queued = {} /\ Proceed(w, Idle)
         \/ \E r \in queued :
               /\ \A q \in queued : r <= q
               /\ \/ /\ CoolingFor(r)
                     /\ Proceed(w, [Snapshot(r, "transition", "idle") EXCEPT
                                      !.to = "cooldown", !.toStage = "cooldown"])
                  \/ /\ ~CoolingFor(r)
                     /\ Proceed(w, Snapshot(r, "claim", "idle"))
  /\ UNCHANGED <<cloud, outcome, found, cooling, chilled, crashes, late>>

(* WHERE status = 'queued' AND NOT EXISTS (a slot holder).                 *)
ClaimableWhenTaken(r) == rows[r].status = "queued"
ClaimableAgain(r)     == ~SlotTaken
Claimable(r) == rows[r].status = "queued" /\ ~SlotTaken

(* The UPDATE that gives the unit to the picked run.                       *)
Claim(w) ==
  /\ At(w, "claim")
  /\ LET r    == inv[w].id
         next == [inv[w] EXCEPT !.pc = "claimed"]
     IN  \/ /\ Claimable(r)
            /\ Write(w, r, [rows[r] EXCEPT !.status = "starting",
                                           !.stage = StartStage(r), !.slot = TRUE], next)
            /\ Chill(r)
         \/ ~Claimable(r) /\ Proceed(w, next) /\ UNCHANGED chilled
  /\ UNCHANGED <<cloud, outcome, found, cooling, crashes, late>>

(* Both racers may read the slot as taken by the run they tried to claim.  *)
Claimed(w) ==
  /\ At(w, "claimed")
  /\ LET r == inv[w].id
     IN  Proceed(w, IF HoldsSlot(r) THEN EnterStage(r, "idle") ELSE Idle)
  /\ UNCHANGED <<cloud, outcome, found, cooling, chilled, crashes, late>>

-----------------------------------------------------------------------------
(* startActiveStage: at most one invocation may launch a stage.            *)

(* transitionToAmazonCooldown: the run ends, to be retried later.          *)
ToCooldown(w) == Towards(w, "cooldown", "cooldown")

(* The second cooldown check, before an Amazon discovery.                  *)
StartDiscovery(w) ==
  /\ At(w, "start")
  /\ Proceed(w, IF cooling THEN ToCooldown(w)
                ELSE [inv[w] EXCEPT !.pc = "claimLaunch"])
  /\ UNCHANGED <<cloud, outcome, found, cooling, chilled, crashes, late>>

(* WHERE the row holds the slot, has no job and is still the snapshot.     *)
LaunchableAgain(w) == rows[inv[w].id].slot /\ rows[inv[w].id].job = NoJob
Launchable(w) ==
  LET row == rows[inv[w].id]
  IN  row.slot /\ row.job = NoJob /\ row.status = inv[w].row.status /\ inv[w].fresh

(* The UPDATE to 'launching', which one invocation wins.                   *)
ClaimLaunch(w) ==
  /\ At(w, "claimLaunch")
  /\ LET r == inv[w].id
     IN  IF Launchable(w)
           THEN Write(w, r, [rows[r] EXCEPT !.status = "launching"],
                      [inv[w] EXCEPT !.pc = "post", !.row.status = "launching"])
           ELSE Proceed(w, Done(w))
  /\ UNCHANGED <<cloud, outcome, found, cooling, chilled, crashes, late>>

(* Scrapy Cloud accepts a job under the tag of the snapshot's stage.       *)
Accept(w, j) ==
  /\ cloud[j].state = "free"
  /\ \A k \in Jobs : cloud[k].state = "free" => j <= k
  /\ cloud' = [cloud EXCEPT ![j] =
                 [run |-> inv[w].id, stage |-> inv[w].row.stage,
                  state |-> "live", close |-> "none"]]

LaunchFailed(w) == Towards(w, "failed", inv[w].row.stage)

(* POST run.json: answered; accepted but the answer is lost; refused (also *)
(* when launch itself throws, for want of a candidate or a secret).        *)
Post(w) ==
  /\ At(w, "post")
  /\ \/ \E j \in Jobs :
          /\ Accept(w, j)
          /\ \/ Proceed(w, [inv[w] EXCEPT !.pc = "setJob", !.job = j])
             \/ "lost" \in Faults /\ Proceed(w, LaunchFailed(w))
     \/ Proceed(w, LaunchFailed(w)) /\ UNCHANGED cloud
  /\ UNCHANGED <<outcome, found, cooling, chilled, crashes, late>>

(* A row whose external job is known.                                      *)
TrackedUnstarted(row, j) == [row EXCEPT !.job = j]
Tracked(row, j) == [row EXCEPT !.job = j, !.status = "running"]

(* The unconditional UPDATE that records the accepted job, and its event;  *)
(* when either throws, the launch counts as failed.                        *)
SetJob(w) ==
  /\ At(w, "setJob")
  /\ LET r   == inv[w].id
         new == Tracked(rows[r], inv[w].job)
     IN  \/ Write(w, r, new, Done(w))
         \/ "lost" \in Faults /\ Write(w, r, new, LaunchFailed(w))
         \/ "lost" \in Faults /\ Proceed(w, LaunchFailed(w))
  /\ UNCHANGED <<cloud, outcome, found, cooling, chilled, crashes, late>>

(* A launching row whose lease has run out: look its stage tag up.         *)
Recover(w) ==
  /\ At(w, "recover")
  /\ LET jobs == Tagged(inv[w].id, inv[w].row.stage)
     IN  \/ /\ "error" \in Faults \/ Cardinality(jobs) > 1
            /\ Proceed(w, Done(w))
         \/ \E j \in jobs :
               /\ jobs = {j}
               /\ Proceed(w, [inv[w] EXCEPT !.pc = "recoverSet", !.job = j])
         \/ jobs = {} /\ Proceed(w, LaunchFailed(w))
  /\ UNCHANGED <<cloud, outcome, found, cooling, chilled, crashes, late>>

(* UPDATE ... WHERE status = 'launching' AND zyte_job_id IS NULL.          *)
RecoverSet(w) ==
  /\ At(w, "recoverSet")
  /\ LET r == inv[w].id
     IN  IF rows[r].status = "launching" /\ rows[r].job = NoJob
           THEN Write(w, r, Tracked(rows[r], inv[w].job), Done(w))
           ELSE Proceed(w, Done(w))
  /\ UNCHANGED <<cloud, outcome, found, cooling, chilled, crashes, late>>

-----------------------------------------------------------------------------
(* syncActive: what the external job has come to.                          *)

(* GET jobs/list.json for the recorded job.                                *)
SyncActive(w) ==
  /\ At(w, "sync")
  /\ LET row == inv[w].row
         job == cloud[row.job]
     IN  \/ /\ "error" \in Faults \/ job.state = "live"  \* no answer; pending
            /\ Proceed(w, Done(w))
         \/ /\ job.state \in {"live", "stopping"}
            /\ Proceed(w, IF row.status \in {"running", "ingesting"} THEN Done(w)
                          ELSE Towards(w, "running", row.stage))
         \/ /\ job.close = "cancelled"
            /\ Proceed(w, Towards(w, "cancelled", "cancelled"))
         \/ /\ job.close = "undelivered"
            /\ Proceed(w, Towards(w, "failed", "failed"))
         \/ /\ job.close = "finished"
            /\ Proceed(w, [inv[w] EXCEPT !.pc = "outcome"])
  /\ UNCHANGED <<cloud, outcome, found, cooling, chilled, crashes, late>>

(* domainCandidateTargetsForRun: sellers were found that have no official  *)
(* domain yet, and names to guess one from.                                *)
HasCandidates(r) == "candidates" \in found[r]

(* officialTargetsForRun: sellers were found that have one.                *)
HasTargets(r) == "targets" \in found[r]

(* Where a stage that ran to its end leads.                                *)
NextStageIngesting(r, stage) == "ingesting"
NextStage(r, stage) ==
  IF stage = "discovering" /\ HasCandidates(r) THEN "resolving"
  ELSE IF stage \in {"discovering", "resolving"} /\ HasTargets(r) THEN "enriching"
  ELSE "completed"

(* Read the shared completion record and the linked sellers, and choose    *)
(* between blocked, cooldown, the next stage and completion; whether there *)
(* are warnings is left open (crawler errors, no website, no contacts).    *)
ReadOutcome(w) ==
  /\ At(w, "outcome")
  /\ LET r     == inv[w].id
         stage == inv[w].row.stage
         next  == NextStage(r, stage)
     IN  \/ /\ outcome[r] \in {"blocked", "cooldown"}
            /\ Proceed(w, Towards(w, outcome[r], outcome[r]))
         \/ /\ outcome[r] = "none"
            /\ next # "completed"
            /\ Proceed(w, [inv[w] EXCEPT !.pc = "handoff", !.toStage = next])
         \/ /\ outcome[r] = "none"
            /\ next = "completed"
            /\ \E status \in {"completed_with_warnings"} \cup
                            (IF stage = "enriching" THEN {"completed"} ELSE {}) :
                 Proceed(w, Towards(w, status, "completed"))
  /\ UNCHANGED <<cloud, outcome, found, cooling, chilled, crashes, late>>

(* The unit after a transition.                                            *)
SlotKept(w) == inv[w].row.slot
SlotAfter(w) == inv[w].to \notin Terminal /\ inv[w].row.slot

(* transition: an UPDATE by id alone; a transition that does not release   *)
(* the unit writes the slot of the snapshot back.                          *)
Transition(w) ==
  /\ At(w, "transition")
  /\ LET r == inv[w].id
     IN  Write(w, r,
               [rows[r] EXCEPT !.status = inv[w].to, !.stage = inv[w].toStage,
                               !.slot = SlotAfter(w)],
               Done(w))
  /\ UNCHANGED <<cloud, outcome, found, cooling, chilled, crashes, late>>

(* The row of a run that goes on to stage s.                               *)
HandedWithJob(row, s) == [row EXCEPT !.stage = s, !.status = s]
HandedTo(row, s) == [row EXCEPT !.stage = s, !.status = s, !.job = NoJob]

(* handoff: UPDATE ... WHERE stage = the snapshot's stage.                 *)
Handoff(w) ==
  /\ At(w, "handoff")
  /\ LET r == inv[w].id
         s == inv[w].toStage
     IN  IF rows[r].stage = inv[w].row.stage
           THEN Write(w, r, HandedTo(rows[r], s), [inv[w] EXCEPT !.pc = "handedOff"])
           ELSE Proceed(w, Done(w))
  /\ UNCHANGED <<cloud, outcome, found, cooling, chilled, crashes, late>>

(* Re-read the row and start its stage unless somebody else has.           *)
HandedOff(w) ==
  /\ At(w, "handedOff")
  /\ LET r == inv[w].id
     IN  Proceed(w, IF rows[r].stage = inv[w].toStage /\ rows[r].job = NoJob
                     THEN EnterStage(r, inv[w].then) ELSE Done(w))
  /\ UNCHANGED <<cloud, outcome, found, cooling, chilled, crashes, late>>

-----------------------------------------------------------------------------
(* Scrapy Cloud, the crawler's ingestion, time and crashes.                *)

(* What a batch of job j can leave linked to its run.  A seller that has   *)
(* an official domain keeps it.                                            *)
Linked(j) ==
  LET r == cloud[j].run
  IN  CASE cloud[j].stage = "discovering" ->
             {f \in SUBSET {"candidates", "targets"} : HasTargets(r) => "targets" \in f}
        [] cloud[j].stage = "resolving" ->
             {found[r], found[r] \cup {"targets"}, {"targets"}}
        [] OTHER -> {found[r]}

(* Job j has crawled for as long as a source takes to halt it: the         *)
(* invocations that raced for its run before the launch have ended.        *)
Underway(j) ==
  \A w \in Workers : inv[w].id = cloud[j].run =>
    /\ inv[w].row.job = j \/ inv[w].row.status = "launching"
    /\ inv[w].pc # "start"

(* A signed batch of job j is stored: it links what was found, turns       *)
(* 'running' into 'ingesting', and replaces the record its run's stages    *)
(* share; a batch that reports a challenge or an HTTP 503 of Amazon starts *)
(* the cooldown.  A batch may come during the crawl, and after its end: a  *)
(* request the client gave up waiting for, a replay of the spool.          *)
RecordIngestion(j) ==
  /\ Accepted(j)
  /\ IF cloud[j].state = "finished" THEN late < MaxLate /\ late' = late + 1
                                    ELSE UNCHANGED late
  /\ LET r   == cloud[j].run
         row == rows[r]
     IN  /\ rows' = [rows EXCEPT ![r].status =
                       IF row.status = "running" THEN "ingesting" ELSE row.status]
         /\ aged' = [aged EXCEPT ![r] = FALSE]
         /\ inv' = Outdated(r)
         /\ \E f \in Linked(j) : found' = [found EXCEPT ![r] = f]
         /\ \/ outcome' = [outcome EXCEPT ![r] = "none"] /\ UNCHANGED cooling
            \/ \E o \in Outcomes \ {"none"} :
                  /\ cloud[j].state = "finished" \/ "slow" \in Faults \/ Underway(j)
                  /\ outcome' = [outcome EXCEPT ![r] = o]
                  /\ cooling' = (cooling \/ cloud[j].stage = "discovering")
  /\ UNCHANGED <<cloud, chilled, crashes>>

(* Another run's batch, or a decision on duplicates, changes sellers that  *)
(* were linked to run r: they are active or not, they have a domain now.   *)
SellersChange(r) ==
  /\ "decide" \in Operations
  /\ \E j \in Jobs : /\ Accepted(j) /\ cloud[j].run = r
                     /\ cloud[j].stage \in {"discovering", "resolving"}
  /\ \E f \in SUBSET {"candidates", "targets"} :
        (HasTargets(r) => "targets" \in f) /\ found' = [found EXCEPT ![r] = f]
  /\ UNCHANGED <<rows, aged, cloud, outcome, cooling, chilled, inv, crashes, late>>

(* No invocation that began before job j was recorded is still in flight:  *)
(* none carries an older snapshot of its run, or has found the unit free.  *)
Outlived(j) ==
  \A w \in Workers :
    /\ inv[w].id = cloud[j].run => inv[w].row.job = j
    /\ inv[w].pc # "pick" /\ inv[w].row.status # "queued"

(* The job ends: cancelled, by itself, or with output that never reached   *)
(* the Worker.  Its batches came before, or are still to come.             *)
JobFinishes(j) ==
  /\ cloud[j].state \in {"live", "stopping"}
  /\ "slow" \in Faults \/ Outlived(j)
  /\ \E close \in {"finished", "undelivered"} \cup
                   (IF cloud[j].state = "stopping" THEN {"cancelled"} ELSE {}) :
        cloud' = [cloud EXCEPT ![j].state = "finished", ![j].close = close]
  /\ UNCHANGED <<rows, aged, outcome, found, cooling, chilled, inv, crashes, late>>

(* The Amazon cooldown runs out.                                           *)
CooldownExpires ==
  /\ cooling
  /\ "expiry" \in Faults \/ \A w \in Workers : inv[w].pc \in {"idle", "pump"}
  /\ cooling' = FALSE
  /\ chilled' = {}
  /\ UNCHANGED <<rows, aged, cloud, outcome, found, inv, crashes, late>>

(* 120 seconds pass since the last write of a launching row.  Without the  *)
(* fault "slow", its launcher has finished or died by then, and so has     *)
(* every invocation that read the row before that write.                   *)
LeaseExpires(r) ==
  /\ rows[r].status = "launching"
  /\ ~aged[r]
  /\ \/ "slow" \in Faults
     \/ \A w \in Workers : inv[w].id = r =>
          inv[w].fresh /\ inv[w].pc \notin {"post", "setJob", "transition"}
  /\ aged' = [aged EXCEPT ![r] = TRUE]
  /\ UNCHANGED <<rows, cloud, outcome, found, cooling, chilled, inv, crashes, late>>

(* The runtime evicts an invocation between two awaits, or D1 throws.      *)
Crash(w) ==
  /\ ~At(w, "idle")
  /\ crashes < MaxCrashes
  /\ crashes' = crashes + 1
  /\ Proceed(w, Idle)
  /\ UNCHANGED <<cloud, outcome, found, cooling, chilled, late>>

-----------------------------------------------------------------------------

(* One step of an invocation that has begun.                               *)
Continue(w) ==
  \/ At(w, "pump") /\ Pump(w)
  \/ Recheck(w) \/ Pick(w) \/ Claim(w) \/ Claimed(w)
  \/ StartDiscovery(w) \/ ClaimLaunch(w) \/ Post(w) \/ SetJob(w)
  \/ Recover(w) \/ RecoverSet(w)
  \/ SyncActive(w) \/ ReadOutcome(w) \/ Transition(w)
  \/ Handoff(w) \/ HandedOff(w)
  \/ CancelTag(w) \/ CancelStop(w)

(* A cron tick or a list request.                                          *)
Tick(w) == At(w, "idle") /\ Pump(w)

(* A request of the operator.                                              *)
Request(w) ==
  \E r \in Runs :
    \/ Create(w, r) \/ Detail(w, r) \/ Cancel(w, r)
    \/ \E src \in Runs : Retry(w, src, r)

JobStep(j) == RecordIngestion(j) \/ JobFinishes(j)

Next ==
  \/ \E w \in Workers : Tick(w) \/ Request(w) \/ Continue(w) \/ Crash(w)
  \/ \E j \in Jobs : JobStep(j)
  \/ \E r \in Runs : LeaseExpires(r) \/ SellersChange(r)
  \/ CooldownExpires

Spec == Init /\ [][Next]_vars

(***************************************************************************)
(* Fairness: cron ticks for ever; an invocation runs to its end or dies;   *)
(* every job the provider accepts ends (CLOSESPIDER_PAGECOUNT bounds it);  *)
(* time passes.  Nothing obliges the operator to send a request.           *)
(***************************************************************************)
FairSpec ==
  /\ Spec
  /\ \A w \in Workers : WF_vars(Tick(w)) /\ WF_vars(Continue(w))
  /\ \A j \in Jobs : WF_vars(JobFinishes(j))
  /\ \A r \in Runs : WF_vars(LeaseExpires(r))

-----------------------------------------------------------------------------
(* Properties that hold whatever fails and however invocations interleave. *)

(* The index ux_operator_crawl_active_unit never has to reject a write: at *)
(* most one run holds the unit, although transition writes the slot of a   *)
(* snapshot back without looking.                                          *)
SlotUnique == \A r, q \in Runs : HoldsSlot(r) /\ HoldsSlot(q) => r = q

(* A run that holds the unit and has a job is 'running' or 'ingesting', so *)
(* the transition to 'running' in syncActive, the only one that would      *)
(* write an old slot back, is never taken.                                 *)
TrackedJobRunning ==
  \A r \in Runs : HoldsSlot(r) /\ rows[r].job # NoJob =>
                  rows[r].status \in {"running", "ingesting"}

(* A stage of a run is launched at most once: two jobs never carry the     *)
(* same operator:<run-id>:<stage> tag, which is what recovery relies on.   *)
LaunchOnce ==
  \A j, k \in Jobs :
    /\ Accepted(j) /\ Accepted(k)
    /\ cloud[j].run = cloud[k].run /\ cloud[j].stage = cloud[k].stage
    => j = k

(* The unit is only ever given to a queued run; a run that has released it *)
(* never holds it again, whichever late write reaches its row.             *)
SlotOnlyFromQueue ==
  [][\A r \in Runs : ~HoldsSlot(r) /\ HoldsSlot(r)' => rows[r].status = "queued"]_rows

(* No Amazon crawl is started in a cooldown that was on when its run was   *)
(* queued or was given the unit: the queue looks at the registry twice, so *)
(* a batch that starts a cooldown between a look and the write it allowed  *)
(* costs at most the unit, for as long as it takes to look again.          *)
CooldownHonoured ==
  [][\A r \in chilled :
       /\ HoldsSlot(r)' => HoldsSlot(r)
       /\ \A j \in Jobs : Accepted(j)' /\ ~Accepted(j) =>
                            <<cloud'[j].run, cloud'[j].stage>> # <<r, "discovering">>]_vars

(* What the unit is to a run.                                              *)
Phase(r) ==
  IF rows[r].status \in {"absent", "queued"} THEN "waiting"
  ELSE IF HoldsSlot(r) THEN "holding"
  ELSE "released"

Unit == INSTANCE CrawlUnit WITH
  Stages   <- CrawlStages,
  phase    <- [r \in Runs |-> Phase(r)],
  launched <- {<<cloud[j].run, cloud[j].stage>> : j \in {k \in Jobs : Accepted(k)}}

(* Seen from outside, all the queue does is give the unit to one waiting   *)
(* run after the other and launch each of its stages at most once.         *)
ImplementsUnit == Unit!Spec

-----------------------------------------------------------------------------
(* Properties that hold where invocations do not overlap, or overlap but   *)
(* end within the lease and are neither cancelled nor left without an      *)
(* answer.  The three that follow the first also need that two polls of    *)
(* one ended job read the same: they fail when a late batch, or a decision *)
(* on sellers, comes in between (MaxLate, "decide").                       *)

(* The job a slot holder is polled by belongs to its current stage: the    *)
(* result of one stage is never taken for the result of the next.          *)
TrackedJobOfStage ==
  \A r \in Runs : HoldsSlot(r) /\ rows[r].job # NoJob =>
    /\ cloud[rows[r].job].run = r
    /\ cloud[rows[r].job].stage = rows[r].stage

(* A job that has not ended and was not asked to stop belongs to the run   *)
(* that holds the unit: the queue never loses sight of an external job.    *)
LiveJobHoldsUnit == \A j \in Jobs : Live(j) => HoldsSlot(cloud[j].run)

(* At most one external job is active at a time.                           *)
OneLiveJob == \A j, k \in Jobs : Live(j) /\ Live(k) => j = k

(* A run that has reached a terminal status, where the dashboard stops     *)
(* polling it, stays terminal.                                             *)
TerminalStays ==
  [][\A r \in Runs : rows[r].status \in Terminal => rows'[r].status \in Terminal]_rows

(* Every queued run ends: the unit it waits for is always released, and a  *)
(* run that has been given it is brought through all its stages.           *)
QueuedRunEnds ==
  \A r \in Runs : rows[r].status = "queued" ~> rows[r].status \in Terminal

=============================================================================
