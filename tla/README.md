# Seller Intelligence in TLA+

Seller Intelligence finds public sellers on marketplaces and collects their
business contacts. Three programs share the work:

- a **Cloudflare Worker** (`apps/worker-api`) with four D1 databases (core,
  contacts, operations, history). It queues crawls, starts them on Scrapy
  Cloud, ingests what they find, resolves duplicates and serves the dashboard;
- a **Scrapy crawler** (`crawler/sellerintel`), whose spiders run as external
  jobs and post signed batches back to the Worker;
- a **dashboard** (`apps/dashboard`), which reads and polls.

No two of these steps share a transaction, and D1 statements are atomic only one
by one. Between any two awaits another invocation of the Worker may run, a job
may end, or the invocation may die. That is what these modules are about.

## Inventory

| Part | State | Operations | What is hard | What makes it correct |
|---|---|---|---|---|
| Operator crawl queue (`operator-crawl/service.ts`) | `operator_crawl_runs` with its one `active_unit_slot`; jobs at Scrapy Cloud | create, retry, cancel, detail, list, pump (cron), syncActive, startActiveStage, handoff, recordIngestion | every request pumps; snapshots across awaits; launch of an external job and its record are two steps; leases | one run holds the unit, one external job is live, a stage is launched once, a job belongs to the stage it is polled for, every queued run ends |
| Ingestion endpoint (`ingestion/route.ts`) | nonces, idempotency keys | one signed POST | check-then-insert; a retry racing the attempt it repeats; crash before the key is written | a batch takes effect once; a refused batch takes none |
| Unit of work (`repositories/unit-of-work.ts`) | rows of four databases | commit: core, contacts, operations, history | failure between stages, replay | a replay completes what is missing and repeats nothing |
| New Crawl form and crawl monitor (`app/crawls/new/page.tsx`, `components/crawl-run-monitor.tsx`) | the answer of the last submit, the shown detail, a poll loop for each effect | submit, hear, refresh, reload, poll | answers that come late or never, cleanups that do not reach a fetch already answered | one run for one search, one loop, results that are complete |
| Client and spool (`clients/ingestion.py`, `pipelines.py`, `spool/`) | spool files, counters of the spider | submit with retries, spool, replay, completion record | lost answers, order of replay, a damaged file | an accepted batch is never dropped unnoticed |
| Entity resolution (`entity-resolution/service.ts`) | decisions, redirects | score, merge, queue for review | a decision reused while it is rolled back | the action follows the score; a merge is traceable |
| Duplicate decisions (`entity-resolution/decisions.ts`) | links of a seller in four databases, audits | merge, keep separate, ignore, rollback | seven writes, no transaction; new rows meanwhile | rollback restores every moved row |
| Cooldown registry (`cooldown/route.ts`, `source_registry`) | `blocked_until` per source | preflight check, upsert by ingestion | stale reads, overwritten cooldowns, keys that differ | no crawl of a source in cooldown |
| Spiders (`spiders/`) | queues, budgets, blocks per domain | page, sitemap, error callbacks | callbacks in any order | budgets hold, a blocked domain is left alone |
| Local runner (`runtime/local.py`) | a lock file | run | a runner killed with the lock | one runner at a time, and again after a crash |
| D1 transfer (`operations/d1_transfer.py`) | backup files | backup, restore | partial restore | four databases of one moment |
| Other dashboard pages, extractors, normalisation, startup gates | none of interest | | | |

How they interact: the cron and every operator request call the **queue**; the
queue starts **spiders** through Scrapy Cloud's HTTP interface; spiders ask the
**cooldown** route before a source and post batches through **client** and
**spool** to **ingestion**; ingestion runs **entity resolution**, commits through
the **unit of work** and calls `recordIngestion` of the queue; the queue reads
the completion record (`crawl_runs`) and the cooldowns that ingestion wrote. The
operator decides on the duplicates that entity resolution leaves open, while
batches go on arriving, and watches a run in the **monitor**, which polls the
detail route of the queue.

`PROJECT.json` lists the hazards at their lines, with the properties that cover
them or the module that will.

## Plan

In the order of importance. Done:

1. `OperatorQueue`, the queue, with `CrawlUnit`, its abstract specification;
   `OperatorQueueProofs` about all its behaviours, `TimelyQueueProofs` and
   `SteadyQueueProofs` about those whose launches are in time, and
   `SequentialQueueProofs` about those whose invocations do not overlap.
2. `Ingestion`: client, spool, replay, endpoint and unit of work, with `BatchStore`,
   the abstract specification it implements, and `IngestionProofs`.
3. `SellerMerge`: entity resolution and duplicate decisions, which write the same
   rows at the same time, over four databases, with `SellerMergeProofs` (what is
   decided) and `SellerLinkProofs` (where the links are).
4. `CreateRun` and `CrawlMonitor`, composed by `OperatorConsole`: how a run comes
   into the table, and what the page that asked for it shows, with
   `OperatorConsoleProofs`.

Left, each a component of its own:

5. `WebsiteSpider` and `AmazonSpider`: page budgets, blocks, cooldown keys and
   targets, with the per-domain part of the cooldown registry. To prove: the page
   budget, for every budget and order of callbacks.
6. `LocalRunner` and the partial restore of the D1 transfer.

## The modules

### OperatorQueue

Nothing serialises invocations of the Worker, so **an invocation is a process**.
`inv[w]` is where it stands (`pc`), the row it read (`id`, `row`: the parameter
`run` of the TypeScript), and what it is about to write. One action is one D1
statement, or one request to Scrapy Cloud, with the code up to the next await.

| Variable | In the code |
|---|---|
| `rows[r]` | `operator_crawl_runs`: `status`, `stage`, `active_unit_slot` (`slot`), `zyte_job_id` (`job`) |
| `inv[w].fresh` | whether `updated_at` is still the snapshot's; every write of the row sets it to FALSE in the others, as two writes differ in `updated_at` |
| `aged[r]` | 120 seconds have passed since `updated_at`; a write resets it |
| `cloud[j]` | the external jobs, with the run and stage of the tag they carry |
| `outcome[r]` | `crawl_runs`, the completion record that all stages of a run share |
| `found[r]` | what ingestion has linked to the run that its next stages need |
| `cooling` | `source_registry.blocked_until` of the Amazon marketplace |
| `chilled` | history: the runs that were queued or given the unit in the cooldown that still lasts |
| `late` | how many batches were stored after their job's end; `MaxLate` bounds it |

| Code | Actions |
|---|---|
| `create`, `retry`, `detail`, `cancel` | `Create`, `Retry`, `Detail`, `Cancel` then `CancelTag`, `CancelStop`, `Transition` |
| `scheduled`, `list`, `pump` | `Tick`, `Pump`, `Recheck`, `Pick`, `Claim`, `Claimed` |
| `startActiveStage`, `launch` | `EnterStage` (the part before its first await), `StartDiscovery`, `ClaimLaunch`, `Post`, `SetJob`, `Recover`, `RecoverSet` |
| `syncActive`, `transition`, `handoff` | `SyncActive`, `ReadOutcome`, `Transition`, `Handoff`, `HandedOff` |
| `recordIngestion`, and what the batch writes that the queue reads | `RecordIngestion` |
| decisions on duplicates, batches of other runs | `SellersChange` |
| Scrapy Cloud, time, the runtime | `JobFinishes`, `LeaseExpires`, `CooldownExpires`, `Crash` |

Abstractions. Run ids are numbers in the order of `requested_at`. Rows keep what
the queue's decisions read; events, counters, warnings and error texts are left
out, so an event and the statement before it are one step, and an event that
fails is a `Crash` after that step (in `startActiveStage`, where it is caught,
it is an outcome of `SetJob`). A crash also stands for a D1 statement that
throws. `launch` may fail for many reasons of its own (no candidate, a missing
secret, a refused request): `Post` may always fail. What a job finds and how it
ends are open choices. Whether a run completes with warnings is open too, except
where the code always warns. The identity of the fetched targets is left out:
of the targets, only whether there are any matters for control. `create` is
modelled from its INSERT on.

A batch is stored when it comes (`RecordIngestion`): while its job crawls or,
because its request was cut off or it is replayed, after its job has ended. It
replaces the completion record and what is linked to the run, may start a
cooldown, and moves `updated_at`. `JobFinishes` only ends the job. The linked
sellers also change by what has nothing to do with the run (`SellersChange`). So
two invocations that poll one ended job may well read different outcomes.

Three constants describe the surroundings. `Operations` says which optional
requests are sent, among them `decide`, the decisions that change the sellers of
a run. `MaxLate` bounds the batches stored after their job's end. `Faults` says which
faults occur: `error` (a request without effect), `lost` (an accepted job whose
answer, record or event is lost), `slow` (an invocation outlives the 120-second
lease, or a crawl) and `expiry` (a cooldown ends while pumps are running). Without
`slow`, because a crawl takes minutes and an invocation seconds:

- an external job does not *end* while an invocation still carries a row read
  before that job was recorded, or has found the unit free before it (`Outlived`);
- a batch that a source has *halted* the crawl does not come before the
  invocations that raced for its launch have ended (`Underway`): the crawl needs
  its first responses for that. Invocations that look at the registry or claim
  for *other* runs may be anywhere, between `Pick` and `Claim` for instance, and a
  late batch is not held to this at all;
- a lease does not run out under its launcher, or under an invocation that read
  the row before the lease began.

### CrawlUnit

What the queue promises: runs wait, one at a time is given the unit, a run that
has released it never gets it back, and no stage of a run is launched twice.
`OperatorQueue` implements it with the mapping `Phase` (waiting, holding,
released) and the set of launched stages. A launch does not require that its run
still holds the unit: a cancel can take it away while the request is on its way.

### Ingestion

A crawl job has one pipeline (`spider`), which submits its batches one after the
other; a replay of the spool (`replayer`) may run at any time; **a request at the
Worker is a process** (`requests[w]`), and goes on when its sender has given up.
One action is one D1 statement with the code up to the next await.

| Variable | In the code |
|---|---|
| `rows[k]` | a row of any table: who wrote it last, and the writer with the greatest `identity_confidence`, whose name `sellers` keeps |
| `stored[b]` | how many statements of batch `b` have ever taken effect, an auxiliary count: `commit` always goes through them from the first |
| `linked`, `keys`, `nonces`, `reported` | `recordIngestion`'s links, `idempotency_keys`, `ingestion_nonces`, `crawl_runs.status` |
| `spider`, `replayer` | the batch in hand, the attempt, whether an answer is awaited |
| `fate[b]` | what the job's counters know of a batch: accepted, spooled, rejected, dropped |
| `spool` | the files of the spool directory |
| `strays` | history: batches that had a request nobody waited for |

| Code | Actions |
|---|---|
| `IngestionClient.submit_batch`, pipelines | `Submit`, `Offline`, `Timeout`, and `Hears`, which `Answer` and the faults share: retry, spool, refuse, next item, completion record |
| `replay_spool_records` | `Replay`, then the same `Hears` |
| `ingestBatchResponse` | `LookUpNonce`, `RecordNonce` (and the schema), `Check` (policy, idempotency key), `Write`, `WriteRefused`, `Link`, `RecordKey`, `Answer` |
| the network, the edge, the runtime | `Cut` (the sender is answered 5xx while the Worker goes on), `Copy` (delivered twice), `Fail` |

A batch is the sequence of statements it becomes (`Plan`), in the table order of
`commit`; `Verdict` says which check would refuse it. Both are constants, so the
proofs hold for every batch. `Upserted` says what each table's ON CONFLICT keeps
and overwrites.

### BatchStore

What ingestion promises of a batch: its statements take effect in their order, no
effect is undone, and it is acknowledged only when all of it is stored and
linked. The mapping takes `acked` to be the recorded idempotency keys.

### SellerMerge

`Importers` are requests of ingestion between `prepareEntityResolution` and the
end of their commit, `Operators` requests of `applyDuplicateDecision`. Of a row that refers to a
seller (a *link*) only its owner is kept, and of a seller only its status.

| Variable | In the code |
|---|---|
| `owner[l]`, `status[s]` | the `seller_id` of link `l` in one of nine tables, `sellers.status` |
| `decision[d]`, `audit[d][l]`, `redirect[s]`, `review[d]`, `events` | `entity_resolution_decisions`, `seller_merge_link_audit`, `seller_merge_redirects`, `review_queue`, `audit_events` |
| `operator[p]`, `importer[i]` | the requests, with what each has read |

| Code | Actions |
|---|---|
| `prepareEntityResolution` | `Find` (candidates, `Score`, the best), `LookUp` (a decision that is there is kept to) |
| a batch without a seller | `StoreSource` |
| `commit` of the batch | `WriteSeller`, `WriteLink`, `WriteDecision`, `WriteRedirect`, `WriteAudit`, `WriteReview`, in the order of `Statements` |
| `applyDuplicateDecision`: merge | `Begin`, `List` (table by table), `Audit`, `Move` (table by table), `AddRedirect`, `Decide`, `ResolveReview`, `Log` |
| `applyDuplicateDecision`: keep separate, ignore | `Begin`, `Decide`, `ResolveReview`, `Log` |
| `applyDuplicateDecision`: rollback | `Begin`, `Recall`, `Restore` (row by row), `Activate`, `CloseAudits`, `EndRedirect`, `Decide`, `ResolveReview`, `Log` |
| failures | `FailImport`, `FailOperator` |

The code leaves windows open, and the properties name them rather than hide them:
`exposed` collects the links written in one of them, `veiled` the sellers hidden
in one, `contested` the decisions that two requests worked on at once, `halted`
those a request failed over. A link is exposed when, for instance, it is inserted
for a seller after a merge has listed that table and before it moves its rows.
A source is a row of its address alone, so two sellers of one domain share it, and
batches that carry a source and no seller (discovery of websites, the notes of a
block) overwrite its seller, or clear it, without any look at decisions: `Bare` says
which such batches there are, `StoreSource` stores one, and `Home(l)` collects the
sellers the crawler has ever found link `l` for. When such a batch brings a source to a seller that has
been merged, the link is exposed. Batches of a crawler have one seller or none.

`untimely` is the one case that no window explains. Merges that share a link are
meant to be rolled back last one first. When the first of two is rolled back while
the second still has the link (`MovedOn`), `restoreSellerLinks` finds the link
elsewhere and leaves it, and the audit is closed; the rollback of the second then
brings the link to the seller in the middle, whose own claim to it has been
rolled back before. `untimely` notes the link and that seller.

The listing of a merge reads its databases side by side (`Promise.all`); the
model reads the tables one after the other, in a fixed order.

### CreateRun, CrawlMonitor, OperatorConsole

`CreateRun` is `create` and `retry` up to the row of the run: the idempotency key
is looked up, an equal search is looked up twice (by fingerprint, then among the
runs that have none), the run is inserted, then the key. What becomes of the run
is the queue's matter; here it is only open or over.

| Code | Actions |
|---|---|
| `create` | `LookUpKey`, `EquivalentSearch`, `HistoricalSearch`, `TargetRefused`, `Insert`, `RecordKey`, `LoadRun` |
| faults | `InsertLost` (the INSERT counts, its answer is lost: the catch block looks for an equal search), `Fail`, `Expire` |
| `retry`, the end of a run | `Retry`, `Finish` |

`CrawlMonitor` is the React component: an effect for each mount and refresh
(`Mount`, `Refresh`) with a poll loop of its own (`ReadRow` and `ReadSellers` at
the Worker, `Deliver`, `FetchFails`, `TimerFires`) and the cleanup of the effect
before it (`CleanedUp`), which cannot take back an answer that has come.

`OperatorConsole` composes them as the page does: `Submit` with a new key each
time, `Hear` the answer and mount a monitor for its run, `Reload` the page, which
finds the run in its URL, `Unreachable` when the form gives up.

### The MC modules

Functions from ids to modes, batches to statements and pairs of sellers to what
they have in common, and the symmetries. Invocations of the queue, and the
requests of `SellerMerge`, appear in no ordered or distinguished position.

## The runs

| Run | Instance | Shows |
|---|---|---|
| `OperatorQueueFaults` | 1 Amazon run of up to three stages, 2 invocations, all faults, 1 crash, cancel, decisions on its sellers | `TypeOK`, `TrackedJobRunning`, `LaunchOnce`, `SlotOnlyFromQueue` hold whatever happens |
| `OperatorQueueTimely` | 2 Amazon runs, 2 invocations, failing requests, 1 late batch, nothing is lost, dies or is slow | `SlotUnique`, `TrackedJobOfStage`, `CooldownHonoured` |
| `OperatorQueueReliable` | an Amazon run of up to three stages and a website run, 2 invocations, detail, failing requests, no late batch | `OneLiveJob`, `LiveJobHoldsUnit`, `TerminalStays`, `ImplementsUnit` |
| `OperatorQueueSequential` | 2 runs of two stages, 1 invocation, 1 crash, 1 late batch, detail, cancel, retry, fairness | `OneLiveJob`, `LiveJobHoldsUnit`, `TerminalStays`, `QueuedRunEnds` |
| `OperatorQueueCancelRace` | 2 runs of one stage, 2 invocations, cancel | `OneLiveJob` is violated |
| `OperatorQueueLostResponse` | 2 runs of one stage, 1 invocation, lost answers | `OneLiveJob` is violated |
| `OperatorQueueRecovery` | 1 run of two stages, 2 invocations, 1 crash | `TrackedJobOfStage` is violated |
| `Ingestion` | 4 batches (two sellers; one seen again with a contact of the other; one refused by policy; the completion record), 2 requests at once, 2 attempts, any 2 faults, fairness | `AcknowledgedIsStored`, `NothingLost`, `CompletionHonest`, `RefusedLeavesNothing`, `ContactsHaveSellers`, `StrongestNameKept`, `LaterBatchWins`, `SpooledLands`, `ImplementsPromise` |
| `IngestionReadTimeout` | the same batches, requests that fail and answers nobody reads | `NothingDropped` is violated |
| `IngestionLateBatch` | 3 batches of a crawl that meets a cooldown, 2 requests cut off, fairness | `CompletionStays` is violated |
| `SellerMerge` | 2 sellers, 3 links (of two databases, one of both sellers), 1 operator with 4 requests, 2 importers, 2 batches in all with or without a seller, 1 failure | `MovesAudited`, `RollbackRestores`, `SeparateStaysSeparate`, `MergeComplete`, `HiddenForAReason` |
| `OperatorConsole` | 2 requests and 2 keys, a search in two wordings and a website, 2 runs, any 2 faults, 2 poll loops | `OneRunPerSearch`, `OneRunPerKey`, `AnswersAgree`, `AnswerFits`, `ResultsComplete`, `PollsOnce`, `NeverSilent`, `OverStaysShown` |

**Bounds of the queue.** Two invocations are enough for every race over one snapshot: one
acts, the other carries a row that is out of date. Two runs are enough for the
slot: one holds it, one waits. `Jobs` is the number of stages the runs have in
`OperatorQueueReliable`; elsewhere there are fewer, and a launch for which no id is
left is refused, as any launch may be. Two ids are enough for what the runs ask:
one stage launched twice, a stage and the next one, a job of each run. One late
batch is the one that comes between two readings. The detail read advances a run
as the pump does, so it is left to `OperatorQueueReliable` and
`OperatorQueueSequential`. The larger runs have up to five million states and take one
to three minutes each. `CHECK_DEADLOCK` is on in these runs: a cron tick is always
possible. The others have bounded inputs and stop when they are used up.

**Bounds of the others.** `Ingestion`: two batches that write one seller are what
an order can be seen in, a contact of the other seller is what must wait for a
row of another database, and two requests at once are an attempt and its retry, a
request and its copy, or the job and a replay. Two attempts make one retry; two
faults, of any kinds, exhaust the attempts or cut off an attempt and fail its
retry. `SellerMerge`: two sellers make both decisions of a pair, and one operator
is what the documents describe; one link is kept by an upsert of its table, one
overwritten by it, and one is a source of both sellers, which batches with and
without a seller overwrite; four requests are a merge, its rollback, and a
merge that failed and is repeated; two importers are one that looked before a
decision and one that looks after it. Two operators at once were explored with
fewer requests: they are what `contested` is about. Three sellers were
explored in the same way, in full without failures and at random with them. There
one seller can be merged into two others, one
merge after the other with the links of a batch in between: rolling back one of
them brings back a link that both have listed, while the other merge stands and
the seller is visible again. `MergeComplete` excepts such links by name. The
theorems cover every such chain. `OperatorConsole`: two
requests race for a search, or one repeats the other; two runs are the one that
must be the only one and the one that would be too many (or is its retry, or a
website's); two loops are one that runs and one that was stopped with its answer
in hand.

**Fairness of the queue** (`FairSpec`, `OperatorQueueSequential`). The cron ticks for ever
(`WF` of `Tick`); an invocation runs to its end or dies (`WF` of `Continue`);
every external job ends, because `launch` sets `CLOSESPIDER_PAGECOUNT` (`WF` of
`JobFinishes`); time passes (`WF` of `LeaseExpires`). Nothing obliges the
operator to send a request. Liveness is checked with one invocation at a time
only; with two, each finite race is already covered by the safety runs, but
`QueuedRunEnds` is not checked there.

**Fairness of ingestion** (`FairSpec`, `Ingestion`). A request that the Worker has
taken goes on to its answer, or fails (`WF` of `Handle`, for each request); the job
goes on with its items (`WF` of `Submit`); the spool is replayed again and again
(`SF` of `Replay`, for each batch). The last is the strong one: the replay is a
command of the operator, not a daemon, and `SpooledLands` says what repeating it
brings about. Without a repetition a record whose contact waits for a seller in a
later record of the spool stays there. The faults are bounded, so the network works in
the end. `SellerMerge` and `OperatorConsole` have no liveness property: nothing
obliges an operator to finish a merge that failed, and that the monitor does not
fall silent is the invariant `NeverSilent`.

**What the violated runs say.** Of ingestion: a read timeout in the client is a
`TimeoutError`, which the code that retries and spools does not catch, so a batch
that the Worker then fails to store is gone (`IngestionReadTimeout`). And every
batch carries a status for the crawl run: one that is stored after the completion
record, because its request was cut off and went on or because it was replayed,
turns `cooldown` back to `running` (`IngestionLateBatch`).

Of the queue: the documents promise one active external job
and the recovery of exactly the stage that was launched. The slot is exclusive,
always. The job is not:

- a `cancel` that read the run before it was claimed or launched writes
  `cancelled` by id alone and frees the unit under a launch that goes on;
- a launcher that is told of a failure after the job was accepted fails the run
  and frees the unit without looking the tag up, which only a launcher that
  dies leaves to recovery;
- a recovery that resumes late records the job of an earlier stage for the next
  one, because its UPDATE does not name the stage.

`OneLiveJob` therefore appears as an invariant of the runs without these causes,
and `TerminalStays` likewise: after such a cancel, or when a launcher outlives its
lease and the run is failed meanwhile, the late record of the job turns an ended
run to `running` again. It does so without the slot, which is what
`SlotOnlyFromQueue` says and what is proved for every case.

There is a fourth cause, which needs no cancel and no fault, and which has no run of
its own: `OperatorQueueReliable` with `MaxLate = 1`, without requests and faults,
violates `OneLiveJob` in a trace of 30 states. The job of the discovering stage
ends. One invocation reads the record of a crawl that no source has halted, and
hands the run off. A late batch of that job, which says that a source has halted it,
is stored. A second invocation, which has read the same row, reads that
record and is to end the run. The first claims the launch of the next stage; the
second writes `blocked` or `cooldown` by id alone and frees the unit; the next run
is claimed; and both post. A late batch that turns a halted record back to
`running` (`IngestionLateBatch`) does the same with the two invocations exchanged, and
a decision that changes the run's sellers between the two reads may do it too. That is
why `OneLiveJob`, `LiveJobHoldsUnit` and `TerminalStays` are stated for overlapping
invocations with `MaxLate = 0` and no `decide`; where invocations do not overlap they hold with late batches.

Of duplicate sellers: `docs/operations.md:80-82` says that a rollback restores the
links recorded for the decision. It does for merges rolled back last one first.
Without the exception of `untimely`, both `RollbackRestores` and `MovesAudited` are
violated within the bounds of the run `SellerMerge`: a batch has seller 1 merged
into 2, the operator merges 2 into 1, rolls back the first merge, which finds the
link with 1 already and closes its audit, then the second, which brings the link
to 2. Both are rolled back, the link of 1 is with 2, and no open audit tells of it.

Each property of a passing run was also seen to fail when one definition of
its model is replaced by a plausible slip. Those slips are the definitions that
nothing uses (`ClaimableAgain`, `SlotKept`, `UpsertedLastName`, `RestoreCoreOnly`, ...), each above the one it would
replace.

## The proofs

### The queue

`OperatorQueueProofs` proves for every set of runs, modes, invocations and jobs,
for every choice of faults and requests, and for any number of crashes:

| Theorem | Property |
|---|---|
| `TypeCorrect` | `TypeOK` |
| `UnitIsExclusive` | `SlotUnique` |
| `TrackedJobIsRunning` | `TrackedJobRunning` |
| `StageLaunchedOnce` | `LaunchOnce` |
| `UnitOnlyFromQueue` | `SlotOnlyFromQueue` |
| `QueueImplementsUnit` | `ImplementsUnit` |

The only assumption is `ConstantsAssumption` (ids are numbers other than 0, modes
and faults are the known ones).

The argument is one inductive invariant, `QueueInv`, in two parts.

`SnapshotInv` says what an old snapshot may still be trusted for. `SlotUnique` is
not inductive: `Transition` writes the snapshot's slot back when the status it
writes is not terminal. The only such transition is the one to `running` in
`syncActive`, and it needs a snapshot with a job and a status that is neither
`running` nor `ingesting`. No such row ever exists with the slot
(`TrackedJobRunning`, which is itself an invariant only together with what rows
may look like, `RowOK`, and what snapshots may, `InvocationOK`). So a step
gives the slot only in `Claim`, whose WHERE looks first.

`LaunchInv` says why the conditional UPDATE before a launch is enough. A stage is
*due* as long as its run waits for it: it comes after every stage that was ever
launched. An invocation that is about to post has made its row `launching`, is
alone in that, and no job of its stage exists. The stages of a run only move on
(`After`), whoever writes; a snapshot that is fresh has the row's stage, and one
that is not fresh cannot win the UPDATE. Hence two accepted jobs with one tag
are impossible.

`QueueInvInit`, `QueueInvStep` (one lemma per action) and `QueueInvHolds` are the
usual three facts. `NextMove` then shows for each action that it is a step of
`CrawlUnit` or a stutter, from which the last two theorems follow.

### The queue in time

`CooldownHonoured` needs no condition at all. A cooldown may start at any moment,
also between the look of `Pick` and the claim, which does not look again; what
the code then still does is to look once more before the launch
(`StartDiscovery`). So the property speaks of the runs that were queued, or given
the unit, when the cooldown was on (`chilled`): none of those is given the unit, or
launched, while it lasts. `ChilledInv` says that what an invocation has in hand has
not been chilled since it looked: a queued run it is about to claim was not queued
in the cooldown, and a discovery it is about to launch was given the unit before
the second look, so that look has seen the cooldown. What the code does let happen, a cooldown that starts
between the second look and `run.json`, is outside it.

`OneLiveJob` and its relatives are false in general: the three violated runs of
the queue and the late batch above say why. They are proved under the conditions
those break, again for every set of runs, modes, invocations and jobs:

- `Timely`: no invocation dies (`MaxCrashes = 0`), none outlives the lease or an
  external job (no `slow`), and no answer of Scrapy Cloud is lost (no `lost`). Requests
  may be refused, the operator may do anything, and batches come when they like. This
  is the normal operation of the Worker: an invocation takes seconds, the lease is
  two minutes, a crawl longer.
- `Steady`: besides, the operator does not cancel, no cooldown runs out while a pump
  carries an older reading of it, and two polls of an ended job read the same: no
  batch is stored after its job's end (`MaxLate = 0`), no decision changes the run's
  sellers (no `decide`). Create, retry and detail requests race the cron as they
  like, and batches come during the crawl. This is a real restriction: late batches
  do occur, and the theorems say nothing of runs that have one.

| Theorem | Module | Assumes | Property |
|---|---|---|---|
| `CooldownIsHonoured` | `TimelyQueueProofs` | nothing | `CooldownHonoured` |
| `PolledJobIsOfStage` | `TimelyQueueProofs` | `Timely` | `TrackedJobOfStage` |
| `LiveJobIsOfHolder` | `SteadyQueueProofs` | `Steady` | `LiveJobHoldsUnit` |
| `JobsRunOneByOne` | `SteadyQueueProofs` | `Steady` | `OneLiveJob` |
| `EndedRunStaysEnded` | `SteadyQueueProofs` | `Steady` | `TerminalStays` |

`Timely` is needed for `TrackedJobOfStage` (`OperatorQueueRecovery` has one crash),
and `Steady` for `OneLiveJob` (`OperatorQueueCancelRace` has no fault at all, only a
cancel, the trace above only a late batch). The conditions are about the constants;
the runs `OperatorQueueTimely` and `OperatorQueueReliable` are instances of them.

`TimelyInv` says that a row in `launching` has an invocation that will write it, so
that no lease ever runs out and no recovery begins; that an accepted job is
recorded by exactly one invocation, before anyone polls it; and that the job in
a row or in a snapshot carries the tag of the stage beside it.

`SteadyInv` says of every invocation in flight how its snapshot and the row are
related (`Sound`), because the writes themselves do not look:

- `LauncherSound`: the row of a launcher is still `launching`, in the same stage, and
  a launcher that gives up has launched nothing (with `OneLauncher`, nobody else
  may write that row);
- `TrackerSound`: while the run has the unit, a job in a snapshot is still the row's,
  or has finished and its run goes on; an invocation that is about to end the run has
  seen that job finish;
- `StarterSound`, `PickSound`: a cooldown is found before the launch is claimed, and one
  that has started since a run was picked is the work of a job that is still live,
  so that the unit is not free;
- `RowSteady`, `JobSteady`: a run without the unit waits or is over, and a live job
  is recorded in the row of the holder, or about to be.

A `transition` to a terminal status thus frees the unit only when the job is known
to have finished, which is `LiveJobHoldsUnit`; with `SlotUnique` it gives
`OneLiveJob`.

### The queue one invocation at a time

`Timely` and `Steady` let invocations overlap and forbid them to die and the operator to
cancel. `SequentialQueueProofs` has it the other way round, for every set of runs,
modes and jobs:

- `Sequential`: no two invocations are in flight at once, and no answer of Scrapy
  Cloud to an accepted launch is lost (no `lost`). Any number of invocations die at any
  await, the operator cancels what he likes, requests fail, leases and external
  jobs run out at any moment, batches are stored during a crawl or after its end,
  and decisions change what they have linked. This is the Worker of one operator: a tick a minute,
  each over before the next, evicted now and then.

| Theorem | Property |
|---|---|
| `DeadLaunchKeepsUnit` | `LiveJobHoldsUnit` |
| `DeadLaunchNotRepeated` | `OneLiveJob` |
| `RecoveredJobIsOfStage` | `TrackedJobOfStage` |
| `CancelledRunStaysEnded` | `TerminalStays` |

Both halves are needed: `OperatorQueueLostResponse` has one invocation and lost answers,
`OperatorQueueCancelRace` two invocations and no fault. `OperatorQueueSequential` is an
instance, without failing requests (with requests that fail for ever no run need
end, which that run also asks).

Of `SequentialInv`, which is added to `QueueInv`:

- `Placed`: a job at work is of the *current stage* of a run that holds the unit.
  Nothing is said of the row's job id: after a crash between `Post` and `SetJob`
  there is none. With `LaunchOnce` there is only one such job, so `OneLiveJob`
  follows, and a cancel that looks the stage's tag up stops the right one.
- `Fits`: a snapshot is still the row (`Agrees`), but for `running` turned to
  `ingesting`; a job about to be recorded or stopped carries the tag of the row's
  stage; a run about to end is `Quiet`, it has no job at work. There are
  three ways to know that (`RunQuiet`, `StageQuiet`): the run has no unit, its
  stage has not been launched (`LaunchInv`), or the stage's one job has ended.

### Ingestion

`IngestionProofs` proves for every number of batches, every sequence of statements
a batch may become, every verdict, any number of concurrent requests and of
attempts, and every choice of faults:

| Theorem | Property |
|---|---|
| `TypeCorrect` | `TypeOK` |
| `Acknowledged` | `AcknowledgedIsStored` |
| `Undelivered` | `NothingLost` |
| `Refused` | `RefusedLeavesNothing` |
| `ContactsOfSellers` | `ContactsHaveSellers` |
| `StrongestName` | `StrongestNameKept` |
| `LaterWins` | `LaterBatchWins` |
| `HonestCompletion` | `CompletionHonest` |
| `IngestionImplementsPromise` | `ImplementsPromise` |

The assumptions are `ConstantsAssumption` and `PlanAssumption`: a batch becomes
at least one statement (each writes its crawl run), its statements are in the
order of the tables, and a row is of one table.

The inductive invariant, `IngestionInv`, ties what a request remembers to what is
stored. None of the properties is inductive, as all of them depend on where the
requests are:

- `RequestsSound`: a request that writes its n-th statement has stored those
  before it, one that links has stored them all, one that records the key is
  linked, and one that answers `accepted` or `duplicate` is both. A statement of a
  batch that is refused is never reached.
- `OneRequestEach`: a sender that waits has exactly one request, for the batch it
  has in hand; a batch with any other request is in `strays`.
- `FatesInOrder`, `NoneAhead`: the job knows the fate of the batches before the one
  in hand, and nothing of a later batch is stored yet. It is what makes "later"
  in `LaterBatchWins` and the claim of the completion record mean anything.
- `StoreInv`: a statement that has taken effect has left its row, together with
  the properties about batches that are stored.

The lemmas follow what a step touches: what a sender does on an answer
(`ClientEffect`), a request that is let go (`ReleaseKeeps`), one that goes on
(`HandleKeeps`, `ReadKeeps`), and the one action that writes rows (`WriteEffect`).
What depends on the history of a row (`ContactsStep`, `NamesStep`, `LaterStep`,
`CompletionStep`) is inductive given that invariant in this and the next state.
`StepKinds` sorts the steps into quiet ones and statements; with `OneMore` and
`PromiseStep` each is a step of `BatchStore` or a stutter: a retry that repeats a
statement changes no count, and a statement never taken before raises it by one.

`SpooledLands` is liveness and stays with TLC. `NothingDropped` and
`CompletionStays` are false.

### Create and the page

`OperatorConsoleProofs` proves for every set of asks, searches, keys and old runs,
every number of requests, runs and poll loops, and every choice of faults:

| Theorem | Property |
|---|---|
| `TypeCorrect` | `TypeOK` |
| `NoSecondRun` | `OneRunPerSearch` |
| `KeyMakesOneRun` | `OneRunPerKey` |
| `SameAnswer` | `AnswersAgree` |
| `FittingAnswer` | `AnswerFits` |
| `WholeResults` | `ResultsComplete` |
| `OnePoll` | `PollsOnce` |
| `SomePoll` | `NeverSilent` |
| `OverIsShownForGood` | `OverStaysShown` |

The only assumption is `ConstantsAssumption`. `ConsoleInv` has two halves.

`CreateInv` says what a request has found out by the time it stands at a point:
one that inserts a search has seen that no run of the past makes it
(`RequestSound`; no run comes to the past, so that stays true), and that no
other inserts the same search meanwhile is the unique index, which the INSERT
itself respects. `KeyOnce` carries `OneRunPerKey`: a key that was
sent once is in one request, and as long as it has no row of its own, the only
run it can have made is that of the request about to record it. `Answerable` says
which runs an answer may name, and every answer ever given stays answerable, so that
two answers to one search or one key name the same run.

`MonitorInv` says that a loop that is not stopped polls the run the component is
about, that what it has read was so, and that it knows of the end of the run when the
component does, so that an older answer never overwrites a newer one.

### Duplicate sellers

`SellerMergeProofs` proves for every set of sellers, links and batches, every
likeness, any number of operators and of batches in flight, and any number of
failures half-way:

| Theorem | Property |
|---|---|
| `TypeCorrect` | `TypeOK` |
| `SeparatePairsUntouched` | `SeparateStaysSeparate` |
| `HiddenSellersHaveReason` | `HiddenForAReason` |

The assumptions are `ConstantsAssumption` and `TablesAssumption` (a batch brings each
link in the database of its table). A link may be of any number of sellers, and
brought by batches without one. Of the inductive invariant,
`MergeInv`:

- `SoundInv`: a commit stays within its statements, and its decision is about its own
  seller; a request of the operator stays within the points of its action. The
  lemmas `StatementsShape` and `DueAt` say where in the sequence of a commit each kind
  of statement may stand: redirect and audits only after the decision.
- `TraceInv`: unless it is contested, what the operator's request has read of its
  decision is still so (`Stands`, with `Alone`), and a commit is past its decision only
  if that is merged (`Decided`). So whatever is audited or redirected in the name
  of a decision belongs to one that was merged or is being merged (`Traced`), although the
  writes themselves ask nothing.
- `HideInv`: every seller with the status `merged` has a decision that is merged, a
  merge at work on it, or a commit that has hidden it and not decided yet, and no
  rollback of that decision is past the point where it makes the seller visible.
  Without that last part the invariant is not inductive: `Decide` of a rollback takes
  the reason away.

`SellerLinkProofs` adds, under the same assumptions, where the links are. What is
excepted is named in the properties: links written in a window (`exposed`), contested
decisions, and links of merges rolled back in the wrong order (`untimely`), of
which the theorems say nothing:

| Theorem | Property |
|---|---|
| `MovedLinksAudited` | `MovesAudited` |
| `RollbacksRestore` | `RollbackRestores` |
| `MergesComplete` | `MergeComplete` |

None of the three is inductive. A link goes from hand to hand: a merge moves what it
finds with its candidate, whoever put it there, and a rollback brings back what its
audit names, wherever that leads. `LinkInv` is added to `MergeInv`:

- `Settled(l, s, gone)`: link `l` may be with seller `s`, because it is at home there,
  was written in a window, has come to it in the wrong order, or some decision other
  than those in `gone` answers for it
  (`Holds`: an open audit, or the commit that has moved the link and audits it in a
  later statement). `LinksSettled` says it of the seller each link is with *and* of every
  candidate a rollback may bring it back to; `RequestSettled` of what a merge has
  listed and a rollback recalled. With these a link can only go where something
  answers for it.
- `MergeKnows`: a merge has listed every link its candidate owns in the tables it has
  read (`Read`), or the link was written in a window, and it audits all it has listed before it
  moves the first. A new link of the candidate cannot slip past: a commit that
  does not know of the merge exposes what it writes.
- `RollbackKnows`, `ClosedSound`: closing the audits of a decision is the one step that takes
  an answer away, so for each of them nothing may rest on it any more (`Freed`):
  the link is no longer with the other seller, nor would another rollback
  bring it there, unless something else answers for that. The links recalled come to
  be freed one after the other, as `Restore` goes through them.
- `MergedAway`: once the merge is past the table of a link (`MovedPast`) or over, the
  link is with the candidate only for a reason that another decision gives (`Returned`).
- `Apart`: two requests that work on a common seller make both decisions contested, so
  a request whose decision is not contested has its two sellers for itself, as far
  as the operator is concerned; of ingestion it has not, and `Writes` says what it may
  do to any of this.

The proofs treat ingestion as one kind of step (`Writes`, one lemma for each part of
the invariant it keeps) and the operator's as another (`Moves`), so that each action
has to show only what it does to its own decision.

### Only model-checked

- `QueuedRunEnds` and `SpooledLands`: liveness.

Every other property of the passing runs is proved; those of the queue that are
false in general, under the conditions named with them. For invocations that
overlap and race a cancel `OneLiveJob` is false (`OperatorQueueCancelRace`), for
invocations that overlap and die `TrackedJobOfStage` is (`OperatorQueueRecovery`), and
for invocations that overlap and poll on either side of a late batch `OneLiveJob` is
(the trace above).

## Not modelled

- Of the queue: jobs that Scrapy Cloud deletes or never ends (the run then keeps
  the unit for ever, by reading), the choice and the number of targets, events
  and counters.
- Of `create`: the validation of its input. `CreateRun` takes a run's end as final,
  which `TerminalStays` shows the queue does not keep when records come late.
- Of ingestion: the branch that answers 409 to a key sent with another payload
  (the client derives the key from the payload), the expiry of keys (they are
  stored with one, and no lookup reads it), damaged spool records and a crawl job
  that dies. Columns are abstracted to who wrote them.
- Of entity resolution: batches of several sellers. The code goes through up to 25 of them
  (`entity-resolution/service.ts:42`, `ingestion/config.ts:49`), one after the other; the
  spiders and the pipelines send batches
  of one seller or none. Of batches without a seller, the rows other than sources (review
  items, crawl runs) are no links. The comparison of strings and the limit of 25 candidates;
  how alike two sellers look is a choice from a set. `recent_diff_metadata` is
  left out of the links: no crawler sends it, and its unique index would need
  columns of its own.
- Of the dashboard: every page but New Crawl. They read and present.
- The spiders, the per-domain cooldowns, the local runner and the D1 transfer, as
  planned above.
- The extractors and the normalisation are text processing without state
  transitions; the startup gates and the authentication are functions of the
  environment and of headers.
