--------------------------- MODULE CrawlMonitor ---------------------------
(***************************************************************************)
(* The crawl monitor of the dashboard (components/crawl-run-monitor.tsx):  *)
(* a mounted component polls the detail route of one run until it is over. *)
(*                                                                         *)
(* Every mount, and every refresh by the operator, starts an effect with a *)
(* poll loop of its own, and cleans up the effect before it: that stops    *)
(* its loop, aborts its fetch and clears its timer, but an answer that has *)
(* already come is still handled.  One action is one callback of the       *)
(* browser, or one read of the Worker for the detail route.                *)
(***************************************************************************)
EXTENDS Naturals

CONSTANTS
  Runs,   \* run ids
  NoRun,  \* none of them
  Polls   \* bound on the fetches and timers there are at once

VARIABLES
  monitor,  \* the component
  polls     \* the poll loops of its effects

-----------------------------------------------------------------------------

(* The status of a run as the page knows it.                               *)
Shown == {"none", "open", "over"}

Status(over) == IF over THEN "over" ELSE "open"

(* initial is the run of the create answer, the prop initialRun; detail    *)
(* what is in the state, with whether its sellers were read when the run   *)
(* was over.                                                               *)
Monitor == [run : Runs \cup {NoRun}, initial : Shown, detail : Shown, final : BOOLEAN,
            hasFetched : BOOLEAN, error : BOOLEAN, loading : BOOLEAN]

Unmounted == [run |-> NoRun, initial |-> "none", detail |-> "none", final |-> FALSE,
              hasFetched |-> FALSE, error |-> FALSE, loading |-> FALSE]

(* A loop has sent its fetch, the Worker has read the row of the run, then *)
(* the sellers; or it waits for its timer.                                 *)
Poll == [state : {"idle", "sent", "row", "read", "timer"}, run : Runs \cup {NoRun},
         over : BOOLEAN, final : BOOLEAN, stopped : BOOLEAN]

NoLoop == [state |-> "idle", run |-> NoRun, over |-> FALSE, final |-> FALSE, stopped |-> FALSE]

MonitorTypeOK ==
  /\ monitor \in Monitor
  /\ polls \in [Polls -> Poll]

MonitorInit ==
  /\ monitor = Unmounted
  /\ polls = [p \in Polls |-> NoLoop]

-----------------------------------------------------------------------------

In(p, state) == polls[p].state = state

(* A loop that has not been stopped is fetching or waiting.                *)
Live(p) == ~In(p, "idle") /\ ~polls[p].stopped

(* Loops are all alike: the next one takes this place.                     *)
NextLoop(p) ==
  /\ In(p, "idle")
  /\ p = CHOOSE q \in Polls : In(q, "idle")

CleanedUpRunning(q) == polls[q]

(* The cleanup of an effect: its timer is cleared or its fetch aborted,    *)
(* unless the fetch has just brought its answer.                           *)
CleanedUp(q) ==
  IF In(q, "read") THEN [polls[q] EXCEPT !.stopped = TRUE] ELSE NoLoop

(* The effect runs: the one before is cleaned up, and its first poll sent. *)
Effect(p, r) ==
  /\ NextLoop(p)
  /\ polls' = [q \in Polls |->
       IF q = p THEN [NoLoop EXCEPT !.state = "sent", !.run = r] ELSE CleanedUp(q)]

(* The component is mounted for a run, with what the page knows of it.     *)
Mount(p, r, initial) ==
  /\ Effect(p, r)
  /\ monitor' = [run |-> r, initial |-> initial, detail |-> initial, final |-> FALSE,
                 hasFetched |-> FALSE, error |-> FALSE, loading |-> TRUE]

(* REFRESH NOW, which is disabled while loading, or RETRY STATUS.          *)
Refresh(p) ==
  /\ monitor.run # NoRun
  /\ ~monitor.loading
  /\ Effect(p, monitor.run)
  /\ monitor' = [monitor EXCEPT !.loading = TRUE, !.error = FALSE]

(* detail: the row of the run is read, perhaps when it is over.            *)
ReadRow(p, over) ==
  /\ In(p, "sent")
  /\ polls' = [polls EXCEPT ![p] = [@ EXCEPT !.state = "row", !.over = over]]
  /\ UNCHANGED monitor

(* detail: then the sellers of the run are read.                           *)
ReadSellers(p, over) ==
  /\ In(p, "row")
  /\ polls' = [polls EXCEPT ![p] = [@ EXCEPT !.state = "read", !.final = over]]
  /\ UNCHANGED monitor

AfterwardsNever(p) == NoLoop

(* The next poll is in five seconds, unless the run is over.               *)
Afterwards(p) ==
  IF polls[p].over THEN NoLoop ELSE [NoLoop EXCEPT !.state = "timer", !.run = polls[p].run]

DeliverUnstopped(p) ==
  /\ In(p, "read")
  /\ monitor' = IF polls[p].run # monitor.run THEN monitor
                ELSE [monitor EXCEPT !.detail = Status(polls[p].over),
                                     !.final = polls[p].final, !.hasFetched = TRUE,
                                     !.error = FALSE, !.loading = FALSE]
  /\ polls' = [polls EXCEPT ![p] = IF @.stopped THEN NoLoop ELSE Afterwards(p)]

(* The fetch has brought the detail; a loop that is stopped drops it.      *)
Deliver(p) ==
  /\ In(p, "read")
  /\ IF polls[p].stopped
     THEN /\ polls' = [polls EXCEPT ![p] = NoLoop]
          /\ UNCHANGED monitor
     ELSE /\ monitor' = [monitor EXCEPT !.detail = Status(polls[p].over),
                                        !.final = polls[p].final, !.hasFetched = TRUE,
                                        !.error = FALSE, !.loading = FALSE]
          /\ polls' = [polls EXCEPT ![p] = Afterwards(p)]

(* The fetch fails: the error is shown, and the loop does not go on.       *)
FetchFails(p) ==
  /\ polls[p].state \in {"sent", "row"}
  /\ polls' = [polls EXCEPT ![p] = NoLoop]
  /\ monitor' = [monitor EXCEPT !.error = TRUE, !.loading = FALSE]

TimerFires(p) ==
  /\ In(p, "timer")
  /\ polls' = [polls EXCEPT ![p].state = "sent"]
  /\ UNCHANGED monitor

(* What the browser does by itself.                                        *)
Browser(p) == Deliver(p) \/ TimerFires(p)

-----------------------------------------------------------------------------
(* Properties.                                                             *)

(* detail?.run ?? initialRun                                               *)
Displayed == IF monitor.detail # "none" THEN monitor.detail ELSE monitor.initial

ShowsResultsUnfetched == Displayed = "over" /\ ~monitor.error

(* The results are shown: terminal && hasFetched && !error.                *)
ShowsResults == Displayed = "over" /\ monitor.hasFetched /\ ~monitor.error

(***************************************************************************)
(* The results that are shown are complete: their sellers were read when   *)
(* the run was over, whichever of the create answer, an old fetch and a    *)
(* refresh came last.                                                      *)
(***************************************************************************)
ResultsComplete == ShowsResults => monitor.final

(***************************************************************************)
(* docs/operations.md: the monitor refreshes at most once every five       *)
(* seconds and stops when the run is over.  There is never more than one   *)
(* loop that is not stopped, and none when a fetch has shown the run over  *)
(* and nothing is loading.                                                 *)
(***************************************************************************)
PollsOnce ==
  /\ \A p, q \in Polls : Live(p) /\ Live(q) => p = q
  /\ monitor.hasFetched /\ monitor.detail = "over" /\ ~monitor.loading =>
       \A p \in Polls : ~Live(p)

(***************************************************************************)
(* The monitor never falls silent: until it has fetched that its run is    *)
(* over, or shows an error with a button to go on, a fetch or a timer is   *)
(* under way, so that a run that ends is shown to have ended.              *)
(***************************************************************************)
NeverSilent ==
  \/ monitor.run = NoRun
  \/ monitor.hasFetched /\ monitor.detail = "over"
  \/ monitor.error
  \/ \E p \in Polls : Live(p) /\ polls[p].run = monitor.run
=============================================================================
