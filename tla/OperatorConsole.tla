-------------------------- MODULE OperatorConsole --------------------------
(***************************************************************************)
(* The page New Crawl of the dashboard (app/crawls/new/page.tsx): a form   *)
(* that posts to create, module CreateRun, and a monitor of the run it is  *)
(* answered with, module CrawlMonitor.  Every submit has a key of its own, *)
(* so what keeps a second submit from making a second run is the search,   *)
(* not the key.                                                            *)
(***************************************************************************)
EXTENDS CreateRun

CONSTANTS
  Polls  \* bound on the fetches and timers of the page

VARIABLES
  monitor,  \* the monitor of the page
  polls     \* its poll loops

INSTANCE CrawlMonitor

pageVars == <<monitor, polls>>
vars     == <<createVars, pageVars>>

TypeOK ==
  /\ CreateTypeOK
  /\ MonitorTypeOK

Init ==
  /\ CreateInit
  /\ MonitorInit

-----------------------------------------------------------------------------

(* The form waits for an answer.                                           *)
Submitting == \E w \in Requests : requests[w].heard

Fresh == {k \in Keys : sent[k] = NoAsk}

(* START CRAWL, which is disabled while submitting: a random key for each  *)
(* submit; the earlier result, and with it initialRun, is cleared.         *)
Submit(w, a) ==
  /\ ~Submitting
  /\ Fresh # {}
  /\ Arrive(w, CHOOSE k \in Fresh : TRUE, a, TRUE)
  /\ monitor' = [monitor EXCEPT !.initial = "none"]
  /\ UNCHANGED <<faults, polls>>

(* The answer reaches the form: its run is monitored, with a new monitor   *)
(* when it is another run than before.                                     *)
Hear(w) ==
  LET run == requests[w].run
      known == Status(requests[w].over)
  IN
  /\ At(w, "answer")
  /\ requests' = [requests EXCEPT ![w] = Idle]
  /\ \/ requests[w].code # "accepted" /\ UNCHANGED pageVars
     \/ /\ requests[w].code = "accepted" /\ run = monitor.run
        /\ monitor' = [monitor EXCEPT !.initial = known]
        /\ UNCHANGED polls
     \/ /\ requests[w].code = "accepted" /\ run # monitor.run
        /\ \E p \in Polls : Mount(p, run, known)
  /\ UNCHANGED <<tables, sent, answers, excused, counts>>

Abandoned == [w \in Requests |-> Forgotten(requests[w])]

(* The form is told that the Worker cannot be reached; the Worker goes on. *)
Unreachable ==
  /\ Submitting
  /\ Fault("cut")
  /\ requests' = Abandoned
  /\ UNCHANGED <<tables, sent, answers, excused, arrived, pageVars>>

(* The page is loaded again, and finds the monitored run in its URL.       *)
Reload ==
  LET first == CHOOSE p \in Polls : TRUE
      loop  == [NoLoop EXCEPT !.state = "sent", !.run = monitor.run]
  IN
  /\ monitor.run # NoRun
  /\ Fault("cut")
  /\ requests' = Abandoned
  /\ monitor' = [Unmounted EXCEPT !.run = monitor.run, !.loading = TRUE]
  /\ polls' = [p \in Polls |-> IF p = first THEN loop ELSE NoLoop]
  /\ UNCHANGED <<tables, sent, answers, excused, arrived>>

-----------------------------------------------------------------------------

Worker ==
  \/ \E w \in Requests : Handle(w) \/ InsertLost(w) \/ Fail(w)
  \/ \E w \in Requests, k \in Keys, a \in Asks : Repeat(w, k, a)
  \/ \E k \in Keys : Expire(k)
  \/ \E r \in Runs : Retry(r) \/ Finish(r)

(* The two reads of the detail route.                                      *)
Detail(p) ==
  /\ polls[p].run # NoRun
  /\ \/ ReadRow(p, runs[polls[p].run].over)
     \/ ReadSellers(p, runs[polls[p].run].over)

FetchLost(p) ==
  /\ FetchFails(p)
  /\ Fault("cut")
  /\ UNCHANGED <<tables, requests, sent, answers, excused, arrived>>

Next ==
  \/ Worker /\ UNCHANGED pageVars
  \/ \E p \in Polls : (Refresh(p) \/ Detail(p) \/ Browser(p)) /\ UNCHANGED createVars
  \/ \E p \in Polls : FetchLost(p)
  \/ \E w \in Requests : Hear(w) \/ \E a \in Asks : Submit(w, a)
  \/ Unreachable
  \/ Reload

Spec == Init /\ [][Next]_vars

-----------------------------------------------------------------------------
(* A property of the page; those of its parts are in their modules.        *)

(***************************************************************************)
(* Once a fetch has shown the run to be over, no older fetch that was      *)
(* still on its way when the operator refreshed shows it open again.       *)
(***************************************************************************)
OverStaysShown ==
  [][monitor.hasFetched /\ monitor.detail = "over"
       /\ monitor'.run = monitor.run /\ monitor'.hasFetched
     => monitor'.detail = "over"]_monitor
=============================================================================
