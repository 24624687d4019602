----------------------------- MODULE CrawlUnit -----------------------------
(***************************************************************************)
(* What the operator queue promises, without invocations, snapshots,       *)
(* leases or faults: runs wait for one unit, one of them holds it at a     *)
(* time, none is given it twice, and no stage of a run is ever launched    *)
(* twice.  A launch need not find its run still holding the unit: the      *)
(* request may be on its way while the run is cancelled.                   *)
(***************************************************************************)

CONSTANTS
  Runs,    \* the runs an operator may request
  Stages   \* the stages a run is made of, each an external job

VARIABLES
  phase,    \* phase[r]: what the unit is to run r
  launched  \* the stages that have been launched, with their run

Phases == {"waiting", "holding", "released"}

Init ==
  /\ phase = [r \in Runs |-> "waiting"]
  /\ launched = {}

(* A waiting run is given the unit when it is free.                        *)
Grant(r) ==
  /\ phase[r] = "waiting"
  /\ \A q \in Runs : phase[q] # "holding"
  /\ phase' = [phase EXCEPT ![r] = "holding"]
  /\ UNCHANGED launched

(* A run ends, whether or not it has had the unit.                         *)
Release(r) ==
  /\ phase[r] # "released"
  /\ phase' = [phase EXCEPT ![r] = "released"]
  /\ UNCHANGED launched

(* A stage is launched, of a run that has been given the unit.             *)
Launch(r, s) ==
  /\ phase[r] # "waiting"
  /\ <<r, s>> \notin launched
  /\ launched' = launched \cup {<<r, s>>}
  /\ UNCHANGED phase

Next ==
  \E r \in Runs : \/ Grant(r) \/ Release(r)
                  \/ \E s \in Stages : Launch(r, s)

Spec == Init /\ [][Next]_<<phase, launched>>
=============================================================================
