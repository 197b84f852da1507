---------------------------- MODULE RunLifecycle ----------------------------
(***************************************************************************)
(* What the task-run runtime promises about a run, whatever queue, workers *)
(* and replicas carry it: the life cycle of a run (docs/runtime/           *)
(* runtime-api.md) and the events that report its end.  Module RunRuntime  *)
(* implements it.                                                          *)
(***************************************************************************)
EXTENDS Integers

CONSTANTS Runs, TaskOf

VARIABLES status, events

vars == <<status, events>>

Ended == {"completed", "failed", "cancelled"}
Live == {"queued", "running", "awaiting_approval"}

Init ==
    /\ status = [r \in Runs |-> "none"]
    /\ events = [r \in Runs |-> 0]

Move(r, from, to) ==
    /\ status[r] \in from
    /\ status' = [status EXCEPT ![r] = to]
    /\ UNCHANGED events

(* A run is admitted only while its task has no other live run. *)
Admit(r) ==
    /\ \A o \in Runs : TaskOf[o] = TaskOf[r] => status[o] \notin Live
    /\ \E to \in {"queued", "awaiting_approval"} : Move(r, {"none"}, to)

(* A worker takes the run up. *)
Begin(r) == Move(r, {"queued"}, "running")

(* Recovery hands the run back to the queue. *)
Recover(r) == Move(r, {"running"}, "queued")

(* The executor parks the run; recovery may have requeued it meanwhile. *)
Park(r) == Move(r, {"running", "queued"}, "awaiting_approval")

(* An operator's approval resumes a parked run. *)
Resume(r) == Move(r, {"awaiting_approval"}, "queued")

(* The run ends, once, and exactly one terminal event says so. *)
End(r) ==
    /\ status[r] \in Live
    /\ \E to \in Ended : status' = [status EXCEPT ![r] = to]
    /\ events' = [events EXCEPT ![r] = @ + 1]

Next == \E r \in Runs : Admit(r) \/ Begin(r) \/ Recover(r) \/ Park(r)
                        \/ Resume(r) \/ End(r)

Spec == Init /\ [][Next]_vars

=============================================================================
