----------------------------- MODULE RunRuntime -----------------------------
(***************************************************************************)
(* The task-run runtime: the durable run store (internal/taskstate), the   *)
(* leased SQL run queue (internal/orchestrator/queue_sqlite.go), the queue *)
(* workers, boot and periodic reconciliation, approvals and cancellation   *)
(* (internal/orchestrator/runner*.go), for any number of replicas that     *)
(* share one store and one queue.                                          *)
(*                                                                         *)
(* A step is what one goroutine does between two points at which another   *)
(* goroutine, replica or crash can intervene: one store transaction, one   *)
(* queue statement, or one critical section of the coordinator.            *)
(*                                                                         *)
(* The origin gate answers an admission with one of Verdicts, or refuses   *)
(* it while the origin is closing, which is counted as a fault; module     *)
(* OriginGate models the gate itself.  Payloads, events other than         *)
(* terminal ones, and the accounting metadata of a run are left out.       *)
(*                                                                         *)
(* An operator directly above the definition it varies, with the same      *)
(* parameters and a name that says what is wrong with it, is that          *)
(* definition with a plausible defect; PROJECT.json pairs it with the      *)
(* property that detects it.  The specification never uses it.             *)
(***************************************************************************)
EXTENDS Integers, FiniteSets

CONSTANTS
    Tasks, Runs, NoRun,
    TaskOf,      \* the task each run belongs to
    Procs,       \* gateway processes (replicas)
    Workers,     \* queue workers (processQueue goroutines)
    Home,        \* the process of each worker
    Approvals,
    StartModes,  \* kinds of run start: "ungated", "gated", "scheduledGated"
    Outcomes,    \* what an executor may return: see Execute
    Verdicts,    \* answers of the origin gate: "admitted", "unavailable"
    MaxStops,    \* bound on crashes and shutdowns of processes
    MaxFaults,   \* bound on failed or refused store, queue and gate calls
    MaxFailures, \* bound on both together
    LapseLive    \* TRUE: a lease may lapse while its holder is alive

ASSUME RunsAssumption == NoRun \notin Runs /\ TaskOf \in [Runs -> Tasks]
ASSUME WorkersAssumption == Home \in [Workers -> Procs]
ASSUME StartModesAssumption ==
    StartModes \subseteq {"ungated", "gated", "scheduledGated"}
ASSUME OutcomesAssumption ==
    Outcomes \subseteq {"completed", "failed", "awaiting_approval", "error"}
ASSUME VerdictsAssumption ==
    Verdicts \subseteq {"admitted", "unavailable"}
ASSUME BoundsAssumption ==
    /\ MaxStops \in Nat /\ MaxFaults \in Nat /\ MaxFailures \in Nat
    /\ LapseLive \in BOOLEAN

Terminal == {"completed", "failed", "cancelled"}
Active == {"queued", "running", "awaiting_approval"}
Status == {"none"} \cup Active \cup Terminal

VARIABLES
    \* The task store.
    run,             \* status of each run row, "none" before it is inserted
    taskRun,         \* Task.LatestRunID
    taskStatus,      \* Task.Status
    terminalEvents,  \* run.finished, run.failed and run.cancelled rows of a run
    apprRun,         \* the run of an approval row
    apprStatus,      \* its status, "unused" before it is inserted
    \* The run queue: at most one row per run (UNIQUE run_id).
    row,             \* "none", "pending", "leased", or "lapsed" (lease_until past)
    \* Queue workers.
    pc, job,         \* control state and claimed run of a worker
    holders,         \* workers whose ClaimID is the id of their run's row
    result,          \* ExecutionResult.Status a worker is about to persist
    cancelled,       \* workers whose jobCtx is cancelled
    \* Processes.
    proc,            \* "down", "booting", "up" or "stopping"
    phase,           \* the reconciler's scan: "idle", "boot", "full", "retry", "stale"
    todo,            \* per run, what the scan read and has not handled yet
    step, cur,       \* "next", or the reconciler's call in progress on run cur
    fullRetry,       \* retryFullReconcile
    pend,            \* pendingReconciles
    apiOwes,         \* runs an API call has queued and not enqueued yet
    approving,       \* gated starts before CreateApproval
    updating,        \* gated starts before UpdateRun
    drain, waits,    \* a cancellation in progress, and the jobs it waits for
    stops, faults

taskVars == <<taskRun, taskStatus>>
apprVars == <<apprRun, apprStatus>>
store == <<run, taskVars, terminalEvents, apprVars>>
workerVars == <<pc, job, holders, result, cancelled>>
scanVars == <<phase, todo, step, cur, fullRetry>>
startVars == <<apiOwes, approving, updating>>
drainVars == <<drain, waits>>
bounds == <<stops, faults>>
vars == <<store, row, workerVars, proc, scanVars, pend, startVars, drainVars,
          bounds>>

-----------------------------------------------------------------------------
(* Task store. *)

ActiveRuns(t) == {r \in Runs : TaskOf[r] = t /\ run[r] \in Active}
PendingOf(r) == {a \in Approvals : apprRun[a] = r /\ apprStatus[a] = "pending"}

(* The run and its task's projection, written together. *)
SetRun(r, status) ==
    /\ run' = [run EXCEPT ![r] = status]
    /\ taskRun' = [taskRun EXCEPT ![TaskOf[r]] = r]
    /\ taskStatus' = [taskStatus EXCEPT ![TaskOf[r]] = status]

(* ApplyRunStateTransition: compare-and-swap on the status. *)
ApplyRunStateTransition(r, expected, status) ==
    /\ run[r] \in expected
    /\ SetRun(r, status)
    /\ UNCHANGED terminalEvents

(* A store that lets the last terminal status win. *)
ApplyRunTerminalTransitionLastWins(r, status) ==
    /\ IF run[r] \in Terminal /\ status \notin Terminal
       THEN UNCHANGED <<run, taskVars>> ELSE SetRun(r, status)
    /\ terminalEvents' =
         IF run[r] \notin Terminal /\ status \in Terminal
         THEN [terminalEvents EXCEPT ![r] = @ + 1] ELSE terminalEvents

(* A store that takes over the run of the losing call's task snapshot. *)
ApplyRunTerminalTransitionProjectsLoser(r, status) ==
    IF run[r] \in Terminal
    THEN /\ UNCHANGED <<run, terminalEvents>>
         /\ taskRun' = [taskRun EXCEPT ![TaskOf[r]] = r]
         /\ taskStatus' = [taskStatus EXCEPT ![TaskOf[r]] = status]
    ELSE /\ SetRun(r, status)
         /\ terminalEvents' =
              IF status \in Terminal
              THEN [terminalEvents EXCEPT ![r] = @ + 1] ELSE terminalEvents

(* ApplyRunTerminalTransition, the run, task and event writes: the first   *)
(* terminal status is kept and a replay appends no event.                  *)
ApplyRunTerminalTransition(r, status) ==
    IF run[r] \in Terminal
    THEN UNCHANGED <<run, taskVars, terminalEvents>>
    ELSE /\ SetRun(r, status)
         /\ terminalEvents' =
              IF status \in Terminal
              THEN [terminalEvents EXCEPT ![r] = @ + 1] ELSE terminalEvents

(* Its CancelPendingApprovals part, skipped for a losing status. *)
CancelPendingApprovals(r, status) ==
    apprStatus' =
      IF run[r] \in Terminal \ {status} THEN apprStatus
      ELSE [a \in Approvals |->
              IF a \in PendingOf(r) THEN "cancelled" ELSE apprStatus[a]]

(* cancelRunTerminalTransition applied. *)
CancelInStore(r) ==
    /\ ApplyRunTerminalTransition(r, "cancelled")
    /\ CancelPendingApprovals(r, "cancelled")
    /\ UNCHANGED apprRun

CreateApproval(a, r) ==
    /\ apprStatus[a] = "unused"
    /\ apprRun' = [apprRun EXCEPT ![a] = r]
    /\ apprStatus' = [apprStatus EXCEPT ![a] = "pending"]

(* Bound: an approval is asked for only while an unused one is left for    *)
(* it, those that others are about to create set aside.                    *)
ApprovalLeft ==
    Cardinality({a \in Approvals : apprStatus[a] = "unused"})
      > Cardinality({w \in Workers : pc[w] = "pausing"})
          + Cardinality(UNION {approving[p] : p \in Procs})

-----------------------------------------------------------------------------
(* Run queue. *)

(* Enqueue: INSERT ... ON CONFLICT(run_id) DO NOTHING. *)
Enqueue(r) == row' = [row EXCEPT ![r] = IF @ = "none" THEN "pending" ELSE @]

(* A failed Enqueue is ambiguous: the row may have been inserted. *)
EnqueueAmbiguous(r) == Enqueue(r) \/ UNCHANGED row

(* Ack deletes the row the claim id names.  Every claim of that row then   *)
(* names no row, whatever is enqueued later.                               *)
AckRow(w) ==
    IF w \in holders
    THEN /\ row' = [row EXCEPT ![job[w]] = "none"]
         /\ holders' = {v \in holders : job[v] # job[w]}
    ELSE UNCHANGED <<row, holders>>

FailureLeft == stops + faults < MaxFailures

Fault == faults < MaxFaults /\ FailureLeft /\ faults' = faults + 1

-----------------------------------------------------------------------------
(* Jobs of the coordinator. *)

(* A worker is in coordinator.jobs from registerJob until unregisterJob. *)
Registered(w) == pc[w] \in {"registered", "executing", "pausing", "settling",
                            "failing", "acking", "leaving"}
JobsOf(p, r) == {w \in Workers : Home[w] = p /\ Registered(w) /\ job[w] = r}

(* executeRun is under way: the executor may act for the run. *)
Executing(w) == pc[w] \in {"executing", "pausing", "settling", "failing"}

Init ==
    /\ run = [r \in Runs |-> "none"]
    /\ taskRun = [t \in Tasks |-> NoRun]
    /\ taskStatus = [t \in Tasks |-> "none"]
    /\ terminalEvents = [r \in Runs |-> 0]
    /\ apprRun = [a \in Approvals |-> NoRun]
    /\ apprStatus = [a \in Approvals |-> "unused"]
    /\ row = [r \in Runs |-> "none"]
    /\ pc = [w \in Workers |-> "off"]
    /\ job = [w \in Workers |-> NoRun]
    /\ holders = {}
    /\ result = [w \in Workers |-> "none"]
    /\ cancelled = {}
    /\ proc = [p \in Procs |-> "down"]
    /\ phase = [p \in Procs |-> "idle"]
    /\ todo = [p \in Procs |-> [r \in Runs |-> "none"]]
    /\ step = [p \in Procs |-> "next"]
    /\ cur = [p \in Procs |-> NoRun]
    /\ fullRetry = [p \in Procs |-> FALSE]
    /\ pend = [p \in Procs |-> [r \in Runs |-> "none"]]
    /\ apiOwes = [p \in Procs |-> {}]
    /\ approving = [p \in Procs |-> {}]
    /\ updating = [p \in Procs |-> {}]
    /\ drain = [p \in Procs |-> [r \in Runs |-> "none"]]
    /\ waits = [p \in Procs |-> [r \in Runs |-> {}]]
    /\ stops = 0
    /\ faults = 0

-----------------------------------------------------------------------------
(* API: starting a run, resolving an approval, cancelling a run. *)

(* ApplyRunStartTransition: at most one active run per task. *)
Admissible(p, r) ==
    /\ proc[p] = "up"
    /\ run[r] = "none"
    /\ ActiveRuns(TaskOf[r]) = {}

(* startTask without an approval gate, manual or scheduled: the run is     *)
(* committed as queued, and enqueued by a later call.                      *)
StartUngated(p, r) ==
    /\ "ungated" \in StartModes
    /\ Admissible(p, r)
    /\ SetRun(r, "queued")
    /\ apiOwes' = [apiOwes EXCEPT ![p] = @ \cup {r}]
    /\ UNCHANGED <<terminalEvents, apprVars, row, workerVars, proc, scanVars,
                   pend, approving, updating, drainVars, bounds>>

(* ApplyTaskScheduleRunAdmission with an approval: one transaction. *)
StartScheduledGated(p, r, a) ==
    /\ "scheduledGated" \in StartModes
    /\ ApprovalLeft
    /\ Admissible(p, r)
    /\ SetRun(r, "awaiting_approval")
    /\ CreateApproval(a, r)
    /\ UNCHANGED <<terminalEvents, row, workerVars, proc, scanVars, pend,
                   startVars, drainVars, bounds>>

(* A gated start that commits and enqueues the run as an ungated one. *)
StartGatedQueues(p, r) ==
    /\ "gated" \in StartModes
    /\ ApprovalLeft
    /\ Admissible(p, r)
    /\ SetRun(r, "queued")
    /\ approving' = [approving EXCEPT ![p] = @ \cup {r}]
    /\ apiOwes' = [apiOwes EXCEPT ![p] = @ \cup {r}]
    /\ UNCHANGED <<terminalEvents, apprVars, row, workerVars, proc, scanVars,
                   pend, updating, drainVars, bounds>>

(* startTask with an approval gate, first of three store writes. *)
StartGated(p, r) ==
    /\ "gated" \in StartModes
    /\ ApprovalLeft
    /\ Admissible(p, r)
    /\ SetRun(r, "awaiting_approval")
    /\ approving' = [approving EXCEPT ![p] = @ \cup {r}]
    /\ UNCHANGED <<terminalEvents, apprVars, row, workerVars, proc, scanVars,
                   pend, apiOwes, updating, drainVars, bounds>>

(* createApprovalForTask; when it fails the start returns the error. *)
CreateStartApproval(p, r) ==
    /\ r \in approving[p]
    /\ approving' = [approving EXCEPT ![p] = @ \ {r}]
    /\ \/ /\ \E a \in Approvals : CreateApproval(a, r)
          /\ updating' = [updating EXCEPT ![p] = @ \cup {r}]
          /\ UNCHANGED faults
       \/ Fault /\ UNCHANGED <<apprVars, updating>>
    /\ UNCHANGED <<run, taskVars, terminalEvents, row, workerVars, proc,
                   scanVars, pend, apiOwes, drainVars, stops>>

(* UpdateRun with the snapshot the start took: no check of the status. *)
UpdateStartedRun(p, r) ==
    /\ r \in updating[p]
    /\ updating' = [updating EXCEPT ![p] = @ \ {r}]
    /\ \/ run' = [run EXCEPT ![r] = "awaiting_approval"] /\ UNCHANGED faults
       \/ Fault /\ UNCHANGED run
    /\ UNCHANGED <<taskVars, terminalEvents, apprVars, row, workerVars, proc,
                   scanVars, pend, apiOwes, approving, drainVars, stops>>

(* An enqueue after a start that does not remember its failure. *)
EnqueueOwedForgets(p, r) ==
    /\ r \in apiOwes[p]
    /\ apiOwes' = [apiOwes EXCEPT ![p] = @ \ {r}]
    /\ \/ Enqueue(r) /\ UNCHANGED faults
       \/ Fault /\ EnqueueAmbiguous(r)
    /\ pend' = [pend EXCEPT ![p][r] = "none"]
    /\ UNCHANGED <<store, workerVars, proc, scanVars, approving, updating,
                   drainVars, stops>>

(* enqueueRunWithReconcile after a start or an approval. *)
EnqueueOwed(p, r) ==
    /\ r \in apiOwes[p]
    /\ apiOwes' = [apiOwes EXCEPT ![p] = @ \ {r}]
    /\ \/ /\ Enqueue(r)
          /\ pend' = [pend EXCEPT ![p][r] = "none"]
          /\ UNCHANGED faults
       \/ /\ Fault
          /\ EnqueueAmbiguous(r)
          /\ pend' = [pend EXCEPT ![p][r] = IF @ = "none" THEN "enqueue" ELSE @]
    /\ UNCHANGED <<store, workerVars, proc, scanVars, approving, updating,
                   drainVars, stops>>

(* resumeTaskAfterApproval: approval and run change in one transaction. *)
Approve(p, a) ==
    LET r == apprRun[a] IN
    /\ proc[p] = "up"
    /\ apprStatus[a] = "pending"
    /\ ApplyRunStateTransition(r, {"awaiting_approval"}, "queued")
    /\ apprStatus' = [apprStatus EXCEPT ![a] = "approved"]
    /\ apiOwes' = [apiOwes EXCEPT ![p] = @ \cup {r}]
    /\ UNCHANGED <<apprRun, row, workerVars, proc, scanVars, pend, approving,
                   updating, drainVars, bounds>>

(* rejectTaskAfterApproval: resolve, cancel the run and its other pending  *)
(* approvals in one transaction, then drain as a cancellation does.        *)
Reject(p, a) ==
    LET r == apprRun[a] IN
    /\ proc[p] = "up"
    /\ apprStatus[a] = "pending"
    /\ run[r] = "awaiting_approval"
    /\ drain[p][r] = "none"
    /\ ApplyRunTerminalTransition(r, "cancelled")
    /\ apprStatus' = [b \in Approvals |->
                        IF b = a THEN "rejected"
                        ELSE IF b \in PendingOf(r) THEN "cancelled"
                        ELSE apprStatus[b]]
    /\ drain' = [drain EXCEPT ![p][r] = "signal"]
    /\ UNCHANGED <<apprRun, row, workerVars, proc, scanVars, pend, startVars,
                   waits, bounds>>

(* CancelRun up to its store write; a terminal run is only drained.        *)
(* Bound: one cancellation at a time per process and run.                  *)
CancelRun(p, r) ==
    /\ proc[p] = "up"
    /\ run[r] # "none"
    /\ drain[p][r] = "none"
    /\ IF run[r] \in Terminal THEN UNCHANGED store ELSE CancelInStore(r)
    /\ drain' = [drain EXCEPT ![p][r] = "signal"]
    /\ UNCHANGED <<row, workerVars, proc, scanVars, pend, startVars, waits,
                   bounds>>

(* A drain that waits for the jobs without cancelling them. *)
SignalJobsNoCancel(p, r) ==
    /\ drain[p][r] = "signal"
    /\ drain' = [drain EXCEPT ![p][r] = "wait"]
    /\ waits' = [waits EXCEPT ![p][r] = JobsOf(p, r)]
    /\ UNCHANGED <<store, row, workerVars, proc, scanVars, pend, startVars,
                   bounds>>

(* cancelAndWaitForJob: cancel the jobs of this process and wait for them. *)
SignalJobs(p, r) ==
    /\ drain[p][r] = "signal"
    /\ cancelled' = cancelled \cup JobsOf(p, r)
    /\ drain' = [drain EXCEPT ![p][r] = "wait"]
    /\ waits' = [waits EXCEPT ![p][r] = JobsOf(p, r)]
    /\ UNCHANGED <<store, row, pc, job, holders, result, proc, scanVars, pend,
                   startVars, bounds>>

(* The reconciler's own cancellation (origin unavailable) returns to it;   *)
(* `failed` tells whether with an error.                                   *)
ReturnToScan(p, r, failed) ==
    IF step[p] = "drain" /\ cur[p] = r
    THEN /\ step' = [step EXCEPT ![p] = "next"]
         /\ cur' = [cur EXCEPT ![p] = NoRun]
         /\ pend' = [pend EXCEPT ![p][r] =
                       IF failed /\ phase[p] \in {"boot", "full"} THEN "disconnected"
                       ELSE IF ~failed /\ phase[p] # "stale" THEN "none" ELSE @]
    ELSE UNCHANGED <<step, cur, pend>>

(* A cancellation that ends without its cleanup pass. *)
FinishCancelNoCleanup(p, r) ==
    /\ drain[p][r] = "wait"
    /\ waits[p][r] = {}
    /\ ReturnToScan(p, r, FALSE)
    /\ drain' = [drain EXCEPT ![p][r] = "none"]
    /\ UNCHANGED <<store, row, workerVars, proc, phase, todo, fullRetry,
                   startVars, waits, bounds>>

(* cleanupCancelledRunAfterDrain, once every awaited job has exited. *)
FinishCancel(p, r) ==
    /\ drain[p][r] = "wait"
    /\ waits[p][r] = {}
    /\ IF run[r] = "cancelled" THEN CancelInStore(r) ELSE UNCHANGED store
    /\ ReturnToScan(p, r, FALSE)
    /\ drain' = [drain EXCEPT ![p][r] = "none"]
    /\ UNCHANGED <<row, workerVars, proc, phase, todo, fullRetry, startVars,
                   waits, bounds>>

(* The caller's context expires during the drain, or the cleanup fails. *)
AbandonCancel(p, r) ==
    /\ drain[p][r] = "wait"
    /\ Fault
    /\ ReturnToScan(p, r, TRUE)
    /\ drain' = [drain EXCEPT ![p][r] = "none"]
    /\ waits' = [waits EXCEPT ![p][r] = {}]
    /\ UNCHANGED <<store, row, workerVars, proc, phase, todo, fullRetry,
                   startVars, stops>>

-----------------------------------------------------------------------------
(* Workers. *)

GoTo(w, next) == pc' = [pc EXCEPT ![w] = next]

(* The worker loop after a claim is over: it stops when workerCtx is done. *)
NextClaim(w) == IF proc[Home[w]] = "stopping" THEN "off" ELSE "idle"

(* A Claim that also takes rows whose lease is still running. *)
ClaimIgnoresLease(w, r) ==
    /\ proc[Home[w]] = "up"
    /\ pc[w] = "idle"
    /\ row[r] # "none"
    /\ row' = [row EXCEPT ![r] = "leased"]
    /\ GoTo(w, "claimed")
    /\ job' = [job EXCEPT ![w] = r]
    /\ holders' = holders \cup {w}
    /\ UNCHANGED <<store, result, cancelled, proc, scanVars, pend, startVars,
                   drainVars, bounds>>

(* claimOnce: a pending row, or one whose lease has lapsed.  Which of the  *)
(* claimable rows has the least id is left open.                           *)
Claim(w, r) ==
    /\ proc[Home[w]] = "up"
    /\ pc[w] = "idle"
    /\ row[r] \in {"pending", "lapsed"}
    /\ row' = [row EXCEPT ![r] = "leased"]
    /\ GoTo(w, "claimed")
    /\ job' = [job EXCEPT ![w] = r]
    /\ holders' = holders \cup {w}
    /\ UNCHANGED <<store, result, cancelled, proc, scanVars, pend, startVars,
                   drainVars, bounds>>

(* The claim commits and its caller gets an error: nobody holds the lease. *)
ClaimLost(w, r) ==
    /\ proc[Home[w]] = "up"
    /\ pc[w] = "idle"
    /\ row[r] \in {"pending", "lapsed"}
    /\ Fault
    /\ row' = [row EXCEPT ![r] = "leased"]
    /\ UNCHANGED <<store, workerVars, proc, scanVars, pend, startVars,
                   drainVars, stops>>

(* The worker drops its claim: it will not use the claim id again. *)
Abandon(w) ==
    /\ GoTo(w, NextClaim(w))
    /\ job' = [job EXCEPT ![w] = NoRun]
    /\ holders' = holders \ {w}

(* loadClaimedRun: an obsolete claim is acknowledged, a store error leaves *)
(* the claim to lapse.                                                     *)
LoadClaimedRun(w) ==
    /\ pc[w] = "claimed"
    /\ \/ /\ GoTo(w, IF run[job[w]] = "queued" THEN "loaded" ELSE "dropping")
          /\ UNCHANGED <<job, holders, faults>>
       \/ Fault /\ Abandon(w)
    /\ UNCHANGED <<store, row, result, cancelled, proc, scanVars, pend,
                   startVars, drainVars, stops>>

(* ackClaim of an obsolete claim; an error of Ack is ignored. *)
DropClaim(w) ==
    /\ pc[w] = "dropping"
    /\ \/ AckRow(w) /\ UNCHANGED faults
       \/ Fault /\ UNCHANGED row /\ holders' = holders \ {w}
    /\ GoTo(w, NextClaim(w))
    /\ job' = [job EXCEPT ![w] = NoRun]
    /\ UNCHANGED <<store, result, cancelled, proc, scanVars, pend, startVars,
                   drainVars, stops>>

(* beginJob: register, under a workerCtx that shutdown may have cancelled. *)
BeginJob(w) ==
    /\ pc[w] = "loaded"
    /\ GoTo(w, "registered")
    /\ cancelled' = IF proc[Home[w]] = "stopping" THEN cancelled \cup {w}
                                                  ELSE cancelled
    /\ UNCHANGED <<store, row, job, holders, result, proc, scanVars, pend,
                   startVars, drainVars, bounds>>

(* startClaimedRun, admitted by the origin gate: compare-and-swap queued   *)
(* -> running; a lost swap makes the claim obsolete.                       *)
StartClaimedRun(w) ==
    /\ pc[w] = "registered"
    /\ "admitted" \in Verdicts
    /\ \/ /\ ApplyRunStateTransition(job[w], {"queued"}, "running")
          /\ GoTo(w, "executing")
       \/ /\ run[job[w]] # "queued"
          /\ UNCHANGED <<run, taskVars, terminalEvents>>
          /\ GoTo(w, "acking")
    /\ UNCHANGED <<apprVars, row, job, holders, result, cancelled, proc,
                   scanVars, pend, startVars, drainVars, bounds>>

(* settleUnavailableOriginClaim: a missing owner cancels the run.  Another *)
(* terminal status also acknowledges the claim.                            *)
SettleUnavailableOrigin(w) ==
    /\ pc[w] = "registered"
    /\ "unavailable" \in Verdicts
    /\ CancelInStore(job[w])
    /\ GoTo(w, "acking")
    /\ UNCHANGED <<row, job, holders, result, cancelled, proc, scanVars, pend,
                   startVars, drainVars, bounds>>

(* Origin closing, a store error or a cancelled jobCtx: the claim is left  *)
(* unacknowledged, for its lease to lapse.                                 *)
FailClaimedStart(w) ==
    /\ pc[w] = "registered"
    /\ \/ w \in cancelled /\ UNCHANGED faults
       \/ Fault
    /\ GoTo(w, "leaving")
    /\ UNCHANGED <<store, row, job, holders, result, cancelled, proc, scanVars,
                   pend, startVars, drainVars, stops>>

(* An executor that parks the run before its approval is persisted. *)
ExecuteParksEarly(w) ==
    /\ pc[w] = "executing"
    /\ \E out \in Outcomes :
         /\ out = "awaiting_approval" => ApprovalLeft
         /\ result' = [result EXCEPT ![w] = IF out = "error" THEN "none" ELSE out]
         /\ GoTo(w, IF out = "error" THEN "failing"
                    ELSE IF out = "awaiting_approval" THEN "pausing"
                    ELSE "settling")
         /\ IF out = "awaiting_approval"
            THEN ApplyRunTerminalTransition(job[w], out)
            ELSE UNCHANGED <<run, taskVars, terminalEvents>>
    /\ UNCHANGED <<apprVars, row, job, holders, cancelled, proc, scanVars,
                   pend, startVars, drainVars, bounds>>

(* executor.Execute returns: a result to persist, or an error.  A loop     *)
(* whose context is cancelled may also return the result "cancelled".      *)
Execute(w) ==
    /\ pc[w] = "executing"
    /\ \E out \in Outcomes \cup (IF w \in cancelled THEN {"cancelled"} ELSE {}) :
         /\ out = "awaiting_approval" => ApprovalLeft
         /\ result' = [result EXCEPT ![w] = IF out = "error" THEN "none" ELSE out]
         /\ GoTo(w, IF out = "error" THEN "failing"
                    ELSE IF out = "awaiting_approval" THEN "pausing"
                    ELSE "settling")
    /\ UNCHANGED <<store, row, job, holders, cancelled, proc, scanVars, pend,
                   startVars, drainVars, bounds>>

(* persistPendingApprovals, before the run is parked. *)
PersistPendingApproval(w) ==
    /\ pc[w] = "pausing"
    /\ \/ /\ \E a \in Approvals : CreateApproval(a, job[w])
          /\ GoTo(w, "settling")
          /\ UNCHANGED <<result, faults>>
       \/ /\ Fault
          /\ GoTo(w, "failing")
          /\ result' = [result EXCEPT ![w] = "none"]
          /\ UNCHANGED apprVars
    /\ UNCHANGED <<run, taskVars, terminalEvents, row, job, holders, cancelled,
                   proc, scanVars, pend, startVars, drainVars, stops>>

(* applyFinalResult, under a context that outlives the job's cancellation. *)
ApplyFinalResult(w) ==
    /\ pc[w] = "settling"
    /\ \/ /\ ApplyRunTerminalTransition(job[w], result[w])
          /\ GoTo(w, "acking")
          /\ UNCHANGED faults
       \/ /\ Fault
          /\ GoTo(w, "failing")
          /\ UNCHANGED <<run, taskVars, terminalEvents>>
    /\ result' = [result EXCEPT ![w] = "none"]
    /\ UNCHANGED <<apprVars, row, job, holders, cancelled, proc, scanVars,
                   pend, startVars, drainVars, stops>>

(* finalizeFailedRun, under the job's own context; its error is ignored,   *)
(* and the claim is acknowledged either way.                               *)
FinalizeFailedRun(w) ==
    /\ pc[w] = "failing"
    /\ \/ /\ ApplyRunTerminalTransition(job[w], IF w \in cancelled
                                                THEN "cancelled" ELSE "failed")
          /\ UNCHANGED faults
       \/ /\ w \in cancelled
          /\ UNCHANGED <<run, taskVars, terminalEvents, faults>>
       \/ Fault /\ UNCHANGED <<run, taskVars, terminalEvents>>
    /\ GoTo(w, "acking")
    /\ UNCHANGED <<apprVars, row, job, holders, result, cancelled, proc,
                   scanVars, pend, startVars, drainVars, stops>>

(* ackClaim; an error of Ack is ignored. *)
AckClaim(w) ==
    /\ pc[w] = "acking"
    /\ \/ AckRow(w) /\ UNCHANGED faults
       \/ Fault /\ UNCHANGED <<row, holders>>
    /\ GoTo(w, "leaving")
    /\ UNCHANGED <<store, job, result, cancelled, proc, scanVars, pend,
                   startVars, drainVars, stops>>

(* A worker that leaves without closing job.done. *)
EndJobNeverFinished(w) ==
    /\ pc[w] = "leaving"
    /\ Abandon(w)
    /\ cancelled' = cancelled \ {w}
    /\ UNCHANGED <<store, row, result, proc, scanVars, pend, startVars,
                   drainVars, bounds>>

(* The deferred end of process: stop the heartbeat, unregister the job and *)
(* wake the cancellations that wait for it.                                *)
EndJob(w) ==
    /\ pc[w] = "leaving"
    /\ Abandon(w)
    /\ cancelled' = cancelled \ {w}
    /\ waits' = [p \in Procs |-> [r \in Runs |-> waits[p][r] \ {w}]]
    /\ UNCHANGED <<store, row, result, proc, scanVars, pend, startVars, drain,
                   bounds>>

(* lease_until passes.  A live holder renews it at half time, so that only *)
(* with LapseLive does the lease of a live holder lapse.                   *)
LeaseLapses(r) ==
    /\ row[r] = "leased"
    /\ LapseLive \/ \A w \in holders : job[w] # r
    /\ row' = [row EXCEPT ![r] = "lapsed"]
    /\ UNCHANGED <<store, workerVars, proc, scanVars, pend, startVars,
                   drainVars, bounds>>

(* heartbeatClaim -> ExtendLease: the claim id is not checked against the  *)
(* owner, so any holder renews the lease.                                  *)
Heartbeat(w) ==
    /\ Registered(w)
    /\ pc[w] # "leaving"
    /\ w \in holders
    /\ row[job[w]] = "lapsed"
    /\ row' = [row EXCEPT ![job[w]] = "leased"]
    /\ UNCHANGED <<store, workerVars, proc, scanVars, pend, startVars,
                   drainVars, bounds>>

-----------------------------------------------------------------------------
(* Reconciliation. *)

NoTodo == [r \in Runs |-> "none"]

(* ListRunsByFilter for queued and running runs, with the status read. *)
PendingRunsSnapshot ==
    [r \in Runs |-> IF run[r] \in {"queued", "running"} THEN run[r] ELSE "none"]

ScanDone(p) == todo[p] = NoTodo /\ step[p] = "next"

(* A boot that starts its workers without reconciling first. *)
BootSkipsReconcile(p) ==
    /\ proc[p] = "down"
    /\ proc' = [proc EXCEPT ![p] = "booting"]
    /\ phase' = [phase EXCEPT ![p] = "boot"]
    /\ UNCHANGED <<store, row, workerVars, todo, step, cur, fullRetry, pend,
                   startVars, drainVars, bounds>>

(* StartQueueRuntime: boot reconciliation reads its snapshot; when the     *)
(* list fails, a full scan is left to the periodic loop.                   *)
Boot(p) ==
    /\ proc[p] = "down"
    /\ proc' = [proc EXCEPT ![p] = "booting"]
    /\ phase' = [phase EXCEPT ![p] = "boot"]
    /\ \/ /\ todo' = [todo EXCEPT ![p] = PendingRunsSnapshot]
          /\ UNCHANGED <<fullRetry, faults>>
       \/ /\ Fault
          /\ fullRetry' = [fullRetry EXCEPT ![p] = TRUE]
          /\ UNCHANGED todo
    /\ UNCHANGED <<store, row, workerVars, step, cur, pend, startVars,
                   drainVars, stops>>

(* Boot reconciliation is over: the workers and the loop start. *)
FinishBoot(p) ==
    /\ proc[p] = "booting"
    /\ ScanDone(p)
    /\ proc' = [proc EXCEPT ![p] = "up"]
    /\ phase' = [phase EXCEPT ![p] = "idle"]
    /\ pc' = [w \in Workers |-> IF Home[w] = p THEN "idle" ELSE pc[w]]
    /\ UNCHANGED <<store, row, job, holders, result, cancelled, todo, step,
                   cur, fullRetry, pend, startVars, drainVars, bounds>>

(* A tick of the loop: a full scan first when one is owed, and the pending *)
(* retries at once when none is or when its list fails.                    *)
Tick(p) ==
    /\ proc[p] = "up"
    /\ phase[p] = "idle"
    /\ \/ /\ fullRetry[p]
          /\ phase' = [phase EXCEPT ![p] = "full"]
          /\ todo' = [todo EXCEPT ![p] = PendingRunsSnapshot]
          /\ UNCHANGED faults
       \/ /\ IF fullRetry[p] THEN Fault ELSE UNCHANGED faults
          /\ phase' = [phase EXCEPT ![p] = "retry"]
          /\ todo' = [todo EXCEPT ![p] = pend[p]]
    /\ UNCHANGED <<store, row, workerVars, proc, step, cur, fullRetry, pend,
                   startVars, drainVars, stops>>

(* The full scan is over; retryPendingReconciles copies pendingReconciles. *)
FinishFullScan(p) ==
    /\ phase[p] = "full"
    /\ ScanDone(p)
    /\ fullRetry' = [fullRetry EXCEPT ![p] = FALSE]
    /\ phase' = [phase EXCEPT ![p] = "retry"]
    /\ todo' = [todo EXCEPT ![p] = pend[p]]
    /\ UNCHANGED <<store, row, workerVars, proc, step, cur, pend, startVars,
                   drainVars, bounds>>

(* reconcileStaleRuns lists the running runs; `old` are those whose        *)
(* StartedAt, the time the run was created, is past the threshold.  A      *)
(* failed list leaves none.                                                *)
ScanStale(p, old) ==
    /\ phase[p] = "retry"
    /\ ScanDone(p)
    /\ phase' = [phase EXCEPT ![p] = "stale"]
    /\ todo' = [todo EXCEPT ![p] =
                  [r \in Runs |-> IF r \in old /\ run[r] = "running"
                                  THEN "running" ELSE "none"]]
    /\ UNCHANGED <<store, row, workerVars, proc, step, cur, fullRetry, pend,
                   startVars, drainVars, bounds>>

FinishTick(p) ==
    /\ phase[p] = "stale"
    /\ ScanDone(p)
    /\ phase' = [phase EXCEPT ![p] = "idle"]
    /\ UNCHANGED <<store, row, workerVars, proc, todo, step, cur, fullRetry,
                   pend, startVars, drainVars, bounds>>

(* retryPendingReconciles, one remembered run: an owed enqueue is repeated *)
(* while the run is queued; a disconnected run is requeued while it is     *)
(* queued or running; anything else is forgotten.                          *)
LoadPendingReconcile(p, r) ==
    /\ todo[p][r] \in {"enqueue", "disconnected"}
    /\ step[p] = "next"
    /\ \/ /\ todo[p][r] = "enqueue" /\ run[r] = "queued"
          /\ todo' = [todo EXCEPT ![p][r] = "none"]
          /\ step' = [step EXCEPT ![p] = "enqueue"]
          /\ cur' = [cur EXCEPT ![p] = r]
          /\ UNCHANGED <<pend, faults>>
       \/ /\ todo[p][r] = "disconnected" /\ run[r] \in {"queued", "running"}
          /\ todo' = [todo EXCEPT ![p][r] = run[r]]
          /\ UNCHANGED <<step, cur, pend, faults>>
       \/ /\ \/ run[r] \notin {"queued", "running"}
             \/ todo[p][r] = "enqueue" /\ run[r] = "running"
          /\ todo' = [todo EXCEPT ![p][r] = "none"]
          /\ pend' = [pend EXCEPT ![p][r] = "none"]
          /\ UNCHANGED <<step, cur, faults>>
       \/ /\ Fault
          /\ todo' = [todo EXCEPT ![p][r] = "none"]
          /\ UNCHANGED <<step, cur, pend>>
    /\ UNCHANGED <<store, row, workerVars, proc, phase, fullRetry, startVars,
                   drainVars, stops>>

(* reconcileStaleRuns skips the runs this process works on. *)
SkipInFlight(p, r) ==
    /\ phase[p] = "stale"
    /\ todo[p][r] = "running"
    /\ step[p] = "next"
    /\ JobsOf(p, r) # {}
    /\ todo' = [todo EXCEPT ![p][r] = "none"]
    /\ UNCHANGED <<store, row, workerVars, proc, phase, step, cur, fullRetry,
                   pend, startVars, drainVars, bounds>>

(* The scan's next run, not one a stale scan must skip. *)
ScanReaches(p, r) ==
    /\ todo[p][r] \in {"queued", "running"}
    /\ step[p] = "next"
    /\ phase[p] = "stale" => JobsOf(p, r) = {}

(* A requeue that does not compare the status it read. *)
RequeueDisconnectedRunUnchecked(p, r) ==
    /\ ScanReaches(p, r)
    /\ SetRun(r, "queued")
    /\ todo' = [todo EXCEPT ![p][r] = "none"]
    /\ step' = [step EXCEPT ![p] = "enqueue"]
    /\ cur' = [cur EXCEPT ![p] = r]
    /\ UNCHANGED <<terminalEvents, apprVars, row, workerVars, proc, phase,
                   fullRetry, pend, startVars, drainVars, bounds>>

(* requeueDisconnectedRun, admitted: compare-and-swap from the status the  *)
(* scan read to queued; a lost swap needs nothing more.                    *)
RequeueDisconnectedRun(p, r) ==
    /\ ScanReaches(p, r)
    /\ "admitted" \in Verdicts
    /\ todo' = [todo EXCEPT ![p][r] = "none"]
    /\ \/ /\ ApplyRunStateTransition(r, {todo[p][r]}, "queued")
          /\ step' = [step EXCEPT ![p] = "enqueue"]
          /\ cur' = [cur EXCEPT ![p] = r]
          /\ UNCHANGED pend
       \/ /\ run[r] # todo[p][r]
          /\ pend' = IF phase[p] = "stale" THEN pend
                     ELSE [pend EXCEPT ![p][r] = "none"]
          /\ UNCHANGED <<run, taskVars, terminalEvents, step, cur>>
    /\ UNCHANGED <<apprVars, row, workerVars, proc, phase, fullRetry,
                   startVars, drainVars, bounds>>

(* requeueDisconnectedRun with a missing owner: cancelRunWithMessage, whose *)
(* drain the scan waits for.                                               *)
CancelUnavailableOrigin(p, r) ==
    /\ ScanReaches(p, r)
    /\ "unavailable" \in Verdicts
    /\ drain[p][r] = "none"
    /\ CancelInStore(r)
    /\ todo' = [todo EXCEPT ![p][r] = "none"]
    /\ step' = [step EXCEPT ![p] = "drain"]
    /\ cur' = [cur EXCEPT ![p] = r]
    /\ drain' = [drain EXCEPT ![p][r] = "signal"]
    /\ UNCHANGED <<row, workerVars, proc, phase, fullRetry, pend, startVars,
                   waits, bounds>>

(* requeueDisconnectedRun fails before its state change commits: a boot or *)
(* full scan remembers the run as disconnected.  A stopping process fails  *)
(* for free, because workerCtx is cancelled.                               *)
FailRequeue(p, r) ==
    /\ ScanReaches(p, r)
    /\ \/ proc[p] = "stopping" /\ UNCHANGED faults
       \/ Fault
    /\ todo' = [todo EXCEPT ![p][r] = "none"]
    /\ pend' = IF phase[p] \in {"boot", "full"}
               THEN [pend EXCEPT ![p][r] = "disconnected"] ELSE pend
    /\ UNCHANGED <<store, row, workerVars, proc, phase, step, cur, fullRetry,
                   startVars, drainVars, stops>>

(* enqueueRunWithReconcile of the requeued run.  When it fails, boot and   *)
(* full scans overwrite what was remembered with "disconnected".           *)
EnqueueRequeued(p) ==
    /\ step[p] = "enqueue"
    /\ \/ /\ Enqueue(cur[p])
          /\ pend' = [pend EXCEPT ![p][cur[p]] = "none"]
          /\ UNCHANGED faults
       \/ /\ Fault
          /\ EnqueueAmbiguous(cur[p])
          /\ pend' = [pend EXCEPT ![p][cur[p]] =
                        IF phase[p] \in {"boot", "full"} THEN "disconnected"
                        ELSE IF @ = "none" THEN "enqueue" ELSE @]
    /\ step' = [step EXCEPT ![p] = "next"]
    /\ cur' = [cur EXCEPT ![p] = NoRun]
    /\ UNCHANGED <<store, workerVars, proc, phase, todo, fullRetry, startVars,
                   drainVars, stops>>

-----------------------------------------------------------------------------
(* Process lifetime. *)

(* Shutdown: cancel workerCtx and every registered job. *)
Shutdown(p) ==
    /\ proc[p] = "up"
    /\ stops < MaxStops /\ FailureLeft
    /\ stops' = stops + 1
    /\ proc' = [proc EXCEPT ![p] = "stopping"]
    /\ pc' = [w \in Workers |-> IF Home[w] = p /\ pc[w] = "idle"
                                THEN "off" ELSE pc[w]]
    /\ cancelled' = cancelled \cup {w \in Workers : Home[w] = p /\ Registered(w)}
    /\ UNCHANGED <<store, row, job, holders, result, scanVars, pend, startVars,
                   drainVars, faults>>

(* Everything a process holds in memory is lost with it. *)
LoseMemory(p) ==
    LET mine == {w \in Workers : Home[w] = p} IN
    /\ proc' = [proc EXCEPT ![p] = "down"]
    /\ pc' = [w \in Workers |-> IF w \in mine THEN "off" ELSE pc[w]]
    /\ job' = [w \in Workers |-> IF w \in mine THEN NoRun ELSE job[w]]
    /\ result' = [w \in Workers |-> IF w \in mine THEN "none" ELSE result[w]]
    /\ holders' = holders \ mine
    /\ cancelled' = cancelled \ mine
    /\ phase' = [phase EXCEPT ![p] = "idle"]
    /\ todo' = [todo EXCEPT ![p] = NoTodo]
    /\ step' = [step EXCEPT ![p] = "next"]
    /\ cur' = [cur EXCEPT ![p] = NoRun]
    /\ fullRetry' = [fullRetry EXCEPT ![p] = FALSE]
    /\ pend' = [pend EXCEPT ![p] = NoTodo]
    /\ apiOwes' = [apiOwes EXCEPT ![p] = {}]
    /\ approving' = [approving EXCEPT ![p] = {}]
    /\ updating' = [updating EXCEPT ![p] = {}]
    /\ drain' = [drain EXCEPT ![p] = [r \in Runs |-> "none"]]
    /\ waits' = [waits EXCEPT ![p] = [r \in Runs |-> {}]]
    /\ UNCHANGED <<store, row>>

(* The drained process exits. *)
Exit(p) ==
    /\ proc[p] = "stopping"
    /\ \A w \in Workers : Home[w] = p => pc[w] = "off"
    /\ phase[p] = "idle"
    /\ LoseMemory(p)
    /\ UNCHANGED bounds

(* A crash, or a shutdown whose deadline passes. *)
Crash(p) ==
    /\ proc[p] # "down"
    /\ stops < MaxStops /\ FailureLeft
    /\ stops' = stops + 1
    /\ LoseMemory(p)
    /\ UNCHANGED faults

-----------------------------------------------------------------------------
ApiStep ==
    \E p \in Procs :
      \/ \E r \in Runs : \/ StartUngated(p, r) \/ StartGated(p, r)
                         \/ CreateStartApproval(p, r) \/ UpdateStartedRun(p, r)
                         \/ EnqueueOwed(p, r) \/ CancelRun(p, r)
                         \/ SignalJobs(p, r) \/ FinishCancel(p, r)
                         \/ AbandonCancel(p, r)
                         \/ \E a \in Approvals : StartScheduledGated(p, r, a)
      \/ \E a \in Approvals : Approve(p, a) \/ Reject(p, a)

WorkerStep(w) ==
    \/ LoadClaimedRun(w) \/ DropClaim(w) \/ BeginJob(w) \/ StartClaimedRun(w)
    \/ SettleUnavailableOrigin(w) \/ FailClaimedStart(w) \/ Execute(w)
    \/ PersistPendingApproval(w) \/ ApplyFinalResult(w) \/ FinalizeFailedRun(w)
    \/ AckClaim(w) \/ EndJob(w)

QueueStep ==
    \/ \E r \in Runs : LeaseLapses(r)
    \/ \E w \in Workers : \/ Heartbeat(w)
                          \/ \E r \in Runs : Claim(w, r) \/ ClaimLost(w, r)

ScanStep(p) ==
    \/ FinishBoot(p) \/ Tick(p) \/ FinishFullScan(p) \/ FinishTick(p)
    \/ EnqueueRequeued(p)
    \/ \E old \in SUBSET Runs : ScanStale(p, old)
    \/ \E r \in Runs : \/ LoadPendingReconcile(p, r) \/ SkipInFlight(p, r)
                       \/ RequeueDisconnectedRun(p, r)
                       \/ CancelUnavailableOrigin(p, r) \/ FailRequeue(p, r)

ProcStep(p) == Boot(p) \/ Shutdown(p) \/ Exit(p) \/ Crash(p)

Next ==
    \/ ApiStep
    \/ QueueStep
    \/ \E w \in Workers : WorkerStep(w)
    \/ \E p \in Procs : ScanStep(p) \/ ProcStep(p)

Spec == Init /\ [][Next]_vars

-----------------------------------------------------------------------------
(* Fairness.  Goroutines, tickers and the queue's polling always get to    *)
(* run, an expired lease is eventually noticed, a running run eventually   *)
(* becomes older than the stale threshold, a stopped process is started    *)
(* again, and an executor returns.  Nothing is assumed of operators (who   *)
(* start, approve, reject and cancel), of failures or of the origin.       *)
Fairness ==
    /\ \A w \in Workers : WF_vars(WorkerStep(w))
    /\ \A r \in Runs : /\ SF_vars(\E w \in Workers : Claim(w, r))
                       /\ WF_vars(LeaseLapses(r))
    /\ \A p \in Procs : /\ WF_vars(ScanStep(p))
                        /\ SF_vars(ScanStale(p, Runs))
                        /\ WF_vars(Boot(p))
                        /\ WF_vars(Exit(p))
    /\ \A p \in Procs, r \in Runs : /\ WF_vars(EnqueueOwed(p, r))
                                    /\ WF_vars(SignalJobs(p, r))
                                    /\ WF_vars(FinishCancel(p, r))

FairSpec == Spec /\ Fairness

-----------------------------------------------------------------------------
StoreTypeOK ==
    /\ run \in [Runs -> Status]
    /\ taskRun \in [Tasks -> Runs \cup {NoRun}]
    /\ taskStatus \in [Tasks -> Status]
    /\ terminalEvents \in [Runs -> Nat]
    /\ apprRun \in [Approvals -> Runs \cup {NoRun}]
    /\ apprStatus \in [Approvals ->
                        {"unused", "pending", "approved", "rejected", "cancelled"}]
    /\ \A a \in Approvals : apprRun[a] = NoRun <=> apprStatus[a] = "unused"

WorkerTypeOK ==
    /\ row \in [Runs -> {"none", "pending", "leased", "lapsed"}]
    /\ pc \in [Workers -> {"off", "idle", "claimed", "dropping", "loaded",
                           "registered", "executing", "pausing", "settling",
                           "failing", "acking", "leaving"}]
    /\ job \in [Workers -> Runs \cup {NoRun}]
    /\ \A w \in Workers : job[w] = NoRun <=> pc[w] \in {"off", "idle"}
    /\ holders \in SUBSET Workers
    /\ result \in [Workers -> {"none", "awaiting_approval"} \cup Terminal]
    /\ \A w \in Workers : pc[w] \in {"pausing", "settling"} => result[w] # "none"
    /\ cancelled \in SUBSET Workers

ScanTypeOK ==
    /\ proc \in [Procs -> {"down", "booting", "up", "stopping"}]
    /\ phase \in [Procs -> {"idle", "boot", "full", "retry", "stale"}]
    /\ todo \in [Procs -> [Runs -> {"none", "queued", "running", "enqueue",
                                    "disconnected"}]]
    /\ step \in [Procs -> {"next", "enqueue", "drain"}]
    /\ cur \in [Procs -> Runs \cup {NoRun}]
    /\ \A p \in Procs : cur[p] = NoRun <=> step[p] = "next"
    /\ fullRetry \in [Procs -> BOOLEAN]
    /\ pend \in [Procs -> [Runs -> {"none", "enqueue", "disconnected"}]]

CallTypeOK ==
    /\ apiOwes \in [Procs -> SUBSET Runs]
    /\ approving \in [Procs -> SUBSET Runs]
    /\ updating \in [Procs -> SUBSET Runs]
    /\ drain \in [Procs -> [Runs -> {"none", "signal", "wait"}]]
    /\ waits \in [Procs -> [Runs -> SUBSET Workers]]
    /\ stops \in Nat
    /\ faults \in Nat

(* Types of all variables; a worker carries a run exactly while it has a   *)
(* claim, an approval row names a run, and the reconciler's current run is *)
(* set exactly while it has a call in progress.                            *)
TypeOK == StoreTypeOK /\ WorkerTypeOK /\ ScanTypeOK /\ CallTypeOK

(* Two executors never work on the same run: the lease of the queue row    *)
(* together with the compare-and-swap queued -> running keeps a second     *)
(* claim out even when recovery puts a live run back to queued.            *)
SingleExecutor ==
    \A v, w \in Workers : Executing(v) /\ Executing(w) /\ job[v] = job[w] => v = w

(* A task has at most one run that is not terminal, whoever starts, parks, *)
(* requeues or resumes runs of it.                                         *)
OneActiveRun ==
    \A r, s \in Runs :
      run[r] \in Active /\ run[s] \in Active /\ TaskOf[r] = TaskOf[s] => r = s

(* The task row shows the run that was started last, with the status of    *)
(* the run row: late writers of earlier runs do not disturb it.            *)
TaskMirrorsRun ==
    /\ \A r \in Runs : run[r] \in Active => taskRun[TaskOf[r]] = r
    /\ \A t \in Tasks : taskRun[t] # NoRun => taskStatus[t] = run[taskRun[t]]

(* Every ended run has exactly one terminal event, although cancellation,  *)
(* finalization and cleanup replays all write terminal transitions.        *)
SingleTerminalEvent ==
    \A r \in Runs : terminalEvents[r] = IF run[r] \in Terminal THEN 1 ELSE 0

(* No executor works on a run that waits for an approval: what it waits    *)
(* for cannot have happened yet.                                           *)
AwaitingRunIsIdle ==
    \A w \in Workers : Executing(w) => run[job[w]] # "awaiting_approval"

(* The first terminal status of a run is never replaced. *)
TerminalIsFinal ==
    [][\A r \in Runs : run[r] \in Terminal => run'[r] = run[r]]_vars

(* An executor of a run that was cancelled has been told so, or the        *)
(* cancellation that will tell it is under way: no executor slips through  *)
(* between loading its run and registering its job.                        *)
CancelledExecutorIsSignalled ==
    \A w \in Workers :
      Executing(w) /\ run[job[w]] = "cancelled"
        => w \in cancelled \/ drain[Home[w]][job[w]] = "signal"

(* A pending approval of an ended run is about to be settled by the        *)
(* cancellation that still drains the run's executor, however late the     *)
(* executor persisted it.                                                  *)
NoAbandonedApproval ==
    \A r \in Runs : run[r] \in Terminal /\ PendingOf(r) # {}
                      => \E p \in Procs : drain[p][r] # "none"

(* A run whose every start is gated is worked on only after an operator    *)
(* approved it, through crashes, requeues and lost races.                  *)
ApprovedBeforeExecution ==
    "ungated" \notin StartModes =>
      \A w \in Workers : Executing(w) =>
        \E a \in Approvals : apprRun[a] = job[w] /\ apprStatus[a] = "approved"

(* The reconciler's scan `ph` puts a run back to queued only when no       *)
(* executor is at work on it.                                              *)
SparesLiveRuns(ph) ==
    \A p \in Procs, r \in Runs :
      /\ phase[p] = ph
      /\ todo[p][r] = "running" /\ todo'[p][r] = "none"
      /\ run[r] = "running" /\ run'[r] = "queued"
      => \A w \in Workers : Executing(w) => job[w] # r

(* The periodic scan for stale runs does not race with workers that are    *)
(* legitimately in flight (StartReconcileLoop).                            *)
StaleScanSparesLiveRuns == [][SparesLiveRuns("stale")]_vars

(* The retry of an enqueue whose outcome is unknown never rewrites a live  *)
(* run to queued (retryPendingReconciles).                                 *)
RetrySparesLiveRuns == [][SparesLiveRuns("retry")]_vars

(* A queued run is consumed by a worker, or ended. *)
QueuedRunsProceed == \A r \in Runs : run[r] = "queued" ~> run[r] # "queued"

(* A run that was queued or taken up ends or is parked, although workers   *)
(* crash, drop claims without acknowledging them and lose store writes.    *)
RunsSettle ==
    \A r \in Runs : run[r] \in {"queued", "running"}
                      ~> run[r] \in Terminal \cup {"awaiting_approval"}

(* A cancellation returns: every job it waits for exits. *)
CancelReturns ==
    \A p \in Procs, r \in Runs : drain[p][r] # "none" ~> drain[p][r] = "none"

(* The runtime implements the life cycle of a run. *)
Lifecycle == INSTANCE RunLifecycle WITH status <- run, events <- terminalEvents
LifecycleSpec == Lifecycle!Spec

=============================================================================
