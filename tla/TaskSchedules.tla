--------------------------- MODULE TaskSchedules ---------------------------
(***************************************************************************)
(* Task schedules: the operator's edits (internal/taskschedule             *)
(* application.go), the schedule and occurrence rows                       *)
(* (internal/taskstate/schedule_sql.go), and the managers                  *)
(* (internal/taskschedule/manager.go), one per replica, that claim a due   *)
(* occurrence and start a run for it through the runner                    *)
(* (internal/orchestrator/runner.go).                                      *)
(*                                                                         *)
(* One task, which has at most one schedule.  A step is one store          *)
(* transaction or one stretch of a manager between two of them.  Time is   *)
(* counted in cron periods; the age of a claim is the single bit "not      *)
(* renewed for claimTTL", which may come true between any two steps: the   *)
(* heartbeat of a live dispatcher is late at most MaxLate times.           *)
(*                                                                         *)
(* An operator directly above the definition it varies, with the same      *)
(* parameters and a name that says what is wrong with it, is that          *)
(* definition with a plausible defect; the specification never uses it.    *)
(***************************************************************************)
EXTENDS Integers, FiniteSets

CONSTANTS
    Replicas,
    Nobody,        \* the claim owner of a process that is gone
    NoSchedule,
    Ahead,         \* how far a replica's clock is ahead of the slowest one
    MaxTime,       \* bound on the clocks
    MaxSchedules,  \* bound on schedules created after one another
    MaxEdits,      \* bound on operator edits
    MaxRuns,       \* bound on run ids handed out
    MaxStops,      \* bound on crashes and shutdowns
    MaxFaults,     \* bound on failed store and queue calls
    MaxTrouble,    \* bound on edits, stops and faults together
    MaxLate        \* bound on heartbeats that come after claimTTL

ASSUME ReplicasAssumption == Nobody \notin Replicas
ASSUME ScheduleBoundsAssumption ==
    /\ MaxTime \in Nat /\ MaxSchedules \in Nat \ {0} /\ MaxEdits \in Nat
    /\ MaxRuns \in Nat /\ MaxStops \in Nat /\ MaxFaults \in Nat
    /\ MaxTrouble \in Nat /\ MaxLate \in Nat
ASSUME AheadAssumption == Ahead \in [Replicas -> 0..MaxTime]

VARIABLES
    clock,
    task,        \* TRUE while the task row exists
    schedule,    \* the task's schedule row, or NoSchedule
    created,     \* schedules created so far: ids are not used again
    status,      \* per occurrence key, its row's status; "none": no row
    owner,       \* its claim_owner
    runOf,       \* its run_id, 0 when empty
    aged,        \* claims not renewed for claimTTL
    run,         \* per run id, "none", "active" or "terminal"
    occOf,       \* the occurrence a run was started for, or NoKey
    issued,      \* run ids handed out
    dir,         \* a run's managed workspace: "none", "present" or "removed"
    edit,        \* the API call that is changing the schedule
    edits,
    mgr,         \* what each replica's manager is doing
    cancelled,   \* replicas whose dispatchCtx is cancelled
    stopping,    \* replicas whose manager is shutting down
    stops, faults, late

store == <<task, schedule, created, status, owner, runOf, aged, run, occOf>>
files == <<issued, dir>>
operator == <<edit, edits>>
bounds == <<stops, faults, late>>
vars == <<clock, store, files, operator, mgr, cancelled, stopping, bounds>>

Kinds == {"once", "cron"}
Keys == (1..MaxSchedules) \X (1..(MaxTime + 1))
NoKey == <<0, 0>>
RunIds == 1..MaxRuns
Settled == {"started", "skipped", "failed"}

(* The rows of a schedule table; an id is a number, a revision too. *)
ScheduleRows ==
    [id : 1..MaxSchedules, kind : Kinds, enabled : BOOLEAN, next : Nat, rev : Nat]

ASSUME NoScheduleAssumption == NoSchedule \notin ScheduleRows

KeyOf(s) == <<s.id, s.next>>
Now(r) == clock + Ahead[r]
ActiveRuns == {i \in RunIds : run[i] = "active"}
RunsFor(k) == {i \in RunIds : run[i] # "none" /\ occOf[i] = k}

Idle == [pc |-> "idle", now |-> 0, list |-> {}, due |-> NoSchedule,
         phase |-> "recover", key |-> NoKey, cand |-> 0, published |-> FALSE,
         err |-> "none", outcome |-> "failed", linked |-> 0]

NoEdit == [pc |-> "idle", s |-> NoSchedule, expected |-> 0]

(* A task that never had a schedule, or has one that is armed. *)
Init ==
    /\ clock = 0 /\ task = TRUE
    /\ \/ schedule = NoSchedule /\ created = 0
       \/ /\ \E kind \in Kinds :
               schedule = [id |-> 1, kind |-> kind, enabled |-> TRUE,
                           next |-> 1, rev |-> 1]
          /\ created = 1
    /\ status = [k \in Keys |-> "none"]
    /\ owner = [k \in Keys |-> Nobody]
    /\ runOf = [k \in Keys |-> 0]
    /\ aged = {}
    /\ run = [i \in RunIds |-> "none"]
    /\ occOf = [i \in RunIds |-> NoKey]
    /\ issued = 0
    /\ dir = [i \in RunIds |-> "none"]
    /\ edit = NoEdit /\ edits = 0
    /\ mgr = [r \in Replicas |-> Idle]
    /\ cancelled = {} /\ stopping = {}
    /\ stops = 0 /\ faults = 0 /\ late = 0

-----------------------------------------------------------------------------
(* Time. *)

Tick ==
    /\ clock < MaxTime /\ \A r \in Replicas : Now(r) < MaxTime
    /\ clock' = clock + 1
    /\ UNCHANGED <<store, files, operator, mgr, cancelled, stopping, bounds>>

(* The owner of k is dispatching it and its heartbeat is running. *)
HeldLive(k) ==
    \E r \in Replicas \ cancelled : owner[k] = r /\ mgr[r].key = k

(* claimTTL passes without a renewal of k. *)
Age(k) ==
    /\ status[k] = "claimed" /\ k \notin aged
    /\ IF HeldLive(k) THEN late < MaxLate /\ late' = late + 1
                      ELSE UNCHANGED late
    /\ aged' = aged \cup {k}
    /\ UNCHANGED <<clock, task, schedule, created, status, owner, runOf, run,
                   occOf, files, operator, mgr, cancelled, stopping, stops,
                   faults>>

-----------------------------------------------------------------------------
(* Operator edits. *)

(* NextAfter and nextCronOccurrence: a cron schedule fires next at the     *)
(* first period strictly after t, however many it missed; a one-time       *)
(* schedule does not fire again.                                           *)
NextAfter(kind, t) == IF kind = "once" THEN 0 ELSE t + 1

MayEdit == edits < MaxEdits /\ edits + stops + faults < MaxTrouble

(* Upsert reads the row and prepares its replacement: Normalize refuses a  *)
(* one-time schedule whose run_at is not in the future.                    *)
UpsertRead(r, kind, enabled) ==
    /\ edit.pc = "idle" /\ MayEdit /\ task
    /\ Now(r) < MaxTime
    /\ schedule = NoSchedule => created < MaxSchedules
    /\ edits' = edits + 1
    /\ edit' =
         [pc |-> "swap",
          expected |-> IF schedule = NoSchedule THEN 0 ELSE schedule.rev,
          s |-> [id |-> IF schedule = NoSchedule THEN created + 1 ELSE schedule.id,
                 kind |-> kind, enabled |-> enabled, rev |-> 0,
                 next |-> IF enabled THEN Now(r) + 1 ELSE 0]]
    /\ UNCHANGED <<clock, store, files, mgr, cancelled, stopping, bounds>>

Matches(rev) ==
    \/ schedule = NoSchedule /\ rev = 0
    \/ schedule # NoSchedule /\ rev # 0 /\ schedule.rev = rev

(* A swap that does not compare the revision. *)
UpsertSwapBlindly ==
    /\ edit.pc = "swap" /\ task
    /\ IF schedule = NoSchedule
       THEN /\ edit.expected = 0 /\ created < MaxSchedules
            /\ schedule' = [edit.s EXCEPT !.id = created + 1, !.rev = 1]
            /\ created' = created + 1
       ELSE /\ schedule' = [edit.s EXCEPT !.id = schedule.id,
                                          !.rev = schedule.rev + 1]
            /\ UNCHANGED created
    /\ edit' = NoEdit
    /\ UNCHANGED <<clock, task, status, owner, runOf, aged, run, occOf, files,
                   edits, mgr, cancelled, stopping, bounds>>

(* CompareAndSwapTaskSchedule: an insert when no row was read, else an     *)
(* update of the row at the revision that was read.                        *)
UpsertSwap ==
    /\ edit.pc = "swap" /\ task /\ Matches(edit.expected)
    /\ IF schedule = NoSchedule
       THEN /\ created < MaxSchedules
            /\ schedule' = [edit.s EXCEPT !.id = created + 1, !.rev = 1]
            /\ created' = created + 1
       ELSE /\ schedule' = [edit.s EXCEPT !.id = schedule.id,
                                          !.rev = schedule.rev + 1]
            /\ UNCHANGED created
    /\ edit' = NoEdit
    /\ UNCHANGED <<clock, task, status, owner, runOf, aged, run, occOf, files,
                   edits, mgr, cancelled, stopping, bounds>>

(* The row moved: Upsert reads it and tries again, unless the task is gone *)
(* or the one-time run_at it was given has passed meanwhile.               *)
UpsertRetry(r) ==
    /\ edit.pc = "swap"
    /\ ~task \/ ~Matches(edit.expected)
    /\ edit' =
         IF ~task \/ (edit.s.kind = "once" /\ edit.s.next <= Now(r))
                  \/ Now(r) >= MaxTime
                  \/ (schedule = NoSchedule /\ created >= MaxSchedules)
         THEN NoEdit
         ELSE [edit EXCEPT
                 !.expected = IF schedule = NoSchedule THEN 0 ELSE schedule.rev,
                 !.s.next = IF ~edit.s.enabled THEN 0
                            ELSE IF edit.s.kind = "once" THEN @
                            ELSE Now(r) + 1]
    /\ UNCHANGED <<clock, store, files, edits, mgr, cancelled, stopping, bounds>>

(* DeleteTaskSchedule: the occurrences and the row in one transaction. *)
DeleteTaskSchedule ==
    /\ schedule # NoSchedule /\ MayEdit
    /\ edits' = edits + 1
    /\ status' = [k \in Keys |-> IF k[1] = schedule.id THEN "none" ELSE status[k]]
    /\ owner' = [k \in Keys |-> IF k[1] = schedule.id THEN Nobody ELSE owner[k]]
    /\ runOf' = [k \in Keys |-> IF k[1] = schedule.id THEN 0 ELSE runOf[k]]
    /\ aged' = {k \in aged : k[1] # schedule.id}
    /\ schedule' = NoSchedule
    /\ UNCHANGED <<clock, task, created, run, occOf, files, edit, mgr, cancelled,
                   stopping, bounds>>

(* DeleteTask refuses a task with an active run and cascades otherwise. *)
DeleteTask ==
    /\ task /\ ActiveRuns = {} /\ MayEdit
    /\ edits' = edits + 1
    /\ task' = FALSE /\ schedule' = NoSchedule
    /\ status' = [k \in Keys |-> "none"]
    /\ owner' = [k \in Keys |-> Nobody]
    /\ runOf' = [k \in Keys |-> 0]
    /\ aged' = {}
    /\ run' = [i \in RunIds |-> "none"]
    /\ occOf' = [i \in RunIds |-> NoKey]
    /\ UNCHANGED <<clock, created, files, edit, mgr, cancelled, stopping, bounds>>

-----------------------------------------------------------------------------
(* The task's runs outside the scheduler. *)

(* ApplyRunStartTransition for a manual start. *)
StartManually ==
    /\ task /\ ActiveRuns = {} /\ issued < MaxRuns
    /\ issued' = issued + 1
    /\ run' = [run EXCEPT ![issued + 1] = "active"]
    /\ UNCHANGED <<clock, task, schedule, created, status, owner, runOf, aged,
                   occOf, dir, operator, mgr, cancelled, stopping, bounds>>

(* The run runtime settles a run; module RunRuntime shows that it does. *)
FinishRun(i) ==
    /\ run[i] = "active"
    /\ run' = [run EXCEPT ![i] = "terminal"]
    /\ UNCHANGED <<clock, task, schedule, created, status, owner, runOf, aged,
                   occOf, files, operator, mgr, cancelled, stopping, bounds>>

-----------------------------------------------------------------------------
(* A manager's pass: RunOnce. *)

At(r, pc) == mgr[r].pc = pc
Fault ==
    /\ faults < MaxFaults /\ edits + stops + faults < MaxTrouble
    /\ faults' = faults + 1

(* After one claim is dealt with: back to the stale list, or done. *)
Finish(m) == [m EXCEPT !.pc = IF m.phase = "recover" THEN "recover" ELSE "idle",
                       !.key = NoKey, !.cand = 0, !.published = FALSE,
                       !.err = "none", !.outcome = "failed", !.linked = 0]

(* A loop that only looks for due schedules. *)
BeginPassWithoutRecovery(r) ==
    /\ At(r, "idle") /\ r \notin stopping
    /\ mgr' = [mgr EXCEPT ![r] = [Idle EXCEPT !.pc = "recover", !.now = Now(r)]]
    /\ UNCHANGED <<clock, store, files, operator, cancelled, stopping, bounds>>

(* The ticker of the loop: read the clock and the stale claims. *)
BeginPass(r) ==
    /\ At(r, "idle") /\ r \notin stopping
    /\ mgr' = [mgr EXCEPT ![r] = [Idle EXCEPT !.pc = "recover", !.now = Now(r),
                                             !.list = aged]]
    /\ UNCHANGED <<clock, store, files, operator, cancelled, stopping, bounds>>

(* recoverStaleClaims looks for the run of a listed occurrence first. *)
InspectStale(r, k) ==
    /\ At(r, "recover") /\ r \notin stopping /\ k \in mgr[r].list
    /\ \/ \E i \in RunIds \cup {0} :
            /\ i \in RunsFor(k) \/ (i = 0 /\ RunsFor(k) = {})
            /\ mgr' = [mgr EXCEPT ![r] =
                        [@ EXCEPT !.pc = "reclaim", !.key = k, !.linked = i]]
            /\ UNCHANGED faults
       \/ /\ Fault
          /\ mgr' = [mgr EXCEPT ![r].list = @ \ {k}]
    /\ UNCHANGED <<clock, store, files, operator, cancelled, stopping, stops,
                   late>>

(* The claim of k moves to now: a pass that listed k before has a          *)
(* StaleBefore that no longer covers it.                                   *)
Refreshed(m, k) == [q \in Replicas |-> [m[q] EXCEPT !.list = @ \ {k}]]

(* ReclaimTaskScheduleOccurrence, and what follows when it applies: a      *)
(* claim whose run was found only needs its record, any other is           *)
(* dispatched again.                                                       *)
Reclaim(r) ==
    LET k == mgr[r].key IN
    /\ At(r, "reclaim") /\ r \notin stopping
    /\ k \in mgr[r].list /\ status[k] = "claimed"
    /\ owner' = [owner EXCEPT ![k] = r]
    /\ aged' = aged \ {k}
    /\ mgr' = [Refreshed(mgr, k) EXCEPT ![r] =
         [@ EXCEPT !.pc = IF mgr[r].linked # 0 THEN "complete" ELSE "get",
                   !.outcome = IF mgr[r].linked # 0 THEN "started"
                               ELSE "failed"]]
    /\ UNCHANGED <<clock, task, schedule, created, status, runOf, run, occOf,
                   files, operator, cancelled, stopping, bounds>>

(* The claim was renewed, settled, taken over or deleted meanwhile, or the *)
(* statement failed.                                                       *)
ReclaimMissed(r) ==
    LET k == mgr[r].key IN
    /\ At(r, "reclaim") /\ r \notin stopping
    /\ \/ /\ k \notin mgr[r].list \/ status[k] # "claimed"
          /\ UNCHANGED faults
       \/ Fault
    /\ mgr' = [mgr EXCEPT ![r] = [Finish(mgr[r]) EXCEPT !.list = @ \ {k}]]
    /\ UNCHANGED <<clock, store, files, operator, cancelled, stopping, stops,
                   late>>

(* ListDueTaskSchedules, with the clock the pass began with. *)
ListDue(r) ==
    /\ At(r, "recover") /\ r \notin stopping /\ mgr[r].list = {}
    /\ mgr' = [mgr EXCEPT ![r] =
         IF schedule # NoSchedule /\ schedule.enabled /\ schedule.next <= @.now
         THEN [@ EXCEPT !.pc = "due", !.due = schedule]
         ELSE Idle]
    /\ UNCHANGED <<clock, store, files, operator, cancelled, stopping, bounds>>

(* What ClaimTaskScheduleOccurrence demands of a snapshot. *)
Claimable(s) ==
    /\ schedule # NoSchedule /\ schedule.id = s.id
    /\ schedule.rev = s.rev
    /\ schedule.enabled /\ schedule.next = s.next
    /\ status[KeyOf(s)] = "none"

(* claimAndDispatch: the occurrence is inserted and the schedule advanced  *)
(* past the current clock in one transaction.                              *)
Claim(r) ==
    LET s == mgr[r].due
        next == NextAfter(s.kind, Now(r)) IN
    /\ At(r, "due") /\ r \notin stopping
    /\ IF Claimable(s)
       THEN /\ status' = [status EXCEPT ![KeyOf(s)] = "claimed"]
            /\ owner' = [owner EXCEPT ![KeyOf(s)] = r]
            /\ schedule' = [schedule EXCEPT !.next = next, !.enabled = next # 0,
                                            !.rev = @ + 1]
            /\ mgr' = [mgr EXCEPT ![r] = [Idle EXCEPT !.pc = "get",
                                            !.phase = "due", !.key = KeyOf(s)]]
       ELSE /\ mgr' = [mgr EXCEPT ![r] = Idle]
            /\ UNCHANGED <<status, owner, schedule>>
    /\ UNCHANGED <<clock, task, created, runOf, aged, run, occOf, files,
                   operator, cancelled, stopping, bounds>>

-----------------------------------------------------------------------------
(* Dispatching a claim: dispatchOwnedClaim and the scheduled start. *)

Dispatching == {"get", "preflight", "provision", "admit", "cleanup", "lookup",
                "complete"}

(* The deferred cleanup runs before the error is looked at. *)
Fail(m, err) == [m EXCEPT !.err = err,
                          !.pc = IF m.published THEN "cleanup" ELSE "lookup"]
Succeed(m) == [m EXCEPT !.outcome = "started",
                        !.pc = IF m.published THEN "cleanup" ELSE "complete"]

(* dispatchClaim returns: the next dispatch has a context of its own. *)
EndDispatch(r) ==
    /\ mgr' = [mgr EXCEPT ![r] = Finish(@)]
    /\ cancelled' = cancelled \ ({r} \ stopping)

(* A call on dispatchCtx after its cancellation. *)
CallCancelled(r) ==
    /\ r \in cancelled
    /\ \/ At(r, "get") /\ EndDispatch(r)
       \/ /\ mgr[r].pc \in {"preflight", "provision", "admit"}
          /\ mgr' = [mgr EXCEPT ![r] = Fail(@, "ctx")]
          /\ UNCHANGED cancelled
    /\ UNCHANGED <<clock, store, files, operator, stopping, bounds>>

(* A store or provisioning call that fails without effect. *)
CallFails(r) ==
    /\ r \notin cancelled
    /\ \/ mgr[r].pc \in {"preflight", "admit"} /\ Fault
       \/ mgr[r].pc = "provision" /\ UNCHANGED faults
    /\ mgr' = [mgr EXCEPT ![r] = Fail(@, "failed")]
    /\ UNCHANGED <<clock, store, files, operator, cancelled, stopping, stops,
                   late>>

(* dispatchOwnedClaim reads the task; a missing one is recorded as failed. *)
GetTask(r) ==
    /\ At(r, "get") /\ r \notin cancelled
    /\ \/ /\ mgr' = [mgr EXCEPT ![r].pc = IF task THEN "preflight"
                                          ELSE "complete"]
          /\ UNCHANGED <<cancelled, faults>>
       \/ Fault /\ EndDispatch(r)
    /\ UNCHANGED <<clock, store, files, operator, stopping, stops,
                   late>>

(* An admission that only asks whether the occurrence still exists. *)
VerdictIgnoringLedger(r) ==
    LET k == mgr[r].key IN
    CASE ~task -> "failed"
      [] task /\ status[k] = "none" -> "lost"
      [] OTHER -> IF ActiveRuns # {} THEN "overlap" ELSE "ready"

(* What the preflight and the admission transaction find out first: the    *)
(* task exists, the occurrence is still claimed by this owner, it has no   *)
(* run yet and no other run of the task is active.                         *)
Verdict(r) ==
    LET k == mgr[r].key IN
    CASE ~task -> "failed"
      [] task /\ status[k] \in {"none", "failed"} -> "lost"
      [] task /\ status[k] = "started" -> "existing"
      [] task /\ status[k] = "skipped" -> "active"
      [] OTHER -> IF owner[k] # r THEN "lost"
                  ELSE IF RunsFor(k) # {} THEN "link"
                  ELSE IF ActiveRuns # {} THEN "overlap"
                  ELSE "ready"

(* The occurrence row after a verdict that settles it without a new run. *)
RecordVerdict(r) ==
    LET k == mgr[r].key IN
    CASE Verdict(r) = "link" ->
           /\ status' = [status EXCEPT ![k] = "started"]
           /\ \E i \in RunsFor(k) : runOf' = [runOf EXCEPT ![k] = i]
      [] Verdict(r) = "overlap" ->
           /\ status' = [status EXCEPT ![k] = "skipped"]
           /\ UNCHANGED runOf
      [] OTHER -> UNCHANGED <<status, runOf>>

(* How the start goes on after a verdict other than "ready".  A run that   *)
(* exists is enqueued again; when that fails the lookup finds the run.     *)
AfterVerdict(r) ==
    \/ /\ Verdict(r) \in {"existing", "link"}
       /\ \/ mgr' = [mgr EXCEPT ![r] = Succeed(@)] /\ UNCHANGED faults
          \/ Fault /\ mgr' = [mgr EXCEPT ![r] = Fail(@, "failed")]
    \/ /\ Verdict(r) \in {"overlap", "active"}
       /\ mgr' = [mgr EXCEPT ![r] = Fail(@, "active")]
       /\ UNCHANGED faults
    \/ /\ Verdict(r) \in {"lost", "failed"}
       /\ mgr' = [mgr EXCEPT ![r] = Fail(@, Verdict(r))]
       /\ UNCHANGED faults

(* PreflightTaskScheduleRunAdmission. *)
Preflight(r) ==
    /\ At(r, "preflight") /\ r \notin cancelled
    /\ \/ /\ Verdict(r) = "ready"
          /\ mgr' = [mgr EXCEPT ![r].pc = "provision"]
          /\ UNCHANGED faults
       \/ AfterVerdict(r)
    /\ RecordVerdict(r)
    /\ UNCHANGED <<clock, task, schedule, created, owner, aged, run, occOf,
                   files, operator, cancelled, stopping, stops,
                   late>>

(* The candidate run gets its id and publishes a managed workspace of its  *)
(* own; a task that works in place has no directory to lose.               *)
Provision(r) ==
    /\ At(r, "provision") /\ r \notin cancelled /\ issued < MaxRuns
    /\ issued' = issued + 1
    /\ dir' = [dir EXCEPT ![issued + 1] = "present"]
    /\ mgr' = [mgr EXCEPT ![r] =
                [@ EXCEPT !.pc = "admit", !.cand = issued + 1,
                          !.published = TRUE]]
    /\ UNCHANGED <<clock, store, operator, cancelled, stopping, bounds>>

(* The admitted run, its provenance and its occurrence. *)
InsertRun(r) ==
    LET k == mgr[r].key
        i == mgr[r].cand IN
    /\ run' = [run EXCEPT ![i] = "active"]
    /\ occOf' = [occOf EXCEPT ![i] = k]
    /\ status' = [status EXCEPT ![k] = "started"]
    /\ runOf' = [runOf EXCEPT ![k] = i]

(* ApplyTaskScheduleRunAdmission.  A commit may be reported as an error;   *)
(* the workspace is given up only to a run that the result shows.          *)
Admit(r) ==
    /\ At(r, "admit") /\ r \notin cancelled
    /\ \/ /\ Verdict(r) = "ready"
          /\ InsertRun(r)
          /\ \/ /\ mgr' = [mgr EXCEPT ![r] = Succeed([@ EXCEPT !.published = FALSE])]
                /\ UNCHANGED faults
             \/ /\ Fault
                /\ \E published \in BOOLEAN :
                     mgr' = [mgr EXCEPT ![r] =
                               Fail([@ EXCEPT !.published = published], "failed")]
       \/ /\ Verdict(r) # "ready"
          /\ RecordVerdict(r)
          /\ AfterVerdict(r)
          /\ UNCHANGED <<run, occOf>>
    /\ UNCHANGED <<clock, task, schedule, created, owner, aged, files, operator,
                   cancelled, stopping, stops,
                   late>>

(* A cleanup that trusts the error of the admission. *)
CleanupUnchecked(r) ==
    /\ At(r, "cleanup")
    /\ dir' = [dir EXCEPT ![mgr[r].cand] = "removed"]
    /\ mgr' = [mgr EXCEPT ![r].pc = IF mgr[r].err = "none" THEN "complete"
                                    ELSE "lookup"]
    /\ UNCHANGED <<clock, store, issued, operator, cancelled, stopping, bounds>>

(* cleanupUnreferencedScheduledWorkspace, on a context of its own: the     *)
(* directory goes unless a durable run refers to it, and stays when the    *)
(* runs cannot be listed.                                                  *)
Cleanup(r) ==
    LET i == mgr[r].cand IN
    /\ At(r, "cleanup")
    /\ \/ /\ dir' = IF run[i] = "none" THEN [dir EXCEPT ![i] = "removed"]
                                       ELSE dir
          /\ UNCHANGED faults
       \/ Fault /\ UNCHANGED dir
    /\ mgr' = [mgr EXCEPT ![r].pc = IF mgr[r].err = "none" THEN "complete"
                                    ELSE "lookup"]
    /\ UNCHANGED <<clock, store, issued, operator, cancelled, stopping, stops,
                   late>>

(* After a failed start: a committed run wins over the error; without one  *)
(* a cancelled dispatch leaves its claim to recovery, a lost claim is      *)
(* somebody else's, and any other error is recorded.                       *)
Lookup(r) ==
    /\ At(r, "lookup")
    /\ \/ \E i \in RunsFor(mgr[r].key) :
            /\ mgr' = [mgr EXCEPT ![r] =
                        [@ EXCEPT !.pc = "complete", !.outcome = "started",
                                  !.linked = i]]
            /\ UNCHANGED <<cancelled, faults>>
       \/ Fault /\ EndDispatch(r)
       \/ /\ RunsFor(mgr[r].key) = {} /\ r \notin cancelled
          /\ mgr[r].err \notin {"lost", "ctx"}
          /\ mgr' = [mgr EXCEPT ![r] =
                      [@ EXCEPT !.pc = "complete",
                                !.outcome = IF mgr[r].err = "active"
                                              THEN "skipped" ELSE "failed"]]
          /\ UNCHANGED <<cancelled, faults>>
       \/ /\ RunsFor(mgr[r].key) = {}
          /\ r \in cancelled \/ mgr[r].err \in {"lost", "ctx"}
          /\ EndDispatch(r) /\ UNCHANGED faults
    /\ UNCHANGED <<clock, store, files, operator, stopping, stops,
                   late>>

(* A completion that does not ask whether the claim is still its own. *)
CompleteAnyClaim(r) ==
    LET k == mgr[r].key IN
    /\ At(r, "complete")
    /\ IF status[k] # "none"
       THEN /\ status' = [status EXCEPT ![k] = mgr[r].outcome]
            /\ runOf' = [runOf EXCEPT ![k] = IF mgr[r].outcome = "started"
                                             THEN mgr[r].linked ELSE 0]
       ELSE UNCHANGED <<status, runOf>>
    /\ EndDispatch(r)
    /\ UNCHANGED <<clock, task, schedule, created, owner, aged, run, occOf,
                   files, operator, stopping, bounds>>

(* completeClaim: CompleteTaskScheduleOccurrence applies to a row that is  *)
(* claimed by this owner; a row that is not is left alone without notice.  *)
Complete(r) ==
    LET k == mgr[r].key IN
    /\ At(r, "complete")
    /\ \/ /\ r \notin cancelled \/ mgr[r].outcome = "started"
          /\ IF status[k] = "claimed" /\ owner[k] = r
             THEN /\ status' = [status EXCEPT ![k] = mgr[r].outcome]
                  /\ runOf' = [runOf EXCEPT ![k] = mgr[r].linked]
             ELSE UNCHANGED <<status, runOf>>
          /\ UNCHANGED faults
       \/ /\ r \in cancelled
          /\ UNCHANGED <<status, runOf, faults>>
       \/ /\ r \notin cancelled /\ Fault
          /\ UNCHANGED <<status, runOf>>
    /\ EndDispatch(r)
    /\ UNCHANGED <<clock, task, schedule, created, owner, aged, run, occOf,
                   files, operator, stopping, stops,
                   late>>

-----------------------------------------------------------------------------
(* The heartbeat of a dispatch. *)

(* RenewTaskScheduleOccurrence. *)
Renew(r) ==
    LET k == mgr[r].key IN
    /\ mgr[r].pc \in Dispatching /\ r \notin cancelled
    /\ status[k] = "claimed" /\ owner[k] = r
    /\ k \in aged \/ \E q \in Replicas : k \in mgr[q].list
    /\ aged' = aged \ {k}
    /\ mgr' = Refreshed(mgr, k)
    /\ UNCHANGED <<clock, task, schedule, created, status, owner, runOf, run,
                   occOf, files, operator, cancelled, stopping, bounds>>

(* The renewal does not apply and the claim was not settled by this owner  *)
(* (claimIsSettled), or it fails: the dispatch is cancelled.               *)
RenewalLost(r) ==
    LET k == mgr[r].key IN
    /\ mgr[r].pc \in Dispatching /\ r \notin cancelled
    /\ \/ /\ status[k] = "none" \/ owner[k] # r
          /\ UNCHANGED faults
       \/ Fault
    /\ cancelled' = cancelled \cup {r}
    /\ UNCHANGED <<clock, store, files, operator, mgr, stopping, stops,
                   late>>

-----------------------------------------------------------------------------
(* Stopping. *)

(* A process that ends takes its owner id with it. *)
Restart(r) ==
    /\ owner' = [k \in Keys |-> IF owner[k] = r THEN Nobody ELSE owner[k]]
    /\ mgr' = [mgr EXCEPT ![r] = Idle]
    /\ cancelled' = cancelled \ {r}
    /\ stopping' = stopping \ {r}
    /\ UNCHANGED <<clock, task, schedule, created, status, runOf, aged, run,
                   occOf, files, operator, faults, late>>

Stop ==
    /\ stops < MaxStops /\ edits + stops + faults < MaxTrouble
    /\ stops' = stops + 1

Crash(r) == Stop /\ Restart(r)

(* Shutdown cancels the loop and waits for it. *)
Shutdown(r) ==
    /\ Stop /\ r \notin stopping
    /\ stopping' = stopping \cup {r}
    /\ cancelled' = cancelled \cup {r}
    /\ UNCHANGED <<clock, store, files, operator, mgr, faults, late>>

(* Every further call of a pass fails once its context is cancelled. *)
Abandon(r) ==
    /\ r \in stopping /\ mgr[r].pc \in {"recover", "reclaim", "due"}
    /\ mgr' = [mgr EXCEPT ![r] = Idle]
    /\ UNCHANGED <<clock, store, files, operator, cancelled, stopping, bounds>>

Exit(r) == r \in stopping /\ At(r, "idle") /\ Restart(r) /\ UNCHANGED stops

-----------------------------------------------------------------------------
Step(r) ==
    \/ \E k \in Keys : InspectStale(r, k)
    \/ Reclaim(r) \/ ReclaimMissed(r) \/ ListDue(r) \/ Claim(r)
    \/ GetTask(r) \/ Preflight(r) \/ Provision(r) \/ Admit(r) \/ Cleanup(r)
    \/ Lookup(r) \/ Complete(r) \/ CallCancelled(r) \/ CallFails(r)
    \/ Abandon(r) \/ Exit(r)

Next ==
    \/ Tick
    \/ \E k \in Keys : Age(k)
    \/ \E r \in Replicas, kind \in Kinds, enabled \in BOOLEAN :
         UpsertRead(r, kind, enabled)
    \/ UpsertSwap
    \/ \E r \in Replicas : UpsertRetry(r)
    \/ DeleteTaskSchedule \/ DeleteTask
    \/ StartManually
    \/ \E i \in RunIds : FinishRun(i)
    \/ \E r \in Replicas : \/ BeginPass(r) \/ Step(r)
                           \/ Renew(r) \/ RenewalLost(r)
                           \/ Crash(r) \/ Shutdown(r)

Spec == Init /\ [][Next]_vars

(* Each manager's loop and the current API call go on, and a claim nobody  *)
(* renews gets old.  Operators, failures and runs owe nothing.             *)
FairSpec ==
    /\ Spec
    /\ \A r \in Replicas : WF_vars(BeginPass(r)) /\ WF_vars(Step(r))
    /\ \A k \in Keys : WF_vars(Age(k))
    /\ WF_vars(Tick)

-----------------------------------------------------------------------------
(* Properties. *)

(* The type invariant. *)
ManagerStates ==
    [pc : {"idle", "recover", "reclaim", "due"} \cup Dispatching,
     now : 0..MaxTime, list : SUBSET Keys, due : {NoSchedule} \cup ScheduleRows,
     phase : {"recover", "due"}, key : Keys \cup {NoKey},
     cand : 0..MaxRuns, published : BOOLEAN,
     err : {"none", "ctx", "lost", "active", "failed"},
     outcome : Settled, linked : 0..MaxRuns]

TypeOK ==
    /\ clock \in 0..MaxTime /\ task \in BOOLEAN
    /\ schedule \in {NoSchedule} \cup ScheduleRows
    /\ created \in 0..MaxSchedules
    /\ status \in [Keys -> {"none", "claimed"} \cup Settled]
    /\ owner \in [Keys -> Replicas \cup {Nobody}]
    /\ runOf \in [Keys -> 0..MaxRuns]
    /\ aged \subseteq Keys
    /\ run \in [RunIds -> {"none", "active", "terminal"}]
    /\ occOf \in [RunIds -> Keys \cup {NoKey}]
    /\ issued \in 0..MaxRuns
    /\ dir \in [RunIds -> {"none", "present", "removed"}]
    /\ edit \in [pc : {"idle", "swap"}, s : {NoSchedule} \cup ScheduleRows,
                 expected : Nat]
    /\ mgr \in [Replicas -> ManagerStates]
    /\ cancelled \subseteq Replicas /\ stopping \subseteq Replicas
    /\ edits \in Nat /\ stops \in Nat /\ faults \in Nat /\ late \in Nat

(* The occurrence ledger tells the truth about runs: a started occurrence  *)
(* has exactly one run, the one it names; an occurrence that is claimed,   *)
(* skipped or failed has none; and no occurrence is started twice, even    *)
(* when its row is deleted under a dispatcher.  Claims are taken over from *)
(* dispatchers that are still working, commits are reported as errors, and *)
(* processes die between the steps of a start.                             *)
LedgerMatchesRuns ==
    \A k \in Keys :
      \/ status[k] = "none" /\ Cardinality(RunsFor(k)) <= 1
      \/ status[k] = "started" /\ RunsFor(k) = {runOf[k]}
      \/ status[k] \in {"claimed", "skipped", "failed"} /\ RunsFor(k) = {}

(* The time an enabled schedule is armed for has not been consumed, so     *)
(* that a claim of it can succeed: an edit cannot restore an occurrence    *)
(* that a claim consumed between the edit's read and its write.            *)
ArmedTimeIsFresh ==
    (schedule # NoSchedule /\ schedule.enabled /\ schedule.next <= MaxTime) =>
       status[KeyOf(schedule)] = "none"

(* A run keeps the workspace its candidate published, whatever its start   *)
(* was told about the commit.                                              *)
RunKeepsWorkspace ==
    \A i \in RunIds : run[i] # "none" => dir[i] # "removed"

(* A settled occurrence is history: recovery, late completions and         *)
(* displaced dispatchers never change it; only deletion removes it.        *)
SettledIsFinal ==
    [][\A k \in Keys :
         status[k] \in Settled => \/ status'[k] = "none"
                                  \/ /\ status'[k] = status[k]
                                     /\ runOf'[k] = runOf[k]]_vars

Armed(i, t) ==
    schedule # NoSchedule /\ schedule.enabled /\ KeyOf(schedule) = <<i, t>>

(* A due schedule is claimed or changed in the end, and every claim is     *)
(* settled or deleted in the end, through crashes, shutdowns, late         *)
(* heartbeats and failing calls.                                           *)
TriggersSettle ==
    \A i \in 1..MaxSchedules, t \in 1..MaxTime :
      /\ (Armed(i, t) /\ t <= clock) ~> ~Armed(i, t)
      /\ status[<<i, t>>] = "claimed" ~> status[<<i, t>>] # "claimed"

=============================================================================
