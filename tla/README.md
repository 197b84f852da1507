# Hecate: specifications, model checks and proofs

TLA+ modules for the parts of Hecate whose correctness depends on the order of
events: task runs and their queue, task schedules, the agent loop and its
checkpoints, the gates that guard deletions and discards, the lifecycle of chat
sessions, and the approvals and sessions of external agents. Each module is
translated from the Go code and model-checked on small instances with TLC; the
central ones are proved with TLAPS for instances of any size.

- [The system](#the-system): components, state, interactions, hard behaviours
- [Modules](#modules): what each one models, and how it corresponds to the code
- [Runs](#runs): what is checked, with which bounds and which fairness
- [Findings](#findings): where the code does not do what its documents say, and
  other deviations the models know of
- [Proofs](#proofs): what holds for every instance, and why
- [Not modelled](#not-modelled) and [Plan](#plan)

`PROJECT.json` holds the details: the source lines behind every definition, the
properties of every run, a defective variant (mutant) of the code for every
property, the hazards the properties are aimed at, and the list of theorems.

To repeat a check: `tlc -config RunRuntime_single.cfg MCRunRuntime` and
`tlapm OriginGate_proofs.tla`, in this directory.

## The system

Hecate is a Go gateway with three layers of its own logic above its providers:
a **task runtime** that queues and executes agent runs, a **chat** layer that
runs turns of Hecate and external agents in sessions, and **coordination**
registries that keep the two from destroying each other's work. One process
serves HTTP and runs queue workers; several processes (replicas) may share one
SQL database.

| Component | State | Operations | Hard because |
| --- | --- | --- | --- |
| Task run store, `taskstate` | tasks, runs, approvals, events (SQL rows or memory) | start transition, state transition (compare-and-swap on the status), terminal transition (first terminal status wins), `UpdateRun` (unconditional) | shared by replicas; several writers per run |
| Run queue, `orchestrator/queue_sqlite.go` | one row per run with a lease | `Enqueue`, `Claim`, `Ack`, `ExtendLease` | leases lapse; calls fail after they were applied |
| Queue coordinator, `orchestrator/runner_queue*.go` | claimed jobs with their contexts, retry tables | worker loop, heartbeat, boot and periodic reconciliation, shutdown | crash and restart at any step; scans work on old snapshots |
| Runner, `orchestrator/runner*.go` | none of its own | start, cancel with drain, execute, settle | cancellation races with start, execution and approval |
| Approvals, `runner_approvals.go` | approval rows | create, approve, reject, cancel with the run | resolved while a worker is still parking the run |
| Origin gate, `taskruncoord` | admissions, closures, tombstones, validators | `Begin`, `Close`, `Commit`, `Release`, `SetValidator` | a run may be created while its owner is deleted |
| Workspace registry, `workspacecoord` | writer leases and closures per path | `AcquireWriter`, `WaitWriter`, `TryClose`, `Release` | overlapping paths; wake-ups |
| Workspace discard, `api/handler_chat_files.go` | none of its own | review, close, re-read, scan owners, apply | acts on what was read before |
| Chat lifecycle, `api/chat_live.go` | epochs, operations, snapshots, closures, turns | snapshots, `registerTurn`, counted operations, exclusive mutations, closures, cancel, shutdown | snapshot validity across entries that are reaped and made again |
| Schedules, `taskschedule`, `taskstate/schedule_sql.go` | a schedule per task, occurrences with claims | upsert, delete, claim, reclaim, admit, complete, renew | claims expire while a dispatcher works; commits are reported as errors |
| Agent loop, `orchestrator/executor_agent_loop*.go`, `runner_io.go` | steps, conversation artifacts and approvals of a run | hydrate, recover, call the model, gate, dispatch, settle; resume, continue, retry from a model call | a crash between any two writes, across a tree of runs |
| External approvals, `agentadapters/approvals*.go` | approval rows, grants, waiters | request, resolve, cancel, delete a grant, reconcile | timers, operators and restarts race for one row |
| External sessions, `agentadapters/session_manager.go` | installed sessions, starts in progress, turns | run, prepare, replace, close, configure, shutdown | starts and closes overlap; a native conversation is lost |
| Chat store and application | sessions, messages, requests, attachments | append, claim, settle, reconcile | idempotent requests, interrupted turns |
| Gateway, router, governor, providers | health, usage, registry | one request each | mostly sequential |
| The rest | | | I/O, pure functions and plain CRUD; `PROJECT.json` lists every part |

How they meet:

- A start, a claim or a requeue of a run asks the **origin gate** for admission.
  Deleting a chat closes the gate for its origin, cancels its runs, deletes the
  session and commits the deletion (`handler_chat.go`, `taskapp`).
- Runs and external-agent turns hold a **writer lease** while they make
  themselves known in a store; terminals and file editors hold one while they
  write. A **discard** closes the session's lifecycle and the workspace, and then
  reads the durable owners.
- Delete, close, idle sweep and discard **close the lifecycle** of a session and
  wait for the operations and the turn that were admitted before.
- A **schedule** that is due is claimed by the manager of one replica, which starts
  a run through the runner; the admission and the occurrence are one transaction.
- A worker executes a run through the **agent loop**, whose stored steps and
  conversation are what a later worker, or a run resumed from this one, starts from.
- An **external agent** runs in a session of the session manager; its permission
  requests wait in the approvals coordinator for the operator's HTTP calls.
- The worker loop, the API and reconciliation meet only in the store and the
  queue; inside a process also in the coordinator's table of jobs.

What makes each part correct, in a sentence: a run has one executor, ends once,
is reported once and is never executed without a required approval; nothing
queued is forgotten and every cancellation reaches its executor; a deleted owner
has no live run; a discard destroys nothing that was not reviewed and nobody
works on; admitted chat work uses a session nobody changed behind its back, and
destructive work is alone; a due time starts one run and the ledger of occurrences
says which; a tool call takes effect once and, if it is gated, only with an
approval; an external agent is told what the store records and is allowed only
what the operator approved; no adapter process is left behind.

## Modules

| Module | Models | Instance | Proofs |
| --- | --- | --- | --- |
| `OriginGate` | `taskruncoord/origin_gate.go` and its callers | `MCOriginGate` | `OriginGate_proofs` |
| `RunRuntime` | run store, queue, workers, reconciliation, approvals, cancellation | `MCRunRuntime` | `RunRuntime_proofs` |
| `RunLifecycle` | the abstract life cycle of a run, which `RunRuntime` implements | | in `RunRuntime_proofs` |
| `WorkspaceCoord` | `workspacecoord/registry.go`, discard, owner scan | `MCWorkspaceCoord` | `WorkspaceCoord_proofs` |
| `ChatLifecycle` | `api/chat_live.go` and the handlers that use it | `MCChatLifecycle` | `ChatLifecycle_proofs` |
| `TaskSchedules` | `taskschedule`, the schedule store, the scheduled admission of a run | `MCTaskSchedules` | `TaskSchedules_proofs` |
| `AgentLoop` | the agent loop executor, its checkpoints and recovery | `MCAgentLoop` | `AgentLoop_proofs`, with the invariant in `AgentLoop_invariant` |
| `ExternalApprovals` | `agentadapters/approvals*.go` | `MCExternalApprovals` | `ExternalApprovals_proofs` |
| `ExternalSessions` | `agentadapters/session_manager.go`, `acp_session_lifecycle.go` | `MCExternalSessions` | `ExternalSessions_proofs` |

One convention is common to all: an operator that stands directly above a
definition, with the same parameters and a name that says what is wrong (for
example `ReapIgnoringSnapshots` above `Reap`), is a plausible defect of that
definition. No specification uses it. `PROJECT.json` pairs it with the property
that detects it, so that every property is known to be able to fail.

### OriginGate

Variables are the fields of `originState` per origin (admissions, closures,
tombstone), the installed validators, and the durable facts the gate protects:
whether the owner exists and whether it has a live run. Mutators go through
`Begin` (counted under the mutex), `Validate` (after the unlock), their write, and
`Release`. Deleters go through `Close` (a wait loop on the changed channel:
`CloseRecheck`), cancelling the runs, deleting the owner, and `Commit` or
`Release`. `Notify` is the replacement of the changed channel, `Prune` the removal
of idle state, `Crash` the loss of all of it.

### RunRuntime

The largest module. `run`, `taskRun`, `taskStatus`, `terminalEvents`, `apprRun`
and `apprStatus` are rows of the store; `row` is the queue; `pc`, `job`,
`holders`, `result` and `cancelled` describe a worker (`processQueue`), `holders`
being the workers whose claim id is still the one in the row; `phase`, `todo`,
`step`, `cur`, `fullRetry` and `pend` are the reconciler of a process; `apiOwes`,
`approving`, `updating`, `drain` and `waits` are API calls in progress. A step is
one store transaction, one queue statement or one critical section.

- *Starts*: ungated, gated by hand in three writes (`StartGated`,
  `CreateStartApproval`, `UpdateStartedRun`), and gated by a schedule in one.
- *Workers*: claim, load, register, start (with the origin gate's answer),
  execute, and then park, settle or fail, acknowledge, end the job.
- *Cancellation*: the store first, then the signal to the jobs of this process,
  then the wait for them and the cleanup of late approvals.
- *Reconciliation*: at boot, in full, of remembered retries, and of stale runs.
- *Failures*: crash, shutdown, lapse of a lease, a failed call (before or after it
  took effect, `EnqueueAmbiguous`), an origin that refuses.

Abstractions. The pages of a reconciliation are one snapshot, whose entries are
handled one by one. The order of claims is open. `LapseLive` says whether a lease
can lapse under a live worker, which the heartbeat prevents unless it fails for a
whole lease. Steps, artifacts, costs, prompts and events other than terminal ones
are left out, as are `Nack` (the runtime never calls it) and the replay of a
scheduled start.

### RunLifecycle

What a client may rely on: a run is admitted only while its task has no live run,
moves between queued, running and waiting, and ends once with one terminal event.
`RunRuntime` implements it under the mapping `status <- run`,
`events <- terminalEvents` (`LifecycleSpec`).

### WorkspaceCoord

Keys are sequences of path elements and overlap when one is a prefix of the other,
as in `CanonicalKeysOverlap`. The state of an absent entry is that of zero
counters. Writers acquire or wait, write, make an owner active, and release;
discards go from the review of a diff to the request, the two closures, the
re-read of the session, the scan of owners one at a time (runs before sessions),
the capture of the diff and the apply. The revision counter stands for the hash of
the diff. Any return of the handler after `TryClose` is `ReleaseExclusive`.

Turns of *other* Hecate sessions are exempt from `NoDiscardUnderWork`: their first
writes take no lease; the runs they start are owners like any other. Editors
outside Hecate are outside the model. A waiting writer can starve if discards
close its workspace again and again; nothing in the code prevents that, and no
property claims the contrary.

### ChatLifecycle

`known`, `epoch`, `closures`, `operations`, `snapshots` and `token` are an entry of
`lifecycles`; `turn`, `mutating` and `admissionClosed` the other maps of
`agentChatLive`. Requests take a snapshot, read the session, and then register a
turn, run counted operations, or run an exclusive settings mutation; a direct
operation (attachment content, detached settlement) reads nothing first. Closers
(delete, close, idle sweep, discard) close the lifecycle, take the destructive
token, wait for the drain, cancel the turn or refuse to run beside it, change or
delete the session, and release. Reaping deletes the entry, and its epoch and its
token channel with it: `bound` says whose token belongs to the present channel.
`reset` and `overtaken` record what happened to a session after a request read it.

Marking a turn's reason and calling its `cancel` are one step. Left out: the
subscribers of a session, and the settlement owner that lets a closer settle
terminal callbacks itself (`admitsSettlement`).

### TaskSchedules

One task with at most one schedule, whose id is not used again after a deletion.
`schedule` is its row with its revision; `status`, `owner`, `runOf` and `aged` are
the occurrence rows, keyed by schedule and time; `run` and `occOf` the runs with
their provenance; `dir` the managed workspaces. An edit (`Upsert`) reads and then
swaps by revision, and tries again when it lost. A manager's pass (`mgr`) recovers
the stale claims it listed, claims one due occurrence, and dispatches it: task,
preflight, workspace, admission, cleanup of a workspace nobody refers to, lookup
of a run that was committed after all, completion. The heartbeat renews the claim
or cancels the dispatch.

Time counts cron periods, and a cron expression is "the first period after t".
The age of a claim is one bit, "not renewed for `claimTTL`" (`Age`). Replicas may
disagree on the time (`Ahead`); see the deviations below. `MaxTime` bounds the
clock of every replica, so that an occurrence always has a key. A run finishes at
any time, which is what `RunRuntime` is about.

### AgentLoop

A tree of runs, each started from one that has ended by resume, continue or retry
from a model call. The code asks only that the source has ended and that no run of the
task is active, so an older run can be taken over again after a newer one; the constant
`Parent` says which run is started from which, and `Line(r)` is r and the runs it goes
back to. A resume may raise the cost ceiling of the task. `run`, `conv`, `steps`
and `appr` are what the store keeps of a run; `ex` is the executor working on it:
hydration of the checkpoint (`ClaimRun`), the conversion of dispatches it inherits
or finds interrupted into results, the ceiling and the call limit, the approval
gate, the model call with its partial answers, then for each tool call the intent,
the effect, the outcome and the result.
Conversations are sequences of messages with roles, calls and results, because
recovery is about which result is missing; texts, tools and costs per token are
left out. The calls a worker still has to deal with are sets of positions in the
batch, taken in their order with `Min`. A step is one store write, one provider call or one tool effect. A crash
may come between any two; the run is queued again and claimed.

A cancellation is two steps: `CancelRun` stores the terminal status and settles the
approvals (`runner.go:1352`), `cancelInFlightJob` cancels the context of the executor
afterwards (`runner.go:1360`), or never, as when the executor is in another process.
In between the executor goes on, and its step and artifact writes do not look at the
status of the run. `LateSignal` says whether a run may be started from the cancelled one
in that window. The passing run has `FALSE`: a run is taken over once its executor has
left or was signalled (`Stopped`; a signalled executor may still perform the call it
holds). The code does not ensure this; see *Late signal* below.

`NoReplay` and `SupersededNeverRan` are stated along a line of runs, since two runs that
are started from one source each take over the calls it left pending; see *Second
takeover* below. `GatedNeedsApproval` and `ConversationWellFormed` need neither
restriction.

One worker executes a run (shown in `RunRuntime`). A crash ends all executors of the
task. The store is SQL: a write under a cancelled context fails.

### ExternalApprovals

`row` and `grants` are the stored approvals and grants; `pc`, `plan`, `ctxDone` and
`waiter` a `RequestPermission` in progress; `call` the operator's `Resolve` and
`Cancel`. A request is stored, answered by a grant or by the mode, or waits for the
first of a response, its timer and its context. An operator's call reads the row,
updates it on condition that it is pending, stores a grant, wakes the waiter and
runs the hook. Both stores are modelled: a SQL call fails once its context has
ended and may fail before or after it took effect; the memory store forgets
everything at a restart. Options are named by their ACP kind. `authority` and
`acked` record what the operator approved and which calls returned.

Grants made by `Resolve` never expire, so expiry is left out, as is retention.

### ExternalSessions

One chat session. `installed`, `start` and `closed` are the manager's maps and flag;
`peer` is an adapter process with its turn, turn lock and close admission; `durable`
is the native session id the chat keeps. Calls are `Run`, `Prepare`, the close of a
session (`take`), a managed configuration change and `Shutdown`; `Run` shares a
start, checks that its session is current under the turn lock, prompts, and
replaces a session whose native conversation the agent has lost if no turn has
succeeded yet. Starts fail, contexts end, and a drain may run out of time. The chat
keeps the first native id it was told until a replacement is persisted.

Two outcomes are left out. A persist of a replacement that commits and still reports an
error (`session_manager.go:476`) puts the stale session back while the chat keeps the
new native id. A `Close` of a peer that times out (`acp_peer.go:188`) is modelled as the
end of the process, which its detached goroutine is then still killing; `NoOrphanPeer`
and `ShutdownStopsTurns` count such a process as ended.

`ShutdownStopsTurns` allows one turn after an error-free `Shutdown`: a close that
gave up waiting for the turn removes the session from the manager's map, so
`Shutdown` neither sees the session nor reports it; the turn is then cancelled and
its process ended. The statement needs that case as soon as a close and a shutdown
meet, so the run has two calls that may end the session.

## Runs

| Run | Bounds | Shows |
| --- | --- | --- |
| `origin_gate` | 2 mutators, 2 deleters, 2 origins (one with a validator), 1 restart | closures exclude admissions, no wake-up is lost, no live run outlives its owner; every waiting `Close` returns |
| `run_replicas` | 2 replicas with a worker each, 1 run, 1 approval, 1 stop | one executor per run, parked runs idle, terminal statuses final, `RunLifecycle` implemented |
| `run_single` | 1 process, 2 workers, 2 runs of one task, 1 approval, every outcome and verdict | the task row follows the run started last, a cancelled run's executor is signalled, no approval of an ended run stays pending |
| `run_gated` | 1 process, 2 workers, 1 run, 2 approvals, leases may lapse, 1 stop or failed call | nothing is executed without an approval |
| `run_failure_liveness` | 1 process, 2 workers, 1 run, 1 stop or failed call | runs settle, cancellations return |
| `workspace` | 2 writers, 2 discards, a repository, a directory in it and a sibling, 3 owners, 1 revision, 1 restart | closures are exclusive, wake-ups kept, a discard meets no work and reverses what was reviewed |
| `chat_lifecycle` | 1 session, 2 requests, 2 closers, epochs up to 5 | destruction alone, admitted work current, shutdown reaches every turn, entries reaped; every closer gets through |
| `task_schedules` | 2 replicas, 1 schedule, 2 periods, 2 runs, 1 edit, stop or fault, 1 late heartbeat | the ledger of occurrences tells the truth about runs, an armed time is not a consumed one, runs keep their workspaces, settled occurrences do not change; due times and claims settle |
| `agent_loop` | 3 runs, two of them started from the first, 2 answers of the model with batches of one free call or of a free and a gated one, 2 model calls, no ceiling and one of 1 that a resume sets, 1 approval per run, 1 crash, 1 failed write, 1 cancellation, two of these three at most, and none of them once the second answer has come | a call takes effect once on a line of runs and, if gated, approved in its own run; conversations stay well-formed; a superseded call never ran on that line |
| `agent_replay` | 2 runs, 1 ungated call, 2 crashes | the finding below |
| `external_approvals` | 2 requests of two sessions in one workspace, 2 operator calls, 3 scopes, 4 configurations (prompt and auto on SQL, deny and an unknown mode in memory), 1 fault or restart | a decision reaches its waiter, the agent hears what the store records, one announcement, nothing allowed without the operator |
| `external_sessions` | 3 calls (one that uses the session, one that uses or closes it, one that ends it), 2 adapter processes, 1 lost conversation, both native scopes | no orphaned process, no prompt to a superseded session, no turn on a live process after shutdown, every wait is backed |

Why the bounds are enough for what they are meant to show. The protocols treat
runs, origins and sessions independently, except where two runs compete for one
task (`run_single` has two) and where paths overlap (`workspace` has three keys in
the three possible relations). Races are between two parties, and each kind of
party is there twice. Stops, faults and epochs are bounded, but processes restart
and reap their entries, so behaviours are not cut off after one failure: `Reap`
sets an epoch back to 0, and 5 lets two closures and a mutation happen within one
entry. In the schedules `MaxTrouble` bounds edits, stops and faults together, and
`MaxLate` the heartbeats that come too late: the code renews at a third of
`claimTTL`, so a live dispatcher loses its claim only exceptionally, but it does
lose it in the run. In the agent loop one crash suffices for a recovery and one
child for an inheritance; with both, a recovery of a run that inherits is reached. The
second child is the second takeover of an older run. Its two branches are alike, so the
lower one starts first (`LowerFirst`). Longer lines, more crashes and other trees are
left to the theorems. A resume sets the ceiling; continuing and retrying keep it, so
both occur. `ReplayWindow = FALSE` excludes crashes in exactly the window of the
finding (`CrashSafe`); `agent_replay` admits them. In the approvals the second
operator call resolves what the first one, a timer or a grant has already decided.
The configurations left out (prompting in memory is one) are covered by the proofs.
In the sessions three calls are the least in which one starts, one waits for the
start and one closes. Where it matters more, the theorems below remove the bound.

`MaxFailures` bounds stops and faults together. It is 1 in the liveness run:
a crash *and* a failed call together reach the lost wake-up listed below,
so `RunsSettle` is what the code achieves under one failure.

Three things the bounds leave to the proofs or to the list of deviations. No run has a
gated start by hand, so `TerminalIsFinal` is not tried against the *stale update* listed
below. `run_replicas` keeps the leases of live workers; that `LifecycleSpec` holds when
they lapse is shown by `RuntimeImplementsLifecycle` only. `task_schedules` has one edit
and does not reach one that lost its swap to a claim and is computed again; that is
`ArmedTimesFresh`. In `run_single`
leases do not lapse: a worker that lost its lease while another executes the run
is not signalled by a cancellation that finds only the newer job.

Symmetry is used only in runs without liveness (replicas with their workers, runs,
writers and discards), where the sets are exchangeable in the specification and in
the properties.

**Fairness.** *Gate*: an admitted caller releases its lease (deferred calls), a
woken waiter runs. *Runtime*: goroutines run (weak fairness of worker and
reconciler steps, of the API calls in progress and of boot after a stop); the
periodic tick finds a run old enough again and again, and a run whose row stays
claimable again and again is claimed (strong fairness; the queue serves the oldest
row first). Executors return. No fairness for approvals, cancellations, starts,
crashes or faults. *Chat*: turns, operations and mutations end (they run under
contexts with deadlines, or are cancelled); a closer that can take its next step
does; strong fairness of `TakeToken`, because Go serves the waiters of a channel
in order. That a closer's own deadline passes
is possible and never assumed. *Schedules*: each manager's loop and its current
pass go on, time goes on, and a claim that nobody renews gets old. Nothing is
assumed of operators, runs and failures.

Deadlock is checked in every run of the first eight. In the runs of `AgentLoop`,
`ExternalApprovals` and `ExternalSessions` it is not: the calls of the environment
are bounded and each is made once, so that the system comes to rest when they are
all answered.

## Findings

One run is expected to fail.

`agent_replay`: a run resumed from another one takes over its ungated pending calls
and dispatches them before it has a conversation artifact of its own. If the worker
crashes after the effect, `ownRunResumeCheckpoint` finds no artifact, recovery
hydrates the *source* run with the source's dispatch steps only, and the call is
dispatched again (`runner_io.go:318`). `executor_agent_loop.go:572-574`: "a worker
crash after this point must fail closed rather than replay."

Other places where the code does less than its documents or comments say. Each can
be reproduced with the constants given; the passing runs exclude them by the
constants named in the table above.

- *Stale update.* A gated start writes its own copy of the run after a cancellation,
  with no check of the status (`runner.go:1179`): the cancelled run waits for
  approval again, against `taskstate/store.go:374`, "The first terminal status is
  authoritative." `RunRuntime` with one process and `StartModes = {"gated"}` violates
  `TerminalIsFinal`.
- *Lost wake-up.* An approval between the park of a run and the acknowledgement of
  its claim enqueues nothing, since the row still exists, and the acknowledgement
  deletes the row (`queue_sqlite.go:88`): the run stays queued until a restart.
  `FairSpec` with one process, `StartModes = {"ungated"}` and
  `Outcomes = {"completed", "awaiting_approval"}` violates `QueuedRunsProceed`.
- *Stale scan.* The periodic scan protects only jobs of its own process and goes by
  the age of the run, so it puts back to queued what another replica is executing
  (`runner_queue_coordinator.go:350`), against the comment at 193-195. Two replicas
  violate `StaleScanSparesLiveRuns`.
- *Boot retry.* A boot enqueue that failed after it was applied is retried as a
  requeue and rewrites a running run to queued (`runner_queue_coordinator.go:169`),
  against the comment at 284-288. One process with a fault violates
  `RetrySparesLiveRuns`.
- *Clock skew.* `Upsert` arms the next time by the clock of the replica that serves
  it; one whose clock is behind can arm a time that a replica ahead of it has
  consumed, and the schedule then never fires. `TaskSchedules` with
  `Ahead <- SkewedClock` and `MaxTime = 2` violates `ArmedTimeIsFresh`.
- *Late signal.* A cancellation stores the terminal status before it signals the
  executor (`runner.go:1352-1360`), deliberately, and an executor in another process is
  not signalled at all. A run started from the cancelled one in between reads its steps;
  the old executor then stores an intent and dispatches a call that the new run
  dispatches too, or reports as superseded. `AgentLoop` with `Parent <- Chain`,
  `Answers <- FreeAnswers`, one cancellation and `LateSignal = TRUE` violates `NoReplay`
  and `SupersededNeverRan`, against `executor_agent_loop.go:572-574`.
- *Second takeover.* Nothing requires that a run is resumed or continued once, or that
  it is the latest (`runner.go:851-857`, `taskapp/application.go:720-792`). Only the
  steps of the source are consulted, so a second run started from it dispatches again
  what the first one has dispatched, or reports as superseded a call that ran there.
  With `Parent <- Branches`, one failed write and one cancellation both statements are
  violated if their restriction to a line (`e.run \in Line(f.run)`, and the last
  conjunct of `SupersededNeverRan`) is dropped. `docs/runtime/agent-runtime.md:111-114`
  promises that a call is never replayed *automatically*; no document speaks of an
  operator who takes a run over twice.
- *Lost accounting.* When a store write of the agent loop fails, the run is failed
  without its accounting (`runner.go:920`), and a run resumed from it inherits a cost
  that misses model calls already paid; `docs/runtime/runtime-api.md:655` says that
  the ceiling holds across the full chain.

## Proofs

The theorems hold for all sets of tasks, runs, processes, workers, approvals,
origins, callers, workspaces, sessions, requests, closers and replicas (finite where
they are counted) and for every value of the bounds. The assumptions on constants
are the `ASSUME`s of the modules; a theorem that needs more says so.

**OriginGate_proofs.** `GateInv` is inductive. Beyond the properties it needs to
say why a deletion sticks (`DeletionRemembered`: a tombstone, a validator, or the
closure of the deleter that is about to commit), that an admitted mutator's owner
exists, and that a drained origin has no live run. From it: `ClosureExclusion`,
`ExactRefcounts`, `WakeupsNotLost`, `NoOrphanRuns`.

**RunRuntime_proofs.** `TypeCorrect`. `TypeOK` is not inductive by itself: starting
the workers of a process is type-correct only because none of them carries a run
while the process boots (`WorkersOff`). For the store: whatever names a run names one
that exists (`KnownInv`), so every step of the system makes at most one move of one
run, from a short list (`RunSteps`). Everything about the store follows from that
list: `StoreConsistency` (one active run per task, the task row mirrors the latest
run, one terminal event per end), `FirstTerminalStatusWins`, and
`RuntimeImplementsLifecycle`. These three assume `"gated" \notin StartModes`: the start in three writes is the stale update
listed above and does break them. Leases may lapse.

The second half is about executors. `LeaseInv` says which workers hold a lease, and that a
worker between its claim and its acknowledgement does, so that a run has one of them
(`SoleClaim`). `SingleExecution` and `ParkedRunsAreIdle` assume `LapseLive = FALSE`;
without it the queue gives the row to a second worker while the first still
executes, which is what a lease means. `ParkedRunsAreIdle` also excludes gated starts
by hand. `ApprovalPrecedesExecution` assumes that every start is gated
(`"ungated" \notin StartModes`), since an ungated run needs no approval; its
invariant says that a queued or running run, and the run of every executor, was
approved, whatever lapses or fails.

Two theorems are about cancellation, in one process (`OneProcess`), because a
cancellation signals the jobs of its own process only, and with
`LapseLive = FALSE`. `CancellationsReachExecutors` needs nothing else: its property
is inductive once claims are exclusive, and faults, crashes and gated starts are
included. `PendingApprovalsSettled` also excludes gated starts by hand, failed calls
and stops: a cancellation whose caller gives up, or whose process dies, does abandon
the approval. Its invariant has two parts. An executor whose run has ended was
cancelled, and a drain waits for it or is about to (`AwaitedInv`). A pending approval
belongs to a parked run, to the executor that is about to park its run, or to a
cancellation under way, and a run that goes on has one at most (`PendingInv`); without
the last clause an approval of one of two would leave the other behind.

**WorkspaceCoord_proofs.** `CoordInv` adds to the properties that what a discard
has re-read stays true while it holds its closures (`ScanStaysTrue`): its own
session stays idle, and an owner it has seen idle cannot become active, because
that takes a writer lease in an overlapping workspace. From it: `ClosureExclusive`,
`ExactLeases`, `WriterWakeups`, `DiscardSparesWork`, `DiscardIsReviewed`.

**ExternalApprovals_proofs.** `ApprovalsInv` is inductive, for every offer of
options, both stores and every mode. It says that a call that has resolved its
approval is the only one and that the row still says what it decided
(`CallsOwnTheirRows`); that a response in a channel is that of a resolved row
(`ResponsesFromRows`); that a grant that allows is backed by a standing approval,
the one a call is about to store included, which nobody can have deleted because
the times of calls are unique (`GrantsAuthorized`, `AllowsAuthorized`); and that a
resolution that was acknowledged has left a row for the request to read again
(`AcksLeaveRows`), without which a decision made before the waiter is registered
would be lost. From it: `AnnouncedOnce`, `AgentHearsTheRow`,
`DecisionsAreDelivered`, `NothingAllowedUnasked`.

**ChatLifecycle_proofs.** `LifecycleInv` is inductive, for any number of sessions and
finite sets of requests and closers. It says that every counter of an entry is the
number of those it counts (`Counted`; the lemmas on cardinalities serve this), that
an entry lives and its epoch only grows while a snapshot of it is not released
(`SnapshotsHeld`), that the destructive token of an entry has one owner, also while it
is being returned (`TokenOwned`), that a closer told of the drain is right and stays
right because its closure keeps new operations out (`DrainedIsQuiet`), and that a
snapshot that was overtaken is no longer current, or will not be before anybody is
admitted (`StaleSnapshots`). The last clause is the reason why reaping an entry, which
restarts its epoch, is safe. From it: `TypeCorrect`, `DestructionAlone`,
`AdmittedCurrentWork`, `ShutdownReaches`, `EntriesReaped`.

**TaskSchedules_proofs.** `ScheduleInv` is inductive, for any replicas, with clocks
that disagree. Its core is `ManagersOK`, which says per step of a pass what the
manager still knows: that the occurrence in its hands cannot be claimed again
(`Spent`: the row exists, or its schedule and id are gone), that its candidate is no
run but the one it committed, and what its outcome may be. With `FreshIds`,
`CandidatesDistinct` and `RowsOfSchedule` it makes the ledger inductive. From it:
`TypeCorrect`, `LedgerTellsTheTruth`, `WorkspaceKept`, and the action property
`SettledStays`. `ArmedTimesFresh` assumes `ClocksAgree`, which the code does not
ensure (see *Clock skew* above); its second invariant, `PastIsConsumed`, says that
consumed times are past and that the schedule, and every edit whose swap could still
succeed, is armed strictly later.

**ExternalSessions_proofs.** For any number of calls, adapter processes and lost
conversations. First `Shape`: what the record of a call holds at each of its steps.
A lemma per action then states its effect on the call, on those that wait for it, on
the manager and on the sessions (`SessionEffect` to `ReturnEffect`), and the invariants
are proved from these effects alone. `StartReserved` gives the reserved start to the
one call in a phase that owns it; `WaitInv`, that a call waits for a start that will
wake it; `FreshInv` and `TodoInv`, that a started session belongs to its starter and
that only launched sessions are closed; `LockInv`, that a turn lock is held by the call
in its turn; `InstalledInv`, that nothing is installed after a shutdown or during a
replacement; `OwnerInv`, that a running adapter has an owner; `ClosingInv`, `TurnInv`
and `CoverInv`, that the session of a turn is installed, or a call closes it, or has
closed it with the turn cancelled; `ShutInv`, that nothing starts after a shutdown that
saw no start; `RetiredInv`, that a superseded session is in no turn, which rests on the
turn lock: the call that replaces a session was the only one in a turn on it. From
them: `AdaptersOwned`, `EveryWaitIsBacked`, `NoTurnSurvivesShutdown`,
`SupersededStaysSilent`.

**AgentLoop_proofs.** The invariants are in `AgentLoop_invariant`, with the notions the
proofs are told in. They hold for any tree of runs, any answers and batches and any number
of crashes, faults and cancellations. `LoopInv` is inductive. Neither property is:
that a conversation is well formed says nothing of the worker that appends the next
message, and that a dispatched call was approved nothing of the one about to be.
`LoopInv` says that every stored conversation was built by appending messages allowed
where they stand (`SavedOK`), and so was the one a worker has in hand, which is the
stored one as soon as there is one and whose open calls are the worker's pending ones
(`WorkOK`); what the worker holds at each of its steps (`PhaseOK`); that, while the
step that asked for an approval is the newest of its run, the stored conversation ends
in the batch it was asked for (`RequestsOK`); that what is about to be dispatched was
approved if it has to be (`GrantsOK`); and that a retry names a model call of a run that
has ended (`RetryOK`). `RequestsOK` is why an approval covers what recovery dispatches:
`sameRunPendingToolCallsApproved` compares calls, not answers. From it: `LoopInvariant`,
`ApprovalTheorem`, `ConversationTheorem`.

That no call has its effect twice rests on three more layers. A worker decides by
evidence: a pending call is dispatched unless a tool step with its position and its
model call is stored on the run it starts from, and that model call is itself looked
up, as the newest one that the steps of a run name or, if they name none, that of the
run it was started from (`Origin`). `ChainInv` says how the tree grows, that a run from
which another was started has ended and its executor has left or is cancelled (here
`LateSignal = FALSE` enters), and that a run that counted a model call has a step that names it, so that the lookup never takes
its third way, the boundary by counts (`DirectIs`). `ProgressInv` is about a run that
still works on the conversation of its source: what it records names the model call of
the source (`OnlyRef`), at an index no greater than the number of dispatches it takes
over (`Cap`), so that after a crash the steps of the next attempt, whose indices start
again at 1, are the newest once they are recorded.
`ReplayInv` says, of every call that had its effect on the line of a run or is about to
(`Committed`), that there is evidence of it on that run if it is still pending in its
stored conversation (`EvidenceOK`), and that what a worker has not taken for handled is
free on every line through its run (`ClaimOK`). `ReplayTheorem` (`NoReplay`) assumes
`ReplayWindow = FALSE` and `LateSignal = FALSE`: in the window that
`CrashSafe` names the evidence is stored on a run whose conversation is not, and
`agent_replay` shows the replay. `SupersedeInv` then says that a call that some
conversation calls superseded is free, is not open in that run or any that goes back
to it, and is not in an answer that is about to be saved; it covers what a cancelled executor may
still save (`Holds`) and the partial answer being streamed (`TailOK`). From it, under
the same hypotheses: `SupersededTheorem` (`SupersededNeverRan`). Both properties relate
the runs of a line of any length in any tree, however often a run is taken over, and
neither needs an induction along it: a run is compared with the one it was started
from, and `Line` is defined as a least set. `LoopInvariant`, `ApprovalTheorem` and
`ConversationTheorem` need neither hypothesis.

In all modules a function is updated with one `EXCEPT` clause per index (a record
inside it with an `EXCEPT` of its own), since the prover treats several clauses on one
index as an update of the first only.

Only model-checked: all liveness (the prover does not treat fairness), and the finding.
Every safety property of the passing runs is stated by a theorem.

## Not modelled

`PROJECT.json` gives the reason for every part. In short: file, process, network
and browser I/O; encoding, routing, policy and other pure functions; plain CRUD
(projects, memory, profiles, plugins, control plane); telemetry; clients of the
API. The rate limiter is floating-point arithmetic on time, which an integer model
would not represent. Of the parts that are modelled: retention, the content of
messages and prompts, the ACP wire protocol, writers of the task row outside the
runtime (the toggle of `RTKEnabled` in `chatapp/application.go:946-952` writes back a
task it read, with no check, so that `TaskMirrorsRun` speaks of the transitions of the
run store only), the tools an agent calls, and the
settlement dispatcher of chat turns.

## Plan

In this order:

1. Event delivery to the subscribers of a chat (`publish`,
   `replaceBufferedSessionUpdate`): what a full buffer may drop while a consumer
   reads; then the settlement dispatcher (`chat_terminal_settlement.go`) composed
   with the closures of `ChatLifecycle`.
2. Message requests and attachment claims of the chat store; the memory queue as a
   second implementation of the leased queue; deletion of tasks under running work.
3. Retention against live runs; reload of providers.
