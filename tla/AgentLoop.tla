------------------------------ MODULE AgentLoop ------------------------------
(***************************************************************************)
(* The agent loop of a task: a run asks a model for its next message,      *)
(* dispatches the tool calls of the answer, and writes every stage to the  *)
(* store: steps (model calls, dispatch intents, approvals) and one         *)
(* conversation artifact per run.  A worker may crash between any two      *)
(* writes and the run is queued again; a run that failed or was cancelled  *)
(* may be resumed, continued or retried by a new run.  Source:             *)
(* orchestrator/executor_agent_loop*.go and runner_io.go.                  *)
(*                                                                         *)
(* The runs of a task form a tree: a run is started from any run that has  *)
(* ended, the latest or an older one, and the constant Parent says from    *)
(* which.  A tool call is a position in the batch of an assistant message; *)
(* batches get ghost numbers, so that two calls with the same id are told  *)
(* apart.                                                                  *)
(***************************************************************************)
EXTENDS Integers, Sequences, FiniteSets, SequencesExt, FiniteSetsExt

CONSTANTS
    MaxRuns,          \* bound: runs of the task
    Parent,           \* the run a run is started from; 0 for the first
    MaxBatches,       \* bound: answers of the provider
    MaxModelCalls,    \* AgentLoopExecutor.maxModelCalls
    Answers,          \* tool batches a model may ask for: sequences of kinds
    Budget,           \* Task.BudgetMicrosUSD, in model calls; 0 disables it
    ResumeBudgets,    \* ceilings a resume may ask for; 0 keeps the task's
    MaxCrashes,       \* bound: crashes of the worker process
    MaxFaults,        \* bound: store writes that fail
    MaxCancels,       \* bound: cancellations by the operator
    MaxApprovals,     \* bound: approvals per run
    ReplayWindow,     \* may a worker crash in the window CrashSafe names
    LateSignal        \* may a run be taken over before its job is signalled

Runs == 1..MaxRuns
Kinds == {"free", "gated", "invalid"}

ASSUME AgentLoopAssumption ==
    /\ {MaxRuns, MaxBatches, MaxModelCalls} \subseteq Nat \ {0}
    /\ Parent \in [Runs -> 0..(MaxRuns - 1)]
    /\ Parent[1] = 0
    /\ \A r \in Runs \ {1} : Parent[r] \in 1..(r - 1)
    /\ {Budget, MaxCrashes, MaxFaults, MaxCancels, MaxApprovals} \subseteq Nat
    /\ ResumeBudgets \subseteq Nat
    /\ Answers \subseteq Seq({"free", "gated"})
    /\ {ReplayWindow, LateSignal} \subseteq BOOLEAN

VARIABLES
    run,        \* the stored runs: status, origin, accounting
    conv,       \* the agent_conversation artifact of a run
    steps,      \* the stored steps of a run
    appr,       \* the stored approvals of a run
    ex,         \* the executor of a run
    batches,    \* ghost: answers so far
    effects,    \* ghost: dispatches that had their effect
    used        \* bounds: crashes, faults and cancellations so far

vars == <<run, conv, steps, appr, ex, batches, effects, used>>

(* A run and the runs it goes back to: the least set that holds the run    *)
(* and, with a run, the one it was started from.                           *)
Line(r) ==
    {q \in 1..r : \A S \in SUBSET Runs :
        r \in S /\ (\A p \in S : Parent[p] # 0 => Parent[p] \in S) => q \in S}

Terminal == {"completed", "failed", "cancelled"}
NoRef == <<0, 0>>
NoConv == [msgs |-> <<>>, streaming |-> FALSE]
Idle == [pc |-> "idle", msgs |-> <<>>, pending |-> {}, matches |-> {},
         left |-> {}, ref |-> NoRef, same |-> FALSE, approved |-> FALSE,
         deferred |-> FALSE, spent |-> 0, count |-> 0, next |-> 1,
         done |-> FALSE, out |-> <<>>, cancelled |-> FALSE]

(***************************************************************************)
(* Conversations.                                                          *)
(***************************************************************************)
Prompt == [role |-> "user", batch |-> 0, calls |-> <<>>, call |-> 0,
           says |-> "prompt"]
Assistant(b, calls, says) ==
    [role |-> "assistant", batch |-> b, calls |-> calls, call |-> 0,
     says |-> says]
ToolResult(b, i, says) ==
    [role |-> "tool", batch |-> b, calls |-> <<>>, call |-> i, says |-> says]

AssistantsAt(msgs) == {n \in DOMAIN msgs : msgs[n].role = "assistant"}
countAssistantMessages(msgs) == Cardinality(AssistantsAt(msgs))

(* The last assistant message, when only tool results follow it. *)
HasResumableBatch(msgs) ==
    /\ AssistantsAt(msgs) # {}
    /\ LET a == Max(AssistantsAt(msgs)) IN
        /\ msgs[a].calls # <<>>
        /\ \A n \in (a + 1)..Len(msgs) : msgs[n].role = "tool"

resumableToolBatch(msgs) == msgs[Max(AssistantsAt(msgs))]

ResolvedCalls(msgs) ==
    {msgs[n].call : n \in (Max(AssistantsAt(msgs)) + 1)..Len(msgs)}

(* The calls in the order of the batch: their positions, lowest first. *)
pendingToolCallsForResume(msgs) ==
    IF HasResumableBatch(msgs)
      THEN DOMAIN resumableToolBatch(msgs).calls \ ResolvedCalls(msgs)
      ELSE {}

(* validateAgentToolCallBatch: an invalid bundle is stored in an           *)
(* intentionally invalid form.                                             *)
InvalidBundle(msgs) ==
    HasResumableBatch(msgs) /\ "invalid" \in Range(resumableToolBatch(msgs).calls)

AnyGated(msgs, calls) ==
    \E i \in calls : resumableToolBatch(msgs).calls[i] = "gated"

TailCompletedAssistant(msgs) ==
    msgs # <<>> /\ Last(msgs).role = "assistant" /\ Last(msgs).calls = <<>>

(* An artifact saved while streaming ends in a partial answer. *)
completedConversationMessages(c) ==
    IF c.streaming THEN Front(c.msgs) ELSE c.msgs

truncateConversation(msgs, runCalls, k) ==
    LET target == countAssistantMessages(msgs) - runCalls + k
        at == Min({n \in AssistantsAt(msgs) :
                Cardinality({m \in AssistantsAt(msgs) : m <= n}) >= target})
    IN  SubSeq(msgs, 1, at - 1)

(***************************************************************************)
(* Steps and the checkpoint a worker starts from.                          *)
(***************************************************************************)
(* A step carries the model call it belongs to (ref), the call of a tool   *)
(* step, the calls an approval step covers, and the cost after a model     *)
(* call.                                                                   *)
Step(kind, idx, ref, call, status, calls, cost) ==
    [kind |-> kind, idx |-> idx, ref |-> ref, call |-> call,
     status |-> status, calls |-> calls, cost |-> cost]

completedModelCallCount(r) ==
    Max({0} \cup {s.ref[2] : s \in {x \in Range(steps[r]) : x.kind = "model"}})

LastIndex(r) == Max({0} \cup {s.idx : s \in Range(steps[r])})

ModelCallBoundary(r) == Max(
    {run[r].calls, completedModelCallCount(r)} \cup
    {s.ref[2] : s \in {x \in Range(steps[r]) : x.kind = "tool" /\ x.ref[1] = r}})

(* latestAgentLoopModelCallRef, then the boundary of the run. *)
directPendingToolCallOrigin(r) ==
    LET withRef == {n \in DOMAIN steps[r] : steps[r][n].ref # NoRef}
        top == Max({steps[r][n].idx : n \in withRef})
    IN  IF withRef # {}
          THEN steps[r][Max({n \in withRef : steps[r][n].idx = top})].ref
          ELSE IF ModelCallBoundary(r) > 0 THEN <<r, ModelCallBoundary(r)>>
          ELSE NoRef

(* The nearest run that knows, back along the sources. *)
pendingToolCallOrigin(r) ==
    LET known == {q \in Line(r) : directPendingToolCallOrigin(q) # NoRef}
    IN  IF known = {} THEN NoRef ELSE directPendingToolCallOrigin(Max(known))

(* Defect: the request counts as granted before the operator answers. *)
RequestedIsApproved(r, pending) ==
    /\ steps[r] # <<>>
    /\ Last(steps[r]).kind = "approval"
    /\ Last(steps[r]).calls = pending

(* The latest step is an approval step for exactly these calls, and its    *)
(* approval was granted on this run.                                       *)
sameRunPendingToolCallsApproved(r, pending) ==
    \E n \in DOMAIN steps[r] :
        /\ steps[r][n].idx = LastIndex(r)
        /\ \A m \in 1..(n - 1) : steps[r][m].idx < LastIndex(r)
        /\ steps[r][n].kind = "approval"
        /\ steps[r][n].calls = pending
        /\ \E k \in DOMAIN appr[r] :
              appr[r][k].step = n /\ appr[r][k].status = "approved"

DurableToolDispatches(r) == {s \in Range(steps[r]) : s.kind = "tool"}

Checkpoint(same, msgs, evidence, ref, approved, deferred, r) ==
    [same |-> same, msgs |-> msgs, evidence |-> evidence, ref |-> ref,
     approved |-> approved, deferred |-> deferred,
     spent |-> IF same THEN Max({run[r].cost} \cup
                                {s.cost : s \in Range(steps[r])})
                       ELSE run[r].cost,
     count |-> IF same THEN Max({run[r].calls, completedModelCallCount(r)})
                       ELSE run[r].calls,
     lastIdx |-> IF same THEN LastIndex(r) ELSE 0,
     done |-> same /\ \E s \in Range(steps[r]) : s.status = "completed"]

(* Own progress wins over the run this one was started from. *)
ownRunResumeCheckpoint(r) ==
    LET msgs == completedConversationMessages(conv[r])
        pending == pendingToolCallsForResume(msgs)
        direct == directPendingToolCallOrigin(r)
        ref == IF direct # NoRef THEN direct
               ELSE pendingToolCallOrigin(Parent[r])
    IN  Checkpoint(TRUE, msgs, DurableToolDispatches(r),
                   IF pending = {} THEN NoRef ELSE ref,
                   sameRunPendingToolCallsApproved(r, pending), FALSE, r)

sourceCheckpoint(r) ==
    LET s == Parent[r]
        saved == completedConversationMessages(conv[s])
        msgs == IF saved = <<>> THEN <<Prompt>> ELSE saved
    IN  IF run[r].mode = "retry"
          THEN Checkpoint(FALSE,
                 truncateConversation(saved, run[s].calls, run[r].index),
                 {}, NoRef, FALSE, FALSE, r)
          ELSE Checkpoint(FALSE, msgs, DurableToolDispatches(s),
                 IF pendingToolCallsForResume(msgs) = {} THEN NoRef
                   ELSE pendingToolCallOrigin(s),
                 FALSE, run[r].mode = "continue", r)

resumeCheckpointForRun(r) ==
    IF conv[r] # NoConv THEN ownRunResumeCheckpoint(r)
    ELSE IF run[r].mode # "fresh" THEN sourceCheckpoint(r)
    ELSE Checkpoint(FALSE, <<Prompt>>, {}, NoRef, FALSE, FALSE, r)

(* The conversation to start from lacks an answer that is accounted for:   *)
(* the own one, or that of the source when it is to be cut for a retry.    *)
CheckpointUnavailable(r) ==
    IF conv[r] # NoConv
      THEN countAssistantMessages(completedConversationMessages(conv[r]))
             < Max({run[r].calls, completedModelCallCount(r)})
      ELSE /\ run[r].mode = "retry"
           /\ countAssistantMessages(completedConversationMessages(conv[Parent[r]]))
                < run[Parent[r]].calls

(* Defect: a dispatch that finished is no evidence. *)
FindUnfinishedDispatch(evidence, call, ref) ==
    {s \in evidence : s.call = call /\ s.ref = ref /\ s.status = "running"}

(* findDurableToolDispatch: the evidence of a call is a tool step with its *)
(* id and its model call.                                                  *)
findDurableToolDispatch(evidence, call, ref) ==
    {s \in evidence : s.call = call /\ s.ref = ref}

(* Defect: a continuation does not look for evidence. *)
NoMatchesOnContinue(c) ==
    {i \in pendingToolCallsForResume(c.msgs) :
        ~c.deferred /\ findDurableToolDispatch(c.evidence, i, c.ref) # {}}

RecoveryMatches(c) ==
    {i \in pendingToolCallsForResume(c.msgs) :
        findDurableToolDispatch(c.evidence, i, c.ref) # {}}

-----------------------------------------------------------------------------
Init ==
    /\ run = [r \in Runs |->
                [status |-> IF r = 1 THEN "queued" ELSE "none",
                 mode |-> "fresh", index |-> 0, calls |-> 0, cost |-> 0,
                 prior |-> 0, budget |-> Budget]]
    /\ conv = [r \in Runs |-> NoConv]
    /\ steps = [r \in Runs |-> <<>>]
    /\ appr = [r \in Runs |-> <<>>]
    /\ ex = [r \in Runs |-> Idle]
    /\ batches = 0
    /\ effects = {}
    /\ used = [crashes |-> 0, faults |-> 0, cancels |-> 0]

(***************************************************************************)
(* API: a new run, cancellation, approvals.                                *)
(***************************************************************************)
(* No step of the executor of a run that has ended reaches the store: it   *)
(* has left or its context is cancelled.                                   *)
Stopped(r) == ex[r].pc = "idle" \/ ex[r].cancelled

(* The ceiling of the task: a request sets it, and never to a lower one.   *)
TaskBudget == Max({run[q].budget : q \in Runs})

(* startTaskWithOptions with ResumeFromRun: some run c of the tree starts  *)
(* when no run of the task is active, whether its source is the latest or  *)
(* not.  It inherits the cost so far from the rows of its source, and the  *)
(* ceiling of the task, which the request may set.  Bound: MaxRuns.        *)
StartFromRun(r, mode, index, budget) ==
    /\ \A q \in Runs : run[q].status \in Terminal \cup {"none"}
    /\ run[r].status \in Terminal
    /\ LateSignal \/ Stopped(r)
    /\ \E c \in Runs :
        /\ Parent[c] = r
        /\ run[c].status = "none"
        /\ run' = [run EXCEPT ![c] =
                     [status |-> "queued", mode |-> mode, index |-> index,
                      calls |-> 0, cost |-> 0,
                      prior |-> run[r].prior + run[r].cost,
                      budget |-> IF budget > 0 THEN budget ELSE TaskBudget]]
    /\ UNCHANGED <<conv, steps, appr, ex, batches, effects, used>>

(* A resume may raise the ceiling, never lower it. *)
ResumeTaskRun(r, budget) ==
    /\ run[r].status \in {"failed", "cancelled"}
    /\ budget > 0 => budget >= TaskBudget
    /\ StartFromRun(r, "resume", 0, budget)

ContinueAgentTask(r) ==
    /\ conv[r] # NoConv
    /\ StartFromRun(r, "continue", 0, 0)

RetryTaskFromModelCall(r, k) ==
    /\ k \in 1..run[r].calls
    /\ conv[r] # NoConv
    /\ run[r].calls
         <= countAssistantMessages(completedConversationMessages(conv[r]))
    /\ StartFromRun(r, "retry", k, 0)

(* The run is cancelled in the store with its pending approvals; its job   *)
(* learns of it later.  Bound: MaxCancels.                                 *)
CancelRun(r) ==
    /\ run[r].status \in {"queued", "running", "awaiting_approval"}
    /\ used.cancels < MaxCancels
    /\ run' = [run EXCEPT ![r].status = "cancelled"]
    /\ appr' = [appr EXCEPT ![r] = [k \in DOMAIN @ |->
                  IF @[k].status = "pending"
                    THEN [@[k] EXCEPT !.status = "cancelled"] ELSE @[k]]]
    /\ used' = [used EXCEPT !.cancels = @ + 1]
    /\ UNCHANGED <<conv, steps, ex, batches, effects>>

(* Then the context of its executor is cancelled, in the process that was  *)
(* asked to cancel: never, when the executor is in another one.            *)
cancelInFlightJob(r) ==
    /\ run[r].status = "cancelled"
    /\ ex[r].pc # "idle"
    /\ ~ex[r].cancelled
    /\ ex' = [ex EXCEPT ![r].cancelled = TRUE]
    /\ UNCHANGED <<run, conv, steps, appr, batches, effects, used>>

ApproveAndResume(r, k) ==
    /\ run[r].status = "awaiting_approval"
    /\ appr[r][k].status = "pending"
    /\ appr' = [appr EXCEPT ![r][k].status = "approved"]
    /\ run' = [run EXCEPT ![r].status = "queued"]
    /\ UNCHANGED <<conv, steps, ex, batches, effects, used>>

RejectApproval(r, k) ==
    /\ run[r].status = "awaiting_approval"
    /\ appr[r][k].status = "pending"
    /\ appr' = [appr EXCEPT ![r] = [j \in DOMAIN @ |->
                  IF j = k THEN [@[j] EXCEPT !.status = "rejected"]
                  ELSE IF @[j].status = "pending"
                    THEN [@[j] EXCEPT !.status = "cancelled"] ELSE @[j]]]
    /\ run' = [run EXCEPT ![r].status = "cancelled"]
    /\ UNCHANGED <<conv, steps, ex, batches, effects, used>>

(***************************************************************************)
(* Claiming a run: checkpoint and hydration.                               *)
(***************************************************************************)
Hydrate(r, c) ==
    LET matches == RecoveryMatches(c)
    IN  /\ conv' = IF c.same THEN [conv EXCEPT ![r] =
                                    [msgs |-> c.msgs, streaming |-> FALSE]]
                   ELSE conv
        /\ ex' = [ex EXCEPT ![r] =
             [Idle EXCEPT
                !.pc = IF InvalidBundle(c.msgs) THEN "fail"
                       ELSE IF matches = {} THEN "normalize"
                       ELSE IF c.same THEN "settle" ELSE "inherit",
                !.msgs = c.msgs,
                !.pending = pendingToolCallsForResume(c.msgs),
                !.matches = matches,
                !.left = IF c.same THEN {} ELSE matches,
                !.ref = c.ref, !.same = c.same,
                !.approved = c.approved, !.deferred = c.deferred,
                !.spent = c.spent, !.count = c.count,
                !.next = c.lastIdx + 1, !.done = c.done]]

(* A worker claims the queued run and reads its checkpoint (repairing a    *)
(* conversation that was left streaming); without one the run fails.       *)
ClaimRun(r) ==
    /\ run[r].status = "queued"
    /\ ex[r].pc = "idle"
    /\ \/ /\ CheckpointUnavailable(r)
          /\ run' = [run EXCEPT ![r].status = "failed"]
          /\ UNCHANGED <<conv, ex>>
       \/ /\ ~CheckpointUnavailable(r)
          /\ run' = [run EXCEPT ![r].status = "running"]
          /\ Hydrate(r, resumeCheckpointForRun(r))
    /\ UNCHANGED <<steps, appr, batches, effects, used>>

(***************************************************************************)
(* Steps of an executor.  A write to the store fails once the context of   *)
(* the run is cancelled (see WriteFails).                                  *)
(***************************************************************************)
At(r, pc) == ex[r].pc = pc
Writes(r) == ~ex[r].cancelled

AddStep(r, kind, ref, call, status, calls, cost) ==
    /\ Writes(r)
    /\ steps' = [steps EXCEPT ![r] = Append(@,
                   Step(kind, ex[r].next, ref, call, status, calls, cost))]

(* conversation.UpsertArtifact *)
UpsertArtifact(r, msgs) ==
    /\ Writes(r)
    /\ conv' = [conv EXCEPT ![r] = [msgs |-> msgs, streaming |-> FALSE]]

CurrentBatch(r) == resumableToolBatch(ex[r].msgs).batch

(* recoverDurableToolDispatches across runs: first every match is recorded *)
(* in this run, one step per match.                                        *)
InheritDispatch(r) ==
    LET first == Min(ex[r].left)
    IN  /\ At(r, "inherit")
        /\ AddStep(r, "tool", ex[r].ref, first, "failed", {}, 0)
        /\ ex' = [ex EXCEPT ![r] =
                   [@ EXCEPT !.next = ex[r].next + 1,
                             !.left = ex[r].left \ {first},
                             !.pc = IF ex[r].left = {first}
                                      THEN "settle" ELSE "inherit"]]
        /\ UNCHANGED <<run, conv, appr, batches, effects, used>>

(* The latest evidence on this run of the first match. *)
MatchedSteps(r) ==
    {n \in DOMAIN steps[r] :
        /\ steps[r][n].kind = "tool"
        /\ steps[r][n].call = Min(ex[r].matches)
        /\ steps[r][n].ref = ex[r].ref}

AmbiguousDispatch(r) ==
    {n \in MatchedSteps(r) :
        /\ ex[r].same
        /\ steps[r][n].status = "running"
        /\ \A m \in MatchedSteps(r) :
              \/ steps[r][m].idx < steps[r][n].idx
              \/ steps[r][m].idx = steps[r][n].idx /\ m <= n}

settleAmbiguousToolDispatch(r) ==
    /\ At(r, "settle")
    /\ Writes(r)
    /\ \E n \in AmbiguousDispatch(r) :
          steps' = [steps EXCEPT ![r][n].status = "failed"]
    /\ UNCHANGED <<run, conv, appr, ex, batches, effects, used>>

(* A recovered call gets an error result.  A continuation saves them all   *)
(* in one snapshot later.  What is left lost its approval.                 *)
RecoverToolResult(r) ==
    LET first == Min(ex[r].matches)
        msgs == Append(ex[r].msgs,
                  ToolResult(CurrentBatch(r), first, "unknown"))
    IN  /\ At(r, "settle")
        /\ AmbiguousDispatch(r) = {}
        /\ IF ex[r].deferred THEN conv' = conv ELSE UpsertArtifact(r, msgs)
        /\ ex' = [ex EXCEPT ![r] =
                   [@ EXCEPT !.msgs = msgs, !.matches = ex[r].matches \ {first},
                             !.pending = pendingToolCallsForResume(msgs),
                             !.approved = FALSE,
                             !.pc = IF ex[r].matches = {first}
                                      THEN "normalize" ELSE "settle"]]
        /\ UNCHANGED <<run, steps, appr, batches, effects, used>>

(* Defect: the prompt follows unanswered calls. *)
LeaveUnanswered(r) ==
    /\ At(r, "normalize")
    /\ ex[r].deferred
    /\ ex[r].pending # {}
    /\ ex' = [ex EXCEPT ![r].pending = {}]
    /\ UNCHANGED <<run, conv, steps, appr, batches, effects, used>>

(* A continuation supersedes the calls that never started: each is closed  *)
(* with an error result, then the new prompt follows and is saved.         *)
CloseSuperseded(r) ==
    LET first == Min(ex[r].pending)
    IN  /\ At(r, "normalize")
        /\ ex[r].deferred
        /\ ex[r].pending # {}
        /\ ex' = [ex EXCEPT ![r] =
                   [@ EXCEPT !.pending = ex[r].pending \ {first},
                             !.msgs = Append(ex[r].msgs,
                               ToolResult(CurrentBatch(r), first, "superseded"))]]
        /\ UNCHANGED <<run, conv, steps, appr, batches, effects, used>>

AppendDeferredContinuation(r) ==
    LET msgs == Append(ex[r].msgs, Prompt)
    IN  /\ At(r, "normalize")
        /\ ex[r].deferred
        /\ ex[r].pending = {}
        /\ UpsertArtifact(r, msgs)
        /\ ex' = [ex EXCEPT ![r] =
                   [@ EXCEPT !.msgs = msgs, !.approved = FALSE,
                             !.deferred = FALSE]]
        /\ UNCHANGED <<run, steps, appr, batches, effects, used>>

Return(r, status) ==
    ex' = [ex EXCEPT ![r] = [@ EXCEPT !.pc = "return", !.out = status]]

CostCeilingExceeded(r, spent) ==
    run[r].budget > 0 /\ run[r].prior + spent >= run[r].budget

(* Before resumed work: the ceiling, then an answer that was saved before  *)
(* a crash.                                                                *)
CeilingReached(r) ==
    /\ At(r, "normalize")
    /\ ~ex[r].deferred
    /\ CostCeilingExceeded(r, ex[r].spent)
    /\ UpsertArtifact(r, ex[r].msgs)
    /\ Return(r, "failed")
    /\ UNCHANGED <<run, steps, appr, batches, effects, used>>

HasSavedAnswer(r) ==
    /\ ex[r].same
    /\ ex[r].count > 0
    /\ ex[r].done
    /\ TailCompletedAssistant(ex[r].msgs)

RecoverAnswer(r) ==
    /\ At(r, "normalize")
    /\ ~ex[r].deferred
    /\ ~CostCeilingExceeded(r, ex[r].spent)
    /\ HasSavedAnswer(r)
    /\ UpsertArtifact(r, ex[r].msgs)
    /\ IF Last(ex[r].msgs).says = "empty"
         THEN ex' = [ex EXCEPT ![r].pc = "fail"]
         ELSE Return(r, "completed")
    /\ UNCHANGED <<run, steps, appr, batches, effects, used>>

(* MCP servers start, or the run fails without its accounting. *)
EnterLoop(r) ==
    /\ At(r, "normalize")
    /\ ~ex[r].deferred
    /\ ~CostCeilingExceeded(r, ex[r].spent)
    /\ ~HasSavedAnswer(r)
    /\ \/ ex' = [ex EXCEPT ![r].pc = "loop"]
       \/ ex' = [ex EXCEPT ![r] =
                  [@ EXCEPT !.pc = "fail", !.spent = 0, !.count = 0]]
    /\ UNCHANGED <<run, conv, steps, appr, batches, effects, used>>

StopCancelled(r) ==
    /\ At(r, "loop")
    /\ ex[r].cancelled
    /\ Return(r, "cancelled")
    /\ UNCHANGED <<run, conv, steps, appr, batches, effects, used>>

(* Pending calls without an approval of their own pass the gate again. *)
GatePending(r) ==
    /\ At(r, "loop")
    /\ ex[r].pending # {}
    /\ ~ex[r].approved
    /\ AnyGated(ex[r].msgs, ex[r].pending)
    /\ UpsertArtifact(r, ex[r].msgs)
    /\ ex' = [ex EXCEPT ![r].pc = "pause"]
    /\ UNCHANGED <<run, steps, appr, batches, effects, used>>

ResumePending(r) ==
    /\ At(r, "loop")
    /\ ex[r].pending # {}
    /\ ex[r].approved \/ ~AnyGated(ex[r].msgs, ex[r].pending)
    /\ AddStep(r, "control", ex[r].ref, 0, "completed", {}, 0)
    /\ ex' = [ex EXCEPT ![r] =
               [@ EXCEPT !.pc = "intent", !.next = ex[r].next + 1]]
    /\ UNCHANGED <<run, conv, appr, batches, effects, used>>

(* The approval step; the approval itself follows with the result.  Bound: *)
(* MaxApprovals.                                                           *)
AwaitApproval(r) ==
    /\ At(r, "pause")
    /\ Len(appr[r]) < MaxApprovals
    /\ AddStep(r, "approval", ex[r].ref, 0, "awaiting_approval",
               ex[r].pending, 0)
    /\ ex' = [ex EXCEPT ![r] =
               [@ EXCEPT !.pc = "return", !.out = "awaiting_approval",
                         !.next = ex[r].next + 1]]
    /\ UNCHANGED <<run, conv, appr, batches, effects, used>>

ModelCallLimit(r) ==
    /\ At(r, "loop")
    /\ ~ex[r].cancelled
    /\ ex[r].pending = {}
    /\ ex[r].count >= MaxModelCalls
    /\ Return(r, "failed")
    /\ UNCHANGED <<run, conv, steps, appr, batches, effects, used>>

(* Bound: MaxBatches. *)
CallModel(r) ==
    /\ At(r, "loop")
    /\ ~ex[r].cancelled
    /\ ex[r].pending = {}
    /\ ex[r].count < MaxModelCalls
    /\ batches < MaxBatches
    /\ ex' = [ex EXCEPT ![r].pc = "model"]
    /\ UNCHANGED <<run, conv, steps, appr, batches, effects, used>>

(* persistPartial *)
StreamPartial(r) ==
    /\ At(r, "model")
    /\ Writes(r)
    /\ ~conv[r].streaming
    /\ conv' = [conv EXCEPT ![r] =
                  [msgs |-> Append(ex[r].msgs, Assistant(0, <<>>, "partial")),
                   streaming |-> TRUE]]
    /\ UNCHANGED <<run, steps, appr, ex, batches, effects, used>>

ModelAnswers(r) ==
    /\ At(r, "model")
    /\ batches < MaxBatches
    /\ \E answer \in {<<a, "calls">> : a \in Answers}
                     \cup {<<<<"invalid">>, "invalid">>}
                     \cup {<<<<>>, says>> : says \in {"answer", "empty"}} :
          ex' = [ex EXCEPT ![r] =
                  [@ EXCEPT !.pc = "think",
                            !.out = Assistant(batches + 1, answer[1], answer[2])]]
    /\ batches' = batches + 1
    /\ UNCHANGED <<run, conv, steps, appr, effects, used>>

(* restoreCompletedConversation writes without the run's context. *)
ModelCallFails(r) ==
    /\ At(r, "model")
    /\ conv' = [conv EXCEPT ![r] = [msgs |-> ex[r].msgs, streaming |-> FALSE]]
    /\ ex' = [ex EXCEPT ![r].pc = "fail"]
    /\ UNCHANGED <<run, steps, appr, batches, effects, used>>

(* The model step with its cost, then the conversation. *)
SaveModelStep(r) ==
    /\ At(r, "think")
    /\ AddStep(r, "model", <<r, ex[r].count + 1>>, 0, "completed", {},
               ex[r].spent + 1)
    /\ ex' = [ex EXCEPT ![r] =
               [@ EXCEPT !.pc = "save", !.count = ex[r].count + 1,
                         !.spent = ex[r].spent + 1, !.next = ex[r].next + 1]]
    /\ UNCHANGED <<run, conv, appr, batches, effects, used>>

(* What follows a saved answer: failure, the final answer, the approval    *)
(* gate, or the dispatch of its calls.                                     *)
AfterModelCall(r, msgs) ==
    IF InvalidBundle(msgs) THEN "fail"
    ELSE IF CostCeilingExceeded(r, ex[r].spent) THEN "ceiling"
    ELSE IF Last(msgs).says = "empty" THEN "fail"
    ELSE IF Last(msgs).calls = <<>> THEN "completed"
    ELSE IF AnyGated(msgs, pendingToolCallsForResume(msgs)) THEN "pause"
    ELSE "intent"

SaveAssistant(r) ==
    LET msgs == Append(ex[r].msgs, ex[r].out)
        next == AfterModelCall(r, msgs)
    IN  /\ At(r, "save")
        /\ UpsertArtifact(r, msgs)
        /\ ex' = [ex EXCEPT ![r] =
                   [@ EXCEPT !.msgs = msgs, !.ref = <<r, ex[r].count>>,
                             !.pending = pendingToolCallsForResume(msgs),
                             !.approved = FALSE,
                             !.pc = IF next \in {"ceiling", "completed"}
                                      THEN "return" ELSE next,
                             !.out = CASE next = "ceiling" -> "failed"
                                       [] next = "completed" -> "completed"
                                       [] OTHER -> <<>>]]
        /\ UNCHANGED <<run, steps, appr, batches, effects, used>>

(***************************************************************************)
(* Dispatching a tool call: intent, effect, outcome, result.               *)
(***************************************************************************)
SaveIntent(r) ==
    /\ At(r, "intent")
    /\ AddStep(r, "tool", ex[r].ref, Min(ex[r].pending), "running", {}, 0)
    /\ ex' = [ex EXCEPT ![r] =
               [@ EXCEPT !.pc = "dispatch", !.next = ex[r].next + 1]]
    /\ UNCHANGED <<run, conv, appr, batches, effects, used>>

(* The tool has its effect, or the call is refused or fails before. *)
Dispatch(r) ==
    /\ At(r, "dispatch")
    /\ \/ effects' = effects \cup
             {[run |-> r, step |-> Len(steps[r]), batch |-> CurrentBatch(r),
               call |-> Min(ex[r].pending),
               kind |-> resumableToolBatch(ex[r].msgs)
                          .calls[Min(ex[r].pending)]]}
       \/ effects' = effects
    /\ ex' = [ex EXCEPT ![r].pc = "finalize"]
    /\ UNCHANGED <<run, conv, steps, appr, batches, used>>

FinalizeStep(r) ==
    /\ At(r, "finalize")
    /\ Writes(r)
    /\ steps' = [steps EXCEPT ![r][Len(steps[r])].status = "completed"]
    /\ ex' = [ex EXCEPT ![r].pc = "result"]
    /\ UNCHANGED <<run, conv, appr, batches, effects, used>>

SaveToolResult(r) ==
    LET first == Min(ex[r].pending)
        msgs == Append(ex[r].msgs, ToolResult(CurrentBatch(r), first, "result"))
    IN  /\ At(r, "result")
        /\ UpsertArtifact(r, msgs)
        /\ ex' = [ex EXCEPT ![r] =
                   [@ EXCEPT !.msgs = msgs, !.pending = ex[r].pending \ {first},
                             !.pc = IF ex[r].pending = {first}
                                      THEN "loop" ELSE "intent"]]
        /\ UNCHANGED <<run, steps, appr, batches, effects, used>>

(***************************************************************************)
(* Results.                                                                *)
(***************************************************************************)
failedFromError(r) ==
    /\ At(r, "fail")
    /\ AddStep(r, "failure", NoRef, 0, "failed", {}, 0)
    /\ Return(r, "failed")
    /\ UNCHANGED <<run, conv, appr, batches, effects, used>>

(* persistPendingApprovals, before the run is settled. *)
CreateApproval(r) ==
    /\ At(r, "return")
    /\ ex[r].out = "awaiting_approval"
    /\ \A k \in DOMAIN appr[r] : appr[r][k].step # Len(steps[r])
    /\ appr' = [appr EXCEPT ![r] = Append(@,
                  [step |-> Len(steps[r]), batch |-> CurrentBatch(r),
                   calls |-> ex[r].pending, status |-> "pending"])]
    /\ UNCHANGED <<run, conv, steps, ex, batches, effects, used>>

(* applyFinalResult: a status that is already terminal stays; the          *)
(* accounting is merged into it.                                           *)
SettleRun(r) ==
    /\ At(r, "return")
    /\ ex[r].out = "awaiting_approval" =>
          \E k \in DOMAIN appr[r] : appr[r][k].step = Len(steps[r])
    /\ run' = [run EXCEPT ![r] =
         [@ EXCEPT !.status = IF run[r].status \in Terminal THEN run[r].status
                              ELSE ex[r].out,
                   !.cost = Max({run[r].cost, ex[r].spent}),
                   !.calls = Max({run[r].calls, ex[r].count,
                                  completedModelCallCount(r)})]]
    /\ ex' = [ex EXCEPT ![r] = Idle]
    /\ UNCHANGED <<conv, steps, appr, batches, effects, used>>

WritePcs == {"inherit", "settle", "normalize", "loop", "pause", "think",
             "save", "intent", "finalize", "result", "fail", "return"}

(* A write fails, always once the context is cancelled: the executor       *)
(* returns the error and the run fails without accounting, unless it is    *)
(* cancelled already.  Settlement uses a context of its own.               *)
WriteFails(r) ==
    /\ ex[r].pc \in WritePcs
    /\ ex[r].pc = "loop" => ex[r].pending # {}
    /\ \/ /\ ex[r].cancelled
          /\ ex[r].pc # "return"
          /\ UNCHANGED used
       \/ /\ used.faults < MaxFaults
          /\ used' = [used EXCEPT !.faults = @ + 1]
    /\ run' = [run EXCEPT ![r].status = IF @ \in Terminal THEN @ ELSE "failed"]
    /\ ex' = [ex EXCEPT ![r] = Idle]
    /\ UNCHANGED <<conv, steps, appr, batches, effects>>

(* The window in which a crash loses the evidence of a dispatch: the run   *)
(* took over pending calls of its source, has dispatched one, and has no   *)
(* conversation of its own yet.                                            *)
CrashSafe ==
    \A r \in Runs : run[r].status = "running" =>
        conv[r] # NoConv \/ \A s \in Range(steps[r]) :
            s.kind = "tool" => s.status = "failed"

(* The worker process dies; its unfinished runs are queued again.  Bound:  *)
(* MaxCrashes.                                                             *)
Crash ==
    /\ used.crashes < MaxCrashes
    /\ \E r \in Runs : ex[r].pc # "idle"
    /\ ReplayWindow \/ CrashSafe
    /\ run' = [r \in Runs |-> IF run[r].status = "running"
                 THEN [run[r] EXCEPT !.status = "queued"] ELSE run[r]]
    /\ ex' = [r \in Runs |-> Idle]
    /\ used' = [used EXCEPT !.crashes = @ + 1]
    /\ UNCHANGED <<conv, steps, appr, batches, effects>>

Next ==
    \/ \E r \in Runs :
        \/ \E budget \in ResumeBudgets : ResumeTaskRun(r, budget)
        \/ ContinueAgentTask(r)
        \/ \E k \in 1..MaxModelCalls : RetryTaskFromModelCall(r, k)
        \/ CancelRun(r)
        \/ cancelInFlightJob(r)
        \/ \E k \in DOMAIN appr[r] :
              ApproveAndResume(r, k) \/ RejectApproval(r, k)
        \/ ClaimRun(r)
        \/ InheritDispatch(r)
        \/ settleAmbiguousToolDispatch(r)
        \/ RecoverToolResult(r)
        \/ CloseSuperseded(r)
        \/ AppendDeferredContinuation(r)
        \/ CeilingReached(r)
        \/ RecoverAnswer(r)
        \/ EnterLoop(r)
        \/ StopCancelled(r)
        \/ GatePending(r)
        \/ ResumePending(r)
        \/ AwaitApproval(r)
        \/ ModelCallLimit(r)
        \/ CallModel(r)
        \/ StreamPartial(r)
        \/ ModelAnswers(r)
        \/ ModelCallFails(r)
        \/ SaveModelStep(r)
        \/ SaveAssistant(r)
        \/ SaveIntent(r)
        \/ Dispatch(r)
        \/ FinalizeStep(r)
        \/ SaveToolResult(r)
        \/ failedFromError(r)
        \/ CreateApproval(r)
        \/ SettleRun(r)
        \/ WriteFails(r)
    \/ Crash

Spec == Init /\ [][Next]_vars

-----------------------------------------------------------------------------
(* Properties. *)

(* A tool call takes effect at most once in a run and all the runs it goes *)
(* back to: neither a worker that recovers a run after a crash nor a run   *)
(* that resumes, continues or retries another one dispatches a call again  *)
(* whose intent was stored (executor_agent_loop.go: "a worker crash after  *)
(* this point must fail closed rather than replay").  Two runs started     *)
(* from the same source are on different lines: each takes over the calls  *)
(* the source left pending.                                                *)
NoReplay ==
    \A e, f \in effects :
        e.batch = f.batch /\ e.call = f.call /\ e.run \in Line(f.run) => e = f

(* A gated tool call takes effect only in a run in which the operator      *)
(* approved a bundle of that same answer with that call: an approval is    *)
(* never inherited from another run or taken from an unanswered request.   *)
GatedNeedsApproval ==
    \A e \in effects : e.kind = "gated" =>
        \E k \in DOMAIN appr[e.run] :
            /\ appr[e.run][k].status = "approved"
            /\ appr[e.run][k].batch = e.batch
            /\ e.call \in appr[e.run][k].calls

(* Between an answer and the next message that is not a result of it, all *)
(* its calls are answered, one result each.                                *)
BatchesAnswered(msgs) ==
    \A a \in AssistantsAt(msgs), n \in DOMAIN msgs :
        a < n /\ (\A b \in AssistantsAt(msgs) : b <= a \/ b >= n) =>
            LET answered == {msgs[m].call : m \in (a + 1)..(n - 1)} IN
            IF msgs[n].role = "tool"
              THEN /\ msgs[n].batch = msgs[a].batch
                   /\ msgs[n].call \in (DOMAIN msgs[a].calls) \ answered
                   /\ \A m \in (a + 1)..n : msgs[m].role = "tool"
              ELSE DOMAIN msgs[a].calls \subseteq answered

(* In every stored conversation a batch of tool calls is followed by the   *)
(* results of all its calls, one each, before the next message: providers  *)
(* reject anything else.  Only the last batch may be unfinished.           *)
ConversationWellFormed ==
    \A r \in Runs : BatchesAnswered(completedConversationMessages(conv[r]))

(* A call the conversation reports as never executed (superseded by a      *)
(* continuation) took no effect in that run, in a run it goes back to, or  *)
(* in a run that goes back to it.                                          *)
SupersededNeverRan ==
    \A r \in Runs : \A n \in DOMAIN conv[r].msgs :
        conv[r].msgs[n].says = "superseded" =>
            \A e \in effects :
                ~(/\ e.batch = conv[r].msgs[n].batch
                  /\ e.call = conv[r].msgs[n].call
                  /\ e.run \in Line(r) \/ r \in Line(e.run))

=============================================================================
