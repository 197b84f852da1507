------------------------ MODULE AgentLoop_invariant ------------------------
(***************************************************************************)
(* The inductive invariant of AgentLoop, in five layers.  LoopInv: what an *)
(* executor has in hand agrees with what is stored, every message was      *)
(* allowed where it was appended, and while the newest step of a run asks  *)
(* for an approval the conversation ends in the batch it was asked for.    *)
(* ChainInv: on a line of runs at most one is unfinished, the last that    *)
(* has begun.  ProgressInv: a run without a conversation of its own        *)
(* records its evidence under the model call of its source, at indices     *)
(* that keep the newest step the newest.  ReplayInv: a call that may have  *)
(* taken effect on the line of a run has evidence where a worker looks for *)
(* it.  SupersedeInv: no run that goes back to the one that superseded a   *)
(* call can dispatch it.                                                   *)
(*                                                                         *)
(* With each layer come the notions its proof is told in: what a step of   *)
(* an executor, a claim or a step of the store leaves behind.              *)
(***************************************************************************)
EXTENDS AgentLoop

(* A set that holds, with a run, the one it was started from. *)
Closed(S) == S \subseteq Runs /\ \A p \in S : Parent[p] # 0 => Parent[p] \in S

(* What a message says. *)
Sayings == {"prompt", "calls", "invalid", "answer", "empty", "partial", "result",
            "unknown", "superseded"}

(* The messages of a conversation. *)
Messages ==
    [role : {"user", "assistant", "tool"}, batch : Nat, calls : Seq(Kinds),
     call : Nat, says : Sayings]

(* The pending calls of a conversation. *)
Pend(m) == pendingToolCallsForResume(m)

(* The batch it ends in. *)
Bat(m) == resumableToolBatch(m)

(* What may follow a conversation. *)
Allowed(m, x) ==
    IF x.role = "tool"
      THEN /\ HasResumableBatch(m)
           /\ x.batch = Bat(m).batch
           /\ x.call \in Pend(m)
      ELSE /\ Pend(m) = {}
           /\ x.role = "assistant" =>
                \A a \in AssistantsAt(m) : m[a].batch < x.batch

(* Every message of the conversation was allowed where it is. *)
Good(m) ==
    /\ m \in Seq(Messages)
    /\ \A k \in 1..Len(m) : Allowed(SubSeq(m, 1, k - 1), m[k])

(* The statuses of a run. *)
Statuses == {"none", "queued", "running", "awaiting_approval"} \cup Terminal

(* How a run was started. *)
Modes == {"fresh", "resume", "continue", "retry"}

(* Where an executor is. *)
Pcs == {"idle", "inherit", "settle", "normalize", "loop", "pause", "model",
        "think", "save", "intent", "dispatch", "finalize", "result", "fail",
        "return"}

(* Model calls: a run and the number of the call in it. *)
Refs == Nat \X Nat

(* Stored conversations. *)
Conversations == [msgs : Seq(Messages), streaming : BOOLEAN]

(* Stored steps. *)
Steps ==
    [kind : {"tool", "model", "approval", "control", "failure"}, idx : Nat,
     ref : Refs, call : Nat,
     status : {"running", "completed", "failed", "awaiting_approval"},
     calls : SUBSET Nat, cost : Nat]

(* Stored approvals. *)
Approvals ==
    [step : Nat, batch : Nat, calls : SUBSET Nat,
     status : {"pending", "approved", "rejected", "cancelled"}]

(* The fields of an executor and of a run. *)
Fields ==
    {"pc", "msgs", "pending", "matches", "left", "ref", "same", "approved",
     "deferred", "spent", "count", "next", "done", "out", "cancelled"}
RunFields == {"status", "mode", "index", "calls", "cost", "prior", "budget"}

(* The fields of an executor. *)
FieldsOK(r) ==
    /\ ex[r].pc \in Pcs
    /\ ex[r].msgs \in Seq(Messages)
    /\ ex[r].pending \subseteq Nat
    /\ ex[r].matches \subseteq Nat
    /\ ex[r].left \subseteq Nat
    /\ ex[r].ref \in Refs
    /\ ex[r].spent \in Nat
    /\ ex[r].count \in Nat
    /\ ex[r].next \in Nat
    /\ ex[r].pc \in {"think", "save"} => ex[r].out \in Messages
    /\ ex[r].pc = "return" => ex[r].out \in Terminal \cup {"awaiting_approval"}

(* The fields of a run that the loop reads. *)
RunTypes(r) ==
    /\ run[r].status \in Statuses
    /\ run[r].mode \in Modes
    /\ run[r].index \in Nat
    /\ run[r].calls \in Nat
    /\ run[r].cost \in Nat

(* The types of the state. *)
Types ==
    /\ DOMAIN ex = Runs /\ \A r \in Runs : DOMAIN ex[r] = Fields
    /\ DOMAIN run = Runs /\ \A r \in Runs : DOMAIN run[r] = RunFields
    /\ conv \in [Runs -> Conversations]
    /\ steps \in [Runs -> Seq(Steps)]
    /\ appr \in [Runs -> Seq(Approvals)]
    /\ batches \in Nat
    /\ \A e \in effects : e.run \in Runs
    /\ \A r \in Runs : FieldsOK(r) /\ RunTypes(r)

(* The executors of the other runs do nothing. *)
Frame(r) ==
    /\ DOMAIN ex' = Runs
    /\ DOMAIN ex'[r] = Fields
    /\ \A q \in Runs \ {r} : ex'[q] = ex[q]

(* What the executor has in hand stays. *)
WorkKept(r) ==
    /\ ex'[r].msgs = ex[r].msgs /\ ex'[r].pending = ex[r].pending
    /\ ex'[r].matches = ex[r].matches /\ ex'[r].left = ex[r].left
    /\ ex'[r].ref = ex[r].ref /\ ex'[r].approved = ex[r].approved
    /\ ex'[r].deferred = ex[r].deferred

(* Its accounting and the index of its next step stay. *)
CountsKept(r) ==
    /\ ex'[r].spent = ex[r].spent /\ ex'[r].count = ex[r].count
    /\ ex'[r].next = ex[r].next

(* The conversation of the run is saved. *)
SavesTo(r, msgs) ==
    conv' = [conv EXCEPT ![r] = [msgs |-> msgs, streaming |-> FALSE]]

(* The run gets one more step. *)
AddsStep(r, s) ==
    steps' = [steps EXCEPT ![r] = Append(steps[r], s)]

(* The effect of InheritDispatch. *)
InheritDispatchDoes(r) ==
    LET first == Min(ex[r].left)
    IN
    /\ ex[r].pc = "inherit"
    /\ ~ex[r].cancelled
    /\ Frame(r)
    /\ ex'[r].pc = IF ex[r].left = {first} THEN "settle" ELSE "inherit"
    /\ ex'[r].msgs = ex[r].msgs
    /\ ex'[r].pending = ex[r].pending
    /\ ex'[r].matches = ex[r].matches
    /\ ex'[r].left = ex[r].left \ {first}
    /\ ex'[r].ref = ex[r].ref
    /\ ex'[r].approved = ex[r].approved
    /\ ex'[r].deferred = ex[r].deferred
    /\ ex'[r].spent = ex[r].spent
    /\ ex'[r].count = ex[r].count
    /\ ex'[r].next = ex[r].next + 1
    /\ ex'[r].out = ex[r].out
    /\ ex'[r].cancelled = ex[r].cancelled
    /\ AddsStep(r, Step("tool", ex[r].next, ex[r].ref, first, "failed", {}, 0))
    /\ UNCHANGED <<run, conv, appr, batches, effects>>

(* The effect of settleAmbiguousToolDispatch. *)
settleAmbiguousToolDispatchDoes(r) ==
    /\ ex[r].pc = "settle"
    /\ ~ex[r].cancelled
    /\ \E n \in DOMAIN steps[r] : /\ steps[r][n].kind = "tool"
               /\ steps' = [steps EXCEPT ![r][n].status = "failed"]
    /\ UNCHANGED <<run, conv, appr, ex, batches, effects>>

(* The effect of RecoverToolResult. *)
RecoverToolResultDoes(r) ==
    LET first == Min(ex[r].matches)
        msgs == Append(ex[r].msgs, ToolResult(CurrentBatch(r), first, "unknown"))
    IN
    /\ ex[r].pc = "settle"
    /\ ~ex[r].deferred => ~ex[r].cancelled
    /\ Frame(r)
    /\ ex'[r].pc = IF ex[r].matches = {first} THEN "normalize" ELSE "settle"
    /\ ex'[r].msgs = msgs
    /\ ex'[r].pending = Pend(msgs)
    /\ ex'[r].matches = ex[r].matches \ {first}
    /\ ex'[r].left = ex[r].left
    /\ ex'[r].ref = ex[r].ref
    /\ ex'[r].approved = FALSE
    /\ ex'[r].deferred = ex[r].deferred
    /\ CountsKept(r)
    /\ ex'[r].out = ex[r].out
    /\ ex'[r].cancelled = ex[r].cancelled
    /\ IF ex[r].deferred THEN conv' = conv ELSE SavesTo(r, msgs)
    /\ UNCHANGED <<run, steps, appr, batches, effects>>

(* The effect of CloseSuperseded. *)
CloseSupersededDoes(r) ==
    LET first == Min(ex[r].pending)
    IN
    /\ ex[r].pc = "normalize"
    /\ ex[r].deferred
    /\ ex[r].pending # {}
    /\ Frame(r)
    /\ ex'[r].pc = ex[r].pc
    /\ ex'[r].msgs = Append(ex[r].msgs, ToolResult(CurrentBatch(r), first, "superseded"))
    /\ ex'[r].pending = ex[r].pending \ {first}
    /\ ex'[r].matches = ex[r].matches
    /\ ex'[r].left = ex[r].left
    /\ ex'[r].ref = ex[r].ref
    /\ ex'[r].approved = ex[r].approved
    /\ ex'[r].deferred = ex[r].deferred
    /\ CountsKept(r)
    /\ ex'[r].out = ex[r].out
    /\ ex'[r].cancelled = ex[r].cancelled
    /\ UNCHANGED <<run, conv, steps, appr, batches, effects>>

(* The effect of AppendDeferredContinuation. *)
AppendDeferredContinuationDoes(r) ==
    /\ ex[r].pc = "normalize"
    /\ ex[r].deferred
    /\ ex[r].pending = {}
    /\ ~ex[r].cancelled
    /\ Frame(r)
    /\ ex'[r].pc = ex[r].pc
    /\ ex'[r].msgs = Append(ex[r].msgs, Prompt)
    /\ ex'[r].pending = ex[r].pending
    /\ ex'[r].matches = ex[r].matches
    /\ ex'[r].left = ex[r].left
    /\ ex'[r].ref = ex[r].ref
    /\ ex'[r].approved = FALSE
    /\ ex'[r].deferred = FALSE
    /\ CountsKept(r)
    /\ ex'[r].out = ex[r].out
    /\ ex'[r].cancelled = ex[r].cancelled
    /\ SavesTo(r, Append(ex[r].msgs, Prompt))
    /\ UNCHANGED <<run, steps, appr, batches, effects>>

(* The effect of CeilingReached. *)
CeilingReachedDoes(r) ==
    /\ ex[r].pc = "normalize"
    /\ ~ex[r].deferred
    /\ ~ex[r].cancelled
    /\ Frame(r)
    /\ ex'[r].pc = "return"
    /\ WorkKept(r)
    /\ CountsKept(r)
    /\ ex'[r].out = "failed"
    /\ ex'[r].cancelled = ex[r].cancelled
    /\ SavesTo(r, ex[r].msgs)
    /\ UNCHANGED <<run, steps, appr, batches, effects>>

(* The effect of RecoverAnswer. *)
RecoverAnswerDoes(r) ==
    /\ ex[r].pc = "normalize"
    /\ ~ex[r].deferred
    /\ ~ex[r].cancelled
    /\ TailCompletedAssistant(ex[r].msgs)
    /\ Frame(r)
    /\ WorkKept(r)
    /\ CountsKept(r)
    /\ ex'[r].cancelled = ex[r].cancelled
    /\ SavesTo(r, ex[r].msgs)
    /\ \/ ex'[r].pc = "fail"
       \/ ex'[r].pc = "return" /\ ex'[r].out = "completed"
    /\ UNCHANGED <<run, steps, appr, batches, effects>>

(* The effect of EnterLoop. *)
EnterLoopDoes(r) ==
    /\ ex[r].pc = "normalize"
    /\ ~ex[r].deferred
    /\ Frame(r)
    /\ WorkKept(r)
    /\ ex'[r].next = ex[r].next
    /\ ex'[r].out = ex[r].out
    /\ ex'[r].cancelled = ex[r].cancelled
    /\ \/ /\ ex'[r].pc = "loop" /\ ex'[r].count = ex[r].count
          /\ ex'[r].spent = ex[r].spent
       \/ ex'[r].pc = "fail" /\ ex'[r].count = 0 /\ ex'[r].spent = 0
    /\ UNCHANGED <<run, conv, steps, appr, batches, effects>>

(* The effect of StopCancelled. *)
StopCancelledDoes(r) ==
    /\ ex[r].pc = "loop"
    /\ ex[r].cancelled
    /\ Frame(r)
    /\ ex'[r].pc = "return"
    /\ WorkKept(r)
    /\ CountsKept(r)
    /\ ex'[r].out = "cancelled"
    /\ ex'[r].cancelled = ex[r].cancelled
    /\ UNCHANGED <<run, conv, steps, appr, batches, effects>>

(* The effect of GatePending. *)
GatePendingDoes(r) ==
    /\ ex[r].pc = "loop"
    /\ ex[r].pending # {}
    /\ ~ex[r].cancelled
    /\ Frame(r)
    /\ ex'[r].pc = "pause"
    /\ WorkKept(r)
    /\ CountsKept(r)
    /\ ex'[r].out = ex[r].out
    /\ ex'[r].cancelled = ex[r].cancelled
    /\ SavesTo(r, ex[r].msgs)
    /\ UNCHANGED <<run, steps, appr, batches, effects>>

(* The effect of ResumePending. *)
ResumePendingDoes(r) ==
    /\ ex[r].pc = "loop"
    /\ ex[r].pending # {}
    /\ ~ex[r].cancelled
    /\ ex[r].approved \/ ~AnyGated(ex[r].msgs, ex[r].pending)
    /\ Frame(r)
    /\ ex'[r].pc = "intent"
    /\ WorkKept(r)
    /\ ex'[r].spent = ex[r].spent
    /\ ex'[r].count = ex[r].count
    /\ ex'[r].next = ex[r].next + 1
    /\ ex'[r].out = ex[r].out
    /\ ex'[r].cancelled = ex[r].cancelled
    /\ AddsStep(r, Step("control", ex[r].next, ex[r].ref, 0, "completed", {}, 0))
    /\ UNCHANGED <<run, conv, appr, batches, effects>>

(* The effect of AwaitApproval. *)
AwaitApprovalDoes(r) ==
    /\ ex[r].pc = "pause"
    /\ ~ex[r].cancelled
    /\ Frame(r)
    /\ ex'[r].pc = "return"
    /\ WorkKept(r)
    /\ ex'[r].spent = ex[r].spent
    /\ ex'[r].count = ex[r].count
    /\ ex'[r].next = ex[r].next + 1
    /\ ex'[r].out = "awaiting_approval"
    /\ ex'[r].cancelled = ex[r].cancelled
    /\ AddsStep(r, Step("approval", ex[r].next, ex[r].ref, 0, "awaiting_approval",
              ex[r].pending, 0))
    /\ UNCHANGED <<run, conv, appr, batches, effects>>

(* The effect of ModelCallLimit. *)
ModelCallLimitDoes(r) ==
    /\ ex[r].pc = "loop"
    /\ ~ex[r].cancelled
    /\ ex[r].pending = {}
    /\ Frame(r)
    /\ ex'[r].pc = "return"
    /\ WorkKept(r)
    /\ CountsKept(r)
    /\ ex'[r].out = "failed"
    /\ ex'[r].cancelled = ex[r].cancelled
    /\ UNCHANGED <<run, conv, steps, appr, batches, effects>>

(* The effect of CallModel. *)
CallModelDoes(r) ==
    /\ ex[r].pc = "loop"
    /\ ~ex[r].cancelled
    /\ ex[r].pending = {}
    /\ Frame(r)
    /\ ex'[r].pc = "model"
    /\ WorkKept(r)
    /\ CountsKept(r)
    /\ ex'[r].out = ex[r].out
    /\ ex'[r].cancelled = ex[r].cancelled
    /\ UNCHANGED <<run, conv, steps, appr, batches, effects>>

(* The effect of StreamPartial. *)
StreamPartialDoes(r) ==
    /\ ex[r].pc = "model"
    /\ ~ex[r].cancelled
    /\ conv' = [conv EXCEPT ![r] =
         [msgs |-> Append(ex[r].msgs, Assistant(0, <<>>, "partial")),
          streaming |-> TRUE]]
    /\ UNCHANGED <<run, steps, appr, ex, batches, effects>>

(* The effect of ModelAnswers. *)
ModelAnswersDoes(r) ==
    /\ ex[r].pc = "model"
    /\ Frame(r)
    /\ ex'[r].pc = "think"
    /\ WorkKept(r)
    /\ CountsKept(r)
    /\ ex'[r].cancelled = ex[r].cancelled
    /\ batches' = batches + 1
    /\ \E calls \in Seq(Kinds), says \in Sayings :
         /\ ex'[r].out = Assistant(batches + 1, calls, says)
         /\ says # "superseded"
    /\ UNCHANGED <<run, conv, steps, appr, effects>>

(* The effect of ModelCallFails. *)
ModelCallFailsDoes(r) ==
    /\ ex[r].pc = "model"
    /\ Frame(r)
    /\ ex'[r].pc = "fail"
    /\ WorkKept(r)
    /\ CountsKept(r)
    /\ ex'[r].out = ex[r].out
    /\ ex'[r].cancelled = ex[r].cancelled
    /\ SavesTo(r, ex[r].msgs)
    /\ UNCHANGED <<run, steps, appr, batches, effects>>

(* The effect of SaveModelStep. *)
SaveModelStepDoes(r) ==
    /\ ex[r].pc = "think"
    /\ ~ex[r].cancelled
    /\ Frame(r)
    /\ ex'[r].pc = "save"
    /\ WorkKept(r)
    /\ ex'[r].spent = ex[r].spent + 1
    /\ ex'[r].count = ex[r].count + 1
    /\ ex'[r].next = ex[r].next + 1
    /\ ex'[r].out = ex[r].out
    /\ ex'[r].cancelled = ex[r].cancelled
    /\ AddsStep(r, Step("model", ex[r].next, <<r, ex[r].count + 1>>, 0, "completed", {},
              ex[r].spent + 1))
    /\ UNCHANGED <<run, conv, appr, batches, effects>>

(* The effect of SaveAssistant. *)
SaveAssistantDoes(r) ==
    LET msgs == Append(ex[r].msgs, ex[r].out)
        next == AfterModelCall(r, msgs)
    IN
    /\ ex[r].pc = "save"
    /\ ~ex[r].cancelled
    /\ Frame(r)
    /\ ex'[r].pc = IF next \in {"ceiling", "completed"} THEN "return" ELSE next
    /\ ex'[r].msgs = msgs
    /\ ex'[r].pending = Pend(msgs)
    /\ ex'[r].matches = ex[r].matches
    /\ ex'[r].left = ex[r].left
    /\ ex'[r].ref = <<r, ex[r].count>>
    /\ ex'[r].approved = FALSE
    /\ ex'[r].deferred = ex[r].deferred
    /\ CountsKept(r)
    /\ ex'[r].cancelled = ex[r].cancelled
    /\ SavesTo(r, msgs)
    /\ next = "ceiling" => ex'[r].out = "failed"
    /\ next = "completed" => ex'[r].out = "completed"
    /\ UNCHANGED <<run, steps, appr, batches, effects>>

(* The effect of SaveIntent. *)
SaveIntentDoes(r) ==
    /\ ex[r].pc = "intent"
    /\ ~ex[r].cancelled
    /\ Frame(r)
    /\ ex'[r].pc = "dispatch"
    /\ WorkKept(r)
    /\ ex'[r].spent = ex[r].spent
    /\ ex'[r].count = ex[r].count
    /\ ex'[r].next = ex[r].next + 1
    /\ ex'[r].out = ex[r].out
    /\ ex'[r].cancelled = ex[r].cancelled
    /\ AddsStep(r, Step("tool", ex[r].next, ex[r].ref, Min(ex[r].pending), "running", {}, 0))
    /\ UNCHANGED <<run, conv, appr, batches, effects>>

(* The effect of Dispatch. *)
DispatchDoes(r) ==
    /\ ex[r].pc = "dispatch"
    /\ Frame(r)
    /\ ex'[r].pc = "finalize"
    /\ WorkKept(r)
    /\ CountsKept(r)
    /\ ex'[r].out = ex[r].out
    /\ ex'[r].cancelled = ex[r].cancelled
    /\ \/ effects' = effects
       \/ effects' = effects \cup
        {[run |-> r, step |-> Len(steps[r]), batch |-> CurrentBatch(r),
          call |-> Min(ex[r].pending),
          kind |-> Bat(ex[r].msgs).calls[Min(ex[r].pending)]]}
    /\ UNCHANGED <<run, conv, steps, appr, batches>>

(* The effect of FinalizeStep. *)
FinalizeStepDoes(r) ==
    /\ ex[r].pc = "finalize"
    /\ ~ex[r].cancelled
    /\ Frame(r)
    /\ ex'[r].pc = "result"
    /\ WorkKept(r)
    /\ CountsKept(r)
    /\ ex'[r].out = ex[r].out
    /\ ex'[r].cancelled = ex[r].cancelled
    /\ steps' = [steps EXCEPT ![r][Len(steps[r])].status = "completed"]
    /\ UNCHANGED <<run, conv, appr, batches, effects>>

(* The effect of SaveToolResult. *)
SaveToolResultDoes(r) ==
    LET first == Min(ex[r].pending)
        msgs == Append(ex[r].msgs, ToolResult(CurrentBatch(r), first, "result"))
    IN
    /\ ex[r].pc = "result"
    /\ ~ex[r].cancelled
    /\ Frame(r)
    /\ ex'[r].pc = IF ex[r].pending = {first} THEN "loop" ELSE "intent"
    /\ ex'[r].msgs = msgs
    /\ ex'[r].pending = ex[r].pending \ {first}
    /\ ex'[r].matches = ex[r].matches
    /\ ex'[r].left = ex[r].left
    /\ ex'[r].ref = ex[r].ref
    /\ ex'[r].approved = ex[r].approved
    /\ ex'[r].deferred = ex[r].deferred
    /\ CountsKept(r)
    /\ ex'[r].out = ex[r].out
    /\ ex'[r].cancelled = ex[r].cancelled
    /\ SavesTo(r, msgs)
    /\ UNCHANGED <<run, steps, appr, batches, effects>>

(* The effect of failedFromError. *)
failedFromErrorDoes(r) ==
    /\ ex[r].pc = "fail"
    /\ ~ex[r].cancelled
    /\ Frame(r)
    /\ ex'[r].pc = "return"
    /\ WorkKept(r)
    /\ CountsKept(r)
    /\ ex'[r].out = "failed"
    /\ ex'[r].cancelled = ex[r].cancelled
    /\ AddsStep(r, Step("failure", ex[r].next, NoRef, 0, "failed", {}, 0))
    /\ UNCHANGED <<run, conv, appr, batches, effects>>

(* The effect of CreateApproval. *)
CreateApprovalDoes(r) ==
    /\ ex[r].pc = "return"
    /\ ex[r].out = "awaiting_approval"
    /\ appr' = [appr EXCEPT ![r] = Append(appr[r],
         [step |-> Len(steps[r]), batch |-> CurrentBatch(r),
          calls |-> ex[r].pending, status |-> "pending"])]
    /\ UNCHANGED <<run, conv, steps, ex, batches, effects>>

(* The answers of a conversation are not newer than b. *)
Upto(m, b) == \A a \in AssistantsAt(m) : m[a].batch <= b

(* A conversation begins with a prompt. *)
Begun(m) == m # <<>> /\ m[1].role # "assistant"

(* The run has an executor. *)
Active(r) == ex[r].pc # "idle"

(* The conversation of a run in the store. *)
Saved(r) == completedConversationMessages(conv[r])

(* The stored conversation is one a provider accepts. *)
SavedOK(r) ==
    /\ Good(Saved(r)) /\ Upto(Saved(r), batches)
    /\ conv[r] # NoConv => Begun(Saved(r))

(* So is the one in hand, which is the stored one when there is one. *)
WorkOK(r) ==
    Active(r) =>
      /\ Good(ex[r].msgs) /\ Upto(ex[r].msgs, batches) /\ Begun(ex[r].msgs)
      /\ ex[r].pending = Pend(ex[r].msgs)
      /\ conv[r] # NoConv => ex[r].msgs = Saved(r)
      /\ ex[r].deferred =>
           /\ conv[r] = NoConv
           /\ ex[r].pc \in {"inherit", "settle", "normalize", "fail", "return"}

(* What is in hand at the steps of the executor. *)
PhaseOK(r) ==
    /\ ex[r].pc \in {"think", "save"} =>
         /\ ex[r].out.role = "assistant" /\ ex[r].out.batch <= batches
         /\ \A a \in AssistantsAt(ex[r].msgs) :
              ex[r].msgs[a].batch < ex[r].out.batch
    /\ ex[r].pc \in {"model", "think", "save"} => ex[r].pending = {}
    /\ ex[r].pc \in {"pause", "intent", "dispatch", "finalize", "result"} =>
         ex[r].pending # {}
    /\ ex[r].pc \in {"inherit", "settle"} =>
         ex[r].matches # {} /\ ex[r].matches \subseteq ex[r].pending
    /\ ex[r].pc = "inherit" => ex[r].left # {} /\ ex[r].left \subseteq ex[r].matches

(* An approval is about the step that asked for it; while that step is the *)
(* newest, the batch it was asked for is the one the conversation ends in. *)
RequestsOK(r) ==
    /\ \A k \in DOMAIN appr[r] :
         /\ appr[r][k].step \in DOMAIN steps[r]
         /\ steps[r][appr[r][k].step].kind = "approval"
         /\ steps[r][appr[r][k].step].calls = appr[r][k].calls
         /\ (\A m \in DOMAIN steps[r] :
               steps[r][m].idx <= steps[r][appr[r][k].step].idx) =>
                  Bat(Saved(r)).batch = appr[r][k].batch
    /\ \A n \in DOMAIN steps[r] :
         steps[r][n].kind = "approval" =>
           /\ conv[r] # NoConv
           /\ Active(r) => steps[r][n].idx < ex[r].next
           /\ ex[r].pc = "save" => steps[r][n].idx < steps[r][Len(steps[r])].idx

(* The operator approved call i of batch b in run r. *)
Granted(r, b, i) ==
    \E k \in DOMAIN appr[r] :
        /\ appr[r][k].status = "approved"
        /\ appr[r][k].batch = b
        /\ i \in appr[r][k].calls

(* What the executor dispatches was approved, if it has to be. *)
GrantsOK(r) ==
    /\ Active(r) /\ ex[r].approved =>
         \A i \in ex[r].pending : Granted(r, Bat(ex[r].msgs).batch, i)
    /\ ex[r].pc \in {"intent", "dispatch", "finalize", "result"} =>
         \A i \in ex[r].pending : Bat(ex[r].msgs).calls[i] = "gated" =>
            Granted(r, Bat(ex[r].msgs).batch, i)
    /\ ex[r].pc \in {"dispatch", "finalize", "result"} => steps[r] # <<>>
    /\ ex[r].pc = "pause" => conv[r] # NoConv
    /\ ex[r].pc = "return" /\ ex[r].out = "awaiting_approval" =>
         /\ conv[r] # NoConv /\ steps[r] # <<>> /\ ex[r].pending # {}
         /\ steps[r][Len(steps[r])].kind = "approval"
         /\ steps[r][Len(steps[r])].calls = ex[r].pending

(* A run is started from one that has ended; a retry names a model call of *)
(* its source.                                                             *)
RetryOK ==
    \A r \in Runs : run[r].mode # "fresh" =>
        /\ Parent[r] \in Runs /\ run[Parent[r]].status \in Terminal
        /\ run[r].mode = "retry" => run[r].index \in 1..run[Parent[r]].calls

(* Of one run. *)
RunOK(r) == SavedOK(r) /\ WorkOK(r) /\ PhaseOK(r) /\ RequestsOK(r) /\ GrantsOK(r)

(* The invariant: types, every run, the tree of runs, and the property. *)
LoopInv ==
    /\ Types
    /\ \A r \in Runs : RunOK(r)
    /\ RetryOK
    /\ GatedNeedsApproval

(* A step of run r. *)
OfRun(r) ==
    /\ batches' \in Nat /\ batches <= batches'
    /\ \A q \in Runs \ {r} :
         /\ ex'[q] = ex[q] /\ conv'[q] = conv[q]
         /\ steps'[q] = steps[q] /\ appr'[q] = appr[q]

(* Approvals that were granted stay. *)
GrantsStay ==
    \A q \in Runs : \A k \in DOMAIN appr[q] :
        appr[q][k].status = "approved" =>
            /\ k \in DOMAIN appr'[q] /\ appr'[q][k].status = "approved"
            /\ appr'[q][k].batch = appr[q][k].batch
            /\ appr'[q][k].calls = appr[q][k].calls

(* Steps of a run that change only in their status. *)
SameSteps(r) ==
    /\ steps'[r] \in Seq(Steps)
    /\ DOMAIN steps'[r] = DOMAIN steps[r]
    /\ Len(steps'[r]) = Len(steps[r])
    /\ \A n \in DOMAIN steps[r] :
         /\ steps'[r][n].kind = steps[r][n].kind
         /\ steps'[r][n].idx = steps[r][n].idx
         /\ steps'[r][n].ref = steps[r][n].ref
         /\ steps'[r][n].call = steps[r][n].call
         /\ steps'[r][n].calls = steps[r][n].calls

(* Only the status and the accounting of the runs change, and a run that   *)
(* has ended stays so.                                                     *)
RunsKept ==
    /\ DOMAIN run' = Runs
    /\ \A q \in Runs :
         /\ DOMAIN run'[q] = RunFields
         /\ run'[q].status \in Statuses
         /\ run[q].status \in Terminal => run'[q].status \in Terminal
         /\ run'[q].mode = run[q].mode /\ run'[q].index = run[q].index
         /\ run'[q].calls \in Nat /\ run'[q].calls >= run[q].calls
         /\ run'[q].cost \in Nat

(* The executors stop, or only hear of a cancellation. *)
ExecutorsKept ==
    /\ DOMAIN ex' = Runs
    /\ \A q \in Runs :
         /\ DOMAIN ex'[q] = Fields
         /\ \/ ex'[q] = Idle
            \/ /\ ex'[q].pc = ex[q].pc /\ ex'[q].msgs = ex[q].msgs
               /\ ex'[q].pending = ex[q].pending /\ ex'[q].matches = ex[q].matches
               /\ ex'[q].left = ex[q].left /\ ex'[q].ref = ex[q].ref
               /\ ex'[q].approved = ex[q].approved
               /\ ex'[q].deferred = ex[q].deferred
               /\ ex'[q].spent = ex[q].spent /\ ex'[q].count = ex[q].count
               /\ ex'[q].next = ex[q].next /\ ex'[q].out = ex[q].out

(* Approvals change in their status only, and none is taken back. *)
ApprovalsKept ==
    /\ appr' \in [Runs -> Seq(Approvals)]
    /\ \A q \in Runs :
         /\ DOMAIN appr'[q] = DOMAIN appr[q]
         /\ \A k \in DOMAIN appr[q] :
              /\ appr'[q][k].step = appr[q][k].step
              /\ appr'[q][k].batch = appr[q][k].batch
              /\ appr'[q][k].calls = appr[q][k].calls
              /\ appr[q][k].status = "approved" => appr'[q][k].status = "approved"

(* What a worker starts from. *)
CheckpointOK(r, c) ==
    /\ Good(c.msgs) /\ Upto(c.msgs, batches) /\ Begun(c.msgs)
    /\ c.ref \in Refs /\ c.spent \in Nat /\ c.count \in Nat /\ c.lastIdx \in Nat
    /\ c.same <=> conv[r] # NoConv
    /\ c.same => c.msgs = Saved(r) /\ c.lastIdx = LastIndex(r)
    /\ c.deferred => ~c.same
    /\ c.approved => /\ c.same
                     /\ sameRunPendingToolCallsApproved(r, Pend(c.msgs))

(* The effect of Hydrate. *)
HydrateDoes(r, c) ==
    LET matches == RecoveryMatches(c)
    IN
    /\ DOMAIN ex' = Runs /\ DOMAIN ex'[r] = Fields
    /\ \A q \in Runs \ {r} : ex'[q] = ex[q]
    /\ ex'[r].pc = IF InvalidBundle(c.msgs) THEN "fail"
                   ELSE IF matches = {} THEN "normalize"
                   ELSE IF c.same THEN "settle" ELSE "inherit"
    /\ ex'[r].msgs = c.msgs /\ ex'[r].pending = Pend(c.msgs)
    /\ ex'[r].matches = matches
    /\ ex'[r].left = IF c.same THEN {} ELSE matches
    /\ ex'[r].ref = c.ref
    /\ ex'[r].approved = c.approved /\ ex'[r].deferred = c.deferred
    /\ ex'[r].spent = c.spent /\ ex'[r].count = c.count
    /\ ex'[r].next = c.lastIdx + 1

(* The executor of the run may still write. *)
Live(r) == Active(r) /\ ~ex[r].cancelled

(* The steps that name a model call, and the model call the newest names. *)
WithRef(s) == {n \in DOMAIN s : s[n].ref # NoRef}

(* The model call of the newest step that names one:                       *)
(* latestAgentLoopModelCallRef.                                            *)
NewestRef(s) ==
    LET top == Max({s[n].idx : n \in WithRef(s)})
    IN  IF WithRef(s) = {} THEN NoRef
        ELSE s[Max({n \in WithRef(s) : s[n].idx = top})].ref

(* The run has ended, and no step of its executor reaches the store. *)
Ended(r) == run[r].status \in Terminal /\ ~Live(r)

(* A run is started from one that has ended. *)
LifeOK ==
    /\ \A p, q \in Runs : p \in Line(q) /\ p # q /\ run[q].status # "none" => Ended(p)
    /\ \A r \in Runs :
         /\ run[r].status = "none" =>
              /\ steps[r] = <<>> /\ conv[r] = NoConv /\ ~Active(r)
              /\ run[r].mode = "fresh"
         /\ run[r].status # "none" /\ r # 1 => run[r].mode # "fresh"
         /\ Active(r) =>
              \/ run[r].status = "cancelled"
              \/ run[r].status = "running" /\ ~ex[r].cancelled

(* A run without a step that names a model call has made none. *)
CountOK(r) ==
    /\ \A n \in DOMAIN steps[r] : steps[r][n].kind = "model" => steps[r][n].ref # NoRef
    /\ WithRef(steps[r]) = {} => run[r].calls = 0 /\ (Active(r) => ex[r].count = 0)

(* The second layer of the invariant: how the tree of runs grows. *)
ChainInv == LifeOK /\ \A r \in Runs : CountOK(r)

(* The newest step. *)
Newer(s, m, n) == s[m].idx < s[n].idx \/ (s[m].idx = s[n].idx /\ m <= n)

(* The model call that pending calls belong to. *)
Origin(r) == pendingToolCallOrigin(r)

(* The runs that know. *)
Known(r) == {q \in Line(r) : directPendingToolCallOrigin(q) # NoRef}

(* The steps of an executor, and what they have in common. *)
Executor(r) ==
    \/ InheritDispatch(r) \/ settleAmbiguousToolDispatch(r) \/ RecoverToolResult(r)
    \/ CloseSuperseded(r) \/ AppendDeferredContinuation(r) \/ CeilingReached(r)
    \/ RecoverAnswer(r) \/ EnterLoop(r) \/ StopCancelled(r) \/ GatePending(r)
    \/ ResumePending(r) \/ AwaitApproval(r) \/ ModelCallLimit(r) \/ CallModel(r)
    \/ StreamPartial(r) \/ ModelAnswers(r) \/ ModelCallFails(r) \/ SaveModelStep(r)
    \/ SaveAssistant(r) \/ SaveIntent(r) \/ Dispatch(r) \/ FinalizeStep(r)
    \/ SaveToolResult(r) \/ failedFromError(r) \/ CreateApproval(r)

(* The run goes on; a cancelled executor adds no step, and writes its      *)
(* conversation only after a model call that failed.                       *)
Stays(r) ==
    /\ run' = run /\ Active(r) /\ Active(r)'
    /\ ex'[r].cancelled = ex[r].cancelled
    /\ \A q \in Runs \ {r} :
         ex'[q] = ex[q] /\ conv'[q] = conv[q] /\ steps'[q] = steps[q]
    /\ effects' = effects \/ Dispatch(r)
    /\ conv' = conv \/ Live(r) \/ (ex[r].pc = "model" /\ SavesTo(r, ex[r].msgs))
    /\ batches' \in Nat /\ batches <= batches'

(* Its steps stay, or one is added. *)
Moves(r) ==
    /\ Stays(r)
    /\ \/ steps' = steps /\ ex'[r].count \in {ex[r].count, 0}
       \/ Live(r) /\ SameSteps(r) /\ ex'[r].count = ex[r].count
       \/ /\ Live(r)
          /\ \E s \in Steps :
               /\ AddsStep(r, s)
               /\ s.kind = "model" => s.ref # NoRef
               /\ s.ref # NoRef \/ ex'[r].count = ex[r].count

(* A run in a step that changes no steps, and no run but in its status and *)
(* its accounting.                                                         *)
ChainStep(q) ==
    /\ run'[q].status = "none" <=> run[q].status = "none"
    /\ Ended(q) => run'[q].status \in Terminal /\ ~Live(q)'
    /\ run'[q].mode = run[q].mode
    /\ WithRef(steps[q]) = {} => run'[q].calls = 0
    /\ run[q].status = "none" => conv'[q] = conv[q] /\ ~Active(q)'
    /\ Active(q)' =>
         /\ \/ run'[q].status = "cancelled"
            \/ run'[q].status = "running" /\ ~ex'[q].cancelled
         /\ WithRef(steps[q]) = {} => ex'[q].count = 0

(* The ways a run is started. *)
Starts(r) ==
    \/ \E budget \in ResumeBudgets : ResumeTaskRun(r, budget)
    \/ ContinueAgentTask(r)
    \/ \E k \in 1..MaxModelCalls : RetryTaskFromModelCall(r, k)

(* The steps that name a model call: their indexes and what they name. *)
RefsBelow(s, k) == \A n \in WithRef(s) : s[n].idx <= k

(* Every step that names a model call names this one. *)
OnlyRef(s, ref) == \A n \in WithRef(s) : s[n].ref = ref

(* The stored evidence of a dispatch in run q. *)
ToolAt(q, ref, i) ==
    \E n \in DOMAIN steps[q] :
        steps[q][n].kind = "tool" /\ steps[q][n].ref = ref /\ steps[q][n].call = i

(* The run took over pending calls of its source; those with evidence; how *)
(* far the steps of earlier attempts of it reach.                          *)
SrcPend(r) == run[r].mode \in {"resume", "continue"} /\ Pend(Saved(Parent[r])) # {}

(* The pending calls of the source that have evidence there: what a run    *)
(* takes over as matched.                                                  *)
Taken(r) == {i \in Pend(Saved(Parent[r])) : ToolAt(Parent[r], Origin(Parent[r]), i)}

(* How many steps a run may have before its first dispatch. *)
Cap(r) == IF SrcPend(r) /\ Taken(r) # {} THEN Cardinality(Taken(r)) ELSE 1

(* From an intent to its result. *)
Dispatches == {"dispatch", "finalize", "result"}

(* A run without a conversation of its own: its evidence is that of its    *)
(* source, and no effect is older than the dispatch in hand.               *)
FirstOK(r) ==
    conv[r] = NoConv /\ ~Ended(r) =>
      /\ ex[r].pc \notin Dispatches => RefsBelow(steps[r], Cap(r))
      /\ SrcPend(r) => OnlyRef(steps[r], Origin(Parent[r]))
      /\ (\E e \in effects : e.run = r) => ex[r].pc \in {"finalize", "result"}
      /\ ex[r].pc \in Dispatches =>
           /\ steps[r][Len(steps[r])].kind = "tool"
           /\ steps[r][Len(steps[r])].status # "failed"
      /\ Active(r) /\ SrcPend(r) =>
           ex[r].ref = Origin(Parent[r]) /\ (ex[r].pending = {} => ex[r].deferred)
      /\ ex[r].pc \in {"normalize", "loop", "model", "think"} /\ ~ex[r].deferred =>
           ex[r].next <= 1

(* While it records what it takes over. *)
InheritOK(r) ==
    Live(r) /\ ex[r].pc = "inherit" =>
      /\ conv[r] = NoConv /\ SrcPend(r) /\ ex[r].matches = Taken(r)
      /\ ex[r].next + Cardinality(ex[r].left) = Cardinality(Taken(r)) + 1

(* A step that names a model call is not newer than the next one. *)
IndexOK(r) ==
    Live(r) /\ ex[r].pc \notin {"inherit", "fail", "return"} =>
        RefsBelow(steps[r], ex[r].next)

(* What holds of a run on its way to its first conversation. *)
Progress(r) == FirstOK(r) /\ InheritOK(r) /\ IndexOK(r)

(* The third layer of the invariant: evidence is kept in the order it is   *)
(* looked for.                                                             *)
ProgressInv == \A r \in Runs : Progress(r)

(* What the run knows of its source stays. *)
SourceSame(r) ==
    /\ SrcPend(r)' <=> SrcPend(r)
    /\ SrcPend(r) => Taken(r)' = Taken(r) /\ Origin(Parent[r])' = Origin(Parent[r])
    /\ Cap(r)' = Cap(r)

(* It adds no step. *)
Quiet(r) ==
    /\ SameSteps(r) /\ effects' = effects /\ ex'[r].next = ex[r].next
    /\ ex[r].pc # "inherit" /\ ex'[r].pc \notin Dispatches /\ ex'[r].pc # "inherit"
    /\ ex[r].pc \in {"fail", "return"} => ex'[r].pc \in {"fail", "return"}
    /\ \/ conv'[r] # NoConv
       \/ /\ conv'[r] = conv[r] /\ ex'[r].ref = ex[r].ref /\ ex[r].pc \notin Dispatches
          /\ ex'[r].pending = {} => ex[r].pending = {} \/ ex'[r].deferred
          /\ ex[r].deferred => ex'[r].deferred
          /\ ex'[r].pc \in {"normalize", "loop", "model", "think"} =>
               ex'[r].deferred \/ ex[r].pc \in {"normalize", "loop", "model", "think"}

(* A step of a run that has not ended. *)
Moving(r) ==
    /\ LoopInv /\ ChainInv /\ LoopInv' /\ ChainInv' /\ ProgressInv
    /\ Moves(r) /\ Live(r)

(* The prompt, or messages of the source. *)
Copied(r, m) ==
    \A n \in DOMAIN m :
        \/ m[n] = Prompt
        \/ Parent[r] \in Runs /\ \E k \in DOMAIN Saved(Parent[r]) : m[n] = Saved(Parent[r])[k]

(* What a claim puts in hand: the own conversation, that of the source     *)
(* with calls pending, or one without.                                     *)
OwnClaim(r) ==
    /\ conv[r] # NoConv
    /\ ex'[r].msgs = Saved(r) /\ ex'[r].pending = Pend(Saved(r))
    /\ ex'[r].pending # {} => ex'[r].ref = Origin(r)
    /\ ex'[r].matches = {i \in Pend(Saved(r)) : ToolAt(r, Origin(r), i)}
    /\ ex'[r].next = LastIndex(r) + 1
    /\ ex'[r].pc # "inherit"

(* A claim that takes over the pending calls of its source. *)
SourceClaim(r) ==
    /\ conv[r] = NoConv /\ SrcPend(r)
    /\ ex'[r].msgs = Saved(Parent[r]) /\ ex'[r].pending = Pend(Saved(Parent[r]))
    /\ ex'[r].ref = Origin(Parent[r])
    /\ ex'[r].matches = Taken(r) /\ ex'[r].left = Taken(r)
    /\ ex'[r].next = 1
    /\ ex'[r].pc # "settle"

(* A claim that takes over no calls, and no message but those of its       *)
(* source.                                                                 *)
FreshClaim(r) ==
    /\ conv[r] = NoConv /\ ~SrcPend(r)
    /\ ex'[r].pending = {} /\ ex'[r].next = 1
    /\ ex'[r].pc \notin {"inherit", "settle"}
    /\ Copied(r, ex'[r].msgs)

(* A claim that finds its checkpoint. *)
Claims(r) ==
    /\ run[r].status = "queued" /\ ~Active(r)
    /\ UNCHANGED <<steps, batches, effects>>
    /\ \A q \in Runs : /\ run'[q].mode = run[q].mode
                       /\ Saved(q)' = Saved(q)
                       /\ conv'[q] = NoConv <=> conv[q] = NoConv
    /\ \A q \in Runs \ {r} : ex'[q] = ex[q] /\ conv'[q] = conv[q] /\ run'[q] = run[q]
    /\ run'[r].status = "running" /\ ~ex'[r].cancelled
    /\ conv'[r] = conv[r] \/ ~conv'[r].streaming
    /\ ex'[r].pc \in {"fail", "normalize", "settle", "inherit"}
    /\ ex'[r].pc = "normalize" => ex'[r].matches = {}
    /\ OwnClaim(r) \/ SourceClaim(r) \/ FreshClaim(r)

(* Run q has dispatched call i of batch b, is about to, or either. *)
Ran(q, b, i) == \E e \in effects : e.run = q /\ e.batch = b /\ e.call = i

(* The executor of a run is about to dispatch the call. *)
Dispatching(q, b, i) ==
    ex[q].pc = "dispatch" /\ CurrentBatch(q) = b /\ Min(ex[q].pending) = i

(* The call had its effect in the run, or is about to. *)
Committed(q, b, i) == Ran(q, b, i) \/ Dispatching(q, b, i)

(* One of the two goes back to the other. *)
Kin(q, r) == q \in Line(r) \/ r \in Line(q)

(* No run of the lines through r has; no call of the batch. *)
Free(r, b, i) == \A q \in Runs : Kin(q, r) => ~Committed(q, b, i)

(* No call of the batch had its effect on the lines through the run, or is *)
(* about to.                                                               *)
NewBatch(r, b) == \A i : Free(r, b, i)

(* The pending calls the executor will not start: those it recovers, the   *)
(* one it has started, or all of them when it stops.                       *)
Handled(r) ==
    IF ex[r].pc \in {"inherit", "settle"} THEN ex[r].matches
    ELSE IF ex[r].pc \in Dispatches THEN {Min(ex[r].pending)}
    ELSE IF ex[r].pc \in {"fail", "return"} THEN ex[r].pending
    ELSE {}

(* The executor knows the model call its pending calls belong to. *)
OriginOK(r) ==
    Live(r) =>
      /\ ex[r].pending # {} => ex[r].ref = Origin(r)
      /\ ex[r].pc = "save" => Origin(r) = <<r, ex[r].count>>

(* What it may still start is free; what it recovers or has started has    *)
(* evidence in its own run.                                                *)
ClaimOK(r) ==
    Live(r) =>
      /\ \A i \in ex[r].pending \ Handled(r) : Free(r, CurrentBatch(r), i)
      /\ ex[r].pc = "settle" => \A i \in ex[r].matches : ToolAt(r, Origin(r), i)
      /\ ex[r].pc = "inherit" =>
           \A i \in ex[r].matches \ ex[r].left : ToolAt(r, Origin(r), i)
      /\ ex[r].pc \in Dispatches => ToolAt(r, Origin(r), Min(ex[r].pending))
      /\ ex[r].pc \in {"think", "save"} => NewBatch(r, ex[r].out.batch)

(* What is about to be dispatched, even by a cancelled executor, has not   *)
(* been dispatched on its lines and no other run on them is about to.      *)
DispatchOK(r) ==
    ex[r].pc = "dispatch" => \A q \in Runs : Kin(q, r) =>
      /\ ~Ran(q, CurrentBatch(r), Min(ex[r].pending))
      /\ q # r => ~Dispatching(q, CurrentBatch(r), Min(ex[r].pending))

(* A pending call of the stored conversation that was dispatched has       *)
(* evidence in the run of that conversation.                               *)
EvidenceOK(r) ==
    \A i \in Pend(Saved(r)), q \in Line(r) :
        Committed(q, Bat(Saved(r)).batch, i) => ToolAt(r, Origin(r), i)

(* What holds of one run. *)
Replays(r) == OriginOK(r) /\ ClaimOK(r) /\ DispatchOK(r) /\ EvidenceOK(r)

(* Effects belong to answers that were given. *)
BatchesBound == \A e \in effects : e.batch \in 0..batches

(* The fourth layer of the invariant: every call that may have taken       *)
(* effect has evidence where it is looked for.                             *)
ReplayInv == NoReplay /\ BatchesBound /\ \A r \in Runs : Replays(r)

(* No run commits to a call it had not committed to. *)
NoNew == \A q \in Runs : \A b, i : Committed(q, b, i)' => Committed(q, b, i)

(* What the step may leave in hand: evidence for what it will not start,   *)
(* and the rest free.                                                      *)
Held(r) ==
    /\ ex'[r].pending # {} => ex'[r].ref = Origin(r)
    /\ ex'[r].pc \notin {"save", "dispatch"}
    /\ \A i \in ex'[r].pending \ Handled(r)' : Free(r, CurrentBatch(r)', i)
    /\ ex'[r].pc = "settle" => \A i \in ex'[r].matches : ToolAt(r, Origin(r), i)'
    /\ ex'[r].pc = "inherit" =>
         \A i \in ex'[r].matches \ ex'[r].left : ToolAt(r, Origin(r), i)'
    /\ ex'[r].pc \in Dispatches => ToolAt(r, Origin(r), Min(ex[r].pending))'
    /\ ex'[r].pc = "think" => NewBatch(r, ex[r].out.batch)'
    /\ \/ Saved(r)' = Saved(r)
       \/ \A i \in Pend(Saved(r))' :
            Free(r, Bat(Saved(r))'.batch, i) \/ ToolAt(r, Origin(r), i)

(* What the step commits to was free, or the run had committed to it. *)
Commits(r) ==
    \A b, i :
      /\ Ran(r, b, i)' => Committed(r, b, i)
      /\ Dispatching(r, b, i)' => Free(r, b, i)
      /\ \A p \in Runs \ {r} : Ran(p, b, i)' => Ran(p, b, i)

(* The steps stay, and no run commits to a call. *)
Settled == steps' = steps /\ NoNew

(* A step of the store: no effect, and an executor stays, is cancelled or  *)
(* stops.                                                                  *)
StoreMoves ==
    /\ UNCHANGED <<conv, steps, batches, effects>>
    /\ \A q \in Runs :
         \/ ex'[q] = ex[q]
         \/ ex'[q].pc = "idle"
         \/ /\ ~Live(q)' /\ ex'[q].pc = ex[q].pc /\ ex'[q].out = ex[q].out
            /\ ex'[q].msgs = ex[q].msgs /\ ex'[q].pending = ex[q].pending

(* The conversation holds the note that the call was superseded. *)
SupIn(m, b, i) ==
    \E n \in DOMAIN m : m[n].says = "superseded" /\ m[n].batch = b /\ m[n].call = i

(* The call is pending in the conversation. *)
Open(m, b, i) == i \in Pend(m) /\ Bat(m).batch = b

(* The run cannot dispatch the call any more. *)
Gone(r, b, i) ==
    /\ ~Open(Saved(r), b, i)
    /\ Live(r) => /\ ~Open(ex[r].msgs, b, i)
                  /\ ex[r].pc \in {"think", "save"} => ex[r].out.batch # b

(* The executor of the run may still save what it has in hand. *)
Holds(q) == Live(q) \/ ex[q].pc = "model"

(* The run says, or will save, that the call was superseded. *)
Has(q, b, i) == SupIn(Saved(q), b, i) \/ (Holds(q) /\ SupIn(ex[q].msgs, b, i))

(* On the lines through q the call has had no effect, and no run that goes *)
(* back to q can give it one.                                              *)
Dead(q, b, i) ==
    /\ Free(q, b, i) /\ b \in 0..batches
    /\ \A r \in Runs : q \in Line(r) => Gone(r, b, i)

(* A partial answer that is being streamed supersedes nothing, nor does an *)
(* answer.                                                                 *)
TailOK(r) ==
    /\ \A b, i : SupIn(conv[r].msgs, b, i) => SupIn(Saved(r), b, i)
    /\ ex[r].pc \in {"think", "save"} => ex[r].out.says # "superseded"

(* The fifth layer of the invariant: a call that a run says was superseded *)
(* is dead for that run and the runs that go back to it.                   *)
SupersedeInv ==
    \A q \in Runs : TailOK(q) /\ \A b, i : Has(q, b, i) => Dead(q, b, i)

(* What a step of an executor does to the calls of its conversation: only  *)
(* a pending call is dispatched, only an answer opens calls, and only a    *)
(* pending call that never started is superseded.                          *)
Treats(r) ==
    /\ \A q \in Runs : \A b, i :
         Free(q, b, i) /\ (Kin(q, r) => ~Open(ex[r].msgs, b, i)) => Free(q, b, i)'
    /\ \A b, i : Open(ex'[r].msgs, b, i) =>
         Open(ex[r].msgs, b, i) \/ (ex[r].pc = "save" /\ b = ex[r].out.batch)
    /\ \A b, i : SupIn(ex'[r].msgs, b, i) =>
         \/ SupIn(ex[r].msgs, b, i)
         \/ /\ Free(r, b, i)' /\ b \in 0..batches' /\ ~Open(ex'[r].msgs, b, i)
            /\ ex'[r].pc = "normalize"
    /\ ex'[r].pc \in {"think", "save"} =>
         /\ ex'[r].out.says # "superseded"
         /\ \/ ex[r].pc \in {"think", "save"} /\ ex'[r].out = ex[r].out
            \/ ex'[r].out.batch = batches + 1
    /\ conv'[r] = conv[r] \/ ~conv'[r].streaming \/ StreamPartial(r)

=============================================================================
