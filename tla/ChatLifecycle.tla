---------------------------- MODULE ChatLifecycle ----------------------------
(***************************************************************************)
(* The lifecycle registry of chat sessions (internal/api/chat_live.go:     *)
(* agentChatLive) with the handlers that share it in one process:          *)
(*                                                                         *)
(*   - requests take a lifecycle snapshot, read the session, and then      *)
(*     register a turn, run a counted operation (config writes, attachment *)
(*     claims, detached settlements) or an exclusive settings mutation;    *)
(*   - closers (delete, close, idle sweep, workspace discard) close the    *)
(*     lifecycle, wait for the destructive token and for the operations    *)
(*     that were admitted before, stop or refuse the turn, and change or   *)
(*     delete the session.                                                 *)
(*                                                                         *)
(* A step is one critical section of agentChatLive.mu, one channel         *)
(* operation or one store call.  The subscribers of a session and the      *)
(* settlement dispatcher's own queue are left out.                         *)
(*                                                                         *)
(* An operator directly above the definition it varies is that definition  *)
(* with a plausible defect; the specification never uses it.               *)
(***************************************************************************)
EXTENDS Integers, FiniteSets

CONSTANTS
    Sessions,
    Requests, NoRequest,
    Closers,
    MaxEpoch      \* bound on the lifecycle epoch

ASSUME RequestsAssumption == IsFiniteSet(Requests) /\ NoRequest \notin Requests
ASSUME ClosersAssumption == IsFiniteSet(Closers)
ASSUME MaxEpochAssumption == MaxEpoch \in Nat

VARIABLES
    \* agentChatLive.
    known,           \* sessions with an entry in `lifecycles`
    epoch, closures, operations, snapshots,
    token,           \* state.destructive: "none" (nil), "free", or "held"
    turn,            \* activeTurns: the request whose turn it is
    mutating,
    admissionClosed, \* turnAdmissionClosed
    \* Requests.
    rpc, rs,         \* control state and session
    leased,          \* requests whose snapshot is not released
    snapEpoch,       \* the epoch of the snapshot
    reason,          \* agentChatTurnControl.reason; a turn with one is cancelled
    reset,           \* requests whose session's settings changed since they read it
    overtaken,       \* requests whose session was closed or deleted since
    \* Closers.
    cpc, cs,         \* control state and session
    bound,           \* closers that hold the token of their session's entry
    drained,         \* closers whose `drained` channel is closed
    awaits,          \* the turn a closer waits for
    deleted          \* sessions whose row is gone

live == <<known, epoch, closures, operations, snapshots, token>>
turns == <<turn, reason, awaits>>
rvars == <<rpc, rs, leased, snapEpoch, reset, overtaken>>
cvars == <<cpc, cs, bound, drained>>
vars == <<live, turns, mutating, admissionClosed, rvars, cvars, deleted>>

(* Who is counted in operations, in closures and in mutating. *)
Mutates(r) == rpc[r] \in {"mutating", "reloaded", "written"}
Operates(r) == rpc[r] \in {"operating", "direct"} \/ Mutates(r)
Closes(c) == cpc[c] \in {"waiting", "held", "drained", "cancelling", "quiet",
                         "checked"}

(* The closer has the destructive token and every earlier operation ended. *)
Destructive(c) == cpc[c] \in {"drained", "cancelling", "quiet", "checked"}

TypeOK ==
    /\ known \subseteq Sessions
    /\ epoch \in [Sessions -> Nat]
    /\ closures \in [Sessions -> Nat]
    /\ operations \in [Sessions -> Nat]
    /\ snapshots \in [Sessions -> Nat]
    /\ token \in [Sessions -> {"none", "free", "held"}]
    /\ turn \in [Sessions -> Requests \cup {NoRequest}]
    /\ mutating \subseteq Sessions
    /\ admissionClosed \in BOOLEAN
    /\ rpc \in [Requests -> {"idle", "snapped", "read", "turn", "operating",
                             "direct", "mutating", "reloaded", "written",
                             "done"}]
    /\ rs \in [Requests -> Sessions]
    /\ leased \subseteq Requests
    /\ snapEpoch \in [Requests -> Nat]
    /\ reason \in [Requests -> {"none", "operator", "shutdown"}]
    /\ reset \subseteq Requests
    /\ overtaken \subseteq Requests
    /\ cpc \in [Closers -> {"idle", "waiting", "held", "drained", "cancelling",
                            "quiet", "checked", "returning"}]
    /\ cs \in [Closers -> Sessions]
    /\ bound \subseteq Closers
    /\ drained \subseteq Closers
    /\ awaits \in [Closers -> Requests \cup {NoRequest}]
    /\ deleted \subseteq Sessions

Init ==
    /\ known = {}
    /\ epoch = [s \in Sessions |-> 0]
    /\ closures = [s \in Sessions |-> 0]
    /\ operations = [s \in Sessions |-> 0]
    /\ snapshots = [s \in Sessions |-> 0]
    /\ token = [s \in Sessions |-> "none"]
    /\ turn = [s \in Sessions |-> NoRequest]
    /\ mutating = {}
    /\ admissionClosed = FALSE
    /\ rpc = [r \in Requests |-> "idle"]
    /\ rs \in [Requests -> Sessions]
    /\ leased = {}
    /\ snapEpoch = [r \in Requests |-> 0]
    /\ reason = [r \in Requests |-> "none"]
    /\ reset = {}
    /\ overtaken = {}
    /\ cpc = [c \in Closers |-> "idle"]
    /\ cs \in [Closers -> Sessions]
    /\ bound = {}
    /\ drained = {}
    /\ awaits = [c \in Closers |-> NoRequest]
    /\ deleted = {}

-----------------------------------------------------------------------------
(* The registry. *)

(* reapLifecycleLocked at the end of a critical section that sets the      *)
(* epoch to e: an entry nobody needs is deleted, its epoch and its token   *)
(* channel with it.                                                        *)
ReapIgnoringSnapshots(s, e) ==
    LET idle == /\ closures'[s] = 0
                /\ operations'[s] = 0
                /\ turn'[s] = NoRequest
                /\ s \notin mutating'
    IN  /\ known' = IF idle THEN known \ {s} ELSE known
        /\ epoch' = [epoch EXCEPT ![s] = IF idle THEN 0 ELSE e]
        /\ token' = [token EXCEPT ![s] = IF idle THEN "none" ELSE @]
        /\ bound' = IF idle THEN {c \in bound : cs[c] # s} ELSE bound
ReapNever(s, e) ==
    /\ epoch' = [epoch EXCEPT ![s] = e]
    /\ UNCHANGED <<known, token, bound>>
Reap(s, e) ==
    LET idle == /\ closures'[s] = 0
                /\ operations'[s] = 0
                /\ snapshots'[s] = 0
                /\ turn'[s] = NoRequest
                /\ s \notin mutating'
    IN  /\ known' = IF idle THEN known \ {s} ELSE known
        /\ epoch' = [epoch EXCEPT ![s] = IF idle THEN 0 ELSE e]
        /\ token' = [token EXCEPT ![s] = IF idle THEN "none" ELSE @]
        /\ bound' = IF idle THEN {c \in bound : cs[c] # s} ELSE bound

(* snapshotCurrentLocked. *)
SnapshotCurrent(r) ==
    LET s == rs[r] IN
    /\ r \in leased
    /\ s \in known
    /\ closures[s] = 0
    /\ epoch[s] = snapEpoch[r]

(* operationsDrained is closed when the last operation ends. *)
DrainedAt(s) == IF operations'[s] = 0
                THEN drained \cup {c \in Closers : Closes(c) /\ cs[c] = s}
                ELSE drained

(* Bound: the epochs that are sure to come stay below MaxEpoch. *)
EpochLeft(s, n) ==
    epoch[s] + closures[s] + (IF s \in mutating THEN 1 ELSE 0) + n <= MaxEpoch

Step(r, next) == rpc' = [rpc EXCEPT ![r] = next]
CloserStep(c, next) == cpc' = [cpc EXCEPT ![c] = next]

-----------------------------------------------------------------------------
(* Requests. *)

(* snapshotLifecycle. *)
SnapshotLifecycle(r, s) ==
    /\ rpc[r] = "idle"
    /\ Step(r, "snapped")
    /\ rs' = [rs EXCEPT ![r] = s]
    /\ known' = known \cup {s}
    /\ snapshots' = [snapshots EXCEPT ![s] = @ + 1]
    /\ snapEpoch' = [snapEpoch EXCEPT ![r] = epoch[s]]
    /\ leased' = leased \cup {r}
    /\ UNCHANGED <<epoch, closures, operations, token, turns, mutating,
                   admissionClosed, reset, overtaken, cvars, deleted>>

(* The session is read after its snapshot was taken; a deleted one ends    *)
(* the request.                                                            *)
ReadSession(r) ==
    /\ rpc[r] = "snapped"
    /\ Step(r, IF rs[r] \in deleted THEN "done" ELSE "read")
    /\ UNCHANGED <<live, turns, mutating, admissionClosed, rs, leased,
                   snapEpoch, reset, overtaken, cvars, deleted>>

(* registerTurn accepts. *)
RegisterTurnAfterShutdown(r) ==
    /\ rpc[r] = "read"
    /\ SnapshotCurrent(r)
    /\ turn[rs[r]] = NoRequest
    /\ rs[r] \notin mutating
    /\ turn' = [turn EXCEPT ![rs[r]] = r]
    /\ Step(r, "turn")
    /\ UNCHANGED <<live, reason, awaits, mutating, admissionClosed, rs, leased,
                   snapEpoch, reset, overtaken, cvars, deleted>>
RegisterTurn(r) ==
    /\ rpc[r] = "read"
    /\ ~admissionClosed
    /\ SnapshotCurrent(r)
    /\ turn[rs[r]] = NoRequest
    /\ rs[r] \notin mutating
    /\ turn' = [turn EXCEPT ![rs[r]] = r]
    /\ Step(r, "turn")
    /\ UNCHANGED <<live, reason, awaits, mutating, admissionClosed, rs, leased,
                   snapEpoch, reset, overtaken, cvars, deleted>>

(* clearTurn: the deferred end of a turn closes its done channel. *)
ClearTurn(r) ==
    /\ rpc[r] = "turn"
    /\ turn' = [turn EXCEPT ![rs[r]] = NoRequest]
    /\ reason' = [reason EXCEPT ![r] = "none"]
    /\ awaits' = [c \in Closers |-> IF awaits[c] = r THEN NoRequest ELSE awaits[c]]
    /\ Step(r, "done")
    /\ UNCHANGED <<closures, operations, snapshots, mutating>>
    /\ Reap(rs[r], epoch[rs[r]])
    /\ UNCHANGED <<admissionClosed, rs, leased, snapEpoch, reset, overtaken,
                   cpc, cs, drained, deleted>>

(* beginLifecycleOperation accepts: a request that has read its session    *)
(* ("operating"), or a direct one that has not: the content and deletion   *)
(* of an attachment, a detached settlement (admitDetached).                *)
BeginLifecycleOperation(r) ==
    LET s == rs[r] IN
    /\ rpc[r] \in {"snapped", "read"}
    /\ SnapshotCurrent(r)
    /\ operations' = [operations EXCEPT ![s] = @ + 1]
    /\ Step(r, IF rpc[r] = "read" THEN "operating" ELSE "direct")
    /\ UNCHANGED <<known, epoch, closures, snapshots, token, turns, mutating,
                   admissionClosed, rs, leased, snapEpoch, reset, overtaken,
                   cvars, deleted>>

(* The operation's release.  An attachment reader may begin another from   *)
(* the same snapshot; a settlement has released its snapshot by then.      *)
EndOperation(r) ==
    LET s == rs[r] IN
    /\ \/ rpc[r] = "operating" /\ \E next \in {"read", "done"} : Step(r, next)
       \/ rpc[r] = "direct" /\ Step(r, IF r \in leased THEN "done" ELSE "idle")
    /\ operations' = [operations EXCEPT ![s] = @ - 1]
    /\ drained' = DrainedAt(s)
    /\ UNCHANGED <<closures, snapshots, turn, mutating>>
    /\ Reap(s, epoch[s])
    /\ UNCHANGED <<reason, awaits, admissionClosed, rs, leased, snapEpoch,
                   reset, overtaken, cpc, cs, deleted>>

(* beginExclusiveMutation accepts. *)
BeginExclusiveMutation(r) ==
    LET s == rs[r] IN
    /\ rpc[r] = "read"
    /\ EpochLeft(s, 1)
    /\ SnapshotCurrent(r)
    /\ turn[s] = NoRequest
    /\ s \notin mutating
    /\ operations' = [operations EXCEPT ![s] = @ + 1]
    /\ mutating' = mutating \cup {s}
    /\ Step(r, "mutating")
    /\ UNCHANGED <<known, epoch, closures, snapshots, token, turns,
                   admissionClosed, rs, leased, snapEpoch, reset, overtaken,
                   cvars, deleted>>

(* HandleSetAgentChatSettings reads the session again once it is admitted. *)
ReloadSession(r) ==
    /\ rpc[r] = "mutating"
    /\ rs[r] \notin deleted
    /\ Step(r, "reloaded")
    /\ reset' = reset \ {r}
    /\ UNCHANGED <<live, turns, mutating, admissionClosed, rs, leased,
                   snapEpoch, overtaken, cvars, deleted>>

(* Requests that have read session s. *)
Readers(s) == {r \in Requests :
                 /\ rs[r] = s
                 /\ rpc[r] \notin {"idle", "snapped", "direct", "done"}}

(* SetHecateSettings: everybody else now has old settings. *)
WriteSettings(r) ==
    /\ rpc[r] = "reloaded"
    /\ Step(r, "written")
    /\ reset' = reset \cup (Readers(rs[r]) \ {r})
    /\ UNCHANGED <<live, turns, mutating, admissionClosed, rs, leased,
                   snapEpoch, overtaken, cvars, deleted>>

(* The mutation's release, also after a failed reload or write. *)
EndExclusiveMutation(r) ==
    LET s == rs[r] IN
    /\ Mutates(r)
    /\ Step(r, "done")
    /\ mutating' = mutating \ {s}
    /\ operations' = [operations EXCEPT ![s] = @ - 1]
    /\ drained' = DrainedAt(s)
    /\ UNCHANGED <<closures, snapshots, turn>>
    /\ Reap(s, epoch[s] + 1)
    /\ UNCHANGED <<reason, awaits, admissionClosed, rs, leased, snapEpoch,
                   reset, overtaken, cpc, cs, deleted>>

(* The snapshot's release: of a request that is over or was refused, and   *)
(* of a settlement right after its admission.                              *)
ReleaseSnapshot(r) ==
    LET s == rs[r] IN
    /\ r \in leased
    /\ rpc[r] \in {"snapped", "read", "direct", "done"}
    /\ Step(r, IF rpc[r] = "direct" THEN "direct" ELSE "idle")
    /\ leased' = leased \ {r}
    /\ snapshots' = [snapshots EXCEPT ![s] = @ - 1]
    /\ UNCHANGED <<closures, operations, turn, mutating>>
    /\ Reap(s, epoch[s])
    /\ reset' = reset \ {r}
    /\ overtaken' = overtaken \ {r}
    /\ snapEpoch' = [snapEpoch EXCEPT ![r] = 0]
    /\ UNCHANGED <<reason, awaits, admissionClosed, rs, cpc, cs, drained, deleted>>

-----------------------------------------------------------------------------
(* Cancelling turns. *)

(* markCancelReasonLocked: the first authority is kept. *)
Marked(r, why) == IF reason[r] = "none" THEN why ELSE reason[r]

(* cancelTurn, for the operator's Stop. *)
CancelTurn(s) ==
    /\ turn[s] # NoRequest
    /\ reason' = [reason EXCEPT ![turn[s]] = Marked(turn[s], "operator")]
    /\ UNCHANGED <<live, turn, awaits, mutating, admissionClosed, rvars, cvars,
                   deleted>>

(* cancelAllTurns: admission is closed and every turn cancelled. *)
CancelAllTurns ==
    /\ ~admissionClosed
    /\ admissionClosed' = TRUE
    /\ reason' = [r \in Requests |-> IF \E s \in Sessions : turn[s] = r
                                     THEN Marked(r, "shutdown") ELSE reason[r]]
    /\ UNCHANGED <<live, turn, awaits, mutating, rvars, cvars, deleted>>

-----------------------------------------------------------------------------
(* Closers. *)

(* closeSessionLifecycle. *)
CloseSessionLifecycle(c, s) ==
    /\ cpc[c] = "idle"
    /\ EpochLeft(s, 2)
    /\ CloserStep(c, "waiting")
    /\ cs' = [cs EXCEPT ![c] = s]
    /\ known' = known \cup {s}
    /\ token' = [token EXCEPT ![s] = IF @ = "none" THEN "free" ELSE @]
    /\ epoch' = [epoch EXCEPT ![s] = @ + 1]
    /\ closures' = [closures EXCEPT ![s] = @ + 1]
    /\ drained' = IF operations[s] = 0 THEN drained \cup {c} ELSE drained
    /\ UNCHANGED <<operations, snapshots, turns, mutating, admissionClosed,
                   rvars, bound, deleted>>

(* waitForOperations: first the destructive token, then the operations     *)
(* that were admitted before.                                              *)
TakeTokenUnserialized(c) ==
    /\ cpc[c] = "waiting"
    /\ token' = [token EXCEPT ![cs[c]] = "held"]
    /\ bound' = bound \cup {c}
    /\ CloserStep(c, "held")
    /\ UNCHANGED <<known, epoch, closures, operations, snapshots, turns,
                   mutating, admissionClosed, rvars, cs, drained, deleted>>
TakeToken(c) ==
    /\ cpc[c] = "waiting"
    /\ token[cs[c]] = "free"
    /\ token' = [token EXCEPT ![cs[c]] = "held"]
    /\ bound' = bound \cup {c}
    /\ CloserStep(c, "held")
    /\ UNCHANGED <<known, epoch, closures, operations, snapshots, turns,
                   mutating, admissionClosed, rvars, cs, drained, deleted>>
WaitForOperations(c) ==
    /\ cpc[c] = "held"
    /\ c \in drained
    /\ CloserStep(c, "drained")
    /\ UNCHANGED <<live, turns, mutating, admissionClosed, rvars, cs, bound,
                   drained, deleted>>

(* cancelTurnAndWait of delete and close: cancel the turn it finds ... *)
CancelTurnAndWait(c) ==
    LET r == turn[cs[c]] IN
    /\ cpc[c] = "drained"
    /\ CloserStep(c, "cancelling")
    /\ awaits' = [awaits EXCEPT ![c] = r]
    /\ reason' = IF r = NoRequest THEN reason
                 ELSE [reason EXCEPT ![r] = Marked(r, "operator")]
    /\ UNCHANGED <<live, turn, mutating, admissionClosed, rvars, cs, bound,
                   drained, deleted>>

(* ... and wait for its done channel. *)
TurnSettled(c) ==
    /\ cpc[c] = "cancelling"
    /\ awaits[c] = NoRequest
    /\ CloserStep(c, "quiet")
    /\ UNCHANGED <<live, turns, mutating, admissionClosed, rvars, cs, bound,
                   drained, deleted>>

(* hasTurn of the idle sweep and of a discard. *)
CheckNoTurn(c) ==
    /\ cpc[c] = "drained"
    /\ turn[cs[c]] = NoRequest
    /\ CloserStep(c, "checked")
    /\ UNCHANGED <<live, turns, mutating, admissionClosed, rvars, cs, bound,
                   drained, deleted>>

(* The session is closed, swept or has its files discarded, or its row is  *)
(* deleted.                                                                *)
ChangeSession(c) ==
    LET s == cs[c] IN
    /\ \/ cpc[c] \in {"quiet", "checked"} /\ UNCHANGED deleted
       \/ cpc[c] = "quiet" /\ deleted' = deleted \cup {s}
    /\ s \notin deleted
    /\ overtaken' = overtaken \cup Readers(s)
    /\ UNCHANGED <<live, turns, mutating, admissionClosed, rpc, rs, leased,
                   snapEpoch, reset, cvars>>

(* agentChatLifecycleClosure.release, its critical section; a closer that  *)
(* holds the token returns it afterwards.                                  *)
Release(c) ==
    LET s == cs[c] IN
    /\ closures' = [closures EXCEPT ![s] = @ - 1]
    /\ CloserStep(c, IF cpc[c] = "waiting" THEN "idle" ELSE "returning")
    /\ awaits' = [awaits EXCEPT ![c] = NoRequest]
    /\ UNCHANGED <<operations, snapshots, turn, mutating>>
    /\ Reap(s, epoch[s] + 1)
    /\ drained' = drained \ {c}
    /\ UNCHANGED <<reason, admissionClosed, rvars, cs, deleted>>

(* The closer is done, or found a turn where none may be, or no session.   *)
ReleaseClosure(c) ==
    /\ \/ cpc[c] \in {"quiet", "checked"}
       \/ cpc[c] = "drained" /\ (turn[cs[c]] # NoRequest \/ cs[c] \in deleted)
    /\ Release(c)

(* The caller's context ends, or a store call fails. *)
GiveUp(c) ==
    /\ cpc[c] \in {"waiting", "held", "drained", "cancelling"}
    /\ Release(c)

(* The token goes back to the channel it came from, which may belong to an *)
(* entry that is already reaped.                                           *)
ReturnTokenLost(c) ==
    /\ cpc[c] = "returning"
    /\ CloserStep(c, "idle")
    /\ bound' = bound \ {c}
    /\ UNCHANGED <<live, turns, mutating, admissionClosed, rvars, cs, drained,
                   deleted>>
ReturnToken(c) ==
    /\ cpc[c] = "returning"
    /\ CloserStep(c, "idle")
    /\ token' = IF c \in bound THEN [token EXCEPT ![cs[c]] = "free"] ELSE token
    /\ bound' = bound \ {c}
    /\ UNCHANGED <<known, epoch, closures, operations, snapshots, turns,
                   mutating, admissionClosed, rvars, cs, drained, deleted>>

-----------------------------------------------------------------------------
RequestStep(r) ==
    \/ \E s \in Sessions : SnapshotLifecycle(r, s)
    \/ ReadSession(r) \/ ReleaseSnapshot(r)
    \/ RegisterTurn(r) \/ ClearTurn(r)
    \/ BeginLifecycleOperation(r) \/ EndOperation(r)
    \/ BeginExclusiveMutation(r) \/ ReloadSession(r) \/ WriteSettings(r)
    \/ EndExclusiveMutation(r)

CloseStep(c) ==
    \/ \E s \in Sessions : CloseSessionLifecycle(c, s)
    \/ TakeToken(c) \/ WaitForOperations(c) \/ CancelTurnAndWait(c)
    \/ TurnSettled(c) \/ CheckNoTurn(c) \/ ChangeSession(c)
    \/ ReleaseClosure(c) \/ GiveUp(c) \/ ReturnToken(c)

Next ==
    \/ \E r \in Requests : RequestStep(r)
    \/ \E c \in Closers : CloseStep(c)
    \/ \E s \in Sessions : CancelTurn(s)
    \/ CancelAllTurns

Spec == Init /\ [][Next]_vars

(* Turns, operations and mutations end (each runs under a deadline), and a *)
(* closer that can go on does.  Waiters on the token channel are served in *)
(* turn.  No deadline of a closer is assumed to pass.                      *)
Fairness ==
    /\ \A r \in Requests : /\ WF_vars(ClearTurn(r))
                           /\ WF_vars(ReleaseSnapshot(r))
                           /\ WF_vars(EndOperation(r))
                           /\ WF_vars(EndExclusiveMutation(r))
    /\ \A c \in Closers : /\ SF_vars(TakeToken(c))
                          /\ WF_vars(WaitForOperations(c))
                          /\ WF_vars(CancelTurnAndWait(c) \/ CheckNoTurn(c))
                          /\ WF_vars(TurnSettled(c))
                          /\ WF_vars(ReleaseClosure(c))
                          /\ WF_vars(ReturnToken(c))

FairSpec == Spec /\ Fairness

-----------------------------------------------------------------------------
(* One closer at a time does destructive work on a session, nothing that   *)
(* was admitted before it is still going on, and its turn is over when the *)
(* session changes (waitForOperations, cancelTurnAndWait, hasTurn).        *)
DestructionIsAlone ==
    \A c \in Closers : Destructive(c) =>
      /\ \A d \in Closers \ {c} : Destructive(d) => cs[d] # cs[c]
      /\ \A r \in Requests : Operates(r) => rs[r] # cs[c]
      /\ cpc[c] \in {"quiet", "checked"} => turn[cs[c]] = NoRequest

(* A turn executes with the session it read: no settings mutation and no   *)
(* close or delete came between its read and its end, although the entry   *)
(* that holds the epoch may have been reaped and made again meanwhile.  An *)
(* operation is never overtaken by a close or delete, and a mutation       *)
(* writes settings that nobody changed since its reload.                   *)
AdmittedWorkIsCurrent ==
    \A r \in Requests :
      /\ rpc[r] = "turn" => r \notin reset \cup overtaken
      /\ rpc[r] \in {"operating", "reloaded"} => r \notin overtaken
      /\ rpc[r] = "reloaded" => r \notin reset

(* Shutdown reaches every turn: one that registered before is cancelled,   *)
(* and none registers after (cancelAllTurns).                              *)
ShutdownReachesTurns ==
    admissionClosed =>
      \A r \in Requests : rpc[r] = "turn" => reason[r] # "none"

(* An entry exists only while somebody needs it, so sessions that come and *)
(* go leave nothing behind (reapLifecycleLocked).                          *)
IdleEntriesReaped ==
    \A s \in known :
      \/ closures[s] > 0 \/ operations[s] > 0 \/ snapshots[s] > 0
      \/ turn[s] # NoRequest

(* A closer gets its turn and gets through, also with other closers, turns *)
(* and operations in its way.                                              *)
ClosersProceed ==
    \A c \in Closers : cpc[c] = "waiting" ~> cpc[c] \in {"quiet", "checked", "idle"}
=============================================================================
