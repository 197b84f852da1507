-------------------------- MODULE ExternalSessions --------------------------
(***************************************************************************)
(* The session manager of external agents (agentadapters/session_manager.go *)
(* and acp_session_lifecycle.go) for one chat session.  A peer is a running *)
(* adapter; at most one is installed.  Calls start a peer and share one     *)
(* start, take turns on it under its turnMu, replace a peer whose native    *)
(* conversation the agent has lost, and close it.                           *)
(*                                                                         *)
(* The manager's mutex protects sessions, starts and closed; an action is   *)
(* one of its critical sections, one call to the agent or to the chat       *)
(* store, or one step of acpSession.shutdown.                               *)
(***************************************************************************)
EXTENDS Naturals, Sequences, FiniteSets, Functions

CONSTANTS
    Calls,        \* calls of the manager, each made once
    KindsOf,      \* what a call may be
    Cancellable,  \* calls whose context may end
    MaxPeers,     \* bound: adapter processes that can be launched
    Old,          \* the native session of an earlier process
    None,
    MaxLost       \* bound: native sessions the agent loses

Kinds == {"run", "prepare", "take", "configure", "shutdown"}
Peers == 1..MaxPeers

ASSUME SessionsAssumption ==
    /\ KindsOf \in [Calls -> SUBSET Kinds]
    /\ Cancellable \subseteq Calls
    /\ MaxPeers \in Nat
    /\ Old \notin Peers \cup {None}
    /\ None \notin Peers \cup Calls
    /\ MaxLost \in Nat

VARIABLES
    processScoped,   \* the adapter's NativeSessionScope
    config,          \* launch configuration the chat's calls ask for
    durable,         \* the native session id of the chat
    retired,         \* ghost: sessions a persisted replacement has superseded
    lost,            \* native sessions the agent cannot find
    succeeded,       \* a turn has succeeded: no replacement is authorized
    installed,       \* sessions[id]
    start,           \* starts[id]: the call that owns it
    closed,
    peer,            \* adapter sessions: acpSession and its process
    call

vars == <<processScoped, config, durable, retired, lost, succeeded, installed,
          start, closed, peer, call>>
chat == <<processScoped, config, durable, retired, lost, succeeded>>
manager == <<installed, start, closed>>

NoPeer == [state |-> "none", native |-> None, config |-> 0, closing |-> FALSE,
           turn |-> None, cut |-> FALSE, lock |-> None]
NoCall == [pc |-> "idle", kind |-> "none"]
CallEnded == [pc |-> "done", kind |-> "none"]

Init ==
    /\ processScoped \in BOOLEAN
    /\ config = 1
    /\ durable \in {None, Old}
    /\ retired = {}
    /\ lost = {}
    /\ succeeded = FALSE
    /\ installed = None
    /\ start = None
    /\ closed = FALSE
    /\ peer = [p \in Peers |-> NoPeer]
    /\ call = [c \in Calls |-> NoCall]

(***************************************************************************)
(* Steps of a call.  A call's record: kind; what it was asked with          *)
(* (config, previous); p, the session it uses; fresh, one it has started    *)
(* and not installed; todo, sessions to close before it goes on at next;    *)
(* whom it waits for; whether its context and its start's context ended.    *)
(***************************************************************************)
At(c, pc) == call[c].pc = pc
To(c, pc) == call' = [call EXCEPT ![c].pc = pc]
InProgress(c) == call[c].pc \notin {"idle", "done"}

(* Close the sessions in s one after the other, then go on. *)
CloseThen(c, s, next) ==
    [call[c] EXCEPT !.pc = IF s = <<>> THEN next ELSE "close",
                    !.todo = s, !.next = IF s = <<>> THEN "none" ELSE next]

Ended(c) == IF call[c].kind = "shutdown"
              THEN [CallEnded EXCEPT !.kind = IF call[c].failed THEN "failed"
                                              ELSE "shutdown"]
              ELSE CallEnded

Finish(c) == call' = [call EXCEPT ![c] = Ended(c)]

Begin(c, kind) ==
    /\ At(c, "idle")
    /\ call' = [call EXCEPT ![c] =
         [pc |-> CASE kind \in {"run", "prepare"} -> "session"
                   [] kind = "shutdown" -> "shutdown"
                   [] OTHER -> "take",
          kind |-> kind, config |-> config, previous |-> durable,
          p |-> None, fresh |-> None, recovery |-> FALSE,
          allow |-> ~succeeded, todo |-> <<>>, next |-> "none",
          waits |-> None, cancelled |-> FALSE, stopped |-> FALSE,
          failed |-> FALSE]]
    /\ UNCHANGED <<chat, manager, peer>>

CancelContext(c) ==
    /\ c \in Cancellable
    /\ InProgress(c)
    /\ call[c].kind \in {"run", "prepare"}
    /\ ~call[c].cancelled
    /\ call' = [call EXCEPT ![c].cancelled = TRUE]
    /\ UNCHANGED <<chat, manager, peer>>

StartContextEnded(c) == call[c].cancelled \/ call[c].stopped

(* close(start.done): every call that waits for c's start goes on. *)
Woken(c) ==
    [d \in Calls |->
        IF InProgress(d) /\ call[d].waits = c
          THEN [call[d] EXCEPT !.waits = None]
          ELSE call[d]]

(***************************************************************************)
(* session(): the installed session, or one shared start.                  *)
(***************************************************************************)
(* An installed session serves the calls that ask for its configuration. *)
Serves(c) == installed # None /\ peer[installed].config = call[c].config

Session(c) ==
    /\ At(c, "session")
    /\ call[c].waits = None
    /\ \/ /\ closed
          /\ Finish(c)
          /\ UNCHANGED start
       \/ /\ ~closed
          /\ Serves(c)
          /\ call' = [call EXCEPT ![c] =
               IF @.kind = "run"
                 THEN [@ EXCEPT !.pc = "lock", !.p = installed, !.recovery = FALSE]
                 ELSE CallEnded]
          /\ UNCHANGED start
       \/ /\ ~closed
          /\ ~Serves(c)
          /\ IF start # None
               THEN call' = [call EXCEPT ![c].waits = start] /\ UNCHANGED start
               ELSE start' = c /\ To(c, "launch")
    /\ UNCHANGED <<chat, installed, closed, peer>>

(* ctx.Done() while waiting for another call's start. *)
StopWaiting(c) ==
    /\ At(c, "session")
    /\ call[c].waits # None
    /\ call[c].cancelled
    /\ Finish(c)
    /\ UNCHANGED <<chat, manager, peer>>

(* launchACPAdapterPeer: a process runs from here on.  Peers are numbered   *)
(* in the order they are launched.                                          *)
Launch(c) ==
    LET p == Cardinality({q \in Peers : peer[q].state # "none"}) + 1 IN
    /\ call[c].pc \in {"launch", "relaunch"}
    /\ p <= MaxPeers
    /\ peer' = [peer EXCEPT ![p] =
                 [@ EXCEPT !.state = "live", !.config = call[c].config]]
    /\ call' = [call EXCEPT ![c] =
         [@ EXCEPT !.pc = IF call[c].pc = "launch" THEN "attach" ELSE "reattach",
                   !.fresh = p]]
    /\ UNCHANGED <<chat, manager>>

LaunchFails(c) ==
    /\ \/ At(c, "launch") /\ To(c, "drop")
       \/ At(c, "relaunch") /\ To(c, "abort")
    /\ UNCHANGED <<chat, manager, peer>>

(* initialize, session/load or session/new, and the configuration.  A      *)
(* process-scoped adapter that cannot load its session gets a new one.     *)
Attach(c) ==
    LET p == call[c].fresh
        previous == IF At(c, "attach") THEN call[c].previous ELSE None
    IN  /\ call[c].pc \in {"attach", "reattach"}
        /\ \/ /\ previous \notin lost \cup {None}
              /\ peer' = [peer EXCEPT ![p].native = previous]
              /\ To(c, "publish")
           \/ /\ previous = None
              /\ peer' = [peer EXCEPT ![p].native = p]
              /\ To(c, IF At(c, "attach") THEN "publish" ELSE "commit")
           \/ /\ previous # None /\ processScoped
              /\ peer' = [peer EXCEPT ![p].native = p]
              /\ call' = [call EXCEPT ![c] =
                           [@ EXCEPT !.pc = "persist", !.recovery = TRUE]]
        /\ UNCHANGED <<chat, manager>>

(* The adapter refuses, or the start's context ends: its process is closed. *)
AttachFails(c) ==
    /\ call[c].pc \in {"attach", "reattach"}
    /\ peer' = [peer EXCEPT ![call[c].fresh].state = "dead"]
    /\ call' = [call EXCEPT ![c] =
         [@ EXCEPT !.pc = IF call[c].pc = "attach" THEN "drop" ELSE "abort",
                   !.fresh = None]]
    /\ UNCHANGED <<chat, manager>>

(* ReplaceNativeSession, fenced by the id that is replaced. *)
ReplaceNativeSession(previous, native) ==
    /\ durable = previous
    /\ durable' = native

(* OnNativeSessionReplaced for a process-scoped session; PrepareSession has *)
(* no callback.                                                             *)
PersistRecovery(c) ==
    LET p == call[c].fresh IN
    /\ At(c, "persist")
    /\ \/ /\ call[c].kind = "run" /\ ~StartContextEnded(c)
          /\ ReplaceNativeSession(call[c].previous, p)
          /\ To(c, "publish")
       \/ /\ call' = [call EXCEPT ![c] =
               [CloseThen(c, <<p>>, "drop") EXCEPT !.fresh = None]]
          /\ UNCHANGED durable
    /\ UNCHANGED <<processScoped, config, retired, lost, succeeded, manager, peer>>

(* A start that failed: the reservation is released and waiters go on. *)
Drop(c) ==
    /\ At(c, "drop")
    /\ start' = IF start = c THEN None ELSE start
    /\ call' = [Woken(c) EXCEPT ![c] = CallEnded]
    /\ UNCHANGED <<chat, installed, closed, peer>>

(* Defect: a start that ends after Shutdown is installed. *)
PublishAnyway(c) ==
    /\ At(c, "publish")
    /\ installed' = call[c].fresh
    /\ start' = None
    /\ call' = [call EXCEPT ![c] =
         [CloseThen(c, IF installed = None THEN <<>> ELSE <<installed>>, "published")
            EXCEPT !.p = call[c].fresh, !.fresh = None]]
    /\ UNCHANGED <<chat, closed, peer>>

(* The started session is installed, and the one it supersedes closed,      *)
(* unless the manager has shut down.                                        *)
Publish(c) ==
    LET p == call[c].fresh IN
    /\ At(c, "publish")
    /\ \/ /\ closed
          /\ call' = [call EXCEPT ![c] =
               [CloseThen(c, <<p>>, "drop") EXCEPT !.fresh = None]]
          /\ UNCHANGED <<installed, start>>
       \/ /\ ~closed
          /\ installed' = p
          /\ start' = None
          /\ call' = [call EXCEPT ![c] =
               [CloseThen(c, IF installed = None THEN <<>> ELSE <<installed>>,
                          "published") EXCEPT !.p = p, !.fresh = None]]
    /\ UNCHANGED <<chat, closed, peer>>

(* The chat keeps the first native id it is given. *)
Published(c) ==
    /\ At(c, "published")
    /\ call' = [Woken(c) EXCEPT ![c] =
         IF call[c].kind = "run" THEN [call[c] EXCEPT !.pc = "lock"] ELSE CallEnded]
    /\ durable' = IF durable = None THEN peer[call[c].p].native ELSE durable
    /\ UNCHANGED <<processScoped, config, retired, lost, succeeded, manager, peer>>

(***************************************************************************)
(* Run: a turn under turnMu.                                               *)
(***************************************************************************)
TurnLock(c) ==
    /\ At(c, "lock")
    /\ peer[call[c].p].lock = None
    /\ peer' = [peer EXCEPT ![call[c].p].lock = c]
    /\ To(c, "check")
    /\ UNCHANGED <<chat, manager>>

Unlocked(c) == [peer EXCEPT ![call[c].p].lock = None]

(* Defect: the session is not looked up again under turnMu. *)
CheckNothing(c) ==
    /\ At(c, "check")
    /\ To(c, "turn")
    /\ UNCHANGED <<chat, manager, peer>>

(* sessionIsCurrent: if not, look for a session again, unless this call     *)
(* has persisted a replacement that it may not repeat.                      *)
CheckCurrent(c) ==
    /\ At(c, "check")
    /\ \/ /\ ~closed /\ installed = call[c].p
          /\ To(c, "turn")
          /\ UNCHANGED peer
       \/ /\ closed \/ installed # call[c].p
          /\ peer' = Unlocked(c)
          /\ IF call[c].recovery THEN Finish(c) ELSE To(c, "session")
    /\ UNCHANGED <<chat, manager>>

(* Defect: a session that is being closed admits turns. *)
BeginTurnWhileClosing(c) ==
    LET p == call[c].p IN
    /\ call[c].pc \in {"turn", "retry"}
    /\ \/ /\ ~call[c].cancelled
          /\ peer' = [peer EXCEPT ![p].turn = c]
          /\ call' = [call EXCEPT ![c] =
                       [@ EXCEPT !.allow = call[c].allow /\ At(c, "turn"),
                                 !.pc = "prompt"]]
       \/ call[c].cancelled /\ peer' = Unlocked(c) /\ Finish(c)
    /\ UNCHANGED <<chat, manager>>

(* beginActiveTurn, refused once the session is closing; the retry on a     *)
(* fresh session may not replace it again.                                  *)
BeginTurn(c) ==
    LET p == call[c].p IN
    /\ call[c].pc \in {"turn", "retry"}
    /\ \/ /\ ~call[c].cancelled /\ ~peer[p].closing
          /\ peer' = [peer EXCEPT ![p].turn = c]
          /\ call' = [call EXCEPT ![c] =
                       [@ EXCEPT !.allow = call[c].allow /\ At(c, "turn"),
                                 !.pc = "prompt"]]
       \/ /\ call[c].cancelled \/ peer[p].closing
          /\ peer' = Unlocked(c)
          /\ Finish(c)
    /\ UNCHANGED <<chat, manager>>

TurnCancelled(c) == call[c].cancelled \/ peer[call[c].p].cut

(* session/prompt is written to the agent. *)
Prompt(c) ==
    /\ At(c, "prompt")
    /\ ~TurnCancelled(c)
    /\ To(c, "prompted")
    /\ UNCHANGED <<chat, manager, peer>>

(* The turn is over: answered, failed, cancelled or timed out. *)
EndTurn(c, success) ==
    /\ \/ At(c, "prompt") /\ ~success     \* cancelled, or no valid prompt
       \/ At(c, "prompted")
    /\ success => ~TurnCancelled(c) /\ peer[call[c].p].state = "live"
                                    /\ peer[call[c].p].native \notin lost
    /\ succeeded' = (succeeded \/ success)
    /\ peer' = [peer EXCEPT ![call[c].p] =
                 [@ EXCEPT !.turn = None, !.lock = None, !.cut = FALSE]]
    /\ Finish(c)
    /\ UNCHANGED <<processScoped, config, durable, retired, lost, manager>>

(* The agent has lost the conversation and the call may replace it:         *)
(* reserveNativeSessionReplacement, before turnMu is released.              *)
Reserve(c) ==
    LET p == call[c].p IN
    /\ At(c, "prompted")
    /\ peer[p].state = "live" /\ peer[p].native \in lost
    /\ call[c].allow /\ ~call[c].cancelled
    /\ peer' = [peer EXCEPT ![p] =
                 [@ EXCEPT !.turn = None, !.lock = None, !.cut = FALSE]]
    /\ \/ /\ closed \/ installed # p \/ start # None
          /\ Finish(c)
          /\ UNCHANGED <<installed, start>>
       \/ /\ ~closed /\ installed = p /\ start = None
          /\ start' = c
          /\ installed' = None
          /\ call' = [call EXCEPT ![c] =
                       [@ EXCEPT !.pc = "relaunch", !.stopped = FALSE]]
    /\ UNCHANGED <<chat, closed>>

(***************************************************************************)
(* completeNativeSessionReplacement.                                       *)
(***************************************************************************)
(* The persisted replacement is the commit point. *)
Commit(c) ==
    LET p == call[c].fresh IN
    /\ At(c, "commit")
    /\ \/ /\ ~StartContextEnded(c)
          /\ ReplaceNativeSession(peer[call[c].p].native, p)
          /\ retired' = retired \cup {call[c].p}
          /\ To(c, "install")
       \/ /\ call' = [call EXCEPT ![c] =
               [CloseThen(c, <<p>>, "abort") EXCEPT !.fresh = None]]
          /\ UNCHANGED <<durable, retired>>
    /\ UNCHANGED <<processScoped, config, lost, succeeded, manager, peer>>

(* The fresh session is installed with its turnMu held. *)
Install(c) ==
    LET p == call[c].fresh
        stale == call[c].p
    IN  /\ At(c, "install")
        /\ \/ /\ closed
              /\ call' = [call EXCEPT ![c] =
                   [CloseThen(c, <<p, stale>>, "drop") EXCEPT !.fresh = None]]
              /\ UNCHANGED <<installed, peer>>
           \/ /\ ~closed
              /\ peer' = [peer EXCEPT ![p].lock = c]
              /\ installed' = p
              /\ call' = [call EXCEPT ![c] =
                   [CloseThen(c, <<stale>>, "installed") EXCEPT !.p = p, !.fresh = None]]
        /\ UNCHANGED <<chat, start, closed>>

Installed(c) ==
    /\ At(c, "installed")
    /\ start' = None
    /\ call' = [Woken(c) EXCEPT ![c].pc = "retry"]
    /\ UNCHANGED <<chat, installed, closed, peer>>

(* Defect: an aborted replacement does not close start.done. *)
AbortedSilently(c) ==
    /\ At(c, "aborted")
    /\ Finish(c)
    /\ UNCHANGED <<chat, manager, peer>>

(* abortNativeSessionReplacement: the stale session is current again, or    *)
(* closed if the manager has shut down.                                     *)
Abort(c) ==
    /\ At(c, "abort")
    /\ start' = None
    /\ installed' = IF closed THEN installed ELSE call[c].p
    /\ call' = [call EXCEPT ![c] =
                  CloseThen(c, IF closed THEN <<call[c].p>> ELSE <<>>, "aborted")]
    /\ UNCHANGED <<chat, closed, peer>>

Aborted(c) ==
    /\ At(c, "aborted")
    /\ call' = [Woken(c) EXCEPT ![c] = CallEnded]
    /\ UNCHANGED <<chat, manager, peer>>

(***************************************************************************)
(* acpSession.shutdown of the first session of call[c].todo: no new turn,   *)
(* cancel the active one and wait a moment, end the process, wait again.    *)
(***************************************************************************)
CloseAdmission(c) ==
    LET p == Head(call[c].todo) IN
    /\ At(c, "close")
    /\ peer' = [peer EXCEPT ![p] =
                 [@ EXCEPT !.closing = TRUE,
                           !.cut = peer[p].cut \/ peer[p].turn # None]]
    /\ To(c, "kill")
    /\ UNCHANGED <<chat, manager>>

ClosePeer(c) ==
    /\ At(c, "kill")
    /\ peer' = [peer EXCEPT ![Head(call[c].todo)].state = "dead"]
    /\ To(c, "drain")
    /\ UNCHANGED <<chat, manager>>

(* waitForActiveTurn; an error if the turn has not ended in time. *)
DrainTurn(c, inTime) ==
    /\ At(c, "drain")
    /\ inTime => peer[Head(call[c].todo)].turn = None
    /\ call' = [call EXCEPT ![c] =
         [CloseThen(c, Tail(call[c].todo), call[c].next)
            EXCEPT !.failed = call[c].failed \/ ~inTime]]
    /\ UNCHANGED <<chat, manager, peer>>

(***************************************************************************)
(* CloseSession, DeleteSession, a managed option of SetSessionConfigOption, *)
(* and Shutdown.                                                            *)
(***************************************************************************)
(* A managed option needs an installed session and changes what later      *)
(* starts are launched with.                                                *)
TakeSession(c) ==
    /\ At(c, "take")
    /\ installed' = None
    /\ config' = IF call[c].kind = "configure" /\ installed # None
                   THEN 3 - config ELSE config
    /\ call' = [call EXCEPT ![c] =
         CloseThen(c, IF installed = None THEN <<>> ELSE <<installed>>, "end")]
    /\ UNCHANGED <<processScoped, durable, retired, lost, succeeded, start,
                   closed, peer>>

Shutdown(c) ==
    /\ At(c, "shutdown")
    /\ closed' = TRUE
    /\ installed' = None
    /\ call' = [d \in Calls |->
         CASE d = c -> [call[c] EXCEPT !.pc = "waitStarts", !.waits = start,
                          !.todo = IF installed = None THEN <<>> ELSE <<installed>>]
           [] d = start -> [call[d] EXCEPT !.stopped = TRUE]
           [] OTHER -> call[d]]
    /\ UNCHANGED <<chat, start, peer>>

(* The starts are done, or Shutdown's context ends first. *)
StartsDone(c, inTime) ==
    /\ At(c, "waitStarts")
    /\ inTime <=> call[c].waits = None
    /\ call' = [call EXCEPT ![c] =
         [CloseThen(c, @.todo, "end") EXCEPT !.waits = None, !.failed = ~inTime]]
    /\ UNCHANGED <<chat, manager, peer>>

Return(c) ==
    /\ At(c, "end")
    /\ Finish(c)
    /\ UNCHANGED <<chat, manager, peer>>

(***************************************************************************)
(* The agent.                                                              *)
(***************************************************************************)
LoseNative(n) ==
    /\ Cardinality(lost) < MaxLost
    /\ n \notin lost
    /\ n = Old \/ n \in {peer[p].native : p \in Peers}
    /\ lost' = lost \cup {n}
    /\ UNCHANGED <<processScoped, config, durable, retired, succeeded, manager,
                   peer, call>>

Step(c) ==
    \/ Session(c)
    \/ StopWaiting(c)
    \/ Launch(c)
    \/ LaunchFails(c)
    \/ Attach(c)
    \/ AttachFails(c)
    \/ PersistRecovery(c)
    \/ Drop(c)
    \/ Publish(c)
    \/ Published(c)
    \/ TurnLock(c)
    \/ CheckCurrent(c)
    \/ BeginTurn(c)
    \/ Prompt(c)
    \/ \E success \in BOOLEAN : EndTurn(c, success)
    \/ Reserve(c)
    \/ Commit(c)
    \/ Install(c)
    \/ Installed(c)
    \/ Abort(c)
    \/ Aborted(c)
    \/ CloseAdmission(c)
    \/ ClosePeer(c)
    \/ \E inTime \in BOOLEAN : DrainTurn(c, inTime)
    \/ TakeSession(c)
    \/ Shutdown(c)
    \/ \E inTime \in BOOLEAN : StartsDone(c, inTime)
    \/ Return(c)

Next ==
    \/ \E c \in Calls :
        \/ \E kind \in KindsOf[c] : Begin(c, kind)
        \/ CancelContext(c)
        \/ Step(c)
    \/ \E n \in Peers \cup {Old} : LoseNative(n)

Spec == Init /\ [][Next]_vars

-----------------------------------------------------------------------------
(* Properties. *)

(* A running adapter is installed in an open manager or in the hands of a   *)
(* call that is still in progress: none is left behind by a start, a        *)
(* replacement, a close or a shutdown that ran over each other.             *)
NoOrphanPeer ==
    \A p \in Peers : peer[p].state = "live" =>
        \/ installed = p /\ ~closed
        \/ \E c \in Calls :
              InProgress(c) /\ p \in {call[c].p, call[c].fresh} \cup Range(call[c].todo)

(* Once the replacement of a session that lost its conversation is          *)
(* persisted, no prompt is sent to that session: not by a call that was     *)
(* queued on its turn lock, nor after an abort or a configuration change    *)
(* ("queued callers cannot disclose another prompt before this retry").     *)
RetiredNeverPrompted ==
    [][\A c \in Calls :
         At(c, "prompt") /\ call'[c].pc = "prompted" => call[c].p \notin retired]_vars

(* After a Shutdown that reported no error no session is starting, and a    *)
(* turn that is still active is on a session that another call is closing,  *)
(* or gave up closing in time: that turn is cancelled and its process has   *)
(* been ended.                                                              *)
ShutdownStopsTurns ==
    (\E c \in Calls : At(c, "done") /\ call[c].kind = "shutdown") =>
        /\ start = None
        /\ \A p \in Peers : peer[p].turn # None =>
              \/ \E d \in Calls : InProgress(d) /\ p \in Range(call[d].todo)
              \/ peer[p].state = "dead" /\ peer[p].cut

(* A call waits only for a start that is still on its way to close its done *)
(* channel, the reserved start is one of those, and a turn lock is held by  *)
(* a call in progress on that session: however starts, replacements, aborts *)
(* and shutdown overlap, every waiter is released.                          *)
Phase(c) == IF call[c].next = "none" THEN call[c].pc ELSE call[c].next

Starting(c) ==
    /\ InProgress(c)
    /\ Phase(c) \in
          {"launch", "attach", "persist", "publish", "published", "drop",
           "relaunch", "reattach", "commit", "install", "installed", "abort",
           "aborted"}

WaitsAreBacked ==
    /\ start # None => Starting(start)
    /\ \A c \in Calls :
          InProgress(c) /\ call[c].waits # None => Starting(call[c].waits)
    /\ \A p \in Peers : peer[p].lock # None =>
          InProgress(peer[p].lock) /\ call[peer[p].lock].p = p

=============================================================================
