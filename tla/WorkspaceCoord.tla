--------------------------- MODULE WorkspaceCoord ---------------------------
(***************************************************************************)
(* The workspace coordination registry (internal/workspacecoord) with the  *)
(* actors that share it in one process:                                    *)
(*                                                                         *)
(*   - writers: run starts and run executions, which wait for admission    *)
(*     (WaitWriter), and terminals, patch handlers and external-agent      *)
(*     turns, which are refused instead (AcquireWriter);                   *)
(*   - discarders: HandleRevertChatWorkspaceFiles, which closes the        *)
(*     workspace (TryClose), re-reads every durable owner of it, captures  *)
(*     the diff again and reverse-applies it.                              *)
(*                                                                         *)
(* A workspace key is a canonical path, the sequence of its elements.      *)
(* An owner is a row that makes a workspace someone's: a non-terminal task *)
(* run, or a chat session with an active message.                          *)
(*                                                                         *)
(* An operator directly above the definition it varies is that definition  *)
(* with a plausible defect; the specification never uses it.               *)
(***************************************************************************)
EXTENDS Integers, Sequences, FiniteSets

CONSTANTS
    Elements,     \* path elements
    Keys,         \* canonical workspace keys
    Owners,       \* task runs and chat sessions
    Sessions,     \* the owners that are chat sessions
    Hecate,       \* sessions run by Hecate itself, not by an external agent
    WorkspaceOf,  \* workspace of each owner
    Writers,      \* goroutines that want a WriterLease
    Discarders,   \* discard requests
    MaxRevision,  \* bound on changes of a workspace's content
    MaxCrashes    \* bound on process restarts

ASSUME KeysAssumption == Keys \subseteq Seq(Elements)
ASSUME OwnersAssumption ==
    /\ Sessions \subseteq Owners
    /\ Hecate \subseteq Sessions
    /\ WorkspaceOf \in [Owners -> Keys]
ASSUME WritersAssumption == IsFiniteSet(Writers)
ASSUME BoundsAssumption == MaxRevision \in Nat /\ MaxCrashes \in Nat

VARIABLES
    writers,    \* workspaceState.writers, 0 when the key has no state
    exclusive,  \* workspaceState.exclusive
    wpc, wk,    \* control state and key of each writer
    woken,      \* writers whose captured `changed` channel was closed
    active,     \* owners whose durable row is non-terminal or active
    turns,      \* sessions with a registered turn (agentChatLive)
    revision,   \* content of each workspace, the DiscardRevision of its diff
    dpc, ds,    \* control state and session of each discarder
    expected,   \* the revision its operator reviewed
    seen,       \* owners it has re-read under the closure
    crashes

registry == <<writers, exclusive>>
wvars == <<wpc, wk, woken>>
dvars == <<dpc, ds, expected, seen>>
durable == <<active, revision>>
vars == <<registry, wvars, dvars, durable, turns, crashes>>

(* CanonicalKeysOverlap: either path contains the other. *)
Contains(root, path) ==
    /\ Len(root) <= Len(path)
    /\ \A i \in 1 .. Len(root) : root[i] = path[i]
Overlaps(k, l) == Contains(k, l) \/ Contains(l, k)

(* The workspace a discarder closes, and whether it holds the closure. *)
KeyOf(d) == WorkspaceOf[ds[d]]
Holds(d) == dpc[d] \in {"closed", "checked", "captured", "applied"}

(* From CloseSession on the discarder also holds its session's lifecycle. *)
ClosesSession(d) == Holds(d) \/ dpc[d] = "drained"
SessionClosed(s) == \E d \in Discarders : ClosesSession(d) /\ ds[d] = s

(* An overlapping state is exclusive. *)
Blocked(k) == \E l \in Keys : exclusive[l] /\ Overlaps(k, l)

TypeOK ==
    /\ writers \in [Keys -> Nat]
    /\ exclusive \in [Keys -> BOOLEAN]
    /\ wpc \in [Writers -> {"idle", "waiting", "holding"}]
    /\ wk \in [Writers -> Keys]
    /\ woken \subseteq Writers
    /\ active \subseteq Owners
    /\ turns \subseteq Sessions
    /\ revision \in [Keys -> 0 .. MaxRevision]
    /\ dpc \in [Discarders -> {"idle", "reviewed", "requested", "drained",
                               "closed", "checked", "captured", "applied"}]
    /\ ds \in [Discarders -> Sessions]
    /\ expected \in [Discarders -> 0 .. MaxRevision]
    /\ seen \in [Discarders -> SUBSET Owners]
    /\ crashes \in 0 .. MaxCrashes

Init ==
    /\ writers = [k \in Keys |-> 0]
    /\ exclusive = [k \in Keys |-> FALSE]
    /\ wpc = [w \in Writers |-> "idle"]
    /\ wk \in [Writers -> Keys]
    /\ woken = {}
    /\ active \in SUBSET Owners
    /\ turns = {}
    /\ revision = [k \in Keys |-> 0]
    /\ dpc = [d \in Discarders |-> "idle"]
    /\ ds \in [Discarders -> Sessions]
    /\ expected = [d \in Discarders |-> 0]
    /\ seen = [d \in Discarders |-> {}]
    /\ crashes = 0

-----------------------------------------------------------------------------
(* Writers. *)

Admit(w, k) ==
    /\ writers' = [writers EXCEPT ![k] = @ + 1]
    /\ wpc' = [wpc EXCEPT ![w] = "holding"]
    /\ wk' = [wk EXCEPT ![w] = k]
    /\ woken' = woken \ {w}

(* AcquireWriter: a closed workspace refuses the writer (ErrClosed). *)
AcquireWriter(w, k) ==
    /\ wpc[w] = "idle"
    /\ ~Blocked(k)
    /\ Admit(w, k)
    /\ UNCHANGED <<exclusive, dvars, durable, turns, crashes>>

(* WaitWriter finds the workspace closed, captures `changed` under the    *)
(* lock and sleeps.  Otherwise it is AcquireWriter.                       *)
WaitWriter(w, k) ==
    /\ wpc[w] = "idle"
    /\ Blocked(k)
    /\ wpc' = [wpc EXCEPT ![w] = "waiting"]
    /\ wk' = [wk EXCEPT ![w] = k]
    /\ woken' = woken \ {w}
    /\ UNCHANGED <<registry, dvars, durable, turns, crashes>>

(* <-changed fired: take the lock and look again. *)
WaitRecheck(w) ==
    /\ wpc[w] = "waiting"
    /\ w \in woken
    /\ \/ /\ Blocked(wk[w])
          /\ woken' = woken \ {w}
          /\ UNCHANGED <<writers, wpc, wk>>
       \/ /\ ~Blocked(wk[w])
          /\ Admit(w, wk[w])
    /\ UNCHANGED <<exclusive, dvars, durable, turns, crashes>>

(* ctx.Done() while WaitWriter sleeps. *)
WaitCancelled(w) ==
    /\ wpc[w] = "waiting"
    /\ wpc' = [wpc EXCEPT ![w] = "idle"]
    /\ woken' = woken \ {w}
    /\ UNCHANGED <<registry, wk, dvars, durable, turns, crashes>>

(* Content below k changed, and with it the diff of every workspace that  *)
(* contains k or lies below it.                                           *)
Touch(k) ==
    /\ \A l \in Keys : Overlaps(l, k) => revision[l] < MaxRevision
    /\ revision' = [l \in Keys |->
                      IF Overlaps(l, k) THEN revision[l] + 1 ELSE revision[l]]

(* A lease holder changes files. *)
Write(w) ==
    /\ wpc[w] = "holding"
    /\ Touch(wk[w])
    /\ UNCHANGED <<registry, wvars, dvars, active, turns, crashes>>

(* startTaskWithOptions stores the run, or an external-agent turn appends *)
(* its running message, while the writer lease of its workspace is held.  *)
Activate(w, o) ==
    /\ wpc[w] = "holding"
    /\ wk[w] = WorkspaceOf[o]
    /\ o \notin active \cup Hecate
    /\ o \in Sessions => o \in turns
    /\ active' = active \cup {o}
    /\ UNCHANGED <<registry, wvars, dvars, revision, turns, crashes>>

(* WriterLease.Release. *)
ReleaseWriter(w) ==
    /\ wpc[w] = "holding"
    /\ writers' = [writers EXCEPT ![wk[w]] = @ - 1]
    /\ wpc' = [wpc EXCEPT ![w] = "idle"]
    /\ UNCHANGED <<exclusive, wk, woken, dvars, durable, turns, crashes>>

-----------------------------------------------------------------------------
(* Turns and owners. *)

(* registerTurn: one turn per session, none while its lifecycle is closed. *)
RegisterTurn(s) ==
    /\ s \notin turns
    /\ ~SessionClosed(s)
    /\ turns' = turns \cup {s}
    /\ UNCHANGED <<registry, wvars, dvars, durable, crashes>>

(* A Hecate turn appends its running message with no lease: its run will  *)
(* ask for one when it starts.                                            *)
HecateTurn(s) ==
    /\ s \in turns \cap Hecate
    /\ s \notin active
    /\ active' = active \cup {s}
    /\ UNCHANGED <<registry, wvars, dvars, revision, turns, crashes>>

ClearTurn(s) ==
    /\ s \in turns
    /\ turns' = turns \ {s}
    /\ UNCHANGED <<registry, wvars, dvars, durable, crashes>>

(* A run reaches a terminal status, a turn settles, or startup reconciles *)
(* an interrupted one, with or without a lease.                           *)
Settle(o) ==
    /\ o \in active
    /\ active' = active \ {o}
    /\ UNCHANGED <<registry, wvars, dvars, revision, turns, crashes>>

-----------------------------------------------------------------------------
(* Discards. *)

(* The operator reviews the workspace diff. *)
Review(d, s) ==
    /\ dpc[d] = "idle"
    /\ dpc' = [dpc EXCEPT ![d] = "reviewed"]
    /\ ds' = [ds EXCEPT ![d] = s]
    /\ expected' = [expected EXCEPT ![d] = revision[WorkspaceOf[s]]]
    /\ UNCHANGED <<registry, wvars, seen, durable, turns, crashes>>

(* The request passes its first checks.                                   *)
Request(d) ==
    /\ dpc[d] = "reviewed"
    /\ ds[d] \notin turns \cup active
    /\ expected[d] = revision[KeyOf(d)]
    /\ dpc' = [dpc EXCEPT ![d] = "requested"]
    /\ UNCHANGED <<registry, wvars, ds, expected, seen, durable, turns, crashes>>

(* closeSessionLifecycle and waitForOperations: no turn registers from    *)
(* here on, and one destructive operation per session goes on.            *)
CloseSession(d) ==
    /\ dpc[d] = "requested"
    /\ ~SessionClosed(ds[d])
    /\ dpc' = [dpc EXCEPT ![d] = "drained"]
    /\ UNCHANGED <<registry, wvars, ds, expected, seen, durable, turns, crashes>>

(* TryClose succeeds: nobody writes to or has closed an overlapping key.  *)
TryCloseIgnoringDescendants(d) ==
    LET k == KeyOf(d) IN
    /\ dpc[d] = "drained"
    /\ ~Blocked(k)
    /\ writers[k] = 0
    /\ exclusive' = [exclusive EXCEPT ![k] = TRUE]
    /\ dpc' = [dpc EXCEPT ![d] = "closed"]
    /\ UNCHANGED <<writers, wvars, ds, expected, seen, durable, turns, crashes>>
TryClose(d) ==
    LET k == KeyOf(d) IN
    /\ dpc[d] = "drained"
    /\ ~Blocked(k)
    /\ \A l \in Keys : Overlaps(k, l) => writers[l] = 0
    /\ exclusive' = [exclusive EXCEPT ![k] = TRUE]
    /\ dpc' = [dpc EXCEPT ![d] = "closed"]
    /\ UNCHANGED <<writers, wvars, ds, expected, seen, durable, turns, crashes>>

(* chatWorkspaceRevertBusy on the re-read session. *)
RecheckSession(d) ==
    /\ dpc[d] = "closed"
    /\ ds[d] \notin turns \cup active
    /\ dpc' = [dpc EXCEPT ![d] = "checked"]
    /\ seen' = [seen EXCEPT ![d] = {ds[d]}]
    /\ UNCHANGED <<registry, wvars, ds, expected, durable, turns, crashes>>

(* chatWorkspaceDurableOwner walks the owners in pages, runs before       *)
(* sessions: each is read at its own moment.                              *)
ScanOwnerSameKeyOnly(d, o) ==
    /\ dpc[d] = "checked"
    /\ o \notin seen[d]
    /\ o \in Sessions => Owners \ Sessions \subseteq seen[d]
    /\ ~(o \in active /\ WorkspaceOf[o] = KeyOf(d))
    /\ seen' = [seen EXCEPT ![d] = @ \cup {o}]
    /\ UNCHANGED <<registry, wvars, dpc, ds, expected, durable, turns, crashes>>
ScanOwner(d, o) ==
    /\ dpc[d] = "checked"
    /\ o \notin seen[d]
    /\ o \in Sessions => Owners \ Sessions \subseteq seen[d]
    /\ ~(o \in active /\ Overlaps(WorkspaceOf[o], KeyOf(d)))
    /\ seen' = [seen EXCEPT ![d] = @ \cup {o}]
    /\ UNCHANGED <<registry, wvars, dpc, ds, expected, durable, turns, crashes>>

(* SnapshotDiff again, compared with the reviewed revision. *)
CaptureUnchecked(d) ==
    /\ dpc[d] = "checked"
    /\ Owners \subseteq seen[d]
    /\ dpc' = [dpc EXCEPT ![d] = "captured"]
    /\ UNCHANGED <<registry, wvars, ds, expected, seen, durable, turns, crashes>>
Capture(d) ==
    /\ dpc[d] = "checked"
    /\ Owners \subseteq seen[d]
    /\ expected[d] = revision[KeyOf(d)]
    /\ dpc' = [dpc EXCEPT ![d] = "captured"]
    /\ UNCHANGED <<registry, wvars, ds, expected, seen, durable, turns, crashes>>

(* ReverseApplySnapshot changes the files. *)
Apply(d) ==
    /\ dpc[d] = "captured"
    /\ Touch(KeyOf(d))
    /\ dpc' = [dpc EXCEPT ![d] = "applied"]
    /\ UNCHANGED <<registry, wvars, ds, expected, seen, active, turns, crashes>>

(* notifyLocked closes the one channel every waiter captured. *)
NotifyNobody(k) == woken
Notify(k) == woken \cup {w \in Writers : wpc[w] = "waiting"}

(* The handler returns: its local state is gone. *)
Return(d) ==
    /\ dpc' = [dpc EXCEPT ![d] = "idle"]
    /\ expected' = [expected EXCEPT ![d] = 0]
    /\ seen' = [seen EXCEPT ![d] = {}]
    /\ UNCHANGED ds

(* ExclusiveLease.Release: every return of the handler after TryClose.    *)
ReleaseExclusive(d) ==
    /\ Holds(d)
    /\ exclusive' = [exclusive EXCEPT ![KeyOf(d)] = FALSE]
    /\ woken' = Notify(KeyOf(d))
    /\ Return(d)
    /\ UNCHANGED <<writers, wpc, wk, durable, turns, crashes>>

(* The request is refused before it holds the closure. *)
Refuse(d) ==
    /\ dpc[d] \in {"reviewed", "requested", "drained"}
    /\ Return(d)
    /\ UNCHANGED <<registry, wvars, durable, turns, crashes>>

-----------------------------------------------------------------------------
(* A restart loses the registry, the turns and every goroutine. *)
Crash ==
    /\ crashes < MaxCrashes
    /\ crashes' = crashes + 1
    /\ writers' = [k \in Keys |-> 0]
    /\ exclusive' = [k \in Keys |-> FALSE]
    /\ wpc' = [w \in Writers |-> "idle"]
    /\ woken' = {}
    /\ turns' = {}
    /\ dpc' = [d \in Discarders |-> "idle"]
    /\ expected' = [d \in Discarders |-> 0]
    /\ seen' = [d \in Discarders |-> {}]
    /\ UNCHANGED <<wk, ds, durable>>

WriterStep(w) ==
    \/ \E k \in Keys : AcquireWriter(w, k) \/ WaitWriter(w, k)
    \/ WaitRecheck(w) \/ WaitCancelled(w)
    \/ Write(w) \/ ReleaseWriter(w)
    \/ \E o \in Owners : Activate(w, o)

SessionStep(s) == RegisterTurn(s) \/ HecateTurn(s) \/ ClearTurn(s)

DiscardStep(d) ==
    \/ \E s \in Sessions : Review(d, s)
    \/ Request(d) \/ CloseSession(d) \/ TryClose(d) \/ RecheckSession(d)
    \/ \E o \in Owners : ScanOwner(d, o)
    \/ Capture(d) \/ Apply(d) \/ ReleaseExclusive(d) \/ Refuse(d)

Next ==
    \/ \E w \in Writers : WriterStep(w)
    \/ \E s \in Sessions : SessionStep(s)
    \/ \E o \in Owners : Settle(o)
    \/ \E d \in Discarders : DiscardStep(d)
    \/ Crash

Spec == Init /\ [][Next]_vars

-----------------------------------------------------------------------------
(* No writer is admitted to a workspace that overlaps a closed one, and no *)
(* two closures overlap, whatever mix of parents and children is asked for *)
(* (AcquireWriter, waitWriterKey, TryClose).                               *)
ClosureIsExclusive ==
    \A d \in Discarders : Holds(d) =>
        /\ \A w \in Writers : wpc[w] = "holding" => ~Overlaps(KeyOf(d), wk[w])
        /\ \A e \in Discarders \ {d} :
               Holds(e) => ~Overlaps(KeyOf(d), KeyOf(e))

(* A state counts exactly its outstanding leases, so a state that is       *)
(* pruned has none, and the early returns of releaseWriter and             *)
(* releaseExclusive never fire.                                            *)
LeasesExact ==
    \A k \in Keys :
        /\ writers[k] =
             Cardinality({w \in Writers : wpc[w] = "holding" /\ wk[w] = k})
        /\ exclusive[k] <=> \E d \in Discarders : Holds(d) /\ KeyOf(d) = k

(* A writer asleep without a pending wake-up really has a closure to wait  *)
(* for (waitWriterKey captures the channel under the lock).                *)
NoLostWakeup ==
    \A w \in Writers : wpc[w] = "waiting" /\ w \notin woken => Blocked(wk[w])

(* When the discard is about to change files, or has, no run and no        *)
(* external-agent turn owns an overlapping workspace, though the scan is   *)
(* no snapshot; and the session itself has no turn.  Turns of other        *)
(* Hecate sessions may begin meanwhile: their runs must wait for a lease.  *)
NoDiscardUnderWork ==
    \A d \in Discarders : dpc[d] \in {"captured", "applied"} =>
        /\ ds[d] \notin turns \cup active
        /\ \A o \in active :
               Overlaps(WorkspaceOf[o], KeyOf(d)) => o \in Hecate

(* The diff that will be reverse-applied is still the one the operator     *)
(* reviewed: no lease holder changes it between the capture and the apply. *)
DiscardsWhatWasReviewed ==
    \A d \in Discarders :
        dpc[d] = "captured" => revision[KeyOf(d)] = expected[d]
=============================================================================
