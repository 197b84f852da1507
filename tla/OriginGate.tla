----------------------------- MODULE OriginGate -----------------------------
(***************************************************************************)
(* The origin run gate (internal/taskruncoord/origin_gate.go) together     *)
(* with the two kinds of caller it serializes:                             *)
(*                                                                         *)
(*   - mutators: run creation, claimed-run start, requeue and approval     *)
(*     resolution, which Begin an admission, change runs of the origin and *)
(*     Release the lease;                                                  *)
(*   - deleters: chat deletion, which Closes the origin, cancels every run *)
(*     it owns, deletes the durable owner and Commits the closure, or      *)
(*     Releases it when a step fails.                                      *)
(*                                                                         *)
(* Origins are complete (Kind and ID set).  An origin without Kind and ID  *)
(* gets a lease that counts nothing, and a partial one gets an error, so   *)
(* neither touches the state below.                                        *)
(*                                                                         *)
(* An operator directly above the definition it varies, with the same      *)
(* parameters and a name that says what is wrong with it, is that          *)
(* definition with a plausible defect; PROJECT.json pairs it with the      *)
(* property that detects it.  The specification never uses it.             *)
(***************************************************************************)
EXTENDS Integers, FiniteSets

CONSTANTS
    Origins,         \* complete origins
    Kinds,           \* origin kinds, the keys of gate.validators
    KindOf,          \* the kind of each origin
    BootValidators,  \* kinds whose validator is installed at composition
    Mutators,        \* callers of Begin
    Deleters,        \* callers of Close
    MaxCrashes       \* bound on process restarts

ASSUME KindOfAssumption == KindOf \in [Origins -> Kinds]
ASSUME BootValidatorsAssumption == BootValidators \subseteq Kinds
ASSUME CallersAssumption == IsFiniteSet(Mutators) /\ IsFiniteSet(Deleters)
ASSUME MaxCrashesAssumption == MaxCrashes \in Nat

VARIABLES
    active,      \* originState.active: admitted mutations
    closures,    \* originState.closures: closures asked for or held
    tombstoned,  \* originState.tombstoned
    validators,  \* kinds with an installed Validator
    owner,       \* durable owner row, TRUE while it exists
    live,        \* TRUE while a non-terminal run of the origin is stored
    mpc, mo,     \* control state and origin of each mutator
    dpc, do,     \* control state and origin of each deleter
    woken,       \* deleters whose captured `changed` channel was closed
    crashes

gateVars == <<active, closures, tombstoned>>
mvars == <<mpc, mo>>
dvars == <<dpc, do, woken>>
durable == <<owner, live>>
vars == <<gateVars, validators, durable, mvars, dvars, crashes>>

(* A mutator is counted in `active` from Begin until its Release. *)
Admitted(m) == mpc[m] \in {"validating", "rejected", "admitted"}

(* A deleter is counted in `closures` from Close until finishClosure. *)
Closing(d) == dpc[d] \in {"waiting", "granted", "drained", "deleted"}

(* Close returned: the deleter owns the origin. *)
Granted(d) == dpc[d] \in {"granted", "drained", "deleted"}

TypeOK ==
    /\ active \in [Origins -> Nat]
    /\ closures \in [Origins -> Nat]
    /\ tombstoned \in [Origins -> BOOLEAN]
    /\ validators \subseteq Kinds
    /\ owner \in [Origins -> BOOLEAN]
    /\ live \in [Origins -> BOOLEAN]
    /\ mpc \in [Mutators -> {"idle", "validating", "rejected", "admitted"}]
    /\ mo \in [Mutators -> Origins]
    /\ dpc \in [Deleters -> {"idle", "waiting", "granted", "drained", "deleted"}]
    /\ do \in [Deleters -> Origins]
    /\ woken \subseteq Deleters
    /\ crashes \in 0 .. MaxCrashes

Init ==
    /\ active = [o \in Origins |-> 0]
    /\ closures = [o \in Origins |-> 0]
    /\ tombstoned = [o \in Origins |-> FALSE]
    /\ validators = BootValidators
    /\ owner = [o \in Origins |-> TRUE]
    /\ live \in [Origins -> BOOLEAN]
    /\ mpc = [m \in Mutators |-> "idle"]
    /\ mo \in [Mutators -> Origins]
    /\ dpc = [d \in Deleters |-> "idle"]
    /\ do \in [Deleters -> Origins]
    /\ woken = {}
    /\ crashes = 0

-----------------------------------------------------------------------------
(* The state of one origin after its counters became a and c: an idle     *)
(* state is deleted from the map, which forgets the tombstone, unless the *)
(* tombstone has no validator to stand in for it (pruneLocked).           *)
PruneAlways(o, a, c, t, installed) == t /\ ~(a = 0 /\ c = 0)
Prune(o, a, c, t, installed) ==
    t /\ ~(a = 0 /\ c = 0 /\ KindOf[o] \in installed)

(* notifyLocked closes the channel every waiting Close of o captured. *)
NotifyNobody(o) == woken
Notify(o) == woken \cup {d \in Deleters : dpc[d] = "waiting" /\ do[d] = o}

(* Begin: admission is counted before the validator runs. *)
Begin(m, o) ==
    /\ mpc[m] = "idle"
    /\ ~tombstoned[o]
    /\ closures[o] = 0
    /\ active' = [active EXCEPT ![o] = @ + 1]
    /\ mo' = [mo EXCEPT ![m] = o]
    /\ mpc' = [mpc EXCEPT ![m] =
                 IF KindOf[o] \in validators THEN "validating" ELSE "admitted"]
    /\ UNCHANGED <<closures, tombstoned, validators, durable, dvars, crashes>>

(* The validator reads the durable owner; a store error also rejects. *)
Validate(m) ==
    /\ mpc[m] = "validating"
    /\ \/ /\ owner[mo[m]]
          /\ mpc' = [mpc EXCEPT ![m] = "admitted"]
       \/ mpc' = [mpc EXCEPT ![m] = "rejected"]
    /\ UNCHANGED <<gateVars, validators, durable, mo, dvars, crashes>>

(* The admitted caller creates, starts, requeues or resumes a run. *)
MutateRun(m) ==
    /\ mpc[m] = "admitted"
    /\ live' = [live EXCEPT ![mo[m]] = TRUE]
    /\ UNCHANGED <<gateVars, validators, owner, mvars, dvars, crashes>>

(* A run of the origin reaches a terminal status, or is cancelled, without *)
(* passing the gate.                                                       *)
SettleRun(o) ==
    /\ live[o]
    /\ live' = [live EXCEPT ![o] = FALSE]
    /\ UNCHANGED <<gateVars, validators, owner, mvars, dvars, crashes>>

(* Lease.Release, also taken by Begin when the validator rejects. *)
Release(m) ==
    LET o == mo[m] IN
    /\ mpc[m] \in {"rejected", "admitted"}
    /\ active' = [active EXCEPT ![o] = @ - 1]
    /\ tombstoned' = [tombstoned EXCEPT ![o] =
                        Prune(o, active'[o], closures[o], @, validators)]
    /\ woken' = Notify(o)
    /\ mpc' = [mpc EXCEPT ![m] = "idle"]
    /\ UNCHANGED <<closures, validators, durable, mo, dpc, do, crashes>>

(* Close: the closure is counted, then waits for active = 0. *)
CloseWithoutWaiting(d, o) ==
    /\ dpc[d] = "idle"
    /\ closures' = [closures EXCEPT ![o] = @ + 1]
    /\ do' = [do EXCEPT ![d] = o]
    /\ dpc' = [dpc EXCEPT ![d] = "granted"]
    /\ woken' = woken \ {d}
    /\ UNCHANGED <<active, tombstoned, validators, durable, mvars, crashes>>
Close(d, o) ==
    /\ dpc[d] = "idle"
    /\ closures' = [closures EXCEPT ![o] = @ + 1]
    /\ do' = [do EXCEPT ![d] = o]
    /\ dpc' = [dpc EXCEPT ![d] = IF active[o] = 0 THEN "granted" ELSE "waiting"]
    /\ woken' = woken \ {d}
    /\ UNCHANGED <<active, tombstoned, validators, durable, mvars, crashes>>

(* <-changed fired: take the lock, look at active again. *)
CloseRecheckAlone(d) ==
    /\ dpc[d] = "waiting"
    /\ d \in woken
    /\ closures[do[d]] = 1
    /\ dpc' = [dpc EXCEPT ![d] = IF active[do[d]] = 0 THEN "granted" ELSE @]
    /\ woken' = woken \ {d}
    /\ UNCHANGED <<gateVars, validators, durable, mvars, do, crashes>>
CloseRecheck(d) ==
    /\ dpc[d] = "waiting"
    /\ d \in woken
    /\ dpc' = [dpc EXCEPT ![d] = IF active[do[d]] = 0 THEN "granted" ELSE @]
    /\ woken' = woken \ {d}
    /\ UNCHANGED <<gateVars, validators, durable, mvars, do, crashes>>

FinishClosure(d, commit) ==
    LET o == do[d] IN
    /\ closures' = [closures EXCEPT ![o] = @ - 1]
    /\ tombstoned' = [tombstoned EXCEPT ![o] =
                        Prune(o, active[o], closures'[o], @ \/ commit, validators)]
    /\ woken' = Notify(o) \ {d}
    /\ dpc' = [dpc EXCEPT ![d] = "idle"]
    /\ UNCHANGED <<active, validators, durable, mvars, do, crashes>>

(* ctx.Done() while Close waits. *)
CloseCancelled(d) == dpc[d] = "waiting" /\ FinishClosure(d, FALSE)

(* CancelNonTerminalRunsByOrigin settles every run the origin owns. *)
CancelOriginRuns(d) ==
    /\ dpc[d] = "granted"
    /\ live' = [live EXCEPT ![do[d]] = FALSE]
    /\ dpc' = [dpc EXCEPT ![d] = "drained"]
    /\ UNCHANGED <<gateVars, validators, owner, mvars, do, woken, crashes>>

(* DeleteSession; it fails when another deleter was first. *)
DeleteOwner(d) ==
    /\ dpc[d] = "drained"
    /\ owner[do[d]]
    /\ owner' = [owner EXCEPT ![do[d]] = FALSE]
    /\ dpc' = [dpc EXCEPT ![d] = "deleted"]
    /\ UNCHANGED <<gateVars, validators, live, mvars, do, woken, crashes>>

Commit(d) == dpc[d] = "deleted" /\ FinishClosure(d, TRUE)

(* The deferred Closure.Release after a failed step of the deletion. *)
ReleaseClosure(d) == dpc[d] \in {"granted", "drained"} /\ FinishClosure(d, FALSE)

(* SetValidator prunes the committed states of its kind. *)
SetValidator(k) ==
    /\ k \notin validators
    /\ validators' = validators \cup {k}
    /\ tombstoned' = [o \in Origins |->
                        IF KindOf[o] = k
                          THEN Prune(o, active[o], closures[o], tombstoned[o], validators')
                          ELSE tombstoned[o]]
    /\ UNCHANGED <<active, closures, durable, mvars, dvars, crashes>>

(* A restart loses the gate and its callers; owner and runs are durable. *)
Crash ==
    /\ crashes < MaxCrashes
    /\ crashes' = crashes + 1
    /\ active' = [o \in Origins |-> 0]
    /\ closures' = [o \in Origins |-> 0]
    /\ tombstoned' = [o \in Origins |-> FALSE]
    /\ validators' = BootValidators
    /\ mpc' = [m \in Mutators |-> "idle"]
    /\ dpc' = [d \in Deleters |-> "idle"]
    /\ woken' = {}
    /\ UNCHANGED <<durable, mo, do>>

Next ==
    \/ \E m \in Mutators, o \in Origins : Begin(m, o)
    \/ \E m \in Mutators : Validate(m) \/ MutateRun(m) \/ Release(m)
    \/ \E o \in Origins : SettleRun(o)
    \/ \E d \in Deleters, o \in Origins : Close(d, o)
    \/ \E d \in Deleters : CloseRecheck(d) \/ CloseCancelled(d)
    \/ \E d \in Deleters : CancelOriginRuns(d) \/ DeleteOwner(d)
    \/ \E d \in Deleters : Commit(d) \/ ReleaseClosure(d)
    \/ \E k \in Kinds : SetValidator(k)
    \/ Crash

Spec == Init /\ [][Next]_vars

(* Every admitted caller returns, because each of them releases its lease *)
(* in a defer, and a woken Close gets the mutex.                          *)
Fairness ==
    /\ \A m \in Mutators : WF_vars(Validate(m)) /\ WF_vars(Release(m))
    /\ \A d \in Deleters : WF_vars(CloseRecheck(d))

FairSpec == Spec /\ Fairness

-----------------------------------------------------------------------------
(* The decision to delete an origin survives: either its kind had its     *)
(* validator from the start, or the process that holds the tombstone      *)
(* never restarted.                                                       *)
Protected(o) == KindOf[o] \in BootValidators \/ crashes = 0

(* While a closure is granted no mutation of the origin is admitted: what  *)
(* the deleter lists and cancels is all there is (Close, lines 226-242).   *)
ClosureExcludesMutators ==
    \A d \in Deleters, m \in Mutators :
        Granted(d) /\ Admitted(m) => do[d] # mo[m]

(* The counters are the numbers of outstanding leases and closures, so the *)
(* early returns of releaseAdmission and finishClosure never fire and no   *)
(* decrement is lost or doubled.                                           *)
RefcountsExact ==
    \A o \in Origins :
        /\ active[o] = Cardinality({m \in Mutators : Admitted(m) /\ mo[m] = o})
        /\ closures[o] = Cardinality({d \in Deleters : Closing(d) /\ do[d] = o})

(* A Close that sleeps without a pending wake-up has an admission to wait  *)
(* for: the channel captured under the lock cannot miss a notification.    *)
NoLostWakeup ==
    \A d \in Deleters :
        dpc[d] = "waiting" /\ d \notin woken => active[do[d]] > 0

(* Once the durable owner is gone, no live run of the origin exists, for   *)
(* pruned tombstones, concurrent deleters and restarts alike.              *)
NoRunOutlivesOwner ==
    \A o \in Origins : Protected(o) /\ ~owner[o] => ~live[o]

(* Close blocks admissions before it waits, so it is granted or cancelled. *)
CloseReturns ==
    \A d \in Deleters : dpc[d] = "waiting" ~> dpc[d] # "waiting"
=============================================================================
