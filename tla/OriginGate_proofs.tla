-------------------------- MODULE OriginGate_proofs --------------------------
(***************************************************************************)
(* Safety of the origin gate for every finite set of callers, every set of *)
(* origins and any number of restarts.                                     *)
(***************************************************************************)
EXTENDS OriginGate, FiniteSetTheorems, TLAPS

AdmittedTo(o) == {m \in Mutators : Admitted(m) /\ mo[m] = o}
ClosingOf(o) == {d \in Deleters : Closing(d) /\ do[d] = o}

(* What makes the deletion of an owner stick: a tombstone, a validator, or *)
(* the closure of the deleter that is about to commit.                     *)
DeletionRemembered ==
    \A o \in Origins : Protected(o) /\ ~owner[o] =>
        \/ tombstoned[o]
        \/ KindOf[o] \in validators
        \/ \E d \in Deleters : dpc[d] = "deleted" /\ do[d] = o

AdmittedHasOwner ==
    \A m \in Mutators : mpc[m] = "admitted" /\ Protected(mo[m]) => owner[mo[m]]

DrainedIsQuiet ==
    \A d \in Deleters : dpc[d] \in {"drained", "deleted"} => ~live[do[d]]

(* The inductive invariant of the gate and its callers. *)
GateInv ==
    /\ TypeOK
    /\ RefcountsExact
    /\ ClosureExcludesMutators
    /\ NoLostWakeup
    /\ BootValidators \subseteq validators
    /\ DeletionRemembered
    /\ AdmittedHasOwner
    /\ DrainedIsQuiet
    /\ NoRunOutlivesOwner

-----------------------------------------------------------------------------
(* A subset of the callers is finite, so it can be counted. *)
LEMMA CallerSetsFinite ==
    \A o \in Origins : IsFiniteSet(AdmittedTo(o)) /\ IsFiniteSet(ClosingOf(o))
BY CallersAssumption, FS_Subset DEF AdmittedTo, ClosingOf

(* RefcountsExact in terms of the two named sets. *)
LEMMA RefcountsAsSets ==
    RefcountsExact <=>
        \A o \in Origins : /\ active[o] = Cardinality(AdmittedTo(o))
                           /\ closures[o] = Cardinality(ClosingOf(o))
BY DEF RefcountsExact, AdmittedTo, ClosingOf

(* A zero counter means that nobody is counted, and the other way round. *)
LEMMA ZeroCounts ==
    ASSUME TypeOK, RefcountsExact
    PROVE  \A o \in Origins :
               /\ active[o] = 0 <=> \A m \in Mutators : Admitted(m) => mo[m] # o
               /\ closures[o] = 0 <=> \A d \in Deleters : Closing(d) => do[d] # o
<1> TAKE o \in Origins
<1>1. active[o] = Cardinality(AdmittedTo(o)) /\ closures[o] = Cardinality(ClosingOf(o))
  BY RefcountsAsSets
<1>2. Cardinality(AdmittedTo(o)) = 0 <=> AdmittedTo(o) = {}
  BY CallerSetsFinite, FS_EmptySet
<1>3. Cardinality(ClosingOf(o)) = 0 <=> ClosingOf(o) = {}
  BY CallerSetsFinite, FS_EmptySet
<1> QED BY <1>1, <1>2, <1>3 DEF AdmittedTo, ClosingOf

(* A counted caller keeps its counter positive. *)
LEMMA PositiveCounts ==
    ASSUME TypeOK, RefcountsExact
    PROVE  /\ \A m \in Mutators : Admitted(m) => active[mo[m]] > 0
           /\ \A d \in Deleters : Closing(d) => closures[do[d]] > 0
<1>1. ASSUME NEW m \in Mutators, Admitted(m) PROVE active[mo[m]] > 0
  <2>1. mo[m] \in Origins /\ active[mo[m]] \in Nat
    BY DEF TypeOK
  <2>2. active[mo[m]] # 0
    BY <1>1, <2>1, ZeroCounts
  <2> QED BY <2>1, <2>2
<1>2. ASSUME NEW d \in Deleters, Closing(d) PROVE closures[do[d]] > 0
  <2>1. do[d] \in Origins /\ closures[do[d]] \in Nat
    BY DEF TypeOK
  <2>2. closures[do[d]] # 0
    BY <1>2, <2>1, ZeroCounts
  <2> QED BY <2>1, <2>2
<1> QED BY <1>1, <1>2

(* Counting one caller more. *)
LEMMA CountAdd ==
    ASSUME NEW S, IsFiniteSet(S), NEW x, x \notin S
    PROVE  Cardinality(S \cup {x}) = Cardinality(S) + 1
BY FS_AddElement

(* Counting one caller less. *)
LEMMA CountRemove ==
    ASSUME NEW S, IsFiniteSet(S), NEW x, x \in S
    PROVE  Cardinality(S \ {x}) = Cardinality(S) - 1
BY FS_RemoveElement

(* The counters stay exact: each step adds or removes the caller it moves. *)
LEMMA CountsStep ==
    ASSUME TypeOK, RefcountsExact, Next
    PROVE  RefcountsExact'
<1> USE DEF TypeOK
<1> DEFINE A(o) == AdmittedTo(o)
           C(o) == ClosingOf(o)
<1>0. /\ \A o \in Origins : IsFiniteSet(A(o)) /\ IsFiniteSet(C(o))
      /\ \A o \in Origins : active[o] = Cardinality(A(o)) /\ closures[o] = Cardinality(C(o))
  BY CallerSetsFinite, RefcountsAsSets
<1> SUFFICES \A o \in Origins : /\ active'[o] = Cardinality(A(o)')
                               /\ closures'[o] = Cardinality(C(o)')
  BY DEF RefcountsExact, AdmittedTo, ClosingOf
<1> SUFFICES ASSUME NEW o \in Origins
             PROVE  active'[o] = Cardinality(A(o)') /\ closures'[o] = Cardinality(C(o)')
  OBVIOUS
<1>1. CASE \E m \in Mutators, q \in Origins : Begin(m, q)
  <2>1. PICK m \in Mutators, q \in Origins : Begin(m, q)
    BY <1>1
  <2>2. C(o)' = C(o) /\ m \notin A(o)
    BY <2>1 DEF Begin, ClosingOf, Closing, AdmittedTo, Admitted, dvars
  <2>3. CASE q = o
    <3>1. A(o)' = A(o) \cup {m}
      BY <2>1, <2>3 DEF Begin, AdmittedTo, Admitted
    <3> QED BY <2>1, <2>2, <2>3, <3>1, <1>0, CountAdd DEF Begin
  <2>4. CASE q # o
    <3>1. A(o)' = A(o)
      BY <2>1, <2>4 DEF Begin, AdmittedTo, Admitted
    <3> QED BY <2>1, <2>2, <2>4, <3>1, <1>0 DEF Begin
  <2> QED BY <2>3, <2>4
<1>2. CASE \E m \in Mutators : Release(m)
  <2>1. PICK m \in Mutators : Release(m)
    BY <1>2
  <2>2. C(o)' = C(o)
    BY <2>1 DEF Release, ClosingOf, Closing
  <2>3. CASE mo[m] = o
    <3>1. A(o)' = A(o) \ {m} /\ m \in A(o)
      BY <2>1, <2>3 DEF Release, AdmittedTo, Admitted
    <3> QED BY <2>1, <2>2, <2>3, <3>1, <1>0, CountRemove DEF Release
  <2>4. CASE mo[m] # o
    <3>1. A(o)' = A(o)
      BY <2>1, <2>4 DEF Release, AdmittedTo, Admitted
    <3> QED BY <2>1, <2>2, <2>4, <3>1, <1>0 DEF Release
  <2> QED BY <2>3, <2>4
<1>3. CASE \E d \in Deleters, q \in Origins : Close(d, q)
  <2>1. PICK d \in Deleters, q \in Origins : Close(d, q)
    BY <1>3
  <2>2. A(o)' = A(o) /\ d \notin C(o)
    BY <2>1 DEF Close, ClosingOf, Closing, AdmittedTo, Admitted, mvars
  <2>3. CASE q = o
    <3>1. C(o)' = C(o) \cup {d}
      BY <2>1, <2>3 DEF Close, ClosingOf, Closing
    <3> QED BY <2>1, <2>2, <2>3, <3>1, <1>0, CountAdd DEF Close
  <2>4. CASE q # o
    <3>1. C(o)' = C(o)
      BY <2>1, <2>4 DEF Close, ClosingOf, Closing
    <3> QED BY <2>1, <2>2, <2>4, <3>1, <1>0 DEF Close
  <2> QED BY <2>3, <2>4
<1>4. CASE \E d \in Deleters : CloseCancelled(d) \/ Commit(d) \/ ReleaseClosure(d)
  <2>1. PICK d \in Deleters : CloseCancelled(d) \/ Commit(d) \/ ReleaseClosure(d)
    BY <1>4
  <2>2. Closing(d) /\ \E c \in BOOLEAN : FinishClosure(d, c)
    BY <2>1 DEF CloseCancelled, Commit, ReleaseClosure, Closing
  <2>3. A(o)' = A(o)
    BY <2>2 DEF FinishClosure, AdmittedTo, Admitted, mvars
  <2>4. CASE do[d] = o
    <3>1. C(o)' = C(o) \ {d} /\ d \in C(o)
      BY <2>2, <2>4 DEF FinishClosure, ClosingOf, Closing
    <3> QED BY <2>2, <2>3, <2>4, <3>1, <1>0, CountRemove DEF FinishClosure
  <2>5. CASE do[d] # o
    <3>1. C(o)' = C(o)
      BY <2>2, <2>5 DEF FinishClosure, ClosingOf, Closing
    <3> QED BY <2>2, <2>3, <2>5, <3>1, <1>0 DEF FinishClosure
  <2> QED BY <2>4, <2>5
<1>5. CASE \E m \in Mutators : Validate(m) \/ MutateRun(m)
  <2>1. A(o)' = A(o) /\ C(o)' = C(o)
    BY <1>5 DEF Validate, MutateRun, AdmittedTo, Admitted, ClosingOf, Closing, mvars, dvars
  <2> QED BY <1>5, <2>1, <1>0 DEF Validate, MutateRun, gateVars
<1>6. CASE \E d \in Deleters : CloseRecheck(d) \/ CancelOriginRuns(d) \/ DeleteOwner(d)
  <2>1. A(o)' = A(o) /\ C(o)' = C(o)
    BY <1>6 DEF CloseRecheck, CancelOriginRuns, DeleteOwner,
                AdmittedTo, Admitted, ClosingOf, Closing, mvars
  <2> QED BY <1>6, <2>1, <1>0 DEF CloseRecheck, CancelOriginRuns, DeleteOwner, gateVars
<1>7. CASE (\E q \in Origins : SettleRun(q)) \/ (\E k \in Kinds : SetValidator(k))
  <2>1. A(o)' = A(o) /\ C(o)' = C(o)
    BY <1>7 DEF SettleRun, SetValidator, AdmittedTo, Admitted, ClosingOf, Closing, mvars, dvars
  <2> QED BY <1>7, <2>1, <1>0 DEF SettleRun, SetValidator, gateVars
<1>8. CASE Crash
  <2>1. A(o)' = {} /\ C(o)' = {}
    BY <1>8 DEF Crash, AdmittedTo, Admitted, ClosingOf, Closing
  <2> QED BY <1>8, <2>1, FS_EmptySet DEF Crash
<1> QED BY <1>1, <1>2, <1>3, <1>4, <1>5, <1>6, <1>7, <1>8 DEF Next

-----------------------------------------------------------------------------
(* Types, given that a counter about to be decremented is positive. *)
LEMMA TypeStep ==
    ASSUME TypeOK, RefcountsExact, Next
    PROVE  TypeOK'
<1> USE DEF TypeOK
<1>0. /\ \A m \in Mutators : Admitted(m) => active[mo[m]] > 0
      /\ \A d \in Deleters : Closing(d) => closures[do[d]] > 0
  BY PositiveCounts
<1>1. ASSUME NEW m \in Mutators, NEW o \in Origins, Begin(m, o) PROVE TypeOK'
  BY <1>1 DEF Begin, durable, dvars
<1>2. ASSUME NEW m \in Mutators, Validate(m) \/ MutateRun(m) PROVE TypeOK'
  BY <1>2 DEF Validate, MutateRun, gateVars, durable, mvars, dvars
<1>3. ASSUME NEW m \in Mutators, Release(m) PROVE TypeOK'
  <2>1. active[mo[m]] - 1 \in Nat
    BY <1>0, <1>3 DEF Release, Admitted
  <2> QED BY <1>3, <2>1 DEF Release, Prune, Notify, durable
<1>4. ASSUME NEW o \in Origins, SettleRun(o) PROVE TypeOK'
  BY <1>4 DEF SettleRun, gateVars, mvars, dvars
<1>5. ASSUME NEW d \in Deleters, NEW o \in Origins, Close(d, o) PROVE TypeOK'
  BY <1>5 DEF Close, durable, mvars
<1>6. ASSUME NEW d \in Deleters,
             CloseRecheck(d) \/ CancelOriginRuns(d) \/ DeleteOwner(d)
      PROVE  TypeOK'
  BY <1>6 DEF CloseRecheck, CancelOriginRuns, DeleteOwner, gateVars, durable, mvars
<1>7. ASSUME NEW d \in Deleters, CloseCancelled(d) \/ Commit(d) \/ ReleaseClosure(d)
      PROVE  TypeOK'
  <2>1. Closing(d) /\ (\E c \in BOOLEAN : FinishClosure(d, c))
    BY <1>7 DEF CloseCancelled, Commit, ReleaseClosure, Closing
  <2>2. closures[do[d]] - 1 \in Nat
    BY <1>0, <2>1
  <2> QED BY <2>1, <2>2 DEF FinishClosure, Prune, Notify, durable, mvars
<1>8. ASSUME NEW k \in Kinds, SetValidator(k) PROVE TypeOK'
  BY <1>8 DEF SetValidator, Prune, durable, mvars, dvars
<1>9. ASSUME Crash PROVE TypeOK'
  BY <1>9, BootValidatorsAssumption, MaxCrashesAssumption DEF Crash, durable
<1> QED BY <1>1, <1>2, <1>3, <1>4, <1>5, <1>6, <1>7, <1>8, <1>9 DEF Next

-----------------------------------------------------------------------------
(* Mutual exclusion and wake-ups: what Close and its recheck rely on. *)
LEMMA ExclusionStep ==
    ASSUME TypeOK, RefcountsExact, ClosureExcludesMutators, NoLostWakeup, Next
    PROVE  ClosureExcludesMutators' /\ NoLostWakeup'
<1> USE DEF TypeOK, ClosureExcludesMutators, NoLostWakeup, Granted, Admitted
<1> DEFINE Goal == ClosureExcludesMutators' /\ NoLostWakeup'
<1>1. ASSUME NEW m \in Mutators, NEW o \in Origins, Begin(m, o) PROVE Goal
  <2>1. \A d \in Deleters : Closing(d) => do[d] # o
    BY <1>1, ZeroCounts DEF Begin
  <2> QED BY <1>1, <2>1 DEF Begin, Closing, dvars
<1>2. ASSUME NEW m \in Mutators, Validate(m) \/ MutateRun(m) PROVE Goal
  BY <1>2 DEF Validate, MutateRun, gateVars, mvars, dvars
<1>3. ASSUME NEW m \in Mutators, Release(m) PROVE Goal
  BY <1>3 DEF Release, Notify
<1>4. ASSUME NEW o \in Origins, SettleRun(o) PROVE Goal
  BY <1>4 DEF SettleRun, gateVars, mvars, dvars
<1>5. ASSUME NEW d \in Deleters, NEW o \in Origins, Close(d, o) PROVE Goal
  <2>1. active[o] = 0 => \A m \in Mutators : Admitted(m) => mo[m] # o
    BY ZeroCounts
  <2>2. active[o] # 0 => active[o] > 0
    OBVIOUS
  <2> QED BY <1>5, <2>1, <2>2 DEF Close, mvars
<1>6. ASSUME NEW d \in Deleters, CloseRecheck(d) PROVE Goal
  <2>1. active[do[d]] = 0 => \A m \in Mutators : Admitted(m) => mo[m] # do[d]
    BY ZeroCounts
  <2>2. active[do[d]] # 0 => active[do[d]] > 0
    OBVIOUS
  <2> QED BY <1>6, <2>1, <2>2 DEF CloseRecheck, gateVars, mvars
<1>7. ASSUME NEW d \in Deleters, CancelOriginRuns(d) \/ DeleteOwner(d) PROVE Goal
  BY <1>7 DEF CancelOriginRuns, DeleteOwner, gateVars, mvars
<1>8. ASSUME NEW d \in Deleters, CloseCancelled(d) \/ Commit(d) \/ ReleaseClosure(d)
      PROVE  Goal
  BY <1>8 DEF CloseCancelled, Commit, ReleaseClosure, FinishClosure, Notify, mvars
<1>9. ASSUME NEW k \in Kinds, SetValidator(k) PROVE Goal
  BY <1>9 DEF SetValidator, mvars, dvars
<1>10. ASSUME Crash PROVE Goal
  BY <1>10 DEF Crash
<1> QED BY <1>1, <1>2, <1>3, <1>4, <1>5, <1>6, <1>7, <1>8, <1>9, <1>10 DEF Next

(* The ownership argument: nobody forgets a deletion, so nobody is         *)
(* admitted to a deleted origin, so no run of it can come back.            *)
LEMMA OwnershipStep ==
    ASSUME GateInv, Next
    PROVE  /\ (BootValidators \subseteq validators)'
           /\ DeletionRemembered'
           /\ AdmittedHasOwner'
           /\ DrainedIsQuiet'
           /\ NoRunOutlivesOwner'
<1> DEFINE Goal == /\ (BootValidators \subseteq validators)'
                   /\ DeletionRemembered'
                   /\ AdmittedHasOwner'
                   /\ DrainedIsQuiet'
                   /\ NoRunOutlivesOwner'
<1> USE DEF GateInv, TypeOK, DeletionRemembered, AdmittedHasOwner, DrainedIsQuiet,
            NoRunOutlivesOwner, Protected
<1>1. ASSUME NEW m \in Mutators, NEW o \in Origins, Begin(m, o) PROVE Goal
  <2>1. \A d \in Deleters : dpc[d] = "deleted" => do[d] # o
    BY <1>1, ZeroCounts DEF Begin, Closing
  <2> QED BY <1>1, <2>1 DEF Begin, durable, dvars
<1>2. ASSUME NEW m \in Mutators, Validate(m) PROVE Goal
  BY <1>2 DEF Validate, gateVars, durable, dvars
<1>3. ASSUME NEW m \in Mutators, MutateRun(m) PROVE Goal
  BY <1>3 DEF MutateRun, gateVars, mvars, dvars, ClosureExcludesMutators, Granted, Admitted
<1>4. ASSUME NEW m \in Mutators, Release(m) PROVE Goal
  BY <1>4 DEF Release, Prune, durable
<1>5. ASSUME NEW o \in Origins, SettleRun(o) PROVE Goal
  BY <1>5 DEF SettleRun, gateVars, mvars, dvars
<1>6. ASSUME NEW d \in Deleters, NEW o \in Origins, Close(d, o) PROVE Goal
  BY <1>6 DEF Close, durable, mvars
<1>7. ASSUME NEW d \in Deleters, CloseRecheck(d) PROVE Goal
  BY <1>7 DEF CloseRecheck, gateVars, durable, mvars
<1>8. ASSUME NEW d \in Deleters, CancelOriginRuns(d) PROVE Goal
  BY <1>8 DEF CancelOriginRuns, gateVars, mvars
<1>9. ASSUME NEW d \in Deleters, DeleteOwner(d) PROVE Goal
  <2>1. \A m \in Mutators : mpc[m] = "admitted" => mo[m] # do[d]
    BY <1>9 DEF DeleteOwner, ClosureExcludesMutators, Granted, Admitted
  <2> QED BY <1>9, <2>1 DEF DeleteOwner, gateVars, mvars
<1>10. ASSUME NEW d \in Deleters, CloseCancelled(d) \/ ReleaseClosure(d) PROVE Goal
  BY <1>10 DEF CloseCancelled, ReleaseClosure, FinishClosure, Prune, durable, mvars
<1>11. ASSUME NEW d \in Deleters, Commit(d) PROVE Goal
  <2>1. (BootValidators \subseteq validators)' /\ AdmittedHasOwner' /\ DrainedIsQuiet'
    BY <1>11 DEF Commit, FinishClosure, durable, mvars
  <2>2. NoRunOutlivesOwner'
    BY <1>11 DEF Commit, FinishClosure, durable
  <2>3. DeletionRemembered'
    <3>1. KindOf[do[d]] \in validators \/ tombstoned'[do[d]]
      BY <1>11 DEF Commit, FinishClosure, Prune
    <3>2. \A o \in Origins \ {do[d]} : tombstoned'[o] = tombstoned[o]
      BY <1>11 DEF Commit, FinishClosure
    <3>3. \A e \in Deleters \ {d} : dpc'[e] = dpc[e] /\ do'[e] = do[e]
      BY <1>11 DEF Commit, FinishClosure
    <3>4. UNCHANGED <<owner, validators, crashes>>
      BY <1>11 DEF Commit, FinishClosure, durable
    <3> QED BY <3>1, <3>2, <3>3, <3>4
  <2> QED BY <2>1, <2>2, <2>3
<1>12. ASSUME NEW k \in Kinds, SetValidator(k) PROVE Goal
  BY <1>12 DEF SetValidator, Prune, durable, mvars, dvars
<1>13. ASSUME Crash PROVE Goal
  BY <1>13 DEF Crash, durable
<1> QED BY <1>1, <1>2, <1>3, <1>4, <1>5, <1>6, <1>7, <1>8, <1>9, <1>10, <1>11, <1>12,
           <1>13 DEF Next

-----------------------------------------------------------------------------
(* The gate invariant holds in every reachable state, for any callers.     *)
THEOREM GateInvariant == Spec => []GateInv
<1>1. Init => GateInv
  <2> SUFFICES ASSUME Init PROVE GateInv
    OBVIOUS
  <2>1. TypeOK
    BY BootValidatorsAssumption, MaxCrashesAssumption DEF Init, TypeOK
  <2>2. \A o \in Origins : AdmittedTo(o) = {} /\ ClosingOf(o) = {}
    BY DEF Init, AdmittedTo, ClosingOf, Admitted, Closing
  <2>3. RefcountsExact
    BY <2>2, RefcountsAsSets, FS_EmptySet DEF Init
  <2> QED
    BY <2>1, <2>3 DEF Init, GateInv, ClosureExcludesMutators, NoLostWakeup, Granted,
       DeletionRemembered, AdmittedHasOwner, DrainedIsQuiet, NoRunOutlivesOwner
<1>2. GateInv /\ [Next]_vars => GateInv'
  <2> SUFFICES ASSUME GateInv, [Next]_vars PROVE GateInv'
    OBVIOUS
  <2>1. CASE Next
    BY <2>1, TypeStep, CountsStep, ExclusionStep, OwnershipStep DEF GateInv
  <2>2. CASE UNCHANGED vars
    <3> USE <2>2 DEF vars, gateVars, durable, mvars, dvars
    <3>1. TypeOK'
      BY DEF GateInv, TypeOK
    <3>2. RefcountsExact'
      BY DEF GateInv, RefcountsExact, Admitted, Closing
    <3>3. ClosureExcludesMutators' /\ NoLostWakeup'
      BY DEF GateInv, ClosureExcludesMutators, NoLostWakeup, Granted, Admitted
    <3>4. DeletionRemembered' /\ AdmittedHasOwner' /\ (BootValidators \subseteq validators)'
      BY DEF GateInv, DeletionRemembered, AdmittedHasOwner, Protected
    <3>5. DrainedIsQuiet' /\ NoRunOutlivesOwner'
      BY DEF GateInv, DrainedIsQuiet, NoRunOutlivesOwner, Protected
    <3> QED BY <3>1, <3>2, <3>3, <3>4, <3>5 DEF GateInv
  <2> QED BY <2>1, <2>2
<1> QED BY <1>1, <1>2, PTL DEF Spec

(* No mutation is admitted to an origin while a deleter owns it.           *)
THEOREM ClosureExclusion == Spec => []ClosureExcludesMutators
BY GateInvariant, PTL DEF GateInv

(* The reference counts are exact, so the gate's early returns are dead.   *)
THEOREM ExactRefcounts == Spec => []RefcountsExact
BY GateInvariant, PTL DEF GateInv

(* A sleeping Close always has an admission whose release will wake it.    *)
THEOREM WakeupsNotLost == Spec => []NoLostWakeup
BY GateInvariant, PTL DEF GateInv

(* No live run of a deleted owner, whatever the interleaving of mutators,  *)
(* deleters, validator installation and restarts.                          *)
THEOREM NoOrphanRuns == Spec => []NoRunOutlivesOwner
BY GateInvariant, PTL DEF GateInv
=============================================================================
