------------------------- MODULE RunRuntime_proofs -------------------------
(***************************************************************************)
(* Proofs about RunRuntime for every set of tasks, runs, processes,        *)
(* workers and approvals, and every bound on stops and faults: first what  *)
(* the store keeps, then which executors may work on a run.                *)
(***************************************************************************)
EXTENDS RunRuntime, TLAPS

USE RunsAssumption, WorkersAssumption, BoundsAssumption, OutcomesAssumption

(* A process that is down or booting has no running worker: StartWorkers   *)
(* comes after boot reconciliation.                                        *)
WorkersOff ==
    \A w \in Workers : proc[Home[w]] \in {"down", "booting"} => pc[w] = "off"

TypeInv == TypeOK /\ WorkersOff

(* A cancellation that returns to the reconciler (ReturnToScan) keeps the  *)
(* types of the reconciler's state.                                        *)
LEMMA ReturnToScanTyped ==
  ASSUME ScanTypeOK, NEW p \in Procs, NEW r \in Runs, NEW failed \in BOOLEAN,
         ReturnToScan(p, r, failed), UNCHANGED <<proc, phase, todo, fullRetry>>
  PROVE  ScanTypeOK'
<1>1. CASE step[p] = "drain" /\ cur[p] = r
  <2>1. pend' \in [Procs -> [Runs -> {"none", "enqueue", "disconnected"}]]
    <3>1. PICK x : /\ pend' = [pend EXCEPT ![p][r] = x]
                   /\ x \in {"none", "disconnected", pend[p][r]}
      BY <1>1 DEF ReturnToScan
    <3>2. pend[p][r] \in {"none", "enqueue", "disconnected"}
      BY DEF ScanTypeOK
    <3>3. x \in {"none", "enqueue", "disconnected"}
      BY <3>1, <3>2
    <3>4. QED BY <3>1, <3>3 DEF ScanTypeOK
  <2>2. step' = [step EXCEPT ![p] = "next"] /\ cur' = [cur EXCEPT ![p] = NoRun]
    BY <1>1 DEF ReturnToScan
  <2>3. QED BY <2>1, <2>2 DEF ScanTypeOK
<1>2. CASE ~(step[p] = "drain" /\ cur[p] = r)
  BY <1>2 DEF ScanTypeOK, ReturnToScan
<1>3. QED BY <1>1, <1>2

(* The inductive form of TypeOK: StartWorkers (FinishBoot) may take a      *)
(* worker for idle only because no worker of a booting process carries a   *)
(* run.                                                                    *)
LEMMA TypeInvariance == Spec => []TypeInv
<1> USE DEF TypeInv, TypeOK, store, taskVars, apprVars, workerVars, scanVars,
            startVars, drainVars, bounds
<1>1. Init => TypeInv
  BY DEF Init, StoreTypeOK, WorkerTypeOK, ScanTypeOK, CallTypeOK, WorkersOff,
         Status, Active, Terminal
<1>2. TypeInv /\ [Next]_vars => TypeInv'
  <2> SUFFICES ASSUME TypeInv, [Next]_vars PROVE TypeInv'
    OBVIOUS
  <2> USE DEF Status, Active, Terminal
  <2>1. ASSUME NEW p \in Procs, NEW r \in Runs, StartUngated(p, r) PROVE
      TypeInv'
    BY <2>1 DEF StartUngated, Admissible, SetRun, StoreTypeOK, WorkerTypeOK,
        ScanTypeOK, CallTypeOK, WorkersOff
  <2>2. ASSUME NEW p \in Procs, NEW r \in Runs, NEW a \in Approvals,
      StartScheduledGated(p, r, a) PROVE TypeInv'
    BY <2>2 DEF StartScheduledGated, Admissible, SetRun, CreateApproval,
        StoreTypeOK, WorkerTypeOK, ScanTypeOK, CallTypeOK, WorkersOff
  <2>3. ASSUME NEW p \in Procs, NEW r \in Runs, StartGated(p, r) PROVE TypeInv'
    BY <2>3 DEF StartGated, Admissible, SetRun, StoreTypeOK, WorkerTypeOK,
        ScanTypeOK, CallTypeOK, WorkersOff
  <2>4. ASSUME NEW p \in Procs, NEW r \in Runs, CreateStartApproval(p, r) PROVE
      TypeInv'
    <3>1. StoreTypeOK'
      BY <2>4 DEF CreateStartApproval, CreateApproval, Fault, StoreTypeOK,
          WorkerTypeOK
    <3>2. WorkerTypeOK'
      BY <2>4 DEF CreateStartApproval, CreateApproval, Fault, WorkerTypeOK
    <3>3. ScanTypeOK'
      BY <2>4 DEF CreateStartApproval, CreateApproval, Fault, ScanTypeOK,
          StoreTypeOK
    <3>4. CallTypeOK'
      <4>1. approving' = [approving EXCEPT ![p] = @ \ {r}]
        BY <2>4 DEF CreateStartApproval
      <4>2. updating' = [updating EXCEPT ![p] = @ \cup {r}] \/ updating' =
            updating
        BY <2>4 DEF CreateStartApproval
      <4>3. faults' \in Nat BY <2>4 DEF CreateStartApproval, Fault, CallTypeOK
      <4>4. UNCHANGED <<apiOwes, drainVars, stops>>
        BY <2>4 DEF CreateStartApproval
      <4>5. approving' \in [Procs -> SUBSET Runs]
        BY <4>1 DEF CallTypeOK
      <4>6. updating' \in [Procs -> SUBSET Runs]
        BY <4>2 DEF CallTypeOK
      <4>q. QED BY <4>3, <4>4, <4>5, <4>6 DEF CallTypeOK, drainVars
    <3>5. WorkersOff'
      BY <2>4 DEF CreateStartApproval, CreateApproval, Fault, WorkersOff,
          WorkerTypeOK, ScanTypeOK
    <3>6. QED BY <3>1, <3>2, <3>3, <3>4, <3>5
  <2>5. ASSUME NEW p \in Procs, NEW r \in Runs, UpdateStartedRun(p, r) PROVE
      TypeInv'
    <3> USE <2>5 DEF UpdateStartedRun, Fault
    <3>1. StoreTypeOK'
      BY DEF StoreTypeOK, WorkerTypeOK
    <3>2. WorkerTypeOK'
      BY DEF WorkerTypeOK
    <3>3. ScanTypeOK'
      BY DEF ScanTypeOK, StoreTypeOK
    <3>4. CallTypeOK'
      BY DEF CallTypeOK, WorkerTypeOK
    <3>5. WorkersOff'
      BY DEF WorkersOff, WorkerTypeOK, ScanTypeOK
    <3>6. QED BY <3>1, <3>2, <3>3, <3>4, <3>5
  <2>6. ASSUME NEW p \in Procs, NEW r \in Runs, EnqueueOwed(p, r) PROVE
      TypeInv'
    <3>1. StoreTypeOK'
      BY <2>6 DEF EnqueueOwed, Enqueue, EnqueueAmbiguous, Fault, StoreTypeOK,
          WorkerTypeOK
    <3>2. WorkerTypeOK'
      BY <2>6 DEF EnqueueOwed, Enqueue, EnqueueAmbiguous, Fault, WorkerTypeOK
    <3>3. ScanTypeOK'
      <4>1. pend' \in [Procs -> [Runs -> {"none", "enqueue", "disconnected"}]]
        <5>1. CASE pend' = [pend EXCEPT ![p][r] = "none"]
          BY <5>1 DEF ScanTypeOK
        <5>2. CASE pend' = [pend EXCEPT ![p][r] = IF @ = "none" THEN "enqueue"
              ELSE @]
          BY <5>2 DEF ScanTypeOK
        <5>3. QED BY <2>6, <5>1, <5>2 DEF EnqueueOwed
      <4>2. QED BY <2>6, <4>1 DEF EnqueueOwed, ScanTypeOK
    <3>4. CallTypeOK'
      BY <2>6 DEF EnqueueOwed, Enqueue, EnqueueAmbiguous, Fault, CallTypeOK,
          WorkerTypeOK
    <3>5. WorkersOff'
      BY <2>6 DEF EnqueueOwed, Enqueue, EnqueueAmbiguous, Fault, WorkersOff,
          WorkerTypeOK, ScanTypeOK
    <3>6. QED BY <3>1, <3>2, <3>3, <3>4, <3>5
  <2>7. ASSUME NEW p \in Procs, NEW a \in Approvals, Approve(p, a) PROVE
      TypeInv'
    BY <2>7 DEF Approve, ApplyRunStateTransition, SetRun, StoreTypeOK,
        WorkerTypeOK, ScanTypeOK, CallTypeOK, WorkersOff
  <2>8. ASSUME NEW p \in Procs, NEW a \in Approvals, Reject(p, a) PROVE
      TypeInv'
    <3> USE <2>8 DEF Reject, ApplyRunTerminalTransition, SetRun, PendingOf
    <3>1. StoreTypeOK'
      BY DEF StoreTypeOK, WorkerTypeOK
    <3>2. WorkerTypeOK'
      BY DEF WorkerTypeOK
    <3>3. ScanTypeOK'
      BY DEF ScanTypeOK, StoreTypeOK
    <3>4. CallTypeOK'
      BY DEF CallTypeOK, WorkerTypeOK
    <3>5. WorkersOff'
      BY DEF WorkersOff, WorkerTypeOK, ScanTypeOK
    <3>6. QED BY <3>1, <3>2, <3>3, <3>4, <3>5
  <2>9. ASSUME NEW p \in Procs, NEW r \in Runs, CancelRun(p, r) PROVE TypeInv'
    <3> USE <2>9 DEF CancelRun, CancelInStore, ApplyRunTerminalTransition,
          SetRun, CancelPendingApprovals, PendingOf
    <3>1. StoreTypeOK'
      BY DEF StoreTypeOK, WorkerTypeOK
    <3>2. WorkerTypeOK'
      BY DEF WorkerTypeOK
    <3>3. ScanTypeOK'
      BY DEF ScanTypeOK, StoreTypeOK
    <3>4. CallTypeOK'
      BY DEF CallTypeOK, WorkerTypeOK
    <3>5. WorkersOff'
      BY DEF WorkersOff, WorkerTypeOK, ScanTypeOK
    <3>6. QED BY <3>1, <3>2, <3>3, <3>4, <3>5
  <2>10. ASSUME NEW p \in Procs, NEW r \in Runs, SignalJobs(p, r) PROVE
      TypeInv'
    BY <2>10 DEF SignalJobs, JobsOf, Registered, StoreTypeOK, WorkerTypeOK,
        ScanTypeOK, CallTypeOK, WorkersOff
  <2>11. ASSUME NEW p \in Procs, NEW r \in Runs, FinishCancel(p, r) PROVE
      TypeInv'
    <3>1. StoreTypeOK'
      BY <2>11 DEF FinishCancel, CancelInStore, ApplyRunTerminalTransition,
          SetRun, CancelPendingApprovals, PendingOf, ReturnToScan, StoreTypeOK,
          WorkerTypeOK
    <3>2. WorkerTypeOK'
      BY <2>11 DEF FinishCancel, CancelInStore, ApplyRunTerminalTransition,
          SetRun, CancelPendingApprovals, PendingOf, ReturnToScan, WorkerTypeOK
    <3>3. ScanTypeOK'
      BY <2>11, ReturnToScanTyped DEF FinishCancel
    <3>4. CallTypeOK'
      BY <2>11 DEF FinishCancel, CancelInStore, ApplyRunTerminalTransition,
          SetRun, CancelPendingApprovals, PendingOf, ReturnToScan, CallTypeOK,
          WorkerTypeOK
    <3>5. WorkersOff'
      BY <2>11 DEF FinishCancel, CancelInStore, ApplyRunTerminalTransition,
          SetRun, CancelPendingApprovals, PendingOf, ReturnToScan, WorkersOff,
          WorkerTypeOK, ScanTypeOK
    <3>6. QED BY <3>1, <3>2, <3>3, <3>4, <3>5
  <2>12. ASSUME NEW p \in Procs, NEW r \in Runs, AbandonCancel(p, r) PROVE
      TypeInv'
    <3>1. StoreTypeOK'
      BY <2>12 DEF AbandonCancel, Fault, ReturnToScan, StoreTypeOK,
          WorkerTypeOK
    <3>2. WorkerTypeOK'
      BY <2>12 DEF AbandonCancel, Fault, ReturnToScan, WorkerTypeOK
    <3>3. ScanTypeOK'
      BY <2>12, ReturnToScanTyped DEF AbandonCancel
    <3>4. CallTypeOK'
      BY <2>12 DEF AbandonCancel, Fault, ReturnToScan, CallTypeOK, WorkerTypeOK
    <3>5. WorkersOff'
      BY <2>12 DEF AbandonCancel, Fault, ReturnToScan, WorkersOff,
          WorkerTypeOK, ScanTypeOK
    <3>6. QED BY <3>1, <3>2, <3>3, <3>4, <3>5
  <2>13. ASSUME NEW r \in Runs, LeaseLapses(r) PROVE TypeInv'
    BY <2>13 DEF LeaseLapses, StoreTypeOK, WorkerTypeOK, ScanTypeOK,
        CallTypeOK, WorkersOff
  <2>14. ASSUME NEW w \in Workers, Heartbeat(w) PROVE TypeInv'
    BY <2>14 DEF Heartbeat, Registered, StoreTypeOK, WorkerTypeOK, ScanTypeOK,
        CallTypeOK, WorkersOff
  <2>15. ASSUME NEW w \in Workers, NEW r \in Runs, Claim(w, r) PROVE TypeInv'
    BY <2>15 DEF Claim, GoTo, StoreTypeOK, WorkerTypeOK, ScanTypeOK,
        CallTypeOK, WorkersOff
  <2>16. ASSUME NEW w \in Workers, NEW r \in Runs, ClaimLost(w, r) PROVE
      TypeInv'
    BY <2>16 DEF ClaimLost, Fault, StoreTypeOK, WorkerTypeOK, ScanTypeOK,
        CallTypeOK, WorkersOff
  <2>17. ASSUME NEW w \in Workers, LoadClaimedRun(w) PROVE TypeInv'
    <3> USE <2>17 DEF LoadClaimedRun, GoTo, Fault, Abandon, NextClaim
    <3>1. StoreTypeOK'
      BY DEF StoreTypeOK, WorkerTypeOK
    <3>2. WorkerTypeOK'
      BY DEF WorkerTypeOK
    <3>3. ScanTypeOK'
      BY DEF ScanTypeOK, StoreTypeOK
    <3>4. CallTypeOK'
      BY DEF CallTypeOK, WorkerTypeOK
    <3>5. WorkersOff'
      BY DEF WorkersOff, WorkerTypeOK, ScanTypeOK
    <3>6. QED BY <3>1, <3>2, <3>3, <3>4, <3>5
  <2>18. ASSUME NEW w \in Workers, DropClaim(w) PROVE TypeInv'
    <3> USE <2>18 DEF DropClaim, GoTo, Fault, AckRow, NextClaim
    <3>1. StoreTypeOK'
      BY DEF StoreTypeOK, WorkerTypeOK
    <3>2. WorkerTypeOK'
      BY DEF WorkerTypeOK
    <3>3. ScanTypeOK'
      BY DEF ScanTypeOK, StoreTypeOK
    <3>4. CallTypeOK'
      BY DEF CallTypeOK, WorkerTypeOK
    <3>5. WorkersOff'
      BY DEF WorkersOff, WorkerTypeOK, ScanTypeOK
    <3>6. QED BY <3>1, <3>2, <3>3, <3>4, <3>5
  <2>19. ASSUME NEW w \in Workers, BeginJob(w) PROVE TypeInv'
    BY <2>19 DEF BeginJob, GoTo, StoreTypeOK, WorkerTypeOK, ScanTypeOK,
        CallTypeOK, WorkersOff
  <2>20. ASSUME NEW w \in Workers, StartClaimedRun(w) PROVE TypeInv'
    <3> USE <2>20 DEF StartClaimedRun, GoTo, ApplyRunStateTransition, SetRun
    <3>1. StoreTypeOK'
      BY DEF StoreTypeOK, WorkerTypeOK
    <3>2. WorkerTypeOK'
      BY DEF WorkerTypeOK
    <3>3. ScanTypeOK'
      BY DEF ScanTypeOK, StoreTypeOK
    <3>4. CallTypeOK'
      BY DEF CallTypeOK, WorkerTypeOK
    <3>5. WorkersOff'
      BY DEF WorkersOff, WorkerTypeOK, ScanTypeOK
    <3>6. QED BY <3>1, <3>2, <3>3, <3>4, <3>5
  <2>21. ASSUME NEW w \in Workers, SettleUnavailableOrigin(w) PROVE TypeInv'
    <3> USE <2>21 DEF SettleUnavailableOrigin, GoTo, CancelInStore,
          ApplyRunTerminalTransition, SetRun, CancelPendingApprovals, PendingOf
    <3>1. StoreTypeOK'
      BY DEF StoreTypeOK, WorkerTypeOK
    <3>2. WorkerTypeOK'
      BY DEF WorkerTypeOK
    <3>3. ScanTypeOK'
      BY DEF ScanTypeOK, StoreTypeOK
    <3>4. CallTypeOK'
      BY DEF CallTypeOK, WorkerTypeOK
    <3>5. WorkersOff'
      BY DEF WorkersOff, WorkerTypeOK, ScanTypeOK
    <3>6. QED BY <3>1, <3>2, <3>3, <3>4, <3>5
  <2>22. ASSUME NEW w \in Workers, FailClaimedStart(w) PROVE TypeInv'
    <3> USE <2>22 DEF FailClaimedStart, GoTo, Fault
    <3>1. StoreTypeOK'
      BY DEF StoreTypeOK, WorkerTypeOK
    <3>2. WorkerTypeOK'
      BY DEF WorkerTypeOK
    <3>3. ScanTypeOK'
      BY DEF ScanTypeOK, StoreTypeOK
    <3>4. CallTypeOK'
      BY DEF CallTypeOK, WorkerTypeOK
    <3>5. WorkersOff'
      BY DEF WorkersOff, WorkerTypeOK, ScanTypeOK
    <3>6. QED BY <3>1, <3>2, <3>3, <3>4, <3>5
  <2>23. ASSUME NEW w \in Workers, Execute(w) PROVE TypeInv'
    <3> USE <2>23 DEF Execute, GoTo
    <3>1. StoreTypeOK'
      BY DEF StoreTypeOK, WorkerTypeOK
    <3>2. WorkerTypeOK'
      <4>1. result' \in [Workers -> {"none", "awaiting_approval"} \cup
            Terminal]
        BY DEF WorkerTypeOK
      <4>2. \A v \in Workers :
              pc'[v] \in {"pausing", "settling"} => result'[v] # "none"
        BY DEF WorkerTypeOK
      <4>3. QED BY <4>1, <4>2 DEF WorkerTypeOK
    <3>3. ScanTypeOK'
      BY DEF ScanTypeOK, StoreTypeOK
    <3>4. CallTypeOK'
      BY DEF CallTypeOK, WorkerTypeOK
    <3>5. WorkersOff'
      BY DEF WorkersOff, WorkerTypeOK, ScanTypeOK
    <3>6. QED BY <3>1, <3>2, <3>3, <3>4, <3>5
  <2>24. ASSUME NEW w \in Workers, PersistPendingApproval(w) PROVE TypeInv'
    <3>1. StoreTypeOK'
      BY <2>24 DEF PersistPendingApproval, GoTo, Fault, CreateApproval,
          StoreTypeOK, WorkerTypeOK
    <3>2. WorkerTypeOK'
      <4>1. \/ pc' = [pc EXCEPT ![w] = "settling"] /\ result' = result
            \/ pc' = [pc EXCEPT ![w] = "failing"] /\ result' = [result EXCEPT
                  ![w] = "none"]
        BY <2>24 DEF PersistPendingApproval, GoTo
      <4>2. pc[w] = "pausing" /\ row' = row /\ job' = job /\ holders' = holders
            /\ cancelled' = cancelled
        BY <2>24 DEF PersistPendingApproval
      <4>q. QED BY <4>1, <4>2 DEF WorkerTypeOK
    <3>3. ScanTypeOK'
      BY <2>24 DEF PersistPendingApproval, GoTo, Fault, CreateApproval,
          ScanTypeOK, StoreTypeOK
    <3>4. CallTypeOK'
      BY <2>24 DEF PersistPendingApproval, GoTo, Fault, CreateApproval,
          CallTypeOK, WorkerTypeOK
    <3>5. WorkersOff'
      BY <2>24 DEF PersistPendingApproval, GoTo, Fault, CreateApproval,
          WorkersOff, WorkerTypeOK, ScanTypeOK
    <3>6. QED BY <3>1, <3>2, <3>3, <3>4, <3>5
  <2>25. ASSUME NEW w \in Workers, ApplyFinalResult(w) PROVE TypeInv'
    <3> USE <2>25 DEF ApplyFinalResult, GoTo, Fault,
          ApplyRunTerminalTransition, SetRun
    <3>1. StoreTypeOK'
      BY DEF StoreTypeOK, WorkerTypeOK
    <3>2. WorkerTypeOK'
      BY DEF WorkerTypeOK
    <3>3. ScanTypeOK'
      BY DEF ScanTypeOK, StoreTypeOK
    <3>4. CallTypeOK'
      BY DEF CallTypeOK, WorkerTypeOK
    <3>5. WorkersOff'
      BY DEF WorkersOff, WorkerTypeOK, ScanTypeOK
    <3>6. QED BY <3>1, <3>2, <3>3, <3>4, <3>5
  <2>26. ASSUME NEW w \in Workers, FinalizeFailedRun(w) PROVE TypeInv'
    <3> USE <2>26 DEF FinalizeFailedRun, GoTo, Fault,
          ApplyRunTerminalTransition, SetRun
    <3>1. StoreTypeOK'
      BY DEF StoreTypeOK, WorkerTypeOK
    <3>2. WorkerTypeOK'
      BY DEF WorkerTypeOK
    <3>3. ScanTypeOK'
      BY DEF ScanTypeOK, StoreTypeOK
    <3>4. CallTypeOK'
      BY DEF CallTypeOK, WorkerTypeOK
    <3>5. WorkersOff'
      BY DEF WorkersOff, WorkerTypeOK, ScanTypeOK
    <3>6. QED BY <3>1, <3>2, <3>3, <3>4, <3>5
  <2>27. ASSUME NEW w \in Workers, AckClaim(w) PROVE TypeInv'
    <3> USE <2>27 DEF AckClaim, GoTo, Fault, AckRow
    <3>1. StoreTypeOK'
      BY DEF StoreTypeOK, WorkerTypeOK
    <3>2. WorkerTypeOK'
      BY DEF WorkerTypeOK
    <3>3. ScanTypeOK'
      BY DEF ScanTypeOK, StoreTypeOK
    <3>4. CallTypeOK'
      BY DEF CallTypeOK, WorkerTypeOK
    <3>5. WorkersOff'
      BY DEF WorkersOff, WorkerTypeOK, ScanTypeOK
    <3>6. QED BY <3>1, <3>2, <3>3, <3>4, <3>5
  <2>28. ASSUME NEW w \in Workers, EndJob(w) PROVE TypeInv'
    BY <2>28 DEF EndJob, Abandon, GoTo, NextClaim, StoreTypeOK, WorkerTypeOK,
        ScanTypeOK, CallTypeOK, WorkersOff
  <2>29. ASSUME NEW p \in Procs, FinishBoot(p) PROVE TypeInv'
    BY <2>29 DEF FinishBoot, ScanDone, NoTodo, StoreTypeOK, WorkerTypeOK,
        ScanTypeOK, CallTypeOK, WorkersOff
  <2>30. ASSUME NEW p \in Procs, Tick(p) PROVE TypeInv'
    <3>1. StoreTypeOK'
      BY <2>30 DEF Tick, PendingRunsSnapshot, Fault, StoreTypeOK, WorkerTypeOK
    <3>2. WorkerTypeOK'
      BY <2>30 DEF Tick, PendingRunsSnapshot, Fault, WorkerTypeOK
    <3>3. ScanTypeOK'
      <4>1. todo' \in [Procs -> [Runs -> {"none", "queued", "running",
            "enqueue",
                                         "disconnected"}]]
        <5>1. PendingRunsSnapshot \in [Runs -> {"none", "queued", "running",
                                               "enqueue", "disconnected"}]
          BY DEF PendingRunsSnapshot
        <5>2. CASE todo' = [todo EXCEPT ![p] = PendingRunsSnapshot]
          BY <5>1, <5>2 DEF ScanTypeOK
        <5>3. CASE todo' = [todo EXCEPT ![p] = pend[p]]
          BY <5>3 DEF ScanTypeOK
        <5>4. QED BY <2>30, <5>2, <5>3 DEF Tick
      <4>2. \E x \in {"full", "retry"} : phase' = [phase EXCEPT ![p] = x]
        BY <2>30 DEF Tick
      <4>3. UNCHANGED <<proc, step, cur, fullRetry, pend>>
        BY <2>30 DEF Tick
      <4>4. QED BY <4>1, <4>2, <4>3 DEF ScanTypeOK
    <3>4. CallTypeOK'
      BY <2>30 DEF Tick, PendingRunsSnapshot, Fault, CallTypeOK, WorkerTypeOK
    <3>5. WorkersOff'
      BY <2>30 DEF Tick, PendingRunsSnapshot, Fault, WorkersOff, WorkerTypeOK,
          ScanTypeOK
    <3>6. QED BY <3>1, <3>2, <3>3, <3>4, <3>5
  <2>31. ASSUME NEW p \in Procs, FinishFullScan(p) PROVE TypeInv'
    BY <2>31 DEF FinishFullScan, ScanDone, StoreTypeOK, WorkerTypeOK,
        ScanTypeOK, CallTypeOK, WorkersOff
  <2>32. ASSUME NEW p \in Procs, NEW old \in SUBSET Runs, ScanStale(p, old)
      PROVE TypeInv'
    BY <2>32 DEF ScanStale, ScanDone, StoreTypeOK, WorkerTypeOK, ScanTypeOK,
        CallTypeOK, WorkersOff
  <2>33. ASSUME NEW p \in Procs, FinishTick(p) PROVE TypeInv'
    BY <2>33 DEF FinishTick, ScanDone, StoreTypeOK, WorkerTypeOK, ScanTypeOK,
        CallTypeOK, WorkersOff
  <2>34. ASSUME NEW p \in Procs, EnqueueRequeued(p) PROVE TypeInv'
    <3>1. StoreTypeOK'
      BY <2>34 DEF EnqueueRequeued, Enqueue, EnqueueAmbiguous, Fault,
          StoreTypeOK, WorkerTypeOK
    <3>2. WorkerTypeOK'
      BY <2>34 DEF EnqueueRequeued, Enqueue, EnqueueAmbiguous, Fault,
          WorkerTypeOK
    <3>3. ScanTypeOK'
      <4>1. cur[p] \in Runs BY <2>34 DEF ScanTypeOK, EnqueueRequeued
      <4>2. pend' \in [Procs -> [Runs -> {"none", "enqueue", "disconnected"}]]
        <5>1. CASE pend' = [pend EXCEPT ![p][cur[p]] = "none"]
          BY <4>1, <5>1 DEF ScanTypeOK
        <5>2. CASE pend' = [pend EXCEPT ![p][cur[p]] =
                            IF phase[p] \in {"boot", "full"} THEN
                                  "disconnected"
                            ELSE IF @ = "none" THEN "enqueue" ELSE @]
           BY <4>1, <5>2 DEF ScanTypeOK
        <5>q. QED BY <2>34, <5>1, <5>2 DEF EnqueueRequeued
      <4>q. QED BY <2>34, <4>2 DEF EnqueueRequeued, ScanTypeOK, scanVars
    <3>4. CallTypeOK'
      BY <2>34 DEF EnqueueRequeued, Enqueue, EnqueueAmbiguous, Fault,
          CallTypeOK, WorkerTypeOK
    <3>5. WorkersOff'
      BY <2>34 DEF EnqueueRequeued, Enqueue, EnqueueAmbiguous, Fault,
          WorkersOff, WorkerTypeOK, ScanTypeOK
    <3>6. QED BY <3>1, <3>2, <3>3, <3>4, <3>5
  <2>35. ASSUME NEW p \in Procs, NEW r \in Runs, LoadPendingReconcile(p, r)
      PROVE TypeInv'
    <3>1. StoreTypeOK'
      BY <2>35 DEF LoadPendingReconcile, Fault, StoreTypeOK, WorkerTypeOK
    <3>2. WorkerTypeOK'
      BY <2>35 DEF LoadPendingReconcile, Fault, WorkerTypeOK
    <3>3. ScanTypeOK'
      <4>1. pend' \in [Procs -> [Runs -> {"none", "enqueue", "disconnected"}]]
        <5>1. CASE pend' = [pend EXCEPT ![p][r] = "none"]
          BY <5>1 DEF ScanTypeOK
        <5>2. CASE pend' = pend BY <5>2 DEF ScanTypeOK
        <5>q. QED BY <2>35, <5>1, <5>2 DEF LoadPendingReconcile
      <4>2. todo' \in [Procs -> [Runs -> {"none", "queued", "running",
            "enqueue", "disconnected"}]]
        <5>1. CASE todo' = [todo EXCEPT ![p][r] = "none"]
          BY <5>1 DEF ScanTypeOK
        <5>2. CASE run[r] \in {"queued", "running"} /\ todo' = [todo EXCEPT
              ![p][r] = run[r]]
          BY <5>2 DEF ScanTypeOK
        <5>q. QED BY <2>35, <5>1, <5>2 DEF LoadPendingReconcile
      <4>3. \/ step' = [step EXCEPT ![p] = "enqueue"] /\ cur' = [cur EXCEPT ![p] = r]
            \/ step' = step /\ cur' = cur
        BY <2>35 DEF LoadPendingReconcile
      <4>4. proc' = proc /\ phase' = phase /\ fullRetry' = fullRetry
        BY <2>35 DEF LoadPendingReconcile
      <4>5. /\ cur' \in [Procs -> Runs \cup {NoRun}] /\ step' \in [Procs -> {"next", "enqueue", "drain"}]
            /\ \A q \in Procs : cur'[q] = NoRun <=> step'[q] = "next"
        <5>1. CASE step' = [step EXCEPT ![p] = "enqueue"] /\ cur' = [cur EXCEPT
              ![p] = r]
          BY <5>1 DEF ScanTypeOK
        <5>2. CASE step' = step /\ cur' = cur
          BY <5>2 DEF ScanTypeOK
        <5>q. QED BY <4>3, <5>1, <5>2
      <4>q. QED BY <4>1, <4>2, <4>4, <4>5 DEF ScanTypeOK
    <3>4. CallTypeOK'
      BY <2>35 DEF LoadPendingReconcile, Fault, CallTypeOK, WorkerTypeOK
    <3>5. WorkersOff'
      BY <2>35 DEF LoadPendingReconcile, Fault, WorkersOff, WorkerTypeOK,
          ScanTypeOK
    <3>6. QED BY <3>1, <3>2, <3>3, <3>4, <3>5
  <2>36. ASSUME NEW p \in Procs, NEW r \in Runs, SkipInFlight(p, r) PROVE
      TypeInv'
    BY <2>36 DEF SkipInFlight, StoreTypeOK, WorkerTypeOK, ScanTypeOK,
        CallTypeOK, WorkersOff
  <2>37. ASSUME NEW p \in Procs, NEW r \in Runs, RequeueDisconnectedRun(p, r)
      PROVE TypeInv'
    <3>1. StoreTypeOK'
      BY <2>37 DEF RequeueDisconnectedRun, ScanReaches,
          ApplyRunStateTransition, SetRun, StoreTypeOK, WorkerTypeOK
    <3>2. WorkerTypeOK'
      BY <2>37 DEF RequeueDisconnectedRun, ScanReaches,
          ApplyRunStateTransition, SetRun, WorkerTypeOK
    <3>3. ScanTypeOK'
      <4>1. pend' \in [Procs -> [Runs -> {"none", "enqueue", "disconnected"}]]
        <5>1. CASE pend' = [pend EXCEPT ![p][r] = "none"]
          BY <5>1 DEF ScanTypeOK
        <5>2. CASE pend' = pend BY <5>2 DEF ScanTypeOK
        <5>q. QED BY <2>37, <5>1, <5>2 DEF RequeueDisconnectedRun
      <4>2. todo' = [todo EXCEPT ![p][r] = "none"]
        BY <2>37 DEF RequeueDisconnectedRun
      <4>3. \/ step' = [step EXCEPT ![p] = "enqueue"] /\ cur' = [cur EXCEPT ![p] = r]
            \/ step' = step /\ cur' = cur
        BY <2>37 DEF RequeueDisconnectedRun
      <4>4. proc' = proc /\ phase' = phase /\ fullRetry' = fullRetry
        BY <2>37 DEF RequeueDisconnectedRun
      <4>5. /\ cur' \in [Procs -> Runs \cup {NoRun}] /\ step' \in [Procs -> {"next", "enqueue", "drain"}]
            /\ \A q \in Procs : cur'[q] = NoRun <=> step'[q] = "next"
        <5>1. CASE step' = [step EXCEPT ![p] = "enqueue"] /\ cur' = [cur EXCEPT
              ![p] = r]
          BY <5>1 DEF ScanTypeOK
        <5>2. CASE step' = step /\ cur' = cur
          BY <5>2 DEF ScanTypeOK
        <5>q. QED BY <4>3, <5>1, <5>2
      <4>q. QED BY <4>1, <4>2, <4>4, <4>5 DEF ScanTypeOK
    <3>4. CallTypeOK'
      BY <2>37 DEF RequeueDisconnectedRun, ScanReaches,
          ApplyRunStateTransition, SetRun, CallTypeOK, WorkerTypeOK
    <3>5. WorkersOff'
      BY <2>37 DEF RequeueDisconnectedRun, ScanReaches,
          ApplyRunStateTransition, SetRun, WorkersOff, WorkerTypeOK, ScanTypeOK
    <3>6. QED BY <3>1, <3>2, <3>3, <3>4, <3>5
  <2>38. ASSUME NEW p \in Procs, NEW r \in Runs, CancelUnavailableOrigin(p, r)
      PROVE TypeInv'
    <3> USE <2>38 DEF CancelUnavailableOrigin, ScanReaches, CancelInStore,
          ApplyRunTerminalTransition, SetRun, CancelPendingApprovals, PendingOf
    <3>1. StoreTypeOK'
      BY DEF StoreTypeOK, WorkerTypeOK
    <3>2. WorkerTypeOK'
      BY DEF WorkerTypeOK
    <3>3. ScanTypeOK'
      BY DEF ScanTypeOK, StoreTypeOK
    <3>4. CallTypeOK'
      BY DEF CallTypeOK, WorkerTypeOK
    <3>5. WorkersOff'
      BY DEF WorkersOff, WorkerTypeOK, ScanTypeOK
    <3>6. QED BY <3>1, <3>2, <3>3, <3>4, <3>5
  <2>39. ASSUME NEW p \in Procs, NEW r \in Runs, FailRequeue(p, r) PROVE
      TypeInv'
    BY <2>39 DEF FailRequeue, ScanReaches, Fault, StoreTypeOK, WorkerTypeOK,
        ScanTypeOK, CallTypeOK, WorkersOff
  <2>40. ASSUME NEW p \in Procs, Boot(p) PROVE TypeInv'
    <3>1. StoreTypeOK'
      BY <2>40 DEF Boot, PendingRunsSnapshot, Fault, StoreTypeOK, WorkerTypeOK
    <3>2. WorkerTypeOK'
      BY <2>40 DEF Boot, PendingRunsSnapshot, Fault, WorkerTypeOK
    <3>3. ScanTypeOK'
      <4>1. todo' \in [Procs -> [Runs -> {"none", "queued", "running",
            "enqueue",
                                         "disconnected"}]]
        <5>1. PendingRunsSnapshot \in [Runs -> {"none", "queued", "running",
                                               "enqueue", "disconnected"}]
          BY DEF PendingRunsSnapshot
        <5>2. CASE todo' = [todo EXCEPT ![p] = PendingRunsSnapshot]
          BY <5>1, <5>2 DEF ScanTypeOK
        <5>3. CASE todo' = todo
          BY <5>3 DEF ScanTypeOK
        <5>4. QED BY <2>40, <5>2, <5>3 DEF Boot
      <4>2. QED BY <2>40, <4>1 DEF Boot, ScanTypeOK
    <3>4. CallTypeOK'
      BY <2>40 DEF Boot, PendingRunsSnapshot, Fault, CallTypeOK, WorkerTypeOK
    <3>5. WorkersOff'
      BY <2>40 DEF Boot, PendingRunsSnapshot, Fault, WorkersOff, WorkerTypeOK,
          ScanTypeOK
    <3>6. QED BY <3>1, <3>2, <3>3, <3>4, <3>5
  <2>41. ASSUME NEW p \in Procs, Shutdown(p) PROVE TypeInv'
    BY <2>41 DEF Shutdown, Registered, StoreTypeOK, WorkerTypeOK, ScanTypeOK,
        CallTypeOK, WorkersOff
  <2>42. ASSUME NEW p \in Procs, Exit(p) PROVE TypeInv'
    <3> USE <2>42 DEF Exit
    <3>1. StoreTypeOK' /\ WorkerTypeOK'
      BY DEF StoreTypeOK, WorkerTypeOK, LoseMemory
    <3>2. ScanTypeOK'
      BY DEF ScanTypeOK, LoseMemory, NoTodo
    <3>3. CallTypeOK'
      BY DEF CallTypeOK, LoseMemory
    <3>4. WorkersOff'
      BY DEF WorkersOff, LoseMemory, ScanTypeOK, WorkerTypeOK
    <3>5. QED BY <3>1, <3>2, <3>3, <3>4
  <2>43. ASSUME NEW p \in Procs, Crash(p) PROVE TypeInv'
    <3> USE <2>43 DEF Crash
    <3>1. StoreTypeOK' /\ WorkerTypeOK'
      BY DEF StoreTypeOK, WorkerTypeOK, LoseMemory
    <3>2. ScanTypeOK'
      BY DEF ScanTypeOK, LoseMemory, NoTodo
    <3>3. CallTypeOK'
      BY DEF CallTypeOK, LoseMemory
    <3>4. WorkersOff'
      BY DEF WorkersOff, LoseMemory, ScanTypeOK, WorkerTypeOK
    <3>5. QED BY <3>1, <3>2, <3>3, <3>4
  <2>s. CASE UNCHANGED vars
    BY <2>s DEF vars, StoreTypeOK, WorkerTypeOK, ScanTypeOK, CallTypeOK,
                WorkersOff
  <2>q. QED
    BY <2>s, <2>1, <2>2, <2>3, <2>4, <2>5, <2>6, <2>7, <2>8, <2>9, <2>10,
        <2>11, <2>12, <2>13, <2>14, <2>15, <2>16, <2>17, <2>18, <2>19, <2>20,
        <2>21, <2>22, <2>23, <2>24, <2>25, <2>26, <2>27, <2>28, <2>29, <2>30,
        <2>31, <2>32, <2>33, <2>34, <2>35, <2>36, <2>37, <2>38, <2>39, <2>40,
        <2>41, <2>42, <2>43 DEF Next, ApiStep, QueueStep, WorkerStep, ScanStep,
        ProcStep
<1>3. QED
  BY <1>1, <1>2, PTL DEF Spec

(* Every reachable state is well typed; in particular a worker carries a   *)
(* run exactly while it has a claim, so no transition is ever applied to   *)
(* the missing run of a worker that has none (TypeOK).                     *)
THEOREM TypeCorrect == Spec => []TypeOK
<1>1. TypeInv => TypeOK
  BY DEF TypeInv
<1>2. QED
  BY <1>1, TypeInvariance, PTL

-----------------------------------------------------------------------------
(* What the run store keeps.  Whatever names a run names one that exists   *)
(* (KnownInv), so every step makes at most one move of one run, from a     *)
(* short list (RunSteps); consistency of the store, finality of terminal   *)
(* statuses and the refinement of RunLifecycle follow from that list       *)
(* alone.                                                                  *)

(* Whatever refers to a run refers to one whose row was inserted. *)
Known(r) == run[r] # "none"

KnownInStore == \A a \in Approvals : apprRun[a] # NoRun => Known(apprRun[a])
KnownToWorkers ==
    /\ \A r \in Runs : row[r] # "none" => Known(r)
    /\ \A w \in Workers : job[w] # NoRun => Known(job[w])
KnownToScans ==
    /\ \A p \in Procs, r \in Runs : todo[p][r] # "none" => Known(r)
    /\ \A p \in Procs, r \in Runs : pend[p][r] # "none" => Known(r)
    /\ \A p \in Procs : cur[p] # NoRun => Known(cur[p])
KnownToCalls ==
    /\ \A p \in Procs, r \in Runs : r \in apiOwes[p] \cup approving[p] \cup
          updating[p]
                                     => Known(r)
    /\ \A p \in Procs, r \in Runs : drain[p][r] # "none" => Known(r)

KnownInv == KnownInStore /\ KnownToWorkers /\ KnownToScans /\ KnownToCalls

(* Queue rows, claims, approvals, scans and calls only ever name runs that *)
(* are in the store, so a terminal transition never ends a run that was    *)
(* not started.                                                            *)
LEMMA KnownRuns == Spec => []KnownInv
<1> USE DEF store, taskVars, apprVars, workerVars, scanVars, startVars,
    drainVars, bounds
<1>1. Init => KnownInv
  BY DEF Init, KnownInv, KnownInStore, KnownToWorkers, KnownToScans,
      KnownToCalls, Known
<1>2. TypeInv /\ KnownInv /\ [Next]_vars => KnownInv'
  <2> SUFFICES ASSUME TypeInv, KnownInv, [Next]_vars PROVE KnownInv'
    OBVIOUS
  <2>0. ASSUME UNCHANGED <<run, apprRun, row, job, todo, pend, cur, apiOwes,
      approving, updating, drain>> PROVE KnownInv'
    BY <2>0 DEF KnownInv, KnownInStore, KnownToWorkers, KnownToScans,
        KnownToCalls, Known
  <2>1. ASSUME NEW p \in Procs, NEW r \in Runs, StartUngated(p, r) PROVE
      KnownInv'
    BY <2>1 DEF StartUngated, Admissible, SetRun, KnownInv, KnownInStore,
        KnownToWorkers, KnownToScans, KnownToCalls, Known, TypeInv, TypeOK,
        StoreTypeOK, WorkerTypeOK, ScanTypeOK, CallTypeOK, Status, Active,
        Terminal
  <2>2. ASSUME NEW p \in Procs, NEW r \in Runs, NEW a \in Approvals,
      StartScheduledGated(p, r, a) PROVE KnownInv'
    BY <2>2 DEF StartScheduledGated, Admissible, SetRun, CreateApproval,
        KnownInv, KnownInStore, KnownToWorkers, KnownToScans, KnownToCalls,
        Known, TypeInv, TypeOK, StoreTypeOK, WorkerTypeOK, ScanTypeOK,
        CallTypeOK, Status, Active, Terminal
  <2>3. ASSUME NEW p \in Procs, NEW r \in Runs, StartGated(p, r) PROVE
      KnownInv'
    BY <2>3 DEF StartGated, Admissible, SetRun, KnownInv, KnownInStore,
        KnownToWorkers, KnownToScans, KnownToCalls, Known, TypeInv, TypeOK,
        StoreTypeOK, WorkerTypeOK, ScanTypeOK, CallTypeOK, Status, Active,
        Terminal
  <2>4. ASSUME NEW p \in Procs, NEW r \in Runs, CreateStartApproval(p, r) PROVE
      KnownInv'
    <3>1. \A x \in Runs : Known(x) => Known(x)'
      BY <2>4 DEF CreateStartApproval, CreateApproval, Fault, Known, KnownInv,
          TypeInv, TypeOK, StoreTypeOK, ScanTypeOK
    <3>2. KnownInStore'
      BY <2>4, <3>1 DEF CreateStartApproval, CreateApproval, Fault,
          KnownInStore, KnownToCalls, KnownInv, TypeInv, TypeOK, StoreTypeOK,
          CallTypeOK
    <3>3. KnownToWorkers'
      BY <2>4, <3>1 DEF CreateStartApproval, CreateApproval, Fault,
          KnownToWorkers, KnownToScans, KnownToCalls, KnownInv, TypeInv,
          TypeOK, WorkerTypeOK, ScanTypeOK, CallTypeOK
    <3>4. KnownToScans'
      BY <2>4, <3>1 DEF CreateStartApproval, CreateApproval, Fault,
          KnownToScans, KnownToCalls, KnownInv, TypeInv, TypeOK, ScanTypeOK,
          CallTypeOK
    <3>5. KnownToCalls'
      BY <2>4, <3>1 DEF CreateStartApproval, CreateApproval, Fault,
          KnownToCalls, KnownToScans, KnownInv, TypeInv, TypeOK, CallTypeOK,
          ScanTypeOK
    <3>6. QED BY <3>2, <3>3, <3>4, <3>5 DEF KnownInv
  <2>5. ASSUME NEW p \in Procs, NEW r \in Runs, UpdateStartedRun(p, r) PROVE
      KnownInv'
    BY <2>5 DEF UpdateStartedRun, Fault, KnownInv, KnownInStore,
        KnownToWorkers, KnownToScans, KnownToCalls, Known, TypeInv, TypeOK,
        StoreTypeOK, WorkerTypeOK, ScanTypeOK, CallTypeOK, Status, Active,
        Terminal
  <2>6. ASSUME NEW p \in Procs, NEW r \in Runs, EnqueueOwed(p, r) PROVE
      KnownInv'
    <3>1. \A x \in Runs : Known(x) => Known(x)'
      BY <2>6 DEF EnqueueOwed, Enqueue, EnqueueAmbiguous, Fault, Known,
          KnownInv, TypeInv, TypeOK, StoreTypeOK, ScanTypeOK
    <3>2. KnownInStore'
      BY <2>6, <3>1 DEF EnqueueOwed, Enqueue, EnqueueAmbiguous, Fault,
          KnownInStore, KnownToCalls, KnownInv, TypeInv, TypeOK, StoreTypeOK,
          CallTypeOK
    <3>3. KnownToWorkers'
      BY <2>6, <3>1 DEF EnqueueOwed, Enqueue, EnqueueAmbiguous, Fault,
          KnownToWorkers, KnownToScans, KnownToCalls, KnownInv, TypeInv,
          TypeOK, WorkerTypeOK, ScanTypeOK, CallTypeOK
    <3>4. KnownToScans'
      <4>1. Known(r)
        BY <2>6 DEF EnqueueOwed, KnownInv, KnownToCalls
      <4>2. \A q \in Procs, x \in Runs : pend'[q][x] # "none" => Known(x)
        <5>1. CASE pend' = [pend EXCEPT ![p][r] = "none"]
          BY <4>1, <5>1 DEF KnownInv, KnownToScans, TypeInv, TypeOK, ScanTypeOK
        <5>2. CASE pend' = [pend EXCEPT ![p][r] = IF @ = "none" THEN "enqueue"
              ELSE @]
          BY <4>1, <5>2 DEF KnownInv, KnownToScans, TypeInv, TypeOK, ScanTypeOK
        <5>q. QED BY <2>6, <5>1, <5>2 DEF EnqueueOwed
      <4>3. todo' = todo
        BY <2>6 DEF EnqueueOwed
      <4>4. cur' = cur
        BY <2>6 DEF EnqueueOwed
      <4>5. QED BY <3>1, <4>2, <4>3, <4>4 DEF KnownInv, KnownToScans, TypeInv,
            TypeOK, ScanTypeOK
    <3>5. KnownToCalls'
      BY <2>6, <3>1 DEF EnqueueOwed, Enqueue, EnqueueAmbiguous, Fault,
          KnownToCalls, KnownToScans, KnownInv, TypeInv, TypeOK, CallTypeOK,
          ScanTypeOK
    <3>6. QED BY <3>2, <3>3, <3>4, <3>5 DEF KnownInv
  <2>7. ASSUME NEW p \in Procs, NEW a \in Approvals, Approve(p, a) PROVE
      KnownInv'
    BY <2>7 DEF Approve, ApplyRunStateTransition, SetRun, KnownInv,
        KnownInStore, KnownToWorkers, KnownToScans, KnownToCalls, Known,
        TypeInv, TypeOK, StoreTypeOK, WorkerTypeOK, ScanTypeOK, CallTypeOK,
        Status, Active, Terminal
  <2>8. ASSUME NEW p \in Procs, NEW a \in Approvals, Reject(p, a) PROVE
      KnownInv'
    BY <2>8 DEF Reject, ApplyRunTerminalTransition, SetRun, PendingOf,
        KnownInv, KnownInStore, KnownToWorkers, KnownToScans, KnownToCalls,
        Known, TypeInv, TypeOK, StoreTypeOK, WorkerTypeOK, ScanTypeOK,
        CallTypeOK, Status, Active, Terminal
  <2>9. ASSUME NEW p \in Procs, NEW r \in Runs, CancelRun(p, r) PROVE KnownInv'
    BY <2>9 DEF CancelRun, CancelInStore, ApplyRunTerminalTransition, SetRun,
        CancelPendingApprovals, PendingOf, KnownInv, KnownInStore,
        KnownToWorkers, KnownToScans, KnownToCalls, Known, TypeInv, TypeOK,
        StoreTypeOK, WorkerTypeOK, ScanTypeOK, CallTypeOK, Status, Active,
        Terminal
  <2>10. ASSUME NEW p \in Procs, NEW r \in Runs, SignalJobs(p, r) PROVE
      KnownInv'
    BY <2>10 DEF SignalJobs, JobsOf, Registered, KnownInv, KnownInStore,
        KnownToWorkers, KnownToScans, KnownToCalls, Known, TypeInv, TypeOK,
        StoreTypeOK, WorkerTypeOK, ScanTypeOK, CallTypeOK, Status, Active,
        Terminal
  <2>11. ASSUME NEW p \in Procs, NEW r \in Runs, FinishCancel(p, r) PROVE
      KnownInv'
    <3>1. \A x \in Runs : Known(x) => Known(x)'
      BY <2>11 DEF FinishCancel, CancelInStore, ApplyRunTerminalTransition,
          SetRun, CancelPendingApprovals, PendingOf, ReturnToScan, Known,
          KnownInv, TypeInv, TypeOK, StoreTypeOK, ScanTypeOK
    <3>2. KnownInStore'
      BY <2>11, <3>1 DEF FinishCancel, CancelInStore,
          ApplyRunTerminalTransition, SetRun, CancelPendingApprovals,
          PendingOf, ReturnToScan, KnownInStore, KnownToCalls, KnownInv,
          TypeInv, TypeOK, StoreTypeOK, CallTypeOK
    <3>3. KnownToWorkers'
      BY <2>11, <3>1 DEF FinishCancel, CancelInStore,
          ApplyRunTerminalTransition, SetRun, CancelPendingApprovals,
          PendingOf, ReturnToScan, KnownToWorkers, KnownToScans, KnownToCalls,
          KnownInv, TypeInv, TypeOK, WorkerTypeOK, ScanTypeOK, CallTypeOK
    <3>4. KnownToScans'
      <4>1. Known(r)
        BY <2>11 DEF FinishCancel, KnownInv, KnownToCalls
      <4>2. \A q \in Procs, x \in Runs : pend'[q][x] # "none" => Known(x)
        <5>1. CASE pend' = pend
          BY <4>1, <5>1 DEF KnownInv, KnownToScans, TypeInv, TypeOK, ScanTypeOK
        <5>2. CASE \E x : pend' = [pend EXCEPT ![p][r] = x]
          BY <4>1, <5>2 DEF KnownInv, KnownToScans, TypeInv, TypeOK, ScanTypeOK
        <5>q. QED BY <2>11, <5>1, <5>2 DEF FinishCancel, ReturnToScan
      <4>3. todo' = todo
        BY <2>11 DEF FinishCancel, ReturnToScan
      <4>4. \A q \in Procs : cur'[q] # NoRun => cur'[q] \in Runs /\ Known(cur'[q])
        <5>1. CASE cur' = cur
          BY <4>1, <5>1 DEF KnownInv, KnownToScans, TypeInv, TypeOK, ScanTypeOK
        <5>2. CASE cur' = [cur EXCEPT ![p] = NoRun]
          BY <4>1, <5>2 DEF KnownInv, KnownToScans, TypeInv, TypeOK, ScanTypeOK
        <5>q. QED BY <2>11, <5>1, <5>2 DEF FinishCancel, ReturnToScan
      <4>5. QED BY <3>1, <4>2, <4>3, <4>4 DEF KnownInv, KnownToScans, TypeInv,
            TypeOK, ScanTypeOK
    <3>5. KnownToCalls'
      BY <2>11, <3>1 DEF FinishCancel, CancelInStore,
          ApplyRunTerminalTransition, SetRun, CancelPendingApprovals,
          PendingOf, ReturnToScan, KnownToCalls, KnownToScans, KnownInv,
          TypeInv, TypeOK, CallTypeOK, ScanTypeOK
    <3>6. QED BY <3>2, <3>3, <3>4, <3>5 DEF KnownInv
  <2>12. ASSUME NEW p \in Procs, NEW r \in Runs, AbandonCancel(p, r) PROVE
      KnownInv'
    <3>1. \A x \in Runs : Known(x) => Known(x)'
      BY <2>12 DEF AbandonCancel, Fault, ReturnToScan, Known, KnownInv,
            TypeInv,
          TypeOK, StoreTypeOK, ScanTypeOK
    <3>2. KnownInStore'
      BY <2>12, <3>1 DEF AbandonCancel, Fault, ReturnToScan, KnownInStore,
          KnownToCalls, KnownInv, TypeInv, TypeOK, StoreTypeOK, CallTypeOK
    <3>3. KnownToWorkers'
      BY <2>12, <3>1 DEF AbandonCancel, Fault, ReturnToScan, KnownToWorkers,
          KnownToScans, KnownToCalls, KnownInv, TypeInv, TypeOK, WorkerTypeOK,
          ScanTypeOK, CallTypeOK
    <3>4. KnownToScans'
      <4>1. Known(r)
        BY <2>12 DEF AbandonCancel, KnownInv, KnownToCalls
      <4>2. \A q \in Procs, x \in Runs : pend'[q][x] # "none" => Known(x)
        <5>1. CASE pend' = pend
          BY <4>1, <5>1 DEF KnownInv, KnownToScans, TypeInv, TypeOK, ScanTypeOK
        <5>2. CASE \E x : pend' = [pend EXCEPT ![p][r] = x]
          BY <4>1, <5>2 DEF KnownInv, KnownToScans, TypeInv, TypeOK, ScanTypeOK
        <5>q. QED BY <2>12, <5>1, <5>2 DEF AbandonCancel, ReturnToScan
      <4>3. todo' = todo
        BY <2>12 DEF AbandonCancel, ReturnToScan
      <4>4. \A q \in Procs : cur'[q] # NoRun => cur'[q] \in Runs /\ Known(cur'[q])
        <5>1. CASE cur' = cur
          BY <4>1, <5>1 DEF KnownInv, KnownToScans, TypeInv, TypeOK, ScanTypeOK
        <5>2. CASE cur' = [cur EXCEPT ![p] = NoRun]
          BY <4>1, <5>2 DEF KnownInv, KnownToScans, TypeInv, TypeOK, ScanTypeOK
        <5>q. QED BY <2>12, <5>1, <5>2 DEF AbandonCancel, ReturnToScan
      <4>5. QED BY <3>1, <4>2, <4>3, <4>4 DEF KnownInv, KnownToScans, TypeInv,
            TypeOK, ScanTypeOK
    <3>5. KnownToCalls'
      BY <2>12, <3>1 DEF AbandonCancel, Fault, ReturnToScan, KnownToCalls,
          KnownToScans, KnownInv, TypeInv, TypeOK, CallTypeOK, ScanTypeOK
    <3>6. QED BY <3>2, <3>3, <3>4, <3>5 DEF KnownInv
  <2>13. ASSUME NEW r \in Runs, LeaseLapses(r) PROVE KnownInv'
    BY <2>13 DEF LeaseLapses, KnownInv, KnownInStore, KnownToWorkers,
        KnownToScans, KnownToCalls, Known, TypeInv, TypeOK, StoreTypeOK,
        WorkerTypeOK, ScanTypeOK, CallTypeOK, Status, Active, Terminal
  <2>14. ASSUME NEW w \in Workers, Heartbeat(w) PROVE KnownInv'
    BY <2>14 DEF Heartbeat, Registered, KnownInv, KnownInStore, KnownToWorkers,
        KnownToScans, KnownToCalls, Known, TypeInv, TypeOK, StoreTypeOK,
        WorkerTypeOK, ScanTypeOK, CallTypeOK, Status, Active, Terminal
  <2>15. ASSUME NEW w \in Workers, NEW r \in Runs, Claim(w, r) PROVE KnownInv'
    BY <2>15 DEF Claim, GoTo, KnownInv, KnownInStore, KnownToWorkers,
        KnownToScans, KnownToCalls, Known, TypeInv, TypeOK, StoreTypeOK,
        WorkerTypeOK, ScanTypeOK, CallTypeOK, Status, Active, Terminal
  <2>16. ASSUME NEW w \in Workers, NEW r \in Runs, ClaimLost(w, r) PROVE
      KnownInv'
    BY <2>16 DEF ClaimLost, Fault, KnownInv, KnownInStore, KnownToWorkers,
        KnownToScans, KnownToCalls, Known, TypeInv, TypeOK, StoreTypeOK,
        WorkerTypeOK, ScanTypeOK, CallTypeOK, Status, Active, Terminal
  <2>17. ASSUME NEW w \in Workers, LoadClaimedRun(w) PROVE KnownInv'
    BY <2>17 DEF LoadClaimedRun, GoTo, Fault, Abandon, NextClaim, KnownInv,
        KnownInStore, KnownToWorkers, KnownToScans, KnownToCalls, Known,
        TypeInv, TypeOK, StoreTypeOK, WorkerTypeOK, ScanTypeOK, CallTypeOK,
        Status, Active, Terminal
  <2>18. ASSUME NEW w \in Workers, DropClaim(w) PROVE KnownInv'
    BY <2>18 DEF DropClaim, GoTo, Fault, AckRow, NextClaim, KnownInv,
        KnownInStore, KnownToWorkers, KnownToScans, KnownToCalls, Known,
        TypeInv, TypeOK, StoreTypeOK, WorkerTypeOK, ScanTypeOK, CallTypeOK,
        Status, Active, Terminal
  <2>19. ASSUME NEW w \in Workers, BeginJob(w) PROVE KnownInv'
    BY <2>0, <2>19 DEF BeginJob
  <2>20. ASSUME NEW w \in Workers, StartClaimedRun(w) PROVE KnownInv'
    BY <2>20 DEF StartClaimedRun, GoTo, ApplyRunStateTransition, SetRun,
        KnownInv, KnownInStore, KnownToWorkers, KnownToScans, KnownToCalls,
        Known, TypeInv, TypeOK, StoreTypeOK, WorkerTypeOK, ScanTypeOK,
        CallTypeOK, Status, Active, Terminal
  <2>21. ASSUME NEW w \in Workers, SettleUnavailableOrigin(w) PROVE KnownInv'
    BY <2>21 DEF SettleUnavailableOrigin, GoTo, CancelInStore,
        ApplyRunTerminalTransition, SetRun, CancelPendingApprovals, PendingOf,
        KnownInv, KnownInStore, KnownToWorkers, KnownToScans, KnownToCalls,
        Known, TypeInv, TypeOK, StoreTypeOK, WorkerTypeOK, ScanTypeOK,
        CallTypeOK, Status, Active, Terminal
  <2>22. ASSUME NEW w \in Workers, FailClaimedStart(w) PROVE KnownInv'
    BY <2>0, <2>22 DEF FailClaimedStart
  <2>23. ASSUME NEW w \in Workers, Execute(w) PROVE KnownInv'
    BY <2>0, <2>23 DEF Execute
  <2>24. ASSUME NEW w \in Workers, PersistPendingApproval(w) PROVE KnownInv'
    <3>1. \A x \in Runs : Known(x) => Known(x)'
      BY <2>24 DEF PersistPendingApproval, GoTo, Fault, CreateApproval, Known,
          KnownInv, TypeInv, TypeOK, StoreTypeOK, ScanTypeOK
    <3>2. KnownInStore'
      BY <2>24, <3>1 DEF PersistPendingApproval, GoTo, Fault, CreateApproval,
          KnownInStore, KnownToWorkers, KnownInv, TypeInv, TypeOK, StoreTypeOK,
          WorkerTypeOK
    <3>3. KnownToWorkers'
      BY <2>24, <3>1 DEF PersistPendingApproval, GoTo, Fault, CreateApproval,
          KnownToWorkers, KnownToScans, KnownToCalls, KnownInv, TypeInv,
          TypeOK, WorkerTypeOK, ScanTypeOK, CallTypeOK
    <3>4. KnownToScans'
      BY <2>24, <3>1 DEF PersistPendingApproval, GoTo, Fault, CreateApproval,
          KnownToScans, KnownToCalls, KnownInv, TypeInv, TypeOK, ScanTypeOK,
          CallTypeOK
    <3>5. KnownToCalls'
      BY <2>24, <3>1 DEF PersistPendingApproval, GoTo, Fault, CreateApproval,
          KnownToCalls, KnownToScans, KnownInv, TypeInv, TypeOK, CallTypeOK,
          ScanTypeOK
    <3>6. QED BY <3>2, <3>3, <3>4, <3>5 DEF KnownInv
  <2>25. ASSUME NEW w \in Workers, ApplyFinalResult(w) PROVE KnownInv'
    BY <2>25 DEF ApplyFinalResult, GoTo, Fault, ApplyRunTerminalTransition,
        SetRun, KnownInv, KnownInStore, KnownToWorkers, KnownToScans,
        KnownToCalls, Known, TypeInv, TypeOK, StoreTypeOK, WorkerTypeOK,
        ScanTypeOK, CallTypeOK, Status, Active, Terminal
  <2>26. ASSUME NEW w \in Workers, FinalizeFailedRun(w) PROVE KnownInv'
    BY <2>26 DEF FinalizeFailedRun, GoTo, Fault, ApplyRunTerminalTransition,
        SetRun, KnownInv, KnownInStore, KnownToWorkers, KnownToScans,
        KnownToCalls, Known, TypeInv, TypeOK, StoreTypeOK, WorkerTypeOK,
        ScanTypeOK, CallTypeOK, Status, Active, Terminal
  <2>27. ASSUME NEW w \in Workers, AckClaim(w) PROVE KnownInv'
    BY <2>27 DEF AckClaim, GoTo, Fault, AckRow, KnownInv, KnownInStore,
        KnownToWorkers, KnownToScans, KnownToCalls, Known, TypeInv, TypeOK,
        StoreTypeOK, WorkerTypeOK, ScanTypeOK, CallTypeOK, Status, Active,
        Terminal
  <2>28. ASSUME NEW w \in Workers, EndJob(w) PROVE KnownInv'
    BY <2>28 DEF EndJob, Abandon, GoTo, NextClaim, KnownInv, KnownInStore,
        KnownToWorkers, KnownToScans, KnownToCalls, Known, TypeInv, TypeOK,
        StoreTypeOK, WorkerTypeOK, ScanTypeOK, CallTypeOK, Status, Active,
        Terminal
  <2>29. ASSUME NEW p \in Procs, FinishBoot(p) PROVE KnownInv'
    BY <2>0, <2>29 DEF FinishBoot
  <2>30. ASSUME NEW p \in Procs, Tick(p) PROVE KnownInv'
    <3>1. \A x \in Runs : Known(x) => Known(x)'
      BY <2>30 DEF Tick, PendingRunsSnapshot, Fault, Known, KnownInv, TypeInv,
          TypeOK, StoreTypeOK, ScanTypeOK
    <3>2. KnownInStore'
      BY <2>30, <3>1 DEF Tick, PendingRunsSnapshot, Fault, KnownInStore,
          KnownToCalls, KnownInv, TypeInv, TypeOK, StoreTypeOK, CallTypeOK
    <3>3. KnownToWorkers'
      BY <2>30, <3>1 DEF Tick, PendingRunsSnapshot, Fault, KnownToWorkers,
          KnownToScans, KnownToCalls, KnownInv, TypeInv, TypeOK, WorkerTypeOK,
          ScanTypeOK, CallTypeOK
    <3>4. KnownToScans'
      <4>1. \A x \in Runs : PendingRunsSnapshot[x] # "none" => Known(x)
        BY DEF PendingRunsSnapshot, Known
      <4>2. pend' = pend
        BY <2>30 DEF Tick
      <4>3. \A q \in Procs, x \in Runs : todo'[q][x] # "none" => Known(x)
        <5>1. CASE todo' = [todo EXCEPT ![p] = PendingRunsSnapshot]
          BY <4>1, <5>1 DEF KnownInv, KnownToScans, TypeInv, TypeOK, ScanTypeOK
        <5>2. CASE todo' = [todo EXCEPT ![p] = pend[p]]
          BY <4>1, <5>2 DEF KnownInv, KnownToScans, TypeInv, TypeOK, ScanTypeOK
        <5>q. QED BY <2>30, <5>1, <5>2 DEF Tick
      <4>4. cur' = cur
        BY <2>30 DEF Tick
      <4>5. QED BY <3>1, <4>2, <4>3, <4>4 DEF KnownInv, KnownToScans, TypeInv,
            TypeOK, ScanTypeOK
    <3>5. KnownToCalls'
      BY <2>30, <3>1 DEF Tick, PendingRunsSnapshot, Fault, KnownToCalls,
          KnownToScans, KnownInv, TypeInv, TypeOK, CallTypeOK, ScanTypeOK
    <3>6. QED BY <3>2, <3>3, <3>4, <3>5 DEF KnownInv
  <2>31. ASSUME NEW p \in Procs, FinishFullScan(p) PROVE KnownInv'
    BY <2>31 DEF FinishFullScan, ScanDone, KnownInv, KnownInStore,
        KnownToWorkers, KnownToScans, KnownToCalls, Known, TypeInv, TypeOK,
        StoreTypeOK, WorkerTypeOK, ScanTypeOK, CallTypeOK, Status, Active,
        Terminal
  <2>32. ASSUME NEW p \in Procs, NEW old \in SUBSET Runs, ScanStale(p, old)
      PROVE KnownInv'
    BY <2>32 DEF ScanStale, ScanDone, KnownInv, KnownInStore, KnownToWorkers,
        KnownToScans, KnownToCalls, Known, TypeInv, TypeOK, StoreTypeOK,
        WorkerTypeOK, ScanTypeOK, CallTypeOK, Status, Active, Terminal
  <2>33. ASSUME NEW p \in Procs, FinishTick(p) PROVE KnownInv'
    BY <2>0, <2>33 DEF FinishTick
  <2>34. ASSUME NEW p \in Procs, EnqueueRequeued(p) PROVE KnownInv'
    <3>1. \A x \in Runs : Known(x) => Known(x)'
      BY <2>34 DEF EnqueueRequeued, Enqueue, EnqueueAmbiguous, Fault, Known,
          KnownInv, TypeInv, TypeOK, StoreTypeOK, ScanTypeOK
    <3>2. KnownInStore'
      BY <2>34, <3>1 DEF EnqueueRequeued, Enqueue, EnqueueAmbiguous, Fault,
          KnownInStore, KnownToCalls, KnownInv, TypeInv, TypeOK, StoreTypeOK,
          CallTypeOK
    <3>3. KnownToWorkers'
      BY <2>34, <3>1 DEF EnqueueRequeued, Enqueue, EnqueueAmbiguous, Fault,
          KnownToWorkers, KnownToScans, KnownToCalls, KnownInv, TypeInv,
          TypeOK, WorkerTypeOK, ScanTypeOK, CallTypeOK
    <3>4. KnownToScans'
      <4>1. cur[p] \in Runs /\ Known(cur[p])
        BY <2>34 DEF EnqueueRequeued, KnownInv, KnownToScans, TypeInv, TypeOK,
              ScanTypeOK
      <4>2. \A q \in Procs, x \in Runs : pend'[q][x] # "none" => Known(x)
        <5>1. CASE pend' = [pend EXCEPT ![p][cur[p]] = "none"]
          BY <4>1, <5>1 DEF KnownInv, KnownToScans, TypeInv, TypeOK, ScanTypeOK
        <5>2. CASE \E x : pend' = [pend EXCEPT ![p][cur[p]] = x]
          BY <4>1, <5>2 DEF KnownInv, KnownToScans, TypeInv, TypeOK, ScanTypeOK
        <5>q. QED BY <2>34, <5>1, <5>2 DEF EnqueueRequeued
      <4>3. todo' = todo
        BY <2>34 DEF EnqueueRequeued
      <4>4. \A q \in Procs : cur'[q] # NoRun => cur'[q] \in Runs /\ Known(cur'[q])
        <5>1. CASE cur' = [cur EXCEPT ![p] = NoRun]
          BY <4>1, <5>1 DEF KnownInv, KnownToScans, TypeInv, TypeOK, ScanTypeOK
        <5>q. QED BY <2>34, <5>1 DEF EnqueueRequeued
      <4>5. QED BY <3>1, <4>2, <4>3, <4>4 DEF KnownInv, KnownToScans, TypeInv,
            TypeOK, ScanTypeOK
    <3>5. KnownToCalls'
      BY <2>34, <3>1 DEF EnqueueRequeued, Enqueue, EnqueueAmbiguous, Fault,
          KnownToCalls, KnownToScans, KnownInv, TypeInv, TypeOK, CallTypeOK,
          ScanTypeOK
    <3>6. QED BY <3>2, <3>3, <3>4, <3>5 DEF KnownInv
  <2>35. ASSUME NEW p \in Procs, NEW r \in Runs, LoadPendingReconcile(p, r)
      PROVE KnownInv'
    <3>1. \A x \in Runs : Known(x) => Known(x)'
      BY <2>35 DEF LoadPendingReconcile, Fault, Known, KnownInv, TypeInv,
          TypeOK, StoreTypeOK, ScanTypeOK
    <3>2. KnownInStore'
      BY <2>35, <3>1 DEF LoadPendingReconcile, Fault, KnownInStore,
          KnownToCalls, KnownInv, TypeInv, TypeOK, StoreTypeOK, CallTypeOK
    <3>3. KnownToWorkers'
      BY <2>35, <3>1 DEF LoadPendingReconcile, Fault, KnownToWorkers,
          KnownToScans, KnownToCalls, KnownInv, TypeInv, TypeOK, WorkerTypeOK,
          ScanTypeOK, CallTypeOK
    <3>4. KnownToScans'
      <4>1. Known(r)
        BY <2>35 DEF LoadPendingReconcile, KnownInv, KnownToScans
      <4>2. \A q \in Procs, x \in Runs : pend'[q][x] # "none" => Known(x)
        <5>1. CASE pend' = pend
          BY <4>1, <5>1 DEF KnownInv, KnownToScans, TypeInv, TypeOK, ScanTypeOK
        <5>2. CASE pend' = [pend EXCEPT ![p][r] = "none"]
          BY <4>1, <5>2 DEF KnownInv, KnownToScans, TypeInv, TypeOK, ScanTypeOK
        <5>q. QED BY <2>35, <5>1, <5>2 DEF LoadPendingReconcile
      <4>3. \A q \in Procs, x \in Runs : todo'[q][x] # "none" => Known(x)
        <5>1. CASE todo' = [todo EXCEPT ![p][r] = "none"]
          BY <4>1, <5>1 DEF KnownInv, KnownToScans, TypeInv, TypeOK, ScanTypeOK
        <5>2. CASE todo' = [todo EXCEPT ![p][r] = run[r]]
          BY <4>1, <5>2 DEF KnownInv, KnownToScans, TypeInv, TypeOK, ScanTypeOK
        <5>q. QED BY <2>35, <5>1, <5>2 DEF LoadPendingReconcile
      <4>4. \A q \in Procs : cur'[q] # NoRun => cur'[q] \in Runs /\ Known(cur'[q])
        <5>1. CASE cur' = cur
          BY <4>1, <5>1 DEF KnownInv, KnownToScans, TypeInv, TypeOK, ScanTypeOK
        <5>2. CASE cur' = [cur EXCEPT ![p] = r]
          BY <4>1, <5>2 DEF KnownInv, KnownToScans, TypeInv, TypeOK, ScanTypeOK
        <5>q. QED BY <2>35, <5>1, <5>2 DEF LoadPendingReconcile
      <4>5. QED BY <3>1, <4>2, <4>3, <4>4 DEF KnownInv, KnownToScans, TypeInv,
            TypeOK, ScanTypeOK
    <3>5. KnownToCalls'
      BY <2>35, <3>1 DEF LoadPendingReconcile, Fault, KnownToCalls,
          KnownToScans, KnownInv, TypeInv, TypeOK, CallTypeOK, ScanTypeOK
    <3>6. QED BY <3>2, <3>3, <3>4, <3>5 DEF KnownInv
  <2>36. ASSUME NEW p \in Procs, NEW r \in Runs, SkipInFlight(p, r) PROVE
      KnownInv'
    BY <2>36 DEF SkipInFlight, KnownInv, KnownInStore, KnownToWorkers,
        KnownToScans, KnownToCalls, Known, TypeInv, TypeOK, StoreTypeOK,
        WorkerTypeOK, ScanTypeOK, CallTypeOK, Status, Active, Terminal
  <2>37. ASSUME NEW p \in Procs, NEW r \in Runs, RequeueDisconnectedRun(p, r)
      PROVE KnownInv'
    <3>1. \A x \in Runs : Known(x) => Known(x)'
      BY <2>37 DEF RequeueDisconnectedRun, ScanReaches,
            ApplyRunStateTransition,
          SetRun, Known, KnownInv, TypeInv, TypeOK, StoreTypeOK, ScanTypeOK
    <3>2. KnownInStore'
      BY <2>37, <3>1 DEF RequeueDisconnectedRun, ScanReaches,
          ApplyRunStateTransition, SetRun, KnownInStore, KnownToCalls,
          KnownInv, TypeInv, TypeOK, StoreTypeOK, CallTypeOK
    <3>3. KnownToWorkers'
      BY <2>37, <3>1 DEF RequeueDisconnectedRun, ScanReaches,
          ApplyRunStateTransition, SetRun, KnownToWorkers, KnownToScans,
          KnownToCalls, KnownInv, TypeInv, TypeOK, WorkerTypeOK, ScanTypeOK,
          CallTypeOK
    <3>4. KnownToScans'
      <4>1. Known(r)
        BY <2>37 DEF RequeueDisconnectedRun, ScanReaches, KnownInv,
              KnownToScans
      <4>2. \A q \in Procs, x \in Runs : pend'[q][x] # "none" => Known(x)
        <5>1. CASE pend' = pend
          BY <4>1, <5>1 DEF KnownInv, KnownToScans, TypeInv, TypeOK, ScanTypeOK
        <5>2. CASE pend' = [pend EXCEPT ![p][r] = "none"]
          BY <4>1, <5>2 DEF KnownInv, KnownToScans, TypeInv, TypeOK, ScanTypeOK
        <5>q. QED BY <2>37, <5>1, <5>2 DEF RequeueDisconnectedRun
      <4>3. \A q \in Procs, x \in Runs : todo'[q][x] # "none" => Known(x)
        <5>1. todo' = [todo EXCEPT ![p][r] = "none"]
          BY <2>37 DEF RequeueDisconnectedRun
        <5>2. QED BY <4>1, <5>1 DEF KnownInv, KnownToScans, TypeInv, TypeOK,
              ScanTypeOK
      <4>4. \A q \in Procs : cur'[q] # NoRun => cur'[q] \in Runs /\ Known(cur'[q])
        <5>1. CASE cur' = cur
          BY <4>1, <5>1 DEF KnownInv, KnownToScans, TypeInv, TypeOK, ScanTypeOK
        <5>2. CASE cur' = [cur EXCEPT ![p] = r]
          BY <4>1, <5>2 DEF KnownInv, KnownToScans, TypeInv, TypeOK, ScanTypeOK
        <5>q. QED BY <2>37, <5>1, <5>2 DEF RequeueDisconnectedRun
      <4>5. QED BY <3>1, <4>2, <4>3, <4>4 DEF KnownInv, KnownToScans, TypeInv,
            TypeOK, ScanTypeOK
    <3>5. KnownToCalls'
      BY <2>37, <3>1 DEF RequeueDisconnectedRun, ScanReaches,
          ApplyRunStateTransition, SetRun, KnownToCalls, KnownToScans,
          KnownInv, TypeInv, TypeOK, CallTypeOK, ScanTypeOK
    <3>6. QED BY <3>2, <3>3, <3>4, <3>5 DEF KnownInv
  <2>38. ASSUME NEW p \in Procs, NEW r \in Runs, CancelUnavailableOrigin(p, r)
      PROVE KnownInv'
    BY <2>38 DEF CancelUnavailableOrigin, ScanReaches, CancelInStore,
        ApplyRunTerminalTransition, SetRun, CancelPendingApprovals, PendingOf,
        KnownInv, KnownInStore, KnownToWorkers, KnownToScans, KnownToCalls,
        Known, TypeInv, TypeOK, StoreTypeOK, WorkerTypeOK, ScanTypeOK,
        CallTypeOK, Status, Active, Terminal
  <2>39. ASSUME NEW p \in Procs, NEW r \in Runs, FailRequeue(p, r) PROVE
      KnownInv'
    BY <2>39 DEF FailRequeue, ScanReaches, Fault, KnownInv, KnownInStore,
        KnownToWorkers, KnownToScans, KnownToCalls, Known, TypeInv, TypeOK,
        StoreTypeOK, WorkerTypeOK, ScanTypeOK, CallTypeOK, Status, Active,
        Terminal
  <2>40. ASSUME NEW p \in Procs, Boot(p) PROVE KnownInv'
    <3>1. \A x \in Runs : Known(x) => Known(x)'
      BY <2>40 DEF Boot, PendingRunsSnapshot, Fault, Known, KnownInv, TypeInv,
          TypeOK, StoreTypeOK, ScanTypeOK
    <3>2. KnownInStore'
      BY <2>40, <3>1 DEF Boot, PendingRunsSnapshot, Fault, KnownInStore,
          KnownToCalls, KnownInv, TypeInv, TypeOK, StoreTypeOK, CallTypeOK
    <3>3. KnownToWorkers'
      BY <2>40, <3>1 DEF Boot, PendingRunsSnapshot, Fault, KnownToWorkers,
          KnownToScans, KnownToCalls, KnownInv, TypeInv, TypeOK, WorkerTypeOK,
          ScanTypeOK, CallTypeOK
    <3>4. KnownToScans'
      <4>1. \A x \in Runs : PendingRunsSnapshot[x] # "none" => Known(x)
        BY DEF PendingRunsSnapshot, Known
      <4>2. pend' = pend
        BY <2>40 DEF Boot
      <4>3. \A q \in Procs, x \in Runs : todo'[q][x] # "none" => Known(x)
        <5>1. CASE todo' = [todo EXCEPT ![p] = PendingRunsSnapshot]
          BY <4>1, <5>1 DEF KnownInv, KnownToScans, TypeInv, TypeOK, ScanTypeOK
        <5>2. CASE todo' = todo
          BY <4>1, <5>2 DEF KnownInv, KnownToScans, TypeInv, TypeOK, ScanTypeOK
        <5>q. QED BY <2>40, <5>1, <5>2 DEF Boot
      <4>4. cur' = cur
        BY <2>40 DEF Boot
      <4>5. QED BY <3>1, <4>2, <4>3, <4>4 DEF KnownInv, KnownToScans, TypeInv,
            TypeOK, ScanTypeOK
    <3>5. KnownToCalls'
      BY <2>40, <3>1 DEF Boot, PendingRunsSnapshot, Fault, KnownToCalls,
          KnownToScans, KnownInv, TypeInv, TypeOK, CallTypeOK, ScanTypeOK
    <3>6. QED BY <3>2, <3>3, <3>4, <3>5 DEF KnownInv
  <2>41. ASSUME NEW p \in Procs, Shutdown(p) PROVE KnownInv'
    BY <2>0, <2>41 DEF Shutdown
  <2>42. ASSUME NEW p \in Procs, Exit(p) PROVE KnownInv'
    BY <2>42 DEF Exit, LoseMemory, NoTodo, KnownInv, KnownInStore,
        KnownToWorkers, KnownToScans, KnownToCalls, Known, TypeInv, TypeOK,
        StoreTypeOK, WorkerTypeOK, ScanTypeOK, CallTypeOK, Status, Active,
        Terminal
  <2>43. ASSUME NEW p \in Procs, Crash(p) PROVE KnownInv'
    BY <2>43 DEF Crash, LoseMemory, NoTodo, KnownInv, KnownInStore,
        KnownToWorkers, KnownToScans, KnownToCalls, Known, TypeInv, TypeOK,
        StoreTypeOK, WorkerTypeOK, ScanTypeOK, CallTypeOK, Status, Active,
        Terminal
  <2>s. CASE UNCHANGED vars
    BY <2>0, <2>s DEF vars
  <2>q. QED
    BY <2>s, <2>1, <2>2, <2>3, <2>4, <2>5, <2>6, <2>7, <2>8, <2>9, <2>10,
        <2>11, <2>12, <2>13, <2>14, <2>15, <2>16, <2>17, <2>18, <2>19, <2>20,
        <2>21, <2>22, <2>23, <2>24, <2>25, <2>26, <2>27, <2>28, <2>29, <2>30,
        <2>31, <2>32, <2>33, <2>34, <2>35, <2>36, <2>37, <2>38, <2>39, <2>40,
        <2>41, <2>42, <2>43 DEF Next, ApiStep, QueueStep, WorkerStep, ScanStep,
        ProcStep
<1>3. QED
  BY <1>1, <1>2, TypeInvariance, PTL DEF Spec

(* Without starts that create their approval in separate calls there is no *)
(* start in progress that holds a snapshot of its run.                     *)
NoStaleStart == \A p \in Procs : approving[p] = {} /\ updating[p] = {}

(* Without the three-call gated start of startTask no start is ever        *)
(* between two of its store writes.                                        *)
LEMMA StartsAtomic ==
  ASSUME "gated" \notin StartModes PROVE Spec => []NoStaleStart
<1> USE DEF store, taskVars, apprVars, workerVars, scanVars, startVars,
    drainVars, bounds
<1>1. Init => NoStaleStart
  BY DEF Init, NoStaleStart
<1>2. TypeInv /\ NoStaleStart /\ [Next]_vars => NoStaleStart'
  <2> SUFFICES ASSUME TypeInv, NoStaleStart, [Next]_vars PROVE NoStaleStart'
    OBVIOUS
  <2>0. ASSUME UNCHANGED <<approving, updating>> PROVE NoStaleStart'
    BY <2>0 DEF NoStaleStart
  <2>1. ASSUME NEW p \in Procs, NEW r \in Runs, StartUngated(p, r) PROVE
      NoStaleStart'
    BY <2>0, <2>1 DEF StartUngated
  <2>2. ASSUME NEW p \in Procs, NEW r \in Runs, NEW a \in Approvals,
      StartScheduledGated(p, r, a) PROVE NoStaleStart'
    BY <2>0, <2>2 DEF StartScheduledGated
  <2>3. ASSUME NEW p \in Procs, NEW r \in Runs, StartGated(p, r) PROVE
      NoStaleStart'
    BY <2>3 DEF StartGated, Admissible, SetRun, NoStaleStart, TypeInv, TypeOK,
        CallTypeOK
  <2>4. ASSUME NEW p \in Procs, NEW r \in Runs, CreateStartApproval(p, r) PROVE
      NoStaleStart'
    BY <2>4 DEF CreateStartApproval, CreateApproval, Fault, NoStaleStart,
        TypeInv, TypeOK, CallTypeOK
  <2>5. ASSUME NEW p \in Procs, NEW r \in Runs, UpdateStartedRun(p, r) PROVE
      NoStaleStart'
    BY <2>5 DEF UpdateStartedRun, Fault, NoStaleStart, TypeInv, TypeOK,
        CallTypeOK
  <2>6. ASSUME NEW p \in Procs, NEW r \in Runs, EnqueueOwed(p, r) PROVE
      NoStaleStart'
    BY <2>0, <2>6 DEF EnqueueOwed
  <2>7. ASSUME NEW p \in Procs, NEW a \in Approvals, Approve(p, a) PROVE
      NoStaleStart'
    BY <2>0, <2>7 DEF Approve
  <2>8. ASSUME NEW p \in Procs, NEW a \in Approvals, Reject(p, a) PROVE
      NoStaleStart'
    BY <2>0, <2>8 DEF Reject
  <2>9. ASSUME NEW p \in Procs, NEW r \in Runs, CancelRun(p, r) PROVE
      NoStaleStart'
    BY <2>0, <2>9 DEF CancelRun
  <2>10. ASSUME NEW p \in Procs, NEW r \in Runs, SignalJobs(p, r) PROVE
      NoStaleStart'
    BY <2>0, <2>10 DEF SignalJobs
  <2>11. ASSUME NEW p \in Procs, NEW r \in Runs, FinishCancel(p, r) PROVE
      NoStaleStart'
    BY <2>0, <2>11 DEF FinishCancel
  <2>12. ASSUME NEW p \in Procs, NEW r \in Runs, AbandonCancel(p, r) PROVE
      NoStaleStart'
    BY <2>0, <2>12 DEF AbandonCancel
  <2>13. ASSUME NEW r \in Runs, LeaseLapses(r) PROVE NoStaleStart'
    BY <2>0, <2>13 DEF LeaseLapses
  <2>14. ASSUME NEW w \in Workers, Heartbeat(w) PROVE NoStaleStart'
    BY <2>0, <2>14 DEF Heartbeat
  <2>15. ASSUME NEW w \in Workers, NEW r \in Runs, Claim(w, r) PROVE
      NoStaleStart'
    BY <2>0, <2>15 DEF Claim
  <2>16. ASSUME NEW w \in Workers, NEW r \in Runs, ClaimLost(w, r) PROVE
      NoStaleStart'
    BY <2>0, <2>16 DEF ClaimLost
  <2>17. ASSUME NEW w \in Workers, LoadClaimedRun(w) PROVE NoStaleStart'
    BY <2>0, <2>17 DEF LoadClaimedRun
  <2>18. ASSUME NEW w \in Workers, DropClaim(w) PROVE NoStaleStart'
    BY <2>0, <2>18 DEF DropClaim
  <2>19. ASSUME NEW w \in Workers, BeginJob(w) PROVE NoStaleStart'
    BY <2>0, <2>19 DEF BeginJob
  <2>20. ASSUME NEW w \in Workers, StartClaimedRun(w) PROVE NoStaleStart'
    BY <2>0, <2>20 DEF StartClaimedRun
  <2>21. ASSUME NEW w \in Workers, SettleUnavailableOrigin(w) PROVE
      NoStaleStart'
    BY <2>0, <2>21 DEF SettleUnavailableOrigin
  <2>22. ASSUME NEW w \in Workers, FailClaimedStart(w) PROVE NoStaleStart'
    BY <2>0, <2>22 DEF FailClaimedStart
  <2>23. ASSUME NEW w \in Workers, Execute(w) PROVE NoStaleStart'
    BY <2>0, <2>23 DEF Execute
  <2>24. ASSUME NEW w \in Workers, PersistPendingApproval(w) PROVE
      NoStaleStart'
    BY <2>0, <2>24 DEF PersistPendingApproval
  <2>25. ASSUME NEW w \in Workers, ApplyFinalResult(w) PROVE NoStaleStart'
    BY <2>0, <2>25 DEF ApplyFinalResult
  <2>26. ASSUME NEW w \in Workers, FinalizeFailedRun(w) PROVE NoStaleStart'
    BY <2>0, <2>26 DEF FinalizeFailedRun
  <2>27. ASSUME NEW w \in Workers, AckClaim(w) PROVE NoStaleStart'
    BY <2>0, <2>27 DEF AckClaim
  <2>28. ASSUME NEW w \in Workers, EndJob(w) PROVE NoStaleStart'
    BY <2>0, <2>28 DEF EndJob
  <2>29. ASSUME NEW p \in Procs, FinishBoot(p) PROVE NoStaleStart'
    BY <2>0, <2>29 DEF FinishBoot
  <2>30. ASSUME NEW p \in Procs, Tick(p) PROVE NoStaleStart'
    BY <2>0, <2>30 DEF Tick
  <2>31. ASSUME NEW p \in Procs, FinishFullScan(p) PROVE NoStaleStart'
    BY <2>0, <2>31 DEF FinishFullScan
  <2>32. ASSUME NEW p \in Procs, NEW old \in SUBSET Runs, ScanStale(p, old)
      PROVE NoStaleStart'
    BY <2>0, <2>32 DEF ScanStale
  <2>33. ASSUME NEW p \in Procs, FinishTick(p) PROVE NoStaleStart'
    BY <2>0, <2>33 DEF FinishTick
  <2>34. ASSUME NEW p \in Procs, EnqueueRequeued(p) PROVE NoStaleStart'
    BY <2>0, <2>34 DEF EnqueueRequeued
  <2>35. ASSUME NEW p \in Procs, NEW r \in Runs, LoadPendingReconcile(p, r)
      PROVE NoStaleStart'
    BY <2>0, <2>35 DEF LoadPendingReconcile
  <2>36. ASSUME NEW p \in Procs, NEW r \in Runs, SkipInFlight(p, r) PROVE
      NoStaleStart'
    BY <2>0, <2>36 DEF SkipInFlight
  <2>37. ASSUME NEW p \in Procs, NEW r \in Runs, RequeueDisconnectedRun(p, r)
      PROVE NoStaleStart'
    BY <2>0, <2>37 DEF RequeueDisconnectedRun
  <2>38. ASSUME NEW p \in Procs, NEW r \in Runs, CancelUnavailableOrigin(p, r)
      PROVE NoStaleStart'
    BY <2>0, <2>38 DEF CancelUnavailableOrigin
  <2>39. ASSUME NEW p \in Procs, NEW r \in Runs, FailRequeue(p, r) PROVE
      NoStaleStart'
    BY <2>0, <2>39 DEF FailRequeue
  <2>40. ASSUME NEW p \in Procs, Boot(p) PROVE NoStaleStart'
    BY <2>0, <2>40 DEF Boot
  <2>41. ASSUME NEW p \in Procs, Shutdown(p) PROVE NoStaleStart'
    BY <2>0, <2>41 DEF Shutdown
  <2>42. ASSUME NEW p \in Procs, Exit(p) PROVE NoStaleStart'
    BY <2>42 DEF Exit, LoseMemory, NoTodo, NoStaleStart, TypeInv, TypeOK,
        CallTypeOK
  <2>43. ASSUME NEW p \in Procs, Crash(p) PROVE NoStaleStart'
    BY <2>43 DEF Crash, LoseMemory, NoTodo, NoStaleStart, TypeInv, TypeOK,
        CallTypeOK
  <2>s. CASE UNCHANGED vars
    BY <2>0, <2>s DEF vars
  <2>q. QED
    BY <2>s, <2>1, <2>2, <2>3, <2>4, <2>5, <2>6, <2>7, <2>8, <2>9, <2>10,
        <2>11, <2>12, <2>13, <2>14, <2>15, <2>16, <2>17, <2>18, <2>19, <2>20,
        <2>21, <2>22, <2>23, <2>24, <2>25, <2>26, <2>27, <2>28, <2>29, <2>30,
        <2>31, <2>32, <2>33, <2>34, <2>35, <2>36, <2>37, <2>38, <2>39, <2>40,
        <2>41, <2>42, <2>43 DEF Next, ApiStep, QueueStep, WorkerStep, ScanStep,
        ProcStep
<1>3. QED
  BY <1>1, <1>2, TypeInvariance, PTL DEF Spec


(* What a step may do to a run: the moves of its life cycle, each with the  *)
(* task's projection and, at the end, one terminal event.                  *)
RunStep(r) ==
    \/ /\ run[r] = "none" /\ ActiveRuns(TaskOf[r]) = {}
       /\ \E s \in {"queued", "awaiting_approval"} : SetRun(r, s)
       /\ UNCHANGED terminalEvents
    \/ run[r] = "queued" /\ SetRun(r, "running") /\ UNCHANGED terminalEvents
    \/ /\ run[r] \in Active
       /\ \E s \in {"queued", "awaiting_approval"} : SetRun(r, s)
       /\ UNCHANGED terminalEvents
    \/ /\ run[r] \in Active
       /\ \E s \in Terminal : SetRun(r, s)
       /\ terminalEvents' = [terminalEvents EXCEPT ![r] = @ + 1]

NoRunStep == UNCHANGED <<run, taskVars, terminalEvents>>

(* Every step of the runtime makes one such move, of one run, or none. *)
LEMMA RunSteps ==
  ASSUME TypeInv, KnownInv, NoStaleStart, [Next]_vars
  PROVE  NoRunStep \/ \E r \in Runs : RunStep(r)
<1> DEFINE Goal == NoRunStep \/ \E r \in Runs : RunStep(r)
<1> USE DEF store, taskVars, apprVars, workerVars, scanVars, startVars,
    drainVars, bounds
<1>t. ASSUME NEW r \in Runs, NEW s \in {"awaiting_approval"} \cup Terminal,
             run[r] # "none", ApplyRunTerminalTransition(r, s)
      PROVE  Goal
  BY <1>t DEF ApplyRunTerminalTransition, RunStep, NoRunStep, Active, Terminal,
            Status, TypeInv, TypeOK, StoreTypeOK
<1>1. ASSUME NEW p \in Procs, NEW r \in Runs, StartUngated(p, r) PROVE Goal
  BY <1>1 DEF StartUngated, Admissible, SetRun, RunStep, NoRunStep, Active
<1>2. ASSUME NEW p \in Procs, NEW r \in Runs, NEW a \in Approvals,
    StartScheduledGated(p, r, a) PROVE Goal
  BY <1>2 DEF StartScheduledGated, Admissible, SetRun, CreateApproval, RunStep,
      NoRunStep, Active
<1>3. ASSUME NEW p \in Procs, NEW r \in Runs, StartGated(p, r) PROVE Goal
  BY <1>3 DEF StartGated, Admissible, SetRun, RunStep, NoRunStep, Active
<1>4. ASSUME NEW p \in Procs, NEW r \in Runs, CreateStartApproval(p, r) PROVE
    Goal
  BY <1>4 DEF CreateStartApproval, NoRunStep
<1>5. ASSUME NEW p \in Procs, NEW r \in Runs, UpdateStartedRun(p, r) PROVE Goal
  BY <1>5 DEF UpdateStartedRun, NoStaleStart
<1>6. ASSUME NEW p \in Procs, NEW r \in Runs, EnqueueOwed(p, r) PROVE Goal
  BY <1>6 DEF EnqueueOwed, NoRunStep
<1>7. ASSUME NEW p \in Procs, NEW a \in Approvals, Approve(p, a) PROVE Goal
  <2>1. apprRun[a] \in Runs
    BY <1>7 DEF Approve, TypeInv, TypeOK, StoreTypeOK
  <2>2. /\ run[apprRun[a]] = "awaiting_approval" /\ SetRun(apprRun[a], "queued")
        /\ UNCHANGED terminalEvents
    BY <1>7 DEF Approve, ApplyRunStateTransition
  <2>3. QED BY <2>1, <2>2 DEF RunStep, Active
<1>8. ASSUME NEW p \in Procs, NEW a \in Approvals, Reject(p, a) PROVE Goal
  <2>1. apprRun[a] \in Runs /\ run[apprRun[a]] # "none"
    BY <1>8 DEF Reject, KnownInv, Known, TypeInv, TypeOK, StoreTypeOK,
        KnownInStore
  <2>2. "cancelled" \in Terminal /\ "failed" \in Terminal
    BY DEF Terminal
  <2>3. QED BY <1>8, <1>t, <2>1, <2>2 DEF Reject, NoRunStep
<1>9. ASSUME NEW p \in Procs, NEW r \in Runs, CancelRun(p, r) PROVE Goal
  <2>1. r \in Runs /\ run[r] # "none"
    BY <1>9 DEF CancelRun, KnownInv, Known, TypeInv, TypeOK, StoreTypeOK
  <2>2. "cancelled" \in Terminal /\ "failed" \in Terminal
    BY DEF Terminal
  <2>3. QED BY <1>9, <1>t, <2>1, <2>2 DEF CancelRun, CancelInStore, NoRunStep
<1>10. ASSUME NEW p \in Procs, NEW r \in Runs, SignalJobs(p, r) PROVE Goal
  BY <1>10 DEF SignalJobs, NoRunStep
<1>11. ASSUME NEW p \in Procs, NEW r \in Runs, FinishCancel(p, r) PROVE Goal
  <2>1. r \in Runs /\ run[r] # "none"
    BY <1>11 DEF FinishCancel, KnownInv, Known, TypeInv, TypeOK, KnownToCalls
  <2>2. "cancelled" \in Terminal /\ "failed" \in Terminal
    BY DEF Terminal
  <2>3. QED BY <1>11, <1>t, <2>1, <2>2 DEF FinishCancel, CancelInStore,
        NoRunStep
<1>12. ASSUME NEW p \in Procs, NEW r \in Runs, AbandonCancel(p, r) PROVE Goal
  BY <1>12 DEF AbandonCancel, NoRunStep
<1>13. ASSUME NEW r \in Runs, LeaseLapses(r) PROVE Goal
  BY <1>13 DEF LeaseLapses, NoRunStep
<1>14. ASSUME NEW w \in Workers, Heartbeat(w) PROVE Goal
  BY <1>14 DEF Heartbeat, NoRunStep
<1>15. ASSUME NEW w \in Workers, NEW r \in Runs, Claim(w, r) PROVE Goal
  BY <1>15 DEF Claim, NoRunStep
<1>16. ASSUME NEW w \in Workers, NEW r \in Runs, ClaimLost(w, r) PROVE Goal
  BY <1>16 DEF ClaimLost, NoRunStep
<1>17. ASSUME NEW w \in Workers, LoadClaimedRun(w) PROVE Goal
  BY <1>17 DEF LoadClaimedRun, NoRunStep
<1>18. ASSUME NEW w \in Workers, DropClaim(w) PROVE Goal
  BY <1>18 DEF DropClaim, NoRunStep
<1>19. ASSUME NEW w \in Workers, BeginJob(w) PROVE Goal
  BY <1>19 DEF BeginJob, NoRunStep
<1>20. ASSUME NEW w \in Workers, StartClaimedRun(w) PROVE Goal
  BY <1>20 DEF StartClaimedRun, GoTo, ApplyRunStateTransition, SetRun, RunStep,
      NoRunStep, Active, WorkerTypeOK, TypeInv, TypeOK
<1>21. ASSUME NEW w \in Workers, SettleUnavailableOrigin(w) PROVE Goal
  <2>1. job[w] \in Runs /\ run[job[w]] # "none"
    BY <1>21 DEF SettleUnavailableOrigin, KnownInv, Known, TypeInv, TypeOK,
        WorkerTypeOK, KnownToWorkers
  <2>2. "cancelled" \in Terminal /\ "failed" \in Terminal
    BY DEF Terminal
  <2>3. QED BY <1>21, <1>t, <2>1, <2>2 DEF SettleUnavailableOrigin,
        CancelInStore, NoRunStep
<1>22. ASSUME NEW w \in Workers, FailClaimedStart(w) PROVE Goal
  BY <1>22 DEF FailClaimedStart, NoRunStep
<1>23. ASSUME NEW w \in Workers, Execute(w) PROVE Goal
  BY <1>23 DEF Execute, NoRunStep
<1>24. ASSUME NEW w \in Workers, PersistPendingApproval(w) PROVE Goal
  BY <1>24 DEF PersistPendingApproval, NoRunStep
<1>25. ASSUME NEW w \in Workers, ApplyFinalResult(w) PROVE Goal
  <2>1. job[w] \in Runs /\ run[job[w]] # "none"
    BY <1>25 DEF ApplyFinalResult, KnownInv, Known, TypeInv, TypeOK,
        WorkerTypeOK, KnownToWorkers
  <2>2. result[w] \in {"awaiting_approval"} \cup Terminal
    BY <1>25 DEF ApplyFinalResult, TypeInv, TypeOK, WorkerTypeOK
  <2>3. QED BY <1>25, <1>t, <2>1, <2>2 DEF ApplyFinalResult, NoRunStep
<1>26. ASSUME NEW w \in Workers, FinalizeFailedRun(w) PROVE Goal
  <2>1. job[w] \in Runs /\ run[job[w]] # "none"
    BY <1>26 DEF FinalizeFailedRun, KnownInv, Known, TypeInv, TypeOK,
        WorkerTypeOK, KnownToWorkers
  <2>2. "cancelled" \in Terminal /\ "failed" \in Terminal
    BY DEF Terminal
  <2>3. QED BY <1>26, <1>t, <2>1, <2>2 DEF FinalizeFailedRun, NoRunStep
<1>27. ASSUME NEW w \in Workers, AckClaim(w) PROVE Goal
  BY <1>27 DEF AckClaim, NoRunStep
<1>28. ASSUME NEW w \in Workers, EndJob(w) PROVE Goal
  BY <1>28 DEF EndJob, NoRunStep
<1>29. ASSUME NEW p \in Procs, FinishBoot(p) PROVE Goal
  BY <1>29 DEF FinishBoot, NoRunStep
<1>30. ASSUME NEW p \in Procs, Tick(p) PROVE Goal
  BY <1>30 DEF Tick, NoRunStep
<1>31. ASSUME NEW p \in Procs, FinishFullScan(p) PROVE Goal
  BY <1>31 DEF FinishFullScan, NoRunStep
<1>32. ASSUME NEW p \in Procs, NEW old \in SUBSET Runs, ScanStale(p, old) PROVE
    Goal
  BY <1>32 DEF ScanStale, NoRunStep
<1>33. ASSUME NEW p \in Procs, FinishTick(p) PROVE Goal
  BY <1>33 DEF FinishTick, NoRunStep
<1>34. ASSUME NEW p \in Procs, EnqueueRequeued(p) PROVE Goal
  BY <1>34 DEF EnqueueRequeued, NoRunStep
<1>35. ASSUME NEW p \in Procs, NEW r \in Runs, LoadPendingReconcile(p, r) PROVE
    Goal
  BY <1>35 DEF LoadPendingReconcile, NoRunStep
<1>36. ASSUME NEW p \in Procs, NEW r \in Runs, SkipInFlight(p, r) PROVE Goal
  BY <1>36 DEF SkipInFlight, NoRunStep
<1>37. ASSUME NEW p \in Procs, NEW r \in Runs, RequeueDisconnectedRun(p, r)
    PROVE Goal
  BY <1>37 DEF RequeueDisconnectedRun, ScanReaches, ApplyRunStateTransition,
      SetRun, RunStep, NoRunStep, Active
<1>38. ASSUME NEW p \in Procs, NEW r \in Runs, CancelUnavailableOrigin(p, r)
    PROVE Goal
  <2>1. r \in Runs /\ run[r] # "none"
    BY <1>38 DEF CancelUnavailableOrigin, KnownInv, Known, TypeInv, TypeOK,
        ScanReaches, KnownToScans
  <2>2. "cancelled" \in Terminal /\ "failed" \in Terminal
    BY DEF Terminal
  <2>3. QED BY <1>38, <1>t, <2>1, <2>2 DEF CancelUnavailableOrigin,
        CancelInStore, NoRunStep
<1>39. ASSUME NEW p \in Procs, NEW r \in Runs, FailRequeue(p, r) PROVE Goal
  BY <1>39 DEF FailRequeue, NoRunStep
<1>40. ASSUME NEW p \in Procs, Boot(p) PROVE Goal
  BY <1>40 DEF Boot, NoRunStep
<1>41. ASSUME NEW p \in Procs, Shutdown(p) PROVE Goal
  BY <1>41 DEF Shutdown, NoRunStep
<1>42. ASSUME NEW p \in Procs, Exit(p) PROVE Goal
  BY <1>42 DEF Exit, LoseMemory, NoRunStep
<1>43. ASSUME NEW p \in Procs, Crash(p) PROVE Goal
  BY <1>43 DEF Crash, LoseMemory, NoRunStep
<1>s. CASE UNCHANGED vars
  BY <1>s DEF vars, NoRunStep
<1>q. QED
  BY <1>s, <1>1, <1>2, <1>3, <1>4, <1>5, <1>6, <1>7, <1>8, <1>9, <1>10, <1>11,
      <1>12, <1>13, <1>14, <1>15, <1>16, <1>17, <1>18, <1>19, <1>20, <1>21,
      <1>22, <1>23, <1>24, <1>25, <1>26, <1>27, <1>28, <1>29, <1>30, <1>31,
      <1>32, <1>33, <1>34, <1>35, <1>36, <1>37, <1>38, <1>39, <1>40, <1>41,
      <1>42, <1>43 DEF Next, ApiStep, QueueStep, WorkerStep, ScanStep, ProcStep

(* A task's LatestRunID names a run of that task.                          *)
TaskOwnsRun == \A t \in Tasks : taskRun[t] # NoRun => TaskOf[taskRun[t]] = t

(* The inductive invariant of the store. *)
StoreInv == OneActiveRun /\ TaskMirrorsRun /\ TaskOwnsRun /\
      SingleTerminalEvent

(* Each move of a run keeps the store's invariant.  That the moved run is  *)
(* the only active run of its task is what keeps the task row from being   *)
(* overwritten by a run of its past.                                       *)
LEMMA RunStepKeepsStoreInv ==
  ASSUME TypeInv, StoreInv, NEW r \in Runs, RunStep(r)
  PROVE  StoreInv'
<1> USE DEF TypeInv, TypeOK, StoreTypeOK, Status, Active, Terminal
<1>1. PICK s \in Active \cup Terminal : SetRun(r, s)
  BY DEF RunStep
<1>2. run[r] \notin Terminal
  BY DEF RunStep
<1>3. \A x \in Runs \ {r} : run'[x] = run[x]
  BY <1>1 DEF SetRun
<1>4. run'[r] = s /\ taskRun'[TaskOf[r]] = r /\ taskStatus'[TaskOf[r]] = s
  BY <1>1 DEF SetRun
<1>5. \A t \in Tasks \ {TaskOf[r]} : taskRun'[t] = taskRun[t] /\ taskStatus'[t] = taskStatus[t]
  BY <1>1 DEF SetRun
<1>6. \A x \in Runs \ {r} : TaskOf[x] = TaskOf[r] => run[x] \notin Active
  BY DEF RunStep, ActiveRuns, StoreInv, OneActiveRun
<1>7. OneActiveRun'
  BY <1>3, <1>6 DEF StoreInv, OneActiveRun
<1>8. TaskOwnsRun'
  BY <1>4, <1>5 DEF StoreInv, TaskOwnsRun
<1>9. TaskMirrorsRun'
  <2>1. \A x \in Runs : run'[x] \in Active => taskRun'[TaskOf[x]] = x
    BY <1>3, <1>4, <1>5, <1>6 DEF StoreInv, TaskMirrorsRun
  <2>2. ASSUME NEW t \in Tasks, taskRun'[t] # NoRun
        PROVE  taskStatus'[t] = run'[taskRun'[t]]
    <3>1. CASE t = TaskOf[r]
      BY <1>4, <3>1
    <3>2. CASE t # TaskOf[r]
      <4>1. taskRun'[t] = taskRun[t] /\ taskStatus'[t] = taskStatus[t]
        BY <1>5, <3>2
      <4>2. taskRun[t] \in Runs \ {r}
        BY <2>2, <3>2, <4>1 DEF StoreInv, TaskOwnsRun
      <4>3. QED BY <1>3, <2>2, <4>1, <4>2 DEF StoreInv, TaskMirrorsRun
    <3>3. QED BY <3>1, <3>2
  <2>3. QED BY <2>1, <2>2 DEF TaskMirrorsRun
<1>10. SingleTerminalEvent'
  <2>1. CASE s \in Active
    <3>1. terminalEvents' = terminalEvents
      BY <1>4, <2>1 DEF RunStep, SetRun
    <3>2. QED BY <1>2, <1>3, <1>4, <2>1, <3>1 DEF StoreInv, SingleTerminalEvent
  <2>2. CASE s \in Terminal
    <3>1. terminalEvents' = [terminalEvents EXCEPT ![r] = @ + 1]
      BY <1>4, <2>2 DEF RunStep, SetRun
    <3>2. QED BY <1>2, <1>3, <1>4, <2>2, <3>1 DEF StoreInv, SingleTerminalEvent
  <2>3. QED BY <2>1, <2>2
<1>11. QED BY <1>7, <1>8, <1>9, <1>10 DEF StoreInv

(* However many replicas, crashes, failed writes and lapsed leases: a task *)
(* has one active run, its row mirrors its latest run, and an ended run    *)
(* has one terminal event (ApplyRunStartTransition,                        *)
(* ApplyRunStateTransition and ApplyRunTerminalTransition).  The           *)
(* assumption excludes the gated start, whose unguarded UpdateRun breaks   *)
(* all three.                                                              *)
THEOREM StoreConsistency ==
  ASSUME "gated" \notin StartModes
  PROVE  Spec => [](OneActiveRun /\ TaskMirrorsRun /\ SingleTerminalEvent)
<1>1. Init => StoreInv
  BY DEF Init, StoreInv, OneActiveRun, TaskMirrorsRun, TaskOwnsRun,
         SingleTerminalEvent, Active, Terminal
<1>2. TypeInv /\ KnownInv /\ NoStaleStart /\ StoreInv /\ [Next]_vars =>
      StoreInv'
  <2> SUFFICES ASSUME TypeInv, KnownInv, NoStaleStart, StoreInv, [Next]_vars
               PROVE  StoreInv'
    OBVIOUS
  <2>1. CASE NoRunStep
    BY <2>1 DEF NoRunStep, taskVars, StoreInv, OneActiveRun, TaskMirrorsRun,
                TaskOwnsRun, SingleTerminalEvent
  <2>2. QED BY <2>1, RunSteps, RunStepKeepsStoreInv
<1>3. StoreInv => OneActiveRun /\ TaskMirrorsRun /\ SingleTerminalEvent
  BY DEF StoreInv
<1>4. QED
  BY <1>1, <1>2, <1>3, TypeInvariance, KnownRuns, StartsAtomic, PTL DEF Spec

(* The first terminal status is authoritative                              *)
(* (ApplyRunTerminalTransition), under the same assumption and with any    *)
(* number of replicas.                                                     *)
THEOREM FirstTerminalStatusWins ==
  ASSUME "gated" \notin StartModes PROVE Spec => TerminalIsFinal
<1>1. TypeInv /\ KnownInv /\ NoStaleStart /\ [Next]_vars
        => [\A r \in Runs : run[r] \in Terminal => run'[r] = run[r]]_vars
  <2> SUFFICES ASSUME TypeInv, KnownInv, NoStaleStart, [Next]_vars,
                      NEW r \in Runs, run[r] \in Terminal
               PROVE  run'[r] = run[r]
    OBVIOUS
  <2>1. CASE NoRunStep
    BY <2>1 DEF NoRunStep
  <2>2. ASSUME NEW x \in Runs, RunStep(x) PROVE run'[r] = run[r]
    <3>1. x # r
      BY <2>2 DEF RunStep, Active, Terminal
    <3>2. \E s : SetRun(x, s)
      BY <2>2 DEF RunStep
    <3>3. QED BY <3>1, <3>2 DEF SetRun, TypeInv, TypeOK, StoreTypeOK
  <2>3. QED BY <2>1, <2>2, RunSteps
<1>2. QED
  BY <1>1, TypeInvariance, KnownRuns, StartsAtomic, PTL DEF Spec,
        TerminalIsFinal

(* The runtime implements the life cycle of RunLifecycle, also when leases *)
(* lapse under live workers and two executors work on one run.             *)
THEOREM RuntimeImplementsLifecycle ==
  ASSUME "gated" \notin StartModes PROVE Spec => LifecycleSpec
<1>1. Init => Lifecycle!Init
  BY DEF Init, Lifecycle!Init
<1>2. TypeInv /\ KnownInv /\ NoStaleStart /\ [Next]_vars
        => [Lifecycle!Next]_(Lifecycle!vars)
  <2> SUFFICES ASSUME TypeInv, KnownInv, NoStaleStart, [Next]_vars
               PROVE  Lifecycle!Next \/ UNCHANGED <<run, terminalEvents>>
    BY DEF Lifecycle!vars
  <2>1. CASE NoRunStep
    BY <2>1 DEF NoRunStep
  <2>2. ASSUME NEW r \in Runs, RunStep(r)
        PROVE  Lifecycle!Next \/ UNCHANGED <<run, terminalEvents>>
    <3> USE DEF Lifecycle!Move, Lifecycle!Live, Lifecycle!Ended, Active,
          Terminal
    <3>1. CASE /\ run[r] = "none" /\ ActiveRuns(TaskOf[r]) = {}
               /\ \E s \in {"queued", "awaiting_approval"} : SetRun(r, s)
               /\ UNCHANGED terminalEvents
      <4>1. Lifecycle!Admit(r)
        BY <3>1 DEF Lifecycle!Admit, SetRun, ActiveRuns
      <4>2. QED BY <4>1 DEF Lifecycle!Next
    <3>2. CASE run[r] = "queued" /\ SetRun(r, "running") /\ UNCHANGED
          terminalEvents
      <4>1. Lifecycle!Begin(r)
        BY <3>2 DEF Lifecycle!Begin, SetRun
      <4>2. QED BY <4>1 DEF Lifecycle!Next
    <3>3. CASE /\ run[r] \in Active
               /\ \E s \in {"queued", "awaiting_approval"} : SetRun(r, s)
               /\ UNCHANGED terminalEvents
      <4>1. PICK s \in {"queued", "awaiting_approval"} : SetRun(r, s)
        BY <3>3
      <4>2. CASE run[r] = s
        BY <3>3, <4>1, <4>2 DEF SetRun, TypeInv, TypeOK, StoreTypeOK
      <4>3. CASE run[r] # s
        <5>1. \/ Lifecycle!Recover(r) \/ Lifecycle!Park(r) \/ Lifecycle!Resume(r)
          BY <3>3, <4>1, <4>3 DEF SetRun, Lifecycle!Recover, Lifecycle!Park,
                                  Lifecycle!Resume
        <5>2. QED BY <5>1 DEF Lifecycle!Next
      <4>4. QED BY <4>2, <4>3
    <3>4. CASE /\ run[r] \in Active
               /\ \E s \in Terminal : SetRun(r, s)
               /\ terminalEvents' = [terminalEvents EXCEPT ![r] = @ + 1]
      <4>1. Lifecycle!End(r)
        BY <3>4 DEF Lifecycle!End, SetRun
      <4>2. QED BY <4>1 DEF Lifecycle!Next
    <3>5. QED BY <2>2, <3>1, <3>2, <3>3, <3>4 DEF RunStep
  <2>3. QED BY <2>1, <2>2, RunSteps
<1>3. QED
  BY <1>1, <1>2, TypeInvariance, KnownRuns, StartsAtomic, PTL
     DEF Spec, LifecycleSpec, Lifecycle!Spec

-----------------------------------------------------------------------------
(* Which executors may work on a run. The inductive invariant of the queue *)
(* (LeaseInv) says which workers hold a lease.                             *)

(* Which workers hold a lease: every holder's row is leased, a row has one  *)
(* holder, and a worker between its claim and its acknowledgement is one.   *)
Claimed(w) == pc[w] \in {"claimed", "dropping", "loaded", "registered",
                         "executing", "pausing", "settling", "failing",
                               "acking"}

LeaseInv ==
    /\ \A w \in holders : job[w] # NoRun /\ row[job[w]] = "leased"
    /\ \A v, w \in holders : job[v] = job[w] => v = w
    /\ \A w \in Workers : Claimed(w) => w \in holders

(* As long as the heartbeat keeps the leases of live workers (LapseLive is *)
(* FALSE), claimOnce and Ack keep the leases exact: through crashes, lost  *)
(* claims and failed acknowledgements a row has one holder.                *)
LEMMA LeasesHeld ==
  ASSUME LapseLive = FALSE PROVE Spec => []LeaseInv
<1> USE DEF store, taskVars, apprVars, workerVars, scanVars, startVars,
    drainVars, bounds
<1>1. Init => LeaseInv
  BY DEF Init, LeaseInv, Claimed
<1>2. TypeInv /\ LeaseInv /\ [Next]_vars => LeaseInv'
  <2> SUFFICES ASSUME TypeInv, LeaseInv, [Next]_vars PROVE LeaseInv'
    OBVIOUS
  <2>0. ASSUME UNCHANGED <<row, pc, job, holders>> PROVE LeaseInv'
    BY <2>0 DEF LeaseInv, Claimed
  <2>1. ASSUME NEW p \in Procs, NEW r \in Runs, StartUngated(p, r) PROVE
      LeaseInv'
    BY <2>0, <2>1 DEF StartUngated
  <2>2. ASSUME NEW p \in Procs, NEW r \in Runs, NEW a \in Approvals,
      StartScheduledGated(p, r, a) PROVE LeaseInv'
    BY <2>0, <2>2 DEF StartScheduledGated
  <2>3. ASSUME NEW p \in Procs, NEW r \in Runs, StartGated(p, r) PROVE
      LeaseInv'
    BY <2>0, <2>3 DEF StartGated
  <2>4. ASSUME NEW p \in Procs, NEW r \in Runs, CreateStartApproval(p, r) PROVE
      LeaseInv'
    BY <2>0, <2>4 DEF CreateStartApproval
  <2>5. ASSUME NEW p \in Procs, NEW r \in Runs, UpdateStartedRun(p, r) PROVE
      LeaseInv'
    BY <2>0, <2>5 DEF UpdateStartedRun
  <2>6. ASSUME NEW p \in Procs, NEW r \in Runs, EnqueueOwed(p, r) PROVE
      LeaseInv'
    BY <2>6 DEF EnqueueOwed, Enqueue, EnqueueAmbiguous, LeaseInv, Claimed,
       TypeInv, TypeOK, WorkerTypeOK
  <2>7. ASSUME NEW p \in Procs, NEW a \in Approvals, Approve(p, a) PROVE
      LeaseInv'
    BY <2>0, <2>7 DEF Approve
  <2>8. ASSUME NEW p \in Procs, NEW a \in Approvals, Reject(p, a) PROVE
      LeaseInv'
    BY <2>0, <2>8 DEF Reject
  <2>9. ASSUME NEW p \in Procs, NEW r \in Runs, CancelRun(p, r) PROVE LeaseInv'
    BY <2>0, <2>9 DEF CancelRun
  <2>10. ASSUME NEW p \in Procs, NEW r \in Runs, SignalJobs(p, r) PROVE
      LeaseInv'
    BY <2>0, <2>10 DEF SignalJobs
  <2>11. ASSUME NEW p \in Procs, NEW r \in Runs, FinishCancel(p, r) PROVE
      LeaseInv'
    BY <2>0, <2>11 DEF FinishCancel
  <2>12. ASSUME NEW p \in Procs, NEW r \in Runs, AbandonCancel(p, r) PROVE
      LeaseInv'
    BY <2>0, <2>12 DEF AbandonCancel
  <2>13. ASSUME NEW r \in Runs, LeaseLapses(r) PROVE LeaseInv'
    BY <2>13 DEF LeaseLapses, LeaseInv, Claimed
  <2>14. ASSUME NEW w \in Workers, Heartbeat(w) PROVE LeaseInv'
    BY <2>14 DEF Heartbeat, LeaseInv, Claimed
  <2>15. ASSUME NEW w \in Workers, NEW r \in Runs, Claim(w, r) PROVE LeaseInv'
    <3>1. w \notin holders /\ \A v \in holders : v \in Workers /\ job[v] # r
      BY <2>15 DEF Claim, LeaseInv, TypeInv, TypeOK, WorkerTypeOK
    <3>2. /\ row' = [row EXCEPT ![r] = "leased"] /\ pc' = [pc EXCEPT ![w] = "claimed"]
          /\ job' = [job EXCEPT ![w] = r] /\ holders' = holders \cup {w}
      BY <2>15 DEF Claim, GoTo
    <3>3. job'[w] = r /\ \A v \in holders : job'[v] = job[v]
      BY <3>1, <3>2 DEF TypeInv, TypeOK, WorkerTypeOK
    <3>4. \A v \in holders' : job'[v] # NoRun /\ row'[job'[v]] = "leased"
      <4>1. row \in [Runs -> {"none", "pending", "leased", "lapsed"}] /\ r #
            NoRun
        BY DEF TypeInv, TypeOK, WorkerTypeOK
      <4>2. \A v \in holders : job[v] \in Runs \ {NoRun} /\ row[job[v]] = "leased"
        BY <3>1 DEF LeaseInv, TypeInv, TypeOK, WorkerTypeOK
      <4>3. row'[r] = "leased" /\ \A v \in holders : row'[job[v]] = "leased"
        BY <3>1, <3>2, <4>1, <4>2
      <4>4. QED BY <3>2, <3>3, <4>1, <4>2, <4>3
    <3>5. \A u, v \in holders' : job'[u] = job'[v] => u = v
      BY <3>1, <3>2, <3>3 DEF LeaseInv
    <3>6. \A v \in Workers : Claimed(v)' => v \in holders'
      BY <3>2 DEF LeaseInv, Claimed
    <3>7. QED BY <3>4, <3>5, <3>6 DEF LeaseInv
  <2>16. ASSUME NEW w \in Workers, NEW r \in Runs, ClaimLost(w, r) PROVE
      LeaseInv'
    BY <2>16 DEF ClaimLost, LeaseInv, Claimed
  <2>17. ASSUME NEW w \in Workers, LoadClaimedRun(w) PROVE LeaseInv'
    BY <2>17 DEF LoadClaimedRun, GoTo, Abandon, NextClaim, LeaseInv, Claimed,
       TypeInv, TypeOK, WorkerTypeOK
  <2>18. ASSUME NEW w \in Workers, DropClaim(w) PROVE LeaseInv'
    BY <2>18 DEF DropClaim, GoTo, AckRow, NextClaim, LeaseInv, Claimed,
       TypeInv, TypeOK, WorkerTypeOK
  <2>19. ASSUME NEW w \in Workers, BeginJob(w) PROVE LeaseInv'
    BY <2>19 DEF BeginJob, GoTo, LeaseInv, Claimed
  <2>20. ASSUME NEW w \in Workers, StartClaimedRun(w) PROVE LeaseInv'
    BY <2>20 DEF StartClaimedRun, GoTo, ApplyRunStateTransition, SetRun,
       LeaseInv, Claimed, TypeInv, TypeOK, WorkerTypeOK
  <2>21. ASSUME NEW w \in Workers, SettleUnavailableOrigin(w) PROVE LeaseInv'
    BY <2>21 DEF SettleUnavailableOrigin, GoTo, CancelInStore,
       ApplyRunTerminalTransition, SetRun, LeaseInv, Claimed
  <2>22. ASSUME NEW w \in Workers, FailClaimedStart(w) PROVE LeaseInv'
    BY <2>22 DEF FailClaimedStart, GoTo, LeaseInv, Claimed
  <2>23. ASSUME NEW w \in Workers, Execute(w) PROVE LeaseInv'
    BY <2>23 DEF Execute, GoTo, LeaseInv, Claimed
  <2>24. ASSUME NEW w \in Workers, PersistPendingApproval(w) PROVE LeaseInv'
    BY <2>24 DEF PersistPendingApproval, GoTo, LeaseInv, Claimed, TypeInv,
       TypeOK, WorkerTypeOK
  <2>25. ASSUME NEW w \in Workers, ApplyFinalResult(w) PROVE LeaseInv'
    BY <2>25 DEF ApplyFinalResult, GoTo, ApplyRunTerminalTransition, SetRun,
       LeaseInv, Claimed, TypeInv, TypeOK, WorkerTypeOK
  <2>26. ASSUME NEW w \in Workers, FinalizeFailedRun(w) PROVE LeaseInv'
    BY <2>26 DEF FinalizeFailedRun, GoTo, ApplyRunTerminalTransition, SetRun,
       LeaseInv, Claimed
  <2>27. ASSUME NEW w \in Workers, AckClaim(w) PROVE LeaseInv'
    BY <2>27 DEF AckClaim, GoTo, AckRow, LeaseInv, Claimed, TypeInv, TypeOK,
       WorkerTypeOK
  <2>28. ASSUME NEW w \in Workers, EndJob(w) PROVE LeaseInv'
    BY <2>28 DEF EndJob, Abandon, GoTo, NextClaim, LeaseInv, Claimed
  <2>29. ASSUME NEW p \in Procs, FinishBoot(p) PROVE LeaseInv'
    BY <2>29 DEF FinishBoot, LeaseInv, Claimed, WorkersOff, ScanTypeOK
  <2>30. ASSUME NEW p \in Procs, Tick(p) PROVE LeaseInv'
    BY <2>0, <2>30 DEF Tick
  <2>31. ASSUME NEW p \in Procs, FinishFullScan(p) PROVE LeaseInv'
    BY <2>0, <2>31 DEF FinishFullScan
  <2>32. ASSUME NEW p \in Procs, NEW old \in SUBSET Runs, ScanStale(p, old)
      PROVE LeaseInv'
    BY <2>0, <2>32 DEF ScanStale
  <2>33. ASSUME NEW p \in Procs, FinishTick(p) PROVE LeaseInv'
    BY <2>0, <2>33 DEF FinishTick
  <2>34. ASSUME NEW p \in Procs, EnqueueRequeued(p) PROVE LeaseInv'
    BY <2>34 DEF EnqueueRequeued, Enqueue, EnqueueAmbiguous, LeaseInv,
       Claimed, TypeInv, TypeOK, WorkerTypeOK, ScanTypeOK
  <2>35. ASSUME NEW p \in Procs, NEW r \in Runs, LoadPendingReconcile(p, r)
      PROVE LeaseInv'
    BY <2>0, <2>35 DEF LoadPendingReconcile
  <2>36. ASSUME NEW p \in Procs, NEW r \in Runs, SkipInFlight(p, r) PROVE
      LeaseInv'
    BY <2>0, <2>36 DEF SkipInFlight
  <2>37. ASSUME NEW p \in Procs, NEW r \in Runs, RequeueDisconnectedRun(p, r)
      PROVE LeaseInv'
    BY <2>0, <2>37 DEF RequeueDisconnectedRun
  <2>38. ASSUME NEW p \in Procs, NEW r \in Runs, CancelUnavailableOrigin(p, r)
      PROVE LeaseInv'
    BY <2>0, <2>38 DEF CancelUnavailableOrigin
  <2>39. ASSUME NEW p \in Procs, NEW r \in Runs, FailRequeue(p, r) PROVE
      LeaseInv'
    BY <2>0, <2>39 DEF FailRequeue
  <2>40. ASSUME NEW p \in Procs, Boot(p) PROVE LeaseInv'
    BY <2>0, <2>40 DEF Boot
  <2>41. ASSUME NEW p \in Procs, Shutdown(p) PROVE LeaseInv'
    BY <2>41 DEF Shutdown, LeaseInv, Claimed
  <2>42. ASSUME NEW p \in Procs, Exit(p) PROVE LeaseInv'
    BY <2>42 DEF Exit, LoseMemory, LeaseInv, Claimed, TypeInv, TypeOK,
       WorkerTypeOK
  <2>43. ASSUME NEW p \in Procs, Crash(p) PROVE LeaseInv'
    BY <2>43 DEF Crash, LoseMemory, LeaseInv, Claimed, TypeInv, TypeOK,
       WorkerTypeOK
  <2>s. CASE UNCHANGED vars
    BY <2>0, <2>s DEF vars
  <2>q. QED
    BY <2>s, <2>1, <2>2, <2>3, <2>4, <2>5, <2>6, <2>7, <2>8, <2>9, <2>10,
       <2>11, <2>12, <2>13, <2>14, <2>15, <2>16, <2>17, <2>18, <2>19, <2>20,
       <2>21, <2>22, <2>23, <2>24, <2>25, <2>26, <2>27, <2>28, <2>29, <2>30,
       <2>31, <2>32, <2>33, <2>34, <2>35, <2>36, <2>37, <2>38, <2>39, <2>40,
       <2>41, <2>42, <2>43 DEF Next, ApiStep, QueueStep, WorkerStep, ScanStep,
       ProcStep
<1>3. QED
  BY <1>1, <1>2, TypeInvariance, PTL DEF Spec

(* A run has one worker between its claim and its acknowledgement. *)
SoleClaim ==
    \A v, w \in Workers : Claimed(v) /\ Claimed(w) /\ job[v] = job[w] => v = w

(* A claim is exclusive (claimOnce) while leases of live workers are kept. *)
LEMMA ClaimsExclusive ==
  ASSUME LapseLive = FALSE PROVE Spec => []SoleClaim
<1>1. LeaseInv => SoleClaim
  BY DEF LeaseInv, SoleClaim
<1>2. QED
  BY <1>1, LeasesHeld, PTL

(* No run has two executors: not after crashes, requeues of live runs,     *)
(* lost claims or failed acknowledgements (claimOnce, Ack,                 *)
(* startClaimedRun), as long as the heartbeat keeps the leases of live     *)
(* workers.                                                                *)
THEOREM SingleExecution ==
  ASSUME LapseLive = FALSE PROVE Spec => []SingleExecutor
<1>1. SoleClaim => SingleExecutor
  BY DEF SoleClaim, Claimed, SingleExecutor, Executing
<1>2. QED
  BY <1>1, ClaimsExclusive, PTL

(* While an executor is at work its run is neither missing nor parked.     *)
ExecutingRunGoesOn ==
    \A w \in Workers : Executing(w) => run[job[w]] \notin {"none",
          "awaiting_approval"}

(* An executor's run is neither missing nor parked: the only writer of the *)
(* status is the run's single executor as it leaves (applyFinalResult).    *)
LEMMA ExecutorsGoOn ==
  ASSUME LapseLive = FALSE, "gated" \notin StartModes
  PROVE  Spec => []ExecutingRunGoesOn
<1> USE DEF store, taskVars, apprVars, workerVars, scanVars, startVars,
    drainVars, bounds
<1>1. Init => ExecutingRunGoesOn
  BY DEF Init, ExecutingRunGoesOn, Executing
<1>2. TypeInv /\ SingleExecutor /\ NoStaleStart /\ ExecutingRunGoesOn /\
    [Next]_vars => ExecutingRunGoesOn'
  <2> SUFFICES ASSUME TypeInv /\ SingleExecutor /\ NoStaleStart,
        ExecutingRunGoesOn, [Next]_vars PROVE ExecutingRunGoesOn'
    OBVIOUS
  <2>0. ASSUME UNCHANGED <<run, pc, job>> PROVE ExecutingRunGoesOn'
    BY <2>0 DEF ExecutingRunGoesOn, Executing
  <2>1. ASSUME NEW p \in Procs, NEW r \in Runs, StartUngated(p, r) PROVE
      ExecutingRunGoesOn'
    BY <2>1 DEF StartUngated, SetRun, ExecutingRunGoesOn, Executing
  <2>2. ASSUME NEW p \in Procs, NEW r \in Runs, NEW a \in Approvals,
      StartScheduledGated(p, r, a) PROVE ExecutingRunGoesOn'
    BY <2>2 DEF StartScheduledGated, Admissible, SetRun, ExecutingRunGoesOn,
       Executing
  <2>3. ASSUME NEW p \in Procs, NEW r \in Runs, StartGated(p, r) PROVE
      ExecutingRunGoesOn'
    BY <2>3 DEF StartGated, SetRun, ExecutingRunGoesOn, Executing
  <2>4. ASSUME NEW p \in Procs, NEW r \in Runs, CreateStartApproval(p, r) PROVE
      ExecutingRunGoesOn'
    BY <2>0, <2>4 DEF CreateStartApproval
  <2>5. ASSUME NEW p \in Procs, NEW r \in Runs, UpdateStartedRun(p, r) PROVE
      ExecutingRunGoesOn'
    BY <2>5 DEF UpdateStartedRun, ExecutingRunGoesOn, Executing, NoStaleStart
  <2>6. ASSUME NEW p \in Procs, NEW r \in Runs, EnqueueOwed(p, r) PROVE
      ExecutingRunGoesOn'
    BY <2>0, <2>6 DEF EnqueueOwed
  <2>7. ASSUME NEW p \in Procs, NEW a \in Approvals, Approve(p, a) PROVE
      ExecutingRunGoesOn'
    BY <2>7 DEF Approve, ApplyRunStateTransition, SetRun, ExecutingRunGoesOn,
       Executing
  <2>8. ASSUME NEW p \in Procs, NEW a \in Approvals, Reject(p, a) PROVE
      ExecutingRunGoesOn'
    BY <2>8 DEF Reject, ApplyRunTerminalTransition, SetRun,
       ExecutingRunGoesOn, Executing, TypeInv, TypeOK, StoreTypeOK,
       WorkerTypeOK, Terminal
  <2>9. ASSUME NEW p \in Procs, NEW r \in Runs, CancelRun(p, r) PROVE
      ExecutingRunGoesOn'
    BY <2>9 DEF CancelRun, CancelInStore, ApplyRunTerminalTransition, SetRun,
       ExecutingRunGoesOn, Executing, TypeInv, TypeOK, StoreTypeOK,
       WorkerTypeOK, Terminal
  <2>10. ASSUME NEW p \in Procs, NEW r \in Runs, SignalJobs(p, r) PROVE
      ExecutingRunGoesOn'
    BY <2>0, <2>10 DEF SignalJobs
  <2>11. ASSUME NEW p \in Procs, NEW r \in Runs, FinishCancel(p, r) PROVE
      ExecutingRunGoesOn'
    BY <2>11 DEF FinishCancel, CancelInStore, ApplyRunTerminalTransition,
       SetRun, ExecutingRunGoesOn, Executing, StoreTypeOK, Terminal
  <2>12. ASSUME NEW p \in Procs, NEW r \in Runs, AbandonCancel(p, r) PROVE
      ExecutingRunGoesOn'
    BY <2>0, <2>12 DEF AbandonCancel
  <2>13. ASSUME NEW r \in Runs, LeaseLapses(r) PROVE ExecutingRunGoesOn'
    BY <2>0, <2>13 DEF LeaseLapses
  <2>14. ASSUME NEW w \in Workers, Heartbeat(w) PROVE ExecutingRunGoesOn'
    BY <2>0, <2>14 DEF Heartbeat
  <2>15. ASSUME NEW w \in Workers, NEW r \in Runs, Claim(w, r) PROVE
      ExecutingRunGoesOn'
    BY <2>15 DEF Claim, GoTo, ExecutingRunGoesOn, Executing
  <2>16. ASSUME NEW w \in Workers, NEW r \in Runs, ClaimLost(w, r) PROVE
      ExecutingRunGoesOn'
    BY <2>0, <2>16 DEF ClaimLost
  <2>17. ASSUME NEW w \in Workers, LoadClaimedRun(w) PROVE ExecutingRunGoesOn'
    BY <2>17 DEF LoadClaimedRun, GoTo, Abandon, NextClaim, ExecutingRunGoesOn,
       Executing, TypeInv, TypeOK, WorkerTypeOK
  <2>18. ASSUME NEW w \in Workers, DropClaim(w) PROVE ExecutingRunGoesOn'
    BY <2>18 DEF DropClaim, GoTo, NextClaim, ExecutingRunGoesOn, Executing
  <2>19. ASSUME NEW w \in Workers, BeginJob(w) PROVE ExecutingRunGoesOn'
    BY <2>19 DEF BeginJob, GoTo, ExecutingRunGoesOn, Executing
  <2>20. ASSUME NEW w \in Workers, StartClaimedRun(w) PROVE ExecutingRunGoesOn'
    BY <2>20 DEF StartClaimedRun, GoTo, ApplyRunStateTransition, SetRun,
       ExecutingRunGoesOn, Executing, TypeInv, TypeOK, StoreTypeOK,
       WorkerTypeOK, Terminal
  <2>21. ASSUME NEW w \in Workers, SettleUnavailableOrigin(w) PROVE
      ExecutingRunGoesOn'
    BY <2>21 DEF SettleUnavailableOrigin, GoTo, CancelInStore,
       ApplyRunTerminalTransition, SetRun, ExecutingRunGoesOn, Executing,
       TypeInv, TypeOK, StoreTypeOK, WorkerTypeOK, Terminal
  <2>22. ASSUME NEW w \in Workers, FailClaimedStart(w) PROVE
      ExecutingRunGoesOn'
    BY <2>22 DEF FailClaimedStart, GoTo, ExecutingRunGoesOn, Executing
  <2>23. ASSUME NEW w \in Workers, Execute(w) PROVE ExecutingRunGoesOn'
    BY <2>23 DEF Execute, GoTo, ExecutingRunGoesOn, Executing
  <2>24. ASSUME NEW w \in Workers, PersistPendingApproval(w) PROVE
      ExecutingRunGoesOn'
    BY <2>24 DEF PersistPendingApproval, GoTo, ExecutingRunGoesOn, Executing,
       TypeInv, TypeOK, WorkerTypeOK
  <2>25. ASSUME NEW w \in Workers, ApplyFinalResult(w) PROVE
      ExecutingRunGoesOn'
    BY <2>25 DEF ApplyFinalResult, GoTo, ApplyRunTerminalTransition, SetRun,
       ExecutingRunGoesOn, Executing, TypeInv, TypeOK, StoreTypeOK,
       WorkerTypeOK, Terminal, SingleExecutor
  <2>26. ASSUME NEW w \in Workers, FinalizeFailedRun(w) PROVE
      ExecutingRunGoesOn'
    BY <2>26 DEF FinalizeFailedRun, GoTo, ApplyRunTerminalTransition, SetRun,
       ExecutingRunGoesOn, Executing, TypeInv, TypeOK, StoreTypeOK,
       WorkerTypeOK, Terminal
  <2>27. ASSUME NEW w \in Workers, AckClaim(w) PROVE ExecutingRunGoesOn'
    BY <2>27 DEF AckClaim, GoTo, ExecutingRunGoesOn, Executing
  <2>28. ASSUME NEW w \in Workers, EndJob(w) PROVE ExecutingRunGoesOn'
    BY <2>28 DEF EndJob, Abandon, GoTo, NextClaim, ExecutingRunGoesOn,
       Executing
  <2>29. ASSUME NEW p \in Procs, FinishBoot(p) PROVE ExecutingRunGoesOn'
    BY <2>29 DEF FinishBoot, ExecutingRunGoesOn, Executing, WorkersOff
  <2>30. ASSUME NEW p \in Procs, Tick(p) PROVE ExecutingRunGoesOn'
    BY <2>0, <2>30 DEF Tick
  <2>31. ASSUME NEW p \in Procs, FinishFullScan(p) PROVE ExecutingRunGoesOn'
    BY <2>0, <2>31 DEF FinishFullScan
  <2>32. ASSUME NEW p \in Procs, NEW old \in SUBSET Runs, ScanStale(p, old)
      PROVE ExecutingRunGoesOn'
    BY <2>0, <2>32 DEF ScanStale
  <2>33. ASSUME NEW p \in Procs, FinishTick(p) PROVE ExecutingRunGoesOn'
    BY <2>0, <2>33 DEF FinishTick
  <2>34. ASSUME NEW p \in Procs, EnqueueRequeued(p) PROVE ExecutingRunGoesOn'
    BY <2>0, <2>34 DEF EnqueueRequeued
  <2>35. ASSUME NEW p \in Procs, NEW r \in Runs, LoadPendingReconcile(p, r)
      PROVE ExecutingRunGoesOn'
    BY <2>0, <2>35 DEF LoadPendingReconcile
  <2>36. ASSUME NEW p \in Procs, NEW r \in Runs, SkipInFlight(p, r) PROVE
      ExecutingRunGoesOn'
    BY <2>0, <2>36 DEF SkipInFlight
  <2>37. ASSUME NEW p \in Procs, NEW r \in Runs, RequeueDisconnectedRun(p, r)
      PROVE ExecutingRunGoesOn'
    <3>1. run' = [run EXCEPT ![r] = "queued"] \/ run' = run
      BY <2>37 DEF RequeueDisconnectedRun, ApplyRunStateTransition, SetRun
    <3>2. pc' = pc /\ job' = job
      BY <2>37 DEF RequeueDisconnectedRun
    <3>3. QED BY <3>1, <3>2 DEF ExecutingRunGoesOn, Executing, TypeInv,
       TypeOK, StoreTypeOK, WorkerTypeOK
  <2>38. ASSUME NEW p \in Procs, NEW r \in Runs, CancelUnavailableOrigin(p, r)
      PROVE ExecutingRunGoesOn'
    BY <2>38 DEF CancelUnavailableOrigin, ScanReaches, CancelInStore,
       ApplyRunTerminalTransition, SetRun, ExecutingRunGoesOn, Executing,
       TypeInv, TypeOK, StoreTypeOK, WorkerTypeOK, Terminal
  <2>39. ASSUME NEW p \in Procs, NEW r \in Runs, FailRequeue(p, r) PROVE
      ExecutingRunGoesOn'
    BY <2>0, <2>39 DEF FailRequeue
  <2>40. ASSUME NEW p \in Procs, Boot(p) PROVE ExecutingRunGoesOn'
    BY <2>0, <2>40 DEF Boot
  <2>41. ASSUME NEW p \in Procs, Shutdown(p) PROVE ExecutingRunGoesOn'
    BY <2>41 DEF Shutdown, ExecutingRunGoesOn, Executing
  <2>42. ASSUME NEW p \in Procs, Exit(p) PROVE ExecutingRunGoesOn'
    BY <2>42 DEF Exit, LoseMemory, ExecutingRunGoesOn, Executing
  <2>43. ASSUME NEW p \in Procs, Crash(p) PROVE ExecutingRunGoesOn'
    BY <2>43 DEF Crash, LoseMemory, ExecutingRunGoesOn, Executing
  <2>s. CASE UNCHANGED vars
    BY <2>0, <2>s DEF vars
  <2>q. QED
    BY <2>s, <2>1, <2>2, <2>3, <2>4, <2>5, <2>6, <2>7, <2>8, <2>9, <2>10,
       <2>11, <2>12, <2>13, <2>14, <2>15, <2>16, <2>17, <2>18, <2>19, <2>20,
       <2>21, <2>22, <2>23, <2>24, <2>25, <2>26, <2>27, <2>28, <2>29, <2>30,
       <2>31, <2>32, <2>33, <2>34, <2>35, <2>36, <2>37, <2>38, <2>39, <2>40,
       <2>41, <2>42, <2>43 DEF Next, ApiStep, QueueStep, WorkerStep, ScanStep,
       ProcStep
<1>3. QED
  BY <1>1, <1>2, TypeInvariance, SingleExecution, StartsAtomic, PTL DEF Spec

(* A run that waits for an approval has no executor                        *)
(* (persistPendingApprovals, applyFinalResult).                            *)
THEOREM ParkedRunsAreIdle ==
  ASSUME LapseLive = FALSE, "gated" \notin StartModes
  PROVE  Spec => []AwaitingRunIsIdle
<1>1. ExecutingRunGoesOn => AwaitingRunIsIdle
  BY DEF ExecutingRunGoesOn, AwaitingRunIsIdle
<1>2. QED
  BY <1>1, ExecutorsGoOn, PTL

(* An operator approved the run. *)
Approved(r) == \E a \in Approvals : apprRun[a] = r /\ apprStatus[a] =
      "approved"

(* Approved runs only are queued, running or executed.                     *)
ApprovedInv ==
    /\ \A r \in Runs : run[r] \in {"queued", "running"} => Approved(r)
    /\ \A w \in Workers : Executing(w) => Approved(job[w])

(* A run that starts behind an approval is executed only after an operator *)
(* approved it (resumeTaskAfterApproval), with lapsed leases and gated     *)
(* starts included: neither recovery nor a late UpdateRun can queue it.    *)
THEOREM ApprovalPrecedesExecution ==
  ASSUME "ungated" \notin StartModes PROVE Spec => []ApprovedBeforeExecution
<1> USE DEF store, taskVars, apprVars, workerVars, scanVars, startVars,
    drainVars, bounds
<1>1. Init => ApprovedInv
  BY DEF Init, ApprovedInv, Executing
<1>2. TypeInv /\ ApprovedInv /\ [Next]_vars => ApprovedInv'
  <2> SUFFICES ASSUME TypeInv, ApprovedInv, [Next]_vars PROVE ApprovedInv'
    OBVIOUS
  <2>0. ASSUME UNCHANGED <<run, apprRun, apprStatus, pc, job>> PROVE
      ApprovedInv'
    BY <2>0 DEF ApprovedInv, Approved, Executing
  <2>1. ASSUME NEW p \in Procs, NEW r \in Runs, StartUngated(p, r) PROVE
      ApprovedInv'
    BY <2>1 DEF StartUngated, SetRun, ApprovedInv, Approved, Executing
  <2>2. ASSUME NEW p \in Procs, NEW r \in Runs, NEW a \in Approvals,
      StartScheduledGated(p, r, a) PROVE ApprovedInv'
    BY <2>2 DEF StartScheduledGated, SetRun, CreateApproval, ApprovedInv,
       Approved, Executing
  <2>3. ASSUME NEW p \in Procs, NEW r \in Runs, StartGated(p, r) PROVE
      ApprovedInv'
    BY <2>3 DEF StartGated, SetRun, ApprovedInv, Approved, Executing
  <2>4. ASSUME NEW p \in Procs, NEW r \in Runs, CreateStartApproval(p, r) PROVE
      ApprovedInv'
    BY <2>4 DEF CreateStartApproval, CreateApproval, ApprovedInv, Approved,
       Executing, TypeInv, TypeOK, StoreTypeOK, WorkerTypeOK, Terminal
  <2>5. ASSUME NEW p \in Procs, NEW r \in Runs, UpdateStartedRun(p, r) PROVE
      ApprovedInv'
    BY <2>5 DEF UpdateStartedRun, ApprovedInv, Approved, Executing, TypeInv,
       TypeOK, StoreTypeOK, WorkerTypeOK, Terminal
  <2>6. ASSUME NEW p \in Procs, NEW r \in Runs, EnqueueOwed(p, r) PROVE
      ApprovedInv'
    BY <2>0, <2>6 DEF EnqueueOwed
  <2>7. ASSUME NEW p \in Procs, NEW a \in Approvals, Approve(p, a) PROVE
      ApprovedInv'
    BY <2>7 DEF Approve, ApplyRunStateTransition, SetRun, ApprovedInv,
       Approved, Executing, TypeInv, TypeOK, StoreTypeOK, WorkerTypeOK,
       Terminal
  <2>8. ASSUME NEW p \in Procs, NEW a \in Approvals, Reject(p, a) PROVE
      ApprovedInv'
    BY <2>8 DEF Reject, ApplyRunTerminalTransition, SetRun, PendingOf,
       ApprovedInv, Approved, Executing, TypeInv, TypeOK, StoreTypeOK,
       WorkerTypeOK, Terminal
  <2>9. ASSUME NEW p \in Procs, NEW r \in Runs, CancelRun(p, r) PROVE
      ApprovedInv'
    BY <2>9 DEF CancelRun, CancelInStore, ApplyRunTerminalTransition, SetRun,
       CancelPendingApprovals, PendingOf, ApprovedInv, Approved, Executing,
       TypeInv, TypeOK, StoreTypeOK, WorkerTypeOK, Terminal
  <2>10. ASSUME NEW p \in Procs, NEW r \in Runs, SignalJobs(p, r) PROVE
      ApprovedInv'
    BY <2>0, <2>10 DEF SignalJobs
  <2>11. ASSUME NEW p \in Procs, NEW r \in Runs, FinishCancel(p, r) PROVE
      ApprovedInv'
    BY <2>11 DEF FinishCancel, CancelInStore, ApplyRunTerminalTransition,
       SetRun, CancelPendingApprovals, PendingOf, ReturnToScan, ApprovedInv,
       Approved, Executing, StoreTypeOK, Terminal
  <2>12. ASSUME NEW p \in Procs, NEW r \in Runs, AbandonCancel(p, r) PROVE
      ApprovedInv'
    BY <2>0, <2>12 DEF AbandonCancel
  <2>13. ASSUME NEW r \in Runs, LeaseLapses(r) PROVE ApprovedInv'
    BY <2>0, <2>13 DEF LeaseLapses
  <2>14. ASSUME NEW w \in Workers, Heartbeat(w) PROVE ApprovedInv'
    BY <2>0, <2>14 DEF Heartbeat
  <2>15. ASSUME NEW w \in Workers, NEW r \in Runs, Claim(w, r) PROVE
      ApprovedInv'
    BY <2>15 DEF Claim, GoTo, ApprovedInv, Approved, Executing
  <2>16. ASSUME NEW w \in Workers, NEW r \in Runs, ClaimLost(w, r) PROVE
      ApprovedInv'
    BY <2>0, <2>16 DEF ClaimLost
  <2>17. ASSUME NEW w \in Workers, LoadClaimedRun(w) PROVE ApprovedInv'
    BY <2>17 DEF LoadClaimedRun, GoTo, Abandon, NextClaim, ApprovedInv,
       Approved, Executing, TypeInv, TypeOK, WorkerTypeOK
  <2>18. ASSUME NEW w \in Workers, DropClaim(w) PROVE ApprovedInv'
    BY <2>18 DEF DropClaim, GoTo, NextClaim, ApprovedInv, Approved, Executing
  <2>19. ASSUME NEW w \in Workers, BeginJob(w) PROVE ApprovedInv'
    BY <2>19 DEF BeginJob, GoTo, ApprovedInv, Approved, Executing
  <2>20. ASSUME NEW w \in Workers, StartClaimedRun(w) PROVE ApprovedInv'
    BY <2>20 DEF StartClaimedRun, GoTo, ApplyRunStateTransition, SetRun,
       ApprovedInv, Approved, Executing, TypeInv, TypeOK, StoreTypeOK,
       WorkerTypeOK, Terminal
  <2>21. ASSUME NEW w \in Workers, SettleUnavailableOrigin(w) PROVE
      ApprovedInv'
    BY <2>21 DEF SettleUnavailableOrigin, GoTo, CancelInStore,
       ApplyRunTerminalTransition, SetRun, CancelPendingApprovals, PendingOf,
       ApprovedInv, Approved, Executing, TypeInv, TypeOK, StoreTypeOK,
       WorkerTypeOK, Terminal
  <2>22. ASSUME NEW w \in Workers, FailClaimedStart(w) PROVE ApprovedInv'
    BY <2>22 DEF FailClaimedStart, GoTo, ApprovedInv, Approved, Executing
  <2>23. ASSUME NEW w \in Workers, Execute(w) PROVE ApprovedInv'
    BY <2>23 DEF Execute, GoTo, ApprovedInv, Approved, Executing
  <2>24. ASSUME NEW w \in Workers, PersistPendingApproval(w) PROVE ApprovedInv'
    BY <2>24 DEF PersistPendingApproval, GoTo, CreateApproval, ApprovedInv,
       Approved, Executing, TypeInv, TypeOK, StoreTypeOK, WorkerTypeOK,
       Terminal
  <2>25. ASSUME NEW w \in Workers, ApplyFinalResult(w) PROVE ApprovedInv'
    BY <2>25 DEF ApplyFinalResult, GoTo, ApplyRunTerminalTransition, SetRun,
       ApprovedInv, Approved, Executing, TypeInv, TypeOK, StoreTypeOK,
       WorkerTypeOK, Terminal
  <2>26. ASSUME NEW w \in Workers, FinalizeFailedRun(w) PROVE ApprovedInv'
    BY <2>26 DEF FinalizeFailedRun, GoTo, ApplyRunTerminalTransition, SetRun,
       ApprovedInv, Approved, Executing, TypeInv, TypeOK, StoreTypeOK,
       WorkerTypeOK, Terminal
  <2>27. ASSUME NEW w \in Workers, AckClaim(w) PROVE ApprovedInv'
    BY <2>27 DEF AckClaim, GoTo, ApprovedInv, Approved, Executing
  <2>28. ASSUME NEW w \in Workers, EndJob(w) PROVE ApprovedInv'
    BY <2>28 DEF EndJob, Abandon, GoTo, NextClaim, ApprovedInv, Approved,
       Executing
  <2>29. ASSUME NEW p \in Procs, FinishBoot(p) PROVE ApprovedInv'
    BY <2>29 DEF FinishBoot, ApprovedInv, Approved, Executing, WorkersOff
  <2>30. ASSUME NEW p \in Procs, Tick(p) PROVE ApprovedInv'
    BY <2>0, <2>30 DEF Tick
  <2>31. ASSUME NEW p \in Procs, FinishFullScan(p) PROVE ApprovedInv'
    BY <2>0, <2>31 DEF FinishFullScan
  <2>32. ASSUME NEW p \in Procs, NEW old \in SUBSET Runs, ScanStale(p, old)
      PROVE ApprovedInv'
    BY <2>0, <2>32 DEF ScanStale
  <2>33. ASSUME NEW p \in Procs, FinishTick(p) PROVE ApprovedInv'
    BY <2>0, <2>33 DEF FinishTick
  <2>34. ASSUME NEW p \in Procs, EnqueueRequeued(p) PROVE ApprovedInv'
    BY <2>0, <2>34 DEF EnqueueRequeued
  <2>35. ASSUME NEW p \in Procs, NEW r \in Runs, LoadPendingReconcile(p, r)
      PROVE ApprovedInv'
    BY <2>0, <2>35 DEF LoadPendingReconcile
  <2>36. ASSUME NEW p \in Procs, NEW r \in Runs, SkipInFlight(p, r) PROVE
      ApprovedInv'
    BY <2>0, <2>36 DEF SkipInFlight
  <2>37. ASSUME NEW p \in Procs, NEW r \in Runs, RequeueDisconnectedRun(p, r)
      PROVE ApprovedInv'
    BY <2>37 DEF RequeueDisconnectedRun, ScanReaches, ApplyRunStateTransition,
       SetRun, ApprovedInv, Approved, Executing, TypeInv, TypeOK, StoreTypeOK,
       WorkerTypeOK, Terminal
  <2>38. ASSUME NEW p \in Procs, NEW r \in Runs, CancelUnavailableOrigin(p, r)
      PROVE ApprovedInv'
    BY <2>38 DEF CancelUnavailableOrigin, ScanReaches, CancelInStore,
       ApplyRunTerminalTransition, SetRun, CancelPendingApprovals, PendingOf,
       ApprovedInv, Approved, Executing, TypeInv, TypeOK, StoreTypeOK,
       WorkerTypeOK, Terminal
  <2>39. ASSUME NEW p \in Procs, NEW r \in Runs, FailRequeue(p, r) PROVE
      ApprovedInv'
    BY <2>0, <2>39 DEF FailRequeue
  <2>40. ASSUME NEW p \in Procs, Boot(p) PROVE ApprovedInv'
    BY <2>0, <2>40 DEF Boot
  <2>41. ASSUME NEW p \in Procs, Shutdown(p) PROVE ApprovedInv'
    BY <2>41 DEF Shutdown, ApprovedInv, Approved, Executing
  <2>42. ASSUME NEW p \in Procs, Exit(p) PROVE ApprovedInv'
    BY <2>42 DEF Exit, LoseMemory, ApprovedInv, Approved, Executing
  <2>43. ASSUME NEW p \in Procs, Crash(p) PROVE ApprovedInv'
    BY <2>43 DEF Crash, LoseMemory, ApprovedInv, Approved, Executing
  <2>s. CASE UNCHANGED vars
    BY <2>0, <2>s DEF vars
  <2>q. QED
    BY <2>s, <2>1, <2>2, <2>3, <2>4, <2>5, <2>6, <2>7, <2>8, <2>9, <2>10,
       <2>11, <2>12, <2>13, <2>14, <2>15, <2>16, <2>17, <2>18, <2>19, <2>20,
       <2>21, <2>22, <2>23, <2>24, <2>25, <2>26, <2>27, <2>28, <2>29, <2>30,
       <2>31, <2>32, <2>33, <2>34, <2>35, <2>36, <2>37, <2>38, <2>39, <2>40,
       <2>41, <2>42, <2>43 DEF Next, ApiStep, QueueStep, WorkerStep, ScanStep,
       ProcStep
<1>3. ApprovedInv => ApprovedBeforeExecution
  BY DEF ApprovedInv, Approved, ApprovedBeforeExecution
<1>4. QED
  BY <1>1, <1>2, <1>3, TypeInvariance, PTL DEF Spec

(* There is one process: every worker runs in it. *)
OneProcess == \A p, q \in Procs : p = q

(* In one process every executor of a run that is cancelled has been told, *)
(* or will be by the cancellation that wrote the status (CancelRun,        *)
(* cancelAndWaitForJob): beginJob registers before startClaimedRun         *)
(* compares, so a cancellation that comes first stops the start and one    *)
(* that comes later finds the job.  Faults, crashes and the start in three *)
(* writes included.  The lease keeps other workers from cancelling the run *)
(* (settleUnavailableOriginClaim) behind the executor's back.              *)
THEOREM CancellationsReachExecutors ==
  ASSUME LapseLive = FALSE, OneProcess
  PROVE  Spec => []CancelledExecutorIsSignalled
<1> USE DEF store, taskVars, apprVars, workerVars, scanVars, startVars,
    drainVars, bounds
<1>1. Init => CancelledExecutorIsSignalled
  BY DEF Init, CancelledExecutorIsSignalled, Executing
<1>2. TypeInv /\ SoleClaim /\ CancelledExecutorIsSignalled /\ [Next]_vars =>
    CancelledExecutorIsSignalled'
  <2> SUFFICES ASSUME TypeInv, SoleClaim, CancelledExecutorIsSignalled,
      [Next]_vars PROVE CancelledExecutorIsSignalled'
    OBVIOUS
  <2>0. ASSUME UNCHANGED <<run, pc, job, cancelled, drain>> PROVE
      CancelledExecutorIsSignalled'
    BY <2>0 DEF CancelledExecutorIsSignalled, Executing
  <2>c. ASSUME NEW p \in Procs, NEW r \in Runs, UNCHANGED <<pc, job, cancelled>>,
               drain' = [drain EXCEPT ![p][r] = "signal"],
               \A s \in Runs \ {r} : run'[s] = run[s]
        PROVE  CancelledExecutorIsSignalled'
    <3> SUFFICES ASSUME NEW w \in Workers, Executing(w), run'[job[w]] = "cancelled"
                 PROVE  w \in cancelled \/ drain'[Home[w]][job[w]] = "signal"
      BY <2>c DEF CancelledExecutorIsSignalled, Executing
    <3>1. job[w] \in Runs /\ Home[w] = p
      BY DEF Executing, OneProcess, TypeInv, TypeOK, WorkerTypeOK
    <3>2. CASE job[w] = r
      BY <2>c, <3>1, <3>2 DEF TypeInv, TypeOK, CallTypeOK
    <3>3. CASE job[w] # r
      <4>1. drain'[p][job[w]] = drain[p][job[w]] /\ run[job[w]] = "cancelled"
        BY <2>c, <3>1, <3>3
      <4>2. QED BY <3>1, <4>1 DEF CancelledExecutorIsSignalled
    <3>4. QED BY <3>2, <3>3
  <2>f. ASSUME NEW w \in Workers, Claimed(w), ~Executing(w)',
               \A v \in Workers \ {w} : pc'[v] = pc[v],
               UNCHANGED <<job, cancelled, drain>>,
               \A s \in Runs \ {job[w]} : run'[s] = run[s]
        PROVE  CancelledExecutorIsSignalled'
    <3> SUFFICES ASSUME NEW v \in Workers, Executing(v)', run'[job[v]] = "cancelled"
                 PROVE  v \in cancelled \/ drain[Home[v]][job[v]] = "signal"
      BY <2>f DEF CancelledExecutorIsSignalled
    <3>1. v # w /\ Executing(v) /\ Claimed(v)
      BY <2>f DEF Executing, Claimed
    <3>2. job[v] \in Runs \ {job[w]}
      BY <2>f, <3>1 DEF SoleClaim, Executing, TypeInv, TypeOK, WorkerTypeOK
    <3>3. QED BY <2>f, <3>1, <3>2 DEF CancelledExecutorIsSignalled
  <2>1. ASSUME NEW p \in Procs, NEW r \in Runs, StartUngated(p, r) PROVE
      CancelledExecutorIsSignalled'
    BY <2>1 DEF StartUngated, SetRun, CancelledExecutorIsSignalled, Executing
  <2>2. ASSUME NEW p \in Procs, NEW r \in Runs, NEW a \in Approvals,
      StartScheduledGated(p, r, a) PROVE CancelledExecutorIsSignalled'
    BY <2>2 DEF StartScheduledGated, SetRun, CancelledExecutorIsSignalled,
       Executing
  <2>3. ASSUME NEW p \in Procs, NEW r \in Runs, StartGated(p, r) PROVE
      CancelledExecutorIsSignalled'
    BY <2>3 DEF StartGated, SetRun, CancelledExecutorIsSignalled, Executing
  <2>4. ASSUME NEW p \in Procs, NEW r \in Runs, CreateStartApproval(p, r) PROVE
      CancelledExecutorIsSignalled'
    BY <2>0, <2>4 DEF CreateStartApproval
  <2>5. ASSUME NEW p \in Procs, NEW r \in Runs, UpdateStartedRun(p, r) PROVE
      CancelledExecutorIsSignalled'
    <3>1. \A s \in Runs : run'[s] = "cancelled" => run[s] = "cancelled"
      BY <2>5 DEF UpdateStartedRun, TypeInv, TypeOK, StoreTypeOK
    <3>2. UNCHANGED <<pc, job, cancelled, drain>>
      BY <2>5 DEF UpdateStartedRun
    <3>3. QED BY <3>1, <3>2 DEF CancelledExecutorIsSignalled, Executing,
       TypeInv, TypeOK, WorkerTypeOK
  <2>6. ASSUME NEW p \in Procs, NEW r \in Runs, EnqueueOwed(p, r) PROVE
      CancelledExecutorIsSignalled'
    BY <2>0, <2>6 DEF EnqueueOwed
  <2>7. ASSUME NEW p \in Procs, NEW a \in Approvals, Approve(p, a) PROVE
      CancelledExecutorIsSignalled'
    BY <2>7 DEF Approve, ApplyRunStateTransition, SetRun,
       CancelledExecutorIsSignalled, Executing
  <2>8. ASSUME NEW p \in Procs, NEW a \in Approvals, Reject(p, a) PROVE
      CancelledExecutorIsSignalled'
    <3>1. apprRun[a] \in Runs /\ run \in [Runs -> Status]
      BY <2>8 DEF Reject, TypeInv, TypeOK, StoreTypeOK
    <3>2. \A s \in Runs \ {apprRun[a]} : run'[s] = run[s]
      BY <2>8, <3>1 DEF Reject, ApplyRunTerminalTransition, SetRun
    <3>3. /\ UNCHANGED <<pc, job, cancelled>>
          /\ drain' = [drain EXCEPT ![p][apprRun[a]] = "signal"]
      BY <2>8 DEF Reject
    <3>4. QED BY <3>1, <3>2, <3>3, <2>c
  <2>9. ASSUME NEW p \in Procs, NEW r \in Runs, CancelRun(p, r) PROVE
      CancelledExecutorIsSignalled'
    <3>1. \A s \in Runs \ {r} : run'[s] = run[s]
      BY <2>9 DEF CancelRun, CancelInStore, ApplyRunTerminalTransition,
         SetRun, TypeInv, TypeOK, StoreTypeOK
    <3>2. QED BY <2>9, <3>1, <2>c DEF CancelRun
  <2>10. ASSUME NEW p \in Procs, NEW r \in Runs, SignalJobs(p, r) PROVE
      CancelledExecutorIsSignalled'
    BY <2>10 DEF SignalJobs, JobsOf, Registered, CancelledExecutorIsSignalled,
       Executing
  <2>11. ASSUME NEW p \in Procs, NEW r \in Runs, FinishCancel(p, r) PROVE
      CancelledExecutorIsSignalled'
    BY <2>11 DEF FinishCancel, CancelInStore, ApplyRunTerminalTransition,
       SetRun, CancelledExecutorIsSignalled, Executing, TypeInv, TypeOK,
       StoreTypeOK, WorkerTypeOK
  <2>12. ASSUME NEW p \in Procs, NEW r \in Runs, AbandonCancel(p, r) PROVE
      CancelledExecutorIsSignalled'
    BY <2>12 DEF AbandonCancel, CancelledExecutorIsSignalled, Executing
  <2>13. ASSUME NEW r \in Runs, LeaseLapses(r) PROVE
      CancelledExecutorIsSignalled'
    BY <2>0, <2>13 DEF LeaseLapses
  <2>14. ASSUME NEW w \in Workers, Heartbeat(w) PROVE
      CancelledExecutorIsSignalled'
    BY <2>0, <2>14 DEF Heartbeat
  <2>15. ASSUME NEW w \in Workers, NEW r \in Runs, Claim(w, r) PROVE
      CancelledExecutorIsSignalled'
    BY <2>15 DEF Claim, GoTo, CancelledExecutorIsSignalled, Executing
  <2>16. ASSUME NEW w \in Workers, NEW r \in Runs, ClaimLost(w, r) PROVE
      CancelledExecutorIsSignalled'
    BY <2>0, <2>16 DEF ClaimLost
  <2>17. ASSUME NEW w \in Workers, LoadClaimedRun(w) PROVE
      CancelledExecutorIsSignalled'
    <3>1. /\ pc[w] = "claimed" /\ pc' = [pc EXCEPT ![w] = pc'[w]]
          /\ ~Executing(w)' /\ \A v \in Workers \ {w} : job'[v] = job[v]
      BY <2>17 DEF LoadClaimedRun, GoTo, Abandon, NextClaim, Executing,
         TypeInv, TypeOK, WorkerTypeOK
    <3>2. UNCHANGED <<run, cancelled, drain>>
      BY <2>17 DEF LoadClaimedRun
    <3>3. QED BY <3>1, <3>2 DEF CancelledExecutorIsSignalled, Executing,
       TypeInv, TypeOK, WorkerTypeOK
  <2>18. ASSUME NEW w \in Workers, DropClaim(w) PROVE
      CancelledExecutorIsSignalled'
    BY <2>18 DEF DropClaim, GoTo, NextClaim, CancelledExecutorIsSignalled,
       Executing
  <2>19. ASSUME NEW w \in Workers, BeginJob(w) PROVE
      CancelledExecutorIsSignalled'
    BY <2>19 DEF BeginJob, GoTo, CancelledExecutorIsSignalled, Executing
  <2>20. ASSUME NEW w \in Workers, StartClaimedRun(w) PROVE
      CancelledExecutorIsSignalled'
    <3>1. /\ \A s \in Runs : run'[s] = "cancelled" => run[s] = "cancelled"
          /\ Executing(w)' => run'[job[w]] # "cancelled"
      BY <2>20 DEF StartClaimedRun, GoTo, ApplyRunStateTransition, SetRun,
         Executing, TypeInv, TypeOK, StoreTypeOK, WorkerTypeOK
    <3>2. /\ UNCHANGED <<job, cancelled, drain>>
          /\ \A v \in Workers \ {w} : pc'[v] = pc[v]
      BY <2>20 DEF StartClaimedRun, GoTo, TypeInv, TypeOK, WorkerTypeOK
    <3>3. QED BY <3>1, <3>2 DEF CancelledExecutorIsSignalled, Executing,
       TypeInv, TypeOK, WorkerTypeOK
  <2>21. ASSUME NEW w \in Workers, SettleUnavailableOrigin(w) PROVE
      CancelledExecutorIsSignalled'
    <3>1. /\ Claimed(w) /\ ~Executing(w)' /\ UNCHANGED <<job, cancelled, drain>>
          /\ \A v \in Workers \ {w} : pc'[v] = pc[v]
      BY <2>21 DEF SettleUnavailableOrigin, GoTo, Claimed, Executing
    <3>2. \A s \in Runs \ {job[w]} : run'[s] = run[s]
      BY <2>21 DEF SettleUnavailableOrigin, CancelInStore,
         ApplyRunTerminalTransition, SetRun, TypeInv, TypeOK, StoreTypeOK
    <3>3. QED BY <3>1, <3>2, <2>f
  <2>22. ASSUME NEW w \in Workers, FailClaimedStart(w) PROVE
      CancelledExecutorIsSignalled'
    BY <2>22 DEF FailClaimedStart, GoTo, CancelledExecutorIsSignalled,
       Executing
  <2>23. ASSUME NEW w \in Workers, Execute(w) PROVE
      CancelledExecutorIsSignalled'
    BY <2>23 DEF Execute, GoTo, CancelledExecutorIsSignalled, Executing
  <2>24. ASSUME NEW w \in Workers, PersistPendingApproval(w) PROVE
      CancelledExecutorIsSignalled'
    BY <2>24 DEF PersistPendingApproval, GoTo, CancelledExecutorIsSignalled,
       Executing, TypeInv, TypeOK, WorkerTypeOK
  <2>25. ASSUME NEW w \in Workers, ApplyFinalResult(w) PROVE
      CancelledExecutorIsSignalled'
    <3>1. CASE pc'[w] = "acking"
      <4>1. /\ Claimed(w) /\ ~Executing(w)' /\ UNCHANGED <<job, cancelled, drain>>
            /\ \A v \in Workers \ {w} : pc'[v] = pc[v]
        BY <2>25, <3>1 DEF ApplyFinalResult, GoTo, Claimed, Executing,
           TypeInv, TypeOK, WorkerTypeOK
      <4>2. \A s \in Runs \ {job[w]} : run'[s] = run[s]
        BY <2>25 DEF ApplyFinalResult, ApplyRunTerminalTransition, SetRun,
           TypeInv, TypeOK, StoreTypeOK
      <4>3. QED BY <4>1, <4>2, <2>f
    <3>2. CASE pc'[w] # "acking"
      <4>1. UNCHANGED <<run, job, cancelled, drain>> /\ Executing(w)
        BY <2>25, <3>2 DEF ApplyFinalResult, GoTo, Executing, TypeInv, TypeOK,
           WorkerTypeOK
      <4>2. \A v \in Workers \ {w} : pc'[v] = pc[v]
        BY <2>25 DEF ApplyFinalResult, GoTo, TypeInv, TypeOK, WorkerTypeOK
      <4>3. QED BY <4>1, <4>2 DEF CancelledExecutorIsSignalled, Executing
    <3>3. QED BY <3>1, <3>2
  <2>26. ASSUME NEW w \in Workers, FinalizeFailedRun(w) PROVE
      CancelledExecutorIsSignalled'
    <3>1. /\ Claimed(w) /\ ~Executing(w)' /\ UNCHANGED <<job, cancelled, drain>>
          /\ \A v \in Workers \ {w} : pc'[v] = pc[v]
      BY <2>26 DEF FinalizeFailedRun, GoTo, Claimed, Executing, TypeInv,
         TypeOK, WorkerTypeOK
    <3>2. \A s \in Runs \ {job[w]} : run'[s] = run[s]
      BY <2>26 DEF FinalizeFailedRun, ApplyRunTerminalTransition, SetRun,
         TypeInv, TypeOK, StoreTypeOK
    <3>3. QED BY <3>1, <3>2, <2>f
  <2>27. ASSUME NEW w \in Workers, AckClaim(w) PROVE
      CancelledExecutorIsSignalled'
    BY <2>27 DEF AckClaim, GoTo, CancelledExecutorIsSignalled, Executing
  <2>28. ASSUME NEW w \in Workers, EndJob(w) PROVE
      CancelledExecutorIsSignalled'
    BY <2>28 DEF EndJob, Abandon, GoTo, NextClaim,
       CancelledExecutorIsSignalled, Executing
  <2>29. ASSUME NEW p \in Procs, FinishBoot(p) PROVE
      CancelledExecutorIsSignalled'
    BY <2>29 DEF FinishBoot, CancelledExecutorIsSignalled, Executing,
       WorkersOff
  <2>30. ASSUME NEW p \in Procs, Tick(p) PROVE CancelledExecutorIsSignalled'
    BY <2>0, <2>30 DEF Tick
  <2>31. ASSUME NEW p \in Procs, FinishFullScan(p) PROVE
      CancelledExecutorIsSignalled'
    BY <2>0, <2>31 DEF FinishFullScan
  <2>32. ASSUME NEW p \in Procs, NEW old \in SUBSET Runs, ScanStale(p, old)
      PROVE CancelledExecutorIsSignalled'
    BY <2>0, <2>32 DEF ScanStale
  <2>33. ASSUME NEW p \in Procs, FinishTick(p) PROVE
      CancelledExecutorIsSignalled'
    BY <2>0, <2>33 DEF FinishTick
  <2>34. ASSUME NEW p \in Procs, EnqueueRequeued(p) PROVE
      CancelledExecutorIsSignalled'
    BY <2>0, <2>34 DEF EnqueueRequeued
  <2>35. ASSUME NEW p \in Procs, NEW r \in Runs, LoadPendingReconcile(p, r)
      PROVE CancelledExecutorIsSignalled'
    BY <2>0, <2>35 DEF LoadPendingReconcile
  <2>36. ASSUME NEW p \in Procs, NEW r \in Runs, SkipInFlight(p, r) PROVE
      CancelledExecutorIsSignalled'
    BY <2>0, <2>36 DEF SkipInFlight
  <2>37. ASSUME NEW p \in Procs, NEW r \in Runs, RequeueDisconnectedRun(p, r)
      PROVE CancelledExecutorIsSignalled'
    BY <2>37 DEF RequeueDisconnectedRun, ScanReaches, ApplyRunStateTransition,
       SetRun, CancelledExecutorIsSignalled, Executing, TypeInv, TypeOK,
       StoreTypeOK, WorkerTypeOK
  <2>38. ASSUME NEW p \in Procs, NEW r \in Runs, CancelUnavailableOrigin(p, r)
      PROVE CancelledExecutorIsSignalled'
    <3>1. \A s \in Runs \ {r} : run'[s] = run[s]
      BY <2>38 DEF CancelUnavailableOrigin, CancelInStore,
         ApplyRunTerminalTransition, SetRun, TypeInv, TypeOK, StoreTypeOK
    <3>2. QED BY <2>38, <3>1, <2>c DEF CancelUnavailableOrigin
  <2>39. ASSUME NEW p \in Procs, NEW r \in Runs, FailRequeue(p, r) PROVE
      CancelledExecutorIsSignalled'
    BY <2>0, <2>39 DEF FailRequeue
  <2>40. ASSUME NEW p \in Procs, Boot(p) PROVE CancelledExecutorIsSignalled'
    BY <2>0, <2>40 DEF Boot
  <2>41. ASSUME NEW p \in Procs, Shutdown(p) PROVE
      CancelledExecutorIsSignalled'
    BY <2>41 DEF Shutdown, CancelledExecutorIsSignalled, Executing
  <2>42. ASSUME NEW p \in Procs, Exit(p) PROVE CancelledExecutorIsSignalled'
    BY <2>42 DEF Exit, LoseMemory, CancelledExecutorIsSignalled, Executing
  <2>43. ASSUME NEW p \in Procs, Crash(p) PROVE CancelledExecutorIsSignalled'
    BY <2>43 DEF Crash, LoseMemory, CancelledExecutorIsSignalled, Executing
  <2>s. CASE UNCHANGED vars
    BY <2>0, <2>s DEF vars
  <2>q. QED
    BY <2>s, <2>1, <2>2, <2>3, <2>4, <2>5, <2>6, <2>7, <2>8, <2>9, <2>10,
       <2>11, <2>12, <2>13, <2>14, <2>15, <2>16, <2>17, <2>18, <2>19, <2>20,
       <2>21, <2>22, <2>23, <2>24, <2>25, <2>26, <2>27, <2>28, <2>29, <2>30,
       <2>31, <2>32, <2>33, <2>34, <2>35, <2>36, <2>37, <2>38, <2>39, <2>40,
       <2>41, <2>42, <2>43 DEF Next, ApiStep, QueueStep, WorkerStep, ScanStep,
       ProcStep
<1>3. QED
  BY <1>1, <1>2, TypeInvariance, ClaimsExclusive, PTL DEF Spec

(* A write of one run leaves the other runs alone. *)
LEMMA OneRunWritten ==
  ASSUME NEW r \in Runs, NEW k, run \in [Runs -> Status],
         run' = run \/ run' = [run EXCEPT ![r] = k]
  PROVE  \A s \in Runs : run'[s] = run[s] \/ (s = r /\ run'[s] = k)
OBVIOUS

(* While nothing stops, an executor whose run has ended was cancelled and  *)
(* the cancellation that ended the run waits for it, or is about to.       *)
AwaitedInv ==
    /\ \A p \in Procs : proc[p] # "stopping"
    /\ \A w \in Workers :
          Executing(w) /\ run[job[w]] \in Terminal =>
            /\ run[job[w]] = "cancelled"
            /\ \/ drain[Home[w]][job[w]] = "signal"
               \/ /\ drain[Home[w]][job[w]] = "wait"
                  /\ w \in waits[Home[w]][job[w]]

(* A cancellation does not return before the executor it cancelled has     *)
(* exited (cancelAndWaitForJob), unless its caller gives up or the process *)
(* stops.                                                                  *)
LEMMA CancelledExecutorsAwaited ==
  ASSUME LapseLive = FALSE, OneProcess, "gated" \notin StartModes,
         MaxFaults = 0, MaxStops = 0
  PROVE  Spec => []AwaitedInv
<1> USE DEF store, taskVars, apprVars, workerVars, scanVars, startVars,
    drainVars, bounds
<1>1. Init => AwaitedInv
  BY DEF Init, AwaitedInv, Executing
<1>2. TypeInv /\ SoleClaim /\ NoStaleStart /\ AwaitedInv /\ [Next]_vars =>
    AwaitedInv'
  <2> SUFFICES ASSUME TypeInv, SoleClaim, NoStaleStart, AwaitedInv, [Next]_vars
      PROVE AwaitedInv'
    OBVIOUS
  <2>0. ASSUME UNCHANGED <<run, pc, job, drain, waits, proc>> PROVE AwaitedInv'
    BY <2>0 DEF AwaitedInv, Executing
  <2>n. ~Fault
    BY DEF Fault, TypeInv, TypeOK, CallTypeOK
  <2>g. ASSUME \A v \in Workers : Executing(v)' => Executing(v) /\ job'[v] = job[v],
               \A s \in Runs : run'[s] \in Terminal => run[s] = run'[s],
               UNCHANGED <<proc, drain>>,
               \A v \in Workers : Executing(v)' =>
                 \A p \in Procs, s \in Runs : v \in waits[p][s] => v \in waits'[p][s]
        PROVE  AwaitedInv'
    <3>1. \A v \in Workers : Executing(v) => job[v] \in Runs
      BY DEF Executing, TypeInv, TypeOK, WorkerTypeOK
    <3>2. QED BY <2>g, <3>1 DEF AwaitedInv
  <2>c. ASSUME NEW p \in Procs, NEW r \in Runs, UNCHANGED <<proc, pc, job, waits>>,
               drain' = [drain EXCEPT ![p][r] = "signal"],
               \A s \in Runs : run'[s] = run[s] \/ (s = r /\ run'[s] = "cancelled")
        PROVE  AwaitedInv'
    <3> SUFFICES ASSUME NEW w \in Workers, Executing(w), run'[job[w]] \in Terminal
                 PROVE  /\ run'[job[w]] = "cancelled"
                        /\ \/ drain'[Home[w]][job[w]] = "signal"
                           \/ /\ drain'[Home[w]][job[w]] = "wait"
                              /\ w \in waits[Home[w]][job[w]]
      BY <2>c DEF AwaitedInv, Executing
    <3>1. job[w] \in Runs /\ Home[w] = p
      BY DEF Executing, OneProcess, TypeInv, TypeOK, WorkerTypeOK
    <3>2. CASE job[w] = r
      <4>1. drain'[p][r] = "signal"
        BY <2>c DEF TypeInv, TypeOK, CallTypeOK
      <4>2. QED BY <2>c, <3>1, <3>2, <4>1 DEF AwaitedInv
    <3>3. CASE job[w] # r
      <4>1. drain'[p][job[w]] = drain[p][job[w]] /\ run'[job[w]] = run[job[w]]
        BY <2>c, <3>1, <3>3
      <4>2. QED BY <3>1, <4>1 DEF AwaitedInv
    <3>4. QED BY <3>2, <3>3
  <2>f. ASSUME NEW w \in Workers, Claimed(w), ~Executing(w)',
               \A v \in Workers \ {w} : pc'[v] = pc[v],
               UNCHANGED <<proc, job, drain, waits>>,
               \A s \in Runs \ {job[w]} : run'[s] = run[s]
        PROVE  AwaitedInv'
    <3>1. \A v \in Workers : Executing(v)' =>
             Executing(v) /\ job[v] \in Runs \ {job[w]}
      <4> SUFFICES ASSUME NEW v \in Workers, Executing(v)'
                   PROVE  Executing(v) /\ job[v] \in Runs \ {job[w]}
        OBVIOUS
      <4>1. v # w /\ Executing(v) /\ Claimed(v)
        BY <2>f DEF Executing, Claimed
      <4>2. QED
        BY <2>f, <4>1 DEF SoleClaim, Executing, TypeInv, TypeOK, WorkerTypeOK
    <3>2. QED BY <2>f, <3>1 DEF AwaitedInv
  <2>1. ASSUME NEW p \in Procs, NEW r \in Runs, StartUngated(p, r) PROVE
      AwaitedInv'
    <3>1. \A s \in Runs : run'[s] \in Terminal => run[s] = run'[s]
      BY <2>1 DEF StartUngated, SetRun, Terminal, StoreTypeOK
    <3>2. UNCHANGED <<proc, pc, job, drain, waits>>
      BY <2>1 DEF StartUngated
    <3>3. QED BY <3>1, <3>2, <2>g DEF Executing
  <2>2. ASSUME NEW p \in Procs, NEW r \in Runs, NEW a \in Approvals,
      StartScheduledGated(p, r, a) PROVE AwaitedInv'
    <3>1. \A s \in Runs : run'[s] \in Terminal => run[s] = run'[s]
      BY <2>2 DEF StartScheduledGated, SetRun, Terminal, StoreTypeOK
    <3>2. UNCHANGED <<proc, pc, job, drain, waits>>
      BY <2>2 DEF StartScheduledGated
    <3>3. QED BY <3>1, <3>2, <2>g DEF Executing
  <2>3. ASSUME NEW p \in Procs, NEW r \in Runs, StartGated(p, r) PROVE
      AwaitedInv'
    <3>1. \A s \in Runs : run'[s] \in Terminal => run[s] = run'[s]
      BY <2>3 DEF StartGated, SetRun
    <3>2. UNCHANGED <<proc, pc, job, drain, waits>>
      BY <2>3 DEF StartGated
    <3>3. QED BY <3>1, <3>2, <2>g DEF Executing
  <2>4. ASSUME NEW p \in Procs, NEW r \in Runs, CreateStartApproval(p, r) PROVE
      AwaitedInv'
    BY <2>0, <2>4 DEF CreateStartApproval
  <2>5. ASSUME NEW p \in Procs, NEW r \in Runs, UpdateStartedRun(p, r) PROVE
      AwaitedInv'
    BY <2>5 DEF UpdateStartedRun, NoStaleStart
  <2>6. ASSUME NEW p \in Procs, NEW r \in Runs, EnqueueOwed(p, r) PROVE
      AwaitedInv'
    BY <2>0, <2>6 DEF EnqueueOwed
  <2>7. ASSUME NEW p \in Procs, NEW a \in Approvals, Approve(p, a) PROVE
      AwaitedInv'
    <3>1. \A s \in Runs : run'[s] \in Terminal => run[s] = run'[s]
      BY <2>7 DEF Approve, ApplyRunStateTransition, SetRun, Terminal,
         StoreTypeOK
    <3>2. UNCHANGED <<proc, pc, job, drain, waits>>
      BY <2>7 DEF Approve
    <3>3. QED BY <3>1, <3>2, <2>g DEF Executing
  <2>8. ASSUME NEW p \in Procs, NEW a \in Approvals, Reject(p, a) PROVE
      AwaitedInv'
    <3>1. apprRun[a] \in Runs /\ run \in [Runs -> Status]
      BY <2>8 DEF Reject, TypeInv, TypeOK, StoreTypeOK
    <3>2. \A s \in Runs :
             run'[s] = run[s] \/ (s = apprRun[a] /\ run'[s] = "cancelled")
      <4>1. run' = run \/ run' = [run EXCEPT ![apprRun[a]] = "cancelled"]
        BY <2>8 DEF Reject, ApplyRunTerminalTransition, SetRun
      <4>2. QED BY <3>1, <4>1, OneRunWritten
    <3>3. /\ UNCHANGED <<proc, pc, job, waits>>
          /\ drain' = [drain EXCEPT ![p][apprRun[a]] = "signal"]
      BY <2>8 DEF Reject
    <3>4. QED BY <3>1, <3>2, <3>3, <2>c
  <2>9. ASSUME NEW p \in Procs, NEW r \in Runs, CancelRun(p, r) PROVE
      AwaitedInv'
    <3>1. run' = run \/ run' = [run EXCEPT ![r] = "cancelled"]
      BY <2>9 DEF CancelRun, CancelInStore, ApplyRunTerminalTransition, SetRun
    <3>2. \A s \in Runs : run'[s] = run[s] \/ (s = r /\ run'[s] = "cancelled")
      BY <3>1, OneRunWritten DEF TypeInv, TypeOK, StoreTypeOK
    <3>3. QED BY <2>9, <3>2, <2>c DEF CancelRun
  <2>10. ASSUME NEW p \in Procs, NEW r \in Runs, SignalJobs(p, r) PROVE
      AwaitedInv'
    <3> SUFFICES ASSUME NEW w \in Workers, Executing(w), run[job[w]] \in Terminal
                 PROVE  /\ run[job[w]] = "cancelled"
                        /\ \/ drain'[Home[w]][job[w]] = "signal"
                           \/ /\ drain'[Home[w]][job[w]] = "wait"
                              /\ w \in waits'[Home[w]][job[w]]
      BY <2>10 DEF SignalJobs, AwaitedInv, Executing
    <3>1. job[w] \in Runs /\ Home[w] = p /\ run[job[w]] = "cancelled"
      BY DEF Executing, OneProcess, AwaitedInv, TypeInv, TypeOK, WorkerTypeOK
    <3>2. CASE job[w] = r
      <4>1. w \in JobsOf(p, r)
        BY <3>1, <3>2 DEF JobsOf, Registered, Executing
      <4>2. drain'[p][r] = "wait" /\ waits'[p][r] = JobsOf(p, r)
        BY <2>10 DEF SignalJobs, TypeInv, TypeOK, CallTypeOK
      <4>3. QED BY <3>1, <3>2, <4>1, <4>2
    <3>3. CASE job[w] # r
      <4>1. /\ drain'[p][job[w]] = drain[p][job[w]]
            /\ waits'[p][job[w]] = waits[p][job[w]]
        BY <2>10, <3>1, <3>3 DEF SignalJobs
      <4>2. QED BY <3>1, <4>1 DEF AwaitedInv
    <3>4. QED BY <3>2, <3>3
  <2>11. ASSUME NEW p \in Procs, NEW r \in Runs, FinishCancel(p, r) PROVE
      AwaitedInv'
    <3>1. UNCHANGED <<proc, pc, job, waits>> /\ waits[p][r] = {} /\ run' = run
      BY <2>11 DEF FinishCancel, CancelInStore, ApplyRunTerminalTransition,
         Terminal
    <3>2. drain[p][r] = "wait" /\ drain' = [drain EXCEPT ![p][r] = "none"]
      BY <2>11 DEF FinishCancel
    <3> SUFFICES ASSUME NEW w \in Workers, Executing(w), run[job[w]] \in Terminal
                 PROVE  job[w] # r /\ job[w] \in Runs /\ Home[w] = p
      BY <3>1, <3>2 DEF AwaitedInv, Executing
    <3>3. job[w] \in Runs /\ Home[w] = p
      BY DEF Executing, OneProcess, TypeInv, TypeOK, WorkerTypeOK
    <3>4. QED BY <3>1, <3>2, <3>3 DEF AwaitedInv
  <2>12. ASSUME NEW p \in Procs, NEW r \in Runs, AbandonCancel(p, r) PROVE
      AwaitedInv'
    BY <2>n, <2>12 DEF AbandonCancel
  <2>13. ASSUME NEW r \in Runs, LeaseLapses(r) PROVE AwaitedInv'
    BY <2>0, <2>13 DEF LeaseLapses
  <2>14. ASSUME NEW w \in Workers, Heartbeat(w) PROVE AwaitedInv'
    BY <2>0, <2>14 DEF Heartbeat
  <2>15. ASSUME NEW w \in Workers, NEW r \in Runs, Claim(w, r) PROVE
      AwaitedInv'
    <3>1. \A v \in Workers : Executing(v)' => Executing(v) /\ job'[v] = job[v]
      BY <2>15 DEF Claim, GoTo, Executing
    <3>2. UNCHANGED <<run, proc, drain, waits>>
      BY <2>15 DEF Claim
    <3>3. QED BY <3>1, <3>2, <2>g
  <2>16. ASSUME NEW w \in Workers, NEW r \in Runs, ClaimLost(w, r) PROVE
      AwaitedInv'
    BY <2>n, <2>16 DEF ClaimLost
  <2>17. ASSUME NEW w \in Workers, LoadClaimedRun(w) PROVE AwaitedInv'
    <3>1. \A v \in Workers : Executing(v)' => Executing(v) /\ job'[v] = job[v]
      BY <2>17 DEF LoadClaimedRun, GoTo, Abandon, NextClaim, Executing,
         TypeInv, TypeOK, WorkerTypeOK
    <3>2. UNCHANGED <<run, proc, drain, waits>>
      BY <2>17 DEF LoadClaimedRun
    <3>3. QED BY <3>1, <3>2, <2>g
  <2>18. ASSUME NEW w \in Workers, DropClaim(w) PROVE AwaitedInv'
    <3>1. \A v \in Workers : Executing(v)' => Executing(v) /\ job'[v] = job[v]
      BY <2>18 DEF DropClaim, GoTo, NextClaim, Executing
    <3>2. UNCHANGED <<run, proc, drain, waits>>
      BY <2>18 DEF DropClaim
    <3>3. QED BY <3>1, <3>2, <2>g
  <2>19. ASSUME NEW w \in Workers, BeginJob(w) PROVE AwaitedInv'
    <3>1. \A v \in Workers : Executing(v)' => Executing(v) /\ job'[v] = job[v]
      BY <2>19 DEF BeginJob, GoTo, Executing
    <3>2. UNCHANGED <<run, proc, drain, waits>>
      BY <2>19 DEF BeginJob
    <3>3. QED BY <3>1, <3>2, <2>g
  <2>20. ASSUME NEW w \in Workers, StartClaimedRun(w) PROVE AwaitedInv'
    <3>1. \A s \in Runs : run'[s] \in Terminal => run[s] = run'[s]
      BY <2>20 DEF StartClaimedRun, ApplyRunStateTransition, SetRun, Terminal,
         TypeInv, TypeOK, StoreTypeOK
    <3>2. /\ UNCHANGED <<proc, job, drain, waits>> /\ job[w] \in Runs
          /\ \A v \in Workers \ {w} : pc'[v] = pc[v]
      BY <2>20 DEF StartClaimedRun, GoTo, TypeInv, TypeOK, WorkerTypeOK
    <3>3. Executing(w)' => run'[job[w]] \notin Terminal
      BY <2>20, <3>2 DEF StartClaimedRun, GoTo, ApplyRunStateTransition,
         SetRun, Executing, Terminal, TypeInv, TypeOK, StoreTypeOK,
         WorkerTypeOK
    <3>4. \A v \in Workers : Executing(v) => job[v] \in Runs
      BY DEF Executing, TypeInv, TypeOK, WorkerTypeOK
    <3>5. QED BY <3>1, <3>2, <3>3, <3>4 DEF AwaitedInv, Executing
  <2>21. ASSUME NEW w \in Workers, SettleUnavailableOrigin(w) PROVE AwaitedInv'
    <3>1. /\ Claimed(w) /\ ~Executing(w)' /\ UNCHANGED <<proc, job, drain, waits>>
          /\ \A v \in Workers \ {w} : pc'[v] = pc[v]
      BY <2>21 DEF SettleUnavailableOrigin, GoTo, Claimed, Executing
    <3>2. \A s \in Runs \ {job[w]} : run'[s] = run[s]
      BY <2>21 DEF SettleUnavailableOrigin, CancelInStore,
         ApplyRunTerminalTransition, SetRun, TypeInv, TypeOK, StoreTypeOK
    <3>3. QED BY <3>1, <3>2, <2>f
  <2>22. ASSUME NEW w \in Workers, FailClaimedStart(w) PROVE AwaitedInv'
    <3>1. \A v \in Workers : Executing(v)' => Executing(v) /\ job'[v] = job[v]
      BY <2>22 DEF FailClaimedStart, GoTo, Executing
    <3>2. UNCHANGED <<run, proc, drain, waits>>
      BY <2>22 DEF FailClaimedStart
    <3>3. QED BY <3>1, <3>2, <2>g
  <2>23. ASSUME NEW w \in Workers, Execute(w) PROVE AwaitedInv'
    <3>1. \A v \in Workers : Executing(v)' => Executing(v) /\ job'[v] = job[v]
      BY <2>23 DEF Execute, GoTo, Executing
    <3>2. UNCHANGED <<run, proc, drain, waits>>
      BY <2>23 DEF Execute
    <3>3. QED BY <3>1, <3>2, <2>g
  <2>24. ASSUME NEW w \in Workers, PersistPendingApproval(w) PROVE AwaitedInv'
    <3>1. \A v \in Workers : Executing(v)' => Executing(v) /\ job'[v] = job[v]
      BY <2>24 DEF PersistPendingApproval, GoTo, Executing, TypeInv, TypeOK,
         WorkerTypeOK
    <3>2. UNCHANGED <<run, proc, drain, waits>>
      BY <2>24 DEF PersistPendingApproval
    <3>3. QED BY <3>1, <3>2, <2>g
  <2>25. ASSUME NEW w \in Workers, ApplyFinalResult(w) PROVE AwaitedInv'
    <3>1. /\ Claimed(w) /\ ~Executing(w)' /\ UNCHANGED <<proc, job, drain, waits>>
          /\ \A v \in Workers \ {w} : pc'[v] = pc[v]
      BY <2>n, <2>25 DEF ApplyFinalResult, GoTo, Claimed, Executing, TypeInv,
         TypeOK, WorkerTypeOK
    <3>2. \A s \in Runs \ {job[w]} : run'[s] = run[s]
      BY <2>25 DEF ApplyFinalResult, ApplyRunTerminalTransition, SetRun,
         TypeInv, TypeOK, StoreTypeOK
    <3>3. QED BY <3>1, <3>2, <2>f
  <2>26. ASSUME NEW w \in Workers, FinalizeFailedRun(w) PROVE AwaitedInv'
    <3>1. /\ Claimed(w) /\ ~Executing(w)' /\ UNCHANGED <<proc, job, drain, waits>>
          /\ \A v \in Workers \ {w} : pc'[v] = pc[v]
      BY <2>26 DEF FinalizeFailedRun, GoTo, Claimed, Executing, TypeInv,
         TypeOK, WorkerTypeOK
    <3>2. \A s \in Runs \ {job[w]} : run'[s] = run[s]
      BY <2>26 DEF FinalizeFailedRun, ApplyRunTerminalTransition, SetRun,
         TypeInv, TypeOK, StoreTypeOK
    <3>3. QED BY <3>1, <3>2, <2>f
  <2>27. ASSUME NEW w \in Workers, AckClaim(w) PROVE AwaitedInv'
    <3>1. \A v \in Workers : Executing(v)' => Executing(v) /\ job'[v] = job[v]
      BY <2>27 DEF AckClaim, GoTo, Executing
    <3>2. UNCHANGED <<run, proc, drain, waits>>
      BY <2>27 DEF AckClaim
    <3>3. QED BY <3>1, <3>2, <2>g
  <2>28. ASSUME NEW w \in Workers, EndJob(w) PROVE AwaitedInv'
    <3>1. \A v \in Workers : Executing(v)' => v # w /\ Executing(v) /\ job'[v] = job[v]
      BY <2>28 DEF EndJob, Abandon, GoTo, NextClaim, Executing
    <3>2. UNCHANGED <<run, proc, drain>>
      BY <2>28 DEF EndJob
    <3>3. \A v \in Workers \ {w}, q \in Procs, s \in Runs :
             v \in waits[q][s] => v \in waits'[q][s]
      BY <2>28 DEF EndJob
    <3>4. QED BY <3>1, <3>2, <3>3, <2>g
  <2>29. ASSUME NEW p \in Procs, FinishBoot(p) PROVE AwaitedInv'
    <3>1. \A v \in Workers : Executing(v)' => Executing(v)
      BY <2>29 DEF FinishBoot, Executing
    <3>2. UNCHANGED <<run, job, drain, waits>> /\ proc' = [proc EXCEPT ![p] = "up"]
      BY <2>29 DEF FinishBoot
    <3>3. QED BY <3>1, <3>2 DEF AwaitedInv, ScanTypeOK
  <2>30. ASSUME NEW p \in Procs, Tick(p) PROVE AwaitedInv'
    BY <2>0, <2>30 DEF Tick
  <2>31. ASSUME NEW p \in Procs, FinishFullScan(p) PROVE AwaitedInv'
    BY <2>0, <2>31 DEF FinishFullScan
  <2>32. ASSUME NEW p \in Procs, NEW old \in SUBSET Runs, ScanStale(p, old)
      PROVE AwaitedInv'
    BY <2>0, <2>32 DEF ScanStale
  <2>33. ASSUME NEW p \in Procs, FinishTick(p) PROVE AwaitedInv'
    BY <2>0, <2>33 DEF FinishTick
  <2>34. ASSUME NEW p \in Procs, EnqueueRequeued(p) PROVE AwaitedInv'
    BY <2>0, <2>34 DEF EnqueueRequeued
  <2>35. ASSUME NEW p \in Procs, NEW r \in Runs, LoadPendingReconcile(p, r)
      PROVE AwaitedInv'
    BY <2>0, <2>35 DEF LoadPendingReconcile
  <2>36. ASSUME NEW p \in Procs, NEW r \in Runs, SkipInFlight(p, r) PROVE
      AwaitedInv'
    BY <2>0, <2>36 DEF SkipInFlight
  <2>37. ASSUME NEW p \in Procs, NEW r \in Runs, RequeueDisconnectedRun(p, r)
      PROVE AwaitedInv'
    <3>1. \A s \in Runs : run'[s] \in Terminal => run[s] = run'[s]
      BY <2>37 DEF RequeueDisconnectedRun, ApplyRunStateTransition, SetRun,
         Terminal, TypeInv, TypeOK, StoreTypeOK
    <3>2. UNCHANGED <<proc, pc, job, drain, waits>>
      BY <2>37 DEF RequeueDisconnectedRun
    <3>3. QED BY <3>1, <3>2, <2>g DEF Executing
  <2>38. ASSUME NEW p \in Procs, NEW r \in Runs, CancelUnavailableOrigin(p, r)
      PROVE AwaitedInv'
    <3>1. run' = run \/ run' = [run EXCEPT ![r] = "cancelled"]
      BY <2>38 DEF CancelUnavailableOrigin, CancelInStore,
         ApplyRunTerminalTransition, SetRun
    <3>2. \A s \in Runs : run'[s] = run[s] \/ (s = r /\ run'[s] = "cancelled")
      BY <3>1, OneRunWritten DEF TypeInv, TypeOK, StoreTypeOK
    <3>3. QED BY <2>38, <3>2, <2>c DEF CancelUnavailableOrigin
  <2>39. ASSUME NEW p \in Procs, NEW r \in Runs, FailRequeue(p, r) PROVE
      AwaitedInv'
    BY <2>0, <2>39 DEF FailRequeue
  <2>40. ASSUME NEW p \in Procs, Boot(p) PROVE AwaitedInv'
    <3>1. UNCHANGED <<run, pc, job, drain, waits>>
      BY <2>40 DEF Boot
    <3>2. proc' = [proc EXCEPT ![p] = "booting"]
      BY <2>40 DEF Boot
    <3>3. QED BY <3>1, <3>2 DEF AwaitedInv, Executing, ScanTypeOK
  <2>41. ASSUME NEW p \in Procs, Shutdown(p) PROVE AwaitedInv'
    BY <2>41 DEF Shutdown, TypeInv, TypeOK, CallTypeOK
  <2>42. ASSUME NEW p \in Procs, Exit(p) PROVE AwaitedInv'
    BY <2>42 DEF Exit, AwaitedInv
  <2>43. ASSUME NEW p \in Procs, Crash(p) PROVE AwaitedInv'
    BY <2>43 DEF Crash, TypeInv, TypeOK, CallTypeOK
  <2>s. CASE UNCHANGED vars
    BY <2>0, <2>s DEF vars
  <2>q. QED
    BY <2>s, <2>1, <2>2, <2>3, <2>4, <2>5, <2>6, <2>7, <2>8, <2>9, <2>10,
       <2>11, <2>12, <2>13, <2>14, <2>15, <2>16, <2>17, <2>18, <2>19, <2>20,
       <2>21, <2>22, <2>23, <2>24, <2>25, <2>26, <2>27, <2>28, <2>29, <2>30,
       <2>31, <2>32, <2>33, <2>34, <2>35, <2>36, <2>37, <2>38, <2>39, <2>40,
       <2>41, <2>42, <2>43 DEF Next, ApiStep, QueueStep, WorkerStep, ScanStep,
       ProcStep
<1>3. QED
  BY <1>1, <1>2, TypeInvariance, ClaimsExclusive, StartsAtomic, PTL DEF Spec

(* The executor of the run is about to park it behind the approval it      *)
(* asked for.                                                              *)
Parking(w, r) ==
    pc[w] = "settling" /\ result[w] = "awaiting_approval" /\ job[w] = r

(* Somebody will settle the pending approvals of the run: the operator,    *)
(* its executor, or a cancellation.                                        *)
Owned(r) ==
    \/ run[r] = "awaiting_approval"
    \/ \E w \in Workers : Parking(w, r)
    \/ run[r] = "cancelled" /\ \E p \in Procs : drain[p][r] # "none"

(* Pending approvals are owned, and a run that goes on waits for one only. *)
PendingInv ==
    /\ \A r \in Runs : PendingOf(r) # {} => Owned(r)
    /\ \A r \in Runs : run[r] \notin Terminal => \A a, b \in PendingOf(r) : a = b
    /\ \A w \in Workers : pc[w] = "pausing" => result[w] = "awaiting_approval"

(* In one process in which no call fails and nothing stops, a run that has *)
(* ended has a pending approval only while its cancellation is under way:  *)
(* what the executor persists late (persistPendingApprovals) is settled by *)
(* cleanupCancelledRunAfterDrain, because the cancellation waits for that  *)
(* executor.  The other ends of a run leave none: the only approval of a   *)
(* run that goes on is the one its own executor parks it behind.           *)
THEOREM PendingApprovalsSettled ==
  ASSUME LapseLive = FALSE, OneProcess, "gated" \notin StartModes,
         MaxFaults = 0, MaxStops = 0
  PROVE  Spec => []NoAbandonedApproval
<1> USE DEF store, taskVars, apprVars, workerVars, scanVars, startVars,
    drainVars, bounds
<1>1. Init => PendingInv
  BY DEF Init, PendingInv, PendingOf
<1>2. TypeInv /\ SoleClaim /\ NoStaleStart /\ KnownInv /\ ExecutingRunGoesOn /\
    AwaitedInv /\ PendingInv /\ [Next]_vars => PendingInv'
  <2> SUFFICES ASSUME TypeInv, SoleClaim, NoStaleStart, KnownInv,
      ExecutingRunGoesOn, AwaitedInv, PendingInv, [Next]_vars PROVE PendingInv'
    OBVIOUS
  <2>0. ASSUME UNCHANGED <<run, apprRun, apprStatus, pc, job, result, drain>>
      PROVE PendingInv'
    BY <2>0 DEF PendingInv, Owned, Parking, PendingOf
  <2>n. ~Fault
    BY DEF Fault, TypeInv, TypeOK, CallTypeOK
  <2>p. ASSUME UNCHANGED result,
               \A v \in Workers : pc'[v] = "pausing" => pc[v] = "pausing"
        PROVE  \A v \in Workers : pc'[v] = "pausing" =>
                  result'[v] = "awaiting_approval"
    BY <2>p DEF PendingInv
  <2>e. ASSUME \A v \in Workers : pc'[v] = "pausing" =>
                  result'[v] = "awaiting_approval",
               \A s \in Runs : PendingOf(s)' \subseteq PendingOf(s),
               \A s \in Runs : PendingOf(s)' # {} =>
                  run'[s] = run[s] \/ run[s] \in {"none", "queued", "running"},
               \A s \in Runs, v \in Workers : Parking(v, s) => Parking(v, s)',
               \A s \in Runs, p \in Procs :
                  PendingOf(s)' # {} /\ run[s] = "cancelled" /\ drain[p][s] # "none"
                    => drain'[p][s] # "none"
        PROVE  PendingInv'
    <3> SUFFICES ASSUME NEW s \in Runs, PendingOf(s)' # {}
                 PROVE  /\ Owned(s)'
                        /\ run'[s] \notin Terminal =>
                              \A a, b \in PendingOf(s)' : a = b
      BY <2>e DEF PendingInv
    <3>1. Owned(s)
      BY <2>e DEF PendingInv
    <3>2. Owned(s)'
      <4>1. CASE \E v \in Workers : Parking(v, s)
        BY <2>e, <4>1 DEF Owned
      <4>2. CASE run[s] \in {"awaiting_approval", "cancelled"}
        <5>1. run'[s] = run[s]
          BY <2>e, <4>2
        <5>2. QED BY <2>e, <3>1, <4>2, <5>1 DEF Owned
      <4>3. QED BY <3>1, <4>1, <4>2 DEF Owned
    <3>3. run'[s] \notin Terminal => run[s] \notin Terminal
      BY <2>e DEF Terminal
    <3>4. QED BY <2>e, <3>2, <3>3 DEF PendingInv
  <2>w. ASSUME UNCHANGED <<apprRun, apprStatus, result, drain>>,
               \A v \in Workers : pc'[v] = "pausing" => pc[v] = "pausing",
               \A v \in Workers : pc[v] = "settling" =>
                  pc'[v] = pc[v] /\ job'[v] = job[v],
               \A s \in Runs : \/ run'[s] = run[s]
                              \/ run[s] \in {"none", "queued", "running"}
        PROVE  PendingInv'
    <3>1. \A s \in Runs : PendingOf(s)' = PendingOf(s)
      BY <2>w DEF PendingOf
    <3>2. \A s \in Runs, v \in Workers : Parking(v, s) => Parking(v, s)'
      BY <2>w DEF Parking
    <3>3. QED BY <2>w, <3>1, <3>2, <2>p, <2>e
  <2>c. ASSUME NEW r \in Runs, CancelInStore(r), UNCHANGED <<job, result>>,
               \A v \in Workers : pc[v] = "settling" => pc'[v] = pc[v],
               \A v \in Workers : pc'[v] = "pausing" => pc[v] = "pausing",
               \A s \in Runs, p \in Procs : drain[p][s] # "none" =>
                  drain'[p][s] # "none" \/ (s = r /\ run[r] = "cancelled")
        PROVE  PendingInv'
    <3>1. run' = run \/ run' = [run EXCEPT ![r] = "cancelled"]
      BY <2>c DEF CancelInStore, ApplyRunTerminalTransition, SetRun
    <3>2. \A s \in Runs \ {r} : run'[s] = run[s]
      BY <3>1 DEF TypeInv, TypeOK, StoreTypeOK
    <3>3. \A s \in Runs : PendingOf(s)' \subseteq PendingOf(s)
      BY <2>c DEF CancelInStore, CancelPendingApprovals, PendingOf
    <3>4. PendingOf(r)' # {} => run[r] \in Terminal \ {"cancelled"} /\ run' = run
      BY <2>c DEF CancelInStore, CancelPendingApprovals, PendingOf,
         ApplyRunTerminalTransition
    <3>5. \A s \in Runs, v \in Workers : Parking(v, s) => Parking(v, s)'
      BY <2>c DEF Parking
    <3>6. \A s \in Runs : PendingOf(s)' # {} => run'[s] = run[s]
      BY <3>2, <3>4
    <3>7. QED BY <2>c, <3>3, <3>4, <3>5, <3>6, <2>p, <2>e
  <2>1. ASSUME NEW p \in Procs, NEW r \in Runs, StartUngated(p, r) PROVE
      PendingInv'
    <3>1. \A s \in Runs : run'[s] = run[s] \/ run[s] \in {"none", "queued", "running"}
      BY <2>1 DEF StartUngated, SetRun, Admissible
    <3>2. UNCHANGED <<apprRun, apprStatus, pc, job, result, drain>>
      BY <2>1 DEF StartUngated
    <3>3. QED BY <3>1, <3>2, <2>w
  <2>2. ASSUME NEW p \in Procs, NEW r \in Runs, NEW a \in Approvals,
      StartScheduledGated(p, r, a) PROVE PendingInv'
    <3>1. /\ run[r] = "none" /\ run' = [run EXCEPT ![r] = "awaiting_approval"]
          /\ apprStatus[a] = "unused"
          /\ apprRun' = [apprRun EXCEPT ![a] = r]
          /\ apprStatus' = [apprStatus EXCEPT ![a] = "pending"]
          /\ UNCHANGED <<pc, job, result, drain>>
      BY <2>2 DEF StartScheduledGated, Admissible, SetRun, CreateApproval
    <3>2. PendingOf(r) = {}
      BY <3>1 DEF PendingOf, KnownInv, KnownInStore, Known
    <3>3. /\ PendingOf(r)' = {a}
          /\ \A s \in Runs \ {r} : PendingOf(s)' = PendingOf(s) /\ run'[s] = run[s]
      BY <3>1, <3>2 DEF PendingOf, TypeInv, TypeOK, StoreTypeOK
    <3>4. run'[r] = "awaiting_approval"
      BY <3>1 DEF TypeInv, TypeOK, StoreTypeOK
    <3>5. QED BY <3>1, <3>3, <3>4 DEF PendingInv, Owned, Parking
  <2>3. ASSUME NEW p \in Procs, NEW r \in Runs, StartGated(p, r) PROVE
      PendingInv'
    <3>1. \A s \in Runs : run'[s] = run[s] \/ run[s] \in {"none", "queued", "running"}
      BY <2>3 DEF StartGated, SetRun
    <3>2. UNCHANGED <<apprRun, apprStatus, pc, job, result, drain>>
      BY <2>3 DEF StartGated
    <3>3. QED BY <3>1, <3>2, <2>w
  <2>4. ASSUME NEW p \in Procs, NEW r \in Runs, CreateStartApproval(p, r) PROVE
      PendingInv'
    BY <2>4 DEF CreateStartApproval, NoStaleStart
  <2>5. ASSUME NEW p \in Procs, NEW r \in Runs, UpdateStartedRun(p, r) PROVE
      PendingInv'
    BY <2>5 DEF UpdateStartedRun, NoStaleStart
  <2>6. ASSUME NEW p \in Procs, NEW r \in Runs, EnqueueOwed(p, r) PROVE
      PendingInv'
    BY <2>0, <2>6 DEF EnqueueOwed
  <2>7. ASSUME NEW p \in Procs, NEW a \in Approvals, Approve(p, a) PROVE
      PendingInv'
    <3>1. /\ a \in PendingOf(apprRun[a]) /\ apprRun[a] \in Runs
          /\ run[apprRun[a]] = "awaiting_approval"
      BY <2>7 DEF Approve, ApplyRunStateTransition, PendingOf, TypeInv,
         TypeOK, StoreTypeOK
    <3>2. PendingOf(apprRun[a]) = {a}
      BY <3>1 DEF PendingInv, Terminal
    <3>3. /\ UNCHANGED <<pc, job, result, drain, apprRun>>
          /\ run' = [run EXCEPT ![apprRun[a]] = "queued"]
          /\ apprStatus' = [apprStatus EXCEPT ![a] = "approved"]
      BY <2>7 DEF Approve, ApplyRunStateTransition, SetRun
    <3>4. \A s \in Runs : PendingOf(s)' \subseteq PendingOf(s) \ {a}
      BY <3>3 DEF PendingOf, TypeInv, TypeOK, StoreTypeOK
    <3>5. \A s \in Runs \ {apprRun[a]} : run'[s] = run[s]
      BY <3>3
    <3>6. QED BY <3>2, <3>3, <3>4, <3>5, <2>p, <2>e DEF Parking
  <2>8. ASSUME NEW p \in Procs, NEW a \in Approvals, Reject(p, a) PROVE
      PendingInv'
    <3>1. apprRun[a] \in Runs
      BY <2>8 DEF Reject, TypeInv, TypeOK, StoreTypeOK
    <3>2. /\ UNCHANGED <<pc, job, result, apprRun>>
          /\ run' = run \/ run' = [run EXCEPT ![apprRun[a]] = "cancelled"]
          /\ drain' = [drain EXCEPT ![p][apprRun[a]] = "signal"]
      BY <2>8 DEF Reject, ApplyRunTerminalTransition, SetRun
    <3>3. /\ \A s \in Runs : PendingOf(s)' \subseteq PendingOf(s)
          /\ PendingOf(apprRun[a])' = {}
      BY <2>8 DEF Reject, PendingOf
    <3>4. \A s \in Runs \ {apprRun[a]} : run'[s] = run[s]
      BY <3>2 DEF TypeInv, TypeOK, StoreTypeOK
    <3>5. \A s \in Runs, q \in Procs : drain[q][s] # "none" => drain'[q][s] # "none"
      BY <3>2
    <3>6. QED BY <3>2, <3>3, <3>4, <3>5, <2>p, <2>e DEF Parking
  <2>9. ASSUME NEW p \in Procs, NEW r \in Runs, CancelRun(p, r) PROVE
      PendingInv'
    <3>1. /\ UNCHANGED <<pc, job, result>>
          /\ drain' = [drain EXCEPT ![p][r] = "signal"]
      BY <2>9 DEF CancelRun
    <3>2. \A s \in Runs, q \in Procs : drain[q][s] # "none" => drain'[q][s] # "none"
      BY <3>1
    <3>3. CASE run[r] \in Terminal
      <4>1. UNCHANGED <<run, apprRun, apprStatus>>
        BY <2>9, <3>3 DEF CancelRun
      <4>2. QED BY <3>1, <3>2, <4>1, <2>p, <2>e DEF PendingOf, Parking
    <3>4. CASE run[r] \notin Terminal
      <4>1. CancelInStore(r)
        BY <2>9, <3>4 DEF CancelRun
      <4>2. QED BY <3>1, <3>2, <4>1, <2>c
    <3>5. QED BY <3>3, <3>4
  <2>10. ASSUME NEW p \in Procs, NEW r \in Runs, SignalJobs(p, r) PROVE
      PendingInv'
    <3>1. /\ UNCHANGED <<run, apprRun, apprStatus, pc, job, result>>
          /\ drain' = [drain EXCEPT ![p][r] = "wait"]
      BY <2>10 DEF SignalJobs
    <3>2. \A s \in Runs, q \in Procs : drain[q][s] # "none" => drain'[q][s] # "none"
      BY <3>1
    <3>3. QED BY <3>1, <3>2, <2>p, <2>e DEF PendingOf, Parking
  <2>11. ASSUME NEW p \in Procs, NEW r \in Runs, FinishCancel(p, r) PROVE
      PendingInv'
    <3>1. /\ UNCHANGED <<pc, job, result>>
          /\ drain' = [drain EXCEPT ![p][r] = "none"]
      BY <2>11 DEF FinishCancel
    <3>2. \A s \in Runs \ {r}, q \in Procs : drain'[q][s] = drain[q][s]
      BY <3>1
    <3>3. CASE run[r] = "cancelled"
      BY <2>11, <3>1, <3>2, <3>3, <2>c DEF FinishCancel
    <3>4. CASE run[r] # "cancelled"
      <4>1. UNCHANGED <<run, apprRun, apprStatus>>
        BY <2>11, <3>4 DEF FinishCancel
      <4>2. QED BY <3>1, <3>2, <3>4, <4>1, <2>p, <2>e DEF PendingOf, Parking
    <3>5. QED BY <3>3, <3>4
  <2>12. ASSUME NEW p \in Procs, NEW r \in Runs, AbandonCancel(p, r) PROVE
      PendingInv'
    BY <2>n, <2>12 DEF AbandonCancel
  <2>13. ASSUME NEW r \in Runs, LeaseLapses(r) PROVE PendingInv'
    BY <2>0, <2>13 DEF LeaseLapses
  <2>14. ASSUME NEW w \in Workers, Heartbeat(w) PROVE PendingInv'
    BY <2>0, <2>14 DEF Heartbeat
  <2>15. ASSUME NEW w \in Workers, NEW r \in Runs, Claim(w, r) PROVE
      PendingInv'
    <3>1. \A v \in Workers : /\ pc[v] = "settling" => pc'[v] = pc[v] /\ job'[v] = job[v]
                             /\ pc'[v] = "pausing" => pc[v] = "pausing"
      BY <2>15 DEF Claim, GoTo
    <3>2. UNCHANGED <<run, apprRun, apprStatus, result, drain>>
      BY <2>15 DEF Claim
    <3>3. QED BY <3>1, <3>2, <2>w
  <2>16. ASSUME NEW w \in Workers, NEW r \in Runs, ClaimLost(w, r) PROVE
      PendingInv'
    BY <2>0, <2>16 DEF ClaimLost
  <2>17. ASSUME NEW w \in Workers, LoadClaimedRun(w) PROVE PendingInv'
    <3>1. \A v \in Workers : /\ pc[v] = "settling" => pc'[v] = pc[v] /\ job'[v] = job[v]
                             /\ pc'[v] = "pausing" => pc[v] = "pausing"
      BY <2>17 DEF LoadClaimedRun, GoTo, Abandon, NextClaim, TypeInv, TypeOK,
         WorkerTypeOK
    <3>2. UNCHANGED <<run, apprRun, apprStatus, result, drain>>
      BY <2>17 DEF LoadClaimedRun
    <3>3. QED BY <3>1, <3>2, <2>w
  <2>18. ASSUME NEW w \in Workers, DropClaim(w) PROVE PendingInv'
    <3>1. \A v \in Workers : /\ pc[v] = "settling" => pc'[v] = pc[v] /\ job'[v] = job[v]
                             /\ pc'[v] = "pausing" => pc[v] = "pausing"
      BY <2>18 DEF DropClaim, GoTo, NextClaim
    <3>2. UNCHANGED <<run, apprRun, apprStatus, result, drain>>
      BY <2>18 DEF DropClaim
    <3>3. QED BY <3>1, <3>2, <2>w
  <2>19. ASSUME NEW w \in Workers, BeginJob(w) PROVE PendingInv'
    <3>1. \A v \in Workers : /\ pc[v] = "settling" => pc'[v] = pc[v] /\ job'[v] = job[v]
                             /\ pc'[v] = "pausing" => pc[v] = "pausing"
      BY <2>19 DEF BeginJob, GoTo
    <3>2. UNCHANGED <<run, apprRun, apprStatus, result, drain>>
      BY <2>19 DEF BeginJob
    <3>3. QED BY <3>1, <3>2, <2>w
  <2>20. ASSUME NEW w \in Workers, StartClaimedRun(w) PROVE PendingInv'
    <3>1. \A v \in Workers : /\ pc[v] = "settling" => pc'[v] = pc[v] /\ job'[v] = job[v]
                             /\ pc'[v] = "pausing" => pc[v] = "pausing"
      BY <2>20 DEF StartClaimedRun, GoTo, TypeInv, TypeOK, WorkerTypeOK
    <3>2. UNCHANGED <<apprRun, apprStatus, result, drain>>
      BY <2>20 DEF StartClaimedRun
    <3>3. \A s \in Runs : run'[s] = run[s] \/ run[s] \in {"none", "queued", "running"}
      BY <2>20 DEF StartClaimedRun, ApplyRunStateTransition, SetRun, TypeInv,
         TypeOK, StoreTypeOK
    <3>4. QED BY <3>1, <3>2, <3>3, <2>w
  <2>21. ASSUME NEW w \in Workers, SettleUnavailableOrigin(w) PROVE PendingInv'
    <3>1. /\ UNCHANGED <<job, result, drain>> /\ job[w] \in Runs
          /\ \A v \in Workers : pc[v] = "settling" => pc'[v] = pc[v]
          /\ \A v \in Workers : pc'[v] = "pausing" => pc[v] = "pausing"
      BY <2>21 DEF SettleUnavailableOrigin, GoTo, TypeInv, TypeOK,
         WorkerTypeOK
    <3>2. CancelInStore(job[w])
      BY <2>21 DEF SettleUnavailableOrigin
    <3>3. QED BY <3>1, <3>2, <2>c
  <2>22. ASSUME NEW w \in Workers, FailClaimedStart(w) PROVE PendingInv'
    <3>1. \A v \in Workers : /\ pc[v] = "settling" => pc'[v] = pc[v] /\ job'[v] = job[v]
                             /\ pc'[v] = "pausing" => pc[v] = "pausing"
      BY <2>22 DEF FailClaimedStart, GoTo
    <3>2. UNCHANGED <<run, apprRun, apprStatus, result, drain>>
      BY <2>22 DEF FailClaimedStart
    <3>3. QED BY <3>1, <3>2, <2>w
  <2>23. ASSUME NEW w \in Workers, Execute(w) PROVE PendingInv'
    <3>1. UNCHANGED <<run, apprRun, apprStatus, job, drain>>
      BY <2>23 DEF Execute
    <3>2. \A v \in Workers : pc[v] = "settling" =>
             pc'[v] = pc[v] /\ result'[v] = result[v]
      BY <2>23 DEF Execute, GoTo
    <3>3. \A v \in Workers : pc'[v] = "pausing" => result'[v] = "awaiting_approval"
      BY <2>23 DEF Execute, GoTo, PendingInv, TypeInv, TypeOK, WorkerTypeOK
    <3>4. QED BY <3>1, <3>2, <3>3, <2>e DEF PendingOf, Parking
  <2>24. ASSUME NEW w \in Workers, PersistPendingApproval(w) PROVE PendingInv'
    <3>0. PICK r \in Runs : r = job[w]
      BY <2>24 DEF PersistPendingApproval, TypeInv, TypeOK, WorkerTypeOK
    <3>1. PICK a \in Approvals : CreateApproval(a, r)
      BY <2>n, <2>24, <3>0 DEF PersistPendingApproval
    <3>2. /\ pc[w] = "pausing" /\ pc' = [pc EXCEPT ![w] = "settling"]
          /\ UNCHANGED <<run, job, result, drain>>
      BY <2>n, <2>24 DEF PersistPendingApproval, GoTo
    <3>3. Executing(w) /\ Claimed(w)
      BY <3>2 DEF Executing, Claimed
    <3>4. ~\E v \in Workers : Parking(v, r)
      BY <3>0, <3>2, <3>3 DEF Parking, Claimed, SoleClaim
    <3>5. run[r] \notin Terminal => PendingOf(r) = {}
      BY <3>0, <3>3, <3>4 DEF PendingInv, Owned, ExecutingRunGoesOn, Terminal
    <3>6. /\ PendingOf(r)' \subseteq PendingOf(r) \cup {a}
          /\ \A s \in Runs \ {r} : PendingOf(s)' \subseteq PendingOf(s)
      <4>1. /\ apprRun' = [apprRun EXCEPT ![a] = r]
            /\ \A b \in Approvals \ {a} : apprStatus'[b] = apprStatus[b]
        BY <3>1 DEF CreateApproval
      <4>2. /\ apprRun'[a] = r
            /\ \A b \in Approvals \ {a} : apprRun'[b] = apprRun[b]
        BY <4>1 DEF TypeInv, TypeOK, StoreTypeOK
      <4>3. QED BY <4>1, <4>2 DEF PendingOf
    <3>7. result[w] = "awaiting_approval"
      BY <3>2 DEF PendingInv
    <3>8. /\ \A v \in Workers \ {w} : pc'[v] = pc[v]
          /\ pc'[w] = "settling"
      BY <3>2 DEF TypeInv, TypeOK, WorkerTypeOK
    <3>9. QED
      BY <3>0, <3>2, <3>3, <3>5, <3>6, <3>7, <3>8 DEF PendingInv, Owned,
         Parking
  <2>25. ASSUME NEW w \in Workers, ApplyFinalResult(w) PROVE PendingInv'
    <3>0. PICK r \in Runs : r = job[w]
      BY <2>25 DEF ApplyFinalResult, TypeInv, TypeOK, WorkerTypeOK
    <3>1. /\ pc[w] = "settling" /\ ApplyRunTerminalTransition(r, result[w])
          /\ pc' = [pc EXCEPT ![w] = "acking"]
          /\ result' = [result EXCEPT ![w] = "none"]
          /\ UNCHANGED <<apprRun, apprStatus, job, drain>>
      BY <2>n, <2>25, <3>0 DEF ApplyFinalResult, GoTo
    <3>2. Executing(w) /\ Claimed(w)
      BY <3>1 DEF Executing, Claimed
    <3>3. \A s \in Runs : PendingOf(s)' = PendingOf(s)
      BY <3>1 DEF PendingOf
    <3>4. run' = run \/ run' = [run EXCEPT ![r] = result[w]]
      BY <3>1 DEF ApplyRunTerminalTransition, SetRun
    <3>5. \A s \in Runs \ {r} : run'[s] = run[s]
      BY <3>4 DEF TypeInv, TypeOK, StoreTypeOK
    <3>6. \A v \in Workers, s \in Runs \ {r} : Parking(v, s) => Parking(v, s)'
      BY <3>0, <3>1 DEF Parking
    <3>7. \A v \in Workers : Parking(v, r) => result[w] = "awaiting_approval"
      BY <3>0, <3>2 DEF Parking, Claimed, SoleClaim
    <3>8. run[r] \in Terminal => run' = run /\ Owned(r)'
      <4>1. run[r] \in Terminal => run' = run /\ run[r] = "cancelled"
                                    /\ drain[Home[w]][r] # "none"
        BY <3>0, <3>1, <3>2 DEF AwaitedInv, ApplyRunTerminalTransition
      <4>2. QED BY <3>1, <4>1 DEF Owned
    <3>9. run[r] \notin Terminal => run'[r] = result[w]
      BY <3>1 DEF ApplyRunTerminalTransition, SetRun, TypeInv, TypeOK,
         StoreTypeOK
    <3>10. PendingOf(r) # {} => Owned(r)'
      <4>1. CASE run[r] \in Terminal
        BY <3>8, <4>1
      <4>2. CASE run[r] \notin Terminal /\ PendingOf(r) # {}
        <5>1. result[w] = "awaiting_approval"
          <6>1. Owned(r) /\ run[r] \notin {"awaiting_approval", "cancelled"}
            BY <3>0, <3>2, <4>2 DEF PendingInv, ExecutingRunGoesOn, Terminal
          <6>2. QED BY <3>7, <6>1 DEF Owned
        <5>2. QED BY <3>9, <4>2, <5>1 DEF Owned
      <4>3. QED BY <4>1, <4>2
    <3>11. \A s \in Runs \ {r} : Owned(s) => Owned(s)'
      BY <3>1, <3>5, <3>6 DEF Owned
    <3>12. \A s \in Runs : run'[s] \notin Terminal => run[s] \notin Terminal
      BY <3>5, <3>8
    <3>13. \A v \in Workers : pc'[v] = "pausing" => result'[v] = "awaiting_approval"
      BY <3>1 DEF PendingInv
    <3>14. QED BY <3>3, <3>10, <3>11, <3>12, <3>13 DEF PendingInv
  <2>26. ASSUME NEW w \in Workers, FinalizeFailedRun(w) PROVE PendingInv'
    <3>1. \A v \in Workers : /\ pc[v] = "settling" => pc'[v] = pc[v] /\ job'[v] = job[v]
                             /\ pc'[v] = "pausing" => pc[v] = "pausing"
      BY <2>26 DEF FinalizeFailedRun, GoTo
    <3>2. UNCHANGED <<apprRun, apprStatus, result, drain>>
      BY <2>26 DEF FinalizeFailedRun
    <3>3. \A s \in Runs : run'[s] = run[s] \/ run[s] \in {"none", "queued", "running"}
      <4>1. run[job[w]] \in Status \ {"none", "awaiting_approval"}
        BY <2>26 DEF FinalizeFailedRun, ExecutingRunGoesOn, Executing,
           TypeInv, TypeOK, StoreTypeOK, WorkerTypeOK
      <4>2. run[job[w]] \notin Terminal => run[job[w]] \in {"queued", "running"}
        BY <4>1 DEF Status, Active, Terminal
      <4>3. \/ run' = run
            \/ run[job[w]] \notin Terminal /\ \E k : run' = [run EXCEPT ![job[w]] = k]
        BY <2>26 DEF FinalizeFailedRun, ApplyRunTerminalTransition, SetRun
      <4>4. QED BY <4>2, <4>3 DEF TypeInv, TypeOK, StoreTypeOK
    <3>4. QED BY <3>1, <3>2, <3>3, <2>w
  <2>27. ASSUME NEW w \in Workers, AckClaim(w) PROVE PendingInv'
    <3>1. \A v \in Workers : /\ pc[v] = "settling" => pc'[v] = pc[v] /\ job'[v] = job[v]
                             /\ pc'[v] = "pausing" => pc[v] = "pausing"
      BY <2>27 DEF AckClaim, GoTo
    <3>2. UNCHANGED <<run, apprRun, apprStatus, result, drain>>
      BY <2>27 DEF AckClaim
    <3>3. QED BY <3>1, <3>2, <2>w
  <2>28. ASSUME NEW w \in Workers, EndJob(w) PROVE PendingInv'
    <3>1. \A v \in Workers : /\ pc[v] = "settling" => pc'[v] = pc[v] /\ job'[v] = job[v]
                             /\ pc'[v] = "pausing" => pc[v] = "pausing"
      BY <2>28 DEF EndJob, Abandon, GoTo, NextClaim
    <3>2. UNCHANGED <<run, apprRun, apprStatus, result, drain>>
      BY <2>28 DEF EndJob
    <3>3. QED BY <3>1, <3>2, <2>w
  <2>29. ASSUME NEW p \in Procs, FinishBoot(p) PROVE PendingInv'
    <3>1. \A v \in Workers : /\ pc[v] = "settling" => pc'[v] = pc[v] /\ job'[v] = job[v]
                             /\ pc'[v] = "pausing" => pc[v] = "pausing"
      BY <2>29 DEF FinishBoot, WorkersOff, TypeInv, TypeOK, WorkerTypeOK
    <3>2. UNCHANGED <<run, apprRun, apprStatus, result, drain>>
      BY <2>29 DEF FinishBoot
    <3>3. QED BY <3>1, <3>2, <2>w
  <2>30. ASSUME NEW p \in Procs, Tick(p) PROVE PendingInv'
    BY <2>0, <2>30 DEF Tick
  <2>31. ASSUME NEW p \in Procs, FinishFullScan(p) PROVE PendingInv'
    BY <2>0, <2>31 DEF FinishFullScan
  <2>32. ASSUME NEW p \in Procs, NEW old \in SUBSET Runs, ScanStale(p, old)
      PROVE PendingInv'
    BY <2>0, <2>32 DEF ScanStale
  <2>33. ASSUME NEW p \in Procs, FinishTick(p) PROVE PendingInv'
    BY <2>0, <2>33 DEF FinishTick
  <2>34. ASSUME NEW p \in Procs, EnqueueRequeued(p) PROVE PendingInv'
    BY <2>0, <2>34 DEF EnqueueRequeued
  <2>35. ASSUME NEW p \in Procs, NEW r \in Runs, LoadPendingReconcile(p, r)
      PROVE PendingInv'
    BY <2>0, <2>35 DEF LoadPendingReconcile
  <2>36. ASSUME NEW p \in Procs, NEW r \in Runs, SkipInFlight(p, r) PROVE
      PendingInv'
    BY <2>0, <2>36 DEF SkipInFlight
  <2>37. ASSUME NEW p \in Procs, NEW r \in Runs, RequeueDisconnectedRun(p, r)
      PROVE PendingInv'
    <3>1. \A s \in Runs : run'[s] = run[s] \/ run[s] \in {"none", "queued", "running"}
      BY <2>37 DEF RequeueDisconnectedRun, ScanReaches,
         ApplyRunStateTransition, SetRun, TypeInv, TypeOK, StoreTypeOK,
         ScanTypeOK
    <3>2. UNCHANGED <<apprRun, apprStatus, pc, job, result, drain>>
      BY <2>37 DEF RequeueDisconnectedRun
    <3>3. QED BY <3>1, <3>2, <2>w
  <2>38. ASSUME NEW p \in Procs, NEW r \in Runs, CancelUnavailableOrigin(p, r)
      PROVE PendingInv'
    <3>1. /\ CancelInStore(r) /\ UNCHANGED <<pc, job, result>>
          /\ drain' = [drain EXCEPT ![p][r] = "signal"]
      BY <2>38 DEF CancelUnavailableOrigin
    <3>2. \A s \in Runs, q \in Procs : drain[q][s] # "none" => drain'[q][s] # "none"
      BY <3>1
    <3>3. QED BY <3>1, <3>2, <2>c
  <2>39. ASSUME NEW p \in Procs, NEW r \in Runs, FailRequeue(p, r) PROVE
      PendingInv'
    BY <2>0, <2>39 DEF FailRequeue
  <2>40. ASSUME NEW p \in Procs, Boot(p) PROVE PendingInv'
    BY <2>0, <2>40 DEF Boot
  <2>41. ASSUME NEW p \in Procs, Shutdown(p) PROVE PendingInv'
    BY <2>41 DEF Shutdown, TypeInv, TypeOK, CallTypeOK
  <2>42. ASSUME NEW p \in Procs, Exit(p) PROVE PendingInv'
    BY <2>42 DEF Exit, AwaitedInv
  <2>43. ASSUME NEW p \in Procs, Crash(p) PROVE PendingInv'
    BY <2>43 DEF Crash, TypeInv, TypeOK, CallTypeOK
  <2>s. CASE UNCHANGED vars
    BY <2>0, <2>s DEF vars
  <2>q. QED
    BY <2>s, <2>1, <2>2, <2>3, <2>4, <2>5, <2>6, <2>7, <2>8, <2>9, <2>10,
       <2>11, <2>12, <2>13, <2>14, <2>15, <2>16, <2>17, <2>18, <2>19, <2>20,
       <2>21, <2>22, <2>23, <2>24, <2>25, <2>26, <2>27, <2>28, <2>29, <2>30,
       <2>31, <2>32, <2>33, <2>34, <2>35, <2>36, <2>37, <2>38, <2>39, <2>40,
       <2>41, <2>42, <2>43 DEF Next, ApiStep, QueueStep, WorkerStep, ScanStep,
       ProcStep
<1>3. TypeInv /\ AwaitedInv /\ PendingInv => NoAbandonedApproval
  <2> SUFFICES ASSUME TypeInv, AwaitedInv, PendingInv, NEW r \in Runs,
                      run[r] \in Terminal, PendingOf(r) # {}
               PROVE  \E p \in Procs : drain[p][r] # "none"
    BY DEF NoAbandonedApproval
  <2>1. ASSUME NEW w \in Workers, Parking(w, r)
        PROVE  Home[w] \in Procs /\ drain[Home[w]][r] # "none"
    BY <2>1 DEF Parking, Executing, AwaitedInv
  <2>2. Owned(r) /\ run[r] # "awaiting_approval"
    BY DEF PendingInv, Terminal
  <2>3. QED BY <2>1, <2>2 DEF Owned
<1>4. QED
  BY <1>1, <1>2, <1>3, TypeInvariance, ClaimsExclusive, StartsAtomic,
     KnownRuns, ExecutorsGoOn, CancelledExecutorsAwaited, PTL DEF Spec

=============================================================================
