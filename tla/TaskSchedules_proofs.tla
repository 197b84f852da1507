------------------------ MODULE TaskSchedules_proofs ------------------------
(***************************************************************************)
(* Safety of task schedules for any number of replicas, schedules, runs,   *)
(* edits, crashes and faults, and, where it says so, for replicas whose    *)
(* clocks agree.                                                           *)
(***************************************************************************)
EXTENDS TaskSchedules, FiniteSetTheorems, TLAPS

(* No claim of k can succeed: its schedule is gone, ids are not used       *)
(* again, or its row exists.                                               *)
Spent(k) ==
    /\ k[1] <= created
    /\ schedule # NoSchedule /\ schedule.id = k[1] => status[k] # "none"

(* Occurrence rows go with their schedule, whose id is one of those handed *)
(* out.                                                                    *)
RowsOfSchedule ==
    /\ schedule # NoSchedule => schedule.id <= created /\ schedule.rev > 0
    /\ schedule # NoSchedule /\ schedule.enabled => schedule.next > 0
    /\ \A k \in Keys :
         status[k] # "none" => schedule # NoSchedule /\ schedule.id = k[1]

(* An edit that is to be written has a row, armed if it is enabled. *)
EditPrepared ==
    edit.pc = "swap" => /\ edit.s \in ScheduleRows
                        /\ edit.s.enabled => edit.s.next > 0

(* A stale claim was made once, and so was what has a run. *)
SpentHistory ==
    /\ \A k \in aged : Spent(k)
    /\ \A i \in RunIds : occOf[i] # NoKey => Spent(occOf[i])

(* Run ids are handed out once. *)
FreshIds ==
    \A i \in RunIds :
      i > issued => run[i] = "none" /\ occOf[i] = NoKey /\ dir[i] = "none"

(* The state m of the manager of replica r: its clock reading is past; it  *)
(* has an occurrence in hand exactly while it works on one; every          *)
(* occurrence it knows of is spent; one that it believes to be started is, *)
(* unless it was deleted since; and until its admission its candidate is   *)
(* no run and keeps its directory.                                         *)
ManagerOK(r, m) ==
    /\ m \in ManagerStates
    /\ m.now <= Now(r)
    /\ m.pc = "due" => m.due \in ScheduleRows /\ m.due.next <= m.now
    /\ m.key # NoKey <=> m.pc \in Dispatching \cup {"reclaim"}
    /\ m.key # NoKey => Spent(m.key)
    /\ \A k \in m.list : Spent(k)
    /\ m.linked # 0 \/ m.outcome = "started" =>
          m.key # NoKey /\ status[m.key] \in {"none", "started"}
    /\ m.cand <= issued
    /\ m.published \/ m.pc \in {"admit", "cleanup"} => m.cand > 0
    /\ m.pc = "admit" => run[m.cand] = "none" /\ dir[m.cand] # "removed"

ManagersOK == \A r \in Replicas : ManagerOK(r, mgr[r])

(* The clocks stay within the bound. *)
ClocksBounded == \A r \in Replicas : Now(r) <= MaxTime

(* A candidate belongs to one manager. *)
CandidatesDistinct ==
    \A q, r \in Replicas : mgr[q].cand = mgr[r].cand /\ mgr[r].cand > 0 => q = r

(* The ledger, without counting. *)
Ledger ==
    \A k \in Keys :
        /\ \A i, j \in RunsFor(k) : i = j
        /\ status[k] = "started" => runOf[k] \in RunsFor(k)
        /\ status[k] \in {"claimed", "skipped", "failed"} => RunsFor(k) = {}

(* The inductive invariant. *)
ScheduleInv ==
    /\ TypeOK
    /\ RowsOfSchedule
    /\ EditPrepared
    /\ SpentHistory
    /\ FreshIds
    /\ ClocksBounded
    /\ ManagersOK
    /\ CandidatesDistinct
    /\ Ledger
    /\ RunKeepsWorkspace

(* The clocks of the replicas do not differ by a cron period. *)
ClocksAgree == \A q, r \in Replicas : Ahead[q] = Ahead[r]

Consumed(k) == status[k] # "none"

(* Consumed times are past, and neither the schedule nor an edit that can  *)
(* still be written is armed for one.                                      *)
PastIsConsumed ==
    /\ \A k \in Keys : Consumed(k) => \A r \in Replicas : k[2] <= Now(r)
    /\ schedule # NoSchedule /\ schedule.enabled =>
          \A k \in Keys : Consumed(k) => k[2] < schedule.next
    /\ edit.pc = "swap" =>
          /\ schedule # NoSchedule => edit.expected <= schedule.rev
          /\ (/\ schedule # NoSchedule /\ edit.expected = schedule.rev
              /\ edit.s.enabled) =>
                \A k \in Keys : Consumed(k) => k[2] < edit.s.next

-----------------------------------------------------------------------------
(* Occurrence keys are pairs; the key of nobody is none of them. *)
LEMMA KeyFacts ==
    /\ NoKey \notin Keys
    /\ \A k \in Keys : k[1] \in 1..MaxSchedules /\ k[2] \in 1..(MaxTime + 1)
    /\ \A j, k \in Keys : j[1] = k[1] /\ j[2] = k[2] => j = k
BY ScheduleBoundsAssumption DEF Keys, NoKey

(* Types that are used one at a time. *)
LEMMA StepTypes ==
    ASSUME TypeOK
    PROVE  /\ mgr \in [Replicas -> ManagerStates]
           /\ cancelled \subseteq Replicas /\ faults \in Nat
           /\ issued \in 0..MaxRuns /\ clock \in 0..MaxTime
BY DEF TypeOK

(* The steps of a manager's pass. *)
ManagerSteps == {"idle", "recover", "reclaim", "due"} \cup Dispatching

(* A manager's state stays one when what it has in hand changes. *)
LEMMA FinishedState ==
    ASSUME NEW m \in ManagerStates, NEW pc \in ManagerSteps, NEW i \in 0..MaxRuns
    PROVE  [m EXCEPT !.pc = pc, !.key = NoKey, !.cand = i, !.published = FALSE,
                     !.err = "none", !.outcome = "failed", !.linked = i] \in ManagerStates
BY DEF ManagerStates, ManagerSteps, Settled

(* One that inspects a stale claim. *)
LEMMA InspectedState ==
    ASSUME NEW m \in ManagerStates, NEW k \in Keys, NEW i \in 0..MaxRuns
    PROVE  [m EXCEPT !.pc = "reclaim", !.key = k, !.linked = i] \in ManagerStates
BY DEF ManagerStates

(* One that has a candidate. *)
LEMMA ProvisionedState ==
    ASSUME NEW m \in ManagerStates, NEW i \in 0..MaxRuns
    PROVE  [m EXCEPT !.pc = "admit", !.cand = i, !.published = TRUE] \in ManagerStates
BY DEF ManagerStates, Dispatching

(* One that is to record an outcome. *)
LEMMA SettledState ==
    ASSUME NEW m \in ManagerStates, NEW out \in Settled, NEW i \in 0..MaxRuns
    PROVE  [m EXCEPT !.pc = "complete", !.outcome = out, !.linked = i] \in ManagerStates
BY DEF ManagerStates, Dispatching

(* The states of an idle manager, and of one that is done with a claim. *)
LEMMA IdleOK ==
    ASSUME TypeOK, NEW r \in Replicas
    PROVE  ManagerOK(r, Idle)
<1>1. Idle \in ManagerStates
  BY ScheduleBoundsAssumption DEF Idle, ManagerStates, Settled
<1>2. 0 <= Now(r)
  BY AheadAssumption, ScheduleBoundsAssumption DEF Now, TypeOK
<1> QED BY <1>1, <1>2 DEF ManagerOK, Idle, Dispatching, TypeOK

(* One that is done with a claim. *)
LEMMA FinishOK ==
    ASSUME NEW r \in Replicas, NEW m, ManagerOK(r, m), issued \in Nat
    PROVE  ManagerOK(r, Finish(m)) /\ Finish(m).cand = 0
<1>0. m \in ManagerStates
  BY DEF ManagerOK
<1>1. Finish(m) \in ManagerStates
  <2>1. PICK i \in 0..MaxRuns : i = 0
    BY ScheduleBoundsAssumption
  <2>2. PICK pc \in ManagerSteps : pc = IF m.phase = "recover" THEN "recover" ELSE "idle"
    BY DEF ManagerSteps
  <2>3. Finish(m) = [m EXCEPT !.pc = pc, !.key = NoKey, !.cand = i, !.published = FALSE,
                              !.err = "none", !.outcome = "failed", !.linked = i]
    BY <2>1, <2>2 DEF Finish
  <2>4. [m EXCEPT !.pc = pc, !.key = NoKey, !.cand = i, !.published = FALSE,
                  !.err = "none", !.outcome = "failed", !.linked = i] \in ManagerStates
    BY <1>0, FinishedState
  <2> QED BY <2>3, <2>4
<1> QED BY <1>1 DEF ManagerOK, Finish, Dispatching, ManagerStates

(* The end of a start, failed or not. *)
LEMMA FailOK ==
    ASSUME NEW r \in Replicas, NEW m, ManagerOK(r, m), m.pc \in Dispatching,
           NEW err \in {"ctx", "lost", "active", "failed"}
    PROVE  ManagerOK(r, Fail(m, err)) /\ Fail(m, err).cand = m.cand
<1>1. Fail(m, err) \in ManagerStates
  BY DEF Fail, ManagerOK, ManagerStates, Dispatching
<1> QED BY <1>1 DEF ManagerOK, Fail, Dispatching, ManagerStates

(* One whose start succeeded. *)
LEMMA SucceedOK ==
    ASSUME NEW r \in Replicas, NEW m, ManagerOK(r, m), m.pc \in Dispatching,
           status[m.key] \in {"none", "started"}
    PROVE  ManagerOK(r, Succeed(m)) /\ Succeed(m).cand = m.cand
<1>1. Succeed(m) \in ManagerStates
  BY DEF Succeed, ManagerOK, ManagerStates, Dispatching, Settled
<1> QED BY <1>1 DEF ManagerOK, Succeed, Dispatching, ManagerStates

(* A claim that moves to now leaves a manager's list. *)
LEMMA RefreshedOK ==
    ASSUME NEW r \in Replicas, NEW m, ManagerOK(r, m), NEW k
    PROVE  /\ ManagerOK(r, [m EXCEPT !.list = @ \ {k}])
           /\ [m EXCEPT !.list = @ \ {k}].cand = m.cand
<1> DEFINE n == [m EXCEPT !.list = @ \ {k}]
<1>1. n \in ManagerStates
  BY DEF ManagerOK, ManagerStates
<1> QED BY <1>1 DEF ManagerOK, ManagerStates

(* A manager that the rest of the system moves along with. *)
LEMMA ManagerStays ==
    ASSUME NEW r \in Replicas, NEW m, ManagerOK(r, m),
           clock' >= clock, clock \in Nat, clock' \in Nat,
           issued' >= issued, issued \in Nat, issued' \in Nat,
           \A k \in Keys : Spent(k) => Spent(k)',
           \A k \in Keys : Spent(k) /\ status[k] \in {"none", "started"} =>
                              status'[k] \in {"none", "started"},
           m.pc = "admit" => run'[m.cand] = "none" /\ dir'[m.cand] # "removed"
    PROVE  ManagerOK(r, m)'
<1>1. m.now <= Now(r)'
  BY AheadAssumption, ScheduleBoundsAssumption DEF ManagerOK, ManagerStates,
     Now
<1>2. m.cand <= issued'
  BY ScheduleBoundsAssumption DEF ManagerOK, ManagerStates
<1>3. m.key \in Keys \cup {NoKey} /\ m.list \subseteq Keys
  BY DEF ManagerOK, ManagerStates
<1> QED BY <1>1, <1>2, <1>3 DEF ManagerOK

-----------------------------------------------------------------------------
(* A step of one manager that only moves that manager. *)
LEMMA ManagerMoves ==
    ASSUME ScheduleInv, TypeOK', NEW r \in Replicas, NEW m, ManagerOK(r, m),
           m.cand \in {0, mgr[r].cand}, mgr' = [mgr EXCEPT ![r] = m],
           UNCHANGED <<clock, store, files, operator>>
    PROVE  ScheduleInv'
<1> USE DEF ScheduleInv, store, files, operator
<1>1. /\ RowsOfSchedule' /\ EditPrepared' /\ SpentHistory'
      /\ FreshIds' /\ ClocksBounded'
  BY DEF RowsOfSchedule, EditPrepared, SpentHistory, Spent, FreshIds,
     ClocksBounded, Now
<1>2. ManagersOK'
  <2>1. \A q \in Replicas : ManagerOK(q, mgr'[q])
    BY DEF ManagersOK, TypeOK
  <2> QED BY <2>1 DEF ManagersOK, ManagerOK, Spent, Now
<1>3. CandidatesDistinct'
  BY DEF CandidatesDistinct, TypeOK
<1>4. Ledger' /\ RunKeepsWorkspace'
  BY DEF Ledger, RunsFor, RunKeepsWorkspace
<1> QED BY <1>1, <1>2, <1>3, <1>4

(* Types of such a step. *)
LEMMA ManagerTypes ==
    ASSUME TypeOK, NEW r \in Replicas, NEW m \in ManagerStates,
           mgr' = [mgr EXCEPT ![r] = m],
           UNCHANGED <<clock, store, files, operator, stopping, stops, late>>,
           cancelled' \subseteq Replicas, faults' \in Nat
    PROVE  TypeOK'
BY DEF TypeOK, store, files, operator

(* A step of one manager, from its new state. *)
LEMMA ManagerStep ==
    ASSUME ScheduleInv, NEW r \in Replicas, NEW m, ManagerOK(r, m),
           m.cand \in {0, mgr[r].cand}, mgr' = [mgr EXCEPT ![r] = m],
           UNCHANGED <<clock, store, files, operator, stopping, stops, late>>,
           cancelled' \subseteq Replicas, faults' \in Nat
    PROVE  ScheduleInv'
<1>1. TypeOK'
  BY ManagerTypes DEF ScheduleInv, ManagerOK
<1> QED BY <1>1, ManagerMoves

(* The state of a manager, from the invariant. *)
LEMMA ManagerNow ==
    ASSUME ScheduleInv, NEW r \in Replicas
    PROVE  ManagerOK(r, mgr[r]) /\ mgr[r] \in ManagerStates
BY DEF ScheduleInv, ManagersOK, ManagerOK

(* A pass starts from the stale claims of the store. *)
LEMMA BeginPassKeeps ==
    ASSUME ScheduleInv, NEW r \in Replicas, BeginPass(r)
    PROVE  ScheduleInv'
<1> DEFINE m == [Idle EXCEPT !.pc = "recover", !.now = Now(r), !.list = aged]
<1>1. Now(r) \in 0..MaxTime
  BY AheadAssumption, ScheduleBoundsAssumption DEF Now, ScheduleInv, TypeOK,
     ClocksBounded
<1>2. m \in ManagerStates
  BY <1>1, IdleOK DEF ManagerOK, ManagerStates, ScheduleInv, TypeOK
<1>3. ManagerOK(r, m)
  BY <1>1, <1>2, IdleOK DEF ManagerOK, Idle, Dispatching, ScheduleInv,
     SpentHistory
<1> QED BY <1>3, ManagerStep DEF BeginPass, Idle, bounds, ScheduleInv, TypeOK

(* A run that is found was started for the occurrence, or it was deleted. *)
LEMMA InspectStaleKeeps ==
    ASSUME ScheduleInv, NEW r \in Replicas, NEW k \in Keys, InspectStale(r, k)
    PROVE  ScheduleInv'
<1>0. /\ ManagerOK(r, mgr[r]) /\ mgr[r] \in ManagerStates
      /\ mgr[r].pc = "recover" /\ k \in mgr[r].list
      /\ mgr \in [Replicas -> ManagerStates]
  BY ManagerNow, StepTypes DEF InspectStale, At, ScheduleInv
<1>u. /\ UNCHANGED <<clock, store, files, operator, stopping, stops, late>>
      /\ cancelled' \subseteq Replicas /\ faults' \in Nat
  <2>1. UNCHANGED <<clock, store, files, operator, cancelled, stopping, stops, late>>
    BY Zenon DEF InspectStale
  <2>2. faults' = faults \/ Fault
    BY Zenon DEF InspectStale
  <2> QED  BY <2>1, <2>2, StepTypes DEF Fault, ScheduleInv
<1>1. ASSUME NEW i \in RunIds \cup {0}, i \in RunsFor(k) \/ (i = 0 /\ RunsFor(k) = {}),
             mgr' = [mgr EXCEPT ![r] =
                      [@ EXCEPT !.pc = "reclaim", !.key = k, !.linked = i]]
      PROVE  ScheduleInv'
  <2> DEFINE m == [mgr[r] EXCEPT !.pc = "reclaim", !.key = k, !.linked = i]
  <2>1. m \in ManagerStates
    <3>1. i \in 0..MaxRuns
      BY ScheduleBoundsAssumption DEF RunIds
    <3> QED BY <1>0, <3>1, InspectedState
  <2>2. i # 0 => status[k] \in {"none", "started"}
    BY <1>1, ScheduleBoundsAssumption DEF ScheduleInv, Ledger, RunIds, TypeOK,
       Settled
  <2>3. ManagerOK(r, m)
    <3>1. /\ m.pc = "reclaim" /\ m.key = k /\ m.linked = i /\ m.list = mgr[r].list
          /\ m.now = mgr[r].now /\ m.due = mgr[r].due /\ m.cand = mgr[r].cand
          /\ m.published = mgr[r].published /\ m.outcome = mgr[r].outcome
      BY <1>0 DEF ManagerStates
    <3> HIDE DEF m
    <3> QED BY <1>0, <2>1, <2>2, <3>1, KeyFacts DEF ManagerOK, Dispatching
  <2>4. mgr' = [mgr EXCEPT ![r] = m] /\ m.cand = mgr[r].cand
    BY <1>0, <1>1 DEF ManagerStates
  <2> HIDE DEF m
  <2> QED BY <1>u, <2>3, <2>4, ManagerStep
<1>2. ASSUME mgr' = [mgr EXCEPT ![r].list = @ \ {k}] PROVE ScheduleInv'
  <2> DEFINE m == [mgr[r] EXCEPT !.list = @ \ {k}]
  <2>1. ManagerOK(r, m) /\ m.cand = mgr[r].cand
    BY <1>0, RefreshedOK
  <2>2. mgr' = [mgr EXCEPT ![r] = m]
    BY <1>0, <1>2 DEF ManagerStates
  <2> HIDE DEF m
  <2> QED BY <1>u, <2>1, <2>2, ManagerStep
<1> QED BY <1>1, <1>2 DEF InspectStale

(* A reclaim that does not apply drops the claim. *)
LEMMA ReclaimMissedKeeps ==
    ASSUME ScheduleInv, NEW r \in Replicas, ReclaimMissed(r)
    PROVE  ScheduleInv'
<1> DEFINE m == [Finish(mgr[r]) EXCEPT !.list = @ \ {mgr[r].key}]
<1>1. ManagerOK(r, m) /\ m.cand = 0
  <2>1. ManagerOK(r, Finish(mgr[r])) /\ Finish(mgr[r]).cand = 0
    BY ManagerNow, FinishOK DEF ScheduleInv, TypeOK
  <2> QED BY <2>1, RefreshedOK
<1>2. /\ mgr' = [mgr EXCEPT ![r] = m] /\ faults' \in Nat
      /\ cancelled' \subseteq Replicas
  BY DEF ReclaimMissed, Fault, ScheduleInv, TypeOK
<1> HIDE DEF m
<1> QED BY <1>1, <1>2, ManagerStep DEF ReclaimMissed

(* A due schedule is kept as a snapshot. *)
LEMMA ListDueKeeps ==
    ASSUME ScheduleInv, NEW r \in Replicas, ListDue(r)
    PROVE  ScheduleInv'
<1> USE DEF ListDue, bounds
<1>0. ManagerOK(r, mgr[r]) /\ mgr[r].pc = "recover"
  BY ManagerNow DEF At
<1>1. ASSUME schedule # NoSchedule, schedule.next <= mgr[r].now,
             mgr' = [mgr EXCEPT ![r] = [@ EXCEPT !.pc = "due", !.due = schedule]]
      PROVE  ScheduleInv'
  <2> DEFINE m == [mgr[r] EXCEPT !.pc = "due", !.due = schedule]
  <2>1. m \in ManagerStates /\ schedule \in ScheduleRows
    BY <1>0, <1>1 DEF ManagerOK, ManagerStates, ScheduleInv, TypeOK
  <2>2. ManagerOK(r, m)
    BY <1>0, <1>1, <2>1 DEF ManagerOK, ManagerStates, Dispatching
  <2>3. mgr' = [mgr EXCEPT ![r] = m] /\ m.cand = mgr[r].cand
    BY <1>1, ManagerNow, StepTypes DEF ManagerStates, ScheduleInv
  <2>4. faults' \in Nat /\ cancelled' \subseteq Replicas
    BY StepTypes DEF ScheduleInv
  <2> HIDE DEF m
  <2> QED BY <2>2, <2>3, <2>4, ManagerStep
<1>2. ASSUME mgr' = [mgr EXCEPT ![r] = Idle] PROVE ScheduleInv'
  BY <1>2, IdleOK, ManagerStep DEF ScheduleInv, TypeOK, Idle
<1> QED BY <1>1, <1>2

(* A dispatch that returns forgets its claim and its candidate. *)
LEMMA EndDispatchKeeps ==
    ASSUME ScheduleInv, NEW r \in Replicas, EndDispatch(r), faults' \in Nat,
           UNCHANGED <<clock, store, files, operator, stopping, stops, late>>
    PROVE  ScheduleInv'
<1>1. ManagerOK(r, Finish(mgr[r])) /\ Finish(mgr[r]).cand = 0
  BY ManagerNow, FinishOK DEF ScheduleInv, TypeOK
<1> QED BY <1>1, ManagerStep DEF EndDispatch, ScheduleInv, TypeOK

(* The task is there or not; nothing is started yet. *)
LEMMA GetTaskKeeps ==
    ASSUME ScheduleInv, NEW r \in Replicas, GetTask(r)
    PROVE  ScheduleInv'
<1> USE DEF GetTask
<1>0. ManagerOK(r, mgr[r]) /\ mgr[r].pc = "get" /\ faults' \in Nat
  BY ManagerNow DEF At, Fault, ScheduleInv, TypeOK
<1>1. ASSUME NEW pc \in {"preflight", "complete"}, mgr' = [mgr EXCEPT ![r].pc = pc],
             UNCHANGED cancelled
      PROVE  ScheduleInv'
  <2> DEFINE m == [mgr[r] EXCEPT !.pc = pc]
  <2>1. m \in ManagerStates
    BY <1>0 DEF ManagerOK, ManagerStates, Dispatching
  <2>2. ManagerOK(r, m)
    BY <1>0, <2>1 DEF ManagerOK, ManagerStates, Dispatching
  <2>3. /\ mgr' = [mgr EXCEPT ![r] = m] /\ m.cand = mgr[r].cand
        /\ cancelled' \subseteq Replicas
        /\ UNCHANGED <<clock, store, files, operator, stopping, stops, late>>
    BY <1>0, <1>1, StepTypes, ManagerNow DEF ScheduleInv, ManagerStates
  <2> HIDE DEF m, GetTask
  <2> QED BY <1>0, <2>2, <2>3, ManagerStep
<1> QED BY <1>0, <1>1, EndDispatchKeeps

LEMMA LookupKeeps ==
    ASSUME ScheduleInv, NEW r \in Replicas, Lookup(r)
    PROVE  ScheduleInv'
<1>0. /\ ManagerOK(r, mgr[r]) /\ mgr[r] \in ManagerStates /\ mgr[r].pc = "lookup"
      /\ mgr \in [Replicas -> ManagerStates]
  BY ManagerNow, StepTypes DEF Lookup, At, ScheduleInv
<1>u. /\ UNCHANGED <<clock, store, files, operator, stopping, stops, late>>
      /\ cancelled' \subseteq Replicas /\ faults' \in Nat
  <2>1. UNCHANGED <<clock, store, files, operator, stopping, stops, late>>
    BY Zenon DEF Lookup
  <2>2. UNCHANGED cancelled \/ EndDispatch(r)
    BY Zenon DEF Lookup
  <2>3. UNCHANGED faults \/ Fault
    BY Zenon DEF Lookup
  <2> QED  BY <2>1, <2>2, <2>3, StepTypes DEF EndDispatch, Fault, ScheduleInv
<1>k. mgr[r].key \in Keys
  BY <1>0 DEF ManagerOK, ManagerStates, Dispatching
<1>1. ASSUME NEW i \in RunsFor(mgr[r].key),
             mgr' = [mgr EXCEPT ![r] =
                      [@ EXCEPT !.pc = "complete", !.outcome = "started",
                                !.linked = i]]
      PROVE  ScheduleInv'
  <2> DEFINE m == [mgr[r] EXCEPT !.pc = "complete", !.outcome = "started", !.linked = i]
  <2>1. m \in ManagerStates
    <3>1. i \in 0..MaxRuns /\ "started" \in Settled
      BY ScheduleBoundsAssumption DEF RunsFor, RunIds, Settled
    <3> QED BY <1>0, <3>1, SettledState
  <2>2. status[mgr[r].key] \in {"none", "started"}
    BY <1>k DEF ScheduleInv, Ledger, TypeOK, Settled
  <2>3. ManagerOK(r, m)
    BY <1>0, <1>k, <2>1, <2>2, KeyFacts DEF ManagerOK, ManagerStates,
       Dispatching
  <2>4. mgr' = [mgr EXCEPT ![r] = m] /\ m.cand = mgr[r].cand
    BY <1>0, <1>1 DEF ManagerStates
  <2> HIDE DEF m
  <2> QED BY <1>u, <2>3, <2>4, ManagerStep
<1>2. ASSUME NEW out \in {"skipped", "failed"},
             mgr' = [mgr EXCEPT ![r] =
                      [@ EXCEPT !.pc = "complete", !.outcome = out]]
      PROVE  ScheduleInv'
  <2> DEFINE m == [mgr[r] EXCEPT !.pc = "complete", !.outcome = out]
  <2>1. m \in ManagerStates
    BY <1>0 DEF ManagerStates, Settled, Dispatching
  <2>2. ManagerOK(r, m)
    BY <1>0, <2>1 DEF ManagerOK, ManagerStates, Dispatching
  <2>3. mgr' = [mgr EXCEPT ![r] = m] /\ m.cand = mgr[r].cand
    BY <1>0, <1>2 DEF ManagerStates
  <2> HIDE DEF m
  <2> QED BY <1>u, <2>2, <2>3, ManagerStep
<1>3. ASSUME EndDispatch(r) PROVE ScheduleInv'
  BY <1>u, <1>3, EndDispatchKeeps
<1> QED BY <1>1, <1>2, <1>3 DEF Lookup

(* A failed start. *)
LEMMA FailKeeps ==
    ASSUME ScheduleInv, NEW r \in Replicas, mgr[r].pc \in Dispatching,
           NEW err \in {"ctx", "lost", "active", "failed"},
           mgr' = [mgr EXCEPT ![r] = Fail(@, err)],
           UNCHANGED <<clock, store, files, operator, cancelled, stopping, stops, late>>,
           faults' \in Nat
    PROVE  ScheduleInv'
<1>1. ManagerOK(r, Fail(mgr[r], err)) /\ Fail(mgr[r], err).cand = mgr[r].cand
  BY ManagerNow, FailOK
<1>2. /\ cancelled' \subseteq Replicas
      /\ mgr' = [mgr EXCEPT ![r] = Fail(mgr[r], err)]
  BY StepTypes DEF ScheduleInv
<1> QED BY <1>1, <1>2, ManagerStep

(* A dispatch that is cancelled. *)
LEMMA CallCancelledKeeps ==
    ASSUME ScheduleInv, NEW r \in Replicas, CallCancelled(r)
    PROVE  ScheduleInv'
<1>1. faults' \in Nat
  BY StepTypes DEF CallCancelled, bounds, ScheduleInv
<1>2. CASE At(r, "get") /\ EndDispatch(r)
  BY <1>1, <1>2, EndDispatchKeeps DEF CallCancelled, bounds
<1>3. CASE /\ mgr[r].pc \in {"preflight", "provision", "admit"}
           /\ mgr' = [mgr EXCEPT ![r] = Fail(@, "ctx")]
           /\ UNCHANGED cancelled
  BY <1>1, <1>3, FailKeeps DEF CallCancelled, bounds, Dispatching
<1> QED BY <1>2, <1>3 DEF CallCancelled

(* A call that fails without effect. *)
LEMMA CallFailsKeeps ==
    ASSUME ScheduleInv, NEW r \in Replicas, CallFails(r)
    PROVE  ScheduleInv'
<1>1. faults' \in Nat
  BY StepTypes DEF CallFails, Fault, ScheduleInv
<1> QED BY <1>1, FailKeeps DEF CallFails, Dispatching

(* A pass that a shutdown ends. *)
LEMMA AbandonKeeps ==
    ASSUME ScheduleInv, NEW r \in Replicas, Abandon(r)
    PROVE  ScheduleInv'
<1>1. ManagerOK(r, Idle) /\ Idle.cand = 0
  BY IdleOK DEF ScheduleInv, Idle
<1>2. faults' \in Nat /\ cancelled' \subseteq Replicas
  BY StepTypes DEF Abandon, bounds, ScheduleInv
<1> QED BY <1>1, <1>2, ManagerStep DEF Abandon, bounds

-----------------------------------------------------------------------------
(* A manager that a step leaves alone. *)
LEMMA OneStays ==
    ASSUME ScheduleInv, TypeOK', NEW r \in Replicas, mgr'[r] = mgr[r],
           clock' >= clock, issued' >= issued,
           \A k \in Keys : Spent(k) => Spent(k)',
           \A k \in Keys : Spent(k) /\ status[k] \in {"none", "started"} =>
                              status'[k] \in {"none", "started"},
           \A i \in RunIds : /\ i = mgr[r].cand /\ i <= issued
                             /\ run[i] = "none" /\ dir[i] # "removed"
                             => run'[i] = "none" /\ dir'[i] # "removed"
    PROVE  ManagerOK(r, mgr[r])'
<1>1. /\ clock \in Nat /\ clock' \in Nat /\ issued \in Nat /\ issued' \in Nat
  BY ScheduleBoundsAssumption DEF ScheduleInv, TypeOK
<1>2. PICK m : m = mgr[r]
  OBVIOUS
<1>3. ManagerOK(r, m)
  BY <1>2, ManagerNow
<1>4. m.pc = "admit" => m.cand \in RunIds /\ m.cand <= issued
  BY <1>3, ScheduleBoundsAssumption DEF ManagerOK, ManagerStates, RunIds
<1>5. m.pc = "admit" => run'[m.cand] = "none" /\ dir'[m.cand] # "removed"
  BY <1>2, <1>3, <1>4 DEF ManagerOK
<1>6. ManagerOK(r, m)'
  BY <1>1, <1>3, <1>5, ManagerStays
<1> QED BY <1>2, <1>6

(* A step that leaves the managers alone. *)
LEMMA ManagersStay ==
    ASSUME ScheduleInv, TypeOK', mgr' = mgr, clock' >= clock, issued' >= issued,
           \A k \in Keys : Spent(k) => Spent(k)',
           \A k \in Keys : Spent(k) /\ status[k] \in {"none", "started"} =>
                              status'[k] \in {"none", "started"},
           \A i \in RunIds : i <= issued /\ run[i] = "none" /\ dir[i] # "removed" =>
                               run'[i] = "none" /\ dir'[i] # "removed"
    PROVE  ManagersOK' /\ CandidatesDistinct'
<1>1. \A r \in Replicas : ManagerOK(r, mgr[r])'
  BY OneStays
<1> QED BY <1>1 DEF ManagersOK, CandidatesDistinct, ScheduleInv

(* A step of one manager that also moves the store or the files. *)
LEMMA OthersStay ==
    ASSUME ScheduleInv, TypeOK', NEW r \in Replicas, NEW m, ManagerOK(r, m)',
           mgr' = [mgr EXCEPT ![r] = m],
           m.cand \in {0, mgr[r].cand} \/ m.cand > issued,
           clock' >= clock, issued' >= issued,
           \A k \in Keys : Spent(k) => Spent(k)',
           \A k \in Keys : Spent(k) /\ status[k] \in {"none", "started"} =>
                              status'[k] \in {"none", "started"},
           \A i \in RunIds \ {mgr[r].cand} :
              i <= issued /\ run[i] = "none" /\ dir[i] # "removed" =>
                run'[i] = "none" /\ dir'[i] # "removed"
    PROVE  ManagersOK' /\ CandidatesDistinct'
<1>0. mgr \in [Replicas -> ManagerStates] /\ issued \in Nat
  BY ScheduleBoundsAssumption DEF ScheduleInv, TypeOK
<1>1. ASSUME NEW q \in Replicas \ {r} PROVE ManagerOK(q, mgr[q])'
  <2>1. mgr'[q] = mgr[q]
    BY <1>0
  <2>2. mgr[q].cand \in RunIds => mgr[q].cand # mgr[r].cand
    BY ScheduleBoundsAssumption DEF ScheduleInv, CandidatesDistinct, RunIds
  <2> QED BY <2>1, <2>2, OneStays
<1>2. ManagerOK(r, mgr[r])'
  BY <1>0
<1>3. ManagersOK'
  BY <1>1, <1>2 DEF ManagersOK
<1>4. CandidatesDistinct'
  <2>1. \A q \in Replicas : mgr[q].cand <= issued /\ mgr[q].cand \in Nat
    BY <1>0, ScheduleBoundsAssumption, ManagerNow DEF ManagerOK, ManagerStates
  <2> QED BY <1>0, <2>1 DEF CandidatesDistinct, ScheduleInv
<1> QED BY <1>3, <1>4

(* Time passes: a reading of the clock stays past. *)
LEMMA TickKeeps ==
    ASSUME ScheduleInv, Tick
    PROVE  ScheduleInv'
<1> USE DEF Tick, store, files, operator, bounds
<1>1. TypeOK' /\ clock' >= clock /\ issued' >= issued
  BY ScheduleBoundsAssumption DEF ScheduleInv, TypeOK
<1>2. /\ RowsOfSchedule' /\ EditPrepared' /\ SpentHistory'
      /\ FreshIds' /\ Ledger' /\ RunKeepsWorkspace'
  BY DEF EditPrepared, ScheduleInv, RowsOfSchedule, SpentHistory, Spent,
     FreshIds, Ledger, RunsFor, RunKeepsWorkspace
<1>3. ClocksBounded'
  BY AheadAssumption, ScheduleBoundsAssumption DEF ClocksBounded, Now,
     ScheduleInv, TypeOK
<1>4. ManagersOK' /\ CandidatesDistinct'
  BY <1>1, ManagersStay DEF Spent
<1> QED BY <1>1, <1>2, <1>3, <1>4 DEF ScheduleInv

(* A claim that gets old was made, hence spent. *)
LEMMA AgeKeeps ==
    ASSUME ScheduleInv, NEW k \in Keys, Age(k)
    PROVE  ScheduleInv'
<1> USE DEF Age, files, operator
<1>1. TypeOK' /\ clock' >= clock /\ issued' >= issued
  BY ScheduleBoundsAssumption DEF ScheduleInv, TypeOK
<1>2. /\ RowsOfSchedule' /\ EditPrepared' /\ FreshIds'
      /\ Ledger' /\ RunKeepsWorkspace' /\ ClocksBounded'
  BY DEF EditPrepared, ScheduleInv, RowsOfSchedule, FreshIds, Ledger, RunsFor,
     RunKeepsWorkspace, ClocksBounded, Now
<1>3. SpentHistory'
  <2>1. Spent(k)
    BY DEF ScheduleInv, RowsOfSchedule, Spent
  <2> QED BY <2>1 DEF ScheduleInv, SpentHistory, Spent
<1>4. ManagersOK' /\ CandidatesDistinct'
  BY <1>1, ManagersStay DEF Spent
<1> QED BY <1>1, <1>2, <1>3, <1>4 DEF ScheduleInv

(* The prepared row. *)
LEMMA UpsertReadKeeps ==
    ASSUME ScheduleInv, NEW r \in Replicas, NEW kind \in Kinds,
           NEW enabled \in BOOLEAN, UpsertRead(r, kind, enabled)
    PROVE  ScheduleInv'
<1>1. Now(r) \in Nat /\ clock \in 0..MaxTime /\ issued \in 0..MaxRuns
  BY AheadAssumption, ScheduleBoundsAssumption DEF Now, ScheduleInv, TypeOK
<1>2. /\ edit' \in [pc : {"idle", "swap"}, s : {NoSchedule} \cup ScheduleRows, expected : Nat]
      /\ EditPrepared'
  <2> DEFINE id == IF schedule = NoSchedule THEN created + 1 ELSE schedule.id
             expected == IF schedule = NoSchedule THEN 0 ELSE schedule.rev
             next == IF enabled THEN Now(r) + 1 ELSE 0
  <2>1. id \in 1..MaxSchedules /\ expected \in Nat
    BY ScheduleBoundsAssumption DEF UpsertRead, ScheduleInv, TypeOK,
       ScheduleRows
  <2>2. next \in Nat /\ (enabled => next > 0)
    BY <1>1
  <2>3. edit' = [pc |-> "swap", expected |-> expected,
                 s |-> [id |-> id, kind |-> kind, enabled |-> enabled, rev |-> 0, next |-> next]]
    BY DEF UpsertRead
  <2> HIDE DEF id, expected, next
  <2>4. [id |-> id, kind |-> kind, enabled |-> enabled, rev |-> 0, next |-> next] \in ScheduleRows
    BY <2>1, <2>2 DEF ScheduleRows
  <2> QED BY <2>1, <2>2, <2>3, <2>4 DEF EditPrepared
<1> USE DEF UpsertRead, store, files, bounds
<1>3. TypeOK' /\ clock' >= clock /\ issued' >= issued
  BY <1>1, <1>2, ScheduleBoundsAssumption DEF ScheduleInv, TypeOK
<1>4. /\ RowsOfSchedule' /\ SpentHistory' /\ FreshIds'
      /\ Ledger' /\ RunKeepsWorkspace' /\ ClocksBounded'
  BY DEF ScheduleInv, RowsOfSchedule, SpentHistory, Spent, FreshIds, Ledger,
     RunsFor, RunKeepsWorkspace, ClocksBounded, Now
<1>5. ManagersOK' /\ CandidatesDistinct'
  BY <1>3, ManagersStay DEF Spent
<1> QED BY <1>2, <1>3, <1>4, <1>5 DEF ScheduleInv

(* The prepared row, computed again. *)
LEMMA UpsertRetryKeeps ==
    ASSUME ScheduleInv, NEW r \in Replicas, UpsertRetry(r)
    PROVE  ScheduleInv'
<1>1. Now(r) \in Nat /\ clock \in 0..MaxTime /\ issued \in 0..MaxRuns
  BY AheadAssumption, ScheduleBoundsAssumption DEF Now, ScheduleInv, TypeOK
<1>2. /\ edit' \in [pc : {"idle", "swap"}, s : {NoSchedule} \cup ScheduleRows, expected : Nat]
      /\ EditPrepared'
  <2>0. /\ edit.pc = "swap" /\ edit.s \in ScheduleRows /\ (edit.s.enabled => edit.s.next > 0)
        /\ edit \in [pc : {"idle", "swap"}, s : {NoSchedule} \cup ScheduleRows, expected : Nat]
    BY DEF UpsertRetry, ScheduleInv, EditPrepared, TypeOK
  <2>1. CASE edit' = NoEdit
    BY <2>1 DEF NoEdit, EditPrepared
  <2>2. CASE edit' # NoEdit
    <3>1. PICK e \in Nat : e = IF schedule = NoSchedule THEN 0 ELSE schedule.rev
      BY DEF ScheduleInv, TypeOK, ScheduleRows
    <3>2. PICK n \in Nat : n = IF ~edit.s.enabled THEN 0
                               ELSE IF edit.s.kind = "once" THEN edit.s.next
                               ELSE Now(r) + 1
      BY <1>1, <2>0 DEF ScheduleRows
    <3>3. edit' = [edit EXCEPT !.expected = e, !.s.next = n]
      BY <2>2, <3>1, <3>2 DEF UpsertRetry
    <3>4. /\ edit'.pc = "swap" /\ edit'.expected = e
          /\ edit'.s = [edit.s EXCEPT !.next = n]
          /\ edit' = [pc |-> "swap", expected |-> e, s |-> [edit.s EXCEPT !.next = n]]
      BY <2>0, <3>3
    <3>5. /\ [edit.s EXCEPT !.next = n] \in ScheduleRows
          /\ [edit.s EXCEPT !.next = n].next = n
          /\ [edit.s EXCEPT !.next = n].enabled = edit.s.enabled
      BY <2>0 DEF ScheduleRows
    <3>6. edit.s.enabled => n > 0
      BY <1>1, <2>0, <3>2
    <3> QED BY <3>4, <3>5, <3>6 DEF EditPrepared
  <2> QED BY <2>1, <2>2
<1> USE DEF UpsertRetry, store, files, bounds
<1>3. TypeOK' /\ clock' >= clock /\ issued' >= issued
  BY <1>1, <1>2, ScheduleBoundsAssumption DEF ScheduleInv, TypeOK
<1>4. /\ RowsOfSchedule' /\ SpentHistory' /\ FreshIds'
      /\ Ledger' /\ RunKeepsWorkspace' /\ ClocksBounded'
  BY DEF ScheduleInv, RowsOfSchedule, SpentHistory, Spent, FreshIds, Ledger,
     RunsFor, RunKeepsWorkspace, ClocksBounded, Now
<1>5. ManagersOK' /\ CandidatesDistinct'
  BY <1>3, ManagersStay DEF Spent
<1> QED BY <1>2, <1>3, <1>4, <1>5 DEF ScheduleInv

(* A new schedule has a new id, and an updated one keeps its own. *)
LEMMA UpsertSwapKeeps ==
    ASSUME ScheduleInv, UpsertSwap
    PROVE  ScheduleInv'
<1>0. /\ edit.s \in ScheduleRows /\ (edit.s.enabled => edit.s.next > 0)
      /\ schedule \in {NoSchedule} \cup ScheduleRows
      /\ created \in 0..MaxSchedules
      /\ clock \in 0..MaxTime /\ issued \in 0..MaxRuns
  BY DEF UpsertSwap, ScheduleInv, EditPrepared, TypeOK
<1>1. PICK i \in 1..MaxSchedules, v \in Nat :
         /\ schedule' = [edit.s EXCEPT !.id = i, !.rev = v]
         /\ v > 0 /\ i <= created'
         /\ \/ i = created + 1 /\ schedule = NoSchedule /\ created' = created + 1
            \/ schedule # NoSchedule /\ i = schedule.id /\ created' = created
  <2>1. CASE schedule = NoSchedule
    <3>1. PICK i \in 1..MaxSchedules, v \in Nat : i = created + 1 /\ v = 1
      BY <1>0, <2>1, ScheduleBoundsAssumption DEF UpsertSwap
    <3>2. /\ created' = created + 1
          /\ schedule' = [edit.s EXCEPT !.id = i, !.rev = v]
      BY <2>1, <3>1 DEF UpsertSwap
    <3>3. v > 0 /\ i <= created'
      BY <1>0, <3>1, <3>2
    <3> QED BY <2>1, <3>1, <3>2, <3>3
  <2>2. CASE schedule # NoSchedule
    <3>1. /\ schedule.id \in 1..MaxSchedules /\ schedule.rev + 1 \in Nat
          /\ schedule.rev + 1 > 0
          /\ schedule.id <= created
      BY <1>0, <2>2 DEF ScheduleRows, ScheduleInv, RowsOfSchedule
    <3>2. /\ created' = created
          /\ schedule' = [edit.s EXCEPT !.id = schedule.id, !.rev = schedule.rev + 1]
      BY <2>2 DEF UpsertSwap
    <3> QED BY <2>2, <3>1, <3>2
  <2> QED BY <2>1, <2>2
<1>2. /\ schedule' \in ScheduleRows /\ schedule'.id = i /\ schedule'.rev = v
      /\ schedule'.enabled = edit.s.enabled /\ schedule'.next = edit.s.next
  BY <1>0, <1>1 DEF ScheduleRows
<1>3. schedule' # NoSchedule
  BY <1>2, NoScheduleAssumption
<1> USE DEF UpsertSwap, files, bounds
<1>4. TypeOK' /\ clock' >= clock /\ issued' >= issued
  BY <1>0, <1>1, <1>2, ScheduleBoundsAssumption DEF ScheduleInv, TypeOK,
     NoEdit
<1>5. RowsOfSchedule'
  BY <1>0, <1>1, <1>2, <1>3 DEF ScheduleInv, RowsOfSchedule, TypeOK
<1>6. \A k \in Keys : Spent(k) => Spent(k)'
  BY <1>0, <1>1, <1>2, KeyFacts DEF Spent
<1>7. SpentHistory'
  BY <1>6 DEF SpentHistory, ScheduleInv, TypeOK
<1>8. /\ EditPrepared' /\ FreshIds' /\ Ledger'
      /\ RunKeepsWorkspace' /\ ClocksBounded'
  BY DEF EditPrepared, NoEdit, ScheduleInv, FreshIds, Ledger, RunsFor,
     RunKeepsWorkspace, ClocksBounded, Now
<1>9. ManagersOK' /\ CandidatesDistinct'
  BY <1>4, <1>6, ManagersStay
<1> QED BY <1>4, <1>5, <1>7, <1>8, <1>9 DEF ScheduleInv

(* A deleted schedule takes its occurrences along; its id is not used again. *)
LEMMA DeleteTaskScheduleKeeps ==
    ASSUME ScheduleInv, DeleteTaskSchedule
    PROVE  ScheduleInv'
<1> USE DEF DeleteTaskSchedule, files, bounds
<1>1. TypeOK' /\ clock' >= clock /\ issued' >= issued
  <2>1. /\ status' \in [Keys -> {"none", "claimed"} \cup Settled]
        /\ owner' \in [Keys -> Replicas \cup {Nobody}]
        /\ runOf' \in [Keys -> 0..MaxRuns]
    BY ScheduleBoundsAssumption DEF ScheduleInv, TypeOK
  <2>2. /\ schedule' \in {NoSchedule} \cup ScheduleRows /\ aged' \subseteq Keys
        /\ edits' \in Nat
    BY DEF ScheduleInv, TypeOK
  <2>3. clock' >= clock /\ issued' >= issued
    BY DEF ScheduleInv, TypeOK
  <2> QED BY <2>1, <2>2, <2>3 DEF ScheduleInv, TypeOK
<1>2. \A k \in Keys : status'[k] \in {"none", status[k]}
  BY DEF ScheduleInv, TypeOK
<1>3. RowsOfSchedule'
  BY DEF ScheduleInv, RowsOfSchedule, TypeOK
<1>4. \A k \in Keys : Spent(k) => Spent(k)'
  BY DEF Spent
<1>5. SpentHistory'
  BY <1>4 DEF SpentHistory, ScheduleInv, TypeOK
<1>6. Ledger'
  BY <1>3 DEF Ledger, RunsFor, ScheduleInv, RowsOfSchedule
<1>7. EditPrepared' /\ FreshIds' /\ RunKeepsWorkspace' /\ ClocksBounded'
  BY DEF ScheduleInv, EditPrepared, FreshIds, RunKeepsWorkspace,
     ClocksBounded, Now
<1>8. ManagersOK' /\ CandidatesDistinct'
  BY <1>1, <1>2, <1>4, ManagersStay
<1> QED BY <1>1, <1>3, <1>5, <1>6, <1>7, <1>8 DEF ScheduleInv

(* A deleted task takes its schedule, occurrences and runs along. *)
LEMMA DeleteTaskKeeps ==
    ASSUME ScheduleInv, DeleteTask
    PROVE  ScheduleInv'
<1> USE DEF DeleteTask, files, bounds
<1>1. TypeOK' /\ clock' >= clock /\ issued' >= issued
  <2>1. /\ status' \in [Keys -> {"none", "claimed"} \cup Settled]
        /\ owner' \in [Keys -> Replicas \cup {Nobody}]
        /\ runOf' \in [Keys -> 0..MaxRuns]
        /\ run' \in [RunIds -> {"none", "active", "terminal"}]
        /\ occOf' \in [RunIds -> Keys \cup {NoKey}]
    BY ScheduleBoundsAssumption
  <2>2. schedule' \in {NoSchedule} \cup ScheduleRows /\ aged' \subseteq Keys
    OBVIOUS
  <2>3. clock' >= clock /\ issued' >= issued /\ edits' \in Nat
    BY DEF ScheduleInv, TypeOK
  <2>4. task' \in BOOLEAN
    OBVIOUS
  <2> QED BY <2>1, <2>2, <2>3, <2>4 DEF ScheduleInv, TypeOK
<1>2. \A k \in Keys : status'[k] = "none"
  OBVIOUS
<1>3. RowsOfSchedule'
  BY <1>2 DEF RowsOfSchedule
<1>4. \A k \in Keys : Spent(k) => Spent(k)'
  BY DEF Spent
<1>5. SpentHistory'
  BY DEF SpentHistory
<1>6. Ledger' /\ RunKeepsWorkspace'
  BY <1>2 DEF Ledger, RunsFor, RunKeepsWorkspace
<1>7. EditPrepared' /\ FreshIds' /\ ClocksBounded'
  BY DEF ScheduleInv, EditPrepared, FreshIds, ClocksBounded, Now
<1>8. ManagersOK' /\ CandidatesDistinct'
  BY <1>1, <1>2, <1>4, ManagersStay
<1> QED BY <1>1, <1>3, <1>5, <1>6, <1>7, <1>8 DEF ScheduleInv

(* A manual run is of no occurrence. *)
LEMMA StartManuallyKeeps ==
    ASSUME ScheduleInv, StartManually
    PROVE  ScheduleInv'
<1> USE DEF StartManually, operator, bounds
<1>0. /\ issued + 1 \in RunIds /\ issued \in Nat
      /\ run \in [RunIds -> {"none", "active", "terminal"}]
  BY ScheduleBoundsAssumption DEF ScheduleInv, TypeOK, RunIds
<1>1. TypeOK' /\ clock' >= clock /\ issued' >= issued
  BY <1>0, ScheduleBoundsAssumption DEF ScheduleInv, TypeOK
<1>2. /\ occOf[issued + 1] = NoKey /\ run[issued + 1] = "none"
      /\ dir[issued + 1] = "none"
  BY <1>0 DEF ScheduleInv, FreshIds
<1>3. FreshIds'
  BY <1>0 DEF FreshIds, ScheduleInv, RunIds
<1>4. \A k \in Keys : RunsFor(k)' = RunsFor(k)
  BY <1>0, <1>2, KeyFacts DEF RunsFor
<1>5. Ledger'
  BY <1>4 DEF Ledger, ScheduleInv
<1>6. RunKeepsWorkspace'
  BY <1>0, <1>2 DEF RunKeepsWorkspace, ScheduleInv
<1>7. RowsOfSchedule' /\ EditPrepared' /\ SpentHistory' /\ ClocksBounded'
  BY DEF ScheduleInv, RowsOfSchedule, EditPrepared, SpentHistory, Spent,
     ClocksBounded, Now
<1>8. ManagersOK' /\ CandidatesDistinct'
  <2>1. \A i \in RunIds : i <= issued => run'[i] = run[i] /\ dir'[i] = dir[i]
    BY <1>0 DEF RunIds
  <2> QED BY <1>1, <2>1, ManagersStay DEF Spent
<1> QED BY <1>1, <1>3, <1>5, <1>6, <1>7, <1>8 DEF ScheduleInv

(* A run that ends is still the run of its occurrence. *)
LEMMA FinishRunKeeps ==
    ASSUME ScheduleInv, NEW i \in RunIds, FinishRun(i)
    PROVE  ScheduleInv'
<1> USE DEF FinishRun, files, operator, bounds
<1>1. TypeOK' /\ clock' >= clock /\ issued' >= issued
  BY DEF ScheduleInv, TypeOK
<1>2. \A j \in RunIds : run'[j] = "none" <=> run[j] = "none"
  BY DEF ScheduleInv, TypeOK
<1>3. Ledger' /\ RunKeepsWorkspace' /\ FreshIds'
  BY <1>2 DEF Ledger, RunsFor, RunKeepsWorkspace, FreshIds, ScheduleInv
<1>4. RowsOfSchedule' /\ EditPrepared' /\ SpentHistory' /\ ClocksBounded'
  BY DEF ScheduleInv, RowsOfSchedule, EditPrepared, SpentHistory, Spent,
     ClocksBounded, Now
<1>5. ManagersOK' /\ CandidatesDistinct'
  BY <1>1, <1>2, ManagersStay DEF Spent
<1> QED BY <1>1, <1>3, <1>4, <1>5 DEF ScheduleInv

(* Steps that only change what a manager is told or counted. *)
LEMMA SignalKeeps ==
    ASSUME ScheduleInv, UNCHANGED <<clock, store, files, operator, mgr>>,
           cancelled' \subseteq Replicas, stopping' \subseteq Replicas,
           stops' \in Nat, faults' \in Nat, late' \in Nat
    PROVE  ScheduleInv'
<1> USE DEF store, files, operator
<1>1. TypeOK' /\ clock' >= clock /\ issued' >= issued
  BY DEF ScheduleInv, TypeOK
<1>2. /\ RowsOfSchedule' /\ EditPrepared' /\ SpentHistory' /\ FreshIds'
      /\ Ledger' /\ RunKeepsWorkspace' /\ ClocksBounded'
  BY DEF ScheduleInv, RowsOfSchedule, EditPrepared, SpentHistory, Spent,
     FreshIds, Ledger, RunsFor, RunKeepsWorkspace, ClocksBounded, Now
<1>3. ManagersOK' /\ CandidatesDistinct'
  BY <1>1, ManagersStay DEF Spent
<1> QED BY <1>1, <1>2, <1>3 DEF ScheduleInv

(* A lost heartbeat cancels the dispatch. *)
LEMMA RenewalLostKeeps ==
    ASSUME ScheduleInv, NEW r \in Replicas, RenewalLost(r)
    PROVE  ScheduleInv'
<1>1. cancelled' \subseteq Replicas /\ stopping' \subseteq Replicas
  BY DEF RenewalLost, ScheduleInv, TypeOK
<1>2. stops' \in Nat /\ faults' \in Nat /\ late' \in Nat
  BY DEF RenewalLost, Fault, ScheduleInv, TypeOK
<1> QED BY <1>1, <1>2, SignalKeeps DEF RenewalLost

(* A shutdown cancels everything. *)
LEMMA ShutdownKeeps ==
    ASSUME ScheduleInv, NEW r \in Replicas, Shutdown(r)
    PROVE  ScheduleInv'
<1>1. /\ cancelled' \subseteq Replicas /\ stopping' \subseteq Replicas
      /\ stops' \in Nat /\ faults' \in Nat /\ late' \in Nat
  BY DEF Shutdown, Stop, ScheduleInv, TypeOK
<1> QED BY <1>1, SignalKeeps DEF Shutdown

-----------------------------------------------------------------------------
(* A process that ends takes its manager's state with it. *)
LEMMA RestartKeeps ==
    ASSUME ScheduleInv, NEW r \in Replicas, Restart(r), stops' \in Nat
    PROVE  ScheduleInv'
<1> USE DEF Restart, files, operator
<1>1. TypeOK'
  <2>1. owner' \in [Keys -> Replicas \cup {Nobody}]
    BY DEF ScheduleInv, TypeOK
  <2>2. mgr' \in [Replicas -> ManagerStates]
    BY IdleOK, StepTypes DEF ManagerOK, ScheduleInv
  <2> QED BY <2>1, <2>2 DEF ScheduleInv, TypeOK
<1>2. /\ RowsOfSchedule' /\ EditPrepared' /\ SpentHistory' /\ FreshIds'
      /\ Ledger' /\ RunKeepsWorkspace' /\ ClocksBounded'
  BY DEF ScheduleInv, RowsOfSchedule, EditPrepared, SpentHistory, Spent,
     FreshIds, Ledger, RunsFor, RunKeepsWorkspace, ClocksBounded, Now
<1>3. ManagersOK' /\ CandidatesDistinct'
  <2>1. PICK m : m = Idle
    OBVIOUS
  <2>2. ManagerOK(r, m) /\ m.cand = 0 /\ mgr' = [mgr EXCEPT ![r] = m]
    BY <2>1, IdleOK DEF ScheduleInv, Idle
  <2>3. ManagerOK(r, m)'
    BY <2>2 DEF ManagerOK, Spent, Now
  <2>4. clock' >= clock /\ issued' >= issued
    BY DEF ScheduleInv, TypeOK
  <2> QED BY <1>1, <2>2, <2>3, <2>4, OthersStay DEF Spent
<1> QED BY <1>1, <1>2, <1>3 DEF ScheduleInv

(* A renewal, and the part of a reclaim that renews. *)
LEMMA RefreshKeeps ==
    ASSUME ScheduleInv, NEW k \in Keys, aged' = aged \ {k}, mgr' = Refreshed(mgr, k),
           owner' \in [Keys -> Replicas \cup {Nobody}],
           UNCHANGED <<clock, task, schedule, created, status, runOf, run, occOf,
                       files, operator, cancelled, stopping, bounds>>
    PROVE  ScheduleInv'
<1> USE DEF files, operator, bounds
<1>0. \A q \in Replicas : /\ mgr'[q] = [mgr[q] EXCEPT !.list = @ \ {k}]
                          /\ ManagerOK(q, mgr'[q]) /\ mgr'[q].cand = mgr[q].cand
  BY ManagerNow, RefreshedOK DEF Refreshed
<1>1. TypeOK'
  <2>1. mgr' \in [Replicas -> ManagerStates]
    BY <1>0 DEF Refreshed, ManagerOK
  <2> QED BY <2>1 DEF ScheduleInv, TypeOK
<1>2. /\ RowsOfSchedule' /\ EditPrepared' /\ SpentHistory' /\ FreshIds'
      /\ Ledger' /\ RunKeepsWorkspace' /\ ClocksBounded'
  BY DEF ScheduleInv, RowsOfSchedule, EditPrepared, SpentHistory, Spent,
     FreshIds, Ledger, RunsFor, RunKeepsWorkspace, ClocksBounded, Now
<1>3. ManagersOK'
  BY <1>0 DEF ManagersOK, ManagerOK, Spent, Now
<1>4. CandidatesDistinct'
  BY <1>0 DEF CandidatesDistinct, ScheduleInv
<1> QED BY <1>1, <1>2, <1>3, <1>4 DEF ScheduleInv

(* A heartbeat. *)
LEMMA RenewKeeps ==
    ASSUME ScheduleInv, NEW r \in Replicas, Renew(r)
    PROVE  ScheduleInv'
<1>1. mgr[r].key \in Keys
  BY ManagerNow DEF Renew, ManagerOK, ManagerStates, Dispatching
<1>2. owner' \in [Keys -> Replicas \cup {Nobody}]
  BY DEF Renew, ScheduleInv, TypeOK
<1> QED BY <1>1, <1>2, RefreshKeeps DEF Renew

(* A reclaim that applies: the claim has no run. *)
LEMMA ReclaimKeeps ==
    ASSUME ScheduleInv, NEW r \in Replicas, Reclaim(r)
    PROVE  ScheduleInv'
<1>0. /\ ManagerOK(r, mgr[r]) /\ mgr[r] \in ManagerStates /\ mgr[r].pc = "reclaim"
      /\ mgr \in [Replicas -> ManagerStates] /\ status[mgr[r].key] = "claimed"
  BY ManagerNow, StepTypes DEF Reclaim, At, ScheduleInv
<1>k. PICK k \in Keys : k = mgr[r].key
  BY <1>0 DEF ManagerOK, ManagerStates
<1>1. mgr[r].linked = 0 /\ mgr[r].outcome # "started"
  BY <1>0 DEF ManagerOK
<1>2. \A q \in Replicas : /\ Refreshed(mgr, k)[q] = [mgr[q] EXCEPT !.list = @ \ {k}]
                          /\ ManagerOK(q, Refreshed(mgr, k)[q])
                          /\ Refreshed(mgr, k)[q].cand = mgr[q].cand
  BY ManagerNow, RefreshedOK DEF Refreshed
<1>3. PICK m : m = [Refreshed(mgr, k)[r] EXCEPT !.pc = "get", !.outcome = "failed"]
  OBVIOUS
<1>4. mgr' = [Refreshed(mgr, k) EXCEPT ![r] = m]
  BY <1>k, <1>1, <1>3 DEF Reclaim
<1>5. ManagerOK(r, m) /\ m.cand = mgr[r].cand
  <2>1. PICK n : n = Refreshed(mgr, k)[r]
    OBVIOUS
  <2>2. /\ ManagerOK(r, n) /\ n.pc = "reclaim" /\ n \in ManagerStates
        /\ n.cand = mgr[r].cand
    BY <1>0, <1>2, <2>1 DEF ManagerOK, ManagerStates
  <2>3. m \in ManagerStates
    BY <1>3, <2>1, <2>2 DEF ManagerStates, Dispatching, Settled
  <2>4. m = [n EXCEPT !.pc = "get", !.outcome = "failed"]
    BY <1>3, <2>1
  <2> QED BY <2>2, <2>3, <2>4 DEF ManagerOK, ManagerStates, Dispatching
<1>6. \A q \in Replicas : ManagerOK(q, mgr'[q]) /\ mgr'[q].cand = mgr[q].cand
  BY <1>2, <1>4, <1>5 DEF Refreshed
<1> USE DEF files, operator, bounds
<1>7. TypeOK'
  <2>1. mgr' \in [Replicas -> ManagerStates]
    BY <1>4, <1>6 DEF Refreshed, ManagerOK
  <2>2. owner' \in [Keys -> Replicas \cup {Nobody}]
    BY DEF Reclaim, ScheduleInv, TypeOK
  <2> QED BY <2>1, <2>2 DEF Reclaim, ScheduleInv, TypeOK
<1>8. /\ RowsOfSchedule' /\ EditPrepared' /\ SpentHistory' /\ FreshIds'
      /\ Ledger' /\ RunKeepsWorkspace' /\ ClocksBounded'
  BY DEF Reclaim, ScheduleInv, RowsOfSchedule, EditPrepared, SpentHistory,
     Spent, FreshIds, Ledger, RunsFor, RunKeepsWorkspace, ClocksBounded, Now
<1>9. ManagersOK' /\ CandidatesDistinct'
  <2>1. UNCHANGED <<clock, schedule, created, status, run, dir, issued>>
    BY DEF Reclaim
  <2>2. ManagersOK'
    BY <1>6, <2>1 DEF ManagersOK, ManagerOK, Spent, Now
  <2>3. CandidatesDistinct'
    BY <1>6 DEF CandidatesDistinct, ScheduleInv
  <2> QED BY <2>2, <2>3
<1> QED BY <1>7, <1>8, <1>9 DEF ScheduleInv

-----------------------------------------------------------------------------
(* A claim that is settled without a run. *)
LEMMA SettleKeeps ==
    ASSUME ScheduleInv, NEW r \in Replicas, NEW m, ManagerOK(r, m),
           m.cand \in {0, mgr[r].cand}, mgr' = [mgr EXCEPT ![r] = m],
           NEW k \in Keys, status[k] = "claimed", NEW out \in {"skipped", "failed"},
           status' = [status EXCEPT ![k] = out],
           NEW i \in 0..MaxRuns, runOf' = [runOf EXCEPT ![k] = i],
           UNCHANGED <<clock, task, schedule, created, owner, aged, run, occOf,
                       files, operator, stopping, stops, late>>,
           cancelled' \subseteq Replicas, faults' \in Nat
    PROVE  ScheduleInv'
<1> USE DEF files, operator
<1>1. TypeOK' /\ clock' >= clock /\ issued' >= issued
  <2>1. /\ status' \in [Keys -> {"none", "claimed"} \cup Settled]
        /\ runOf' \in [Keys -> 0..MaxRuns]
    BY DEF ScheduleInv, TypeOK, Settled
  <2>2. mgr' \in [Replicas -> ManagerStates]
    BY DEF ScheduleInv, TypeOK, ManagerOK
  <2>3. clock' >= clock /\ issued' >= issued
    BY DEF ScheduleInv, TypeOK
  <2> QED BY <2>1, <2>2, <2>3 DEF ScheduleInv, TypeOK
<1>2. /\ \A j \in Keys : j # k => status'[j] = status[j] /\ runOf'[j] = runOf[j]
      /\ status'[k] = out
  BY DEF ScheduleInv, TypeOK
<1>3. \A j \in Keys : Spent(j) => Spent(j)'
  BY <1>2 DEF Spent
<1>4. RowsOfSchedule' /\ SpentHistory'
  BY <1>2, <1>3 DEF RowsOfSchedule, SpentHistory, ScheduleInv, TypeOK
<1>5. Ledger'
  BY <1>2 DEF Ledger, RunsFor, ScheduleInv
<1>6. EditPrepared' /\ FreshIds' /\ RunKeepsWorkspace' /\ ClocksBounded'
  BY DEF ScheduleInv, EditPrepared, FreshIds, RunKeepsWorkspace,
     ClocksBounded, Now
<1>7. \A j \in Keys : Spent(j) /\ status[j] \in {"none", "started"} =>
                        status'[j] \in {"none", "started"}
  BY <1>2
<1>8. ManagerOK(r, m)'
  <2>1. clock \in Nat /\ clock' \in Nat /\ issued \in Nat /\ issued' \in Nat
    BY ScheduleBoundsAssumption DEF ScheduleInv, TypeOK
  <2>2. m.pc = "admit" => run'[m.cand] = "none" /\ dir'[m.cand] # "removed"
    BY DEF ManagerOK
  <2> QED BY <1>1, <1>3, <1>7, <2>1, <2>2, ManagerStays
<1>9. ManagersOK' /\ CandidatesDistinct'
  BY <1>1, <1>3, <1>7, <1>8, OthersStay
<1> QED BY <1>1, <1>4, <1>5, <1>6, <1>9 DEF ScheduleInv

(* What a verdict says of the occurrence: a claimed one has no run to link. *)
LEMMA VerdictFacts ==
    ASSUME ScheduleInv, NEW r \in Replicas, mgr[r].key \in Keys
    PROVE  /\ Verdict(r) \in {"failed", "lost", "existing", "active", "overlap", "ready"}
           /\ Verdict(r) = "existing" => status[mgr[r].key] = "started"
           /\ Verdict(r) = "overlap" => status[mgr[r].key] = "claimed"
           /\ Verdict(r) = "ready" => status[mgr[r].key] = "claimed"
<1>1. PICK k \in Keys : k = mgr[r].key
  OBVIOUS
<1>2. status[k] \in {"none", "claimed", "started", "skipped", "failed"}
  BY DEF ScheduleInv, TypeOK, Settled
<1>3. status[k] = "claimed" => RunsFor(k) = {}
  BY DEF ScheduleInv, Ledger
<1>4. task \in BOOLEAN
  BY DEF ScheduleInv, TypeOK
<1> QED BY <1>1, <1>2, <1>3, <1>4 DEF Verdict

(* A start that ends with a verdict. *)
LEMMA VerdictKeeps ==
    ASSUME ScheduleInv, NEW r \in Replicas, mgr[r].pc \in Dispatching,
           RecordVerdict(r), AfterVerdict(r),
           UNCHANGED <<clock, task, schedule, created, owner, aged, run, occOf,
                       files, operator, cancelled, stopping, stops, late>>
    PROVE  ScheduleInv'
<1>0. /\ ManagerOK(r, mgr[r]) /\ mgr \in [Replicas -> ManagerStates]
      /\ mgr[r].key \in Keys
  BY ManagerNow, StepTypes DEF ScheduleInv, ManagerOK, ManagerStates
<1>1. cancelled' \subseteq Replicas /\ faults' \in Nat
  BY StepTypes DEF AfterVerdict, Fault, ScheduleInv
<1>2. PICK m : ManagerOK(r, m) /\ m.cand = mgr[r].cand /\ mgr' = [mgr EXCEPT ![r] = m]
  <2>1. ASSUME NEW err \in {"lost", "active", "failed"},
               mgr' = [mgr EXCEPT ![r] = Fail(@, err)]
        PROVE  \E m : ManagerOK(r, m) /\ m.cand = mgr[r].cand /\ mgr' = [mgr EXCEPT ![r] = m]
    <3>1. ManagerOK(r, Fail(mgr[r], err)) /\ Fail(mgr[r], err).cand = mgr[r].cand
      BY <1>0, FailOK
    <3>2. mgr' = [mgr EXCEPT ![r] = Fail(mgr[r], err)]
      BY <2>1
    <3> QED BY <3>1, <3>2
  <2>2. ASSUME Verdict(r) = "existing", mgr' = [mgr EXCEPT ![r] = Succeed(@)]
        PROVE  \E m : ManagerOK(r, m) /\ m.cand = mgr[r].cand /\ mgr' = [mgr EXCEPT ![r] = m]
    <3>1. ManagerOK(r, Succeed(mgr[r])) /\ Succeed(mgr[r]).cand = mgr[r].cand
      BY <1>0, <2>2, VerdictFacts, SucceedOK
    <3>2. mgr' = [mgr EXCEPT ![r] = Succeed(mgr[r])]
      BY <2>2
    <3> QED BY <3>1, <3>2
  <2>3. \/ \E err \in {"lost", "active", "failed"} : mgr' = [mgr EXCEPT ![r] = Fail(@, err)]
        \/ Verdict(r) = "existing" /\ mgr' = [mgr EXCEPT ![r] = Succeed(@)]
    BY <1>0, VerdictFacts DEF AfterVerdict
  <2> QED BY <2>1, <2>2, <2>3
<1>3. CASE Verdict(r) = "overlap"
  <2>1. status' = [status EXCEPT ![mgr[r].key] = "skipped"] /\ runOf' = runOf
    BY <1>3 DEF RecordVerdict
  <2>2. PICK i \in 0..MaxRuns : runOf' = [runOf EXCEPT ![mgr[r].key] = i]
    BY <1>0, <2>1 DEF ScheduleInv, TypeOK
  <2>3. status[mgr[r].key] = "claimed"
    BY <1>0, <1>3, VerdictFacts
  <2> QED BY <1>0, <1>1, <1>2, <2>1, <2>2, <2>3, SettleKeeps
<1>4. CASE Verdict(r) # "overlap"
  <2>1. status' = status /\ runOf' = runOf
    BY <1>0, <1>4, VerdictFacts DEF RecordVerdict
  <2> QED BY <1>1, <1>2, <2>1, ManagerStep DEF store
<1> QED BY <1>3, <1>4

(* The preflight goes on or ends with a verdict. *)
LEMMA PreflightKeeps ==
    ASSUME ScheduleInv, NEW r \in Replicas, Preflight(r)
    PROVE  ScheduleInv'
<1>0. /\ ManagerOK(r, mgr[r]) /\ mgr \in [Replicas -> ManagerStates]
      /\ mgr[r].key \in Keys /\ mgr[r].pc = "preflight"
      /\ mgr[r].pc \in Dispatching
  BY ManagerNow, StepTypes DEF ScheduleInv, ManagerOK, ManagerStates,
     Preflight, At, Dispatching
<1>1. CASE AfterVerdict(r)
  BY <1>0, <1>1, VerdictKeeps DEF Preflight
<1>2. CASE /\ Verdict(r) = "ready" /\ UNCHANGED faults
           /\ mgr' = [mgr EXCEPT ![r].pc = "provision"]
  <2>1. status' = status /\ runOf' = runOf
    BY <1>2 DEF Preflight, RecordVerdict
  <2> DEFINE m == [mgr[r] EXCEPT !.pc = "provision"]
  <2>2. m \in ManagerStates
    BY <1>0 DEF ManagerOK, ManagerStates, Dispatching
  <2>3. ManagerOK(r, m) /\ m.cand = mgr[r].cand /\ mgr' = [mgr EXCEPT ![r] = m]
    BY <1>0, <1>2, <2>2 DEF ManagerOK, ManagerStates, Dispatching
  <2>4. cancelled' \subseteq Replicas /\ faults' \in Nat
    BY <1>2, StepTypes DEF Preflight, ScheduleInv
  <2> HIDE DEF m
  <2> QED BY <2>1, <2>3, <2>4, ManagerStep DEF Preflight, store
<1> QED BY <1>1, <1>2 DEF Preflight

(* A completion writes a claim that is still its own, which has no run. *)
LEMMA CompleteKeeps ==
    ASSUME ScheduleInv, NEW r \in Replicas, Complete(r)
    PROVE  ScheduleInv'
<1>0. /\ ManagerOK(r, mgr[r]) /\ mgr \in [Replicas -> ManagerStates]
      /\ mgr[r].key \in Keys /\ mgr[r].pc = "complete"
      /\ mgr[r].linked \in 0..MaxRuns
      /\ mgr[r].outcome \in {"started", "skipped", "failed"}
  BY ManagerNow, StepTypes DEF ScheduleInv, ManagerOK, ManagerStates,
     Complete, At, Dispatching, Settled
<1>1. cancelled' \subseteq Replicas /\ faults' \in Nat
  BY StepTypes DEF Complete, EndDispatch, Fault, ScheduleInv
<1>2. CASE status' = status /\ runOf' = runOf
  BY <1>1, <1>2, EndDispatchKeeps DEF Complete, store
<1>3. CASE /\ status[mgr[r].key] = "claimed"
           /\ status' = [status EXCEPT ![mgr[r].key] = mgr[r].outcome]
           /\ runOf' = [runOf EXCEPT ![mgr[r].key] = mgr[r].linked]
  <2>1. mgr[r].outcome \in {"skipped", "failed"}
    BY <1>0, <1>3 DEF ManagerOK
  <2>2. /\ ManagerOK(r, Finish(mgr[r])) /\ Finish(mgr[r]).cand = 0
        /\ mgr' = [mgr EXCEPT ![r] = Finish(mgr[r])]
    BY <1>0, FinishOK DEF ScheduleInv, TypeOK, Complete, EndDispatch
  <2>3. PICK m : m = Finish(mgr[r])
    OBVIOUS
  <2> QED BY <1>0, <1>1, <1>3, <2>1, <2>2, <2>3, SettleKeeps DEF Complete
<1> QED BY <1>2, <1>3 DEF Complete

-----------------------------------------------------------------------------
(* A claim of the armed time: nobody has claimed it before, so it has no run. *)
LEMMA ClaimKeeps ==
    ASSUME ScheduleInv, NEW r \in Replicas, Claim(r)
    PROVE  ScheduleInv'
<1>0. /\ ManagerOK(r, mgr[r]) /\ mgr \in [Replicas -> ManagerStates]
      /\ mgr[r].pc = "due"
      /\ mgr[r].due \in ScheduleRows /\ mgr[r].due.next <= mgr[r].now
      /\ mgr[r].now \in 0..MaxTime
  BY ManagerNow, StepTypes DEF ScheduleInv, ManagerOK, ManagerStates, Claim,
     At
<1>u. UNCHANGED <<clock, task, created, runOf, aged, run, occOf, files,
                  operator, cancelled, stopping, bounds>>
  BY DEF Claim
<1>1. CASE ~Claimable(mgr[r].due)
  <2>1. mgr' = [mgr EXCEPT ![r] = Idle] /\ UNCHANGED <<status, owner, schedule>>
    BY <1>1 DEF Claim
  <2>2. ManagerOK(r, Idle) /\ Idle.cand = 0
    BY IdleOK DEF ScheduleInv, Idle
  <2>3. cancelled' \subseteq Replicas /\ faults' \in Nat
    BY <1>u, StepTypes DEF bounds, ScheduleInv
  <2> QED BY <1>u, <2>1, <2>2, <2>3, ManagerStep DEF store, bounds
<1>2. CASE Claimable(mgr[r].due)
  <2>0. /\ schedule \in ScheduleRows /\ schedule # NoSchedule
        /\ schedule.id = mgr[r].due.id /\ schedule.next = mgr[r].due.next
        /\ schedule.next > 0 /\ schedule.id <= created /\ schedule.rev \in Nat
    BY <1>2 DEF Claimable, ScheduleInv, TypeOK, RowsOfSchedule, ScheduleRows
  <2>k. PICK k \in Keys : k = KeyOf(mgr[r].due) /\ k[1] = schedule.id
    <3>1. schedule.id \in 1..MaxSchedules /\ schedule.next \in 1..(MaxTime + 1)
      BY <1>0, <2>0, ScheduleBoundsAssumption DEF ScheduleRows
    <3>2. KeyOf(mgr[r].due) = <<schedule.id, schedule.next>>
      BY <2>0 DEF KeyOf
    <3>3. <<schedule.id, schedule.next>> \in Keys
      BY <3>1 DEF Keys
    <3>4. <<schedule.id, schedule.next>>[1] = schedule.id
      OBVIOUS
    <3> QED BY <3>2, <3>3, <3>4
  <2>1. /\ status' = [status EXCEPT ![k] = "claimed"] /\ status[k] = "none"
        /\ owner' = [owner EXCEPT ![k] = r]
        /\ mgr' = [mgr EXCEPT ![r] = [Idle EXCEPT !.pc = "get", !.phase = "due", !.key = k]]
    BY <1>2, <2>k DEF Claim, Claimable
  <2>2. PICK n \in Nat : n = NextAfter(mgr[r].due.kind, Now(r))
    <3>1. Now(r) \in Nat
      BY AheadAssumption, ScheduleBoundsAssumption DEF Now, ScheduleInv,
         TypeOK
    <3> QED BY <3>1 DEF NextAfter
  <2>3. /\ schedule' \in ScheduleRows /\ schedule'.id = schedule.id
        /\ schedule'.rev > 0
        /\ schedule'.enabled => schedule'.next > 0
    <3>1. PICK e \in BOOLEAN : e = (n # 0)
      OBVIOUS
    <3>v. PICK v \in Nat : v = schedule.rev + 1 /\ v > 0
      BY <2>0
    <3>2. schedule' = [schedule EXCEPT !.next = n, !.enabled = e, !.rev = v]
      BY <1>2, <2>0, <2>2, <3>1, <3>v DEF Claim
    <3>3. /\ schedule' \in ScheduleRows /\ schedule'.id = schedule.id
          /\ schedule'.rev = v
          /\ schedule'.enabled = e /\ schedule'.next = n
      BY <2>0, <3>2 DEF ScheduleRows
    <3>4. e => n > 0
      <4>1. e => n # 0
        BY <3>1, Zenon
      <4>2. n # 0 => n > 0
        OBVIOUS
      <4> QED BY <4>1, <4>2
    <3> QED BY <3>v, <3>3, <3>4
  <2>4. PICK m : m = [Idle EXCEPT !.pc = "get", !.phase = "due", !.key = k]
    OBVIOUS
  <2>5. m \in ManagerStates
    BY <2>4, IdleOK DEF ScheduleInv, ManagerOK, ManagerStates, Dispatching
  <2>6. /\ m.pc = "get" /\ m.key = k /\ m.cand = 0 /\ m.now = 0 /\ m.list = {}
        /\ m.linked = 0
        /\ m.outcome = "failed" /\ m.published = FALSE
    BY <2>4 DEF Idle
  <2> HIDE DEF Idle
  <2>7. TypeOK' /\ clock' >= clock /\ issued' >= issued
    <3>1. /\ status' \in [Keys -> {"none", "claimed"} \cup Settled]
          /\ owner' \in [Keys -> Replicas \cup {Nobody}]
          /\ mgr' \in [Replicas -> ManagerStates]
      BY <1>0, <2>1, <2>4, <2>5 DEF ScheduleInv, TypeOK
    <3>2. clock' >= clock /\ issued' >= issued
      BY <1>u DEF ScheduleInv, TypeOK, files
    <3> QED BY <1>u, <2>3, <3>1, <3>2 DEF ScheduleInv, TypeOK, files,
       operator, bounds
  <2>8. (\A j \in Keys : j # k => status'[j] = status[j]) /\ status'[k] = "claimed"
    BY <2>1 DEF ScheduleInv, TypeOK
  <2>9. \A j \in Keys : Spent(j) => Spent(j)'
    BY <1>u, <2>0, <2>3, <2>8 DEF Spent
  <2>10. Spent(k)' /\ ~Spent(k)
    BY <1>u, <2>0, <2>k, <2>1, <2>8 DEF Spent
  <2>11. RowsOfSchedule'
    <3>1. schedule' # NoSchedule
      BY <2>3, NoScheduleAssumption
    <3> QED BY <1>u, <2>0, <2>k, <2>3, <2>8, <3>1 DEF RowsOfSchedule,
       ScheduleInv
  <2>12. SpentHistory'
    BY <1>u, <2>9 DEF SpentHistory, ScheduleInv, TypeOK
  <2>13. Ledger'
    <3>1. RunsFor(k) = {}
      BY <2>10, KeyFacts DEF RunsFor, ScheduleInv, SpentHistory
    <3>2. \A j \in Keys : RunsFor(j)' = RunsFor(j)
      BY <1>u DEF RunsFor
    <3> QED BY <1>u, <2>8, <3>1, <3>2 DEF Ledger, ScheduleInv
  <2>14. EditPrepared' /\ FreshIds' /\ RunKeepsWorkspace' /\ ClocksBounded'
    BY <1>u DEF ScheduleInv, EditPrepared, FreshIds, RunKeepsWorkspace,
       ClocksBounded, Now, files, operator
  <2>15. ManagerOK(r, m)'
    <3>1. 0 <= Now(r)'
      BY <1>u, AheadAssumption, ScheduleBoundsAssumption DEF Now, ScheduleInv,
         TypeOK
    <3>2. 0 <= issued'
      BY <2>7, ScheduleBoundsAssumption DEF TypeOK
    <3> QED BY <2>5, <2>6, <2>10, <3>1, <3>2, KeyFacts DEF ManagerOK,
       Dispatching
  <2>16. ManagersOK' /\ CandidatesDistinct'
    <3>1. \A j \in Keys : Spent(j) /\ status[j] \in {"none", "started"} =>
                            status'[j] \in {"none", "started"}
      BY <2>8, <2>10
    <3>2. \A i \in RunIds : run'[i] = run[i] /\ dir'[i] = dir[i]
      BY <1>u DEF files
    <3>3. mgr' = [mgr EXCEPT ![r] = m] /\ m.cand \in {0, mgr[r].cand}
      BY <2>1, <2>4, <2>6
    <3> QED BY <2>7, <2>9, <2>15, <3>1, <3>2, <3>3, OthersStay
  <2> QED BY <2>7, <2>11, <2>12, <2>13, <2>14, <2>16 DEF ScheduleInv
<1> QED BY <1>1, <1>2

(* A candidate is a new id with a directory of its own. *)
LEMMA ProvisionKeeps ==
    ASSUME ScheduleInv, NEW r \in Replicas, Provision(r)
    PROVE  ScheduleInv'
<1>0. /\ ManagerOK(r, mgr[r]) /\ mgr[r] \in ManagerStates
      /\ mgr[r].pc = "provision"
      /\ mgr \in [Replicas -> ManagerStates] /\ issued \in Nat
  BY ManagerNow, StepTypes, ScheduleBoundsAssumption DEF ScheduleInv,
     Provision, At
<1>u. UNCHANGED <<clock, store, operator, cancelled, stopping, bounds>>
  BY DEF Provision
<1>1. PICK c \in RunIds : c = issued + 1
  BY <1>0, ScheduleBoundsAssumption DEF Provision, RunIds
<1>2. issued' = c /\ dir' = [dir EXCEPT ![c] = "present"]
  BY <1>1 DEF Provision
<1>3. PICK m : m = [mgr[r] EXCEPT !.pc = "admit", !.cand = c, !.published = TRUE]
  OBVIOUS
<1>4. mgr' = [mgr EXCEPT ![r] = m]
  BY <1>0, <1>1, <1>3 DEF Provision
<1>5. m \in ManagerStates
  <2>1. c \in 0..MaxRuns
    BY ScheduleBoundsAssumption DEF RunIds
  <2> QED BY <1>0, <1>3, <2>1, ProvisionedState
<1>6. /\ m.pc = "admit" /\ m.cand = c /\ m.key = mgr[r].key /\ m.now = mgr[r].now
      /\ m.list = mgr[r].list /\ m.linked = mgr[r].linked
      /\ m.outcome = mgr[r].outcome
  BY <1>0, <1>3 DEF ManagerStates
<1>7. /\ \A i \in RunIds : i # c => dir'[i] = dir[i]
      /\ dir'[c] = "present" /\ run[c] = "none" /\ run' = run
  BY <1>0, <1>1, <1>2, <1>u DEF ScheduleInv, TypeOK, FreshIds, RunIds, store
<1>8. TypeOK' /\ clock' >= clock /\ issued' >= issued
  <2>1. mgr' \in [Replicas -> ManagerStates] /\ issued' \in 0..MaxRuns
    BY <1>0, <1>2, <1>4, <1>5, ScheduleBoundsAssumption DEF RunIds
  <2>2. dir' \in [RunIds -> {"none", "present", "removed"}]
    BY <1>2 DEF ScheduleInv, TypeOK
  <2>3. clock' >= clock /\ issued' >= issued
    BY <1>0, <1>1, <1>2, <1>u DEF ScheduleInv, TypeOK
  <2> QED BY <1>u, <2>1, <2>2, <2>3 DEF ScheduleInv, TypeOK, store, operator,
     bounds
<1>9. FreshIds' /\ RunKeepsWorkspace'
  <2>1. \A i \in RunIds : i > c => i > issued /\ i # c
    BY <1>0, <1>1 DEF RunIds
  <2> QED BY <1>2, <1>7, <1>u, <2>1 DEF FreshIds, RunKeepsWorkspace,
     ScheduleInv, store
<1>10. /\ RowsOfSchedule' /\ EditPrepared' /\ SpentHistory'
       /\ Ledger' /\ ClocksBounded'
  BY <1>u DEF ScheduleInv, RowsOfSchedule, EditPrepared, SpentHistory, Spent,
     Ledger, RunsFor, ClocksBounded, Now, store, operator
<1>11. ManagerOK(r, m)'
  <2>1. m.key # NoKey /\ Spent(m.key)' /\ \A k \in m.list : Spent(k)'
    BY <1>0, <1>6, <1>u DEF ManagerOK, Spent, store, Dispatching
  <2>2. c <= issued' /\ c > 0 /\ m.now <= Now(r)' /\ status' = status
    BY <1>0, <1>2, <1>6, <1>u, ScheduleBoundsAssumption DEF ManagerOK, Now,
       store, RunIds
  <2> QED BY <1>0, <1>5, <1>6, <1>7, <2>1, <2>2 DEF ManagerOK, Dispatching
<1>12. ManagersOK' /\ CandidatesDistinct'
  <2>1. m.cand > issued /\ \A i \in RunIds : i <= issued => i # c
    BY <1>0, <1>1, <1>6 DEF RunIds
  <2>2. \A k \in Keys : (Spent(k) => Spent(k)') /\ status'[k] = status[k]
    BY <1>u DEF Spent, store
  <2> QED BY <1>4, <1>7, <1>8, <1>11, <2>1, <2>2, OthersStay
<1> QED BY <1>8, <1>9, <1>10, <1>12 DEF ScheduleInv

(* A directory that is removed belongs to no run, and to no other candidate. *)
LEMMA CleanupKeeps ==
    ASSUME ScheduleInv, NEW r \in Replicas, Cleanup(r)
    PROVE  ScheduleInv'
<1>0. /\ ManagerOK(r, mgr[r]) /\ mgr[r] \in ManagerStates /\ mgr[r].pc = "cleanup"
      /\ mgr \in [Replicas -> ManagerStates] /\ issued \in Nat
  BY ManagerNow, StepTypes, ScheduleBoundsAssumption DEF ScheduleInv, Cleanup,
     At
<1>u. UNCHANGED <<clock, store, issued, operator, cancelled, stopping, stops, late>>
  BY DEF Cleanup
<1>1. PICK c \in RunIds : c = mgr[r].cand /\ c <= issued
  BY <1>0, ScheduleBoundsAssumption DEF ManagerOK, ManagerStates, RunIds
<1>2. /\ dir' \in [RunIds -> {"none", "present", "removed"}]
      /\ \A i \in RunIds : i # c => dir'[i] = dir[i]
      /\ dir'[c] = "removed" => dir[c] = "removed" \/ run[c] = "none"
  BY <1>1 DEF Cleanup, ScheduleInv, TypeOK
<1>3. PICK pc \in {"complete", "lookup"} : mgr' = [mgr EXCEPT ![r].pc = pc]
  BY DEF Cleanup
<1>4. PICK m : m = [mgr[r] EXCEPT !.pc = pc]
  OBVIOUS
<1>5. mgr' = [mgr EXCEPT ![r] = m] /\ m.cand = mgr[r].cand
  BY <1>0, <1>3, <1>4 DEF ManagerStates
<1>6. m \in ManagerStates
  BY <1>0, <1>4 DEF ManagerStates, Dispatching
<1>7. ManagerOK(r, m)
  BY <1>0, <1>4, <1>6 DEF ManagerOK, ManagerStates, Dispatching
<1>8. m.pc # "admit"
  BY <1>0, <1>4 DEF ManagerStates
<1>9. TypeOK' /\ clock' >= clock /\ issued' >= issued
  <2>1. mgr' \in [Replicas -> ManagerStates] /\ faults' \in Nat
    BY <1>0, <1>5, <1>6 DEF Cleanup, Fault, ScheduleInv, TypeOK
  <2>2. clock' >= clock /\ issued' >= issued
    BY <1>u DEF ScheduleInv, TypeOK
  <2> QED BY <1>u, <1>2, <2>1, <2>2 DEF ScheduleInv, TypeOK, store, operator
<1>10. FreshIds' /\ RunKeepsWorkspace'
  <2>1. \A i \in RunIds : i > issued => i # c
    BY <1>0, <1>1 DEF RunIds
  <2> QED BY <1>2, <1>u, <2>1 DEF FreshIds, RunKeepsWorkspace, ScheduleInv,
     store
<1>11. /\ RowsOfSchedule' /\ EditPrepared' /\ SpentHistory'
       /\ Ledger' /\ ClocksBounded'
  BY <1>u DEF ScheduleInv, RowsOfSchedule, EditPrepared, SpentHistory, Spent,
     Ledger, RunsFor, ClocksBounded, Now, store, operator
<1>12. ManagersOK' /\ CandidatesDistinct'
  <2>1. \A k \in Keys : (Spent(k) => Spent(k)') /\ status'[k] = status[k]
    BY <1>u DEF Spent, store
  <2>2. ManagerOK(r, m)'
    <3>1. clock \in Nat /\ clock' \in Nat /\ issued \in Nat /\ issued' \in Nat
      BY <1>u, ScheduleBoundsAssumption DEF ScheduleInv, TypeOK
    <3> QED BY <1>7, <1>8, <1>9, <2>1, <3>1, ManagerStays
  <2>3. \A i \in RunIds \ {mgr[r].cand} : run'[i] = run[i] /\ dir'[i] = dir[i]
    BY <1>1, <1>2, <1>u DEF store
  <2> QED BY <1>5, <1>9, <2>1, <2>2, <2>3, OthersStay
<1> QED BY <1>9, <1>10, <1>11, <1>12 DEF ScheduleInv

(* An admitted candidate becomes the one run of its occurrence. *)
LEMMA AdmitKeeps ==
    ASSUME ScheduleInv, NEW r \in Replicas, Admit(r)
    PROVE  ScheduleInv'
<1>0. /\ ManagerOK(r, mgr[r]) /\ mgr[r] \in ManagerStates /\ mgr[r].pc = "admit"
      /\ mgr \in [Replicas -> ManagerStates] /\ issued \in Nat
      /\ mgr[r].key \in Keys
      /\ mgr[r].pc \in Dispatching
  BY ManagerNow, StepTypes, ScheduleBoundsAssumption DEF ScheduleInv, Admit,
     At, ManagerOK, ManagerStates, Dispatching
<1>u. UNCHANGED <<clock, task, schedule, created, owner, aged, files, operator,
                  cancelled, stopping, stops, late>>
  BY DEF Admit
<1>1. CASE Verdict(r) # "ready"
  <2>1. RecordVerdict(r) /\ AfterVerdict(r) /\ UNCHANGED <<run, occOf>>
    BY <1>1 DEF Admit
  <2> QED BY <1>0, <1>u, <2>1, VerdictKeeps
<1>2. CASE Verdict(r) = "ready"
  <2>k. PICK k \in Keys : k = mgr[r].key
    BY <1>0
  <2>c. PICK c \in RunIds : c = mgr[r].cand /\ c <= issued
    BY <1>0, ScheduleBoundsAssumption DEF ManagerOK, ManagerStates, RunIds
  <2>0. /\ status[k] = "claimed" /\ run[c] = "none" /\ dir[c] # "removed"
        /\ RunsFor(k) = {} /\ Spent(k)
    <3>1. status[k] = "claimed"
      BY <1>2, <2>k, VerdictFacts
    <3>2. run[c] = "none" /\ dir[c] # "removed" /\ Spent(k)
      BY <1>0, <2>k, <2>c DEF ManagerOK, Dispatching
    <3> QED BY <3>1, <3>2 DEF ScheduleInv, Ledger
  <2>1. /\ run' = [run EXCEPT ![c] = "active"] /\ occOf' = [occOf EXCEPT ![c] = k]
        /\ status' = [status EXCEPT ![k] = "started"]
        /\ runOf' = [runOf EXCEPT ![k] = c]
    BY <1>2, <2>k, <2>c DEF Admit, InsertRun
  <2>2. PICK p \in BOOLEAN, err \in {"none", "ctx", "lost", "active", "failed"},
             out \in Settled, pc \in {"cleanup", "lookup", "complete"} :
           mgr' = [mgr EXCEPT ![r] = [mgr[r] EXCEPT !.published = p, !.err = err,
                                                    !.outcome = out, !.pc = pc]]
    <3>e. /\ mgr[r].err \in {"none", "ctx", "lost", "active", "failed"}
          /\ mgr[r].outcome \in Settled
      BY <1>0 DEF ManagerStates
    <3>1. CASE mgr' = [mgr EXCEPT ![r] = Succeed([@ EXCEPT !.published = FALSE])]
      <4>1. PICK p \in BOOLEAN : p = FALSE
        OBVIOUS
      <4>2. PICK n : n = [mgr[r] EXCEPT !.published = p]
        OBVIOUS
      <4>3. Succeed(n) = [n EXCEPT !.outcome = "started", !.pc = "complete"]
        BY <1>0, <4>1, <4>2 DEF Succeed, ManagerStates
      <4>4. Succeed(n) = [mgr[r] EXCEPT !.published = p, !.err = mgr[r].err,
                                        !.outcome = "started", !.pc = "complete"]
        BY <1>0, <4>2, <4>3 DEF ManagerStates
      <4>5. mgr' = [mgr EXCEPT ![r] = Succeed(n)]
        BY <3>1, <4>1, <4>2
      <4> QED BY <3>e, <4>4, <4>5 DEF Settled
    <3>2. ASSUME NEW p \in BOOLEAN,
                 mgr' = [mgr EXCEPT ![r] = Fail([@ EXCEPT !.published = p], "failed")]
          PROVE  \E q \in BOOLEAN, err \in {"none", "ctx", "lost", "active", "failed"},
                    out \in Settled, pc \in {"cleanup", "lookup", "complete"} :
                   mgr' = [mgr EXCEPT ![r] = [mgr[r] EXCEPT !.published = q, !.err = err,
                                                            !.outcome = out, !.pc = pc]]
      <4>1. PICK n : n = [mgr[r] EXCEPT !.published = p]
        OBVIOUS
      <4>2. PICK pc \in {"cleanup", "lookup"} :
               Fail(n, "failed") = [n EXCEPT !.err = "failed", !.pc = pc]
        BY DEF Fail
      <4>3. Fail(n, "failed") = [mgr[r] EXCEPT !.published = p, !.err = "failed",
                                               !.outcome = mgr[r].outcome, !.pc = pc]
        BY <1>0, <4>1, <4>2 DEF ManagerStates
      <4>4. mgr' = [mgr EXCEPT ![r] = Fail(n, "failed")]
        BY <3>2, <4>1
      <4> QED BY <3>e, <4>3, <4>4
    <3> QED BY <1>2, <3>1, <3>2 DEF Admit
  <2>3. PICK m : m = [mgr[r] EXCEPT !.published = p, !.err = err, !.outcome = out, !.pc = pc]
    OBVIOUS
  <2>4. m \in ManagerStates
    BY <1>0, <2>3 DEF ManagerStates, Dispatching
  <2>5. /\ m.pc = pc /\ m.cand = c /\ m.key = k /\ m.now = mgr[r].now
        /\ m.list = mgr[r].list /\ mgr' = [mgr EXCEPT ![r] = m]
    BY <1>0, <2>k, <2>c, <2>2, <2>3 DEF ManagerStates
  <2>6. /\ \A j \in Keys : j # k => status'[j] = status[j] /\ runOf'[j] = runOf[j]
        /\ status'[k] = "started" /\ runOf'[k] = c
    BY <2>1 DEF ScheduleInv, TypeOK
  <2>7. /\ \A i \in RunIds : i # c => run'[i] = run[i] /\ occOf'[i] = occOf[i]
        /\ run'[c] = "active" /\ occOf'[c] = k
    BY <2>1 DEF ScheduleInv, TypeOK
  <2>8. TypeOK' /\ clock' >= clock /\ issued' >= issued
    <3>1. /\ mgr' \in [Replicas -> ManagerStates] /\ faults' \in Nat
      BY <1>0, <2>4, <2>5 DEF Admit, AfterVerdict, Fault, ScheduleInv, TypeOK
    <3>2. /\ status' \in [Keys -> {"none", "claimed"} \cup Settled]
          /\ runOf' \in [Keys -> 0..MaxRuns]
          /\ run' \in [RunIds -> {"none", "active", "terminal"}]
          /\ occOf' \in [RunIds -> Keys \cup {NoKey}]
      BY <2>1, ScheduleBoundsAssumption DEF ScheduleInv, TypeOK, Settled,
         RunIds
    <3>3. clock' >= clock /\ issued' >= issued
      BY <1>u DEF ScheduleInv, TypeOK, files
    <3> QED BY <1>u, <3>1, <3>2, <3>3 DEF ScheduleInv, TypeOK, files, operator
  <2>9. \A j \in Keys : Spent(j) => Spent(j)'
    BY <1>u, <2>6 DEF Spent
  <2>10. RowsOfSchedule' /\ SpentHistory'
    <3>1. RowsOfSchedule'
      BY <1>u, <2>0, <2>6 DEF RowsOfSchedule, ScheduleInv
    <3>2. SpentHistory'
      BY <1>u, <2>0, <2>7, <2>9 DEF SpentHistory, ScheduleInv, TypeOK
    <3> QED BY <3>1, <3>2
  <2>11. Ledger'
    <3>1. RunsFor(k)' = {c}
      BY <2>0, <2>7 DEF RunsFor
    <3>2. \A j \in Keys : j # k => RunsFor(j)' = RunsFor(j)
      BY <2>0, <2>7 DEF RunsFor
    <3> QED BY <2>6, <3>1, <3>2 DEF Ledger, ScheduleInv
  <2>12. FreshIds' /\ RunKeepsWorkspace'
    <3>1. \A i \in RunIds : i > issued => i # c
      BY <1>0, <2>c DEF RunIds
    <3> QED BY <1>u, <2>0, <2>7, <3>1 DEF FreshIds, RunKeepsWorkspace,
       ScheduleInv, files
  <2>13. EditPrepared' /\ ClocksBounded'
    BY <1>u DEF ScheduleInv, EditPrepared, ClocksBounded, Now, operator
  <2>14. ManagerOK(r, m)'
    <3>1. m.key # NoKey /\ Spent(m.key)' /\ \A j \in m.list : Spent(j)'
      BY <1>0, <2>0, <2>4, <2>5, <2>9, KeyFacts DEF ManagerOK, ManagerStates
    <3>2. c <= issued' /\ c > 0 /\ m.now <= Now(r)'
      BY <1>0, <1>u, <2>c, <2>5, ScheduleBoundsAssumption DEF ManagerOK, Now,
         files, RunIds
    <3> QED BY <2>4, <2>5, <2>6, <3>1, <3>2 DEF ManagerOK, Dispatching
  <2>15. ManagersOK' /\ CandidatesDistinct'
    <3>1. \A j \in Keys : Spent(j) /\ status[j] \in {"none", "started"} =>
                            status'[j] \in {"none", "started"}
      BY <2>6
    <3>2. \A i \in RunIds \ {mgr[r].cand} : run'[i] = run[i] /\ dir'[i] = dir[i]
      BY <1>u, <2>c, <2>7 DEF files
    <3>3. m.cand \in {0, mgr[r].cand}
      BY <2>c, <2>5
    <3> QED BY <2>5, <2>8, <2>9, <2>14, <3>1, <3>2, <3>3, OthersStay
  <2> QED BY <2>8, <2>10, <2>11, <2>12, <2>13, <2>15 DEF ScheduleInv
<1> QED BY <1>1, <1>2

-----------------------------------------------------------------------------
(* The initial states satisfy the invariant. *)
LEMMA InitEstablishes ==
    ASSUME Init
    PROVE  ScheduleInv
<1> USE ScheduleBoundsAssumption
<1>1. schedule \in {NoSchedule} \cup ScheduleRows /\ created \in 0..MaxSchedules
      /\ (schedule # NoSchedule => /\ schedule.id <= created /\ schedule.rev > 0
                                   /\ schedule.next > 0)
  <2>1. CASE schedule = NoSchedule /\ created = 0
    BY <2>1
  <2>2. ASSUME NEW kind \in Kinds, created = 1,
               schedule = [id |-> 1, kind |-> kind, enabled |-> TRUE, next |-> 1, rev |-> 1]
        PROVE  /\ schedule \in ScheduleRows /\ created \in 0..MaxSchedules
               /\ schedule.id <= created /\ schedule.rev > 0 /\ schedule.next > 0
    <3>1. 1 \in 1..MaxSchedules /\ 1 \in Nat /\ 1 > 0 /\ TRUE \in BOOLEAN
      OBVIOUS
    <3>2. schedule \in ScheduleRows
      BY <2>2, <3>1, Zenon DEF ScheduleRows
    <3>3. schedule.id = 1 /\ schedule.rev = 1 /\ schedule.next = 1
      BY <2>2
    <3> QED BY <2>2, <3>1, <3>2, <3>3
  <2> QED BY <2>1, <2>2 DEF Init
<1>2. TypeOK
  <2>1. /\ clock \in 0..MaxTime /\ task \in BOOLEAN /\ aged \subseteq Keys
        /\ issued \in 0..MaxRuns /\ cancelled \subseteq Replicas
        /\ stopping \subseteq Replicas
        /\ edits \in Nat /\ stops \in Nat /\ faults \in Nat /\ late \in Nat
    BY DEF Init
  <2>2. /\ status \in [Keys -> {"none", "claimed"} \cup Settled]
        /\ owner \in [Keys -> Replicas \cup {Nobody}]
        /\ runOf \in [Keys -> 0..MaxRuns]
        /\ run \in [RunIds -> {"none", "active", "terminal"}]
        /\ occOf \in [RunIds -> Keys \cup {NoKey}]
        /\ dir \in [RunIds -> {"none", "present", "removed"}]
    BY DEF Init
  <2>3. edit \in [pc : {"idle", "swap"}, s : {NoSchedule} \cup ScheduleRows, expected : Nat]
    BY DEF Init, NoEdit
  <2>4. Idle \in ManagerStates
    BY DEF Idle, ManagerStates, Settled
  <2>5. mgr \in [Replicas -> ManagerStates]
    BY <2>4 DEF Init
  <2> QED BY <1>1, <2>1, <2>2, <2>3, <2>5 DEF TypeOK
<1>3. \A k \in Keys : status[k] = "none"
  BY DEF Init
<1>4. \A i \in RunIds : run[i] = "none" /\ occOf[i] = NoKey /\ dir[i] = "none"
  BY DEF Init
<1>5. RowsOfSchedule /\ EditPrepared
  BY <1>1, <1>3 DEF Init, NoEdit, RowsOfSchedule, EditPrepared
<1>6. SpentHistory /\ FreshIds /\ RunKeepsWorkspace
  BY <1>4 DEF Init, SpentHistory, FreshIds, RunKeepsWorkspace
<1>7. ClocksBounded
  BY AheadAssumption DEF Init, ClocksBounded, Now
<1>8. ManagersOK /\ CandidatesDistinct
  <2>1. \A r \in Replicas : mgr[r] = Idle
    BY DEF Init
  <2>2. ManagersOK
    BY <1>2, <2>1, IdleOK DEF ManagersOK
  <2>3. Idle.cand = 0
    BY DEF Idle
  <2> QED BY <2>1, <2>2, <2>3 DEF CandidatesDistinct
<1>9. Ledger
  BY <1>3, <1>4 DEF Ledger, RunsFor
<1> QED BY <1>2, <1>5, <1>6, <1>7, <1>8, <1>9 DEF ScheduleInv

(* A step that changes nothing. *)
LEMMA StutterKeeps ==
    ASSUME ScheduleInv, UNCHANGED vars
    PROVE  ScheduleInv'
<1>1. UNCHANGED <<clock, store, files, operator, mgr>>
  BY DEF vars
<1>2. /\ cancelled' \subseteq Replicas /\ stopping' \subseteq Replicas
      /\ stops' \in Nat /\ faults' \in Nat /\ late' \in Nat
  BY DEF vars, bounds, ScheduleInv, TypeOK
<1> QED BY <1>1, <1>2, SignalKeeps

(* A step of a dispatch or of a pass. *)
LEMMA StepKeeps ==
    ASSUME ScheduleInv, NEW r \in Replicas, Step(r)
    PROVE  ScheduleInv'
<1>1. ASSUME Exit(r) PROVE ScheduleInv'
  <2>1. Restart(r) /\ stops' \in Nat
    BY <1>1 DEF Exit, ScheduleInv, TypeOK
  <2> QED BY <2>1, RestartKeeps
<1> QED BY <1>1, InspectStaleKeeps, ReclaimKeeps, ReclaimMissedKeeps,
   ListDueKeeps, ClaimKeeps, GetTaskKeeps, PreflightKeeps, ProvisionKeeps,
   AdmitKeeps, CleanupKeeps, LookupKeeps, CompleteKeeps, CallCancelledKeeps,
   CallFailsKeeps, AbandonKeeps DEF Step

(* The next-state relation preserves the invariant. *)
LEMMA NextKeeps ==
    ASSUME ScheduleInv, [Next]_vars
    PROVE  ScheduleInv'
<1>1. CASE UNCHANGED vars
  BY <1>1, StutterKeeps
<1>2. ASSUME NEW r \in Replicas, Crash(r) PROVE ScheduleInv'
  <2>1. Restart(r) /\ stops' \in Nat
    BY <1>2 DEF Crash, Stop, ScheduleInv, TypeOK
  <2> QED BY <2>1, RestartKeeps
<1>3. CASE Next
  BY <1>2, <1>3, TickKeeps, AgeKeeps, UpsertReadKeeps, UpsertSwapKeeps,
     UpsertRetryKeeps, DeleteTaskScheduleKeeps, DeleteTaskKeeps,
     StartManuallyKeeps, FinishRunKeeps, BeginPassKeeps, StepKeeps,
     RenewKeeps, RenewalLostKeeps, ShutdownKeeps DEF Next
<1> QED BY <1>1, <1>3

-----------------------------------------------------------------------------
(* The invariant the other theorems rest on: the rows, the edits, the      *)
(* managers' notes and candidates, the ledger and the directories stay     *)
(* related as ScheduleInv says, through every transaction of               *)
(* schedule_sql.go, every stretch of a manager's pass, every crash, fault  *)
(* and takeover.                                                           *)
THEOREM ScheduleInvariant == Spec => []ScheduleInv
<1>1. Init => ScheduleInv
  BY InitEstablishes
<1>2. ScheduleInv /\ [Next]_vars => ScheduleInv'
  BY NextKeeps
<1> QED BY <1>1, <1>2, PTL DEF Spec

(* The rows, the managers' states and the counters keep their types. *)
THEOREM TypeCorrect == Spec => []TypeOK
<1>1. ScheduleInv => TypeOK
  BY DEF ScheduleInv
<1> QED BY <1>1, ScheduleInvariant, PTL

(* The occurrence rows that ApplyTaskScheduleRunAdmission and              *)
(* CompleteTaskScheduleOccurrence write tell the truth about runs: a       *)
(* started occurrence has exactly one run, the one it names, one that is   *)
(* claimed, skipped or failed has none, and none is ever started twice.    *)
THEOREM LedgerTellsTheTruth == Spec => []LedgerMatchesRuns
<1>1. ASSUME ScheduleInv, NEW k \in Keys
      PROVE  \/ status[k] = "none" /\ Cardinality(RunsFor(k)) <= 1
             \/ status[k] = "started" /\ RunsFor(k) = {runOf[k]}
             \/ status[k] \in {"claimed", "skipped", "failed"} /\ RunsFor(k) = {}
  <2>1. status[k] \in {"none", "claimed", "started", "skipped", "failed"}
    BY <1>1 DEF ScheduleInv, TypeOK, Settled
  <2>2. /\ \A i, j \in RunsFor(k) : i = j
        /\ status[k] = "started" => runOf[k] \in RunsFor(k)
        /\ status[k] \in {"claimed", "skipped", "failed"} => RunsFor(k) = {}
    BY <1>1 DEF ScheduleInv, Ledger
  <2>3. Cardinality(RunsFor(k)) <= 1
    <3>1. CASE RunsFor(k) = {}
      BY <3>1, FS_EmptySet
    <3>2. CASE RunsFor(k) # {}
      <4>1. PICK i : RunsFor(k) = {i}
        BY <2>2, <3>2
      <4> QED BY <4>1, FS_Singleton
    <3> QED BY <3>1, <3>2
  <2> QED BY <2>1, <2>2, <2>3
<1>2. ScheduleInv => LedgerMatchesRuns
  BY <1>1 DEF LedgerMatchesRuns
<1> QED BY <1>2, ScheduleInvariant, PTL

(* cleanupUnreferencedScheduledWorkspace never takes the workspace of a    *)
(* run, whatever the start was told about its commit.                      *)
THEOREM WorkspaceKept == Spec => []RunKeepsWorkspace
<1>1. ScheduleInv => RunKeepsWorkspace
  BY DEF ScheduleInv
<1> QED BY <1>1, ScheduleInvariant, PTL

-----------------------------------------------------------------------------
(* What a step does to the rows: it leaves them and the operator's call    *)
(* alone, or it is one of those named.                                     *)
LEMMA QuietOrNamed ==
    ASSUME ScheduleInv, [Next]_vars
    PROVE  \/ UNCHANGED <<status, runOf, schedule, edit>> /\ clock' >= clock
           \/ \E r \in Replicas, kind \in Kinds, enabled \in BOOLEAN :
                UpsertRead(r, kind, enabled)
           \/ UpsertSwap \/ DeleteTaskSchedule \/ DeleteTask
           \/ \E r \in Replicas : \/ UpsertRetry(r) \/ Claim(r) \/ Preflight(r)
                                  \/ Admit(r) \/ Complete(r)
<1> DEFINE Quiet == UNCHANGED <<status, runOf, schedule, edit>> /\ clock' >= clock
<1>0. clock \in 0..MaxTime /\ clock >= clock /\ clock + 1 >= clock
  BY ScheduleBoundsAssumption DEF ScheduleInv, TypeOK
<1>1. ASSUME NEW r \in Replicas,
             \/ \E k \in Keys : InspectStale(r, k)
             \/ Reclaim(r) \/ ReclaimMissed(r) \/ ListDue(r)
             \/ GetTask(r) \/ Provision(r) \/ Cleanup(r)
      PROVE  Quiet
  BY <1>0, <1>1 DEF InspectStale, Reclaim, ReclaimMissed, ListDue, GetTask,
     Provision, Cleanup, store, operator
<1>2. ASSUME NEW r \in Replicas,
             Lookup(r) \/ CallCancelled(r) \/ CallFails(r) \/ Abandon(r) \/ Exit(r)
      PROVE  Quiet
  BY <1>0, <1>2 DEF Lookup, CallCancelled, CallFails, Abandon, Exit, Restart,
     store, operator
<1>3. ASSUME NEW r \in Replicas,
             BeginPass(r) \/ Renew(r) \/ RenewalLost(r) \/ Crash(r) \/ Shutdown(r)
      PROVE  Quiet
  BY <1>0, <1>3 DEF BeginPass, Renew, RenewalLost, Crash, Restart, Shutdown,
     store, operator
<1>4. ASSUME \/ Tick \/ StartManually \/ UNCHANGED vars
             \/ \E k \in Keys : Age(k)
             \/ \E i \in RunIds : FinishRun(i)
      PROVE  Quiet
  BY <1>0, <1>4 DEF Tick, StartManually, vars, Age, FinishRun, store, operator
<1> QED BY <1>1, <1>2, <1>3, <1>4 DEF Next, Step

(* The rows after a verdict. *)
LEMMA VerdictMoves ==
    ASSUME ScheduleInv, NEW r \in Replicas, mgr[r].key \in Keys, RecordVerdict(r)
    PROVE  \A k \in Keys :
                \/ status[k] = "claimed"
                \/ status'[k] = status[k] /\ runOf'[k] = runOf[k]
<1>1. CASE Verdict(r) = "overlap"
  BY <1>1, VerdictFacts DEF RecordVerdict, ScheduleInv, TypeOK
<1>2. CASE Verdict(r) # "overlap"
  BY <1>2, VerdictFacts DEF RecordVerdict
<1> QED BY <1>1, <1>2

(* The rows after a step of a dispatch. *)
LEMMA DispatchMoves ==
    ASSUME ScheduleInv, NEW r \in Replicas, Preflight(r) \/ Admit(r) \/ Complete(r)
    PROVE  /\ \A k \in Keys :
                \/ status[k] = "claimed"
                \/ status'[k] = status[k] /\ runOf'[k] = runOf[k]
           /\ UNCHANGED <<clock, schedule, edit>>
<1>0. mgr[r].key \in Keys
  BY ManagerNow DEF Preflight, Admit, Complete, At, ManagerOK, ManagerStates,
     Dispatching
<1>1. UNCHANGED <<clock, schedule, edit>>
  BY DEF Preflight, Admit, Complete, operator
<1>2. CASE RecordVerdict(r)
  BY <1>0, <1>1, <1>2, VerdictMoves
<1>3. CASE Verdict(r) = "ready" /\ InsertRun(r)
  <2>1. status[mgr[r].key] = "claimed"
    BY <1>0, <1>3, VerdictFacts
  <2> QED BY <1>0, <1>1, <1>3, <2>1 DEF InsertRun, ScheduleInv, TypeOK
<1>4. CASE Complete(r)
  BY <1>0, <1>1, <1>4 DEF Complete, ScheduleInv, TypeOK
<1> QED BY <1>2, <1>3, <1>4 DEF Preflight, Admit

(* A settled occurrence is history: a late CompleteTaskScheduleOccurrence, *)
(* a ReclaimTaskScheduleOccurrence or a displaced dispatcher never changes *)
(* its row, which only a deletion removes.                                 *)
THEOREM SettledStays == Spec => SettledIsFinal
<1> DEFINE Final == \A k \in Keys :
                      status[k] \in Settled => \/ status'[k] = "none"
                                               \/ /\ status'[k] = status[k]
                                                  /\ runOf'[k] = runOf[k]
<1>1. ASSUME ScheduleInv, [Next]_vars PROVE Final
  <2>1. CASE UNCHANGED <<status, runOf>>
    BY <2>1
  <2>2. ASSUME NEW r \in Replicas, Claim(r) PROVE Final
    BY <1>1, <2>2 DEF Claim, Claimable, ScheduleInv, TypeOK, Settled
  <2>3. ASSUME NEW r \in Replicas, Preflight(r) \/ Admit(r) \/ Complete(r) PROVE Final
    BY <1>1, <2>3, DispatchMoves DEF Settled
  <2>4. ASSUME DeleteTaskSchedule \/ DeleteTask PROVE Final
    BY <1>1, <2>4 DEF DeleteTaskSchedule, DeleteTask
  <2>5. ASSUME NEW r \in Replicas,
               \/ \E kind \in Kinds, enabled \in BOOLEAN : UpsertRead(r, kind, enabled)
               \/ UpsertRetry(r)
        PROVE  UNCHANGED <<status, runOf>>
    BY <2>5 DEF UpsertRead, UpsertRetry, store
  <2>6. UpsertSwap => UNCHANGED <<status, runOf>>
    BY DEF UpsertSwap
  <2> QED BY <1>1, <2>1, <2>2, <2>3, <2>4, <2>5, <2>6, QuietOrNamed
<1>2. ScheduleInv /\ [Next]_vars => [Final]_vars
  BY <1>1
<1> QED BY <1>2, ScheduleInvariant, PTL DEF Spec, SettledIsFinal

-----------------------------------------------------------------------------
(* A step that consumes nothing and leaves schedule and edit alone. *)
LEMMA PastStays ==
    ASSUME PastIsConsumed, clock \in Nat, clock' \in Nat, clock' >= clock,
           UNCHANGED <<schedule, edit>>,
           \A k \in Keys : Consumed(k)' => Consumed(k)
    PROVE  PastIsConsumed'
<1>1. \A k \in Keys, r \in Replicas : Consumed(k)' => k[2] <= Now(r)'
  <2>1. \A r \in Replicas : Now(r) \in Nat /\ Now(r)' \in Nat /\ Now(r)' >= Now(r)
    BY AheadAssumption, ScheduleBoundsAssumption DEF Now
  <2>2. \A k \in Keys : k[2] \in Nat
    BY KeyFacts, ScheduleBoundsAssumption
  <2> QED BY <2>1, <2>2 DEF PastIsConsumed
<1> QED BY <1>1 DEF PastIsConsumed

(* A time after now is after every consumed one. *)
LEMMA FutureIsFresh ==
    ASSUME ScheduleInv, PastIsConsumed, NEW r \in Replicas, NEW t \in Nat, t > Now(r)
    PROVE  \A k \in Keys : Consumed(k) => k[2] < t
<1>1. Now(r) \in Nat
  BY AheadAssumption, ScheduleBoundsAssumption DEF Now, ScheduleInv, TypeOK
<1>2. \A k \in Keys : k[2] \in Nat
  BY KeyFacts, ScheduleBoundsAssumption
<1> QED BY <1>1, <1>2 DEF PastIsConsumed

(* A claim consumes a past time and advances the schedule past now, and an *)
(* edit prepared before it can no longer be written.                       *)
LEMMA ClaimKeepsPast ==
    ASSUME ScheduleInv, PastIsConsumed, ClocksAgree, NEW r \in Replicas, Claim(r)
    PROVE  PastIsConsumed'
<1>0. /\ ManagerOK(r, mgr[r]) /\ mgr[r].pc = "due" /\ mgr[r].now \in Nat
      /\ mgr[r].due \in ScheduleRows /\ mgr[r].due.next <= mgr[r].now
  BY ManagerNow, ScheduleBoundsAssumption DEF ManagerOK, ManagerStates, Claim,
     At
<1>t. /\ clock \in Nat /\ Now(r) \in Nat /\ \A q \in Replicas : Now(q) = Now(r)
      /\ \A k \in Keys : k[2] \in Nat
  BY AheadAssumption, ScheduleBoundsAssumption, KeyFacts DEF Now, ScheduleInv,
     TypeOK, ClocksAgree
<1>u. UNCHANGED <<clock, edit>>
  BY DEF Claim, operator
<1>1. CASE ~Claimable(mgr[r].due)
  BY <1>1, <1>t, <1>u, PastStays DEF Claim, Consumed
<1>2. CASE Claimable(mgr[r].due)
  <2>0. /\ schedule \in ScheduleRows /\ schedule # NoSchedule
        /\ schedule.next = mgr[r].due.next /\ schedule.rev \in Nat
        /\ schedule.enabled
    BY <1>2 DEF Claimable, ScheduleInv, TypeOK, ScheduleRows
  <2>1. \A k \in Keys : Consumed(k)' => Consumed(k) \/ k[2] = mgr[r].due.next
    BY <1>2 DEF Claim, Claimable, Consumed, KeyOf, ScheduleInv, TypeOK
  <2>2. mgr[r].due.next <= Now(r) /\ mgr[r].due.next \in Nat
    BY <1>0, <1>t DEF ManagerOK, ScheduleRows
  <2>3. \A k \in Keys : Consumed(k)' => k[2] <= Now(r)
    BY <1>t, <2>1, <2>2 DEF PastIsConsumed
  <2>4. PICK n \in Nat : n = NextAfter(mgr[r].due.kind, Now(r)) /\ (n # 0 => n > Now(r))
    BY <1>t DEF NextAfter
  <2>5. schedule'.rev = schedule.rev + 1 /\ schedule'.next = n /\ (schedule'.enabled => n # 0)
    <3>1. schedule' = [schedule EXCEPT !.next = n, !.enabled = n # 0, !.rev = @ + 1]
      BY <1>2, <2>4 DEF Claim
    <3> QED BY <2>0, <3>1 DEF ScheduleRows
  <2>6. edit.pc = "swap" => edit.expected \in Nat /\ edit.expected <= schedule.rev
    BY <2>0 DEF PastIsConsumed, ScheduleInv, TypeOK
  <2>7. edit.pc = "swap" => edit.expected <= schedule'.rev /\ edit.expected # schedule'.rev
    BY <2>0, <2>5, <2>6
  <2>8. \A q \in Replicas : Now(q)' = Now(r)
    BY <1>t, <1>u DEF Now
  <2>9. schedule'.enabled => \A k \in Keys : Consumed(k)' => k[2] < schedule'.next
    BY <1>t, <2>3, <2>4, <2>5
  <2> QED BY <1>u, <2>3, <2>7, <2>8, <2>9 DEF PastIsConsumed
<1> QED BY <1>1, <1>2

(* An edit is armed for a time after now, at the revision it read. *)
LEMMA EditKeepsPast ==
    ASSUME ScheduleInv, PastIsConsumed, NEW r \in Replicas,
           \/ \E kind \in Kinds, enabled \in BOOLEAN : UpsertRead(r, kind, enabled)
           \/ UpsertRetry(r)
    PROVE  PastIsConsumed'
<1>t. Now(r) \in Nat
  BY AheadAssumption, ScheduleBoundsAssumption DEF Now, ScheduleInv, TypeOK
<1>u. UNCHANGED <<clock, schedule, status>>
  BY DEF UpsertRead, UpsertRetry, store
<1>1. edit'.pc = "swap" /\ schedule # NoSchedule =>
        /\ edit'.expected = schedule.rev
        /\ edit'.s.enabled => edit'.s.next \in Nat /\ edit'.s.next > Now(r)
  <2>1. ASSUME NEW kind \in Kinds, NEW enabled \in BOOLEAN, UpsertRead(r, kind, enabled),
               schedule # NoSchedule
        PROVE  /\ edit'.expected = schedule.rev
               /\ edit'.s.enabled => edit'.s.next \in Nat /\ edit'.s.next > Now(r)
    BY <1>t, <2>1 DEF UpsertRead
  <2>2. ASSUME UpsertRetry(r), schedule # NoSchedule, edit'.pc = "swap"
        PROVE  /\ edit'.expected = schedule.rev
               /\ edit'.s.enabled => edit'.s.next \in Nat /\ edit'.s.next > Now(r)
    <3>1. /\ edit \in [pc : {"idle", "swap"}, s : {NoSchedule} \cup ScheduleRows, expected : Nat]
          /\ edit.s \in ScheduleRows /\ edit.s.next \in Nat
      BY <2>2 DEF UpsertRetry, ScheduleInv, EditPrepared, TypeOK, ScheduleRows
    <3>2. edit' # NoEdit
      BY <2>2 DEF NoEdit
    <3>3. edit.s.kind = "once" => edit.s.next > Now(r)
      BY <1>t, <2>2, <3>1, <3>2 DEF UpsertRetry
    <3>4. PICK n : n = IF ~edit.s.enabled THEN 0 ELSE IF edit.s.kind = "once" THEN edit.s.next
                       ELSE Now(r) + 1
      OBVIOUS
    <3>5. edit' = [edit EXCEPT !.expected = schedule.rev, !.s.next = n]
      BY <2>2, <3>2, <3>4 DEF UpsertRetry
    <3>6. edit'.expected = schedule.rev /\ edit'.s = [edit.s EXCEPT !.next = n]
      BY <3>1, <3>5
    <3>7. edit'.s.enabled = edit.s.enabled /\ edit'.s.next = n
      BY <3>1, <3>6 DEF ScheduleRows
    <3> QED BY <1>t, <3>1, <3>3, <3>4, <3>6, <3>7
  <2> QED BY <2>1, <2>2
<1>2. schedule # NoSchedule => schedule.rev \in Nat
  BY DEF ScheduleInv, TypeOK, ScheduleRows
<1>3. edit'.pc = "swap" /\ schedule # NoSchedule /\ edit'.s.enabled =>
        \A k \in Keys : Consumed(k) => k[2] < edit'.s.next
  BY <1>1, FutureIsFresh
<1>4. \A k \in Keys : Consumed(k)' <=> Consumed(k)
  BY <1>u DEF Consumed
<1> QED BY <1>u, <1>1, <1>2, <1>3, <1>4 DEF PastIsConsumed, Now

(* A swap that applies writes what was prepared at the current revision. *)
LEMMA SwapKeepsPast ==
    ASSUME ScheduleInv, PastIsConsumed, UpsertSwap
    PROVE  PastIsConsumed'
<1>0. edit.s \in ScheduleRows /\ edit.pc = "swap"
  BY DEF UpsertSwap, ScheduleInv, EditPrepared
<1>u. UNCHANGED <<clock, status>> /\ edit' = NoEdit /\ edit'.pc = "idle"
  BY DEF UpsertSwap, NoEdit
<1>1. PICK i, v : schedule' = [edit.s EXCEPT !.id = i, !.rev = v]
  BY DEF UpsertSwap
<1>2. schedule'.enabled = edit.s.enabled /\ schedule'.next = edit.s.next
  BY <1>0, <1>1 DEF ScheduleRows
<1>3. schedule = NoSchedule => \A k \in Keys : ~Consumed(k)
  BY DEF ScheduleInv, RowsOfSchedule, Consumed
<1>4. schedule # NoSchedule => edit.expected = schedule.rev
  BY DEF UpsertSwap, Matches
<1>5. edit.s.enabled => \A k \in Keys : Consumed(k) => k[2] < edit.s.next
  BY <1>0, <1>3, <1>4 DEF PastIsConsumed
<1>6. \A k \in Keys : Consumed(k)' <=> Consumed(k)
  BY <1>u DEF Consumed
<1> QED BY <1>u, <1>2, <1>5, <1>6 DEF PastIsConsumed, Now

(* Without a schedule nothing is consumed. *)
LEMMA DeleteKeepsPast ==
    ASSUME ScheduleInv, PastIsConsumed, DeleteTaskSchedule \/ DeleteTask
    PROVE  PastIsConsumed'
<1>1. schedule' = NoSchedule
  BY DEF DeleteTaskSchedule, DeleteTask
<1>2. \A k \in Keys : ~Consumed(k)'
  BY DEF DeleteTaskSchedule, DeleteTask, Consumed, ScheduleInv, RowsOfSchedule
<1> QED BY <1>1, <1>2 DEF PastIsConsumed

(* Every step keeps the schedule and the edits ahead of what is consumed. *)
LEMMA NextKeepsPast ==
    ASSUME ScheduleInv, PastIsConsumed, ClocksAgree, [Next]_vars
    PROVE  PastIsConsumed'
<1>0. clock \in Nat
  BY ScheduleBoundsAssumption DEF ScheduleInv, TypeOK
<1>1. CASE UNCHANGED <<status, runOf, schedule, edit>> /\ clock' >= clock
  <2>1. clock' \in Nat
    BY NextKeeps, ScheduleBoundsAssumption DEF ScheduleInv, TypeOK
  <2> QED BY <1>0, <1>1, <2>1, PastStays DEF Consumed
<1>2. ASSUME NEW r \in Replicas, Preflight(r) \/ Admit(r) \/ Complete(r)
      PROVE  PastIsConsumed'
  <2>1. UNCHANGED <<clock, schedule, edit>> /\ \A k \in Keys : Consumed(k)' => Consumed(k)
    BY <1>2, DispatchMoves DEF Consumed
  <2>2. clock' >= clock /\ clock' \in Nat
    BY <1>0, <2>1
  <2> QED BY <1>0, <2>1, <2>2, PastStays
<1> QED BY <1>1, <1>2, QuietOrNamed, ClaimKeepsPast, EditKeepsPast,
   SwapKeepsPast, DeleteKeepsPast

(* When the replicas' clocks agree, ClaimTaskScheduleOccurrence always     *)
(* finds the armed time of a schedule unclaimed: no Upsert, which reads    *)
(* and writes in two transactions, restores an occurrence that a claim     *)
(* consumed in between.                                                    *)
THEOREM ArmedTimesFresh ==
    ASSUME ClocksAgree
    PROVE  Spec => []ArmedTimeIsFresh
<1>1. Init => PastIsConsumed
  <2>1. ASSUME Init PROVE PastIsConsumed
    <3>1. \A k \in Keys : ~Consumed(k)
      BY <2>1 DEF Init, Consumed
    <3>2. edit.pc = "idle"
      BY <2>1 DEF Init, NoEdit
    <3> QED BY <3>1, <3>2 DEF PastIsConsumed
  <2> QED BY <2>1
<1>2. ScheduleInv /\ PastIsConsumed /\ [Next]_vars => PastIsConsumed'
  BY NextKeepsPast
<1>3. Spec => [](ScheduleInv /\ PastIsConsumed)
  BY <1>1, <1>2, ScheduleInvariant, PTL DEF Spec
<1>4. ScheduleInv /\ PastIsConsumed => ArmedTimeIsFresh
  <2>1. ASSUME ScheduleInv, PastIsConsumed, schedule # NoSchedule, schedule.enabled,
               schedule.next <= MaxTime
        PROVE  status[KeyOf(schedule)] = "none"
    <3>1. /\ schedule.id \in 1..MaxSchedules
          /\ schedule.next \in 1..(MaxTime + 1) /\ schedule.next \in Nat
      BY <2>1, ScheduleBoundsAssumption DEF ScheduleInv, TypeOK, ScheduleRows,
         RowsOfSchedule
    <3>2. PICK k \in Keys : k = KeyOf(schedule) /\ k[2] = schedule.next
      <4>1. <<schedule.id, schedule.next>> \in Keys
        BY <3>1 DEF Keys
      <4>2. <<schedule.id, schedule.next>>[2] = schedule.next
        OBVIOUS
      <4> QED BY <4>1, <4>2 DEF KeyOf
    <3>3. ~(k[2] < schedule.next)
      BY <3>1, <3>2
    <3>4. ~Consumed(k)
      BY <2>1, <3>3 DEF PastIsConsumed
    <3> QED BY <3>2, <3>4 DEF Consumed
  <2> QED BY <2>1 DEF ArmedTimeIsFresh
<1> QED BY <1>3, <1>4, PTL

=============================================================================
