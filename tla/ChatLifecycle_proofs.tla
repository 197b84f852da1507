------------------------ MODULE ChatLifecycle_proofs ------------------------
(***************************************************************************)
(* Safety of the lifecycle registry of chat sessions for any number of     *)
(* sessions, requests and closers, and every bound on the epoch.           *)
(***************************************************************************)
EXTENDS ChatLifecycle, FiniteSetTheorems, TLAPS

(* Who is counted by an entry of the registry. *)
OpsOf(s) == {r \in Requests : Operates(r) /\ rs[r] = s}
ClosersOf(s) == {c \in Closers : Closes(c) /\ cs[c] = s}
LeasesOf(s) == {r \in Requests : r \in leased /\ rs[r] = s}

(* The counters of an entry are the numbers of those it counts. *)
OperationsCounted == \A s \in Sessions : operations[s] = Cardinality(OpsOf(s))
ClosuresCounted == \A s \in Sessions : closures[s] = Cardinality(ClosersOf(s))
SnapshotsCounted == \A s \in Sessions : snapshots[s] = Cardinality(LeasesOf(s))

Counted == OperationsCounted /\ ClosuresCounted /\ SnapshotsCounted

(* A session's turn is the request that runs it. *)
TurnsMatch ==
    /\ \A r \in Requests : rpc[r] = "turn" => turn[rs[r]] = r
    /\ \A s \in Sessions : turn[s] # NoRequest =>
          rpc[turn[s]] = "turn" /\ rs[turn[s]] = s

(* A session is marked as mutating by one request, and has no turn then. *)
MutationsMatch ==
    /\ \A r \in Requests : Mutates(r) => rs[r] \in mutating
    /\ \A r, q \in Requests : Mutates(r) /\ Mutates(q) /\ rs[r] = rs[q] => r = q
    /\ \A s \in mutating : \E r \in Requests : Mutates(r) /\ rs[r] = s
    /\ \A s \in mutating : turn[s] = NoRequest

(* An entry lives, and its epoch only grows, while a snapshot of it is     *)
(* not released.                                                           *)
SnapshotsHeld ==
    /\ \A r \in Requests :
          /\ rpc[r] \notin {"idle", "direct"} => r \in leased
          /\ rpc[r] = "idle" => r \notin leased
    /\ \A r \in leased : rs[r] \in known /\ snapEpoch[r] <= epoch[rs[r]]
    /\ reset \subseteq leased /\ overtaken \subseteq leased

HoldsToken(c) ==
    cpc[c] \in {"held", "drained", "cancelling", "quiet", "checked"}

(* The destructive token of an entry has one owner. *)
TokenOwned ==
    /\ \A c \in Closers : HoldsToken(c) => c \in bound
    /\ \A c \in bound : /\ HoldsToken(c) \/ cpc[c] = "returning"
                        /\ token[cs[c]] = "held"
    /\ \A c, d \in bound : cs[c] = cs[d] => c = d

(* A closer that was told that the operations ended is right. *)
DrainedIsQuiet ==
    /\ \A c \in drained : Closes(c) /\ operations[cs[c]] = 0
    /\ \A c \in Closers : Destructive(c) => c \in drained

(* A closer waits for the turn of its session, if there is one, and no     *)
(* turn begins afterwards.                                                 *)
TurnStopped ==
    \A c \in Closers :
        /\ cpc[c] = "cancelling" => awaits[c] = turn[cs[c]]
        /\ cpc[c] \in {"quiet", "checked"} => turn[cs[c]] = NoRequest

(* The snapshot of a request that has read what is no longer true is not   *)
(* current, or will not be before anybody is admitted.                     *)
StaleSnapshots ==
    /\ \A r \in overtaken : closures[rs[r]] > 0 \/ snapEpoch[r] < epoch[rs[r]]
    /\ \A r \in reset : rs[r] \in mutating \/ snapEpoch[r] < epoch[rs[r]]

(* What was admitted is current. *)
AdmittedCurrent ==
    \A r \in Requests :
        /\ rpc[r] = "turn" => r \notin reset \cup overtaken
        /\ Mutates(r) \/ rpc[r] = "operating" => r \notin overtaken
        /\ rpc[r] = "reloaded" => r \notin reset

(* The inductive invariant. *)
LifecycleInv ==
    /\ TypeOK
    /\ Counted
    /\ TurnsMatch
    /\ MutationsMatch
    /\ SnapshotsHeld
    /\ TokenOwned
    /\ DrainedIsQuiet
    /\ TurnStopped
    /\ StaleSnapshots
    /\ AdmittedCurrent
    /\ ShutdownReachesTurns
    /\ IdleEntriesReaped

-----------------------------------------------------------------------------
(* The sets that are counted are finite. *)
LEMMA CountedFinite ==
    ASSUME NEW s
    PROVE  IsFiniteSet(OpsOf(s)) /\ IsFiniteSet(ClosersOf(s)) /\ IsFiniteSet(LeasesOf(s))
BY RequestsAssumption, ClosersAssumption, FS_Subset DEF OpsOf, ClosersOf,
   LeasesOf

(* The cardinality of a set with one element more. *)
LEMMA CountAdd ==
    ASSUME NEW S, IsFiniteSet(S), NEW x, x \notin S
    PROVE  Cardinality(S \cup {x}) = Cardinality(S) + 1
BY FS_AddElement

(* The cardinality of a set with one element less. *)
LEMMA CountRemove ==
    ASSUME NEW S, IsFiniteSet(S), NEW x, x \in S
    PROVE  Cardinality(S \ {x}) = Cardinality(S) - 1
BY FS_RemoveElement

(* A set with an element has a positive cardinality. *)
LEMMA CountPositive ==
    ASSUME NEW S, IsFiniteSet(S), NEW x, x \in S
    PROVE  Cardinality(S) > 0
<1>1. Cardinality(S) \in Nat /\ Cardinality(S) # 0
  BY FS_CardinalityType, FS_EmptySet
<1> QED BY <1>1

(* Whoever is counted makes the counter of an entry positive. *)
Positive ==
    /\ \A r \in Requests : Operates(r) => operations[rs[r]] > 0
    /\ \A c \in Closers : Closes(c) => closures[cs[c]] > 0
    /\ \A r \in leased : snapshots[rs[r]] > 0

(* An entry that counts somebody has a positive counter. *)
LEMMA CountsPositive ==
    ASSUME TypeOK, Counted
    PROVE  Positive
<1>1. ASSUME NEW r \in Requests, Operates(r) PROVE operations[rs[r]] > 0
  <2>1. r \in OpsOf(rs[r])
    BY <1>1 DEF OpsOf
  <2>2. operations[rs[r]] = Cardinality(OpsOf(rs[r]))
    BY DEF Counted, OperationsCounted, ClosuresCounted, SnapshotsCounted,
       TypeOK
  <2> QED BY <2>1, <2>2, CountedFinite, CountPositive
<1>2. ASSUME NEW c \in Closers, Closes(c) PROVE closures[cs[c]] > 0
  <2>1. c \in ClosersOf(cs[c])
    BY <1>2 DEF ClosersOf
  <2>2. closures[cs[c]] = Cardinality(ClosersOf(cs[c]))
    BY DEF Counted, OperationsCounted, ClosuresCounted, SnapshotsCounted,
       TypeOK
  <2> QED BY <2>1, <2>2, CountedFinite, CountPositive
<1>3. ASSUME NEW r \in leased PROVE snapshots[rs[r]] > 0
  <2>1. r \in LeasesOf(rs[r])
    BY DEF LeasesOf, TypeOK
  <2>2. snapshots[rs[r]] = Cardinality(LeasesOf(rs[r]))
    BY DEF Counted, OperationsCounted, ClosuresCounted, SnapshotsCounted,
       TypeOK
  <2> QED BY <2>1, <2>2, CountedFinite, CountPositive
<1> QED BY <1>1, <1>2, <1>3 DEF Positive

(* The same after a step. *)
LEMMA CountsPositiveNext == (TypeOK /\ Counted)' => Positive'
<1>1. TypeOK /\ Counted => Positive
  BY CountsPositive
<1> QED BY <1>1, PTL

-----------------------------------------------------------------------------
(* Nobody begins or ends an operation. *)
LEMMA OperationsSame ==
    ASSUME OperationsCounted, UNCHANGED operations,
           \A r \in Requests : Operates(r)' <=> Operates(r),
           \A r \in Requests : Operates(r) => rs'[r] = rs[r]
    PROVE  OperationsCounted'
<1>1. \A s \in Sessions : OpsOf(s)' = OpsOf(s)
  BY DEF OpsOf
<1> QED BY <1>1 DEF OperationsCounted

(* One operation more. *)
LEMMA OperationsBegin ==
    ASSUME TypeOK, OperationsCounted, NEW r \in Requests, ~Operates(r),
           (Operates(r)'),
           rs'[r] \in Sessions,
           operations' = [operations EXCEPT ![rs'[r]] = @ + 1],
           \A y \in Requests \ {r} : Operates(y)' <=> Operates(y),
           \A y \in Requests \ {r} : Operates(y) => rs'[y] = rs[y]
    PROVE  OperationsCounted'
<1> SUFFICES ASSUME NEW s \in Sessions
             PROVE  operations'[s] = Cardinality(OpsOf(s)')
  BY DEF OperationsCounted
<1>0. /\ operations[s] = Cardinality(OpsOf(s)) /\ IsFiniteSet(OpsOf(s))
      /\ operations \in [Sessions -> Nat] /\ rs'[r] \in Sessions
  BY CountedFinite DEF OperationsCounted, TypeOK
<1>1. CASE rs'[r] = s
  <2>1. OpsOf(s)' = OpsOf(s) \cup {r} /\ r \notin OpsOf(s)
    BY <1>1 DEF OpsOf
  <2> QED BY <1>0, <1>1, <2>1, CountAdd
<1>2. CASE rs'[r] # s
  <2>1. OpsOf(s)' = OpsOf(s)
    BY <1>2 DEF OpsOf
  <2> QED BY <1>0, <1>2, <2>1
<1> QED BY <1>1, <1>2

(* One operation less. *)
LEMMA OperationsEnd ==
    ASSUME TypeOK, OperationsCounted, NEW r \in Requests, Operates(r),
           ~(Operates(r)'),
           rs'[r] \in Sessions,
           operations' = [operations EXCEPT ![rs[r]] = @ - 1],
           \A y \in Requests \ {r} : Operates(y)' <=> Operates(y),
           \A y \in Requests \ {r} : Operates(y) => rs'[y] = rs[y]
    PROVE  OperationsCounted'
<1> SUFFICES ASSUME NEW s \in Sessions
             PROVE  operations'[s] = Cardinality(OpsOf(s)')
  BY DEF OperationsCounted
<1>0. /\ operations[s] = Cardinality(OpsOf(s)) /\ IsFiniteSet(OpsOf(s))
      /\ operations \in [Sessions -> Nat] /\ rs[r] \in Sessions
  BY CountedFinite DEF OperationsCounted, TypeOK
<1>1. CASE rs[r] = s
  <2>1. OpsOf(s)' = OpsOf(s) \ {r} /\ r \in OpsOf(s)
    BY <1>1 DEF OpsOf
  <2> QED BY <1>0, <1>1, <2>1, CountRemove
<1>2. CASE rs[r] # s
  <2>1. OpsOf(s)' = OpsOf(s)
    BY <1>2 DEF OpsOf
  <2> QED BY <1>0, <1>2, <2>1
<1> QED BY <1>1, <1>2

(* Nobody closes a lifecycle or releases a closure. *)
LEMMA ClosuresSame ==
    ASSUME ClosuresCounted, UNCHANGED closures,
           \A c \in Closers : Closes(c)' <=> Closes(c),
           \A c \in Closers : Closes(c) => cs'[c] = cs[c]
    PROVE  ClosuresCounted'
<1>1. \A s \in Sessions : ClosersOf(s)' = ClosersOf(s)
  BY DEF ClosersOf
<1> QED BY <1>1 DEF ClosuresCounted

(* One closure more. *)
LEMMA ClosuresBegin ==
    ASSUME TypeOK, ClosuresCounted, NEW c \in Closers, ~Closes(c),
           (Closes(c)'),
           cs'[c] \in Sessions,
           closures' = [closures EXCEPT ![cs'[c]] = @ + 1],
           \A y \in Closers \ {c} : Closes(y)' <=> Closes(y),
           \A y \in Closers \ {c} : Closes(y) => cs'[y] = cs[y]
    PROVE  ClosuresCounted'
<1> SUFFICES ASSUME NEW s \in Sessions
             PROVE  closures'[s] = Cardinality(ClosersOf(s)')
  BY DEF ClosuresCounted
<1>0. /\ closures[s] = Cardinality(ClosersOf(s)) /\ IsFiniteSet(ClosersOf(s))
      /\ closures \in [Sessions -> Nat] /\ cs'[c] \in Sessions
  BY CountedFinite DEF ClosuresCounted, TypeOK
<1>1. CASE cs'[c] = s
  <2>1. ClosersOf(s)' = ClosersOf(s) \cup {c} /\ c \notin ClosersOf(s)
    BY <1>1 DEF ClosersOf
  <2> QED BY <1>0, <1>1, <2>1, CountAdd
<1>2. CASE cs'[c] # s
  <2>1. ClosersOf(s)' = ClosersOf(s)
    BY <1>2 DEF ClosersOf
  <2> QED BY <1>0, <1>2, <2>1
<1> QED BY <1>1, <1>2

(* One closure less. *)
LEMMA ClosuresEnd ==
    ASSUME TypeOK, ClosuresCounted, NEW c \in Closers, Closes(c),
           ~(Closes(c)'),
           cs'[c] \in Sessions,
           closures' = [closures EXCEPT ![cs[c]] = @ - 1],
           \A y \in Closers \ {c} : Closes(y)' <=> Closes(y),
           \A y \in Closers \ {c} : Closes(y) => cs'[y] = cs[y]
    PROVE  ClosuresCounted'
<1> SUFFICES ASSUME NEW s \in Sessions
             PROVE  closures'[s] = Cardinality(ClosersOf(s)')
  BY DEF ClosuresCounted
<1>0. /\ closures[s] = Cardinality(ClosersOf(s)) /\ IsFiniteSet(ClosersOf(s))
      /\ closures \in [Sessions -> Nat] /\ cs[c] \in Sessions
  BY CountedFinite DEF ClosuresCounted, TypeOK
<1>1. CASE cs[c] = s
  <2>1. ClosersOf(s)' = ClosersOf(s) \ {c} /\ c \in ClosersOf(s)
    BY <1>1 DEF ClosersOf
  <2> QED BY <1>0, <1>1, <2>1, CountRemove
<1>2. CASE cs[c] # s
  <2>1. ClosersOf(s)' = ClosersOf(s)
    BY <1>2 DEF ClosersOf
  <2> QED BY <1>0, <1>2, <2>1
<1> QED BY <1>1, <1>2

(* Nobody takes or releases a snapshot. *)
LEMMA SnapshotsSame ==
    ASSUME SnapshotsCounted, UNCHANGED snapshots,
           \A r \in Requests : (r \in leased)' <=> (r \in leased),
           \A r \in Requests : (r \in leased) => rs'[r] = rs[r]
    PROVE  SnapshotsCounted'
<1>1. \A s \in Sessions : LeasesOf(s)' = LeasesOf(s)
  BY DEF LeasesOf
<1> QED BY <1>1 DEF SnapshotsCounted

(* One snapshot more. *)
LEMMA SnapshotsBegin ==
    ASSUME TypeOK, SnapshotsCounted, NEW r \in Requests, ~(r \in leased),
           ((r \in leased)'),
           rs'[r] \in Sessions,
           snapshots' = [snapshots EXCEPT ![rs'[r]] = @ + 1],
           \A y \in Requests \ {r} : (y \in leased)' <=> (y \in leased),
           \A y \in Requests \ {r} : (y \in leased) => rs'[y] = rs[y]
    PROVE  SnapshotsCounted'
<1> SUFFICES ASSUME NEW s \in Sessions
             PROVE  snapshots'[s] = Cardinality(LeasesOf(s)')
  BY DEF SnapshotsCounted
<1>0. /\ snapshots[s] = Cardinality(LeasesOf(s)) /\ IsFiniteSet(LeasesOf(s))
      /\ snapshots \in [Sessions -> Nat] /\ rs'[r] \in Sessions
  BY CountedFinite DEF SnapshotsCounted, TypeOK
<1>1. CASE rs'[r] = s
  <2>1. LeasesOf(s)' = LeasesOf(s) \cup {r} /\ r \notin LeasesOf(s)
    BY <1>1 DEF LeasesOf
  <2> QED BY <1>0, <1>1, <2>1, CountAdd
<1>2. CASE rs'[r] # s
  <2>1. LeasesOf(s)' = LeasesOf(s)
    BY <1>2 DEF LeasesOf
  <2> QED BY <1>0, <1>2, <2>1
<1> QED BY <1>1, <1>2

(* One snapshot less. *)
LEMMA SnapshotsEnd ==
    ASSUME TypeOK, SnapshotsCounted, NEW r \in Requests, (r \in leased),
           ~((r \in leased)'),
           rs'[r] \in Sessions,
           snapshots' = [snapshots EXCEPT ![rs[r]] = @ - 1],
           \A y \in Requests \ {r} : (y \in leased)' <=> (y \in leased),
           \A y \in Requests \ {r} : (y \in leased) => rs'[y] = rs[y]
    PROVE  SnapshotsCounted'
<1> SUFFICES ASSUME NEW s \in Sessions
             PROVE  snapshots'[s] = Cardinality(LeasesOf(s)')
  BY DEF SnapshotsCounted
<1>0. /\ snapshots[s] = Cardinality(LeasesOf(s)) /\ IsFiniteSet(LeasesOf(s))
      /\ snapshots \in [Sessions -> Nat] /\ rs[r] \in Sessions
  BY CountedFinite DEF SnapshotsCounted, TypeOK
<1>1. CASE rs[r] = s
  <2>1. LeasesOf(s)' = LeasesOf(s) \ {r} /\ r \in LeasesOf(s)
    BY <1>1 DEF LeasesOf
  <2> QED BY <1>0, <1>1, <2>1, CountRemove
<1>2. CASE rs[r] # s
  <2>1. LeasesOf(s)' = LeasesOf(s)
    BY <1>2 DEF LeasesOf
  <2> QED BY <1>0, <1>2, <2>1
<1> QED BY <1>1, <1>2

-----------------------------------------------------------------------------
(* A step that reaps the entry it changes leaves no idle entry. *)
LEMMA ReapKeepsUsed ==
    ASSUME TypeOK', IdleEntriesReaped, NEW s \in Sessions, NEW e, Reap(s, e),
           \A t \in mutating' : operations'[t] > 0,
           \A t \in Sessions \ {s} : /\ closures'[t] = closures[t]
                                     /\ operations'[t] = operations[t]
                                     /\ snapshots'[t] = snapshots[t]
                                     /\ turn'[t] = turn[t]
    PROVE  IdleEntriesReaped'
<1> SUFFICES ASSUME NEW t \in known'
             PROVE  \/ closures'[t] > 0 \/ operations'[t] > 0 \/ snapshots'[t] > 0
                    \/ turn'[t] # NoRequest
  BY DEF IdleEntriesReaped
<1>1. t \in Sessions /\ closures'[t] \in Nat /\ operations'[t] \in Nat /\ snapshots'[t] \in Nat
  BY DEF TypeOK
<1>2. CASE t = s
  BY <1>1, <1>2 DEF Reap
<1>3. CASE t # s
  BY <1>1, <1>3 DEF Reap, IdleEntriesReaped
<1> QED BY <1>2, <1>3

(* A snapshot makes the entry, or keeps the one that is there. *)
LEMMA SnapshotKeeps ==
    ASSUME LifecycleInv, NEW r \in Requests, NEW s \in Sessions, SnapshotLifecycle(r, s)
    PROVE  LifecycleInv'
<1> USE DEF LifecycleInv, Counted
<1>1. TypeOK'
  BY DEF SnapshotLifecycle, turns, cvars, Step, TypeOK
<1>2. OperationsCounted'
  BY <1>1, OperationsSame DEF SnapshotLifecycle, turns, cvars, Step, Operates,
     Mutates
<1>3. ClosuresCounted'
  BY <1>1, ClosuresSame DEF SnapshotLifecycle, turns, cvars, Step, Closes
<1>4. SnapshotsCounted'
  <2>1. /\ ~(r \in leased) /\ (r \in leased)'
        /\ rs'[r] \in Sessions
        /\ snapshots' = [snapshots EXCEPT ![rs'[r]] = @ + 1]
    BY SnapshotsHeld DEF SnapshotsHeld, SnapshotLifecycle, turns, cvars, Step,
       TypeOK
  <2>2. \A y \in Requests \ {r} : ((y \in leased)' <=> (y \in leased)) /\ rs'[y] = rs[y]
    BY DEF SnapshotLifecycle, turns, cvars, Step
  <2> QED BY <2>1, <2>2, SnapshotsBegin
<1>5. TurnsMatch'
  BY DEF SnapshotLifecycle, turns, cvars, Step, TurnsMatch
<1>6. MutationsMatch'
  BY DEF SnapshotLifecycle, turns, cvars, Step, Mutates, MutationsMatch
<1>7. SnapshotsHeld'
  BY DEF SnapshotLifecycle, turns, cvars, Step, SnapshotsHeld, TypeOK
<1>8. TokenOwned'
  BY DEF SnapshotLifecycle, turns, cvars, Step, TokenOwned, HoldsToken
<1>9. DrainedIsQuiet'
  BY DEF SnapshotLifecycle, turns, cvars, Step, Closes, DrainedIsQuiet,
     Destructive
<1>10. TurnStopped'
  BY DEF SnapshotLifecycle, turns, cvars, Step, TurnStopped
<1>11. StaleSnapshots'
  BY DEF SnapshotLifecycle, turns, cvars, Step, StaleSnapshots, SnapshotsHeld
<1>12. AdmittedCurrent'
  BY DEF SnapshotLifecycle, turns, cvars, Step, Mutates, AdmittedCurrent
<1>13. ShutdownReachesTurns'
  BY DEF SnapshotLifecycle, turns, cvars, Step, ShutdownReachesTurns
<1>14. IdleEntriesReaped'
  BY DEF SnapshotLifecycle, turns, cvars, Step, IdleEntriesReaped, TypeOK
<1> QED BY <1>1, <1>2, <1>3, <1>4, <1>5, <1>6, <1>7, <1>8, <1>9, <1>10, <1>11,
   <1>12, <1>13, <1>14

(* A read changes no entry. *)
LEMMA ReadKeeps ==
    ASSUME LifecycleInv, NEW r \in Requests, ReadSession(r)
    PROVE  LifecycleInv'
<1> USE DEF LifecycleInv, Counted
<1>1. TypeOK'
  BY DEF ReadSession, turns, cvars, live, Step, TypeOK
<1>2. OperationsCounted'
  BY <1>1, OperationsSame DEF ReadSession, turns, cvars, live, Step, Operates,
     Mutates
<1>3. ClosuresCounted'
  BY <1>1, ClosuresSame DEF ReadSession, turns, cvars, live, Step, Closes
<1>4. SnapshotsCounted'
  BY <1>1, SnapshotsSame DEF ReadSession, turns, cvars, live, Step
<1>5. TurnsMatch'
  BY DEF ReadSession, turns, cvars, live, Step, TurnsMatch
<1>6. MutationsMatch'
  BY DEF ReadSession, turns, cvars, live, Step, Mutates, MutationsMatch
<1>7. SnapshotsHeld'
  BY DEF ReadSession, turns, cvars, live, Step, SnapshotsHeld
<1>8. TokenOwned'
  BY DEF ReadSession, turns, cvars, live, Step, TokenOwned, HoldsToken
<1>9. DrainedIsQuiet'
  BY DEF ReadSession, turns, cvars, live, Step, Closes, DrainedIsQuiet,
     Destructive
<1>10. TurnStopped'
  BY DEF ReadSession, turns, cvars, live, Step, TurnStopped
<1>11. StaleSnapshots'
  BY DEF ReadSession, turns, cvars, live, Step, StaleSnapshots
<1>12. AdmittedCurrent'
  BY DEF ReadSession, turns, cvars, live, Step, Mutates, AdmittedCurrent
<1>13. ShutdownReachesTurns'
  BY DEF ReadSession, turns, cvars, live, Step, ShutdownReachesTurns
<1>14. IdleEntriesReaped'
  BY DEF ReadSession, turns, cvars, live, Step, IdleEntriesReaped
<1> QED BY <1>1, <1>2, <1>3, <1>4, <1>5, <1>6, <1>7, <1>8, <1>9, <1>10, <1>11,
   <1>12, <1>13, <1>14

(* The last use of an entry may be a snapshot; other snapshots keep it. *)
LEMMA ReleaseSnapshotKeeps ==
    ASSUME LifecycleInv, NEW r \in Requests, ReleaseSnapshot(r)
    PROVE  LifecycleInv'
<1> USE DEF LifecycleInv, Counted
<1>p. Positive
  BY CountsPositive
<1>1. TypeOK'
  BY <1>p DEF ReleaseSnapshot, Reap, Step, Positive, TypeOK
<1>2. OperationsCounted'
  BY <1>1, OperationsSame DEF ReleaseSnapshot, Reap, Step, Operates, Mutates
<1>3. ClosuresCounted'
  BY <1>1, ClosuresSame DEF ReleaseSnapshot, Reap, Step, Closes
<1>4. SnapshotsCounted'
  <2>1. /\ (r \in leased) /\ ~(r \in leased)'
        /\ rs'[r] \in Sessions
        /\ snapshots' = [snapshots EXCEPT ![rs[r]] = @ - 1]
    BY SnapshotsHeld DEF SnapshotsHeld, ReleaseSnapshot, Reap, Step, TypeOK
  <2>2. \A y \in Requests \ {r} : ((y \in leased)' <=> (y \in leased)) /\ rs'[y] = rs[y]
    BY DEF ReleaseSnapshot, Reap, Step
  <2> QED BY <2>1, <2>2, SnapshotsEnd
<1>q. Positive'
  BY <1>1, <1>2, <1>3, <1>4, CountsPositiveNext
<1>5. TurnsMatch'
  BY DEF ReleaseSnapshot, Reap, Step, TurnsMatch
<1>6. MutationsMatch'
  BY DEF ReleaseSnapshot, Reap, Step, Mutates, MutationsMatch
<1>m. \A t \in mutating' : operations'[t] > 0
  BY <1>q, <1>6 DEF Positive, MutationsMatch, Operates
<1>7. SnapshotsHeld'
  BY <1>q DEF ReleaseSnapshot, Reap, Step, Positive, SnapshotsHeld, TypeOK
<1>8. TokenOwned'
  BY <1>q DEF ReleaseSnapshot, Reap, Step, Operates, Mutates, Closes,
     Positive, TokenOwned, HoldsToken
<1>9. DrainedIsQuiet'
  BY DEF ReleaseSnapshot, Reap, Step, Closes, DrainedIsQuiet, Destructive
<1>10. TurnStopped'
  BY DEF ReleaseSnapshot, Reap, Step, TurnStopped
<1>11. StaleSnapshots'
  BY <1>q DEF ReleaseSnapshot, Reap, Step, Positive, StaleSnapshots,
     SnapshotsHeld
<1>12. AdmittedCurrent'
  BY DEF ReleaseSnapshot, Reap, Step, Mutates, AdmittedCurrent
<1>13. ShutdownReachesTurns'
  BY DEF ReleaseSnapshot, Reap, Step, ShutdownReachesTurns
<1>14. IdleEntriesReaped'
  <2>1. /\ rs[r] \in Sessions /\ Reap(rs[r], epoch[rs[r]])
        /\ \A t \in Sessions \ {rs[r]} : /\ closures'[t] = closures[t]
                                        /\ operations'[t] = operations[t]
                                        /\ snapshots'[t] = snapshots[t]
                                        /\ turn'[t] = turn[t]
    BY DEF ReleaseSnapshot, Step, TypeOK
  <2> QED BY <1>1, <1>m, <2>1, ReapKeepsUsed
<1> QED BY <1>1, <1>2, <1>3, <1>4, <1>5, <1>6, <1>7, <1>8, <1>9, <1>10, <1>11,
   <1>12, <1>13, <1>14

(* A turn is admitted only with a current snapshot and no closure. *)
LEMMA RegisterTurnKeeps ==
    ASSUME LifecycleInv, NEW r \in Requests, RegisterTurn(r)
    PROVE  LifecycleInv'
<1> USE DEF LifecycleInv, Counted
<1>1. TypeOK'
  BY DEF RegisterTurn, cvars, live, Step, SnapshotCurrent, TypeOK
<1>2. OperationsCounted'
  BY <1>1, OperationsSame DEF RegisterTurn, cvars, live, Step,
     SnapshotCurrent, Operates, Mutates
<1>3. ClosuresCounted'
  BY <1>1, ClosuresSame DEF RegisterTurn, cvars, live, Step, SnapshotCurrent,
     Closes
<1>4. SnapshotsCounted'
  BY <1>1, SnapshotsSame DEF RegisterTurn, cvars, live, Step, SnapshotCurrent
<1>q. Positive'
  BY <1>1, <1>2, <1>3, <1>4, CountsPositiveNext
<1>5. TurnsMatch'
  BY RequestsAssumption DEF RegisterTurn, cvars, live, Step, SnapshotCurrent,
     TurnsMatch, TypeOK
<1>6. MutationsMatch'
  BY DEF RegisterTurn, cvars, live, Step, SnapshotCurrent, Mutates,
     MutationsMatch
<1>7. SnapshotsHeld'
  BY DEF RegisterTurn, cvars, live, Step, SnapshotCurrent, SnapshotsHeld
<1>8. TokenOwned'
  BY DEF RegisterTurn, cvars, live, Step, SnapshotCurrent, TokenOwned,
     HoldsToken
<1>9. DrainedIsQuiet'
  BY DEF RegisterTurn, cvars, live, Step, SnapshotCurrent, Closes,
     DrainedIsQuiet, Destructive
<1>10. TurnStopped'
  BY <1>q DEF RegisterTurn, cvars, live, Step, SnapshotCurrent, Operates,
     Mutates, Closes, Positive, TurnStopped
<1>11. StaleSnapshots'
  BY DEF RegisterTurn, cvars, live, Step, SnapshotCurrent, StaleSnapshots
<1>12. AdmittedCurrent'
  BY DEF RegisterTurn, cvars, live, Step, SnapshotCurrent, Mutates,
     AdmittedCurrent, TypeOK, StaleSnapshots
<1>13. ShutdownReachesTurns'
  BY DEF RegisterTurn, cvars, live, Step, SnapshotCurrent,
     ShutdownReachesTurns
<1>14. IdleEntriesReaped'
  BY DEF RegisterTurn, cvars, live, Step, SnapshotCurrent, IdleEntriesReaped
<1> QED BY <1>1, <1>2, <1>3, <1>4, <1>5, <1>6, <1>7, <1>8, <1>9, <1>10, <1>11,
   <1>12, <1>13, <1>14

(* The end of a turn wakes the closers that wait for it. *)
LEMMA ClearTurnKeeps ==
    ASSUME LifecycleInv, NEW r \in Requests, ClearTurn(r)
    PROVE  LifecycleInv'
<1> USE DEF LifecycleInv, Counted
<1>1. TypeOK'
  BY DEF ClearTurn, Reap, Step, TypeOK
<1>2. OperationsCounted'
  BY <1>1, OperationsSame DEF ClearTurn, Reap, Step, Operates, Mutates
<1>3. ClosuresCounted'
  BY <1>1, ClosuresSame DEF ClearTurn, Reap, Step, Closes
<1>4. SnapshotsCounted'
  BY <1>1, SnapshotsSame DEF ClearTurn, Reap, Step
<1>q. Positive'
  BY <1>1, <1>2, <1>3, <1>4, CountsPositiveNext
<1>5. TurnsMatch'
  BY DEF ClearTurn, Reap, Step, TurnsMatch, TypeOK
<1>6. MutationsMatch'
  BY DEF ClearTurn, Reap, Step, Mutates, MutationsMatch
<1>m. \A t \in mutating' : operations'[t] > 0
  BY <1>q, <1>6 DEF Positive, MutationsMatch, Operates
<1>7. SnapshotsHeld'
  BY <1>q DEF ClearTurn, Reap, Step, Positive, SnapshotsHeld
<1>8. TokenOwned'
  BY <1>q DEF ClearTurn, Reap, Step, Operates, Mutates, Closes, Positive,
     TokenOwned, HoldsToken
<1>9. DrainedIsQuiet'
  BY DEF ClearTurn, Reap, Step, Closes, DrainedIsQuiet, Destructive
<1>10. TurnStopped'
  BY DEF ClearTurn, Reap, Step, TurnStopped, TypeOK, TurnsMatch
<1>11. StaleSnapshots'
  BY <1>q DEF ClearTurn, Reap, Step, Positive, StaleSnapshots, SnapshotsHeld
<1>12. AdmittedCurrent'
  BY DEF ClearTurn, Reap, Step, Mutates, AdmittedCurrent
<1>13. ShutdownReachesTurns'
  BY DEF ClearTurn, Reap, Step, ShutdownReachesTurns, TypeOK
<1>14. IdleEntriesReaped'
  <2>1. /\ rs[r] \in Sessions /\ Reap(rs[r], epoch[rs[r]])
        /\ \A t \in Sessions \ {rs[r]} : /\ closures'[t] = closures[t]
                                        /\ operations'[t] = operations[t]
                                        /\ snapshots'[t] = snapshots[t]
                                        /\ turn'[t] = turn[t]
    BY DEF ClearTurn, Step, TypeOK
  <2> QED BY <1>1, <1>m, <2>1, ReapKeepsUsed
<1> QED BY <1>1, <1>2, <1>3, <1>4, <1>5, <1>6, <1>7, <1>8, <1>9, <1>10, <1>11,
   <1>12, <1>13, <1>14

(* An operation is admitted only with a current snapshot and no closure. *)
LEMMA BeginOperationKeeps ==
    ASSUME LifecycleInv, NEW r \in Requests, BeginLifecycleOperation(r)
    PROVE  LifecycleInv'
<1> USE DEF LifecycleInv, Counted
<1>1. TypeOK'
  BY DEF BeginLifecycleOperation, turns, cvars, Step, SnapshotCurrent, TypeOK
<1>2. OperationsCounted'
  <2>1. /\ ~Operates(r) /\ Operates(r)'
        /\ rs'[r] \in Sessions
        /\ operations' = [operations EXCEPT ![rs'[r]] = @ + 1]
    BY SnapshotsHeld DEF SnapshotsHeld, BeginLifecycleOperation, turns, cvars,
       Step, SnapshotCurrent, Operates, Mutates, TypeOK
  <2>2. \A y \in Requests \ {r} : (Operates(y)' <=> Operates(y)) /\ rs'[y] = rs[y]
    BY DEF BeginLifecycleOperation, turns, cvars, Step, SnapshotCurrent,
       Operates, Mutates
  <2> QED BY <2>1, <2>2, OperationsBegin
<1>3. ClosuresCounted'
  BY <1>1, ClosuresSame DEF BeginLifecycleOperation, turns, cvars, Step,
     SnapshotCurrent, Closes
<1>4. SnapshotsCounted'
  BY <1>1, SnapshotsSame DEF BeginLifecycleOperation, turns, cvars, Step,
     SnapshotCurrent
<1>q. Positive'
  BY <1>1, <1>2, <1>3, <1>4, CountsPositiveNext
<1>5. TurnsMatch'
  BY DEF BeginLifecycleOperation, turns, cvars, Step, SnapshotCurrent,
     TurnsMatch
<1>6. MutationsMatch'
  BY DEF BeginLifecycleOperation, turns, cvars, Step, SnapshotCurrent,
     Mutates, MutationsMatch
<1>7. SnapshotsHeld'
  BY DEF BeginLifecycleOperation, turns, cvars, Step, SnapshotCurrent,
     SnapshotsHeld
<1>8. TokenOwned'
  BY DEF BeginLifecycleOperation, turns, cvars, Step, SnapshotCurrent,
     TokenOwned, HoldsToken
<1>9. DrainedIsQuiet'
  BY <1>q DEF BeginLifecycleOperation, turns, cvars, Step, SnapshotCurrent,
     Operates, Mutates, Closes, Positive, DrainedIsQuiet, Destructive, TypeOK
<1>10. TurnStopped'
  BY DEF BeginLifecycleOperation, turns, cvars, Step, SnapshotCurrent,
     TurnStopped
<1>11. StaleSnapshots'
  BY DEF BeginLifecycleOperation, turns, cvars, Step, SnapshotCurrent,
     StaleSnapshots
<1>12. AdmittedCurrent'
  BY DEF BeginLifecycleOperation, turns, cvars, Step, SnapshotCurrent,
     Mutates, AdmittedCurrent, TypeOK, StaleSnapshots
<1>13. ShutdownReachesTurns'
  BY DEF BeginLifecycleOperation, turns, cvars, Step, SnapshotCurrent,
     ShutdownReachesTurns
<1>14. IdleEntriesReaped'
  BY DEF BeginLifecycleOperation, turns, cvars, Step, SnapshotCurrent,
     IdleEntriesReaped, TypeOK
<1> QED BY <1>1, <1>2, <1>3, <1>4, <1>5, <1>6, <1>7, <1>8, <1>9, <1>10, <1>11,
   <1>12, <1>13, <1>14

(* The last operation tells the closers of its session. *)
LEMMA EndOperationKeeps ==
    ASSUME LifecycleInv, NEW r \in Requests, EndOperation(r)
    PROVE  LifecycleInv'
<1> USE DEF LifecycleInv, Counted
<1>p. Positive
  BY CountsPositive
<1>1. TypeOK'
  BY <1>p DEF EndOperation, Reap, DrainedAt, Step, Operates, Mutates, Closes,
     Positive, TypeOK
<1>2. OperationsCounted'
  <2>1. /\ Operates(r) /\ ~Operates(r)'
        /\ rs'[r] \in Sessions
        /\ operations' = [operations EXCEPT ![rs[r]] = @ - 1]
    BY SnapshotsHeld DEF SnapshotsHeld, EndOperation, Reap, DrainedAt, Step,
       Operates, Mutates, Closes, TypeOK
  <2>2. \A y \in Requests \ {r} : (Operates(y)' <=> Operates(y)) /\ rs'[y] = rs[y]
    BY DEF EndOperation, Reap, DrainedAt, Step, Operates, Mutates, Closes,
       TypeOK
  <2> QED BY <2>1, <2>2, OperationsEnd
<1>3. ClosuresCounted'
  BY <1>1, ClosuresSame DEF EndOperation, Reap, DrainedAt, Step, Closes
<1>4. SnapshotsCounted'
  BY <1>1, SnapshotsSame DEF EndOperation, Reap, DrainedAt, Step
<1>q. Positive'
  BY <1>1, <1>2, <1>3, <1>4, CountsPositiveNext
<1>5. TurnsMatch'
  BY DEF EndOperation, Reap, DrainedAt, Step, TurnsMatch, TypeOK
<1>6. MutationsMatch'
  BY DEF EndOperation, Reap, DrainedAt, Step, Mutates, Closes, MutationsMatch,
     TypeOK
<1>m. \A t \in mutating' : operations'[t] > 0
  BY <1>q, <1>6 DEF Positive, MutationsMatch, Operates
<1>7. SnapshotsHeld'
  BY <1>q DEF EndOperation, Reap, DrainedAt, Step, Positive, SnapshotsHeld,
     TypeOK
<1>8. TokenOwned'
  BY <1>q DEF EndOperation, Reap, DrainedAt, Step, Operates, Mutates, Closes,
     Positive, TokenOwned, HoldsToken
<1>9. DrainedIsQuiet'
  BY <1>p DEF EndOperation, Reap, DrainedAt, Step, Operates, Mutates, Closes,
     Positive, DrainedIsQuiet, Destructive
<1>10. TurnStopped'
  BY DEF EndOperation, Reap, DrainedAt, Step, TurnStopped
<1>11. StaleSnapshots'
  BY <1>q DEF EndOperation, Reap, DrainedAt, Step, Positive, StaleSnapshots,
     SnapshotsHeld
<1>12. AdmittedCurrent'
  BY DEF EndOperation, Reap, DrainedAt, Step, Mutates, Closes,
     AdmittedCurrent, TypeOK
<1>13. ShutdownReachesTurns'
  BY DEF EndOperation, Reap, DrainedAt, Step, ShutdownReachesTurns, TypeOK
<1>14. IdleEntriesReaped'
  <2>1. /\ rs[r] \in Sessions /\ Reap(rs[r], epoch[rs[r]])
        /\ \A t \in Sessions \ {rs[r]} : /\ closures'[t] = closures[t]
                                        /\ operations'[t] = operations[t]
                                        /\ snapshots'[t] = snapshots[t]
                                        /\ turn'[t] = turn[t]
    BY DEF EndOperation, DrainedAt, Step, TypeOK
  <2> QED BY <1>1, <1>m, <2>1, ReapKeepsUsed
<1> QED BY <1>1, <1>2, <1>3, <1>4, <1>5, <1>6, <1>7, <1>8, <1>9, <1>10, <1>11,
   <1>12, <1>13, <1>14

(* A mutation is admitted only if there is no turn and no mutation. *)
LEMMA BeginMutationKeeps ==
    ASSUME LifecycleInv, NEW r \in Requests, BeginExclusiveMutation(r)
    PROVE  LifecycleInv'
<1> USE DEF LifecycleInv, Counted
<1>1. TypeOK'
  BY DEF BeginExclusiveMutation, turns, cvars, Step, SnapshotCurrent, TypeOK
<1>2. OperationsCounted'
  <2>1. /\ ~Operates(r) /\ Operates(r)'
        /\ rs'[r] \in Sessions
        /\ operations' = [operations EXCEPT ![rs'[r]] = @ + 1]
    BY SnapshotsHeld DEF SnapshotsHeld, BeginExclusiveMutation, turns, cvars,
       Step, SnapshotCurrent, Operates, Mutates, TypeOK
  <2>2. \A y \in Requests \ {r} : (Operates(y)' <=> Operates(y)) /\ rs'[y] = rs[y]
    BY DEF BeginExclusiveMutation, turns, cvars, Step, SnapshotCurrent,
       Operates, Mutates
  <2> QED BY <2>1, <2>2, OperationsBegin
<1>3. ClosuresCounted'
  BY <1>1, ClosuresSame DEF BeginExclusiveMutation, turns, cvars, Step,
     SnapshotCurrent, Closes
<1>4. SnapshotsCounted'
  BY <1>1, SnapshotsSame DEF BeginExclusiveMutation, turns, cvars, Step,
     SnapshotCurrent
<1>q. Positive'
  BY <1>1, <1>2, <1>3, <1>4, CountsPositiveNext
<1>5. TurnsMatch'
  BY DEF BeginExclusiveMutation, turns, cvars, Step, SnapshotCurrent,
     TurnsMatch
<1>6. MutationsMatch'
  BY DEF BeginExclusiveMutation, turns, cvars, Step, SnapshotCurrent, Mutates,
     MutationsMatch, TypeOK
<1>7. SnapshotsHeld'
  BY DEF BeginExclusiveMutation, turns, cvars, Step, SnapshotCurrent,
     SnapshotsHeld
<1>8. TokenOwned'
  BY DEF BeginExclusiveMutation, turns, cvars, Step, SnapshotCurrent,
     TokenOwned, HoldsToken
<1>9. DrainedIsQuiet'
  BY <1>q DEF BeginExclusiveMutation, turns, cvars, Step, SnapshotCurrent,
     Operates, Mutates, Closes, Positive, DrainedIsQuiet, Destructive, TypeOK
<1>10. TurnStopped'
  BY DEF BeginExclusiveMutation, turns, cvars, Step, SnapshotCurrent,
     TurnStopped
<1>11. StaleSnapshots'
  BY DEF BeginExclusiveMutation, turns, cvars, Step, SnapshotCurrent,
     StaleSnapshots
<1>12. AdmittedCurrent'
  BY DEF BeginExclusiveMutation, turns, cvars, Step, SnapshotCurrent, Mutates,
     AdmittedCurrent, TypeOK, StaleSnapshots
<1>13. ShutdownReachesTurns'
  BY DEF BeginExclusiveMutation, turns, cvars, Step, SnapshotCurrent,
     ShutdownReachesTurns
<1>14. IdleEntriesReaped'
  BY DEF BeginExclusiveMutation, turns, cvars, Step, SnapshotCurrent,
     IdleEntriesReaped, TypeOK
<1> QED BY <1>1, <1>2, <1>3, <1>4, <1>5, <1>6, <1>7, <1>8, <1>9, <1>10, <1>11,
   <1>12, <1>13, <1>14

(* A mutation that reads its session again has the newest settings. *)
LEMMA ReloadKeeps ==
    ASSUME LifecycleInv, NEW r \in Requests, ReloadSession(r)
    PROVE  LifecycleInv'
<1> USE DEF LifecycleInv, Counted
<1>1. TypeOK'
  BY DEF ReloadSession, turns, cvars, live, Step, TypeOK
<1>2. OperationsCounted'
  BY <1>1, OperationsSame DEF ReloadSession, turns, cvars, live, Step,
     Operates, Mutates
<1>3. ClosuresCounted'
  BY <1>1, ClosuresSame DEF ReloadSession, turns, cvars, live, Step, Closes
<1>4. SnapshotsCounted'
  BY <1>1, SnapshotsSame DEF ReloadSession, turns, cvars, live, Step
<1>5. TurnsMatch'
  BY DEF ReloadSession, turns, cvars, live, Step, TurnsMatch
<1>6. MutationsMatch'
  BY DEF ReloadSession, turns, cvars, live, Step, Mutates, MutationsMatch
<1>7. SnapshotsHeld'
  BY DEF ReloadSession, turns, cvars, live, Step, SnapshotsHeld
<1>8. TokenOwned'
  BY DEF ReloadSession, turns, cvars, live, Step, TokenOwned, HoldsToken
<1>9. DrainedIsQuiet'
  BY DEF ReloadSession, turns, cvars, live, Step, Closes, DrainedIsQuiet,
     Destructive
<1>10. TurnStopped'
  BY DEF ReloadSession, turns, cvars, live, Step, TurnStopped
<1>11. StaleSnapshots'
  BY DEF ReloadSession, turns, cvars, live, Step, StaleSnapshots
<1>12. AdmittedCurrent'
  BY DEF ReloadSession, turns, cvars, live, Step, Mutates, AdmittedCurrent
<1>13. ShutdownReachesTurns'
  BY DEF ReloadSession, turns, cvars, live, Step, ShutdownReachesTurns
<1>14. IdleEntriesReaped'
  BY DEF ReloadSession, turns, cvars, live, Step, IdleEntriesReaped
<1> QED BY <1>1, <1>2, <1>3, <1>4, <1>5, <1>6, <1>7, <1>8, <1>9, <1>10, <1>11,
   <1>12, <1>13, <1>14

(* A write makes the snapshots of the other readers stale, and no turn reads. *)
LEMMA WriteSettingsKeeps ==
    ASSUME LifecycleInv, NEW r \in Requests, WriteSettings(r)
    PROVE  LifecycleInv'
<1> USE DEF LifecycleInv, Counted
<1>1. TypeOK'
  BY DEF WriteSettings, turns, cvars, live, Step, Readers, TypeOK
<1>2. OperationsCounted'
  BY <1>1, OperationsSame DEF WriteSettings, turns, cvars, live, Step,
     Operates, Mutates, Readers
<1>3. ClosuresCounted'
  BY <1>1, ClosuresSame DEF WriteSettings, turns, cvars, live, Step, Closes,
     Readers
<1>4. SnapshotsCounted'
  BY <1>1, SnapshotsSame DEF WriteSettings, turns, cvars, live, Step, Readers
<1>5. TurnsMatch'
  BY DEF WriteSettings, turns, cvars, live, Step, Readers, TurnsMatch
<1>6. MutationsMatch'
  BY DEF WriteSettings, turns, cvars, live, Step, Mutates, Readers,
     MutationsMatch
<1>7. SnapshotsHeld'
  BY DEF WriteSettings, turns, cvars, live, Step, Readers, SnapshotsHeld
<1>8. TokenOwned'
  BY DEF WriteSettings, turns, cvars, live, Step, Readers, TokenOwned,
     HoldsToken
<1>9. DrainedIsQuiet'
  BY DEF WriteSettings, turns, cvars, live, Step, Closes, Readers,
     DrainedIsQuiet, Destructive
<1>10. TurnStopped'
  BY DEF WriteSettings, turns, cvars, live, Step, Readers, TurnStopped
<1>11. StaleSnapshots'
  BY DEF WriteSettings, turns, cvars, live, Step, Mutates, Readers,
     StaleSnapshots, MutationsMatch, SnapshotsHeld
<1>12. AdmittedCurrent'
  BY RequestsAssumption DEF WriteSettings, turns, cvars, live, Step, Mutates,
     Readers, AdmittedCurrent, MutationsMatch, TurnsMatch
<1>13. ShutdownReachesTurns'
  BY DEF WriteSettings, turns, cvars, live, Step, Readers,
     ShutdownReachesTurns
<1>14. IdleEntriesReaped'
  BY DEF WriteSettings, turns, cvars, live, Step, Readers, IdleEntriesReaped
<1> QED BY <1>1, <1>2, <1>3, <1>4, <1>5, <1>6, <1>7, <1>8, <1>9, <1>10, <1>11,
   <1>12, <1>13, <1>14

(* The end of a mutation makes every snapshot taken before stale. *)
LEMMA EndMutationKeeps ==
    ASSUME LifecycleInv, NEW r \in Requests, EndExclusiveMutation(r)
    PROVE  LifecycleInv'
<1> USE DEF LifecycleInv, Counted
<1>p. Positive
  BY CountsPositive
<1>1. TypeOK'
  BY <1>p DEF EndExclusiveMutation, Reap, DrainedAt, Step, Operates, Mutates,
     Closes, Positive, TypeOK
<1>2. OperationsCounted'
  <2>1. /\ Operates(r) /\ ~Operates(r)'
        /\ rs'[r] \in Sessions
        /\ operations' = [operations EXCEPT ![rs[r]] = @ - 1]
    BY SnapshotsHeld DEF SnapshotsHeld, EndExclusiveMutation, Reap, DrainedAt,
       Step, Operates, Mutates, Closes, TypeOK
  <2>2. \A y \in Requests \ {r} : (Operates(y)' <=> Operates(y)) /\ rs'[y] = rs[y]
    BY DEF EndExclusiveMutation, Reap, DrainedAt, Step, Operates, Mutates,
       Closes
  <2> QED BY <2>1, <2>2, OperationsEnd
<1>3. ClosuresCounted'
  BY <1>1, ClosuresSame DEF EndExclusiveMutation, Reap, DrainedAt, Step,
     Mutates, Closes
<1>4. SnapshotsCounted'
  BY <1>1, SnapshotsSame DEF EndExclusiveMutation, Reap, DrainedAt, Step
<1>q. Positive'
  BY <1>1, <1>2, <1>3, <1>4, CountsPositiveNext
<1>5. TurnsMatch'
  BY DEF EndExclusiveMutation, Reap, DrainedAt, Step, Mutates, Closes,
     TurnsMatch
<1>6. MutationsMatch'
  BY DEF EndExclusiveMutation, Reap, DrainedAt, Step, Mutates, Closes,
     MutationsMatch, TypeOK
<1>m. \A t \in mutating' : operations'[t] > 0
  BY <1>q, <1>6 DEF Positive, MutationsMatch, Operates
<1>7. SnapshotsHeld'
  BY <1>q DEF EndExclusiveMutation, Reap, DrainedAt, Step, Operates, Mutates,
     Closes, Positive, SnapshotsHeld, TypeOK
<1>8. TokenOwned'
  BY <1>q DEF EndExclusiveMutation, Reap, DrainedAt, Step, Operates, Mutates,
     Closes, Positive, TokenOwned, HoldsToken
<1>9. DrainedIsQuiet'
  BY <1>p DEF EndExclusiveMutation, Reap, DrainedAt, Step, Operates, Mutates,
     Closes, Positive, DrainedIsQuiet, Destructive
<1>10. TurnStopped'
  BY DEF EndExclusiveMutation, Reap, DrainedAt, Step, TurnStopped
<1>11. StaleSnapshots'
  BY <1>q DEF EndExclusiveMutation, Reap, DrainedAt, Step, Positive,
     StaleSnapshots, TypeOK, SnapshotsHeld
<1>12. AdmittedCurrent'
  BY DEF EndExclusiveMutation, Reap, DrainedAt, Step, Mutates, Closes,
     AdmittedCurrent
<1>13. ShutdownReachesTurns'
  BY DEF EndExclusiveMutation, Reap, DrainedAt, Step, ShutdownReachesTurns
<1>14. IdleEntriesReaped'
  <2>1. /\ rs[r] \in Sessions /\ Reap(rs[r], epoch[rs[r]] + 1)
        /\ \A t \in Sessions \ {rs[r]} : /\ closures'[t] = closures[t]
                                        /\ operations'[t] = operations[t]
                                        /\ snapshots'[t] = snapshots[t]
                                        /\ turn'[t] = turn[t]
    BY DEF EndExclusiveMutation, DrainedAt, Step, TypeOK
  <2> QED BY <1>1, <1>m, <2>1, ReapKeepsUsed
<1> QED BY <1>1, <1>2, <1>3, <1>4, <1>5, <1>6, <1>7, <1>8, <1>9, <1>10, <1>11,
   <1>12, <1>13, <1>14

(* A closure shuts admission and makes every snapshot taken before stale. *)
LEMMA CloseKeeps ==
    ASSUME LifecycleInv, NEW c \in Closers, NEW s \in Sessions, CloseSessionLifecycle(c, s)
    PROVE  LifecycleInv'
<1> USE DEF LifecycleInv, Counted
<1>1. TypeOK'
  BY DEF CloseSessionLifecycle, turns, rvars, CloserStep, TypeOK
<1>2. OperationsCounted'
  BY <1>1, OperationsSame DEF CloseSessionLifecycle, turns, rvars, CloserStep,
     Operates, Mutates
<1>3. ClosuresCounted'
  <2>1. /\ ~Closes(c) /\ Closes(c)'
        /\ cs'[c] \in Sessions
        /\ closures' = [closures EXCEPT ![cs'[c]] = @ + 1]
    BY SnapshotsHeld DEF SnapshotsHeld, CloseSessionLifecycle, turns, rvars,
       CloserStep, Closes, TypeOK
  <2>2. \A y \in Closers \ {c} : (Closes(y)' <=> Closes(y)) /\ cs'[y] = cs[y]
    BY DEF CloseSessionLifecycle, turns, rvars, CloserStep, Closes
  <2> QED BY <2>1, <2>2, ClosuresBegin
<1>4. SnapshotsCounted'
  BY <1>1, SnapshotsSame DEF CloseSessionLifecycle, turns, rvars, CloserStep
<1>5. TurnsMatch'
  BY DEF CloseSessionLifecycle, turns, rvars, CloserStep, TurnsMatch
<1>6. MutationsMatch'
  BY DEF CloseSessionLifecycle, turns, rvars, CloserStep, Mutates,
     MutationsMatch
<1>7. SnapshotsHeld'
  BY DEF CloseSessionLifecycle, turns, rvars, CloserStep, SnapshotsHeld,
     TypeOK
<1>8. TokenOwned'
  BY DEF CloseSessionLifecycle, turns, rvars, CloserStep, TokenOwned,
     HoldsToken
<1>9. DrainedIsQuiet'
  BY DEF CloseSessionLifecycle, turns, rvars, CloserStep, Closes,
     DrainedIsQuiet, Destructive, TypeOK
<1>10. TurnStopped'
  BY DEF CloseSessionLifecycle, turns, rvars, CloserStep, TurnStopped
<1>11. StaleSnapshots'
  BY DEF CloseSessionLifecycle, turns, rvars, CloserStep, StaleSnapshots,
     TypeOK
<1>12. AdmittedCurrent'
  BY DEF CloseSessionLifecycle, turns, rvars, CloserStep, Mutates,
     AdmittedCurrent
<1>13. ShutdownReachesTurns'
  BY DEF CloseSessionLifecycle, turns, rvars, CloserStep, ShutdownReachesTurns
<1>14. IdleEntriesReaped'
  BY DEF CloseSessionLifecycle, turns, rvars, CloserStep, IdleEntriesReaped,
     TypeOK
<1> QED BY <1>1, <1>2, <1>3, <1>4, <1>5, <1>6, <1>7, <1>8, <1>9, <1>10, <1>11,
   <1>12, <1>13, <1>14

(* The token goes to one closer. *)
LEMMA TakeTokenKeeps ==
    ASSUME LifecycleInv, NEW c \in Closers, TakeToken(c)
    PROVE  LifecycleInv'
<1> USE DEF LifecycleInv, Counted
<1>1. TypeOK'
  BY DEF TakeToken, turns, rvars, CloserStep, TypeOK
<1>2. OperationsCounted'
  BY <1>1, OperationsSame DEF TakeToken, turns, rvars, CloserStep, Operates,
     Mutates
<1>3. ClosuresCounted'
  BY <1>1, ClosuresSame DEF TakeToken, turns, rvars, CloserStep, Closes
<1>4. SnapshotsCounted'
  BY <1>1, SnapshotsSame DEF TakeToken, turns, rvars, CloserStep
<1>5. TurnsMatch'
  BY DEF TakeToken, turns, rvars, CloserStep, TurnsMatch
<1>6. MutationsMatch'
  BY DEF TakeToken, turns, rvars, CloserStep, Mutates, MutationsMatch
<1>7. SnapshotsHeld'
  BY DEF TakeToken, turns, rvars, CloserStep, SnapshotsHeld
<1>8. TokenOwned'
  BY DEF TakeToken, turns, rvars, CloserStep, TokenOwned, HoldsToken, TypeOK
<1>9. DrainedIsQuiet'
  BY DEF TakeToken, turns, rvars, CloserStep, Closes, DrainedIsQuiet,
     Destructive
<1>10. TurnStopped'
  BY DEF TakeToken, turns, rvars, CloserStep, TurnStopped
<1>11. StaleSnapshots'
  BY DEF TakeToken, turns, rvars, CloserStep, StaleSnapshots
<1>12. AdmittedCurrent'
  BY DEF TakeToken, turns, rvars, CloserStep, Mutates, AdmittedCurrent
<1>13. ShutdownReachesTurns'
  BY DEF TakeToken, turns, rvars, CloserStep, ShutdownReachesTurns
<1>14. IdleEntriesReaped'
  BY DEF TakeToken, turns, rvars, CloserStep, IdleEntriesReaped
<1> QED BY <1>1, <1>2, <1>3, <1>4, <1>5, <1>6, <1>7, <1>8, <1>9, <1>10, <1>11,
   <1>12, <1>13, <1>14

(* A closer goes on when it was told that the operations ended. *)
LEMMA WaitForOperationsKeeps ==
    ASSUME LifecycleInv, NEW c \in Closers, WaitForOperations(c)
    PROVE  LifecycleInv'
<1> USE DEF LifecycleInv, Counted
<1>1. TypeOK'
  BY DEF WaitForOperations, turns, rvars, live, CloserStep, TypeOK
<1>2. OperationsCounted'
  BY <1>1, OperationsSame DEF WaitForOperations, turns, rvars, live,
     CloserStep, Operates, Mutates
<1>3. ClosuresCounted'
  BY <1>1, ClosuresSame DEF WaitForOperations, turns, rvars, live, CloserStep,
     Closes
<1>4. SnapshotsCounted'
  BY <1>1, SnapshotsSame DEF WaitForOperations, turns, rvars, live, CloserStep
<1>5. TurnsMatch'
  BY DEF WaitForOperations, turns, rvars, live, CloserStep, TurnsMatch
<1>6. MutationsMatch'
  BY DEF WaitForOperations, turns, rvars, live, CloserStep, Mutates,
     MutationsMatch
<1>7. SnapshotsHeld'
  BY DEF WaitForOperations, turns, rvars, live, CloserStep, SnapshotsHeld
<1>8. TokenOwned'
  BY DEF WaitForOperations, turns, rvars, live, CloserStep, TokenOwned,
     HoldsToken
<1>9. DrainedIsQuiet'
  BY DEF WaitForOperations, turns, rvars, live, CloserStep, Closes,
     DrainedIsQuiet, Destructive
<1>10. TurnStopped'
  BY DEF WaitForOperations, turns, rvars, live, CloserStep, TurnStopped
<1>11. StaleSnapshots'
  BY DEF WaitForOperations, turns, rvars, live, CloserStep, StaleSnapshots
<1>12. AdmittedCurrent'
  BY DEF WaitForOperations, turns, rvars, live, CloserStep, Mutates,
     AdmittedCurrent
<1>13. ShutdownReachesTurns'
  BY DEF WaitForOperations, turns, rvars, live, CloserStep,
     ShutdownReachesTurns
<1>14. IdleEntriesReaped'
  BY DEF WaitForOperations, turns, rvars, live, CloserStep, IdleEntriesReaped
<1> QED BY <1>1, <1>2, <1>3, <1>4, <1>5, <1>6, <1>7, <1>8, <1>9, <1>10, <1>11,
   <1>12, <1>13, <1>14

(* A closer waits for the turn it finds, and no other can begin. *)
LEMMA CancelTurnAndWaitKeeps ==
    ASSUME LifecycleInv, NEW c \in Closers, CancelTurnAndWait(c)
    PROVE  LifecycleInv'
<1> USE DEF LifecycleInv, Counted
<1>1. TypeOK'
  BY DEF CancelTurnAndWait, rvars, live, CloserStep, Marked, TypeOK
<1>2. OperationsCounted'
  BY <1>1, OperationsSame DEF CancelTurnAndWait, rvars, live, CloserStep,
     Operates, Mutates, Marked
<1>3. ClosuresCounted'
  BY <1>1, ClosuresSame DEF CancelTurnAndWait, rvars, live, CloserStep,
     Closes, Marked
<1>4. SnapshotsCounted'
  BY <1>1, SnapshotsSame DEF CancelTurnAndWait, rvars, live, CloserStep,
     Marked
<1>5. TurnsMatch'
  BY DEF CancelTurnAndWait, rvars, live, CloserStep, Marked, TurnsMatch
<1>6. MutationsMatch'
  BY DEF CancelTurnAndWait, rvars, live, CloserStep, Mutates, Marked,
     MutationsMatch
<1>7. SnapshotsHeld'
  BY DEF CancelTurnAndWait, rvars, live, CloserStep, Marked, SnapshotsHeld
<1>8. TokenOwned'
  BY DEF CancelTurnAndWait, rvars, live, CloserStep, Marked, TokenOwned,
     HoldsToken
<1>9. DrainedIsQuiet'
  BY DEF CancelTurnAndWait, rvars, live, CloserStep, Closes, Marked,
     DrainedIsQuiet, Destructive
<1>10. TurnStopped'
  BY DEF CancelTurnAndWait, rvars, live, CloserStep, Marked, TurnStopped,
     TypeOK
<1>11. StaleSnapshots'
  BY DEF CancelTurnAndWait, rvars, live, CloserStep, Marked, StaleSnapshots
<1>12. AdmittedCurrent'
  BY DEF CancelTurnAndWait, rvars, live, CloserStep, Mutates, Marked,
     AdmittedCurrent
<1>13. ShutdownReachesTurns'
  BY DEF CancelTurnAndWait, rvars, live, CloserStep, Marked,
     ShutdownReachesTurns
<1>14. IdleEntriesReaped'
  BY DEF CancelTurnAndWait, rvars, live, CloserStep, Marked, IdleEntriesReaped
<1> QED BY <1>1, <1>2, <1>3, <1>4, <1>5, <1>6, <1>7, <1>8, <1>9, <1>10, <1>11,
   <1>12, <1>13, <1>14

(* The turn a closer waited for is over. *)
LEMMA TurnSettledKeeps ==
    ASSUME LifecycleInv, NEW c \in Closers, TurnSettled(c)
    PROVE  LifecycleInv'
<1> USE DEF LifecycleInv, Counted
<1>1. TypeOK'
  BY DEF TurnSettled, turns, rvars, live, CloserStep, TypeOK
<1>2. OperationsCounted'
  BY <1>1, OperationsSame DEF TurnSettled, turns, rvars, live, CloserStep,
     Operates, Mutates
<1>3. ClosuresCounted'
  BY <1>1, ClosuresSame DEF TurnSettled, turns, rvars, live, CloserStep,
     Closes
<1>4. SnapshotsCounted'
  BY <1>1, SnapshotsSame DEF TurnSettled, turns, rvars, live, CloserStep
<1>5. TurnsMatch'
  BY DEF TurnSettled, turns, rvars, live, CloserStep, TurnsMatch
<1>6. MutationsMatch'
  BY DEF TurnSettled, turns, rvars, live, CloserStep, Mutates, MutationsMatch
<1>7. SnapshotsHeld'
  BY DEF TurnSettled, turns, rvars, live, CloserStep, SnapshotsHeld
<1>8. TokenOwned'
  BY DEF TurnSettled, turns, rvars, live, CloserStep, TokenOwned, HoldsToken
<1>9. DrainedIsQuiet'
  BY DEF TurnSettled, turns, rvars, live, CloserStep, Closes, DrainedIsQuiet,
     Destructive
<1>10. TurnStopped'
  BY DEF TurnSettled, turns, rvars, live, CloserStep, TurnStopped
<1>11. StaleSnapshots'
  BY DEF TurnSettled, turns, rvars, live, CloserStep, StaleSnapshots
<1>12. AdmittedCurrent'
  BY DEF TurnSettled, turns, rvars, live, CloserStep, Mutates, AdmittedCurrent
<1>13. ShutdownReachesTurns'
  BY DEF TurnSettled, turns, rvars, live, CloserStep, ShutdownReachesTurns
<1>14. IdleEntriesReaped'
  BY DEF TurnSettled, turns, rvars, live, CloserStep, IdleEntriesReaped
<1> QED BY <1>1, <1>2, <1>3, <1>4, <1>5, <1>6, <1>7, <1>8, <1>9, <1>10, <1>11,
   <1>12, <1>13, <1>14

(* A closer that refuses turns found none. *)
LEMMA CheckNoTurnKeeps ==
    ASSUME LifecycleInv, NEW c \in Closers, CheckNoTurn(c)
    PROVE  LifecycleInv'
<1> USE DEF LifecycleInv, Counted
<1>1. TypeOK'
  BY DEF CheckNoTurn, turns, rvars, live, CloserStep, TypeOK
<1>2. OperationsCounted'
  BY <1>1, OperationsSame DEF CheckNoTurn, turns, rvars, live, CloserStep,
     Operates, Mutates
<1>3. ClosuresCounted'
  BY <1>1, ClosuresSame DEF CheckNoTurn, turns, rvars, live, CloserStep,
     Closes
<1>4. SnapshotsCounted'
  BY <1>1, SnapshotsSame DEF CheckNoTurn, turns, rvars, live, CloserStep
<1>5. TurnsMatch'
  BY DEF CheckNoTurn, turns, rvars, live, CloserStep, TurnsMatch
<1>6. MutationsMatch'
  BY DEF CheckNoTurn, turns, rvars, live, CloserStep, Mutates, MutationsMatch
<1>7. SnapshotsHeld'
  BY DEF CheckNoTurn, turns, rvars, live, CloserStep, SnapshotsHeld
<1>8. TokenOwned'
  BY DEF CheckNoTurn, turns, rvars, live, CloserStep, TokenOwned, HoldsToken
<1>9. DrainedIsQuiet'
  BY DEF CheckNoTurn, turns, rvars, live, CloserStep, Closes, DrainedIsQuiet,
     Destructive
<1>10. TurnStopped'
  BY DEF CheckNoTurn, turns, rvars, live, CloserStep, TurnStopped
<1>11. StaleSnapshots'
  BY DEF CheckNoTurn, turns, rvars, live, CloserStep, StaleSnapshots
<1>12. AdmittedCurrent'
  BY DEF CheckNoTurn, turns, rvars, live, CloserStep, Mutates, AdmittedCurrent
<1>13. ShutdownReachesTurns'
  BY DEF CheckNoTurn, turns, rvars, live, CloserStep, ShutdownReachesTurns
<1>14. IdleEntriesReaped'
  BY DEF CheckNoTurn, turns, rvars, live, CloserStep, IdleEntriesReaped
<1> QED BY <1>1, <1>2, <1>3, <1>4, <1>5, <1>6, <1>7, <1>8, <1>9, <1>10, <1>11,
   <1>12, <1>13, <1>14

(* A session changes when nobody works on it. *)
LEMMA ChangeSessionKeeps ==
    ASSUME LifecycleInv, NEW c \in Closers, ChangeSession(c)
    PROVE  LifecycleInv'
<1> USE DEF LifecycleInv, Counted
<1>1. TypeOK'
  BY DEF ChangeSession, turns, cvars, live, Readers, TypeOK
<1>2. OperationsCounted'
  BY <1>1, OperationsSame DEF ChangeSession, turns, cvars, live, Operates,
     Mutates, Readers
<1>3. ClosuresCounted'
  BY <1>1, ClosuresSame DEF ChangeSession, turns, cvars, live, Closes, Readers
<1>4. SnapshotsCounted'
  BY <1>1, SnapshotsSame DEF ChangeSession, turns, cvars, live, Readers
<1>q. Positive'
  BY <1>1, <1>2, <1>3, <1>4, CountsPositiveNext
<1>5. TurnsMatch'
  BY DEF ChangeSession, turns, cvars, live, Readers, TurnsMatch
<1>6. MutationsMatch'
  BY DEF ChangeSession, turns, cvars, live, Mutates, Readers, MutationsMatch
<1>7. SnapshotsHeld'
  BY DEF ChangeSession, turns, cvars, live, Readers, SnapshotsHeld
<1>8. TokenOwned'
  BY DEF ChangeSession, turns, cvars, live, Readers, TokenOwned, HoldsToken
<1>9. DrainedIsQuiet'
  BY DEF ChangeSession, turns, cvars, live, Closes, Readers, DrainedIsQuiet,
     Destructive
<1>10. TurnStopped'
  BY DEF ChangeSession, turns, cvars, live, Readers, TurnStopped
<1>11. StaleSnapshots'
  BY <1>q DEF ChangeSession, turns, cvars, live, Operates, Mutates, Closes,
     Readers, Positive, StaleSnapshots
<1>12. AdmittedCurrent'
  BY <1>q, RequestsAssumption DEF ChangeSession, turns, cvars, live, Operates,
     Mutates, Closes, Readers, Positive, AdmittedCurrent, TurnsMatch,
     TurnStopped, DrainedIsQuiet, Destructive
<1>13. ShutdownReachesTurns'
  BY DEF ChangeSession, turns, cvars, live, Readers, ShutdownReachesTurns
<1>14. IdleEntriesReaped'
  BY DEF ChangeSession, turns, cvars, live, Readers, IdleEntriesReaped
<1> QED BY <1>1, <1>2, <1>3, <1>4, <1>5, <1>6, <1>7, <1>8, <1>9, <1>10, <1>11,
   <1>12, <1>13, <1>14

(* A release makes the snapshots taken during the closure stale. *)
LEMMA ReleaseKeeps ==
    ASSUME LifecycleInv, NEW c \in Closers, Closes(c), Release(c)
    PROVE  LifecycleInv'
<1> USE DEF LifecycleInv, Counted
<1>p. Positive
  BY CountsPositive
<1>1. TypeOK'
  BY <1>p DEF Release, Reap, rvars, CloserStep, Positive, TypeOK
<1>2. OperationsCounted'
  BY <1>1, OperationsSame DEF Release, Reap, rvars, CloserStep, Operates,
     Mutates
<1>3. ClosuresCounted'
  <2>1. /\ Closes(c) /\ ~Closes(c)'
        /\ cs'[c] \in Sessions
        /\ closures' = [closures EXCEPT ![cs[c]] = @ - 1]
    BY SnapshotsHeld DEF SnapshotsHeld, Release, Reap, rvars, CloserStep,
       Closes, TypeOK
  <2>2. \A y \in Closers \ {c} : (Closes(y)' <=> Closes(y)) /\ cs'[y] = cs[y]
    BY DEF Release, Reap, rvars, CloserStep, Closes
  <2> QED BY <2>1, <2>2, ClosuresEnd
<1>4. SnapshotsCounted'
  BY <1>1, SnapshotsSame DEF Release, Reap, rvars, CloserStep
<1>q. Positive'
  BY <1>1, <1>2, <1>3, <1>4, CountsPositiveNext
<1>5. TurnsMatch'
  BY DEF Release, Reap, rvars, CloserStep, TurnsMatch
<1>6. MutationsMatch'
  BY DEF Release, Reap, rvars, CloserStep, Mutates, MutationsMatch
<1>m. \A t \in mutating' : operations'[t] > 0
  BY <1>q, <1>6 DEF Positive, MutationsMatch, Operates
<1>7. SnapshotsHeld'
  BY <1>q DEF Release, Reap, rvars, CloserStep, Positive, SnapshotsHeld,
     TypeOK
<1>8. TokenOwned'
  BY <1>q DEF Release, Reap, rvars, CloserStep, Operates, Mutates, Closes,
     Positive, TokenOwned, HoldsToken
<1>9. DrainedIsQuiet'
  BY DEF Release, Reap, rvars, CloserStep, Closes, DrainedIsQuiet,
     Destructive, TypeOK
<1>10. TurnStopped'
  BY DEF Release, Reap, rvars, CloserStep, TurnStopped, TypeOK
<1>11. StaleSnapshots'
  BY <1>q DEF Release, Reap, rvars, CloserStep, Positive, StaleSnapshots,
     TypeOK, SnapshotsHeld
<1>12. AdmittedCurrent'
  BY DEF Release, Reap, rvars, CloserStep, Mutates, AdmittedCurrent
<1>13. ShutdownReachesTurns'
  BY DEF Release, Reap, rvars, CloserStep, ShutdownReachesTurns
<1>14. IdleEntriesReaped'
  <2>1. /\ cs[c] \in Sessions /\ Reap(cs[c], epoch[cs[c]] + 1)
        /\ \A t \in Sessions \ {cs[c]} : /\ closures'[t] = closures[t]
                                        /\ operations'[t] = operations[t]
                                        /\ snapshots'[t] = snapshots[t]
                                        /\ turn'[t] = turn[t]
    BY DEF Release, rvars, CloserStep, TypeOK
  <2> QED BY <1>1, <1>m, <2>1, ReapKeepsUsed
<1> QED BY <1>1, <1>2, <1>3, <1>4, <1>5, <1>6, <1>7, <1>8, <1>9, <1>10, <1>11,
   <1>12, <1>13, <1>14

(* Only the owner of the token frees it. *)
LEMMA ReturnTokenKeeps ==
    ASSUME LifecycleInv, NEW c \in Closers, ReturnToken(c)
    PROVE  LifecycleInv'
<1> USE DEF LifecycleInv, Counted
<1>1. TypeOK'
  BY DEF ReturnToken, turns, rvars, CloserStep, TypeOK
<1>2. OperationsCounted'
  BY <1>1, OperationsSame DEF ReturnToken, turns, rvars, CloserStep, Operates,
     Mutates
<1>3. ClosuresCounted'
  BY <1>1, ClosuresSame DEF ReturnToken, turns, rvars, CloserStep, Closes
<1>4. SnapshotsCounted'
  BY <1>1, SnapshotsSame DEF ReturnToken, turns, rvars, CloserStep
<1>5. TurnsMatch'
  BY DEF ReturnToken, turns, rvars, CloserStep, TurnsMatch
<1>6. MutationsMatch'
  BY DEF ReturnToken, turns, rvars, CloserStep, Mutates, MutationsMatch
<1>7. SnapshotsHeld'
  BY DEF ReturnToken, turns, rvars, CloserStep, SnapshotsHeld
<1>8. TokenOwned'
  BY DEF ReturnToken, turns, rvars, CloserStep, TokenOwned, HoldsToken
<1>9. DrainedIsQuiet'
  BY DEF ReturnToken, turns, rvars, CloserStep, Closes, DrainedIsQuiet,
     Destructive
<1>10. TurnStopped'
  BY DEF ReturnToken, turns, rvars, CloserStep, TurnStopped
<1>11. StaleSnapshots'
  BY DEF ReturnToken, turns, rvars, CloserStep, StaleSnapshots
<1>12. AdmittedCurrent'
  BY DEF ReturnToken, turns, rvars, CloserStep, Mutates, AdmittedCurrent
<1>13. ShutdownReachesTurns'
  BY DEF ReturnToken, turns, rvars, CloserStep, ShutdownReachesTurns
<1>14. IdleEntriesReaped'
  BY DEF ReturnToken, turns, rvars, CloserStep, IdleEntriesReaped
<1> QED BY <1>1, <1>2, <1>3, <1>4, <1>5, <1>6, <1>7, <1>8, <1>9, <1>10, <1>11,
   <1>12, <1>13, <1>14

(* The operator stops a turn. *)
LEMMA CancelTurnKeeps ==
    ASSUME LifecycleInv, NEW s \in Sessions, CancelTurn(s)
    PROVE  LifecycleInv'
<1> USE DEF LifecycleInv, Counted
<1>1. TypeOK'
  BY DEF CancelTurn, rvars, cvars, live, Marked, TypeOK
<1>2. OperationsCounted'
  BY <1>1, OperationsSame DEF CancelTurn, rvars, cvars, live, Operates,
     Mutates, Marked
<1>3. ClosuresCounted'
  BY <1>1, ClosuresSame DEF CancelTurn, rvars, cvars, live, Closes, Marked
<1>4. SnapshotsCounted'
  BY <1>1, SnapshotsSame DEF CancelTurn, rvars, cvars, live, Marked
<1>5. TurnsMatch'
  BY DEF CancelTurn, rvars, cvars, live, Marked, TurnsMatch
<1>6. MutationsMatch'
  BY DEF CancelTurn, rvars, cvars, live, Mutates, Marked, MutationsMatch
<1>7. SnapshotsHeld'
  BY DEF CancelTurn, rvars, cvars, live, Marked, SnapshotsHeld
<1>8. TokenOwned'
  BY DEF CancelTurn, rvars, cvars, live, Marked, TokenOwned, HoldsToken
<1>9. DrainedIsQuiet'
  BY DEF CancelTurn, rvars, cvars, live, Closes, Marked, DrainedIsQuiet,
     Destructive
<1>10. TurnStopped'
  BY DEF CancelTurn, rvars, cvars, live, Marked, TurnStopped
<1>11. StaleSnapshots'
  BY DEF CancelTurn, rvars, cvars, live, Marked, StaleSnapshots
<1>12. AdmittedCurrent'
  BY DEF CancelTurn, rvars, cvars, live, Mutates, Marked, AdmittedCurrent
<1>13. ShutdownReachesTurns'
  BY DEF CancelTurn, rvars, cvars, live, Marked, ShutdownReachesTurns
<1>14. IdleEntriesReaped'
  BY DEF CancelTurn, rvars, cvars, live, Marked, IdleEntriesReaped
<1> QED BY <1>1, <1>2, <1>3, <1>4, <1>5, <1>6, <1>7, <1>8, <1>9, <1>10, <1>11,
   <1>12, <1>13, <1>14

(* Shutdown stops every turn. *)
LEMMA CancelAllTurnsKeeps ==
    ASSUME LifecycleInv, CancelAllTurns
    PROVE  LifecycleInv'
<1> USE DEF LifecycleInv, Counted
<1>1. TypeOK'
  BY DEF CancelAllTurns, rvars, cvars, live, Marked, TypeOK
<1>2. OperationsCounted'
  BY <1>1, OperationsSame DEF CancelAllTurns, rvars, cvars, live, Operates,
     Mutates, Marked
<1>3. ClosuresCounted'
  BY <1>1, ClosuresSame DEF CancelAllTurns, rvars, cvars, live, Closes, Marked
<1>4. SnapshotsCounted'
  BY <1>1, SnapshotsSame DEF CancelAllTurns, rvars, cvars, live, Marked
<1>5. TurnsMatch'
  BY DEF CancelAllTurns, rvars, cvars, live, Marked, TurnsMatch
<1>6. MutationsMatch'
  BY DEF CancelAllTurns, rvars, cvars, live, Mutates, Marked, MutationsMatch
<1>7. SnapshotsHeld'
  BY DEF CancelAllTurns, rvars, cvars, live, Marked, SnapshotsHeld
<1>8. TokenOwned'
  BY DEF CancelAllTurns, rvars, cvars, live, Marked, TokenOwned, HoldsToken
<1>9. DrainedIsQuiet'
  BY DEF CancelAllTurns, rvars, cvars, live, Closes, Marked, DrainedIsQuiet,
     Destructive
<1>10. TurnStopped'
  BY DEF CancelAllTurns, rvars, cvars, live, Marked, TurnStopped
<1>11. StaleSnapshots'
  BY DEF CancelAllTurns, rvars, cvars, live, Marked, StaleSnapshots
<1>12. AdmittedCurrent'
  BY DEF CancelAllTurns, rvars, cvars, live, Mutates, Marked, AdmittedCurrent
<1>13. ShutdownReachesTurns'
  BY DEF CancelAllTurns, rvars, cvars, live, Marked, ShutdownReachesTurns,
     TypeOK, TurnsMatch
<1>14. IdleEntriesReaped'
  BY DEF CancelAllTurns, rvars, cvars, live, Marked, IdleEntriesReaped
<1> QED BY <1>1, <1>2, <1>3, <1>4, <1>5, <1>6, <1>7, <1>8, <1>9, <1>10, <1>11,
   <1>12, <1>13, <1>14

-----------------------------------------------------------------------------
(* The empty registry. *)
LEMMA InitEstablishes ==
    ASSUME Init
    PROVE  LifecycleInv
<1> USE DEF Init
<1>1. TypeOK
  BY DEF TypeOK
<1>2. Counted
  <2>1. \A s \in Sessions : OpsOf(s) = {} /\ ClosersOf(s) = {} /\ LeasesOf(s) = {}
    BY DEF OpsOf, Operates, Mutates, ClosersOf, Closes, LeasesOf
  <2> QED BY <2>1, FS_EmptySet DEF Counted, OperationsCounted,
     ClosuresCounted, SnapshotsCounted
<1>3. TurnsMatch /\ MutationsMatch /\ SnapshotsHeld
  BY DEF TurnsMatch, MutationsMatch, Mutates, SnapshotsHeld
<1>4. TokenOwned /\ DrainedIsQuiet /\ TurnStopped
  BY DEF TokenOwned, HoldsToken, DrainedIsQuiet, Destructive, TurnStopped
<1>5. StaleSnapshots /\ AdmittedCurrent /\ ShutdownReachesTurns /\ IdleEntriesReaped
  BY DEF StaleSnapshots, AdmittedCurrent, ShutdownReachesTurns,
     IdleEntriesReaped
<1> QED BY <1>1, <1>2, <1>3, <1>4, <1>5 DEF LifecycleInv

(* A step of a request. *)
LEMMA RequestKeeps ==
    ASSUME LifecycleInv, NEW r \in Requests, RequestStep(r)
    PROVE  LifecycleInv'
BY SnapshotKeeps, ReadKeeps, ReleaseSnapshotKeeps, RegisterTurnKeeps,
   ClearTurnKeeps, BeginOperationKeeps, EndOperationKeeps, BeginMutationKeeps,
   ReloadKeeps, WriteSettingsKeeps, EndMutationKeeps DEF RequestStep

(* A step of a closer. *)
LEMMA CloserKeeps ==
    ASSUME LifecycleInv, NEW c \in Closers, CloseStep(c)
    PROVE  LifecycleInv'
<1>1. CASE ReleaseClosure(c) \/ GiveUp(c)
  BY <1>1, ReleaseKeeps DEF ReleaseClosure, GiveUp, Closes
<1> QED BY <1>1, CloseKeeps, TakeTokenKeeps, WaitForOperationsKeeps,
   CancelTurnAndWaitKeeps, TurnSettledKeeps, CheckNoTurnKeeps,
   ChangeSessionKeeps, ReturnTokenKeeps DEF CloseStep

(* A step that changes nothing. *)
LEMMA StutterKeeps ==
    ASSUME LifecycleInv, UNCHANGED vars
    PROVE  LifecycleInv'
<1> USE DEF LifecycleInv, vars, live, turns, rvars, cvars
<1>1. TypeOK'
  BY DEF TypeOK
<1>2. Counted'
  BY DEF Counted, OperationsCounted, ClosuresCounted, SnapshotsCounted, OpsOf,
     ClosersOf, LeasesOf, Operates, Mutates, Closes
<1>3. TurnsMatch' /\ MutationsMatch' /\ SnapshotsHeld'
  BY DEF TurnsMatch, MutationsMatch, Mutates, SnapshotsHeld
<1>4. TokenOwned' /\ DrainedIsQuiet' /\ TurnStopped'
  BY DEF TokenOwned, HoldsToken, DrainedIsQuiet, Destructive, Closes,
     TurnStopped
<1>5. StaleSnapshots' /\ AdmittedCurrent' /\ ShutdownReachesTurns' /\ IdleEntriesReaped'
  BY DEF StaleSnapshots, AdmittedCurrent, Mutates, ShutdownReachesTurns,
     IdleEntriesReaped
<1> QED BY <1>1, <1>2, <1>3, <1>4, <1>5

(* The registry of agentChatLive and its callers keep the inductive        *)
(* invariant, whatever the interleaving of requests, closers, operator     *)
(* stops and the shutdown.                                                 *)
THEOREM LifecycleInvariant == Spec => []LifecycleInv
<1>1. LifecycleInv /\ [Next]_vars => LifecycleInv'
  BY RequestKeeps, CloserKeeps, CancelTurnKeeps, CancelAllTurnsKeeps,
     StutterKeeps DEF Next
<1> QED BY <1>1, InitEstablishes, PTL DEF Spec

(* Every variable of the registry keeps its type: in particular no counter *)
(* of an entry is ever decremented below zero.                             *)
THEOREM TypeCorrect == Spec => []TypeOK
<1>1. LifecycleInv => TypeOK
  BY DEF LifecycleInv
<1> QED BY <1>1, LifecycleInvariant, PTL

(* One closer at a time is past waitForOperations on a session; then no    *)
(* operation or mutation of the session is admitted, and past              *)
(* cancelTurnAndWait or hasTurn there is no turn either: the token has one *)
(* owner, a drained closer saw zero operations and its own closure keeps   *)
(* new ones out.                                                           *)
THEOREM DestructionAlone == Spec => []DestructionIsAlone
<1>1. LifecycleInv => DestructionIsAlone
  <2> SUFFICES ASSUME LifecycleInv, NEW c \in Closers, Destructive(c)
               PROVE  /\ \A d \in Closers \ {c} : Destructive(d) => cs[d] # cs[c]
                      /\ \A r \in Requests : Operates(r) => rs[r] # cs[c]
                      /\ cpc[c] \in {"quiet", "checked"} => turn[cs[c]] = NoRequest
    BY DEF DestructionIsAlone
  <2> USE DEF LifecycleInv
  <2>1. \A d \in Closers \ {c} : Destructive(d) => cs[d] # cs[c]
    BY DEF TokenOwned, HoldsToken, Destructive
  <2>2. operations[cs[c]] = 0
    BY DEF DrainedIsQuiet
  <2>3. \A r \in Requests : Operates(r) => rs[r] # cs[c]
    BY <2>2, CountsPositive DEF Positive
  <2> QED BY <2>1, <2>3 DEF TurnStopped
<1> QED BY <1>1, LifecycleInvariant, PTL

(* A turn runs with the session it read, an operation is not overtaken by  *)
(* a close or delete, and a mutation writes what nobody changed since its  *)
(* reload (snapshotCurrentLocked): the epoch of a leased entry only grows, *)
(* and every close, release and mutation makes it grow.                    *)
THEOREM AdmittedCurrentWork == Spec => []AdmittedWorkIsCurrent
<1>1. LifecycleInv => AdmittedWorkIsCurrent
  BY DEF LifecycleInv, AdmittedCurrent, AdmittedWorkIsCurrent, Mutates
<1> QED BY <1>1, LifecycleInvariant, PTL

(* After cancelAllTurns every turn is cancelled: turnAdmissionClosed is    *)
(* set in the critical section that cancels the registered turns.          *)
THEOREM ShutdownReaches == Spec => []ShutdownReachesTurns
<1>1. LifecycleInv => ShutdownReachesTurns
  BY DEF LifecycleInv
<1> QED BY <1>1, LifecycleInvariant, PTL

(* reapLifecycleLocked leaves no idle entry: every critical section that   *)
(* takes the last use of an entry away ends with it.                       *)
THEOREM EntriesReaped == Spec => []IdleEntriesReaped
<1>1. LifecycleInv => IdleEntriesReaped
  BY DEF LifecycleInv
<1> QED BY <1>1, LifecycleInvariant, PTL

=============================================================================
