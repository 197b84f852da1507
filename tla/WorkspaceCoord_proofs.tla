----------------------- MODULE WorkspaceCoord_proofs -----------------------
(***************************************************************************)
(* Safety of workspace coordination for every set of workspace keys, every *)
(* finite set of writers, any owners, discards and restarts.               *)
(***************************************************************************)
EXTENDS WorkspaceCoord, FiniteSetTheorems, TLAPS

HoldersOf(k) == {w \in Writers : wpc[w] = "holding" /\ wk[w] = k}

(* The writer half of LeasesExact, with the holders named. *)
WritersCounted == \A k \in Keys : writers[k] = Cardinality(HoldersOf(k))

(* The closure half. *)
ClosuresMarked ==
    \A k \in Keys : exclusive[k] <=> \E d \in Discarders : Holds(d) /\ KeyOf(d) = k

(* What a discarder has re-read stays true while it holds its closures:    *)
(* its own session is idle, and the owners it has seen are not at work in  *)
(* its workspace, unless they are Hecate sessions.                         *)
ScanStaysTrue ==
    \A d \in Discarders : dpc[d] \in {"checked", "captured", "applied"} =>
        /\ ds[d] \notin turns \cup active
        /\ \A o \in seen[d] :
               o \in active /\ Overlaps(WorkspaceOf[o], KeyOf(d)) => o \in Hecate
        /\ dpc[d] # "checked" => Owners \subseteq seen[d]

(* The inductive invariant. *)
CoordInv ==
    /\ TypeOK
    /\ WritersCounted
    /\ ClosuresMarked
    /\ ClosureIsExclusive
    /\ NoLostWakeup
    /\ ScanStaysTrue
    /\ DiscardsWhatWasReviewed

-----------------------------------------------------------------------------
(* Overlap is symmetric, and every workspace overlaps itself. *)
LEMMA OverlapsFacts ==
    /\ \A k, l : Overlaps(k, l) <=> Overlaps(l, k)
    /\ \A k \in Keys : Overlaps(k, k)
<1>1. \A k, l : Overlaps(k, l) <=> Overlaps(l, k)
  BY DEF Overlaps
<1>2. ASSUME NEW k \in Keys PROVE Overlaps(k, k)
  <2>1. k \in Seq(Elements)
    BY KeysAssumption
  <2>2. Len(k) \in Nat
    BY <2>1
  <2> QED BY <2>2 DEF Overlaps, Contains
<1> QED BY <1>1, <1>2

(* The key of a discarder is a key. *)
LEMMA KeyOfTyped ==
    ASSUME TypeOK
    PROVE  \A d \in Discarders : ds[d] \in Sessions /\ ds[d] \in Owners /\ KeyOf(d) \in Keys
BY OwnersAssumption DEF TypeOK, KeyOf

(* The holders of a key can be counted. *)
LEMMA HoldersFinite == \A k : IsFiniteSet(HoldersOf(k))
BY WritersAssumption, FS_Subset DEF HoldersOf

(* A zero counter means that no writer holds the key. *)
LEMMA ZeroMeansFree ==
    ASSUME TypeOK, WritersCounted
    PROVE  \A w \in Writers : wpc[w] = "holding" => writers[wk[w]] > 0
<1> SUFFICES ASSUME NEW w \in Writers, wpc[w] = "holding"
             PROVE  writers[wk[w]] > 0
  OBVIOUS
<1>1. wk[w] \in Keys /\ writers[wk[w]] \in Nat
  BY DEF TypeOK
<1>2. w \in HoldersOf(wk[w])
  BY DEF HoldersOf
<1>3. Cardinality(HoldersOf(wk[w])) # 0
  BY <1>2, HoldersFinite, FS_EmptySet
<1> QED BY <1>1, <1>3 DEF WritersCounted

(* Admission counts one holder more. *)
LEMMA AdmitCounts ==
    ASSUME TypeOK, WritersCounted, NEW w \in Writers, NEW k \in Keys,
           wpc[w] # "holding", Admit(w, k)
    PROVE  WritersCounted'
<1> SUFFICES ASSUME NEW l \in Keys PROVE writers'[l] = Cardinality(HoldersOf(l)')
  BY DEF WritersCounted
<1>0. /\ writers[l] = Cardinality(HoldersOf(l))
      /\ IsFiniteSet(HoldersOf(l))
      /\ w \notin HoldersOf(l)
  BY HoldersFinite DEF WritersCounted, HoldersOf
<1>1. CASE l = k
  <2>1. HoldersOf(l)' = HoldersOf(l) \cup {w}
    BY <1>1 DEF HoldersOf, Admit, TypeOK
  <2>2. Cardinality(HoldersOf(l) \cup {w}) = Cardinality(HoldersOf(l)) + 1
    BY <1>0, FS_AddElement
  <2> QED BY <1>0, <1>1, <2>1, <2>2 DEF Admit, TypeOK
<1>2. CASE l # k
  <2>1. HoldersOf(l)' = HoldersOf(l)
    BY <1>2, <1>0 DEF HoldersOf, Admit, TypeOK
  <2> QED BY <1>0, <1>2, <2>1 DEF Admit, TypeOK
<1> QED BY <1>1, <1>2

(* A release counts one holder less. *)
LEMMA ReleaseCounts ==
    ASSUME TypeOK, WritersCounted, NEW w \in Writers, ReleaseWriter(w)
    PROVE  WritersCounted'
<1> SUFFICES ASSUME NEW l \in Keys PROVE writers'[l] = Cardinality(HoldersOf(l)')
  BY DEF WritersCounted
<1>0. /\ writers[l] = Cardinality(HoldersOf(l))
      /\ IsFiniteSet(HoldersOf(l))
  BY HoldersFinite DEF WritersCounted
<1>1. CASE l = wk[w]
  <2>1. HoldersOf(l)' = HoldersOf(l) \ {w} /\ w \in HoldersOf(l)
    BY <1>1 DEF HoldersOf, ReleaseWriter, TypeOK
  <2>2. Cardinality(HoldersOf(l) \ {w}) = Cardinality(HoldersOf(l)) - 1
    BY <1>0, <2>1, FS_RemoveElement
  <2> QED BY <1>0, <1>1, <2>1, <2>2 DEF ReleaseWriter, TypeOK
<1>2. CASE l # wk[w]
  <2>1. HoldersOf(l)' = HoldersOf(l)
    BY <1>2 DEF HoldersOf, ReleaseWriter, TypeOK
  <2> QED BY <1>0, <1>2, <2>1 DEF ReleaseWriter, TypeOK
<1> QED BY <1>1, <1>2

(* The counters are unchanged while nobody is admitted or released. *)
LEMMA CountsKept ==
    ASSUME WritersCounted, writers' = writers,
           \A w \in Writers : /\ wpc'[w] = "holding" <=> wpc[w] = "holding"
                              /\ wpc[w] = "holding" => wk'[w] = wk[w]
    PROVE  WritersCounted'
<1>1. \A k \in Keys : HoldersOf(k)' = HoldersOf(k)
  BY DEF HoldersOf
<1> QED BY <1>1 DEF WritersCounted

(* The registry's part of the invariant depends on the registry, the       *)
(* writers and who holds which closure.                                    *)
LEMMA RegistryKept ==
    ASSUME TypeOK, WritersCounted, ClosuresMarked, ClosureIsExclusive, NoLostWakeup,
           UNCHANGED <<registry, wvars>>,
           \A d \in Discarders : /\ Holds(d)' <=> Holds(d)
                                 /\ Holds(d) => ds'[d] = ds[d]
    PROVE  WritersCounted' /\ ClosuresMarked' /\ ClosureIsExclusive' /\ NoLostWakeup'
<1>1. WritersCounted'
  BY CountsKept DEF registry, wvars
<1>2. \A d \in Discarders : Holds(d) => KeyOf(d)' = KeyOf(d)
  BY DEF KeyOf
<1>3. ClosuresMarked'
  BY <1>2 DEF ClosuresMarked, registry
<1>4. ClosureIsExclusive'
  BY <1>2 DEF ClosureIsExclusive, wvars
<1>5. NoLostWakeup'
  BY DEF NoLostWakeup, Blocked, registry, wvars
<1> QED BY <1>1, <1>3, <1>4, <1>5

(* The discarders' part survives when owners settle, turns end and no      *)
(* discard past its recheck moves.                                         *)
LEMMA WorkKept ==
    ASSUME ScanStaysTrue, DiscardsWhatWasReviewed,
           active' \subseteq active, turns' \subseteq turns, revision' = revision,
           \A d \in Discarders : dpc'[d] \in {"checked", "captured", "applied"} =>
               /\ dpc'[d] = dpc[d]
               /\ ds'[d] = ds[d]
               /\ seen'[d] = seen[d]
               /\ expected'[d] = expected[d]
    PROVE  ScanStaysTrue' /\ DiscardsWhatWasReviewed'
<1> SUFFICES ASSUME NEW d \in Discarders, dpc'[d] \in {"checked", "captured", "applied"}
             PROVE  /\ ds'[d] \notin turns' \cup active'
                    /\ \A o \in seen'[d] :
                          o \in active' /\ Overlaps(WorkspaceOf[o], KeyOf(d)') => o \in Hecate
                    /\ dpc'[d] # "checked" => Owners \subseteq seen'[d]
                    /\ dpc'[d] = "captured" => revision'[KeyOf(d)'] = expected'[d]
  BY DEF ScanStaysTrue, DiscardsWhatWasReviewed
<1>1. KeyOf(d)' = KeyOf(d)
  BY DEF KeyOf
<1> QED BY <1>1 DEF ScanStaysTrue, DiscardsWhatWasReviewed

(* An admission respects every closure. *)
LEMMA AdmitExclusive ==
    ASSUME TypeOK, ClosuresMarked, ClosureIsExclusive, NEW w \in Writers, NEW k \in Keys,
           ~Blocked(k), Admit(w, k), UNCHANGED dvars
    PROVE  ClosureIsExclusive'
<1>1. \A d \in Discarders : /\ Holds(d)' <=> Holds(d)
                            /\ KeyOf(d)' = KeyOf(d)
                            /\ KeyOf(d) \in Keys
  BY KeyOfTyped DEF Holds, KeyOf, dvars
<1>2. \A d \in Discarders : Holds(d) => ~Overlaps(KeyOf(d), k)
  BY <1>1, OverlapsFacts DEF Blocked, ClosuresMarked
<1>3. \A v \in Writers : wpc'[v] = "holding" =>
          (v = w /\ wk'[v] = k) \/ (wpc[v] = "holding" /\ wk'[v] = wk[v])
  BY DEF Admit, TypeOK
<1> QED BY <1>1, <1>2, <1>3 DEF ClosureIsExclusive

(* A step that keeps all variables keeps the invariant. *)
LEMMA CoordStutter == CoordInv /\ UNCHANGED vars => CoordInv'
<1> SUFFICES ASSUME CoordInv, UNCHANGED vars PROVE CoordInv'
  OBVIOUS
<1>0. /\ WritersCounted' = WritersCounted /\ ClosuresMarked' = ClosuresMarked
      /\ TypeOK' = TypeOK /\ NoLostWakeup' = NoLostWakeup
  BY DEF vars, registry, wvars, dvars, durable, WritersCounted, HoldersOf, ClosuresMarked,
         TypeOK, NoLostWakeup, Blocked, Holds, KeyOf
<1>1. /\ ClosureIsExclusive' = ClosureIsExclusive /\ ScanStaysTrue' = ScanStaysTrue
      /\ DiscardsWhatWasReviewed' = DiscardsWhatWasReviewed
  BY DEF vars, registry, wvars, dvars, durable, ClosureIsExclusive, ScanStaysTrue,
         DiscardsWhatWasReviewed, Holds, KeyOf
<1> QED BY <1>0, <1>1 DEF CoordInv
-----------------------------------------------------------------------------
(* Every step keeps the invariant, one case per action. *)
LEMMA CoordStep == CoordInv /\ Next => CoordInv'
<1> SUFFICES ASSUME CoordInv, Next PROVE CoordInv'
  OBVIOUS
<1>0. /\ TypeOK /\ WritersCounted /\ ClosuresMarked /\ ClosureIsExclusive
      /\ NoLostWakeup /\ ScanStaysTrue /\ DiscardsWhatWasReviewed
  BY DEF CoordInv
<1> USE <1>0
<1>1. ASSUME NEW w \in Writers, NEW k \in Keys, AcquireWriter(w, k) PROVE CoordInv'
  <2>1. TypeOK'
    BY <1>1 DEF AcquireWriter, Admit, TypeOK, registry, wvars, dvars, durable
  <2>2. WritersCounted'
    BY <1>1, AdmitCounts DEF AcquireWriter
  <2>3. ClosuresMarked'
    BY <1>1 DEF AcquireWriter, ClosuresMarked, Holds, KeyOf, dvars
  <2>4. ClosureIsExclusive'
    BY <1>1, AdmitExclusive DEF AcquireWriter
  <2>5. NoLostWakeup'
    BY <1>1 DEF AcquireWriter, Admit, NoLostWakeup, Blocked, TypeOK
  <2>6. ScanStaysTrue' /\ DiscardsWhatWasReviewed'
    BY <1>1, WorkKept DEF AcquireWriter, dvars, durable
  <2> QED BY <2>1, <2>2, <2>3, <2>4, <2>5, <2>6 DEF CoordInv
<1>2. ASSUME NEW w \in Writers, NEW k \in Keys, WaitWriter(w, k) PROVE CoordInv'
  <2>1. TypeOK'
    BY <1>2 DEF WaitWriter, TypeOK, registry, wvars, dvars, durable
  <2>2. WritersCounted'
    BY <1>2, CountsKept DEF WaitWriter, registry, TypeOK
  <2>3. ClosuresMarked'
    BY <1>2 DEF WaitWriter, ClosuresMarked, Holds, KeyOf, dvars, registry
  <2>4. ClosureIsExclusive'
    BY <1>2 DEF WaitWriter, ClosureIsExclusive, Holds, KeyOf, dvars, TypeOK
  <2>5. NoLostWakeup'
    BY <1>2 DEF WaitWriter, NoLostWakeup, Blocked, registry, TypeOK
  <2>6. ScanStaysTrue' /\ DiscardsWhatWasReviewed'
    BY <1>2, WorkKept DEF WaitWriter, dvars, durable
  <2> QED BY <2>1, <2>2, <2>3, <2>4, <2>5, <2>6 DEF CoordInv
<1>3. ASSUME NEW w \in Writers, WaitRecheck(w) PROVE CoordInv'
  <2>1. wk[w] \in Keys
    BY DEF TypeOK
  <2>2. TypeOK'
    BY <1>3, <2>1 DEF WaitRecheck, Admit, TypeOK, registry, wvars, dvars, durable
  <2>3. WritersCounted'
    <3>1. CASE Blocked(wk[w])
      BY <1>3, <3>1, CountsKept DEF WaitRecheck, Admit
    <3>2. CASE ~Blocked(wk[w])
      BY <1>3, <2>1, <3>2, AdmitCounts DEF WaitRecheck
    <3> QED BY <3>1, <3>2
  <2>4. ClosuresMarked'
    BY <1>3 DEF WaitRecheck, ClosuresMarked, Holds, KeyOf, dvars
  <2>5. ClosureIsExclusive'
    <3>1. CASE Blocked(wk[w])
      BY <1>3, <3>1 DEF WaitRecheck, ClosureIsExclusive, Holds, KeyOf, dvars
    <3>2. CASE ~Blocked(wk[w])
      BY <1>3, <2>1, <3>2, AdmitExclusive DEF WaitRecheck
    <3> QED BY <3>1, <3>2
  <2>6. NoLostWakeup'
    <3>1. \A k : Blocked(k)' <=> Blocked(k)
      BY <1>3 DEF WaitRecheck, Blocked
    <3>2. CASE Blocked(wk[w])
      BY <1>3, <3>1, <3>2 DEF WaitRecheck, NoLostWakeup
    <3>3. CASE ~Blocked(wk[w])
      BY <1>3, <3>1, <3>3 DEF WaitRecheck, Admit, NoLostWakeup, TypeOK
    <3> QED BY <3>2, <3>3
  <2>7. ScanStaysTrue' /\ DiscardsWhatWasReviewed'
    BY <1>3, WorkKept DEF WaitRecheck, dvars, durable
  <2> QED BY <2>2, <2>3, <2>4, <2>5, <2>6, <2>7 DEF CoordInv
<1>4. ASSUME NEW w \in Writers, WaitCancelled(w) PROVE CoordInv'
  <2>1. TypeOK'
    BY <1>4 DEF WaitCancelled, TypeOK, registry, wvars, dvars, durable
  <2>2. WritersCounted'
    BY <1>4, CountsKept DEF WaitCancelled, registry, TypeOK
  <2>3. ClosuresMarked'
    BY <1>4 DEF WaitCancelled, ClosuresMarked, Holds, KeyOf, dvars, registry
  <2>4. ClosureIsExclusive'
    BY <1>4 DEF WaitCancelled, ClosureIsExclusive, Holds, KeyOf, dvars, TypeOK
  <2>5. NoLostWakeup'
    BY <1>4 DEF WaitCancelled, NoLostWakeup, Blocked, registry, TypeOK
  <2>6. ScanStaysTrue' /\ DiscardsWhatWasReviewed'
    BY <1>4, WorkKept DEF WaitCancelled, dvars, durable
  <2> QED BY <2>1, <2>2, <2>3, <2>4, <2>5, <2>6 DEF CoordInv
<1>5. ASSUME NEW w \in Writers, ReleaseWriter(w) PROVE CoordInv'
  <2>1. TypeOK'
    <3>1. wk[w] \in Keys /\ writers[wk[w]] \in Nat /\ writers[wk[w]] > 0
      BY <1>5, ZeroMeansFree DEF ReleaseWriter, TypeOK
    <3> QED BY <1>5, <3>1 DEF ReleaseWriter, TypeOK, dvars, durable
  <2>2. WritersCounted'
    BY <1>5, ReleaseCounts
  <2>3. ClosuresMarked'
    BY <1>5 DEF ReleaseWriter, ClosuresMarked, Holds, KeyOf, dvars
  <2>4. ClosureIsExclusive'
    BY <1>5 DEF ReleaseWriter, ClosureIsExclusive, Holds, KeyOf, dvars, TypeOK
  <2>5. NoLostWakeup'
    BY <1>5 DEF ReleaseWriter, NoLostWakeup, Blocked, TypeOK
  <2>6. ScanStaysTrue' /\ DiscardsWhatWasReviewed'
    BY <1>5, WorkKept DEF ReleaseWriter, dvars, durable
  <2> QED BY <2>1, <2>2, <2>3, <2>4, <2>5, <2>6 DEF CoordInv
<1>6. ASSUME NEW w \in Writers, Write(w) PROVE CoordInv'
  <2>1. TypeOK'
    BY <1>6, BoundsAssumption DEF Write, Touch, TypeOK, registry, wvars, dvars, durable
  <2>2. \A e \in Discarders : Holds(e)' <=> Holds(e)
    BY <1>6 DEF Write, Holds, TypeOK, dvars
  <2>3. WritersCounted' /\ ClosuresMarked' /\ ClosureIsExclusive' /\ NoLostWakeup'
    BY <1>6, <2>2, RegistryKept DEF Write, dvars, registry, wvars, Holds, TypeOK
  <2>4. ScanStaysTrue'
    BY <1>6 DEF Write, ScanStaysTrue, KeyOf, dvars
  <2>5. DiscardsWhatWasReviewed'
    <3>1. \A e \in Discarders : /\ KeyOf(e)' = KeyOf(e)
                                /\ KeyOf(e) \in Keys
      BY <1>6, KeyOfTyped DEF Write, KeyOf, dvars
    <3>2. \A e \in Discarders : Holds(e) => ~Overlaps(KeyOf(e), wk[w])
      BY <1>6 DEF Write, ClosureIsExclusive
    <3>3. \A e \in Discarders : Holds(e) => revision'[KeyOf(e)] = revision[KeyOf(e)]
      BY <1>6, <3>1, <3>2 DEF Write, Touch
    <3> QED BY <1>6, <3>1, <3>3 DEF Write, DiscardsWhatWasReviewed, Holds, dvars
  <2> QED BY <2>1, <2>3, <2>4, <2>5 DEF CoordInv
<1>7. ASSUME NEW w \in Writers, NEW o \in Owners, Activate(w, o) PROVE CoordInv'
  <2>1. TypeOK'
    BY <1>7 DEF Activate, TypeOK, registry, wvars, dvars, durable
  <2>2. \A e \in Discarders : Holds(e)' <=> Holds(e)
    BY <1>7 DEF Activate, Holds, TypeOK, dvars
  <2>3. WritersCounted' /\ ClosuresMarked' /\ ClosureIsExclusive' /\ NoLostWakeup'
    BY <1>7, <2>2, RegistryKept DEF Activate, dvars, registry, wvars, Holds, TypeOK
  <2>4. ScanStaysTrue'
    <3>1. \A e \in Discarders : Holds(e) => ~Overlaps(WorkspaceOf[o], KeyOf(e))
      BY <1>7, OverlapsFacts DEF Activate, ClosureIsExclusive
    <3>2. \A e \in Discarders : Holds(e) => ds[e] # o
      BY <3>1, KeyOfTyped, OverlapsFacts DEF KeyOf
    <3> QED BY <1>7, <3>1, <3>2 DEF Activate, ScanStaysTrue, KeyOf, Holds, dvars
  <2>5. DiscardsWhatWasReviewed'
    BY <1>7 DEF Activate, DiscardsWhatWasReviewed, KeyOf, dvars
  <2> QED BY <2>1, <2>3, <2>4, <2>5 DEF CoordInv
<1>8. ASSUME NEW s \in Sessions, RegisterTurn(s) PROVE CoordInv'
  <2>1. TypeOK'
    BY <1>8 DEF RegisterTurn, TypeOK, registry, wvars, dvars, durable
  <2>2. \A e \in Discarders : Holds(e)' <=> Holds(e)
    BY <1>8 DEF RegisterTurn, Holds, TypeOK, dvars
  <2>3. WritersCounted' /\ ClosuresMarked' /\ ClosureIsExclusive' /\ NoLostWakeup'
    BY <1>8, <2>2, RegistryKept DEF RegisterTurn, dvars, registry, wvars, Holds, TypeOK
  <2>4. ScanStaysTrue'
    <3>1. \A e \in Discarders : Holds(e) => ds[e] # s
      BY <1>8 DEF RegisterTurn, SessionClosed, ClosesSession
    <3> QED BY <1>8, <3>1 DEF RegisterTurn, ScanStaysTrue, KeyOf, Holds, dvars, durable
  <2>5. DiscardsWhatWasReviewed'
    BY <1>8 DEF RegisterTurn, DiscardsWhatWasReviewed, KeyOf, dvars, durable
  <2> QED BY <2>1, <2>3, <2>4, <2>5 DEF CoordInv
<1>9. ASSUME NEW s \in Sessions, HecateTurn(s) PROVE CoordInv'
  <2>1. TypeOK'
    BY <1>9, OwnersAssumption DEF HecateTurn, TypeOK, registry, wvars, dvars, durable
  <2>2. \A e \in Discarders : Holds(e)' <=> Holds(e)
    BY <1>9 DEF HecateTurn, Holds, TypeOK, dvars
  <2>3. WritersCounted' /\ ClosuresMarked' /\ ClosureIsExclusive' /\ NoLostWakeup'
    BY <1>9, <2>2, RegistryKept DEF HecateTurn, dvars, registry, wvars, Holds, TypeOK
  <2>4. ScanStaysTrue'
    BY <1>9 DEF HecateTurn, ScanStaysTrue, KeyOf, dvars
  <2>5. DiscardsWhatWasReviewed'
    BY <1>9 DEF HecateTurn, DiscardsWhatWasReviewed, KeyOf, dvars
  <2> QED BY <2>1, <2>3, <2>4, <2>5 DEF CoordInv
<1>10. ASSUME NEW s \in Sessions, ClearTurn(s) PROVE CoordInv'
  <2>1. TypeOK'
    BY <1>10 DEF ClearTurn, TypeOK, registry, wvars, dvars, durable
  <2>2. \A e \in Discarders : Holds(e)' <=> Holds(e)
    BY <1>10 DEF ClearTurn, Holds, TypeOK, dvars
  <2>3. WritersCounted' /\ ClosuresMarked' /\ ClosureIsExclusive' /\ NoLostWakeup'
    BY <1>10, <2>2, RegistryKept DEF ClearTurn, dvars, registry, wvars, Holds, TypeOK
  <2>4. ScanStaysTrue' /\ DiscardsWhatWasReviewed'
    BY <1>10, WorkKept DEF ClearTurn, dvars, durable, TypeOK
  <2> QED BY <2>1, <2>3, <2>4 DEF CoordInv
<1>11. ASSUME NEW o \in Owners, Settle(o) PROVE CoordInv'
  <2>1. TypeOK'
    BY <1>11 DEF Settle, TypeOK, registry, wvars, dvars, durable
  <2>2. \A e \in Discarders : Holds(e)' <=> Holds(e)
    BY <1>11 DEF Settle, Holds, TypeOK, dvars
  <2>3. WritersCounted' /\ ClosuresMarked' /\ ClosureIsExclusive' /\ NoLostWakeup'
    BY <1>11, <2>2, RegistryKept DEF Settle, dvars, registry, wvars, Holds, TypeOK
  <2>4. ScanStaysTrue' /\ DiscardsWhatWasReviewed'
    BY <1>11, WorkKept DEF Settle, dvars, durable, TypeOK
  <2> QED BY <2>1, <2>3, <2>4 DEF CoordInv
<1>12. ASSUME NEW d \in Discarders, NEW s \in Sessions, Review(d, s) PROVE CoordInv'
  <2>1. TypeOK'
    BY <1>12, OwnersAssumption DEF Review, TypeOK, registry, wvars, dvars, durable
  <2>2. \A e \in Discarders : Holds(e)' <=> Holds(e)
    BY <1>12 DEF Review, Holds, TypeOK, dvars
  <2>3. WritersCounted' /\ ClosuresMarked' /\ ClosureIsExclusive' /\ NoLostWakeup'
    BY <1>12, <2>2, RegistryKept DEF Review, dvars, registry, wvars, Holds, TypeOK
  <2>4. ScanStaysTrue' /\ DiscardsWhatWasReviewed'
    BY <1>12, WorkKept DEF Review, dvars, durable, TypeOK
  <2> QED BY <2>1, <2>3, <2>4 DEF CoordInv
<1>13. ASSUME NEW d \in Discarders, Request(d) PROVE CoordInv'
  <2>1. TypeOK'
    BY <1>13 DEF Request, TypeOK, registry, wvars, dvars, durable
  <2>2. \A e \in Discarders : Holds(e)' <=> Holds(e)
    BY <1>13 DEF Request, Holds, TypeOK, dvars
  <2>3. WritersCounted' /\ ClosuresMarked' /\ ClosureIsExclusive' /\ NoLostWakeup'
    BY <1>13, <2>2, RegistryKept DEF Request, dvars, registry, wvars, Holds, TypeOK
  <2>4. ScanStaysTrue' /\ DiscardsWhatWasReviewed'
    BY <1>13, WorkKept DEF Request, dvars, durable, TypeOK
  <2> QED BY <2>1, <2>3, <2>4 DEF CoordInv
<1>14. ASSUME NEW d \in Discarders, CloseSession(d) PROVE CoordInv'
  <2>1. TypeOK'
    BY <1>14 DEF CloseSession, TypeOK, registry, wvars, dvars, durable
  <2>2. \A e \in Discarders : Holds(e)' <=> Holds(e)
    BY <1>14 DEF CloseSession, Holds, TypeOK, dvars
  <2>3. WritersCounted' /\ ClosuresMarked' /\ ClosureIsExclusive' /\ NoLostWakeup'
    BY <1>14, <2>2, RegistryKept DEF CloseSession, dvars, registry, wvars, Holds, TypeOK
  <2>4. ScanStaysTrue' /\ DiscardsWhatWasReviewed'
    BY <1>14, WorkKept DEF CloseSession, dvars, durable, TypeOK
  <2> QED BY <2>1, <2>3, <2>4 DEF CoordInv
<1>15. ASSUME NEW d \in Discarders, Refuse(d) PROVE CoordInv'
  <2>1. TypeOK'
    BY <1>15, BoundsAssumption DEF Refuse, Return, TypeOK, registry, wvars, dvars, durable
  <2>2. \A e \in Discarders : Holds(e)' <=> Holds(e)
    BY <1>15 DEF Refuse, Return, Holds, TypeOK, dvars
  <2>3. WritersCounted' /\ ClosuresMarked' /\ ClosureIsExclusive' /\ NoLostWakeup'
    BY <1>15, <2>2, RegistryKept DEF Refuse, Return, dvars, registry, wvars, Holds, TypeOK
  <2>4. ScanStaysTrue' /\ DiscardsWhatWasReviewed'
    BY <1>15, WorkKept DEF Refuse, Return, dvars, durable, TypeOK
  <2> QED BY <2>1, <2>3, <2>4 DEF CoordInv
<1>16. ASSUME NEW d \in Discarders, TryClose(d) PROVE CoordInv'
  <2> DEFINE k == KeyOf(d)
  <2>0. /\ k \in Keys
        /\ \A e \in Discarders : KeyOf(e)' = KeyOf(e) /\ KeyOf(e) \in Keys
        /\ \A e \in Discarders : Holds(e)' <=> (e = d \/ Holds(e))
    BY <1>16, KeyOfTyped DEF TryClose, KeyOf, Holds, TypeOK
  <2>1. TypeOK'
    BY <1>16, <2>0 DEF TryClose, TypeOK, wvars, durable
  <2>2. WritersCounted'
    BY <1>16, CountsKept DEF TryClose, wvars
  <2>3. ClosuresMarked'
    BY <1>16, <2>0 DEF TryClose, ClosuresMarked, TypeOK
  <2>4. ClosureIsExclusive'
    <3>1. \A e \in Discarders : Holds(e) => ~Overlaps(k, KeyOf(e)) /\ ~Overlaps(KeyOf(e), k)
      BY <1>16, <2>0, OverlapsFacts DEF TryClose, Blocked, ClosuresMarked
    <3>2. ASSUME NEW w \in Writers, wpc[w] = "holding" PROVE ~Overlaps(k, wk[w])
      <4>1. wk[w] \in Keys /\ writers[wk[w]] # 0
        BY <3>2, ZeroMeansFree DEF TypeOK
      <4> QED BY <1>16, <4>1 DEF TryClose
    <3> QED BY <1>16, <2>0, <3>1, <3>2 DEF TryClose, ClosureIsExclusive, wvars
  <2>5. NoLostWakeup'
    BY <1>16, <2>0 DEF TryClose, NoLostWakeup, Blocked, wvars, TypeOK
  <2>6. ScanStaysTrue' /\ DiscardsWhatWasReviewed'
    BY <1>16, WorkKept DEF TryClose, durable, TypeOK
  <2> QED BY <2>1, <2>2, <2>3, <2>4, <2>5, <2>6 DEF CoordInv
<1>17. ASSUME NEW d \in Discarders, ReleaseExclusive(d) PROVE CoordInv'
  <2>0. /\ KeyOf(d) \in Keys
        /\ \A e \in Discarders : KeyOf(e)' = KeyOf(e) /\ KeyOf(e) \in Keys
        /\ \A e \in Discarders : Holds(e)' <=> (e # d /\ Holds(e))
    BY <1>17, KeyOfTyped DEF ReleaseExclusive, Return, KeyOf, Holds, TypeOK
  <2>1. TypeOK'
    BY <1>17, <2>0, BoundsAssumption DEF ReleaseExclusive, Return, Notify, TypeOK, durable
  <2>2. WritersCounted'
    BY <1>17, CountsKept DEF ReleaseExclusive
  <2>3. ClosuresMarked'
    <3>1. \A e \in Discarders \ {d} : Holds(e) => KeyOf(e) # KeyOf(d)
      BY <1>17, <2>0, OverlapsFacts DEF ReleaseExclusive, ClosureIsExclusive
    <3> QED BY <1>17, <2>0, <3>1 DEF ReleaseExclusive, ClosuresMarked, TypeOK
  <2>4. ClosureIsExclusive'
    BY <1>17, <2>0 DEF ReleaseExclusive, ClosureIsExclusive
  <2>5. NoLostWakeup'
    BY <1>17 DEF ReleaseExclusive, Notify, NoLostWakeup
  <2>6. ScanStaysTrue' /\ DiscardsWhatWasReviewed'
    BY <1>17, WorkKept DEF ReleaseExclusive, Return, durable, TypeOK
  <2> QED BY <2>1, <2>2, <2>3, <2>4, <2>5, <2>6 DEF CoordInv
<1>18. ASSUME NEW d \in Discarders, RecheckSession(d) PROVE CoordInv'
  <2>1. TypeOK'
    BY <1>18, OwnersAssumption DEF RecheckSession, TypeOK, registry, wvars, dvars, durable
  <2>2. \A e \in Discarders : Holds(e)' <=> Holds(e)
    BY <1>18 DEF RecheckSession, Holds, TypeOK, dvars
  <2>3. WritersCounted' /\ ClosuresMarked' /\ ClosureIsExclusive' /\ NoLostWakeup'
    BY <1>18, <2>2, RegistryKept DEF RecheckSession, dvars, registry, wvars, Holds, TypeOK
  <2>4. ScanStaysTrue'
    <3>1. \A e \in Discarders : KeyOf(e)' = KeyOf(e)
      BY <1>18 DEF RecheckSession, KeyOf
    <3>2. ASSUME NEW e \in Discarders, e # d, dpc'[e] \in {"checked", "captured", "applied"}
          PROVE  /\ ds'[e] \notin turns' \cup active'
                 /\ \A o \in seen'[e] :
                       o \in active' /\ Overlaps(WorkspaceOf[o], KeyOf(e)') => o \in Hecate
                 /\ dpc'[e] # "checked" => Owners \subseteq seen'[e]
      BY <1>18, <3>1, <3>2 DEF RecheckSession, ScanStaysTrue, durable, TypeOK
    <3>3. /\ ds'[d] \notin turns' \cup active'
          /\ \A o \in seen'[d] :
                o \in active' /\ Overlaps(WorkspaceOf[o], KeyOf(d)') => o \in Hecate
          /\ dpc'[d] # "checked" => Owners \subseteq seen'[d]
      BY <1>18, <3>1 DEF RecheckSession, ScanStaysTrue, durable, TypeOK
    <3> QED BY <3>2, <3>3 DEF ScanStaysTrue
  <2>5. DiscardsWhatWasReviewed'
    BY <1>18 DEF RecheckSession, DiscardsWhatWasReviewed, KeyOf, durable, TypeOK
  <2> QED BY <2>1, <2>3, <2>4, <2>5 DEF CoordInv
<1>19. ASSUME NEW d \in Discarders, NEW o \in Owners, ScanOwner(d, o) PROVE CoordInv'
  <2>1. TypeOK'
    BY <1>19 DEF ScanOwner, TypeOK, registry, wvars, dvars, durable
  <2>2. \A e \in Discarders : Holds(e)' <=> Holds(e)
    BY <1>19 DEF ScanOwner, Holds, TypeOK, dvars
  <2>3. WritersCounted' /\ ClosuresMarked' /\ ClosureIsExclusive' /\ NoLostWakeup'
    BY <1>19, <2>2, RegistryKept DEF ScanOwner, dvars, registry, wvars, Holds, TypeOK
  <2>4. ScanStaysTrue'
    <3>1. \A e \in Discarders : KeyOf(e)' = KeyOf(e)
      BY <1>19 DEF ScanOwner, KeyOf
    <3>2. ASSUME NEW e \in Discarders, e # d, dpc'[e] \in {"checked", "captured", "applied"}
          PROVE  /\ ds'[e] \notin turns' \cup active'
                 /\ \A q \in seen'[e] :
                       q \in active' /\ Overlaps(WorkspaceOf[q], KeyOf(e)') => q \in Hecate
                 /\ dpc'[e] # "checked" => Owners \subseteq seen'[e]
      BY <1>19, <3>1, <3>2 DEF ScanOwner, ScanStaysTrue, durable, TypeOK
    <3>3. /\ ds'[d] \notin turns' \cup active'
          /\ \A q \in seen'[d] :
                q \in active' /\ Overlaps(WorkspaceOf[q], KeyOf(d)') => q \in Hecate
          /\ dpc'[d] # "checked" => Owners \subseteq seen'[d]
      BY <1>19, <3>1 DEF ScanOwner, ScanStaysTrue, durable, TypeOK
    <3> QED BY <3>2, <3>3 DEF ScanStaysTrue
  <2>5. DiscardsWhatWasReviewed'
    BY <1>19 DEF ScanOwner, DiscardsWhatWasReviewed, KeyOf, durable, TypeOK
  <2> QED BY <2>1, <2>3, <2>4, <2>5 DEF CoordInv
<1>20. ASSUME NEW d \in Discarders, Capture(d) PROVE CoordInv'
  <2>1. TypeOK'
    BY <1>20 DEF Capture, TypeOK, registry, wvars, dvars, durable
  <2>2. \A e \in Discarders : Holds(e)' <=> Holds(e)
    BY <1>20 DEF Capture, Holds, TypeOK, dvars
  <2>3. WritersCounted' /\ ClosuresMarked' /\ ClosureIsExclusive' /\ NoLostWakeup'
    BY <1>20, <2>2, RegistryKept DEF Capture, dvars, registry, wvars, Holds, TypeOK
  <2>4. ScanStaysTrue'
    <3>1. \A e \in Discarders : KeyOf(e)' = KeyOf(e)
      BY <1>20 DEF Capture, KeyOf
    <3>2. ASSUME NEW e \in Discarders, e # d, dpc'[e] \in {"checked", "captured", "applied"}
          PROVE  /\ ds'[e] \notin turns' \cup active'
                 /\ \A o \in seen'[e] :
                       o \in active' /\ Overlaps(WorkspaceOf[o], KeyOf(e)') => o \in Hecate
                 /\ dpc'[e] # "checked" => Owners \subseteq seen'[e]
      BY <1>20, <3>1, <3>2 DEF Capture, ScanStaysTrue, durable, TypeOK
    <3>3. /\ ds'[d] \notin turns' \cup active'
          /\ \A o \in seen'[d] :
                o \in active' /\ Overlaps(WorkspaceOf[o], KeyOf(d)') => o \in Hecate
          /\ dpc'[d] # "checked" => Owners \subseteq seen'[d]
      BY <1>20, <3>1 DEF Capture, ScanStaysTrue, durable, TypeOK
    <3> QED BY <3>2, <3>3 DEF ScanStaysTrue
  <2>5. DiscardsWhatWasReviewed'
    BY <1>20 DEF Capture, DiscardsWhatWasReviewed, KeyOf, durable, TypeOK
  <2> QED BY <2>1, <2>3, <2>4, <2>5 DEF CoordInv
<1>21. ASSUME NEW d \in Discarders, Apply(d) PROVE CoordInv'
  <2>1. TypeOK'
    BY <1>21, BoundsAssumption DEF Apply, Touch, TypeOK, registry, wvars, dvars, durable
  <2>2. \A e \in Discarders : Holds(e)' <=> Holds(e)
    BY <1>21 DEF Apply, Holds, TypeOK, dvars
  <2>3. WritersCounted' /\ ClosuresMarked' /\ ClosureIsExclusive' /\ NoLostWakeup'
    BY <1>21, <2>2, RegistryKept DEF Apply, dvars, registry, wvars, Holds, TypeOK
  <2>4. ScanStaysTrue'
    <3>1. \A e \in Discarders : KeyOf(e)' = KeyOf(e)
      BY <1>21 DEF Apply, KeyOf
    <3>2. ASSUME NEW e \in Discarders, e # d, dpc'[e] \in {"checked", "captured", "applied"}
          PROVE  /\ ds'[e] \notin turns' \cup active'
                 /\ \A o \in seen'[e] :
                       o \in active' /\ Overlaps(WorkspaceOf[o], KeyOf(e)') => o \in Hecate
                 /\ dpc'[e] # "checked" => Owners \subseteq seen'[e]
      BY <1>21, <3>1, <3>2 DEF Apply, ScanStaysTrue, durable, TypeOK
    <3>3. /\ ds'[d] \notin turns' \cup active'
          /\ \A o \in seen'[d] :
                o \in active' /\ Overlaps(WorkspaceOf[o], KeyOf(d)') => o \in Hecate
          /\ dpc'[d] # "checked" => Owners \subseteq seen'[d]
      BY <1>21, <3>1 DEF Apply, ScanStaysTrue, durable, TypeOK
    <3> QED BY <3>2, <3>3 DEF ScanStaysTrue
  <2>5. DiscardsWhatWasReviewed'
    <3>1. \A e \in Discarders : KeyOf(e)' = KeyOf(e) /\ KeyOf(e) \in Keys
      BY <1>21, KeyOfTyped DEF Apply, KeyOf
    <3>2. \A e \in Discarders \ {d} : Holds(e) => ~Overlaps(KeyOf(e), KeyOf(d))
      BY <1>21 DEF Apply, ClosureIsExclusive, Holds
    <3>3. \A e \in Discarders \ {d} : Holds(e) => revision'[KeyOf(e)] = revision[KeyOf(e)]
      BY <1>21, <3>1, <3>2 DEF Apply, Touch
    <3> QED BY <1>21, <3>1, <3>3 DEF Apply, DiscardsWhatWasReviewed, Holds, TypeOK
  <2> QED BY <2>1, <2>3, <2>4, <2>5 DEF CoordInv
<1>22. CASE Crash
  <2>1. TypeOK'
    BY <1>22, BoundsAssumption DEF Crash, TypeOK, durable
  <2>2. \A e \in Discarders : ~Holds(e)' /\ dpc'[e] = "idle"
    BY <1>22 DEF Crash, Holds
  <2>3. \A w \in Writers : wpc'[w] = "idle"
    BY <1>22 DEF Crash
  <2>4. WritersCounted'
    <3>1. \A k \in Keys : HoldersOf(k)' = {}
      BY <2>3 DEF HoldersOf
    <3> QED BY <1>22, <3>1, FS_EmptySet DEF Crash, WritersCounted
  <2>5. ClosuresMarked' /\ ClosureIsExclusive' /\ NoLostWakeup'
    BY <1>22, <2>2, <2>3 DEF Crash, ClosuresMarked, ClosureIsExclusive, NoLostWakeup
  <2>6. ScanStaysTrue' /\ DiscardsWhatWasReviewed'
    BY <2>2 DEF ScanStaysTrue, DiscardsWhatWasReviewed
  <2> QED BY <2>1, <2>4, <2>5, <2>6 DEF CoordInv
<1>23. CASE \E w \in Writers : WriterStep(w)
  BY <1>23, <1>1, <1>2, <1>3, <1>4, <1>6, <1>5, <1>7 DEF WriterStep
<1>24. CASE \E s \in Sessions : SessionStep(s)
  BY <1>24, <1>8, <1>9, <1>10 DEF SessionStep
<1>25. CASE \E d \in Discarders : DiscardStep(d)
  BY <1>25, <1>12, <1>13, <1>14, <1>16, <1>18, <1>19, <1>20, <1>21, <1>17, <1>15 DEF DiscardStep
<1> QED BY <1>11, <1>22, <1>23, <1>24, <1>25 DEF Next

-----------------------------------------------------------------------------
(* The invariant holds in every reachable state. *)
THEOREM CoordInvariant == Spec => []CoordInv
<1>1. Init => CoordInv
  <2> SUFFICES ASSUME Init PROVE CoordInv
    OBVIOUS
  <2>1. TypeOK
    BY OwnersAssumption, BoundsAssumption DEF Init, TypeOK
  <2>2. WritersCounted
    <3>1. \A k \in Keys : HoldersOf(k) = {}
      BY DEF Init, HoldersOf
    <3> QED BY <3>1, FS_EmptySet DEF Init, WritersCounted
  <2>3. ClosuresMarked /\ ClosureIsExclusive /\ NoLostWakeup
    BY DEF Init, ClosuresMarked, ClosureIsExclusive, NoLostWakeup, Holds
  <2>4. ScanStaysTrue /\ DiscardsWhatWasReviewed
    BY DEF Init, ScanStaysTrue, DiscardsWhatWasReviewed
  <2> QED BY <2>1, <2>2, <2>3, <2>4 DEF CoordInv
<1>2. CoordInv /\ [Next]_vars => CoordInv'
  BY CoordStep, CoordStutter
<1> QED BY <1>1, <1>2, PTL DEF Spec

(* No writer and no second closure is ever admitted to a workspace that    *)
(* overlaps a closed one (AcquireWriter, waitWriterKey, TryClose).         *)
THEOREM ClosureExclusive == Spec => []ClosureIsExclusive
<1>1. CoordInv => ClosureIsExclusive
  BY DEF CoordInv
<1> QED BY <1>1, CoordInvariant, PTL

(* The registry counts exactly the outstanding leases, so pruning never    *)
(* drops a held state and no release is lost.                              *)
THEOREM ExactLeases == Spec => []LeasesExact
<1>1. CoordInv => LeasesExact
  BY DEF CoordInv, WritersCounted, ClosuresMarked, HoldersOf, LeasesExact
<1> QED BY <1>1, CoordInvariant, PTL

(* A sleeping writer always has an overlapping closure to wait for or a    *)
(* wake-up pending (waitWriterKey).                                        *)
THEOREM WriterWakeups == Spec => []NoLostWakeup
<1>1. CoordInv => NoLostWakeup
  BY DEF CoordInv
<1> QED BY <1>1, CoordInvariant, PTL

(* A discard changes files only in a workspace that no run and no          *)
(* external-agent turn owns, though it reads the owners one by one         *)
(* (HandleRevertChatWorkspaceFiles, chatWorkspaceDurableOwner).            *)
THEOREM DiscardSparesWork == Spec => []NoDiscardUnderWork
<1>1. ASSUME CoordInv PROVE NoDiscardUnderWork
  <2>1. TypeOK /\ ScanStaysTrue
    BY <1>1 DEF CoordInv
  <2>2. active \subseteq Owners
    BY <2>1 DEF TypeOK
  <2> QED BY <2>1, <2>2 DEF ScanStaysTrue, NoDiscardUnderWork
<1> QED BY <1>1, CoordInvariant, PTL

(* What a discard reverses is what its operator reviewed.                  *)
THEOREM DiscardIsReviewed == Spec => []DiscardsWhatWasReviewed
<1>1. CoordInv => DiscardsWhatWasReviewed
  BY DEF CoordInv
<1> QED BY <1>1, CoordInvariant, PTL
=============================================================================
