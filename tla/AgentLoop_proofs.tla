-------------------------- MODULE AgentLoop_proofs --------------------------
(***************************************************************************)
(* Proofs about AgentLoop: for any number of runs, answers, crashes, store *)
(* faults and cancellations, every stored conversation is one a provider   *)
(* accepts, a gated call takes effect only if it was approved in its own   *)
(* run, and on a line of runs no call takes effect twice and none that was *)
(* superseded takes effect at all.  The last two leave out the crash       *)
(* window that CrashSafe names, and runs started before the cancelled      *)
(* executor of their source has stopped (LateSignal).                      *)
(*                                                                         *)
(* The invariant and its five layers are in AgentLoop_invariant. Each      *)
(* layer is proved from the ones before it: first a lemma per action about *)
(* its effect, then one per action and layer.                              *)
(***************************************************************************)
EXTENDS AgentLoop_invariant, SequenceTheorems, FiniteSetTheorems, TLAPS

(* A nonempty set of naturals has a least element, and Min is it. *)
LEMMA MinNat ==
    ASSUME NEW S, S \subseteq Nat, S # {}
    PROVE  Min(S) \in S /\ \A n \in S : Min(S) <= n
<1> DEFINE less == {p \in Nat \X Nat : p[1] < p[2]}
<1>0. OpToRel(<, Nat) = less
  BY Zenon DEF OpToRel
<1>1. PICK x \in S : \A y \in S : ~(<<y, x>> \in less)
  BY <1>0, WFMin, NatLessThanWellFounded, ZenonT(40)
<1>2. \A y \in S : x <= y
  <2> SUFFICES ASSUME NEW y \in S, y < x PROVE FALSE  OBVIOUS
  <2>1. <<y, x>> \in less  OBVIOUS
  <2> QED  BY <2>1, <1>1
<1> QED  BY <1>2 DEF Min

(* A nonempty set of naturals with an upper bound has a greatest element. *)
LEMMA MaxNat ==
    ASSUME NEW S, S \subseteq Nat, S # {}, NEW b \in Nat, \A n \in S : n <= b
    PROVE  Max(S) \in S /\ \A n \in S : n <= Max(S)
<1> DEFINE T == {m \in Nat : \A n \in S : n <= m}
<1>1. Min(T) \in T /\ \A m \in T : Min(T) <= m
  <2>1. b \in T  OBVIOUS
  <2> QED  BY <2>1, MinNat
<1> DEFINE t == Min(T)
<1> HIDE DEF t
<1>2. t \in Nat /\ \A n \in S : n <= t
  BY <1>1 DEF t
<1>3. t \in S
  <2> SUFFICES ASSUME t \notin S PROVE FALSE  OBVIOUS
  <2>1. \A n \in S : n < t
    BY <1>2
  <2>2. t - 1 \in Nat
    <3>1. PICK n \in S : TRUE  OBVIOUS
    <3> QED  BY <3>1, <2>1, <1>2
  <2>3. t - 1 \in T
    BY <2>1, <2>2, <1>2
  <2> QED  BY <2>3, <1>1, <2>2 DEF t
<1> QED  BY <1>2, <1>3 DEF Max

(* The values of a sequence of naturals are bounded. *)
LEMMA NatSeqBounded ==
    ASSUME NEW s \in Seq(Nat)
    PROVE  \E b \in Nat : \A n \in DOMAIN s : s[n] <= b
<1> DEFINE Over(k, d) == \E n \in 1..k : s[n] > d
           T == {k \in Nat : k <= Len(s) /\ \A d \in Nat : Over(k, d)}
<1>1. Len(s) \in Nat /\ DOMAIN s = 1..Len(s) /\ \A n \in 1..Len(s) : s[n] \in Nat
  OBVIOUS
<1>2. \A k \in T : k \in Nat /\ k <= Len(s) /\ \A d \in Nat : Over(k, d)
  OBVIOUS
<1>3. \A k \in Nat : k <= Len(s) /\ k \notin T => \E d \in Nat : ~Over(k, d)
  OBVIOUS
<1> HIDE DEF T
<1>4. T = {}
  <2>1. SUFFICES ASSUME T # {} PROVE FALSE  OBVIOUS
  <2>2. PICK k \in T : \A m \in T : k <= m
    BY <2>1, <1>2, MinNat
  <2>3. k \in Nat /\ k <= Len(s) /\ \A d \in Nat : Over(k, d)
    BY <1>2
  <2>4. k # 0
    BY <2>3
  <2>5. k - 1 \in Nat /\ k \in 1..Len(s)
    BY <2>3, <2>4, <1>1
  <2>6. k - 1 \notin T /\ k - 1 <= Len(s)
    BY <2>2, <2>3, <2>5, <1>1
  <2>7. PICK c \in Nat : ~Over(k - 1, c)
    BY <2>5, <2>6, <1>3, Zenon
  <2>8. s[k] \in Nat
    BY <2>5, <1>1
  <2>9. PICK d \in Nat : c <= d /\ s[k] <= d
    <3>1. CASE c <= s[k]  BY <2>8, <3>1
    <3>2. CASE s[k] <= c  BY <2>8, <3>2
    <3> QED  BY <3>1, <3>2, <2>8
  <2>10. PICK n \in 1..k : s[n] > d
    BY <2>3
  <2>11. CASE n = k
    BY <2>11, <2>8, <2>9, <2>10
  <2>12. CASE n # k
    <3>1. n \in 1..(k - 1)
      BY <2>12, <2>3
    <3>2. ~(s[n] > c) /\ s[n] \in Nat
      BY <3>1, <2>7, <2>5, <1>1
    <3> QED  BY <3>2, <2>9, <2>10
  <2> QED  BY <2>11, <2>12
<1>5. PICK b \in Nat : ~Over(Len(s), b)
  <2>1. Len(s) <= Len(s) /\ Len(s) \notin T
    BY <1>1, <1>4
  <2> QED  BY <1>1, <1>3, <2>1, Zenon
<1>6. \A n \in DOMAIN s : s[n] <= b
  BY <1>1, <1>5
<1> QED  BY <1>6

-----------------------------------------------------------------------------
(* Where a run is started from. *)
LEMMA ParentFacts ==
    /\ Runs \subseteq Nat /\ MaxRuns \in Nat /\ 1 \in Runs
    /\ \A r \in Runs : /\ Parent[r] \in Nat /\ Parent[r] < r /\ Parent[r] <= MaxRuns
                       /\ Parent[r] # 0 <=> Parent[r] \in Runs
                       /\ Parent[r] = 0 <=> r = 1
<1>1. Runs \subseteq Nat /\ MaxRuns \in Nat /\ MaxRuns >= 1 /\ 1 \in Runs
  BY AgentLoopAssumption DEF Runs
<1>2. Parent[1] = 0 /\ \A r \in Runs \ {1} : Parent[r] \in 1..(r - 1)
  BY AgentLoopAssumption
<1>3. ASSUME NEW r \in Runs
      PROVE  /\ Parent[r] \in Nat /\ Parent[r] < r /\ Parent[r] <= MaxRuns
             /\ Parent[r] # 0 <=> Parent[r] \in Runs
             /\ Parent[r] = 0 <=> r = 1
  <2>1. r \in Nat /\ 1 <= r /\ r <= MaxRuns
    BY <1>1 DEF Runs
  <2>2. CASE r = 1
    BY <1>1, <1>2, <2>1, <2>2 DEF Runs
  <2>3. CASE r # 1
    BY <1>1, <1>2, <2>1, <2>3 DEF Runs
  <2> QED  BY <2>2, <2>3
<1> QED  BY <1>1, <1>3

(* The line of a run is the least such set. *)
LEMMA LineLeast ==
    ASSUME NEW r \in Runs, NEW S, Closed(S), r \in S
    PROVE  Line(r) \subseteq S
BY DEF Line, Closed

(* It is closed, and holds no later run. *)
LEMMA LineClosed ==
    ASSUME NEW r \in Runs
    PROVE  /\ r \in Line(r) /\ Line(r) \subseteq Runs /\ Closed(Line(r))
           /\ \A q \in Line(r) : q \in Nat /\ q <= r
<1>1. r \in Nat /\ r \in 1..r /\ 1..r \subseteq Runs /\ \A q \in 1..r : q \in Nat /\ q <= r
  BY AgentLoopAssumption DEF Runs
<1>2. r \in Line(r) /\ Line(r) \subseteq 1..r
  BY <1>1 DEF Line
<1>3. ASSUME NEW p \in Line(r), Parent[p] # 0
      PROVE  Parent[p] \in Line(r)
  <2>1. p \in Runs /\ p <= r /\ p \in Nat
    BY <1>1, <1>2
  <2>2. Parent[p] \in Nat /\ Parent[p] < p /\ Parent[p] \in Runs
    BY <1>3, <2>1, ParentFacts
  <2>3. Parent[p] \in 1..r
    BY <1>1, <2>1, <2>2 DEF Runs
  <2> QED  BY <1>3, <2>3 DEF Line
<1> QED  BY <1>1, <1>2, <1>3 DEF Closed

(* The line of a run goes on with that of its source. *)
LEMMA LineStep ==
    ASSUME NEW r \in Runs
    PROVE  /\ Parent[r] = 0 => Line(r) = {r} /\ Line(Parent[r]) = {}
           /\ Parent[r] # 0 => Line(r) = {r} \cup Line(Parent[r])
<1>1. r \in Line(r) /\ Line(r) \subseteq Runs /\ Closed(Line(r))
  BY LineClosed
<1>2. CASE Parent[r] = 0
  <2>1. Closed({r})
    BY <1>2 DEF Closed
  <2>2. Line(0) = {}
    BY DEF Line
  <2> QED  BY <1>1, <1>2, <2>1, <2>2, LineLeast
<1>3. CASE Parent[r] # 0
  <2>1. Parent[r] \in Runs
    BY <1>3, ParentFacts
  <2>2. Parent[r] \in Line(Parent[r]) /\ Closed(Line(Parent[r]))
    BY <2>1, LineClosed
  <2>3. Closed({r} \cup Line(Parent[r]))
    BY <2>2 DEF Closed
  <2>4. Line(r) \subseteq {r} \cup Line(Parent[r])
    BY <2>3, LineLeast
  <2>5. Parent[r] \in Line(r)
    BY <1>1, <1>3 DEF Closed
  <2>6. Line(Parent[r]) \subseteq Line(r)
    BY <1>1, <2>1, <2>5, LineLeast
  <2> QED  BY <1>1, <1>3, <2>4, <2>6
<1> QED  BY <1>2, <1>3

(* The runs a run goes back to. *)
LEMMA LineFacts ==
    /\ Runs \subseteq Nat /\ MaxRuns \in Nat /\ 1 \in Runs
    /\ \A r \in Runs :
         /\ r \in Line(r) /\ Line(r) \subseteq Runs
         /\ Parent[r] # r
         /\ r = 1 \/ Parent[r] \in Runs
         /\ Parent[r] \in Runs => /\ Parent[r] \in Line(r)
                                  /\ r \notin Line(Parent[r])
                                  /\ Line(r) = {r} \cup Line(Parent[r])
                                  /\ Line(Parent[r]) \subseteq Runs
         /\ r = 1 => Parent[r] = 0 /\ Parent[r] \notin Runs /\ Line(r) = {r}
         /\ \A q \in Line(r) : /\ Line(q) \subseteq Line(r)
                               /\ r \in Line(q) => q = r
<1>1. Runs \subseteq Nat /\ MaxRuns \in Nat /\ 1 \in Runs
  BY ParentFacts
<1>2. ASSUME NEW r \in Runs
      PROVE  /\ r \in Line(r) /\ Line(r) \subseteq Runs
             /\ Parent[r] # r
             /\ r = 1 \/ Parent[r] \in Runs
             /\ Parent[r] \in Runs => /\ Parent[r] \in Line(r)
                                      /\ r \notin Line(Parent[r])
                                      /\ Line(r) = {r} \cup Line(Parent[r])
                                      /\ Line(Parent[r]) \subseteq Runs
             /\ r = 1 => Parent[r] = 0 /\ Parent[r] \notin Runs /\ Line(r) = {r}
             /\ \A q \in Line(r) : /\ Line(q) \subseteq Line(r)
                                   /\ r \in Line(q) => q = r
  <2>1. /\ r \in Nat /\ Parent[r] \in Nat /\ Parent[r] < r
        /\ Parent[r] # 0 <=> Parent[r] \in Runs
        /\ Parent[r] = 0 <=> r = 1
    BY <1>1, ParentFacts
  <2>2. r \in Line(r) /\ Line(r) \subseteq Runs /\ Closed(Line(r))
    BY LineClosed
  <2>3. ASSUME Parent[r] \in Runs
        PROVE  /\ Parent[r] \in Line(r) /\ r \notin Line(Parent[r])
               /\ Line(r) = {r} \cup Line(Parent[r]) /\ Line(Parent[r]) \subseteq Runs
    <3>1. Parent[r] \in Line(Parent[r]) /\ Line(Parent[r]) \subseteq Runs
          /\ \A q \in Line(Parent[r]) : q <= Parent[r]
      BY <2>3, LineClosed
    <3>2. Line(r) = {r} \cup Line(Parent[r])
      BY <2>1, <2>3, LineStep
    <3> QED  BY <2>1, <3>1, <3>2
  <2>4. r = 1 => Line(r) = {r}
    BY <2>1, LineStep
  <2>5. ASSUME NEW q \in Line(r)
        PROVE  Line(q) \subseteq Line(r) /\ (r \in Line(q) => q = r)
    <3>1. q \in Runs /\ q \in Nat /\ q <= r
      BY <1>1, <2>2, LineClosed
    <3>2. Line(q) \subseteq Line(r)
      BY <2>2, <3>1, LineLeast
    <3>3. r \in Line(q) => r <= q
      BY <3>1, LineClosed
    <3> QED  BY <2>1, <3>1, <3>2, <3>3
  <2> QED  BY <2>1, <2>2, <2>3, <2>4, <2>5
<1> QED  BY <1>1, <1>2

(* Where the last answer is. *)
LEMMA LastAnswer ==
    ASSUME NEW m \in Seq(Messages), AssistantsAt(m) # {}
    PROVE  LET a == Max(AssistantsAt(m)) IN
           /\ a \in 1..Len(m)
           /\ m[a].role = "assistant"
           /\ \A n \in (a + 1)..Len(m) : m[n].role # "assistant"
<1> DEFINE S == AssistantsAt(m)
<1>1. S \subseteq Nat /\ \A n \in S : n <= Len(m)
  BY DEF AssistantsAt
<1>2. Max(S) \in S /\ \A n \in S : n <= Max(S)
  <2>1. Len(m) \in Nat  OBVIOUS
  <2> HIDE DEF S
  <2> QED  BY <1>1, <2>1, MaxNat DEF S
<1>3. Max(S) \in 1..Len(m) /\ m[Max(S)].role = "assistant"
  BY <1>2 DEF AssistantsAt
<1>4. ASSUME NEW n \in (Max(S) + 1)..Len(m)
      PROVE  m[n].role # "assistant"
  <2>1. n \in 1..Len(m) /\ n > Max(S)
    BY <1>3
  <2>2. n \notin S
    BY <1>2, <1>3, <2>1
  <2> QED  BY <2>1, <2>2 DEF AssistantsAt
<1> QED  BY <1>3, <1>4

(* The answer after which there is none. *)
LEMMA IsLastAnswer ==
    ASSUME NEW m \in Seq(Messages), NEW a \in 1..Len(m),
           m[a].role = "assistant",
           \A n \in (a + 1)..Len(m) : m[n].role # "assistant"
    PROVE  AssistantsAt(m) # {} /\ Max(AssistantsAt(m)) = a
<1>1. a \in AssistantsAt(m)
  BY DEF AssistantsAt
<1>2. Max(AssistantsAt(m)) \in 1..Len(m)
      /\ m[Max(AssistantsAt(m))].role = "assistant"
      /\ \A n \in (Max(AssistantsAt(m)) + 1)..Len(m) : m[n].role # "assistant"
  BY <1>1, LastAnswer
<1>3. ~(a < Max(AssistantsAt(m))) /\ ~(Max(AssistantsAt(m)) < a)
  BY <1>2
<1> QED  BY <1>1, <1>2, <1>3

(* A result leaves the batch and resolves its call. *)
LEMMA AppendTool ==
    ASSUME NEW m \in Seq(Messages), HasResumableBatch(m),
           NEW x \in Messages, x.role = "tool"
    PROVE  LET u == Append(m, x) IN
           /\ HasResumableBatch(u)
           /\ Bat(u) = Bat(m)
           /\ Pend(u) = Pend(m) \ {x.call}
<1> DEFINE u == Append(m, x)
           a == Max(AssistantsAt(m))
<1>1. /\ u \in Seq(Messages)
      /\ Len(u) = Len(m) + 1
      /\ \A n \in 1..Len(m) : u[n] = m[n]
      /\ u[Len(m) + 1] = x
  OBVIOUS
<1>2. /\ a \in 1..Len(m)
      /\ m[a].role = "assistant"
      /\ m[a].calls # <<>>
      /\ \A n \in (a + 1)..Len(m) : m[n].role = "tool"
  BY LastAnswer DEF HasResumableBatch
<1> HIDE DEF u, a
<1>3. \A n \in (a + 1)..Len(u) : u[n].role = "tool"
  BY <1>1, <1>2
<1>4. AssistantsAt(u) # {} /\ Max(AssistantsAt(u)) = a /\ u[a] = m[a]
  BY <1>1, <1>2, <1>3, IsLastAnswer
<1>5. HasResumableBatch(u) /\ Bat(u) = m[a] /\ Bat(m) = m[a]
  BY <1>2, <1>3, <1>4 DEF HasResumableBatch, Bat, resumableToolBatch, a
<1>6. ResolvedCalls(u) = ResolvedCalls(m) \cup {x.call}
  <2>1. ResolvedCalls(u) = {u[n].call : n \in (a + 1)..(Len(m) + 1)}
    BY <1>1, <1>4 DEF ResolvedCalls
  <2>2. ResolvedCalls(m) = {m[n].call : n \in (a + 1)..Len(m)}
    BY DEF ResolvedCalls, a
  <2>3. \A n \in (a + 1)..(Len(m) + 1) :
          (u[n] = x /\ n = Len(m) + 1) \/ (n \in (a + 1)..Len(m) /\ u[n] = m[n])
    <3> TAKE n \in (a + 1)..(Len(m) + 1)
    <3>1. Len(m) \in Nat  OBVIOUS
    <3>2. n = Len(m) + 1 \/ (n \in (a + 1)..Len(m) /\ n \in 1..Len(m))
      BY <3>1, <1>2
    <3> QED  BY <3>2, <1>1
  <2>4. Len(m) + 1 \in (a + 1)..(Len(m) + 1)
        /\ \A n \in (a + 1)..Len(m) : n \in (a + 1)..(Len(m) + 1) /\ u[n] = m[n]
    BY <1>1, <1>2
  <2> QED  BY <2>1, <2>2, <2>3, <2>4, <1>1
<1>7. Pend(u) = DOMAIN m[a].calls \ ResolvedCalls(u)
      /\ Pend(m) = DOMAIN m[a].calls \ ResolvedCalls(m)
  BY <1>5 DEF Pend, pendingToolCallsForResume, Bat
<1> QED  BY <1>5, <1>6, <1>7 DEF u

(* After a prompt no call is pending. *)
LEMMA AppendUser ==
    ASSUME NEW m \in Seq(Messages), NEW x \in Messages, x.role = "user"
    PROVE  ~HasResumableBatch(Append(m, x)) /\ Pend(Append(m, x)) = {}
<1> DEFINE u == Append(m, x)
<1>1. /\ u \in Seq(Messages)
      /\ Len(u) = Len(m) + 1
      /\ u[Len(m) + 1] = x
      /\ Len(m) \in Nat
  OBVIOUS
<1> HIDE DEF u
<1>2. ~HasResumableBatch(u)
  <2> SUFFICES ASSUME HasResumableBatch(u) PROVE FALSE  OBVIOUS
  <2> DEFINE a == Max(AssistantsAt(u))
  <2>1. /\ a \in 1..Len(u) /\ u[a].role = "assistant"
        /\ \A n \in (a + 1)..Len(u) : u[n].role = "tool"
    BY <1>1, LastAnswer DEF HasResumableBatch
  <2> HIDE DEF a
  <2>2. a # Len(m) + 1
    BY <2>1, <1>1
  <2> QED  BY <2>1, <2>2, <1>1
<1> QED  BY <1>2 DEF u, Pend, pendingToolCallsForResume

(* After an answer all its calls are pending. *)
LEMMA AppendAnswer ==
    ASSUME NEW m \in Seq(Messages), NEW x \in Messages, x.role = "assistant"
    PROVE  LET u == Append(m, x) IN
           /\ HasResumableBatch(u) <=> x.calls # <<>>
           /\ Bat(u) = x
           /\ Pend(u) = DOMAIN x.calls
<1> DEFINE u == Append(m, x)
<1>1. /\ u \in Seq(Messages)
      /\ Len(u) = Len(m) + 1
      /\ u[Len(m) + 1] = x
      /\ Len(m) \in Nat
      /\ x.calls \in Seq(Kinds)
  BY DEF Messages
<1> HIDE DEF u
<1>2. AssistantsAt(u) # {} /\ Max(AssistantsAt(u)) = Len(u)
  BY <1>1, IsLastAnswer
<1>3. HasResumableBatch(u) <=> x.calls # <<>>
  BY <1>1, <1>2 DEF HasResumableBatch
<1>4. Bat(u) = x
  BY <1>1, <1>2 DEF Bat, resumableToolBatch
<1>5. ResolvedCalls(u) = {}
  BY <1>1, <1>2 DEF ResolvedCalls
<1>6. x.calls = <<>> => DOMAIN x.calls = {}
  BY <1>1
<1>7. Pend(u) = DOMAIN x.calls
  BY <1>3, <1>4, <1>5, <1>6 DEF Pend, pendingToolCallsForResume, Bat
<1> QED  BY <1>3, <1>4, <1>7 DEF u

(* An allowed message keeps a conversation good. *)
LEMMA GoodAppend ==
    ASSUME NEW m, Good(m), NEW x \in Messages, Allowed(m, x)
    PROVE  Good(Append(m, x))
<1> DEFINE u == Append(m, x)
<1>1. /\ m \in Seq(Messages)
      /\ u \in Seq(Messages)
      /\ Len(u) = Len(m) + 1
      /\ \A n \in 1..Len(m) : u[n] = m[n]
      /\ u[Len(m) + 1] = x
  BY DEF Good
<1>2. \A k \in 0..Len(m) : SubSeq(u, 1, k) = SubSeq(m, 1, k)
  <2> TAKE k \in 0..Len(m)
  <2>1. SubSeq(u, 1, k) \in Seq(Messages) /\ SubSeq(m, 1, k) \in Seq(Messages)
        /\ Len(SubSeq(u, 1, k)) = k /\ Len(SubSeq(m, 1, k)) = k
        /\ \A i \in 1..k : SubSeq(u, 1, k)[i] = u[i] /\ SubSeq(m, 1, k)[i] = m[i]
    BY <1>1
  <2> QED  BY <1>1, <2>1, SeqEqual
<1> HIDE DEF u
<1>3. SubSeq(m, 1, Len(m)) = m
  BY <1>1, SubSeqFull
<1>4. ASSUME NEW k \in 1..Len(u) PROVE Allowed(SubSeq(u, 1, k - 1), u[k])
  <2>1. CASE k = Len(m) + 1
    <3>1. Len(m) \in Nat /\ k - 1 = Len(m) /\ Len(m) \in 0..Len(m)
      BY <2>1, <1>1
    <3>2. SubSeq(u, 1, k - 1) = m /\ u[k] = x
      BY <3>1, <2>1, <1>1, <1>2, <1>3
    <3> QED  BY <3>2
  <2>2. CASE k # Len(m) + 1
    <3>1. k \in 1..Len(m) /\ k - 1 \in 0..Len(m)
      BY <2>2, <1>1
    <3> QED  BY <3>1, <1>1, <1>2 DEF Good
  <2> QED  BY <2>1, <2>2
<1> QED  BY <1>1, <1>4 DEF Good, u

(* So does cutting it. *)
LEMMA GoodPrefix ==
    ASSUME NEW m, Good(m), NEW k \in 0..Len(m)
    PROVE  Good(SubSeq(m, 1, k))
<1> DEFINE u == SubSeq(m, 1, k)
<1>1. /\ m \in Seq(Messages)
      /\ u \in Seq(Messages)
      /\ Len(u) = k
      /\ \A n \in 1..k : u[n] = m[n]
  BY DEF Good
<1>2. ASSUME NEW j \in 0..k PROVE SubSeq(u, 1, j) = SubSeq(m, 1, j)
  <2>1. SubSeq(u, 1, j) \in Seq(Messages) /\ SubSeq(m, 1, j) \in Seq(Messages)
        /\ Len(SubSeq(u, 1, j)) = j /\ Len(SubSeq(m, 1, j)) = j
        /\ \A i \in 1..j : SubSeq(u, 1, j)[i] = u[i] /\ SubSeq(m, 1, j)[i] = m[i]
    BY <1>1
  <2> QED  BY <1>1, <2>1, SeqEqual
<1> HIDE DEF u
<1>3. ASSUME NEW j \in 1..Len(u) PROVE Allowed(SubSeq(u, 1, j - 1), u[j])
  <2>1. j \in 1..Len(m) /\ j \in 1..k /\ j - 1 \in 0..k
    BY <1>1
  <2> QED  BY <2>1, <1>1, <1>2 DEF Good
<1> QED  BY <1>1, <1>3 DEF Good, u

(* Before an answer or a prompt nothing is pending. *)
LEMMA NothingPendingBefore ==
    ASSUME NEW m, Good(m), NEW k \in 1..Len(m), m[k].role # "tool"
    PROVE  Pend(SubSeq(m, 1, k - 1)) = {}
BY DEF Good, Allowed

(* In a good conversation every batch is answered. *)
LEMMA GoodAnswered ==
    ASSUME NEW m, Good(m)
    PROVE  BatchesAnswered(m)
<1>0. m \in Seq(Messages) /\ Len(m) \in Nat /\ DOMAIN m = 1..Len(m)
  BY DEF Good
<1> SUFFICES
      ASSUME NEW a \in AssistantsAt(m), NEW n \in DOMAIN m,
             a < n, \A b \in AssistantsAt(m) : b <= a \/ b >= n
      PROVE  LET answered == {m[j].call : j \in (a + 1)..(n - 1)} IN
             IF m[n].role = "tool"
               THEN /\ m[n].batch = m[a].batch
                    /\ m[n].call \in (DOMAIN m[a].calls) \ answered
                    /\ \A j \in (a + 1)..n : m[j].role = "tool"
               ELSE DOMAIN m[a].calls \subseteq answered
  BY DEF BatchesAnswered
<1> DEFINE answered == {m[j].call : j \in (a + 1)..(n - 1)}
<1>1. a \in 1..Len(m) /\ n \in 1..Len(m) /\ m[a].role = "assistant"
      /\ \A j \in (a + 1)..(n - 1) : m[j].role # "assistant"
  <2>1. a \in 1..Len(m) /\ n \in 1..Len(m) /\ m[a].role = "assistant"
    BY <1>0 DEF AssistantsAt
  <2>2. ASSUME NEW j \in (a + 1)..(n - 1) PROVE m[j].role # "assistant"
    <3>1. j \in DOMAIN m /\ ~(j <= a) /\ ~(j >= n)
      BY <1>0, <2>1
    <3> QED  BY <3>1 DEF AssistantsAt
  <2> QED  BY <2>1, <2>2
<1>2. ASSUME NEW k \in (a + 1)..n
      PROVE  LET p == SubSeq(m, 1, k - 1) IN
             /\ p \in Seq(Messages)
             /\ AssistantsAt(p) # {} /\ Max(AssistantsAt(p)) = a /\ p[a] = m[a]
             /\ Len(p) = k - 1
             /\ \A j \in (a + 1)..(k - 1) : p[j] = m[j]
             /\ Allowed(p, m[k])
  <2> DEFINE p == SubSeq(m, 1, k - 1)
  <2>0. k \in 1..Len(m)
    BY <1>0, <1>1
  <2>1. p \in Seq(Messages) /\ Len(p) = k - 1 /\ \A j \in 1..(k - 1) : p[j] = m[j]
    BY <1>0, <1>1, <2>0
  <2>2. Allowed(p, m[k])
    BY <2>0 DEF Good
  <2> HIDE DEF p
  <2>3. a \in 1..Len(p) /\ p[a] = m[a]
    BY <2>1, <1>1
  <2>4. ASSUME NEW j \in (a + 1)..Len(p) PROVE p[j] = m[j] /\ m[j].role # "assistant"
    <3>1. j \in 1..(k - 1) /\ j \in (a + 1)..(n - 1)
      BY <2>1, <1>1
    <3> QED  BY <3>1, <2>1, <1>1
  <2>5. AssistantsAt(p) # {} /\ Max(AssistantsAt(p)) = a
    BY <2>1, <2>3, <2>4, <1>1, IsLastAnswer
  <2> QED  BY <2>1, <2>2, <2>3, <2>4, <2>5 DEF p
<1>3. n \in (a + 1)..n /\ m[a] \in Messages
  BY <1>0, <1>1
<1>4. ASSUME NEW k \in (a + 1)..n
      PROVE  LET p == SubSeq(m, 1, k - 1) IN
             ResolvedCalls(p) = {m[j].call : j \in (a + 1)..(k - 1)}
  BY <1>2, <1>4 DEF ResolvedCalls
<1>5. CASE m[n].role = "tool"
  <2> DEFINE p == SubSeq(m, 1, n - 1)
  <2>1. /\ HasResumableBatch(p)
        /\ m[n].batch = Bat(p).batch
        /\ m[n].call \in Pend(p)
    BY <1>2, <1>3, <1>5 DEF Allowed
  <2>2. Bat(p) = m[a] /\ ResolvedCalls(p) = answered
    <3>0. Max(AssistantsAt(p)) = a /\ p[a] = m[a]
      BY <1>2, <1>3
    <3>1. Bat(p) = m[a]
      BY <3>0 DEF Bat, resumableToolBatch
    <3>2. ResolvedCalls(p) = answered
      BY <1>3, <1>4
    <3> QED  BY <3>1, <3>2
  <2>3. m[n].call \in DOMAIN m[a].calls \ answered
    BY <2>1, <2>2 DEF Pend, pendingToolCallsForResume, Bat
  <2>4. \A j \in (a + 1)..(n - 1) : m[j].role = "tool"
    BY <2>1, <1>2, <1>3 DEF HasResumableBatch
  <2>5. \A j \in (a + 1)..n : m[j].role = "tool"
    BY <2>4, <1>5, <1>1
  <2> QED  BY <2>1, <2>2, <2>3, <2>5, <1>5
<1>6. CASE m[n].role # "tool"
  <2> DEFINE T == {j \in (a + 1)..n : m[j].role # "tool"}
             k == Min(T)
  <2>1. k \in T /\ \A j \in T : k <= j
    <3>1. n \in T
      BY <1>3, <1>6
    <3>2. T \subseteq Nat
      BY <1>1
    <3> HIDE DEF T
    <3> QED  BY <3>1, <3>2, MinNat
  <2> HIDE DEF k
  <2>2. k \in (a + 1)..n /\ m[k].role # "tool"
    BY <2>1
  <2>3. ASSUME NEW j \in (a + 1)..(k - 1) PROVE m[j].role = "tool"
    <3>1. j \in (a + 1)..n /\ ~(k <= j)
      BY <2>2, <1>1
    <3> QED  BY <3>1, <2>1
  <2> DEFINE p == SubSeq(m, 1, k - 1)
  <2>4. Pend(p) = {}
    BY <2>2, <1>2 DEF Allowed
  <2>5. CASE m[a].calls = <<>>
    <3>1. DOMAIN m[a].calls = {}
      BY <2>5
    <3> QED  BY <3>1, <1>6
  <2>6. CASE m[a].calls # <<>>
    <3>1. HasResumableBatch(p)
      BY <2>6, <2>2, <2>3, <1>2 DEF HasResumableBatch
    <3>2. DOMAIN m[a].calls \subseteq {m[j].call : j \in (a + 1)..(k - 1)}
      BY <3>1, <2>4, <2>2, <1>2, <1>4
         DEF Pend, pendingToolCallsForResume, resumableToolBatch
    <3>3. \A j \in (a + 1)..(k - 1) : j \in (a + 1)..(n - 1)
      BY <2>2, <1>1
    <3> QED  BY <3>2, <3>3, <1>6
  <2> QED  BY <2>5, <2>6
<1> QED  BY <1>5, <1>6

(* InheritDispatch does what InheritDispatchDoes says. *)
LEMMA InheritDispatchEffect ==
    ASSUME Types, NEW r \in Runs, InheritDispatch(r)
    PROVE  InheritDispatchDoes(r)
BY
   DEF InheritDispatchDoes, InheritDispatch, At, Writes, AddStep, Frame,
       Fields, Types, AddsStep

(* settleAmbiguousToolDispatch does what settleAmbiguousToolDispatchDoes   *)
(* says.                                                                   *)
LEMMA settleAmbiguousToolDispatchEffect ==
    ASSUME Types, NEW r \in Runs, settleAmbiguousToolDispatch(r)
    PROVE  settleAmbiguousToolDispatchDoes(r)
BY
   DEF settleAmbiguousToolDispatchDoes, settleAmbiguousToolDispatch, At,
       Writes, AmbiguousDispatch, MatchedSteps, Types

(* RecoverToolResult does what RecoverToolResultDoes says. *)
LEMMA RecoverToolResultEffect ==
    ASSUME Types, NEW r \in Runs, RecoverToolResult(r)
    PROVE  RecoverToolResultDoes(r)
BY
   DEF RecoverToolResultDoes, CountsKept, RecoverToolResult, At, Writes,
       UpsertArtifact, Frame, Fields, Types, SavesTo, Pend

(* CloseSuperseded does what CloseSupersededDoes says. *)
LEMMA CloseSupersededEffect ==
    ASSUME Types, NEW r \in Runs, CloseSuperseded(r)
    PROVE  CloseSupersededDoes(r)
BY
   DEF CloseSupersededDoes, CountsKept, CloseSuperseded, At, Writes, Frame,
       Fields, Types

(* AppendDeferredContinuation does what AppendDeferredContinuationDoes     *)
(* says.                                                                   *)
LEMMA AppendDeferredContinuationEffect ==
    ASSUME Types, NEW r \in Runs, AppendDeferredContinuation(r)
    PROVE  AppendDeferredContinuationDoes(r)
BY
   DEF AppendDeferredContinuationDoes, CountsKept, AppendDeferredContinuation,
       At, Writes, UpsertArtifact, Frame, Fields, Types, SavesTo

(* CeilingReached does what CeilingReachedDoes says. *)
LEMMA CeilingReachedEffect ==
    ASSUME Types, NEW r \in Runs, CeilingReached(r)
    PROVE  CeilingReachedDoes(r)
BY
   DEF CeilingReachedDoes, CountsKept, WorkKept, CeilingReached, At, Writes,
       UpsertArtifact, Return, Frame, Fields, Types, SavesTo

(* RecoverAnswer does what RecoverAnswerDoes says. *)
LEMMA RecoverAnswerEffect ==
    ASSUME Types, NEW r \in Runs, RecoverAnswer(r)
    PROVE  RecoverAnswerDoes(r)
<1>1. CASE ex' = [ex EXCEPT ![r].pc = "fail"]
  BY <1>1
     DEF RecoverAnswerDoes, CountsKept, WorkKept, RecoverAnswer, At, Writes,
         UpsertArtifact, HasSavedAnswer, Frame,
     Fields, Types, SavesTo
<1>2. CASE Return(r, "completed")
  BY <1>2
     DEF RecoverAnswerDoes, CountsKept, WorkKept, RecoverAnswer, At, Writes,
         UpsertArtifact, HasSavedAnswer, Return,
     Frame, Fields, Types, SavesTo
<1> QED  BY <1>1, <1>2 DEF RecoverAnswer

(* EnterLoop does what EnterLoopDoes says. *)
LEMMA EnterLoopEffect ==
    ASSUME Types, NEW r \in Runs, EnterLoop(r)
    PROVE  EnterLoopDoes(r)
<1>1. CASE ex' = [ex EXCEPT ![r].pc = "loop"]
  BY <1>1 DEF EnterLoopDoes, WorkKept, EnterLoop, At, Frame, Fields, Types
<1>2. CASE ex' = [ex EXCEPT ![r] =
                    [@ EXCEPT !.pc = "fail", !.spent = 0, !.count = 0]]
  BY <1>2 DEF EnterLoopDoes, WorkKept, EnterLoop, At, Frame, Fields, Types
<1> QED  BY <1>1, <1>2 DEF EnterLoop

(* StopCancelled does what StopCancelledDoes says. *)
LEMMA StopCancelledEffect ==
    ASSUME Types, NEW r \in Runs, StopCancelled(r)
    PROVE  StopCancelledDoes(r)
BY
   DEF StopCancelledDoes, CountsKept, WorkKept, StopCancelled, At, Writes,
       Return, Frame, Fields, Types

(* GatePending does what GatePendingDoes says. *)
LEMMA GatePendingEffect ==
    ASSUME Types, NEW r \in Runs, GatePending(r)
    PROVE  GatePendingDoes(r)
BY
   DEF GatePendingDoes, CountsKept, WorkKept, GatePending, At, Writes,
       UpsertArtifact, Frame, Fields, Types, SavesTo

(* ResumePending does what ResumePendingDoes says. *)
LEMMA ResumePendingEffect ==
    ASSUME Types, NEW r \in Runs, ResumePending(r)
    PROVE  ResumePendingDoes(r)
BY
   DEF ResumePendingDoes, WorkKept, ResumePending, At, Writes, AddStep, Frame,
       Fields, Types, AddsStep

(* AwaitApproval does what AwaitApprovalDoes says. *)
LEMMA AwaitApprovalEffect ==
    ASSUME Types, NEW r \in Runs, AwaitApproval(r)
    PROVE  AwaitApprovalDoes(r)
BY
   DEF AwaitApprovalDoes, WorkKept, AwaitApproval, At, Writes, AddStep, Frame,
       Fields, Types, AddsStep

(* ModelCallLimit does what ModelCallLimitDoes says. *)
LEMMA ModelCallLimitEffect ==
    ASSUME Types, NEW r \in Runs, ModelCallLimit(r)
    PROVE  ModelCallLimitDoes(r)
BY
   DEF ModelCallLimitDoes, CountsKept, WorkKept, ModelCallLimit, At, Writes,
       Return, Frame, Fields, Types

(* CallModel does what CallModelDoes says. *)
LEMMA CallModelEffect ==
    ASSUME Types, NEW r \in Runs, CallModel(r)
    PROVE  CallModelDoes(r)
BY
   DEF CallModelDoes, CountsKept, WorkKept, CallModel, At, Writes, Frame,
       Fields, Types

(* StreamPartial does what StreamPartialDoes says. *)
LEMMA StreamPartialEffect ==
    ASSUME Types, NEW r \in Runs, StreamPartial(r)
    PROVE  StreamPartialDoes(r)
BY DEF StreamPartialDoes, StreamPartial, At, Writes, Types

(* ModelAnswers does what ModelAnswersDoes says. *)
LEMMA ModelAnswersEffect ==
    ASSUME Types, NEW r \in Runs, ModelAnswers(r)
    PROVE  ModelAnswersDoes(r)
<1>1. PICK answer \in {<<a, "calls">> : a \in Answers}
                     \cup {<<<<"invalid">>, "invalid">>}
                     \cup {<<<<>>, says>> : says \in {"answer", "empty"}} :
          ex' = [ex EXCEPT ![r] =
                  [@ EXCEPT !.pc = "think",
                            !.out = Assistant(batches + 1, answer[1], answer[2])]]
  BY DEF ModelAnswers
<1>2. answer[1] \in Seq(Kinds) /\ answer[2] \in Sayings /\ answer[2] # "superseded"
  <2>1. Answers \subseteq Seq(Kinds)
    <3>1. Answers \subseteq Seq({"free", "gated"}) /\ {"free", "gated"} \subseteq Kinds
      BY AgentLoopAssumption DEF Kinds
    <3> QED  BY <3>1, SeqMonotonic
  <2>2. <<"invalid">> \in Seq(Kinds) /\ <<>> \in Seq(Kinds)
    BY DEF Kinds
  <2>3. CASE answer \in {<<a, "calls">> : a \in Answers}
    BY <2>1, <2>3 DEF Sayings
  <2>4. CASE answer = <<<<"invalid">>, "invalid">>
    BY <2>2, <2>4 DEF Sayings
  <2>5. CASE answer \in {<<<<>>, says>> : says \in {"answer", "empty"}}
    <3>1. PICK says \in {"answer", "empty"} : answer = <<<<>>, says>>
      BY <2>5
    <3>2. answer[1] = <<>> /\ answer[2] = says
      BY <3>1
    <3> QED  BY <2>2, <3>2 DEF Sayings
  <2> QED  BY <1>1, <2>3, <2>4, <2>5
<1> DEFINE x == Assistant(batches + 1, answer[1], answer[2])
<1>3. \E calls \in Seq(Kinds), says \in Sayings :
        x = Assistant(batches + 1, calls, says) /\ says # "superseded"
  BY <1>2
<1>4. ex' = [ex EXCEPT ![r] = [@ EXCEPT !.pc = "think", !.out = x]]
  BY <1>1
<1> HIDE DEF x
<1>5. Frame(r) /\ ex'[r].out = x /\ ex'[r].pc = "think"
  BY <1>4 DEF Types, Fields, Frame
<1>6. WorkKept(r) /\ CountsKept(r) /\ ex'[r].cancelled = ex[r].cancelled
  BY <1>4 DEF Types, Fields, WorkKept, CountsKept
<1>7. /\ ex[r].pc = "model" /\ batches' = batches + 1
      /\ UNCHANGED <<run, conv, steps, appr, effects>>
  BY DEF ModelAnswers, At
<1> QED  BY <1>3, <1>5, <1>6, <1>7 DEF ModelAnswersDoes

(* ModelCallFails does what ModelCallFailsDoes says. *)
LEMMA ModelCallFailsEffect ==
    ASSUME Types, NEW r \in Runs, ModelCallFails(r)
    PROVE  ModelCallFailsDoes(r)
BY
   DEF ModelCallFailsDoes, CountsKept, WorkKept, ModelCallFails, At, Writes,
       Frame, Fields, Types, SavesTo

(* SaveModelStep does what SaveModelStepDoes says. *)
LEMMA SaveModelStepEffect ==
    ASSUME Types, NEW r \in Runs, SaveModelStep(r)
    PROVE  SaveModelStepDoes(r)
BY
   DEF SaveModelStepDoes, WorkKept, SaveModelStep, At, Writes, AddStep, Frame,
       Fields, Types, AddsStep

(* SaveAssistant does what SaveAssistantDoes says. *)
LEMMA SaveAssistantEffect ==
    ASSUME Types, NEW r \in Runs, SaveAssistant(r)
    PROVE  SaveAssistantDoes(r)
BY
   DEF SaveAssistantDoes, CountsKept, SaveAssistant, At, Writes,
       UpsertArtifact, Frame, Fields, Types, SavesTo, Pend

(* SaveIntent does what SaveIntentDoes says. *)
LEMMA SaveIntentEffect ==
    ASSUME Types, NEW r \in Runs, SaveIntent(r)
    PROVE  SaveIntentDoes(r)
BY
   DEF SaveIntentDoes, WorkKept, SaveIntent, At, Writes, AddStep, Frame,
       Fields, Types, AddsStep

(* Dispatch does what DispatchDoes says. *)
LEMMA DispatchEffect ==
    ASSUME Types, NEW r \in Runs, Dispatch(r)
    PROVE  DispatchDoes(r)
BY
   DEF DispatchDoes, CountsKept, WorkKept, Dispatch, At, Writes, Bat, Frame,
       Fields, Types

(* FinalizeStep does what FinalizeStepDoes says. *)
LEMMA FinalizeStepEffect ==
    ASSUME Types, NEW r \in Runs, FinalizeStep(r)
    PROVE  FinalizeStepDoes(r)
BY
   DEF FinalizeStepDoes, CountsKept, WorkKept, FinalizeStep, At, Writes,
       Frame, Fields, Types

(* SaveToolResult does what SaveToolResultDoes says. *)
LEMMA SaveToolResultEffect ==
    ASSUME Types, NEW r \in Runs, SaveToolResult(r)
    PROVE  SaveToolResultDoes(r)
BY
   DEF SaveToolResultDoes, CountsKept, SaveToolResult, At, Writes,
       UpsertArtifact, Frame, Fields, Types, SavesTo

(* failedFromError does what failedFromErrorDoes says. *)
LEMMA failedFromErrorEffect ==
    ASSUME Types, NEW r \in Runs, failedFromError(r)
    PROVE  failedFromErrorDoes(r)
BY
   DEF failedFromErrorDoes, CountsKept, WorkKept, failedFromError, At, Writes,
       AddStep, Return, Frame, Fields, Types, AddsStep

(* CreateApproval does what CreateApprovalDoes says. *)
LEMMA CreateApprovalEffect ==
    ASSUME Types, NEW r \in Runs, CreateApproval(r)
    PROVE  CreateApprovalDoes(r)
BY DEF CreateApprovalDoes, CreateApproval, At, Writes, Types

-----------------------------------------------------------------------------
(* The conversations grow by allowed messages. *)

(* A conversation that began stays so. *)
LEMMA BegunAppend ==
    ASSUME NEW m \in Seq(Messages), NEW x \in Messages, Begun(m)
    PROVE  Begun(Append(m, x)) /\ Append(m, x) # <<>>
<1>1. Len(m) \in Nat /\ Len(m) # 0
  BY DEF Begun
<1>2. Append(m, x)[1] = m[1] /\ Len(Append(m, x)) # 0
  BY <1>1
<1> QED  BY <1>2 DEF Begun

(* Without its last message a conversation is what it was appended to. *)
LEMMA FrontAppend ==
    ASSUME NEW m \in Seq(Messages), NEW x \in Messages
    PROVE  Front(Append(m, x)) = m
<1> DEFINE u == Append(m, x)
           f == SubSeq(u, 1, Len(u) - 1)
<1>1. /\ u \in Seq(Messages) /\ Len(u) = Len(m) + 1 /\ Len(m) \in Nat
      /\ \A n \in 1..Len(m) : u[n] = m[n]
  OBVIOUS
<1> HIDE DEF u
<1>2. /\ f \in Seq(Messages) /\ Len(f) = Len(m)
      /\ \A n \in 1..Len(m) : f[n] = u[n]
  BY <1>1
<1>3. f = m
  BY <1>1, <1>2, SeqEqual
<1> QED  BY <1>3 DEF Front, u

(* Pending calls belong to the batch of the last answer. *)
LEMMA PendingBatch ==
    ASSUME NEW m \in Seq(Messages)
    PROVE  /\ Pend(m) \subseteq Nat
           /\ Pend(m) # {} =>
                /\ HasResumableBatch(m)
                /\ Bat(m) \in Messages
                /\ \E a \in AssistantsAt(m) : Bat(m) = m[a]
                /\ Pend(m) \subseteq DOMAIN Bat(m).calls
<1>1. CASE HasResumableBatch(m)
  <2> DEFINE a == Max(AssistantsAt(m))
  <2>1. a \in 1..Len(m) /\ m[a].role = "assistant"
    BY <1>1, LastAnswer DEF HasResumableBatch
  <2> HIDE DEF a
  <2>2. m[a] \in Messages /\ a \in AssistantsAt(m)
    BY <2>1 DEF AssistantsAt
  <2>3. Bat(m) = m[a]
    BY DEF Bat, resumableToolBatch, a
  <2>4. Pend(m) \subseteq DOMAIN Bat(m).calls
    BY <1>1 DEF Pend, pendingToolCallsForResume, Bat
  <2>5. DOMAIN Bat(m).calls \subseteq Nat
    <3>1. Bat(m).calls \in Seq(Kinds)
      BY <2>2, <2>3 DEF Messages
    <3> QED  BY <3>1
  <2> QED  BY <1>1, <2>2, <2>3, <2>4, <2>5
<1>2. CASE ~HasResumableBatch(m)
  BY <1>2 DEF Pend, pendingToolCallsForResume
<1> QED  BY <1>1, <1>2

(* What is appended or cut does not make the answers newer. *)
LEMMA UptoAppend ==
    ASSUME NEW m \in Seq(Messages), NEW x \in Messages, NEW b \in Nat, Upto(m, b),
           x.role = "assistant" => x.batch <= b
    PROVE  Upto(Append(m, x), b)
<1> SUFFICES ASSUME NEW a \in AssistantsAt(Append(m, x))
             PROVE  Append(m, x)[a].batch <= b
  BY DEF Upto
<1>1. a \in 1..(Len(m) + 1) /\ Append(m, x)[a].role = "assistant" /\ Len(m) \in Nat
  BY DEF AssistantsAt
<1>2. CASE a = Len(m) + 1
  BY <1>1, <1>2
<1>3. CASE a # Len(m) + 1
  <2>1. a \in 1..Len(m) /\ Append(m, x)[a] = m[a]
    BY <1>1, <1>3
  <2> QED  BY <1>1, <2>1 DEF Upto, AssistantsAt
<1> QED  BY <1>2, <1>3

(* A prefix has no newer answers. *)
LEMMA UptoPrefix ==
    ASSUME NEW m \in Seq(Messages), NEW b \in Nat, Upto(m, b), NEW k \in 0..Len(m)
    PROVE  Upto(SubSeq(m, 1, k), b)
<1> DEFINE u == SubSeq(m, 1, k)
<1>1. Len(u) = k /\ u \in Seq(Messages) /\ \A n \in 1..k : u[n] = m[n]
  OBVIOUS
<1> HIDE DEF u
<1>2. \A a \in AssistantsAt(u) : a \in AssistantsAt(m) /\ u[a] = m[a]
  BY <1>1 DEF AssistantsAt
<1> QED  BY <1>2 DEF Upto, u

(* The bound may grow. *)
LEMMA UptoMore ==
    ASSUME NEW m \in Seq(Messages), NEW b \in Nat, NEW c \in Nat, b <= c, Upto(m, b)
    PROVE  Upto(m, c)
<1> SUFFICES ASSUME NEW a \in AssistantsAt(m) PROVE m[a].batch <= c
  BY DEF Upto
<1>1. m[a].batch <= b /\ m[a] \in Messages
  BY DEF Upto, AssistantsAt
<1>2. m[a].batch \in Nat
  BY <1>1 DEF Messages
<1> QED  BY <1>1, <1>2

(* A pending call gets its result. *)
LEMMA ResultAppended ==
    ASSUME NEW m, Good(m), NEW b \in Nat, Upto(m, b), NEW i \in Pend(m),
           NEW says \in Sayings, Begun(m)
    PROVE  LET u == Append(m, ToolResult(Bat(m).batch, i, says)) IN
           /\ Good(u) /\ Upto(u, b) /\ Begun(u)
           /\ Bat(u) = Bat(m)
           /\ Pend(u) = Pend(m) \ {i}
<1> DEFINE x == ToolResult(Bat(m).batch, i, says)
<1>1. m \in Seq(Messages)
  BY DEF Good
<1>2. HasResumableBatch(m) /\ Bat(m) \in Messages /\ i \in Nat
  BY <1>1, PendingBatch
<1>3. /\ x \in Messages /\ x.role = "tool" /\ x.call = i
      /\ x.batch = Bat(m).batch
  <2>1. Bat(m).batch \in Nat
    BY <1>2 DEF Messages
  <2>2. <<>> \in Seq(Kinds)  OBVIOUS
  <2> QED  BY <1>2, <2>1, <2>2 DEF ToolResult, Messages
<1> HIDE DEF x
<1>4. Allowed(m, x)
  BY <1>2, <1>3 DEF Allowed
<1>5. Good(Append(m, x))
  BY <1>3, <1>4, GoodAppend
<1>6. Upto(Append(m, x), b)
  BY <1>1, <1>3, UptoAppend
<1>7. Bat(Append(m, x)) = Bat(m) /\ Pend(Append(m, x)) = Pend(m) \ {i}
  BY <1>1, <1>2, <1>3, AppendTool
<1>8. Begun(Append(m, x))
  BY <1>1, <1>3, BegunAppend
<1> QED  BY <1>5, <1>6, <1>7, <1>8 DEF x

(* A prompt follows when nothing is pending. *)
LEMMA PromptAppended ==
    ASSUME NEW m, Good(m), NEW b \in Nat, Upto(m, b), Pend(m) = {}, Begun(m)
    PROVE  LET u == Append(m, Prompt) IN
           Good(u) /\ Upto(u, b) /\ Begun(u) /\ Pend(u) = {}
<1>1. m \in Seq(Messages)
  BY DEF Good
<1>2. Prompt \in Messages /\ Prompt.role = "user"
  <2>1. <<>> \in Seq(Kinds)  OBVIOUS
  <2> QED  BY <2>1 DEF Prompt, Messages, Sayings
<1>3. Good(Append(m, Prompt))
  BY <1>2, GoodAppend DEF Allowed
<1>4. Upto(Append(m, Prompt), b)
  BY <1>1, <1>2, UptoAppend
<1> QED  BY <1>1, <1>2, <1>3, <1>4, AppendUser, BegunAppend

(* An answer that is newer than the conversation follows it. *)
LEMMA AnswerAppended ==
    ASSUME NEW m, Good(m), NEW b \in Nat, Upto(m, b), Pend(m) = {},
           NEW x \in Messages, x.role = "assistant", x.batch <= b,
           \A a \in AssistantsAt(m) : m[a].batch < x.batch, Begun(m)
    PROVE  LET u == Append(m, x) IN
           /\ Good(u) /\ Upto(u, b) /\ Begun(u)
           /\ Bat(u) = x
           /\ Pend(u) = DOMAIN x.calls
<1>1. m \in Seq(Messages)
  BY DEF Good
<1>2. Good(Append(m, x))
  BY GoodAppend DEF Allowed
<1>3. Upto(Append(m, x), b)
  BY <1>1, UptoAppend
<1> QED  BY <1>1, <1>2, <1>3, AppendAnswer, BegunAppend

-----------------------------------------------------------------------------
(* The inductive invariant of conversations and approvals. *)

(* The other runs stay as they are. *)
LEMMA OthersOK ==
    ASSUME LoopInv, NEW r \in Runs, OfRun(r), NEW q \in Runs \ {r}
    PROVE  RunOK(q)'
<1>1. /\ RunOK(q) /\ batches \in Nat /\ batches' \in Nat /\ batches <= batches'
      /\ ex'[q] = ex[q] /\ conv'[q] = conv[q]
      /\ steps'[q] = steps[q] /\ appr'[q] = appr[q]
  BY DEF LoopInv, OfRun, Types
<1>2. Saved(q)' = Saved(q)
  BY <1>1 DEF Saved
<1>3. SavedOK(q)'
  BY <1>1, <1>2, UptoMore DEF RunOK, SavedOK, Good
<1>4. WorkOK(q)'
  BY <1>1, <1>2, UptoMore DEF RunOK, WorkOK, Active, Good
<1>5. PhaseOK(q)'
  <2>1. ex[q].pc \in {"think", "save"} => ex[q].out.batch \in Nat
    BY DEF LoopInv, Types, FieldsOK, Messages
  <2> QED  BY <1>1, <2>1 DEF RunOK, PhaseOK
<1>6. RequestsOK(q)'
  BY <1>1, <1>2 DEF RunOK, RequestsOK, Active
<1>7. GrantsOK(q)'
  BY <1>1 DEF RunOK, GrantsOK, Active, Granted
<1> QED  BY <1>3, <1>4, <1>5, <1>6, <1>7 DEF RunOK

(* Effects that were approved stay so. *)
LEMMA GatedStay ==
    ASSUME LoopInv, GrantsStay, effects' = effects
    PROVE  GatedNeedsApproval'
<1> SUFFICES ASSUME NEW e \in effects, e.kind = "gated"
             PROVE  \E k \in DOMAIN appr'[e.run] :
                      /\ appr'[e.run][k].status = "approved"
                      /\ appr'[e.run][k].batch = e.batch
                      /\ e.call \in appr'[e.run][k].calls
  BY DEF GatedNeedsApproval
<1>1. e.run \in Runs
  BY DEF LoopInv, Types
<1>2. PICK k \in DOMAIN appr[e.run] :
        /\ appr[e.run][k].status = "approved"
        /\ appr[e.run][k].batch = e.batch
        /\ e.call \in appr[e.run][k].calls
  BY DEF LoopInv, GatedNeedsApproval
<1> QED  BY <1>1, <1>2 DEF GrantsStay

(* A step of an executor keeps the invariant of all runs if it keeps that  *)
(* of its own.                                                             *)
LEMMA ExecutorStep ==
    ASSUME LoopInv, NEW r \in Runs, OfRun(r), Types', RunOK(r)', UNCHANGED run,
           GatedNeedsApproval'
    PROVE  LoopInv'
<1>1. \A q \in Runs : RunOK(q)'
  BY OthersOK
<1>2. RetryOK'
  BY DEF LoopInv, RetryOK
<1> QED  BY <1>1, <1>2 DEF LoopInv

-----------------------------------------------------------------------------
(* Writes to the store. *)

(* UpsertArtifact: what is stored afterwards. *)
LEMMA SavedTo ==
    ASSUME Types, NEW r \in Runs, NEW m \in Seq(Messages), SavesTo(r, m)
    PROVE  /\ conv' \in [Runs -> Conversations]
           /\ Saved(r)' = m /\ ~conv'[r].streaming
           /\ conv'[r] = NoConv <=> m = <<>>
           /\ \A q \in Runs \ {r} : conv'[q] = conv[q]
<1>1. conv'[r] = [msgs |-> m, streaming |-> FALSE]
  BY DEF SavesTo, Types
<1>2. [msgs |-> m, streaming |-> FALSE] \in Conversations
  BY DEF Conversations
<1>3. conv' \in [Runs -> Conversations] /\ \A q \in Runs \ {r} : conv'[q] = conv[q]
  BY <1>2 DEF SavesTo, Types
<1>4. Saved(r)' = m /\ ~conv'[r].streaming
  BY <1>1 DEF Saved, completedConversationMessages
<1>5. conv'[r] = NoConv <=> m = <<>>
  <2>1. [msgs |-> m, streaming |-> FALSE].msgs = m /\ NoConv.msgs = <<>>
    BY DEF NoConv
  <2>2. m = <<>> => [msgs |-> m, streaming |-> FALSE] = NoConv
    BY DEF NoConv
  <2> QED  BY <1>1, <2>1, <2>2
<1> QED  BY <1>3, <1>4, <1>5

(* A new step: what is stored afterwards. *)
LEMMA StepAdded ==
    ASSUME Types, NEW r \in Runs, NEW s \in Steps, AddsStep(r, s)
    PROVE  /\ steps' \in [Runs -> Seq(Steps)]
           /\ Len(steps[r]) \in Nat /\ DOMAIN steps[r] = 1..Len(steps[r])
           /\ Len(steps'[r]) = Len(steps[r]) + 1
           /\ DOMAIN steps'[r] = 1..(Len(steps[r]) + 1)
           /\ \A n \in 1..Len(steps[r]) : steps'[r][n] = steps[r][n]
           /\ steps'[r][Len(steps[r]) + 1] = s
           /\ \A q \in Runs \ {r} : steps'[q] = steps[q]
<1>1. steps[r] \in Seq(Steps)
  BY DEF Types
<1>2. steps'[r] = Append(steps[r], s) /\ \A q \in Runs \ {r} : steps'[q] = steps[q]
  BY DEF AddsStep, Types
<1>3. Append(steps[r], s) \in Seq(Steps)
  BY <1>1
<1>4. steps' \in [Runs -> Seq(Steps)]
  BY <1>3 DEF AddsStep, Types
<1> QED  BY <1>1, <1>2, <1>4

(* The fields of the stored steps. *)
LEMMA StepTypes ==
    ASSUME Types, NEW r \in Runs
    PROVE  /\ steps[r] \in Seq(Steps) /\ Len(steps[r]) \in Nat
           /\ DOMAIN steps[r] = 1..Len(steps[r])
           /\ \A n \in DOMAIN steps[r] :
                /\ steps[r][n] \in Steps /\ steps[r][n].idx \in Nat
                /\ steps[r][n].ref \in Refs /\ steps[r][n].call \in Nat
                /\ steps[r][n].cost \in Nat
<1>1. steps[r] \in Seq(Steps)
  BY DEF Types
<1>2. Len(steps[r]) \in Nat /\ DOMAIN steps[r] = 1..Len(steps[r])
      /\ \A n \in DOMAIN steps[r] : steps[r][n] \in Steps
  BY <1>1
<1>3. \A s \in Steps : /\ s.idx \in Nat /\ s.ref \in Refs /\ s.call \in Nat
                       /\ s.cost \in Nat
  BY DEF Steps
<1> QED  BY <1>1, <1>2, <1>3

(* The status of one step changes. *)
LEMMA StatusSet ==
    ASSUME Types, NEW r \in Runs, NEW n \in DOMAIN steps[r],
           NEW status \in {"completed", "failed"},
           steps' = [steps EXCEPT ![r][n].status = status]
    PROVE  /\ steps' \in [Runs -> Seq(Steps)]
           /\ SameSteps(r)
           /\ \A q \in Runs \ {r} : steps'[q] = steps[q]
<1>1. steps[r] \in Seq(Steps) /\ n \in 1..Len(steps[r])
  BY DEF Types
<1>2. steps'[r] = [steps[r] EXCEPT ![n].status = status]
      /\ \A q \in Runs \ {r} : steps'[q] = steps[q]
  BY DEF Types
<1>3. steps[r][n] \in Steps
  BY <1>1
<1>4. [steps[r][n] EXCEPT !.status = status] \in Steps
  BY <1>3 DEF Steps
<1>5. steps'[r] = [steps[r] EXCEPT ![n] = [steps[r][n] EXCEPT !.status = status]]
  BY <1>1, <1>2
<1>6. steps'[r] \in Seq(Steps) /\ Len(steps'[r]) = Len(steps[r])
      /\ DOMAIN steps'[r] = DOMAIN steps[r]
  BY <1>1, <1>4, <1>5, ExceptSeq
<1>7. \A k \in DOMAIN steps[r] : steps'[r][k] =
         IF k = n THEN [steps[r][n] EXCEPT !.status = status] ELSE steps[r][k]
  BY <1>1, <1>5
<1>8. SameSteps(r)
  <2>1. /\ steps'[r][n].kind = steps[r][n].kind
        /\ steps'[r][n].idx = steps[r][n].idx
        /\ steps'[r][n].ref = steps[r][n].ref
        /\ steps'[r][n].call = steps[r][n].call
        /\ steps'[r][n].calls = steps[r][n].calls
    BY <1>3, <1>7 DEF Steps
  <2>2. \A k \in DOMAIN steps[r] : k # n => steps'[r][k] = steps[r][k]
    BY <1>7
  <2> QED  BY <1>6, <2>1, <2>2 DEF SameSteps
<1>9. steps' \in [Runs -> Seq(Steps)]
  BY <1>6, <1>2 DEF Types
<1> QED  BY <1>2, <1>8, <1>9

-----------------------------------------------------------------------------
(* Requests. *)

(* A step that does not ask keeps what is known of the approvals. *)
LEMMA RequestsKept ==
    ASSUME NEW r \in Runs, Types, RequestsOK(r), SameSteps(r),
           DOMAIN appr'[r] = DOMAIN appr[r],
           \A k \in DOMAIN appr[r] :
              /\ appr'[r][k].step = appr[r][k].step
              /\ appr'[r][k].batch = appr[r][k].batch
              /\ appr'[r][k].calls = appr[r][k].calls,
           conv[r] # NoConv => /\ conv'[r] # NoConv
                               /\ Bat(Saved(r)').batch = Bat(Saved(r)).batch,
           Active(r)' => \/ Active(r) /\ ex'[r].next \in Nat /\ ex'[r].next >= ex[r].next
                         \/ \A n \in DOMAIN steps[r] : steps[r][n].idx < ex'[r].next
                         \/ conv[r] = NoConv,
           ex'[r].pc # "save"
    PROVE  RequestsOK(r)'
<1>1. \A n \in DOMAIN steps[r] : steps[r][n].idx \in Nat
  BY StepTypes
<1>2. ASSUME NEW k \in DOMAIN appr'[r]
      PROVE  /\ appr'[r][k].step \in DOMAIN steps'[r]
             /\ steps'[r][appr'[r][k].step].kind = "approval"
             /\ steps'[r][appr'[r][k].step].calls = appr'[r][k].calls
             /\ (\A m \in DOMAIN steps'[r] :
                   steps'[r][m].idx <= steps'[r][appr'[r][k].step].idx) =>
                      Bat(Saved(r)').batch = appr'[r][k].batch
  BY <1>2, SMTT(40) DEF RequestsOK, SameSteps
<1>3. ASSUME NEW n \in DOMAIN steps'[r], steps'[r][n].kind = "approval"
      PROVE  conv'[r] # NoConv /\ (Active(r)' => steps'[r][n].idx < ex'[r].next)
  <2>1. n \in DOMAIN steps[r] /\ steps[r][n].kind = "approval"
        /\ steps'[r][n].idx = steps[r][n].idx
    BY <1>3 DEF SameSteps
  <2>2. conv[r] # NoConv /\ (Active(r) => steps[r][n].idx < ex[r].next)
    BY <2>1 DEF RequestsOK
  <2>3. ex[r].next \in Nat
    BY DEF Types, FieldsOK
  <2> QED  BY <1>1, <2>1, <2>2, <2>3
<1> QED  BY <1>2, <1>3 DEF RequestsOK

(* A new step is newer than every request. *)
LEMMA RequestsAdd ==
    ASSUME NEW r \in Runs, Types, RequestsOK(r), Active(r), NEW s \in Steps,
           AddsStep(r, s), s.idx = ex[r].next,
           s.kind = "approval" => conv[r] # NoConv,
           ex'[r].pc = "save" => s.kind = "model",
           appr' = appr, conv' = conv,
           \/ ex'[r].next = ex[r].next + 1
           \/ ex'[r].next = ex[r].next /\ s.kind # "approval"
    PROVE  RequestsOK(r)'
<1>0. Len(steps[r]) \in Nat /\ ex[r].next \in Nat
      /\ \A n \in DOMAIN steps[r] : steps[r][n].idx \in Nat
  BY StepTypes DEF Types, FieldsOK
<1>1. /\ DOMAIN steps[r] = 1..Len(steps[r])
      /\ DOMAIN steps'[r] = 1..(Len(steps[r]) + 1)
      /\ Len(steps'[r]) = Len(steps[r]) + 1
      /\ \A n \in 1..Len(steps[r]) : steps'[r][n] = steps[r][n]
      /\ steps'[r][Len(steps[r]) + 1] = s
  BY StepAdded
<1>2. ASSUME NEW k \in DOMAIN appr'[r]
      PROVE  /\ appr'[r][k].step \in DOMAIN steps'[r]
             /\ steps'[r][appr'[r][k].step].kind = "approval"
             /\ steps'[r][appr'[r][k].step].calls = appr'[r][k].calls
             /\ (\A m \in DOMAIN steps'[r] :
                   steps'[r][m].idx <= steps'[r][appr'[r][k].step].idx) =>
                      Bat(Saved(r)').batch = appr'[r][k].batch
  <2> DEFINE n == appr[r][k].step
  <2>1. /\ n \in DOMAIN steps[r] /\ steps[r][n].kind = "approval"
        /\ steps[r][n].calls = appr[r][k].calls
        /\ steps[r][n].idx < ex[r].next
    BY <1>2 DEF RequestsOK
  <2> HIDE DEF n
  <2>2. n \in 1..Len(steps[r]) /\ steps'[r][n] = steps[r][n] /\ n \in DOMAIN steps'[r]
    BY <1>0, <1>1, <2>1
  <2>3. Len(steps[r]) + 1 \in DOMAIN steps'[r]
        /\ ~(steps'[r][Len(steps[r]) + 1].idx <= steps'[r][n].idx)
    BY <1>0, <1>1, <2>1, <2>2
  <2> QED  BY <2>1, <2>2, <2>3 DEF n
<1>3. ASSUME NEW n \in DOMAIN steps'[r], steps'[r][n].kind = "approval"
      PROVE  /\ conv'[r] # NoConv
             /\ steps'[r][n].idx < ex'[r].next
             /\ ex'[r].pc = "save" =>
                  steps'[r][n].idx < steps'[r][Len(steps'[r])].idx
  <2>1. CASE n = Len(steps[r]) + 1
    BY <1>0, <1>1, <1>3, <2>1
  <2>2. CASE n \in 1..Len(steps[r])
    <3>1. /\ steps'[r][n] = steps[r][n] /\ n \in DOMAIN steps[r]
          /\ steps[r][n].idx < ex[r].next /\ conv[r] # NoConv
      BY <1>1, <1>3, <2>2 DEF RequestsOK
    <3> QED  BY <1>0, <1>1, <3>1
  <2> QED  BY <1>0, <1>1, <2>1, <2>2
<1> QED  BY <1>2, <1>3 DEF RequestsOK, Active

-----------------------------------------------------------------------------
(* The steps of an executor keep the invariant. *)

(* The types after a step of an executor, field by field. *)
LEMMA TypesStep ==
    ASSUME Types, NEW r \in Runs, Frame(r), run' = run,
           conv' \in [Runs -> Conversations],
           steps' \in [Runs -> Seq(Steps)],
           appr' \in [Runs -> Seq(Approvals)],
           batches' \in Nat, \A e \in effects' : e.run \in Runs,
           FieldsOK(r)'
    PROVE  Types'
<1>1. \A q \in Runs : q = r \/ ex'[q] = ex[q]
  BY DEF Frame
<1>2. DOMAIN ex' = Runs /\ \A q \in Runs : DOMAIN ex'[q] = Fields
  BY <1>1 DEF Types, Frame
<1>3. ASSUME NEW q \in Runs PROVE FieldsOK(q)'
  BY <1>1, Zenon DEF Types, FieldsOK
<1>4. \A q \in Runs : RunTypes(q)'
  BY DEF Types, RunTypes
<1> QED  BY <1>2, <1>3, <1>4, Zenon DEF Types

(* Runs are numbers. *)
LEMMA RunsNat == Runs \subseteq Nat
BY AgentLoopAssumption DEF Runs

(* What the invariant says of a run with an executor. *)
LEMMA Facts ==
    ASSUME LoopInv, NEW r \in Runs
    PROVE  /\ Types /\ SavedOK(r) /\ WorkOK(r) /\ PhaseOK(r) /\ RequestsOK(r)
           /\ GrantsOK(r) /\ GatedNeedsApproval
           /\ FieldsOK(r) /\ batches \in Nat
<1>1. Types /\ RunOK(r) /\ GatedNeedsApproval
  BY DEF LoopInv
<1>2. FieldsOK(r) /\ batches \in Nat
  BY <1>1 DEF Types
<1> QED  BY <1>1, <1>2 DEF RunOK

(* A result closes the first of the calls in S. *)
LEMMA FirstClosed ==
    ASSUME LoopInv, NEW r \in Runs, Active(r), NEW S, S # {}, S \subseteq ex[r].pending,
           NEW says \in Sayings
    PROVE  LET i == Min(S)
               u == Append(ex[r].msgs, ToolResult(CurrentBatch(r), i, says))
           IN  /\ i \in S /\ i \in ex[r].pending /\ i \in Nat
               /\ Good(u) /\ Upto(u, batches) /\ Begun(u) /\ u \in Seq(Messages)
               /\ Bat(u) = Bat(ex[r].msgs)
               /\ Pend(u) = ex[r].pending \ {i}
<1>1. /\ Good(ex[r].msgs) /\ Upto(ex[r].msgs, batches) /\ batches \in Nat
      /\ ex[r].pending = Pend(ex[r].msgs) /\ ex[r].pending \subseteq Nat
      /\ ex[r].msgs \in Seq(Messages) /\ Begun(ex[r].msgs)
  BY Facts DEF WorkOK, FieldsOK
<1> DEFINE i == Min(S)
<1>2. i \in S /\ i \in ex[r].pending /\ i \in Nat
  BY <1>1, MinNat
<1> HIDE DEF i
<1> DEFINE u == Append(ex[r].msgs, ToolResult(Bat(ex[r].msgs).batch, i, says))
<1>3. Good(u) /\ Upto(u, batches) /\ Begun(u) /\ Bat(u) = Bat(ex[r].msgs)
      /\ Pend(u) = Pend(ex[r].msgs) \ {i}
  BY <1>1, <1>2, ResultAppended
<1>4. u \in Seq(Messages)
  BY <1>3 DEF Good
<1>5. CurrentBatch(r) = Bat(ex[r].msgs).batch
  BY DEF CurrentBatch, Bat
<1> QED  BY <1>1, <1>2, <1>3, <1>4, <1>5 DEF i

(* A match is recorded in this run: InheritDispatch keeps the invariant. *)
LEMMA InheritDispatchKeeps ==
    ASSUME LoopInv, NEW r \in Runs, InheritDispatch(r)
    PROVE  LoopInv'
<1>0. /\ Types /\ SavedOK(r) /\ WorkOK(r) /\ PhaseOK(r) /\ RequestsOK(r)
      /\ GrantsOK(r) /\ GatedNeedsApproval /\ FieldsOK(r) /\ batches \in Nat
  BY Facts
<1>e. InheritDispatchDoes(r)
  BY <1>0, InheritDispatchEffect
<1>a. Active(r)
  BY <1>e DEF Active, InheritDispatchDoes
<1> DEFINE i == Min(ex[r].left)
<1>f. i \in ex[r].left /\ i \in Nat
  <2>1. ex[r].left # {} /\ ex[r].left \subseteq Nat
    BY <1>0, <1>e DEF InheritDispatchDoes, PhaseOK, FieldsOK
  <2> QED  BY <2>1, MinNat
<1> HIDE DEF i
<1> DEFINE s == Step("tool", ex[r].next, ex[r].ref, i, "failed", {}, 0)
<1> HIDE DEF s
<1>c. conv' = conv /\ conv' \in [Runs -> Conversations] /\ Saved(r)' = Saved(r)
  BY <1>0, <1>e DEF InheritDispatchDoes, Types, Saved
<1>s. s \in Steps
  BY <1>0, <1>f DEF FieldsOK, Steps, Step, Refs, NoRef, s
<1>t. AddsStep(r, s) /\ s.idx = ex[r].next
  BY <1>0, <1>a, <1>e, <1>f DEF InheritDispatchDoes, Step, s, i
<1>b. /\ steps' \in [Runs -> Seq(Steps)]
      /\ \A q \in Runs \ {r} : steps'[q] = steps[q]
      /\ Len(steps[r]) \in Nat /\ Len(steps'[r]) = Len(steps[r]) + 1
      /\ steps'[r][Len(steps[r]) + 1] = s
  BY <1>0, <1>s, <1>t, StepAdded
<1>1. OfRun(r)
  BY <1>0, <1>e, <1>b, <1>c DEF InheritDispatchDoes, OfRun, Frame
<1>2. Types'
  <2>1. FieldsOK(r)'
    BY <1>0, <1>a, <1>e, <1>f
       DEF InheritDispatchDoes, WorkKept, CountsKept, FieldsOK, Pcs, Refs,
           Statuses, Terminal, i
  <2>2. /\ appr' \in [Runs -> Seq(Approvals)] /\ batches' \in Nat
        /\ \A e \in effects' : e.run \in Runs
    BY <1>0, <1>e DEF InheritDispatchDoes, Types
  <2> QED  BY <1>0, <1>e, <1>b, <1>c, <2>1, <2>2, TypesStep
              DEF InheritDispatchDoes
<1>3. SavedOK(r)'
  BY <1>0, <1>a, <1>e, <1>f, <1>c
     DEF InheritDispatchDoes, WorkKept, CountsKept, SavedOK, WorkOK
<1>4. WorkOK(r)'
  BY <1>0, <1>a, <1>e, <1>f, <1>c
     DEF InheritDispatchDoes, WorkKept, CountsKept, WorkOK, PhaseOK, Active, i
<1>5. PhaseOK(r)'
  BY <1>0, <1>a, <1>e, <1>f
     DEF InheritDispatchDoes, WorkKept, CountsKept, PhaseOK, WorkOK, Active, i
<1>6. RequestsOK(r)'
  <2>1. /\ s.kind = "approval" => conv[r] # NoConv
        /\ ex'[r].pc = "save" => s.kind = "model"
        /\ appr' = appr /\ conv' = conv
        /\ \/ ex'[r].next = ex[r].next + 1
           \/ ex'[r].next = ex[r].next /\ s.kind # "approval"
    BY <1>0, <1>e, <1>a
       DEF InheritDispatchDoes, WorkKept, CountsKept, Step, s, GrantsOK
  <2> QED  BY <1>0, <1>a, <1>s, <1>t, <2>1, RequestsAdd
<1>7. GrantsOK(r)'
  <2>1. \A b, j : Granted(r, b, j)' <=> Granted(r, b, j)
    BY <1>e DEF InheritDispatchDoes, Granted
  <2> QED  BY <1>0, <1>a, <1>e, <1>f, <1>b, <1>c, <2>1
           DEF InheritDispatchDoes, WorkKept, CountsKept, GrantsOK, WorkOK,
               PhaseOK, Active, Step, s, i
<1>8. GatedNeedsApproval'
  BY <1>0, <1>e DEF InheritDispatchDoes, GatedNeedsApproval
<1>9. UNCHANGED run
  BY <1>e DEF InheritDispatchDoes
<1> QED  BY <1>1, <1>2, <1>3, <1>4, <1>5, <1>6, <1>7, <1>8, <1>9, ExecutorStep
            DEF RunOK

(* An ambiguous dispatch is settled: settleAmbiguousToolDispatch keeps the *)
(* invariant.                                                              *)
LEMMA settleAmbiguousToolDispatchKeeps ==
    ASSUME LoopInv, NEW r \in Runs, settleAmbiguousToolDispatch(r)
    PROVE  LoopInv'
<1>0. /\ Types /\ SavedOK(r) /\ WorkOK(r) /\ PhaseOK(r) /\ RequestsOK(r)
      /\ GrantsOK(r) /\ GatedNeedsApproval /\ FieldsOK(r) /\ batches \in Nat
  BY Facts
<1>e. settleAmbiguousToolDispatchDoes(r)
  BY <1>0, settleAmbiguousToolDispatchEffect
<1>a. Active(r)
  BY <1>e DEF Active, settleAmbiguousToolDispatchDoes
<1>c. conv' = conv /\ conv' \in [Runs -> Conversations] /\ Saved(r)' = Saved(r)
  BY <1>0, <1>e DEF settleAmbiguousToolDispatchDoes, Types, Saved
<1>b. /\ steps' \in [Runs -> Seq(Steps)] /\ SameSteps(r)
      /\ \A q \in Runs \ {r} : steps'[q] = steps[q]
  BY <1>0, <1>e, StatusSet DEF settleAmbiguousToolDispatchDoes
<1>1. OfRun(r)
  BY <1>0, <1>e, <1>b, <1>c DEF settleAmbiguousToolDispatchDoes, OfRun, Frame
<1>2. Types'
  BY <1>0, <1>e, <1>b, <1>c, Zenon
     DEF settleAmbiguousToolDispatchDoes, Types, FieldsOK, RunTypes
<1>3. SavedOK(r)'
  BY <1>0, <1>a, <1>e, <1>c
     DEF settleAmbiguousToolDispatchDoes, WorkKept, CountsKept, SavedOK, WorkOK
<1>4. WorkOK(r)'
  BY <1>0, <1>a, <1>e, <1>c
     DEF settleAmbiguousToolDispatchDoes, WorkKept, CountsKept, WorkOK,
         PhaseOK, Active
<1>5. PhaseOK(r)'
  BY <1>0, <1>a, <1>e
     DEF settleAmbiguousToolDispatchDoes, WorkKept, CountsKept, PhaseOK,
         WorkOK, Active
<1>6. RequestsOK(r)'
  <2>1. conv[r] # NoConv => /\ conv'[r] # NoConv
                            /\ Bat(Saved(r)').batch = Bat(Saved(r)).batch
    BY <1>0, <1>a, <1>e, <1>c
       DEF settleAmbiguousToolDispatchDoes, WorkKept, CountsKept, WorkOK,
           SavedOK, PhaseOK, Begun
  <2>2. ex'[r].next \in Nat /\ ex'[r].next >= ex[r].next /\ ex'[r].pc # "save"
    BY <1>0, <1>a, <1>e
       DEF settleAmbiguousToolDispatchDoes, WorkKept, CountsKept, FieldsOK
  <2>3. appr' = appr
    BY <1>e DEF settleAmbiguousToolDispatchDoes
  <2> QED  BY <1>0, <1>a, <1>b, <2>1, <2>2, <2>3, RequestsKept
<1>7. GrantsOK(r)'
  <2>1. \A b, j : Granted(r, b, j)' <=> Granted(r, b, j)
    BY <1>e DEF settleAmbiguousToolDispatchDoes, Granted
  <2> QED  BY <1>0, <1>a, <1>e, <1>b, <1>c, <2>1
           DEF settleAmbiguousToolDispatchDoes, WorkKept, CountsKept,
               GrantsOK, WorkOK, PhaseOK, Active
<1>8. GatedNeedsApproval'
  BY <1>0, <1>e DEF settleAmbiguousToolDispatchDoes, GatedNeedsApproval
<1>9. UNCHANGED run
  BY <1>e DEF settleAmbiguousToolDispatchDoes
<1> QED  BY <1>1, <1>2, <1>3, <1>4, <1>5, <1>6, <1>7, <1>8, <1>9, ExecutorStep
            DEF RunOK

(* The loop is entered, or a server does not start: EnterLoop keeps the    *)
(* invariant.                                                              *)
LEMMA EnterLoopKeeps ==
    ASSUME LoopInv, NEW r \in Runs, EnterLoop(r)
    PROVE  LoopInv'
<1>0. /\ Types /\ SavedOK(r) /\ WorkOK(r) /\ PhaseOK(r) /\ RequestsOK(r)
      /\ GrantsOK(r) /\ GatedNeedsApproval /\ FieldsOK(r) /\ batches \in Nat
  BY Facts
<1>e. EnterLoopDoes(r)
  BY <1>0, EnterLoopEffect
<1>a. Active(r)
  BY <1>e DEF Active, EnterLoopDoes
<1>c. conv' = conv /\ conv' \in [Runs -> Conversations] /\ Saved(r)' = Saved(r)
  BY <1>0, <1>e DEF EnterLoopDoes, Types, Saved
<1>b. steps' = steps /\ steps' \in [Runs -> Seq(Steps)] /\ SameSteps(r)
  BY <1>0, <1>e DEF EnterLoopDoes, Types, SameSteps
<1>1. OfRun(r)
  BY <1>0, <1>e, <1>b, <1>c DEF EnterLoopDoes, OfRun, Frame
<1>2. Types'
  <2>1. FieldsOK(r)'
    BY <1>0, <1>a, <1>e, SMTT(40)
       DEF EnterLoopDoes, WorkKept, CountsKept, FieldsOK, Pcs, Refs, Statuses,
           Terminal
  <2>2. /\ appr' \in [Runs -> Seq(Approvals)] /\ batches' \in Nat
        /\ \A e \in effects' : e.run \in Runs
    BY <1>0, <1>e DEF EnterLoopDoes, Types
  <2> QED  BY <1>0, <1>e, <1>b, <1>c, <2>1, <2>2, TypesStep DEF EnterLoopDoes
<1>3. SavedOK(r)'
  BY <1>0, <1>a, <1>e, <1>c
     DEF EnterLoopDoes, WorkKept, CountsKept, SavedOK, WorkOK
<1>4. WorkOK(r)'
  BY <1>0, <1>a, <1>e, <1>c
     DEF EnterLoopDoes, WorkKept, CountsKept, WorkOK, PhaseOK, Active
<1>5. PhaseOK(r)'
  BY <1>0, <1>a, <1>e
     DEF EnterLoopDoes, WorkKept, CountsKept, PhaseOK, WorkOK, Active
<1>6. RequestsOK(r)'
  <2>1. conv[r] # NoConv => /\ conv'[r] # NoConv
                            /\ Bat(Saved(r)').batch = Bat(Saved(r)).batch
    BY <1>0, <1>a, <1>e, <1>c
       DEF EnterLoopDoes, WorkKept, CountsKept, WorkOK, SavedOK, PhaseOK, Begun
  <2>2. ex'[r].next \in Nat /\ ex'[r].next >= ex[r].next /\ ex'[r].pc # "save"
    BY <1>0, <1>a, <1>e DEF EnterLoopDoes, WorkKept, CountsKept, FieldsOK
  <2>3. appr' = appr
    BY <1>e DEF EnterLoopDoes
  <2> QED  BY <1>0, <1>a, <1>b, <2>1, <2>2, <2>3, RequestsKept
<1>7. GrantsOK(r)'
  <2>1. \A b, j : Granted(r, b, j)' <=> Granted(r, b, j)
    BY <1>e DEF EnterLoopDoes, Granted
  <2> QED  BY <1>0, <1>a, <1>e, <1>b, <1>c, <2>1
           DEF EnterLoopDoes, WorkKept, CountsKept, GrantsOK, WorkOK, PhaseOK,
               Active
<1>8. GatedNeedsApproval'
  BY <1>0, <1>e DEF EnterLoopDoes, GatedNeedsApproval
<1>9. UNCHANGED run
  BY <1>e DEF EnterLoopDoes
<1> QED  BY <1>1, <1>2, <1>3, <1>4, <1>5, <1>6, <1>7, <1>8, <1>9, ExecutorStep
            DEF RunOK

(* The loop stops: StopCancelled keeps the invariant. *)
LEMMA StopCancelledKeeps ==
    ASSUME LoopInv, NEW r \in Runs, StopCancelled(r)
    PROVE  LoopInv'
<1>0. /\ Types /\ SavedOK(r) /\ WorkOK(r) /\ PhaseOK(r) /\ RequestsOK(r)
      /\ GrantsOK(r) /\ GatedNeedsApproval /\ FieldsOK(r) /\ batches \in Nat
  BY Facts
<1>e. StopCancelledDoes(r)
  BY <1>0, StopCancelledEffect
<1>a. Active(r)
  BY <1>e DEF Active, StopCancelledDoes
<1>c. conv' = conv /\ conv' \in [Runs -> Conversations] /\ Saved(r)' = Saved(r)
  BY <1>0, <1>e DEF StopCancelledDoes, Types, Saved
<1>b. steps' = steps /\ steps' \in [Runs -> Seq(Steps)] /\ SameSteps(r)
  BY <1>0, <1>e DEF StopCancelledDoes, Types, SameSteps
<1>1. OfRun(r)
  BY <1>0, <1>e, <1>b, <1>c DEF StopCancelledDoes, OfRun, Frame
<1>2. Types'
  <2>1. FieldsOK(r)'
    BY <1>0, <1>a, <1>e
       DEF StopCancelledDoes, WorkKept, CountsKept, FieldsOK, Pcs, Refs,
           Statuses, Terminal
  <2>2. /\ appr' \in [Runs -> Seq(Approvals)] /\ batches' \in Nat
        /\ \A e \in effects' : e.run \in Runs
    BY <1>0, <1>e DEF StopCancelledDoes, Types
  <2> QED  BY <1>0, <1>e, <1>b, <1>c, <2>1, <2>2, TypesStep DEF StopCancelledDoes
<1>3. SavedOK(r)'
  BY <1>0, <1>a, <1>e, <1>c
     DEF StopCancelledDoes, WorkKept, CountsKept, SavedOK, WorkOK
<1>4. WorkOK(r)'
  BY <1>0, <1>a, <1>e, <1>c
     DEF StopCancelledDoes, WorkKept, CountsKept, WorkOK, PhaseOK, Active
<1>5. PhaseOK(r)'
  BY <1>0, <1>a, <1>e
     DEF StopCancelledDoes, WorkKept, CountsKept, PhaseOK, WorkOK, Active
<1>6. RequestsOK(r)'
  <2>1. conv[r] # NoConv => /\ conv'[r] # NoConv
                            /\ Bat(Saved(r)').batch = Bat(Saved(r)).batch
    BY <1>0, <1>a, <1>e, <1>c
       DEF StopCancelledDoes, WorkKept, CountsKept, WorkOK, SavedOK, PhaseOK,
           Begun
  <2>2. ex'[r].next \in Nat /\ ex'[r].next >= ex[r].next /\ ex'[r].pc # "save"
    BY <1>0, <1>a, <1>e DEF StopCancelledDoes, WorkKept, CountsKept, FieldsOK
  <2>3. appr' = appr
    BY <1>e DEF StopCancelledDoes
  <2> QED  BY <1>0, <1>a, <1>b, <2>1, <2>2, <2>3, RequestsKept
<1>7. GrantsOK(r)'
  <2>1. \A b, j : Granted(r, b, j)' <=> Granted(r, b, j)
    BY <1>e DEF StopCancelledDoes, Granted
  <2> QED  BY <1>0, <1>a, <1>e, <1>b, <1>c, <2>1
           DEF StopCancelledDoes, WorkKept, CountsKept, GrantsOK, WorkOK,
               PhaseOK, Active
<1>8. GatedNeedsApproval'
  BY <1>0, <1>e DEF StopCancelledDoes, GatedNeedsApproval
<1>9. UNCHANGED run
  BY <1>e DEF StopCancelledDoes
<1> QED  BY <1>1, <1>2, <1>3, <1>4, <1>5, <1>6, <1>7, <1>8, <1>9, ExecutorStep
            DEF RunOK

(* The limit of model calls: ModelCallLimit keeps the invariant. *)
LEMMA ModelCallLimitKeeps ==
    ASSUME LoopInv, NEW r \in Runs, ModelCallLimit(r)
    PROVE  LoopInv'
<1>0. /\ Types /\ SavedOK(r) /\ WorkOK(r) /\ PhaseOK(r) /\ RequestsOK(r)
      /\ GrantsOK(r) /\ GatedNeedsApproval /\ FieldsOK(r) /\ batches \in Nat
  BY Facts
<1>e. ModelCallLimitDoes(r)
  BY <1>0, ModelCallLimitEffect
<1>a. Active(r)
  BY <1>e DEF Active, ModelCallLimitDoes
<1>c. conv' = conv /\ conv' \in [Runs -> Conversations] /\ Saved(r)' = Saved(r)
  BY <1>0, <1>e DEF ModelCallLimitDoes, Types, Saved
<1>b. steps' = steps /\ steps' \in [Runs -> Seq(Steps)] /\ SameSteps(r)
  BY <1>0, <1>e DEF ModelCallLimitDoes, Types, SameSteps
<1>1. OfRun(r)
  BY <1>0, <1>e, <1>b, <1>c DEF ModelCallLimitDoes, OfRun, Frame
<1>2. Types'
  <2>1. FieldsOK(r)'
    BY <1>0, <1>a, <1>e
       DEF ModelCallLimitDoes, WorkKept, CountsKept, FieldsOK, Pcs, Refs,
           Statuses, Terminal
  <2>2. /\ appr' \in [Runs -> Seq(Approvals)] /\ batches' \in Nat
        /\ \A e \in effects' : e.run \in Runs
    BY <1>0, <1>e DEF ModelCallLimitDoes, Types
  <2> QED  BY <1>0, <1>e, <1>b, <1>c, <2>1, <2>2, TypesStep DEF ModelCallLimitDoes
<1>3. SavedOK(r)'
  BY <1>0, <1>a, <1>e, <1>c
     DEF ModelCallLimitDoes, WorkKept, CountsKept, SavedOK, WorkOK
<1>4. WorkOK(r)'
  BY <1>0, <1>a, <1>e, <1>c
     DEF ModelCallLimitDoes, WorkKept, CountsKept, WorkOK, PhaseOK, Active
<1>5. PhaseOK(r)'
  BY <1>0, <1>a, <1>e
     DEF ModelCallLimitDoes, WorkKept, CountsKept, PhaseOK, WorkOK, Active
<1>6. RequestsOK(r)'
  <2>1. conv[r] # NoConv => /\ conv'[r] # NoConv
                            /\ Bat(Saved(r)').batch = Bat(Saved(r)).batch
    BY <1>0, <1>a, <1>e, <1>c
       DEF ModelCallLimitDoes, WorkKept, CountsKept, WorkOK, SavedOK, PhaseOK,
           Begun
  <2>2. ex'[r].next \in Nat /\ ex'[r].next >= ex[r].next /\ ex'[r].pc # "save"
    BY <1>0, <1>a, <1>e DEF ModelCallLimitDoes, WorkKept, CountsKept, FieldsOK
  <2>3. appr' = appr
    BY <1>e DEF ModelCallLimitDoes
  <2> QED  BY <1>0, <1>a, <1>b, <2>1, <2>2, <2>3, RequestsKept
<1>7. GrantsOK(r)'
  <2>1. \A b, j : Granted(r, b, j)' <=> Granted(r, b, j)
    BY <1>e DEF ModelCallLimitDoes, Granted
  <2> QED  BY <1>0, <1>a, <1>e, <1>b, <1>c, <2>1
           DEF ModelCallLimitDoes, WorkKept, CountsKept, GrantsOK, WorkOK,
               PhaseOK, Active
<1>8. GatedNeedsApproval'
  BY <1>0, <1>e DEF ModelCallLimitDoes, GatedNeedsApproval
<1>9. UNCHANGED run
  BY <1>e DEF ModelCallLimitDoes
<1> QED  BY <1>1, <1>2, <1>3, <1>4, <1>5, <1>6, <1>7, <1>8, <1>9, ExecutorStep
            DEF RunOK

(* The model is called: CallModel keeps the invariant. *)
LEMMA CallModelKeeps ==
    ASSUME LoopInv, NEW r \in Runs, CallModel(r)
    PROVE  LoopInv'
<1>0. /\ Types /\ SavedOK(r) /\ WorkOK(r) /\ PhaseOK(r) /\ RequestsOK(r)
      /\ GrantsOK(r) /\ GatedNeedsApproval /\ FieldsOK(r) /\ batches \in Nat
  BY Facts
<1>e. CallModelDoes(r)
  BY <1>0, CallModelEffect
<1>a. Active(r)
  BY <1>e DEF Active, CallModelDoes
<1>c. conv' = conv /\ conv' \in [Runs -> Conversations] /\ Saved(r)' = Saved(r)
  BY <1>0, <1>e DEF CallModelDoes, Types, Saved
<1>b. steps' = steps /\ steps' \in [Runs -> Seq(Steps)] /\ SameSteps(r)
  BY <1>0, <1>e DEF CallModelDoes, Types, SameSteps
<1>1. OfRun(r)
  BY <1>0, <1>e, <1>b, <1>c DEF CallModelDoes, OfRun, Frame
<1>2. Types'
  <2>1. FieldsOK(r)'
    BY <1>0, <1>a, <1>e
       DEF CallModelDoes, WorkKept, CountsKept, FieldsOK, Pcs, Refs, Statuses,
           Terminal
  <2>2. /\ appr' \in [Runs -> Seq(Approvals)] /\ batches' \in Nat
        /\ \A e \in effects' : e.run \in Runs
    BY <1>0, <1>e DEF CallModelDoes, Types
  <2> QED  BY <1>0, <1>e, <1>b, <1>c, <2>1, <2>2, TypesStep DEF CallModelDoes
<1>3. SavedOK(r)'
  BY <1>0, <1>a, <1>e, <1>c
     DEF CallModelDoes, WorkKept, CountsKept, SavedOK, WorkOK
<1>4. WorkOK(r)'
  BY <1>0, <1>a, <1>e, <1>c
     DEF CallModelDoes, WorkKept, CountsKept, WorkOK, PhaseOK, Active
<1>5. PhaseOK(r)'
  BY <1>0, <1>a, <1>e
     DEF CallModelDoes, WorkKept, CountsKept, PhaseOK, WorkOK, Active
<1>6. RequestsOK(r)'
  <2>1. conv[r] # NoConv => /\ conv'[r] # NoConv
                            /\ Bat(Saved(r)').batch = Bat(Saved(r)).batch
    BY <1>0, <1>a, <1>e, <1>c
       DEF CallModelDoes, WorkKept, CountsKept, WorkOK, SavedOK, PhaseOK, Begun
  <2>2. ex'[r].next \in Nat /\ ex'[r].next >= ex[r].next /\ ex'[r].pc # "save"
    BY <1>0, <1>a, <1>e DEF CallModelDoes, WorkKept, CountsKept, FieldsOK
  <2>3. appr' = appr
    BY <1>e DEF CallModelDoes
  <2> QED  BY <1>0, <1>a, <1>b, <2>1, <2>2, <2>3, RequestsKept
<1>7. GrantsOK(r)'
  <2>1. \A b, j : Granted(r, b, j)' <=> Granted(r, b, j)
    BY <1>e DEF CallModelDoes, Granted
  <2> QED  BY <1>0, <1>a, <1>e, <1>b, <1>c, <2>1
           DEF CallModelDoes, WorkKept, CountsKept, GrantsOK, WorkOK, PhaseOK,
               Active
<1>8. GatedNeedsApproval'
  BY <1>0, <1>e DEF CallModelDoes, GatedNeedsApproval
<1>9. UNCHANGED run
  BY <1>e DEF CallModelDoes
<1> QED  BY <1>1, <1>2, <1>3, <1>4, <1>5, <1>6, <1>7, <1>8, <1>9, ExecutorStep
            DEF RunOK

(* The ceiling is reached: CeilingReached keeps the invariant. *)
LEMMA CeilingReachedKeeps ==
    ASSUME LoopInv, NEW r \in Runs, CeilingReached(r)
    PROVE  LoopInv'
<1>0. /\ Types /\ SavedOK(r) /\ WorkOK(r) /\ PhaseOK(r) /\ RequestsOK(r)
      /\ GrantsOK(r) /\ GatedNeedsApproval /\ FieldsOK(r) /\ batches \in Nat
  BY Facts
<1>e. CeilingReachedDoes(r)
  BY <1>0, CeilingReachedEffect
<1>a. Active(r)
  BY <1>e DEF Active, CeilingReachedDoes
<1>c. /\ conv' \in [Runs -> Conversations]
      /\ Saved(r)' = ex[r].msgs /\ ~conv'[r].streaming
      /\ conv'[r] = NoConv <=> ex[r].msgs = <<>>
      /\ \A q \in Runs \ {r} : conv'[q] = conv[q]
  BY <1>0, <1>a, <1>e, SavedTo DEF CeilingReachedDoes, FieldsOK
<1>b. steps' = steps /\ steps' \in [Runs -> Seq(Steps)] /\ SameSteps(r)
  BY <1>0, <1>e DEF CeilingReachedDoes, Types, SameSteps
<1>1. OfRun(r)
  BY <1>0, <1>e, <1>b, <1>c DEF CeilingReachedDoes, OfRun, Frame
<1>2. Types'
  <2>1. FieldsOK(r)'
    BY <1>0, <1>a, <1>e
       DEF CeilingReachedDoes, WorkKept, CountsKept, FieldsOK, Pcs, Refs,
           Statuses, Terminal
  <2>2. /\ appr' \in [Runs -> Seq(Approvals)] /\ batches' \in Nat
        /\ \A e \in effects' : e.run \in Runs
    BY <1>0, <1>e DEF CeilingReachedDoes, Types
  <2> QED  BY <1>0, <1>e, <1>b, <1>c, <2>1, <2>2, TypesStep DEF CeilingReachedDoes
<1>3. SavedOK(r)'
  BY <1>0, <1>a, <1>e, <1>c
     DEF CeilingReachedDoes, WorkKept, CountsKept, SavedOK, WorkOK
<1>4. WorkOK(r)'
  BY <1>0, <1>a, <1>e, <1>c
     DEF CeilingReachedDoes, WorkKept, CountsKept, WorkOK, PhaseOK, Active
<1>5. PhaseOK(r)'
  BY <1>0, <1>a, <1>e
     DEF CeilingReachedDoes, WorkKept, CountsKept, PhaseOK, WorkOK, Active
<1>6. RequestsOK(r)'
  <2>1. conv[r] # NoConv => /\ conv'[r] # NoConv
                            /\ Bat(Saved(r)').batch = Bat(Saved(r)).batch
    BY <1>0, <1>a, <1>e, <1>c
       DEF CeilingReachedDoes, WorkKept, CountsKept, WorkOK, SavedOK, PhaseOK,
           Begun
  <2>2. ex'[r].next \in Nat /\ ex'[r].next >= ex[r].next /\ ex'[r].pc # "save"
    BY <1>0, <1>a, <1>e DEF CeilingReachedDoes, WorkKept, CountsKept, FieldsOK
  <2>3. appr' = appr
    BY <1>e DEF CeilingReachedDoes
  <2> QED  BY <1>0, <1>a, <1>b, <2>1, <2>2, <2>3, RequestsKept
<1>7. GrantsOK(r)'
  <2>1. \A b, j : Granted(r, b, j)' <=> Granted(r, b, j)
    BY <1>e DEF CeilingReachedDoes, Granted
  <2> QED  BY <1>0, <1>a, <1>e, <1>b, <1>c, <2>1
           DEF CeilingReachedDoes, WorkKept, CountsKept, GrantsOK, WorkOK,
               PhaseOK, Active
<1>8. GatedNeedsApproval'
  BY <1>0, <1>e DEF CeilingReachedDoes, GatedNeedsApproval
<1>9. UNCHANGED run
  BY <1>e DEF CeilingReachedDoes
<1> QED  BY <1>1, <1>2, <1>3, <1>4, <1>5, <1>6, <1>7, <1>8, <1>9, ExecutorStep
            DEF RunOK

(* A saved answer is the result: RecoverAnswer keeps the invariant. *)
LEMMA RecoverAnswerKeeps ==
    ASSUME LoopInv, NEW r \in Runs, RecoverAnswer(r)
    PROVE  LoopInv'
<1>0. /\ Types /\ SavedOK(r) /\ WorkOK(r) /\ PhaseOK(r) /\ RequestsOK(r)
      /\ GrantsOK(r) /\ GatedNeedsApproval /\ FieldsOK(r) /\ batches \in Nat
  BY Facts
<1>e. RecoverAnswerDoes(r)
  BY <1>0, RecoverAnswerEffect
<1>a. Active(r)
  BY <1>e DEF Active, RecoverAnswerDoes
<1>c. /\ conv' \in [Runs -> Conversations]
      /\ Saved(r)' = ex[r].msgs /\ ~conv'[r].streaming
      /\ conv'[r] = NoConv <=> ex[r].msgs = <<>>
      /\ \A q \in Runs \ {r} : conv'[q] = conv[q]
  BY <1>0, <1>a, <1>e, SavedTo DEF RecoverAnswerDoes, FieldsOK
<1>b. steps' = steps /\ steps' \in [Runs -> Seq(Steps)] /\ SameSteps(r)
  BY <1>0, <1>e DEF RecoverAnswerDoes, Types, SameSteps
<1>1. OfRun(r)
  BY <1>0, <1>e, <1>b, <1>c DEF RecoverAnswerDoes, OfRun, Frame
<1>2. Types'
  <2>1. FieldsOK(r)'
    BY <1>0, <1>a, <1>e
       DEF RecoverAnswerDoes, WorkKept, CountsKept, FieldsOK, Pcs, Refs,
           Statuses, Terminal
  <2>2. /\ appr' \in [Runs -> Seq(Approvals)] /\ batches' \in Nat
        /\ \A e \in effects' : e.run \in Runs
    BY <1>0, <1>e DEF RecoverAnswerDoes, Types
  <2> QED  BY <1>0, <1>e, <1>b, <1>c, <2>1, <2>2, TypesStep DEF RecoverAnswerDoes
<1>3. SavedOK(r)'
  BY <1>0, <1>a, <1>e, <1>c
     DEF RecoverAnswerDoes, WorkKept, CountsKept, SavedOK, WorkOK
<1>4. WorkOK(r)'
  BY <1>0, <1>a, <1>e, <1>c
     DEF RecoverAnswerDoes, WorkKept, CountsKept, WorkOK, PhaseOK, Active
<1>5. PhaseOK(r)'
  BY <1>0, <1>a, <1>e
     DEF RecoverAnswerDoes, WorkKept, CountsKept, PhaseOK, WorkOK, Active
<1>6. RequestsOK(r)'
  <2>1. conv[r] # NoConv => /\ conv'[r] # NoConv
                            /\ Bat(Saved(r)').batch = Bat(Saved(r)).batch
    BY <1>0, <1>a, <1>e, <1>c
       DEF RecoverAnswerDoes, WorkKept, CountsKept, WorkOK, SavedOK, PhaseOK,
           Begun
  <2>2. ex'[r].next \in Nat /\ ex'[r].next >= ex[r].next /\ ex'[r].pc # "save"
    BY <1>0, <1>a, <1>e DEF RecoverAnswerDoes, WorkKept, CountsKept, FieldsOK
  <2>3. appr' = appr
    BY <1>e DEF RecoverAnswerDoes
  <2> QED  BY <1>0, <1>a, <1>b, <2>1, <2>2, <2>3, RequestsKept
<1>7. GrantsOK(r)'
  <2>1. \A b, j : Granted(r, b, j)' <=> Granted(r, b, j)
    BY <1>e DEF RecoverAnswerDoes, Granted
  <2> QED  BY <1>0, <1>a, <1>e, <1>b, <1>c, <2>1
           DEF RecoverAnswerDoes, WorkKept, CountsKept, GrantsOK, WorkOK,
               PhaseOK, Active
<1>8. GatedNeedsApproval'
  BY <1>0, <1>e DEF RecoverAnswerDoes, GatedNeedsApproval
<1>9. UNCHANGED run
  BY <1>e DEF RecoverAnswerDoes
<1> QED  BY <1>1, <1>2, <1>3, <1>4, <1>5, <1>6, <1>7, <1>8, <1>9, ExecutorStep
            DEF RunOK

(* Pending calls pass the gate: GatePending keeps the invariant. *)
LEMMA GatePendingKeeps ==
    ASSUME LoopInv, NEW r \in Runs, GatePending(r)
    PROVE  LoopInv'
<1>0. /\ Types /\ SavedOK(r) /\ WorkOK(r) /\ PhaseOK(r) /\ RequestsOK(r)
      /\ GrantsOK(r) /\ GatedNeedsApproval /\ FieldsOK(r) /\ batches \in Nat
  BY Facts
<1>e. GatePendingDoes(r)
  BY <1>0, GatePendingEffect
<1>a. Active(r)
  BY <1>e DEF Active, GatePendingDoes
<1>c. /\ conv' \in [Runs -> Conversations]
      /\ Saved(r)' = ex[r].msgs /\ ~conv'[r].streaming
      /\ conv'[r] = NoConv <=> ex[r].msgs = <<>>
      /\ \A q \in Runs \ {r} : conv'[q] = conv[q]
  BY <1>0, <1>a, <1>e, SavedTo DEF GatePendingDoes, FieldsOK
<1>b. steps' = steps /\ steps' \in [Runs -> Seq(Steps)] /\ SameSteps(r)
  BY <1>0, <1>e DEF GatePendingDoes, Types, SameSteps
<1>1. OfRun(r)
  BY <1>0, <1>e, <1>b, <1>c DEF GatePendingDoes, OfRun, Frame
<1>2. Types'
  <2>1. FieldsOK(r)'
    BY <1>0, <1>a, <1>e
       DEF GatePendingDoes, WorkKept, CountsKept, FieldsOK, Pcs, Refs,
           Statuses, Terminal
  <2>2. /\ appr' \in [Runs -> Seq(Approvals)] /\ batches' \in Nat
        /\ \A e \in effects' : e.run \in Runs
    BY <1>0, <1>e DEF GatePendingDoes, Types
  <2> QED  BY <1>0, <1>e, <1>b, <1>c, <2>1, <2>2, TypesStep DEF GatePendingDoes
<1>3. SavedOK(r)'
  BY <1>0, <1>a, <1>e, <1>c
     DEF GatePendingDoes, WorkKept, CountsKept, SavedOK, WorkOK
<1>4. WorkOK(r)'
  BY <1>0, <1>a, <1>e, <1>c
     DEF GatePendingDoes, WorkKept, CountsKept, WorkOK, PhaseOK, Active
<1>5. PhaseOK(r)'
  BY <1>0, <1>a, <1>e
     DEF GatePendingDoes, WorkKept, CountsKept, PhaseOK, WorkOK, Active
<1>6. RequestsOK(r)'
  <2>1. conv[r] # NoConv => /\ conv'[r] # NoConv
                            /\ Bat(Saved(r)').batch = Bat(Saved(r)).batch
    BY <1>0, <1>a, <1>e, <1>c
       DEF GatePendingDoes, WorkKept, CountsKept, WorkOK, SavedOK, PhaseOK, Begun
  <2>2. ex'[r].next \in Nat /\ ex'[r].next >= ex[r].next /\ ex'[r].pc # "save"
    BY <1>0, <1>a, <1>e DEF GatePendingDoes, WorkKept, CountsKept, FieldsOK
  <2>3. appr' = appr
    BY <1>e DEF GatePendingDoes
  <2> QED  BY <1>0, <1>a, <1>b, <2>1, <2>2, <2>3, RequestsKept
<1>7. GrantsOK(r)'
  <2>1. \A b, j : Granted(r, b, j)' <=> Granted(r, b, j)
    BY <1>e DEF GatePendingDoes, Granted
  <2> QED  BY <1>0, <1>a, <1>e, <1>b, <1>c, <2>1
           DEF GatePendingDoes, WorkKept, CountsKept, GrantsOK, WorkOK,
               PhaseOK, Active, Begun
<1>8. GatedNeedsApproval'
  BY <1>0, <1>e DEF GatePendingDoes, GatedNeedsApproval
<1>9. UNCHANGED run
  BY <1>e DEF GatePendingDoes
<1> QED  BY <1>1, <1>2, <1>3, <1>4, <1>5, <1>6, <1>7, <1>8, <1>9, ExecutorStep
            DEF RunOK

(* Pending calls are dispatched: ResumePending keeps the invariant. *)
LEMMA ResumePendingKeeps ==
    ASSUME LoopInv, NEW r \in Runs, ResumePending(r)
    PROVE  LoopInv'
<1>0. /\ Types /\ SavedOK(r) /\ WorkOK(r) /\ PhaseOK(r) /\ RequestsOK(r)
      /\ GrantsOK(r) /\ GatedNeedsApproval /\ FieldsOK(r) /\ batches \in Nat
  BY Facts
<1>e. ResumePendingDoes(r)
  BY <1>0, ResumePendingEffect
<1>a. Active(r)
  BY <1>e DEF Active, ResumePendingDoes
<1> DEFINE s == Step("control", ex[r].next, ex[r].ref, 0, "completed", {}, 0)
<1> HIDE DEF s
<1>c. conv' = conv /\ conv' \in [Runs -> Conversations] /\ Saved(r)' = Saved(r)
  BY <1>0, <1>e DEF ResumePendingDoes, Types, Saved
<1>s. s \in Steps
  BY <1>0 DEF FieldsOK, Steps, Step, Refs, NoRef, s
<1>t. AddsStep(r, s) /\ s.idx = ex[r].next
  BY <1>0, <1>a, <1>e DEF ResumePendingDoes, Step, s
<1>b. /\ steps' \in [Runs -> Seq(Steps)]
      /\ \A q \in Runs \ {r} : steps'[q] = steps[q]
      /\ Len(steps[r]) \in Nat /\ Len(steps'[r]) = Len(steps[r]) + 1
      /\ steps'[r][Len(steps[r]) + 1] = s
  BY <1>0, <1>s, <1>t, StepAdded
<1>1. OfRun(r)
  BY <1>0, <1>e, <1>b, <1>c DEF ResumePendingDoes, OfRun, Frame
<1>2. Types'
  <2>1. FieldsOK(r)'
    BY <1>0, <1>a, <1>e
       DEF ResumePendingDoes, WorkKept, CountsKept, FieldsOK, Pcs, Refs,
           Statuses, Terminal
  <2>2. /\ appr' \in [Runs -> Seq(Approvals)] /\ batches' \in Nat
        /\ \A e \in effects' : e.run \in Runs
    BY <1>0, <1>e DEF ResumePendingDoes, Types
  <2> QED  BY <1>0, <1>e, <1>b, <1>c, <2>1, <2>2, TypesStep DEF ResumePendingDoes
<1>3. SavedOK(r)'
  BY <1>0, <1>a, <1>e, <1>c
     DEF ResumePendingDoes, WorkKept, CountsKept, SavedOK, WorkOK
<1>4. WorkOK(r)'
  BY <1>0, <1>a, <1>e, <1>c
     DEF ResumePendingDoes, WorkKept, CountsKept, WorkOK, PhaseOK, Active
<1>5. PhaseOK(r)'
  BY <1>0, <1>a, <1>e
     DEF ResumePendingDoes, WorkKept, CountsKept, PhaseOK, WorkOK, Active
<1>6. RequestsOK(r)'
  <2>1. /\ s.kind = "approval" => conv[r] # NoConv
        /\ ex'[r].pc = "save" => s.kind = "model"
        /\ appr' = appr /\ conv' = conv
        /\ \/ ex'[r].next = ex[r].next + 1
           \/ ex'[r].next = ex[r].next /\ s.kind # "approval"
    BY <1>0, <1>e, <1>a
       DEF ResumePendingDoes, WorkKept, CountsKept, Step, s, GrantsOK
  <2> QED  BY <1>0, <1>a, <1>s, <1>t, <2>1, RequestsAdd
<1>7. GrantsOK(r)'
  <2>1. \A b, j : Granted(r, b, j)' <=> Granted(r, b, j)
    BY <1>e DEF ResumePendingDoes, Granted
  <2> QED  BY <1>0, <1>a, <1>e, <1>b, <1>c, <2>1
           DEF ResumePendingDoes, WorkKept, CountsKept, GrantsOK, WorkOK,
               PhaseOK, Active, Step, s, AnyGated, Bat
<1>8. GatedNeedsApproval'
  BY <1>0, <1>e DEF ResumePendingDoes, GatedNeedsApproval
<1>9. UNCHANGED run
  BY <1>e DEF ResumePendingDoes
<1> QED  BY <1>1, <1>2, <1>3, <1>4, <1>5, <1>6, <1>7, <1>8, <1>9, ExecutorStep
            DEF RunOK

(* The approval step: AwaitApproval keeps the invariant. *)
LEMMA AwaitApprovalKeeps ==
    ASSUME LoopInv, NEW r \in Runs, AwaitApproval(r)
    PROVE  LoopInv'
<1>0. /\ Types /\ SavedOK(r) /\ WorkOK(r) /\ PhaseOK(r) /\ RequestsOK(r)
      /\ GrantsOK(r) /\ GatedNeedsApproval /\ FieldsOK(r) /\ batches \in Nat
  BY Facts
<1>e. AwaitApprovalDoes(r)
  BY <1>0, AwaitApprovalEffect
<1>a. Active(r)
  BY <1>e DEF Active, AwaitApprovalDoes
<1> DEFINE s == Step("approval", ex[r].next, ex[r].ref, 0, "awaiting_approval",
                     ex[r].pending, 0)
<1> HIDE DEF s
<1>c. conv' = conv /\ conv' \in [Runs -> Conversations] /\ Saved(r)' = Saved(r)
  BY <1>0, <1>e DEF AwaitApprovalDoes, Types, Saved
<1>s. s \in Steps
  BY <1>0 DEF FieldsOK, Steps, Step, Refs, NoRef, s
<1>t. AddsStep(r, s) /\ s.idx = ex[r].next
  BY <1>0, <1>a, <1>e DEF AwaitApprovalDoes, Step, s
<1>b. /\ steps' \in [Runs -> Seq(Steps)]
      /\ \A q \in Runs \ {r} : steps'[q] = steps[q]
      /\ Len(steps[r]) \in Nat /\ Len(steps'[r]) = Len(steps[r]) + 1
      /\ steps'[r][Len(steps[r]) + 1] = s
  BY <1>0, <1>s, <1>t, StepAdded
<1>1. OfRun(r)
  BY <1>0, <1>e, <1>b, <1>c DEF AwaitApprovalDoes, OfRun, Frame
<1>2. Types'
  <2>1. FieldsOK(r)'
    BY <1>0, <1>a, <1>e
       DEF AwaitApprovalDoes, WorkKept, CountsKept, FieldsOK, Pcs, Refs,
           Statuses, Terminal
  <2>2. /\ appr' \in [Runs -> Seq(Approvals)] /\ batches' \in Nat
        /\ \A e \in effects' : e.run \in Runs
    BY <1>0, <1>e DEF AwaitApprovalDoes, Types
  <2> QED  BY <1>0, <1>e, <1>b, <1>c, <2>1, <2>2, TypesStep DEF AwaitApprovalDoes
<1>3. SavedOK(r)'
  BY <1>0, <1>a, <1>e, <1>c
     DEF AwaitApprovalDoes, WorkKept, CountsKept, SavedOK, WorkOK
<1>4. WorkOK(r)'
  BY <1>0, <1>a, <1>e, <1>c
     DEF AwaitApprovalDoes, WorkKept, CountsKept, WorkOK, PhaseOK, Active
<1>5. PhaseOK(r)'
  BY <1>0, <1>a, <1>e
     DEF AwaitApprovalDoes, WorkKept, CountsKept, PhaseOK, WorkOK, Active
<1>6. RequestsOK(r)'
  <2>1. /\ s.kind = "approval" => conv[r] # NoConv
        /\ ex'[r].pc = "save" => s.kind = "model"
        /\ appr' = appr /\ conv' = conv
        /\ \/ ex'[r].next = ex[r].next + 1
           \/ ex'[r].next = ex[r].next /\ s.kind # "approval"
    BY <1>0, <1>e, <1>a
       DEF AwaitApprovalDoes, WorkKept, CountsKept, Step, s, GrantsOK
  <2> QED  BY <1>0, <1>a, <1>s, <1>t, <2>1, RequestsAdd
<1>7. GrantsOK(r)'
  <2>1. \A b, j : Granted(r, b, j)' <=> Granted(r, b, j)
    BY <1>e DEF AwaitApprovalDoes, Granted
  <2> QED  BY <1>0, <1>a, <1>e, <1>b, <1>c, <2>1
           DEF AwaitApprovalDoes, WorkKept, CountsKept, GrantsOK, WorkOK,
               PhaseOK, Active, Step, s
<1>8. GatedNeedsApproval'
  BY <1>0, <1>e DEF AwaitApprovalDoes, GatedNeedsApproval
<1>9. UNCHANGED run
  BY <1>e DEF AwaitApprovalDoes
<1> QED  BY <1>1, <1>2, <1>3, <1>4, <1>5, <1>6, <1>7, <1>8, <1>9, ExecutorStep
            DEF RunOK

(* The model step: SaveModelStep keeps the invariant. *)
LEMMA SaveModelStepKeeps ==
    ASSUME LoopInv, NEW r \in Runs, SaveModelStep(r)
    PROVE  LoopInv'
<1>0. /\ Types /\ SavedOK(r) /\ WorkOK(r) /\ PhaseOK(r) /\ RequestsOK(r)
      /\ GrantsOK(r) /\ GatedNeedsApproval /\ FieldsOK(r) /\ batches \in Nat
  BY Facts
<1>e. SaveModelStepDoes(r)
  BY <1>0, SaveModelStepEffect
<1>a. Active(r)
  BY <1>e DEF Active, SaveModelStepDoes
<1> DEFINE s == Step("model", ex[r].next, <<r, ex[r].count + 1>>, 0, "completed", {},
                     ex[r].spent + 1)
<1> HIDE DEF s
<1>c. conv' = conv /\ conv' \in [Runs -> Conversations] /\ Saved(r)' = Saved(r)
  BY <1>0, <1>e DEF SaveModelStepDoes, Types, Saved
<1>s. s \in Steps
  BY <1>0, RunsNat DEF FieldsOK, Steps, Step, Refs, NoRef, s
<1>t. AddsStep(r, s) /\ s.idx = ex[r].next
  BY <1>0, <1>a, <1>e DEF SaveModelStepDoes, Step, s
<1>b. /\ steps' \in [Runs -> Seq(Steps)]
      /\ \A q \in Runs \ {r} : steps'[q] = steps[q]
      /\ Len(steps[r]) \in Nat /\ Len(steps'[r]) = Len(steps[r]) + 1
      /\ steps'[r][Len(steps[r]) + 1] = s
  BY <1>0, <1>s, <1>t, StepAdded
<1>1. OfRun(r)
  BY <1>0, <1>e, <1>b, <1>c DEF SaveModelStepDoes, OfRun, Frame
<1>2. Types'
  <2>1. FieldsOK(r)'
    <3>1. /\ ex'[r].pc = "save" /\ ex'[r].out \in Messages
          /\ ex'[r].spent \in Nat /\ ex'[r].count \in Nat /\ ex'[r].next \in Nat
      BY <1>0, <1>e DEF SaveModelStepDoes, FieldsOK
    <3>2. WorkKept(r)
      BY <1>e DEF SaveModelStepDoes
    <3> QED  BY <1>0, <3>1, <3>2 DEF WorkKept, FieldsOK, Pcs
  <2>2. /\ appr' \in [Runs -> Seq(Approvals)] /\ batches' \in Nat
        /\ \A e \in effects' : e.run \in Runs
    BY <1>0, <1>e DEF SaveModelStepDoes, Types
  <2> QED  BY <1>0, <1>e, <1>b, <1>c, <2>1, <2>2, TypesStep DEF SaveModelStepDoes
<1>3. SavedOK(r)'
  BY <1>0, <1>a, <1>e, <1>c
     DEF SaveModelStepDoes, WorkKept, CountsKept, SavedOK, WorkOK
<1>4. WorkOK(r)'
  BY <1>0, <1>a, <1>e, <1>c
     DEF SaveModelStepDoes, WorkKept, CountsKept, WorkOK, PhaseOK, Active
<1>5. PhaseOK(r)'
  BY <1>0, <1>a, <1>e
     DEF SaveModelStepDoes, WorkKept, CountsKept, PhaseOK, WorkOK, Active
<1>6. RequestsOK(r)'
  <2>1. /\ s.kind = "approval" => conv[r] # NoConv
        /\ ex'[r].pc = "save" => s.kind = "model"
        /\ appr' = appr /\ conv' = conv
        /\ \/ ex'[r].next = ex[r].next + 1
           \/ ex'[r].next = ex[r].next /\ s.kind # "approval"
    BY <1>0, <1>e, <1>a
       DEF SaveModelStepDoes, WorkKept, CountsKept, Step, s, GrantsOK
  <2> QED  BY <1>0, <1>a, <1>s, <1>t, <2>1, RequestsAdd
<1>7. GrantsOK(r)'
  <2>1. \A b, j : Granted(r, b, j)' <=> Granted(r, b, j)
    BY <1>e DEF SaveModelStepDoes, Granted
  <2> QED  BY <1>0, <1>a, <1>e, <1>b, <1>c, <2>1
           DEF SaveModelStepDoes, WorkKept, CountsKept, GrantsOK, WorkOK,
               PhaseOK, Active, Step, s
<1>8. GatedNeedsApproval'
  BY <1>0, <1>e DEF SaveModelStepDoes, GatedNeedsApproval
<1>9. UNCHANGED run
  BY <1>e DEF SaveModelStepDoes
<1> QED  BY <1>1, <1>2, <1>3, <1>4, <1>5, <1>6, <1>7, <1>8, <1>9, ExecutorStep
            DEF RunOK

(* The intent to dispatch: SaveIntent keeps the invariant. *)
LEMMA SaveIntentKeeps ==
    ASSUME LoopInv, NEW r \in Runs, SaveIntent(r)
    PROVE  LoopInv'
<1>0. /\ Types /\ SavedOK(r) /\ WorkOK(r) /\ PhaseOK(r) /\ RequestsOK(r)
      /\ GrantsOK(r) /\ GatedNeedsApproval /\ FieldsOK(r) /\ batches \in Nat
  BY Facts
<1>e. SaveIntentDoes(r)
  BY <1>0, SaveIntentEffect
<1>a. Active(r)
  BY <1>e DEF Active, SaveIntentDoes
<1> DEFINE i == Min(ex[r].pending)
<1>f. i \in ex[r].pending /\ i \in Nat
  <2>1. ex[r].pending # {} /\ ex[r].pending \subseteq Nat
    BY <1>0, <1>e DEF SaveIntentDoes, PhaseOK, FieldsOK
  <2> QED  BY <2>1, MinNat
<1> HIDE DEF i
<1> DEFINE s == Step("tool", ex[r].next, ex[r].ref, i, "running", {}, 0)
<1> HIDE DEF s
<1>c. conv' = conv /\ conv' \in [Runs -> Conversations] /\ Saved(r)' = Saved(r)
  BY <1>0, <1>e DEF SaveIntentDoes, Types, Saved
<1>s. s \in Steps
  BY <1>0, <1>f DEF FieldsOK, Steps, Step, Refs, NoRef, s
<1>t. AddsStep(r, s) /\ s.idx = ex[r].next
  BY <1>0, <1>a, <1>e, <1>f DEF SaveIntentDoes, Step, s, i
<1>b. /\ steps' \in [Runs -> Seq(Steps)]
      /\ \A q \in Runs \ {r} : steps'[q] = steps[q]
      /\ Len(steps[r]) \in Nat /\ Len(steps'[r]) = Len(steps[r]) + 1
      /\ steps'[r][Len(steps[r]) + 1] = s
  BY <1>0, <1>s, <1>t, StepAdded
<1>1. OfRun(r)
  BY <1>0, <1>e, <1>b, <1>c DEF SaveIntentDoes, OfRun, Frame
<1>2. Types'
  <2>1. FieldsOK(r)'
    BY <1>0, <1>a, <1>e, <1>f, SMTT(40)
       DEF SaveIntentDoes, WorkKept, CountsKept, FieldsOK, Pcs, Refs,
           Statuses, Terminal, i
  <2>2. /\ appr' \in [Runs -> Seq(Approvals)] /\ batches' \in Nat
        /\ \A e \in effects' : e.run \in Runs
    BY <1>0, <1>e DEF SaveIntentDoes, Types
  <2> QED  BY <1>0, <1>e, <1>b, <1>c, <2>1, <2>2, TypesStep DEF SaveIntentDoes
<1>3. SavedOK(r)'
  BY <1>0, <1>a, <1>e, <1>f, <1>c
     DEF SaveIntentDoes, WorkKept, CountsKept, SavedOK, WorkOK
<1>4. WorkOK(r)'
  BY <1>0, <1>a, <1>e, <1>f, <1>c
     DEF SaveIntentDoes, WorkKept, CountsKept, WorkOK, PhaseOK, Active, i
<1>5. PhaseOK(r)'
  BY <1>0, <1>a, <1>e, <1>f
     DEF SaveIntentDoes, WorkKept, CountsKept, PhaseOK, WorkOK, Active, i
<1>6. RequestsOK(r)'
  <2>1. /\ s.kind = "approval" => conv[r] # NoConv
        /\ ex'[r].pc = "save" => s.kind = "model"
        /\ appr' = appr /\ conv' = conv
        /\ \/ ex'[r].next = ex[r].next + 1
           \/ ex'[r].next = ex[r].next /\ s.kind # "approval"
    BY <1>0, <1>e, <1>a
       DEF SaveIntentDoes, WorkKept, CountsKept, Step, s, GrantsOK
  <2> QED  BY <1>0, <1>a, <1>s, <1>t, <2>1, RequestsAdd
<1>7. GrantsOK(r)'
  <2>1. \A b, j : Granted(r, b, j)' <=> Granted(r, b, j)
    BY <1>e DEF SaveIntentDoes, Granted
  <2> QED  BY <1>0, <1>a, <1>e, <1>f, <1>b, <1>c, <2>1
           DEF SaveIntentDoes, WorkKept, CountsKept, GrantsOK, WorkOK,
               PhaseOK, Active, Step, s, i
<1>8. GatedNeedsApproval'
  BY <1>0, <1>e DEF SaveIntentDoes, GatedNeedsApproval
<1>9. UNCHANGED run
  BY <1>e DEF SaveIntentDoes
<1> QED  BY <1>1, <1>2, <1>3, <1>4, <1>5, <1>6, <1>7, <1>8, <1>9, ExecutorStep
            DEF RunOK

(* The outcome of a dispatch: FinalizeStep keeps the invariant. *)
LEMMA FinalizeStepKeeps ==
    ASSUME LoopInv, NEW r \in Runs, FinalizeStep(r)
    PROVE  LoopInv'
<1>0. /\ Types /\ SavedOK(r) /\ WorkOK(r) /\ PhaseOK(r) /\ RequestsOK(r)
      /\ GrantsOK(r) /\ GatedNeedsApproval /\ FieldsOK(r) /\ batches \in Nat
  BY Facts
<1>e. FinalizeStepDoes(r)
  BY <1>0, FinalizeStepEffect
<1>a. Active(r)
  BY <1>e DEF Active, FinalizeStepDoes
<1>c. conv' = conv /\ conv' \in [Runs -> Conversations] /\ Saved(r)' = Saved(r)
  BY <1>0, <1>e DEF FinalizeStepDoes, Types, Saved
<1>b. /\ steps' \in [Runs -> Seq(Steps)] /\ SameSteps(r)
      /\ \A q \in Runs \ {r} : steps'[q] = steps[q]
  <2>1. Len(steps[r]) \in DOMAIN steps[r]
    BY <1>0, <1>e, StepTypes DEF FinalizeStepDoes, GrantsOK
  <2> QED  BY <1>0, <1>e, <2>1, StatusSet DEF FinalizeStepDoes
<1>1. OfRun(r)
  BY <1>0, <1>e, <1>b, <1>c DEF FinalizeStepDoes, OfRun, Frame
<1>2. Types'
  <2>1. FieldsOK(r)'
    BY <1>0, <1>a, <1>e
       DEF FinalizeStepDoes, WorkKept, CountsKept, FieldsOK, Pcs, Refs,
           Statuses, Terminal
  <2>2. /\ appr' \in [Runs -> Seq(Approvals)] /\ batches' \in Nat
        /\ \A e \in effects' : e.run \in Runs
    BY <1>0, <1>e DEF FinalizeStepDoes, Types
  <2> QED  BY <1>0, <1>e, <1>b, <1>c, <2>1, <2>2, TypesStep DEF FinalizeStepDoes
<1>3. SavedOK(r)'
  BY <1>0, <1>a, <1>e, <1>c
     DEF FinalizeStepDoes, WorkKept, CountsKept, SavedOK, WorkOK
<1>4. WorkOK(r)'
  BY <1>0, <1>a, <1>e, <1>c
     DEF FinalizeStepDoes, WorkKept, CountsKept, WorkOK, PhaseOK, Active
<1>5. PhaseOK(r)'
  BY <1>0, <1>a, <1>e
     DEF FinalizeStepDoes, WorkKept, CountsKept, PhaseOK, WorkOK, Active
<1>6. RequestsOK(r)'
  <2>1. conv[r] # NoConv => /\ conv'[r] # NoConv
                            /\ Bat(Saved(r)').batch = Bat(Saved(r)).batch
    BY <1>0, <1>a, <1>e, <1>c
       DEF FinalizeStepDoes, WorkKept, CountsKept, WorkOK, SavedOK, PhaseOK, Begun
  <2>2. ex'[r].next \in Nat /\ ex'[r].next >= ex[r].next /\ ex'[r].pc # "save"
    BY <1>0, <1>a, <1>e DEF FinalizeStepDoes, WorkKept, CountsKept, FieldsOK
  <2>3. appr' = appr
    BY <1>e DEF FinalizeStepDoes
  <2> QED  BY <1>0, <1>a, <1>b, <2>1, <2>2, <2>3, RequestsKept
<1>7. GrantsOK(r)'
  <2>1. \A b, j : Granted(r, b, j)' <=> Granted(r, b, j)
    BY <1>e DEF FinalizeStepDoes, Granted
  <2> QED  BY <1>0, <1>a, <1>e, <1>b, <1>c, <2>1
           DEF FinalizeStepDoes, WorkKept, CountsKept, GrantsOK, WorkOK,
               PhaseOK, Active
<1>8. GatedNeedsApproval'
  BY <1>0, <1>e DEF FinalizeStepDoes, GatedNeedsApproval
<1>9. UNCHANGED run
  BY <1>e DEF FinalizeStepDoes
<1> QED  BY <1>1, <1>2, <1>3, <1>4, <1>5, <1>6, <1>7, <1>8, <1>9, ExecutorStep
            DEF RunOK

(* A failure: failedFromError keeps the invariant. *)
LEMMA failedFromErrorKeeps ==
    ASSUME LoopInv, NEW r \in Runs, failedFromError(r)
    PROVE  LoopInv'
<1>0. /\ Types /\ SavedOK(r) /\ WorkOK(r) /\ PhaseOK(r) /\ RequestsOK(r)
      /\ GrantsOK(r) /\ GatedNeedsApproval /\ FieldsOK(r) /\ batches \in Nat
  BY Facts
<1>e. failedFromErrorDoes(r)
  BY <1>0, failedFromErrorEffect
<1>a. Active(r)
  BY <1>e DEF Active, failedFromErrorDoes
<1> DEFINE s == Step("failure", ex[r].next, NoRef, 0, "failed", {}, 0)
<1> HIDE DEF s
<1>c. conv' = conv /\ conv' \in [Runs -> Conversations] /\ Saved(r)' = Saved(r)
  BY <1>0, <1>e DEF failedFromErrorDoes, Types, Saved
<1>s. s \in Steps
  BY <1>0 DEF FieldsOK, Steps, Step, Refs, NoRef, s
<1>t. AddsStep(r, s) /\ s.idx = ex[r].next
  BY <1>0, <1>a, <1>e DEF failedFromErrorDoes, Step, s
<1>b. /\ steps' \in [Runs -> Seq(Steps)]
      /\ \A q \in Runs \ {r} : steps'[q] = steps[q]
      /\ Len(steps[r]) \in Nat /\ Len(steps'[r]) = Len(steps[r]) + 1
      /\ steps'[r][Len(steps[r]) + 1] = s
  BY <1>0, <1>s, <1>t, StepAdded
<1>1. OfRun(r)
  BY <1>0, <1>e, <1>b, <1>c DEF failedFromErrorDoes, OfRun, Frame
<1>2. Types'
  <2>1. FieldsOK(r)'
    BY <1>0, <1>a, <1>e
       DEF failedFromErrorDoes, WorkKept, CountsKept, FieldsOK, Pcs, Refs,
           Statuses, Terminal
  <2>2. /\ appr' \in [Runs -> Seq(Approvals)] /\ batches' \in Nat
        /\ \A e \in effects' : e.run \in Runs
    BY <1>0, <1>e DEF failedFromErrorDoes, Types
  <2> QED  BY <1>0, <1>e, <1>b, <1>c, <2>1, <2>2, TypesStep
              DEF failedFromErrorDoes
<1>3. SavedOK(r)'
  BY <1>0, <1>a, <1>e, <1>c
     DEF failedFromErrorDoes, WorkKept, CountsKept, SavedOK, WorkOK
<1>4. WorkOK(r)'
  BY <1>0, <1>a, <1>e, <1>c
     DEF failedFromErrorDoes, WorkKept, CountsKept, WorkOK, PhaseOK, Active
<1>5. PhaseOK(r)'
  BY <1>0, <1>a, <1>e
     DEF failedFromErrorDoes, WorkKept, CountsKept, PhaseOK, WorkOK, Active
<1>6. RequestsOK(r)'
  <2>1. /\ s.kind = "approval" => conv[r] # NoConv
        /\ ex'[r].pc = "save" => s.kind = "model"
        /\ appr' = appr /\ conv' = conv
        /\ \/ ex'[r].next = ex[r].next + 1
           \/ ex'[r].next = ex[r].next /\ s.kind # "approval"
    BY <1>0, <1>e, <1>a
       DEF failedFromErrorDoes, WorkKept, CountsKept, Step, s, GrantsOK
  <2> QED  BY <1>0, <1>a, <1>s, <1>t, <2>1, RequestsAdd
<1>7. GrantsOK(r)'
  <2>1. \A b, j : Granted(r, b, j)' <=> Granted(r, b, j)
    BY <1>e DEF failedFromErrorDoes, Granted
  <2> QED  BY <1>0, <1>a, <1>e, <1>b, <1>c, <2>1
           DEF failedFromErrorDoes, WorkKept, CountsKept, GrantsOK, WorkOK,
               PhaseOK, Active, Step, s
<1>8. GatedNeedsApproval'
  BY <1>0, <1>e DEF failedFromErrorDoes, GatedNeedsApproval
<1>9. UNCHANGED run
  BY <1>e DEF failedFromErrorDoes
<1> QED  BY <1>1, <1>2, <1>3, <1>4, <1>5, <1>6, <1>7, <1>8, <1>9, ExecutorStep
            DEF RunOK

(* A call that never started is closed: CloseSuperseded keeps the          *)
(* invariant.                                                              *)
LEMMA CloseSupersededKeeps ==
    ASSUME LoopInv, NEW r \in Runs, CloseSuperseded(r)
    PROVE  LoopInv'
<1>0. /\ Types /\ SavedOK(r) /\ WorkOK(r) /\ PhaseOK(r) /\ RequestsOK(r)
      /\ GrantsOK(r) /\ GatedNeedsApproval /\ FieldsOK(r) /\ batches \in Nat
  BY Facts
<1>e. CloseSupersededDoes(r)
  BY <1>0, CloseSupersededEffect
<1>a. Active(r)
  BY <1>e DEF Active, CloseSupersededDoes
<1> DEFINE i == Min(ex[r].pending)
           u == Append(ex[r].msgs, ToolResult(CurrentBatch(r), i, "superseded"))
<1>f. /\ i \in ex[r].pending /\ i \in ex[r].pending /\ i \in Nat
      /\ Good(u) /\ Upto(u, batches) /\ Begun(u) /\ u \in Seq(Messages)
      /\ Bat(u) = Bat(ex[r].msgs)
      /\ Pend(u) = ex[r].pending \ {i}
  <2>1. ex[r].pending # {} /\ ex[r].pending \subseteq ex[r].pending /\ "superseded" \in Sayings
    BY <1>0, <1>e DEF CloseSupersededDoes, PhaseOK, Sayings
  <2> QED  BY <1>a, <2>1, FirstClosed
<1>g. ex'[r].msgs = u /\ ex'[r].pending = ex[r].pending \ {i}
  BY <1>e DEF CloseSupersededDoes
<1> HIDE DEF i, u
<1>c. conv' = conv /\ conv' \in [Runs -> Conversations] /\ Saved(r)' = Saved(r)
  BY <1>0, <1>e DEF CloseSupersededDoes, Types, Saved
<1>b. steps' = steps /\ steps' \in [Runs -> Seq(Steps)] /\ SameSteps(r)
  BY <1>0, <1>e DEF CloseSupersededDoes, Types, SameSteps
<1>1. OfRun(r)
  BY <1>0, <1>e, <1>b, <1>c DEF CloseSupersededDoes, OfRun, Frame
<1>2. Types'
  <2>1. FieldsOK(r)'
    BY <1>0, <1>a, <1>e, <1>f, <1>g
       DEF CloseSupersededDoes, WorkKept, CountsKept, FieldsOK, Pcs, Refs,
           Statuses, Terminal
  <2>2. /\ appr' \in [Runs -> Seq(Approvals)] /\ batches' \in Nat
        /\ \A e \in effects' : e.run \in Runs
    BY <1>0, <1>e DEF CloseSupersededDoes, Types
  <2> QED  BY <1>0, <1>e, <1>b, <1>c, <2>1, <2>2, TypesStep
              DEF CloseSupersededDoes
<1>3. SavedOK(r)'
  BY <1>0, <1>a, <1>e, <1>f, <1>g, <1>c
     DEF CloseSupersededDoes, WorkKept, CountsKept, SavedOK, WorkOK
<1>4. WorkOK(r)'
  BY <1>0, <1>a, <1>e, <1>f, <1>g, <1>c
     DEF CloseSupersededDoes, WorkKept, CountsKept, WorkOK, PhaseOK, Active
<1>5. PhaseOK(r)'
  BY <1>0, <1>a, <1>e, <1>f, <1>g
     DEF CloseSupersededDoes, WorkKept, CountsKept, PhaseOK, WorkOK, Active
<1>6. RequestsOK(r)'
  <2>1. conv[r] # NoConv => /\ conv'[r] # NoConv
                            /\ Bat(Saved(r)').batch = Bat(Saved(r)).batch
    BY <1>0, <1>a, <1>e, <1>f, <1>g, <1>c
       DEF CloseSupersededDoes, WorkKept, CountsKept, WorkOK, SavedOK,
           PhaseOK, Begun
  <2>2. ex'[r].next \in Nat /\ ex'[r].next >= ex[r].next /\ ex'[r].pc # "save"
    BY <1>0, <1>a, <1>e, <1>f, <1>g
       DEF CloseSupersededDoes, WorkKept, CountsKept, FieldsOK
  <2>3. appr' = appr
    BY <1>e DEF CloseSupersededDoes
  <2> QED  BY <1>0, <1>a, <1>b, <2>1, <2>2, <2>3, RequestsKept
<1>7. GrantsOK(r)'
  <2>1. \A b, j : Granted(r, b, j)' <=> Granted(r, b, j)
    BY <1>e DEF CloseSupersededDoes, Granted
  <2> QED  BY <1>0, <1>a, <1>e, <1>f, <1>g, <1>b, <1>c, <2>1
           DEF CloseSupersededDoes, WorkKept, CountsKept, GrantsOK, WorkOK,
               PhaseOK, Active
<1>8. GatedNeedsApproval'
  BY <1>0, <1>e DEF CloseSupersededDoes, GatedNeedsApproval
<1>9. UNCHANGED run
  BY <1>e DEF CloseSupersededDoes
<1> QED  BY <1>1, <1>2, <1>3, <1>4, <1>5, <1>6, <1>7, <1>8, <1>9, ExecutorStep
            DEF RunOK

(* The result of a call: SaveToolResult keeps the invariant. *)
LEMMA SaveToolResultKeeps ==
    ASSUME LoopInv, NEW r \in Runs, SaveToolResult(r)
    PROVE  LoopInv'
<1>0. /\ Types /\ SavedOK(r) /\ WorkOK(r) /\ PhaseOK(r) /\ RequestsOK(r)
      /\ GrantsOK(r) /\ GatedNeedsApproval /\ FieldsOK(r) /\ batches \in Nat
  BY Facts
<1>e. SaveToolResultDoes(r)
  BY <1>0, SaveToolResultEffect
<1>a. Active(r)
  BY <1>e DEF Active, SaveToolResultDoes
<1> DEFINE i == Min(ex[r].pending)
           u == Append(ex[r].msgs, ToolResult(CurrentBatch(r), i, "result"))
<1>f. /\ i \in ex[r].pending /\ i \in ex[r].pending /\ i \in Nat
      /\ Good(u) /\ Upto(u, batches) /\ Begun(u) /\ u \in Seq(Messages)
      /\ Bat(u) = Bat(ex[r].msgs)
      /\ Pend(u) = ex[r].pending \ {i}
  <2>1. ex[r].pending # {} /\ ex[r].pending \subseteq ex[r].pending /\ "result" \in Sayings
    BY <1>0, <1>e DEF SaveToolResultDoes, PhaseOK, Sayings
  <2> QED  BY <1>a, <2>1, FirstClosed
<1>g. /\ ex'[r].msgs = u /\ ex'[r].pending = ex[r].pending \ {i}
      /\ SavesTo(r, u)
      /\ ex'[r].pc = IF ex[r].pending = {i} THEN "loop" ELSE "intent"
  BY <1>e DEF SaveToolResultDoes
<1> HIDE DEF i, u
<1>c. /\ conv' \in [Runs -> Conversations]
      /\ Saved(r)' = u /\ ~conv'[r].streaming
      /\ conv'[r] = NoConv <=> u = <<>>
      /\ \A q \in Runs \ {r} : conv'[q] = conv[q]
  BY <1>0, <1>a, <1>e, <1>f, <1>g, SavedTo DEF SaveToolResultDoes, FieldsOK
<1>b. steps' = steps /\ steps' \in [Runs -> Seq(Steps)] /\ SameSteps(r)
  BY <1>0, <1>e DEF SaveToolResultDoes, Types, SameSteps
<1>1. OfRun(r)
  BY <1>0, <1>e, <1>b, <1>c DEF SaveToolResultDoes, OfRun, Frame
<1>2. Types'
  <2>1. FieldsOK(r)'
    BY <1>0, <1>a, <1>e, <1>f, <1>g
       DEF SaveToolResultDoes, WorkKept, CountsKept, FieldsOK, Pcs, Refs,
           Statuses, Terminal
  <2>2. /\ appr' \in [Runs -> Seq(Approvals)] /\ batches' \in Nat
        /\ \A e \in effects' : e.run \in Runs
    BY <1>0, <1>e DEF SaveToolResultDoes, Types
  <2> QED  BY <1>0, <1>e, <1>b, <1>c, <2>1, <2>2, TypesStep DEF SaveToolResultDoes
<1>3. SavedOK(r)'
  BY <1>0, <1>a, <1>e, <1>f, <1>g, <1>c
     DEF SaveToolResultDoes, WorkKept, CountsKept, SavedOK, WorkOK
<1>4. WorkOK(r)'
  BY <1>0, <1>a, <1>e, <1>f, <1>g, <1>c
     DEF SaveToolResultDoes, WorkKept, CountsKept, WorkOK, PhaseOK, Active
<1>5. PhaseOK(r)'
  BY <1>0, <1>a, <1>e, <1>f, <1>g
     DEF SaveToolResultDoes, WorkKept, CountsKept, PhaseOK, WorkOK, Active
<1>6. RequestsOK(r)'
  <2>1. conv[r] # NoConv => /\ conv'[r] # NoConv
                            /\ Bat(Saved(r)').batch = Bat(Saved(r)).batch
    BY <1>0, <1>a, <1>e, <1>f, <1>g, <1>c
       DEF SaveToolResultDoes, WorkKept, CountsKept, WorkOK, SavedOK, PhaseOK,
           Begun
  <2>2. ex'[r].next \in Nat /\ ex'[r].next >= ex[r].next /\ ex'[r].pc # "save"
    BY <1>0, <1>a, <1>e, <1>f, <1>g
       DEF SaveToolResultDoes, WorkKept, CountsKept, FieldsOK
  <2>3. appr' = appr
    BY <1>e DEF SaveToolResultDoes
  <2> QED  BY <1>0, <1>a, <1>b, <2>1, <2>2, <2>3, RequestsKept
<1>7. GrantsOK(r)'
  <2>1. \A b, j : Granted(r, b, j)' <=> Granted(r, b, j)
    BY <1>e DEF SaveToolResultDoes, Granted
  <2> QED  BY <1>0, <1>a, <1>e, <1>f, <1>g, <1>b, <1>c, <2>1
           DEF SaveToolResultDoes, WorkKept, CountsKept, GrantsOK, WorkOK,
               PhaseOK, Active, Begun
<1>8. GatedNeedsApproval'
  BY <1>0, <1>e DEF SaveToolResultDoes, GatedNeedsApproval
<1>9. UNCHANGED run
  BY <1>e DEF SaveToolResultDoes
<1> QED  BY <1>1, <1>2, <1>3, <1>4, <1>5, <1>6, <1>7, <1>8, <1>9, ExecutorStep
            DEF RunOK

(* A recovered call gets an error result: RecoverToolResult keeps the      *)
(* invariant.                                                              *)
LEMMA RecoverToolResultKeeps ==
    ASSUME LoopInv, NEW r \in Runs, RecoverToolResult(r)
    PROVE  LoopInv'
<1>0. /\ Types /\ SavedOK(r) /\ WorkOK(r) /\ PhaseOK(r) /\ RequestsOK(r)
      /\ GrantsOK(r) /\ GatedNeedsApproval /\ FieldsOK(r) /\ batches \in Nat
  BY Facts
<1>e. RecoverToolResultDoes(r)
  BY <1>0, RecoverToolResultEffect
<1>a. Active(r)
  BY <1>e DEF Active, RecoverToolResultDoes
<1> DEFINE i == Min(ex[r].matches)
           u == Append(ex[r].msgs, ToolResult(CurrentBatch(r), i, "unknown"))
<1>f. /\ i \in ex[r].matches /\ i \in ex[r].pending /\ i \in Nat
      /\ Good(u) /\ Upto(u, batches) /\ Begun(u) /\ u \in Seq(Messages)
      /\ Bat(u) = Bat(ex[r].msgs)
      /\ Pend(u) = ex[r].pending \ {i}
  <2>1. ex[r].matches # {} /\ ex[r].matches \subseteq ex[r].pending /\ "unknown" \in Sayings
    BY <1>0, <1>e DEF RecoverToolResultDoes, PhaseOK, Sayings
  <2> QED  BY <1>a, <2>1, FirstClosed
<1>g. /\ ex'[r].msgs = u /\ ex'[r].pending = Pend(u)
      /\ ex'[r].matches = ex[r].matches \ {i}
      /\ IF ex[r].deferred THEN conv' = conv ELSE SavesTo(r, u)
      /\ ex'[r].pc = IF ex[r].matches = {i} THEN "normalize" ELSE "settle"
  BY <1>e DEF RecoverToolResultDoes
<1> HIDE DEF i, u
<1>c. /\ conv' \in [Runs -> Conversations]
      /\ \A q \in Runs \ {r} : conv'[q] = conv[q]
      /\ \/ ex[r].deferred /\ conv' = conv /\ Saved(r)' = Saved(r)
         \/ ~ex[r].deferred /\ Saved(r)' = u /\ (conv'[r] = NoConv <=> u = <<>>)
  <2>1. CASE ex[r].deferred
    BY <1>0, <1>g, <2>1 DEF Types, Saved
  <2>2. CASE ~ex[r].deferred
    BY <1>0, <1>f, <1>g, <2>2, SavedTo
  <2> QED  BY <2>1, <2>2
<1>b. steps' = steps /\ steps' \in [Runs -> Seq(Steps)] /\ SameSteps(r)
  BY <1>0, <1>e DEF RecoverToolResultDoes, Types, SameSteps
<1>1. OfRun(r)
  BY <1>0, <1>e, <1>b, <1>c DEF RecoverToolResultDoes, OfRun, Frame
<1>2. Types'
  <2>1. FieldsOK(r)'
    BY <1>0, <1>a, <1>e, <1>f, <1>g
       DEF RecoverToolResultDoes, WorkKept, CountsKept, FieldsOK, Pcs, Refs,
           Statuses, Terminal
  <2>2. /\ appr' \in [Runs -> Seq(Approvals)] /\ batches' \in Nat
        /\ \A e \in effects' : e.run \in Runs
    BY <1>0, <1>e DEF RecoverToolResultDoes, Types
  <2> QED  BY <1>0, <1>e, <1>b, <1>c, <2>1, <2>2, TypesStep
              DEF RecoverToolResultDoes
<1>3. SavedOK(r)'
  BY <1>0, <1>a, <1>e, <1>f, <1>g, <1>c
     DEF RecoverToolResultDoes, WorkKept, CountsKept, SavedOK, WorkOK
<1>4. WorkOK(r)'
  BY <1>0, <1>a, <1>e, <1>f, <1>g, <1>c
     DEF RecoverToolResultDoes, WorkKept, CountsKept, WorkOK, PhaseOK, Active
<1>5. PhaseOK(r)'
  BY <1>0, <1>a, <1>e, <1>f, <1>g
     DEF RecoverToolResultDoes, WorkKept, CountsKept, PhaseOK, WorkOK, Active
<1>6. RequestsOK(r)'
  <2>1. conv[r] # NoConv => /\ conv'[r] # NoConv
                            /\ Bat(Saved(r)').batch = Bat(Saved(r)).batch
    BY <1>0, <1>a, <1>e, <1>f, <1>g, <1>c
       DEF RecoverToolResultDoes, WorkKept, CountsKept, WorkOK, SavedOK,
           PhaseOK, Begun
  <2>2. ex'[r].next \in Nat /\ ex'[r].next >= ex[r].next /\ ex'[r].pc # "save"
    BY <1>0, <1>a, <1>e, <1>f, <1>g
       DEF RecoverToolResultDoes, WorkKept, CountsKept, FieldsOK
  <2>3. appr' = appr
    BY <1>e DEF RecoverToolResultDoes
  <2> QED  BY <1>0, <1>a, <1>b, <2>1, <2>2, <2>3, RequestsKept
<1>7. GrantsOK(r)'
  <2>1. \A b, j : Granted(r, b, j)' <=> Granted(r, b, j)
    BY <1>e DEF RecoverToolResultDoes, Granted
  <2> QED  BY <1>0, <1>a, <1>e, <1>f, <1>g, <1>b, <1>c, <2>1
           DEF RecoverToolResultDoes, WorkKept, CountsKept, GrantsOK, WorkOK,
               PhaseOK, Active, Begun
<1>8. GatedNeedsApproval'
  BY <1>0, <1>e DEF RecoverToolResultDoes, GatedNeedsApproval
<1>9. UNCHANGED run
  BY <1>e DEF RecoverToolResultDoes
<1> QED  BY <1>1, <1>2, <1>3, <1>4, <1>5, <1>6, <1>7, <1>8, <1>9, ExecutorStep
            DEF RunOK

(* The prompt of a continuation: AppendDeferredContinuation keeps the      *)
(* invariant.                                                              *)
LEMMA AppendDeferredContinuationKeeps ==
    ASSUME LoopInv, NEW r \in Runs, AppendDeferredContinuation(r)
    PROVE  LoopInv'
<1>0. /\ Types /\ SavedOK(r) /\ WorkOK(r) /\ PhaseOK(r) /\ RequestsOK(r)
      /\ GrantsOK(r) /\ GatedNeedsApproval /\ FieldsOK(r) /\ batches \in Nat
  BY Facts
<1>e. AppendDeferredContinuationDoes(r)
  BY <1>0, AppendDeferredContinuationEffect
<1>a. Active(r)
  BY <1>e DEF Active, AppendDeferredContinuationDoes
<1> DEFINE u == Append(ex[r].msgs, Prompt)
<1>f. /\ Good(u) /\ Upto(u, batches) /\ Begun(u) /\ u \in Seq(Messages)
      /\ Pend(u) = {}
  <2>1. /\ Good(ex[r].msgs) /\ Upto(ex[r].msgs, batches) /\ Begun(ex[r].msgs)
        /\ Pend(ex[r].msgs) = {}
    BY <1>0, <1>a, <1>e DEF AppendDeferredContinuationDoes, WorkOK
  <2>2. Good(u) /\ Upto(u, batches) /\ Begun(u) /\ Pend(u) = {}
    BY <1>0, <2>1, PromptAppended
  <2> QED  BY <2>2 DEF Good
<1>g. ex'[r].msgs = u /\ SavesTo(r, u)
  BY <1>e DEF AppendDeferredContinuationDoes
<1> HIDE DEF u
<1>c. /\ conv' \in [Runs -> Conversations]
      /\ Saved(r)' = u /\ ~conv'[r].streaming
      /\ conv'[r] = NoConv <=> u = <<>>
      /\ \A q \in Runs \ {r} : conv'[q] = conv[q]
  BY <1>0, <1>a, <1>e, <1>f, <1>g, SavedTo
     DEF AppendDeferredContinuationDoes, FieldsOK
<1>b. steps' = steps /\ steps' \in [Runs -> Seq(Steps)] /\ SameSteps(r)
  BY <1>0, <1>e DEF AppendDeferredContinuationDoes, Types, SameSteps
<1>1. OfRun(r)
  BY <1>0, <1>e, <1>b, <1>c DEF AppendDeferredContinuationDoes, OfRun, Frame
<1>2. Types'
  <2>1. FieldsOK(r)'
    BY <1>0, <1>a, <1>e, <1>f, <1>g
       DEF AppendDeferredContinuationDoes, WorkKept, CountsKept, FieldsOK,
           Pcs, Refs, Statuses, Terminal
  <2>2. /\ appr' \in [Runs -> Seq(Approvals)] /\ batches' \in Nat
        /\ \A e \in effects' : e.run \in Runs
    BY <1>0, <1>e DEF AppendDeferredContinuationDoes, Types
  <2> QED  BY <1>0, <1>e, <1>b, <1>c, <2>1, <2>2, TypesStep
              DEF AppendDeferredContinuationDoes
<1>3. SavedOK(r)'
  BY <1>0, <1>a, <1>e, <1>f, <1>g, <1>c
     DEF AppendDeferredContinuationDoes, WorkKept, CountsKept, SavedOK, WorkOK
<1>4. WorkOK(r)'
  BY <1>0, <1>a, <1>e, <1>f, <1>g, <1>c
     DEF AppendDeferredContinuationDoes, WorkKept, CountsKept, WorkOK,
         PhaseOK, Active
<1>5. PhaseOK(r)'
  BY <1>0, <1>a, <1>e, <1>f, <1>g
     DEF AppendDeferredContinuationDoes, WorkKept, CountsKept, PhaseOK,
         WorkOK, Active
<1>6. RequestsOK(r)'
  <2>1. conv[r] # NoConv => /\ conv'[r] # NoConv
                            /\ Bat(Saved(r)').batch = Bat(Saved(r)).batch
    BY <1>0, <1>a, <1>e, <1>f, <1>g, <1>c
       DEF AppendDeferredContinuationDoes, WorkKept, CountsKept, WorkOK,
           SavedOK, PhaseOK, Begun
  <2>2. ex'[r].next \in Nat /\ ex'[r].next >= ex[r].next /\ ex'[r].pc # "save"
    BY <1>0, <1>a, <1>e, <1>f, <1>g
       DEF AppendDeferredContinuationDoes, WorkKept, CountsKept, FieldsOK
  <2>3. appr' = appr
    BY <1>e DEF AppendDeferredContinuationDoes
  <2> QED  BY <1>0, <1>a, <1>b, <2>1, <2>2, <2>3, RequestsKept
<1>7. GrantsOK(r)'
  <2>1. \A b, j : Granted(r, b, j)' <=> Granted(r, b, j)
    BY <1>e DEF AppendDeferredContinuationDoes, Granted
  <2> QED  BY <1>0, <1>a, <1>e, <1>f, <1>g, <1>b, <1>c, <2>1
           DEF AppendDeferredContinuationDoes, WorkKept, CountsKept, GrantsOK,
               WorkOK, PhaseOK, Active, Begun
<1>8. GatedNeedsApproval'
  BY <1>0, <1>e DEF AppendDeferredContinuationDoes, GatedNeedsApproval
<1>9. UNCHANGED run
  BY <1>e DEF AppendDeferredContinuationDoes
<1> QED  BY <1>1, <1>2, <1>3, <1>4, <1>5, <1>6, <1>7, <1>8, <1>9, ExecutorStep
            DEF RunOK

(* A partial answer is saved: StreamPartial keeps the invariant. *)
LEMMA StreamPartialKeeps ==
    ASSUME LoopInv, NEW r \in Runs, StreamPartial(r)
    PROVE  LoopInv'
<1>0. /\ Types /\ SavedOK(r) /\ WorkOK(r) /\ PhaseOK(r) /\ RequestsOK(r)
      /\ GrantsOK(r) /\ GatedNeedsApproval /\ FieldsOK(r) /\ batches \in Nat
  BY Facts
<1>e. StreamPartialDoes(r)
  BY <1>0, StreamPartialEffect
<1>a. Active(r)
  BY <1>e DEF Active, StreamPartialDoes
<1>c. /\ conv' \in [Runs -> Conversations]
      /\ \A q \in Runs \ {r} : conv'[q] = conv[q]
      /\ Saved(r)' = ex[r].msgs /\ conv'[r] # NoConv
  <2> DEFINE x == Assistant(0, <<>>, "partial")
             c == [msgs |-> Append(ex[r].msgs, x), streaming |-> TRUE]
  <2>1. x \in Messages /\ ex[r].msgs \in Seq(Messages)
    <3>1. <<>> \in Seq(Kinds)  OBVIOUS
    <3> QED  BY <1>0, <3>1 DEF Assistant, Messages, Sayings, FieldsOK
  <2>2. conv' = [conv EXCEPT ![r] = c]
    BY <1>e DEF StreamPartialDoes
  <2> HIDE DEF x
  <2>3. c \in Conversations /\ c.streaming /\ c.msgs = Append(ex[r].msgs, x)
    BY <2>1 DEF Conversations
  <2> HIDE DEF c
  <2>4. conv' \in [Runs -> Conversations] /\ conv'[r] = c
        /\ \A q \in Runs \ {r} : conv'[q] = conv[q]
    BY <1>0, <2>2, <2>3 DEF Types
  <2>5. Front(Append(ex[r].msgs, x)) = ex[r].msgs
    BY <2>1, FrontAppend
  <2>6. ~NoConv.streaming
    BY DEF NoConv
  <2> QED  BY <2>3, <2>4, <2>5, <2>6 DEF Saved, completedConversationMessages
<1>b. steps' = steps /\ steps' \in [Runs -> Seq(Steps)] /\ SameSteps(r)
  BY <1>0, <1>e DEF StreamPartialDoes, Types, SameSteps
<1>1. OfRun(r)
  BY <1>0, <1>e, <1>b, <1>c DEF StreamPartialDoes, OfRun, Frame
<1>2. Types'
  BY <1>0, <1>e, <1>b, <1>c, Zenon
     DEF StreamPartialDoes, Types, FieldsOK, RunTypes
<1>3. SavedOK(r)'
  BY <1>0, <1>a, <1>e, <1>c
     DEF StreamPartialDoes, WorkKept, CountsKept, SavedOK, WorkOK
<1>4. WorkOK(r)'
  BY <1>0, <1>a, <1>e, <1>c
     DEF StreamPartialDoes, WorkKept, CountsKept, WorkOK, PhaseOK, Active
<1>5. PhaseOK(r)'
  BY <1>0, <1>a, <1>e
     DEF StreamPartialDoes, WorkKept, CountsKept, PhaseOK, WorkOK, Active
<1>6. RequestsOK(r)'
  <2>1. conv[r] # NoConv => /\ conv'[r] # NoConv
                            /\ Bat(Saved(r)').batch = Bat(Saved(r)).batch
    BY <1>0, <1>a, <1>e, <1>c
       DEF StreamPartialDoes, WorkKept, CountsKept, WorkOK, SavedOK, PhaseOK,
           Begun
  <2>2. ex'[r].next \in Nat /\ ex'[r].next >= ex[r].next /\ ex'[r].pc # "save"
    BY <1>0, <1>a, <1>e DEF StreamPartialDoes, WorkKept, CountsKept, FieldsOK
  <2>3. appr' = appr
    BY <1>e DEF StreamPartialDoes
  <2> QED  BY <1>0, <1>a, <1>b, <2>1, <2>2, <2>3, RequestsKept
<1>7. GrantsOK(r)'
  <2>1. \A b, j : Granted(r, b, j)' <=> Granted(r, b, j)
    BY <1>e DEF StreamPartialDoes, Granted
  <2> QED  BY <1>0, <1>a, <1>e, <1>b, <1>c, <2>1
           DEF StreamPartialDoes, WorkKept, CountsKept, GrantsOK, WorkOK,
               PhaseOK, Active, Begun
<1>8. GatedNeedsApproval'
  BY <1>0, <1>e DEF StreamPartialDoes, GatedNeedsApproval
<1>9. UNCHANGED run
  BY <1>e DEF StreamPartialDoes
<1> QED  BY <1>1, <1>2, <1>3, <1>4, <1>5, <1>6, <1>7, <1>8, <1>9, ExecutorStep
            DEF RunOK

(* A failed model call: ModelCallFails keeps the invariant. *)
LEMMA ModelCallFailsKeeps ==
    ASSUME LoopInv, NEW r \in Runs, ModelCallFails(r)
    PROVE  LoopInv'
<1>0. /\ Types /\ SavedOK(r) /\ WorkOK(r) /\ PhaseOK(r) /\ RequestsOK(r)
      /\ GrantsOK(r) /\ GatedNeedsApproval /\ FieldsOK(r) /\ batches \in Nat
  BY Facts
<1>e. ModelCallFailsDoes(r)
  BY <1>0, ModelCallFailsEffect
<1>a. Active(r)
  BY <1>e DEF Active, ModelCallFailsDoes
<1>c. /\ conv' \in [Runs -> Conversations]
      /\ Saved(r)' = ex[r].msgs /\ ~conv'[r].streaming
      /\ conv'[r] = NoConv <=> ex[r].msgs = <<>>
      /\ \A q \in Runs \ {r} : conv'[q] = conv[q]
  BY <1>0, <1>a, <1>e, SavedTo DEF ModelCallFailsDoes, FieldsOK
<1>b. steps' = steps /\ steps' \in [Runs -> Seq(Steps)] /\ SameSteps(r)
  BY <1>0, <1>e DEF ModelCallFailsDoes, Types, SameSteps
<1>1. OfRun(r)
  BY <1>0, <1>e, <1>b, <1>c DEF ModelCallFailsDoes, OfRun, Frame
<1>2. Types'
  <2>1. FieldsOK(r)'
    BY <1>0, <1>a, <1>e
       DEF ModelCallFailsDoes, WorkKept, CountsKept, FieldsOK, Pcs, Refs,
           Statuses, Terminal
  <2>2. /\ appr' \in [Runs -> Seq(Approvals)] /\ batches' \in Nat
        /\ \A e \in effects' : e.run \in Runs
    BY <1>0, <1>e DEF ModelCallFailsDoes, Types
  <2> QED  BY <1>0, <1>e, <1>b, <1>c, <2>1, <2>2, TypesStep DEF ModelCallFailsDoes
<1>3. SavedOK(r)'
  BY <1>0, <1>a, <1>e, <1>c
     DEF ModelCallFailsDoes, WorkKept, CountsKept, SavedOK, WorkOK
<1>4. WorkOK(r)'
  BY <1>0, <1>a, <1>e, <1>c
     DEF ModelCallFailsDoes, WorkKept, CountsKept, WorkOK, PhaseOK, Active
<1>5. PhaseOK(r)'
  BY <1>0, <1>a, <1>e
     DEF ModelCallFailsDoes, WorkKept, CountsKept, PhaseOK, WorkOK, Active
<1>6. RequestsOK(r)'
  <2>1. conv[r] # NoConv => /\ conv'[r] # NoConv
                            /\ Bat(Saved(r)').batch = Bat(Saved(r)).batch
    BY <1>0, <1>a, <1>e, <1>c
       DEF ModelCallFailsDoes, WorkKept, CountsKept, WorkOK, SavedOK, PhaseOK,
           Begun
  <2>2. ex'[r].next \in Nat /\ ex'[r].next >= ex[r].next /\ ex'[r].pc # "save"
    BY <1>0, <1>a, <1>e DEF ModelCallFailsDoes, WorkKept, CountsKept, FieldsOK
  <2>3. appr' = appr
    BY <1>e DEF ModelCallFailsDoes
  <2> QED  BY <1>0, <1>a, <1>b, <2>1, <2>2, <2>3, RequestsKept
<1>7. GrantsOK(r)'
  <2>1. \A b, j : Granted(r, b, j)' <=> Granted(r, b, j)
    BY <1>e DEF ModelCallFailsDoes, Granted
  <2> QED  BY <1>0, <1>a, <1>e, <1>b, <1>c, <2>1
           DEF ModelCallFailsDoes, WorkKept, CountsKept, GrantsOK, WorkOK,
               PhaseOK, Active, Begun
<1>8. GatedNeedsApproval'
  BY <1>0, <1>e DEF ModelCallFailsDoes, GatedNeedsApproval
<1>9. UNCHANGED run
  BY <1>e DEF ModelCallFailsDoes
<1> QED  BY <1>1, <1>2, <1>3, <1>4, <1>5, <1>6, <1>7, <1>8, <1>9, ExecutorStep
            DEF RunOK

(* The effect of a call: Dispatch keeps the invariant. *)
LEMMA DispatchKeeps ==
    ASSUME LoopInv, NEW r \in Runs, Dispatch(r)
    PROVE  LoopInv'
<1>0. /\ Types /\ SavedOK(r) /\ WorkOK(r) /\ PhaseOK(r) /\ RequestsOK(r)
      /\ GrantsOK(r) /\ GatedNeedsApproval /\ FieldsOK(r) /\ batches \in Nat
  BY Facts
<1>e. DispatchDoes(r)
  BY <1>0, DispatchEffect
<1>a. Active(r)
  BY <1>e DEF Active, DispatchDoes
<1>c. conv' = conv /\ conv' \in [Runs -> Conversations] /\ Saved(r)' = Saved(r)
  BY <1>0, <1>e DEF DispatchDoes, Types, Saved
<1>b. steps' = steps /\ steps' \in [Runs -> Seq(Steps)] /\ SameSteps(r)
  BY <1>0, <1>e DEF DispatchDoes, Types, SameSteps
<1>1. OfRun(r)
  BY <1>0, <1>e, <1>b, <1>c DEF DispatchDoes, OfRun, Frame
<1>2. Types'
  <2>1. FieldsOK(r)'
    BY <1>0, <1>a, <1>e
       DEF DispatchDoes, WorkKept, CountsKept, FieldsOK, Pcs, Refs, Statuses,
           Terminal
  <2>2. /\ appr' \in [Runs -> Seq(Approvals)] /\ batches' \in Nat
        /\ \A e \in effects' : e.run \in Runs
    BY <1>0, <1>e DEF DispatchDoes, Types
  <2> QED  BY <1>0, <1>e, <1>b, <1>c, <2>1, <2>2, TypesStep DEF DispatchDoes
<1>3. SavedOK(r)'
  BY <1>0, <1>a, <1>e, <1>c
     DEF DispatchDoes, WorkKept, CountsKept, SavedOK, WorkOK
<1>4. WorkOK(r)'
  BY <1>0, <1>a, <1>e, <1>c
     DEF DispatchDoes, WorkKept, CountsKept, WorkOK, PhaseOK, Active
<1>5. PhaseOK(r)'
  BY <1>0, <1>a, <1>e
     DEF DispatchDoes, WorkKept, CountsKept, PhaseOK, WorkOK, Active
<1>6. RequestsOK(r)'
  <2>1. conv[r] # NoConv => /\ conv'[r] # NoConv
                            /\ Bat(Saved(r)').batch = Bat(Saved(r)).batch
    BY <1>0, <1>a, <1>e, <1>c
       DEF DispatchDoes, WorkKept, CountsKept, WorkOK, SavedOK, PhaseOK, Begun
  <2>2. ex'[r].next \in Nat /\ ex'[r].next >= ex[r].next /\ ex'[r].pc # "save"
    BY <1>0, <1>a, <1>e DEF DispatchDoes, WorkKept, CountsKept, FieldsOK
  <2>3. appr' = appr
    BY <1>e DEF DispatchDoes
  <2> QED  BY <1>0, <1>a, <1>b, <2>1, <2>2, <2>3, RequestsKept
<1>7. GrantsOK(r)'
  <2>1. \A b, j : Granted(r, b, j)' <=> Granted(r, b, j)
    BY <1>e DEF DispatchDoes, Granted
  <2> QED  BY <1>0, <1>a, <1>e, <1>b, <1>c, <2>1
           DEF DispatchDoes, WorkKept, CountsKept, GrantsOK, WorkOK, PhaseOK,
               Active
<1>8. GatedNeedsApproval'
  <2> DEFINE e == [run |-> r, step |-> Len(steps[r]), batch |-> CurrentBatch(r),
                   call |-> Min(ex[r].pending),
                   kind |-> Bat(ex[r].msgs).calls[Min(ex[r].pending)]]
  <2>1. effects' \subseteq effects \cup {e} /\ appr' = appr
    BY <1>e DEF DispatchDoes
  <2>2. Min(ex[r].pending) \in ex[r].pending
    BY <1>0, <1>e, MinNat DEF DispatchDoes, PhaseOK, FieldsOK
  <2>3. e.kind = "gated" => Granted(r, e.batch, e.call) /\ e.run = r
    BY <1>0, <1>e, <2>2 DEF DispatchDoes, GrantsOK, CurrentBatch, Bat
  <2> HIDE DEF e
  <2> QED  BY <1>0, <2>1, <2>3 DEF GatedNeedsApproval, Granted
<1>9. UNCHANGED run
  BY <1>e DEF DispatchDoes
<1> QED  BY <1>1, <1>2, <1>3, <1>4, <1>5, <1>6, <1>7, <1>8, <1>9, ExecutorStep
            DEF RunOK

(* The model answers: ModelAnswers keeps the invariant. *)
LEMMA ModelAnswersKeeps ==
    ASSUME LoopInv, NEW r \in Runs, ModelAnswers(r)
    PROVE  LoopInv'
<1>0. /\ Types /\ SavedOK(r) /\ WorkOK(r) /\ PhaseOK(r) /\ RequestsOK(r)
      /\ GrantsOK(r) /\ GatedNeedsApproval /\ FieldsOK(r) /\ batches \in Nat
  BY Facts
<1>e. ModelAnswersDoes(r)
  BY <1>0, ModelAnswersEffect
<1>a. Active(r)
  BY <1>e DEF Active, ModelAnswersDoes
<1>f. /\ ex'[r].out \in Messages /\ ex'[r].out.role = "assistant"
      /\ ex'[r].out.batch = batches + 1
  <2>1. PICK calls \in Seq(Kinds), says \in Sayings :
          ex'[r].out = Assistant(batches + 1, calls, says)
    BY <1>e DEF ModelAnswersDoes
  <2> QED  BY <1>0, <2>1 DEF Assistant, Messages
<1>g. /\ Upto(ex[r].msgs, batches + 1) /\ Upto(Saved(r), batches + 1)
      /\ \A a \in AssistantsAt(ex[r].msgs) : ex[r].msgs[a].batch < batches + 1
  <2>1. /\ Good(ex[r].msgs) /\ Upto(ex[r].msgs, batches)
        /\ Good(Saved(r)) /\ Upto(Saved(r), batches)
    BY <1>0, <1>a DEF WorkOK, SavedOK
  <2>2. /\ ex[r].msgs \in Seq(Messages) /\ Saved(r) \in Seq(Messages)
        /\ batches + 1 \in Nat /\ batches <= batches + 1
    BY <1>0, <2>1 DEF Good
  <2>3. Upto(ex[r].msgs, batches + 1) /\ Upto(Saved(r), batches + 1)
    BY <1>0, <2>1, <2>2, UptoMore
  <2>4. ASSUME NEW a \in AssistantsAt(ex[r].msgs)
        PROVE  ex[r].msgs[a].batch < batches + 1
    <3>1. ex[r].msgs[a].batch <= batches /\ ex[r].msgs[a] \in Messages
      BY <2>1, <2>2 DEF Upto, AssistantsAt
    <3>2. ex[r].msgs[a].batch \in Nat
      BY <3>1 DEF Messages
    <3> QED  BY <1>0, <3>1, <3>2
  <2> QED  BY <2>3, <2>4
<1>c. conv' = conv /\ conv' \in [Runs -> Conversations] /\ Saved(r)' = Saved(r)
  BY <1>0, <1>e DEF ModelAnswersDoes, Types, Saved
<1>b. steps' = steps /\ steps' \in [Runs -> Seq(Steps)] /\ SameSteps(r)
  BY <1>0, <1>e DEF ModelAnswersDoes, Types, SameSteps
<1>1. OfRun(r)
  BY <1>0, <1>e, <1>b, <1>c DEF ModelAnswersDoes, OfRun, Frame
<1>2. Types'
  <2>1. FieldsOK(r)'
    BY <1>0, <1>a, <1>e, <1>f, <1>g
       DEF ModelAnswersDoes, WorkKept, CountsKept, FieldsOK, Pcs, Refs,
           Statuses, Terminal
  <2>2. /\ appr' \in [Runs -> Seq(Approvals)] /\ batches' \in Nat
        /\ \A e \in effects' : e.run \in Runs
    BY <1>0, <1>e DEF ModelAnswersDoes, Types
  <2> QED  BY <1>0, <1>e, <1>b, <1>c, <2>1, <2>2, TypesStep DEF ModelAnswersDoes
<1>3. SavedOK(r)'
  BY <1>0, <1>a, <1>e, <1>f, <1>g, <1>c
     DEF ModelAnswersDoes, WorkKept, CountsKept, SavedOK, WorkOK
<1>4. WorkOK(r)'
  BY <1>0, <1>a, <1>e, <1>f, <1>g, <1>c
     DEF ModelAnswersDoes, WorkKept, CountsKept, WorkOK, PhaseOK, Active
<1>5. PhaseOK(r)'
  BY <1>0, <1>a, <1>e, <1>f, <1>g
     DEF ModelAnswersDoes, WorkKept, CountsKept, PhaseOK, WorkOK, Active
<1>6. RequestsOK(r)'
  <2>1. conv[r] # NoConv => /\ conv'[r] # NoConv
                            /\ Bat(Saved(r)').batch = Bat(Saved(r)).batch
    BY <1>0, <1>a, <1>e, <1>f, <1>g, <1>c
       DEF ModelAnswersDoes, WorkKept, CountsKept, WorkOK, SavedOK, PhaseOK, Begun
  <2>2. ex'[r].next \in Nat /\ ex'[r].next >= ex[r].next /\ ex'[r].pc # "save"
    BY <1>0, <1>a, <1>e, <1>f, <1>g
       DEF ModelAnswersDoes, WorkKept, CountsKept, FieldsOK
  <2>3. appr' = appr
    BY <1>e DEF ModelAnswersDoes
  <2> QED  BY <1>0, <1>a, <1>b, <2>1, <2>2, <2>3, RequestsKept
<1>7. GrantsOK(r)'
  <2>1. \A b, j : Granted(r, b, j)' <=> Granted(r, b, j)
    BY <1>e DEF ModelAnswersDoes, Granted
  <2> QED  BY <1>0, <1>a, <1>e, <1>f, <1>g, <1>b, <1>c, <2>1
           DEF ModelAnswersDoes, WorkKept, CountsKept, GrantsOK, WorkOK,
               PhaseOK, Active, Begun
<1>8. GatedNeedsApproval'
  BY <1>0, <1>e DEF ModelAnswersDoes, GatedNeedsApproval
<1>9. UNCHANGED run
  BY <1>e DEF ModelAnswersDoes
<1> QED  BY <1>1, <1>2, <1>3, <1>4, <1>5, <1>6, <1>7, <1>8, <1>9, ExecutorStep
            DEF RunOK

(* What follows an answer. *)
LEMMA AfterAnswer ==
    ASSUME NEW r, NEW m \in Seq(Messages), NEW x \in Messages, x.role = "assistant",
           Pend(Append(m, x)) = DOMAIN x.calls
    PROVE  LET next == AfterModelCall(r, Append(m, x)) IN
           /\ next \in {"fail", "ceiling", "completed", "pause", "intent"}
           /\ next \in {"pause", "intent"} => Pend(Append(m, x)) # {}
           /\ next = "intent" => ~AnyGated(Append(m, x), Pend(Append(m, x)))
<1> DEFINE u == Append(m, x)
           next == AfterModelCall(r, u)
<1>1. Last(u) = x
  BY DEF Last
<1>2. x.calls \in Seq(Kinds)
  BY DEF Messages
<1>3. x.calls # <<>> => DOMAIN x.calls # {}
  <2>1. x.calls # <<>> => Len(x.calls) \in Nat /\ Len(x.calls) # 0
    BY <1>2
  <2>2. x.calls # <<>> => 1 \in DOMAIN x.calls
    BY <1>2, <2>1
  <2> QED  BY <2>2
<1> HIDE DEF u
<1>4. /\ next \in {"fail", "ceiling", "completed", "pause", "intent"}
      /\ next \in {"pause", "intent"} => Last(u).calls # <<>>
      /\ next = "intent" => ~AnyGated(u, Pend(u))
  BY DEF AfterModelCall, Pend
<1> QED  BY <1>1, <1>3, <1>4 DEF u

(* The answer is saved: its batch becomes the one the conversation ends    *)
(* in, and the requests for earlier batches are no longer the newest:      *)
(* SaveAssistant keeps the invariant.                                      *)
LEMMA SaveAssistantKeeps ==
    ASSUME LoopInv, NEW r \in Runs, SaveAssistant(r)
    PROVE  LoopInv'
<1>0. /\ Types /\ SavedOK(r) /\ WorkOK(r) /\ PhaseOK(r) /\ RequestsOK(r)
      /\ GrantsOK(r) /\ GatedNeedsApproval /\ FieldsOK(r) /\ batches \in Nat
  BY Facts
<1>e. SaveAssistantDoes(r)
  BY <1>0, SaveAssistantEffect
<1>a. Active(r)
  BY <1>e DEF Active, SaveAssistantDoes
<1> DEFINE x == ex[r].out
           u == Append(ex[r].msgs, x)
           next == AfterModelCall(r, u)
<1>f. /\ Good(u) /\ Upto(u, batches) /\ Begun(u) /\ Bat(u) = x
      /\ Pend(u) = DOMAIN x.calls
  <2>1. /\ Good(ex[r].msgs) /\ Upto(ex[r].msgs, batches) /\ Begun(ex[r].msgs)
        /\ ex[r].pending = Pend(ex[r].msgs)
    BY <1>0, <1>a DEF WorkOK
  <2>2. /\ x \in Messages /\ x.role = "assistant" /\ x.batch <= batches
        /\ \A a \in AssistantsAt(ex[r].msgs) : ex[r].msgs[a].batch < x.batch
        /\ ex[r].pending = {}
    BY <1>0, <1>e DEF SaveAssistantDoes, PhaseOK, FieldsOK
  <2>3. Pend(ex[r].msgs) = {} /\ batches \in Nat
    BY <1>0, <2>1, <2>2
  <2> HIDE DEF x
  <2> QED  BY <2>1, <2>2, <2>3, AnswerAppended
<1>g. /\ next \in {"fail", "ceiling", "completed", "pause", "intent"}
      /\ next \in {"pause", "intent"} => Pend(u) # {}
      /\ next = "intent" => ~AnyGated(u, Pend(u))
  <2>1. /\ x \in Messages /\ x.role = "assistant" /\ ex[r].msgs \in Seq(Messages)
    BY <1>0, <1>e DEF SaveAssistantDoes, PhaseOK, FieldsOK
  <2> QED  BY <1>f, <2>1, AfterAnswer
<1>h. /\ u \in Seq(Messages) /\ u # <<>> /\ Pend(u) \subseteq Nat
      /\ <<r, ex[r].count>> \in Refs
  <2>1. u \in Seq(Messages) /\ u # <<>>
    BY <1>f DEF Good, Begun
  <2> QED  BY <1>0, <2>1, PendingBatch, RunsNat DEF Refs, FieldsOK
<1>i. /\ ex[r].pc = "save" /\ Frame(r)
      /\ ex'[r].pc = IF next \in {"ceiling", "completed"} THEN "return" ELSE next
      /\ ex'[r].msgs = u /\ ex'[r].pending = Pend(u)
      /\ ex'[r].matches = ex[r].matches /\ ex'[r].left = ex[r].left
      /\ ex'[r].ref = <<r, ex[r].count>> /\ ex'[r].approved = FALSE
      /\ ex'[r].deferred = ex[r].deferred
      /\ ex'[r].spent = ex[r].spent /\ ex'[r].count = ex[r].count
      /\ ex'[r].next = ex[r].next
      /\ next = "ceiling" => ex'[r].out = "failed"
      /\ next = "completed" => ex'[r].out = "completed"
      /\ SavesTo(r, u)
      /\ UNCHANGED <<run, steps, appr, batches, effects>>
  BY <1>e DEF SaveAssistantDoes, CountsKept
<1> HIDE DEF x, u, next
<1>j. /\ ex'[r].pc \in {"fail", "return", "pause", "intent"}
      /\ ex'[r].pc \in {"pause", "intent"} => ex'[r].pc = next
      /\ ex'[r].pc = "return" => ex'[r].out \in {"failed", "completed"}
  BY <1>g, <1>i
<1>c. /\ conv' \in [Runs -> Conversations]
      /\ Saved(r)' = u /\ conv'[r] # NoConv
      /\ \A q \in Runs \ {r} : conv'[q] = conv[q]
  BY <1>0, <1>h, <1>i, SavedTo
<1>1. OfRun(r)
  BY <1>0, <1>i, <1>c DEF OfRun, Frame
<1>2. Types'
  <2>1. FieldsOK(r)'
    BY <1>0, <1>h, <1>i, <1>j DEF FieldsOK, Pcs, Statuses, Terminal
  <2>2. /\ appr' \in [Runs -> Seq(Approvals)] /\ batches' \in Nat
        /\ \A e \in effects' : e.run \in Runs
        /\ steps' \in [Runs -> Seq(Steps)]
    BY <1>0, <1>i DEF Types
  <2> QED  BY <1>0, <1>i, <1>c, <2>1, <2>2, TypesStep
<1>3. SavedOK(r)'
  BY <1>f, <1>i, <1>c DEF SavedOK
<1>4. WorkOK(r)'
  BY <1>0, <1>a, <1>f, <1>i, <1>j, <1>c DEF WorkOK, Active
<1>5. PhaseOK(r)'
  BY <1>g, <1>i, <1>j DEF PhaseOK
<1>6. RequestsOK(r)'
  <2>0. Len(steps[r]) \in Nat /\ DOMAIN steps[r] = 1..Len(steps[r])
        /\ \A n \in DOMAIN steps[r] : steps[r][n].idx \in Nat
    BY <1>0, StepTypes
  <2>1. ASSUME NEW k \in DOMAIN appr[r]
        PROVE  /\ appr[r][k].step \in DOMAIN steps[r]
               /\ steps[r][appr[r][k].step].kind = "approval"
               /\ steps[r][appr[r][k].step].calls = appr[r][k].calls
               /\ ~(\A m \in DOMAIN steps[r] :
                     steps[r][m].idx <= steps[r][appr[r][k].step].idx)
    <3> DEFINE n == appr[r][k].step
    <3>1. /\ n \in DOMAIN steps[r] /\ steps[r][n].kind = "approval"
          /\ steps[r][n].calls = appr[r][k].calls
          /\ steps[r][n].idx < steps[r][Len(steps[r])].idx
      BY <1>0, <1>i DEF RequestsOK
    <3> HIDE DEF n
    <3>2. Len(steps[r]) \in DOMAIN steps[r]
      BY <2>0, <3>1
    <3>3. ~(steps[r][Len(steps[r])].idx <= steps[r][n].idx)
      BY <2>0, <3>1, <3>2
    <3> QED  BY <3>1, <3>2, <3>3 DEF n
  <2>2. ASSUME NEW n \in DOMAIN steps[r], steps[r][n].kind = "approval"
        PROVE  steps[r][n].idx < ex[r].next
    BY <1>0, <1>a, <2>2 DEF RequestsOK
  <2> QED  BY <1>i, <1>j, <1>c, <2>1, <2>2 DEF RequestsOK
<1>7. GrantsOK(r)'
  <2>1. ex'[r].pc = "intent" => \A i \in ex'[r].pending :
          Bat(ex'[r].msgs).calls[i] # "gated"
    BY <1>g, <1>i, <1>j DEF AnyGated, Bat
  <2> QED  BY <1>i, <1>j, <1>c, <2>1 DEF GrantsOK
<1>8. GatedNeedsApproval'
  BY <1>0, <1>i DEF GatedNeedsApproval
<1> QED  BY <1>1, <1>2, <1>3, <1>4, <1>5, <1>6, <1>7, <1>8, <1>i, ExecutorStep
            DEF RunOK

(* The approval of the newest step asks for the pending calls of the batch *)
(* the stored conversation ends in: CreateApproval keeps the invariant. *)
LEMMA CreateApprovalKeeps ==
    ASSUME LoopInv, NEW r \in Runs, CreateApproval(r)
    PROVE  LoopInv'
<1>0. /\ Types /\ SavedOK(r) /\ WorkOK(r) /\ PhaseOK(r) /\ RequestsOK(r)
      /\ GrantsOK(r) /\ GatedNeedsApproval /\ FieldsOK(r) /\ batches \in Nat
  BY Facts
<1>e. CreateApprovalDoes(r)
  BY <1>0, CreateApprovalEffect
<1>a. Active(r)
  BY <1>e DEF Active, CreateApprovalDoes
<1> DEFINE a == [step |-> Len(steps[r]), batch |-> Bat(ex[r].msgs).batch,
                 calls |-> ex[r].pending, status |-> "pending"]
<1>b. /\ ex[r].pc = "return" /\ appr' = [appr EXCEPT ![r] = Append(appr[r], a)]
      /\ UNCHANGED <<run, conv, steps, ex, batches, effects>>
  BY <1>e DEF CreateApprovalDoes, CurrentBatch, Bat
<1>c. /\ conv[r] # NoConv /\ steps[r] # <<>> /\ ex[r].msgs = Saved(r)
      /\ ex[r].pending # {} /\ ex[r].pending = Pend(ex[r].msgs)
      /\ steps[r][Len(steps[r])].kind = "approval"
      /\ steps[r][Len(steps[r])].calls = ex[r].pending
  BY <1>0, <1>e, <1>a DEF CreateApprovalDoes, GrantsOK, WorkOK
<1>d. a \in Approvals
  <2>1. Bat(ex[r].msgs) \in Messages
    BY <1>0, <1>c, PendingBatch DEF FieldsOK
  <2>2. Bat(ex[r].msgs).batch \in Nat
    BY <2>1 DEF Messages
  <2> QED  BY <1>0, <2>2, StepTypes DEF Approvals, FieldsOK
<1>f. /\ a.step = Len(steps[r]) /\ a.batch = Bat(ex[r].msgs).batch
      /\ a.calls = ex[r].pending /\ a.status = "pending"
  OBVIOUS
<1> HIDE DEF a
<1>g. /\ appr' \in [Runs -> Seq(Approvals)]
      /\ \A q \in Runs \ {r} : appr'[q] = appr[q]
      /\ Len(appr[r]) \in Nat /\ DOMAIN appr[r] = 1..Len(appr[r])
      /\ DOMAIN appr'[r] = 1..(Len(appr[r]) + 1)
      /\ \A k \in DOMAIN appr[r] : k \in DOMAIN appr'[r] /\ appr'[r][k] = appr[r][k]
      /\ appr'[r][Len(appr[r]) + 1] = a
  <2>1. appr[r] \in Seq(Approvals) /\ appr \in [Runs -> Seq(Approvals)]
    BY <1>0 DEF Types
  <2>2. appr'[r] = Append(appr[r], a) /\ \A q \in Runs \ {r} : appr'[q] = appr[q]
    BY <1>b, <2>1
  <2>3. Append(appr[r], a) \in Seq(Approvals)
    BY <1>d, <2>1
  <2>4. appr' \in [Runs -> Seq(Approvals)]
    BY <1>b, <2>1, <2>3
  <2> QED  BY <1>d, <2>1, <2>2, <2>4
<1>1. OfRun(r)
  BY <1>0, <1>b, <1>g DEF OfRun
<1>2. Types'
  BY <1>0, <1>b, <1>g, Zenon DEF Types, FieldsOK, RunTypes
<1>3. SavedOK(r)' /\ WorkOK(r)' /\ PhaseOK(r)'
  BY <1>0, <1>b DEF SavedOK, WorkOK, PhaseOK, Saved, Active
<1>4. RequestsOK(r)'
  <2>1. ASSUME NEW k \in DOMAIN appr'[r]
        PROVE  /\ appr'[r][k].step \in DOMAIN steps[r]
               /\ steps[r][appr'[r][k].step].kind = "approval"
               /\ steps[r][appr'[r][k].step].calls = appr'[r][k].calls
               /\ (\A m \in DOMAIN steps[r] :
                     steps[r][m].idx <= steps[r][appr'[r][k].step].idx) =>
                        Bat(Saved(r)).batch = appr'[r][k].batch
    <3>1. CASE k \in DOMAIN appr[r]
      BY <1>0, <1>g, <3>1 DEF RequestsOK
    <3>2. CASE k = Len(appr[r]) + 1
      <4>1. Len(steps[r]) \in DOMAIN steps[r]
        BY <1>0, <1>c, StepTypes
      <4> QED  BY <1>c, <1>f, <1>g, <3>2, <4>1
    <3> QED  BY <1>g, <3>1, <3>2
  <2>2. Saved(r)' = Saved(r)
    BY <1>b DEF Saved
  <2> QED  BY <1>0, <1>b, <2>1, <2>2 DEF RequestsOK, Active
<1>5. GrantsOK(r)'
  <2>1. \A b, j : Granted(r, b, j) => Granted(r, b, j)'
    BY <1>g DEF Granted
  <2> QED  BY <1>0, <1>b, <2>1 DEF GrantsOK, Active
<1>6. GatedNeedsApproval'
  <2>1. GrantsStay
    BY <1>0, <1>g DEF GrantsStay
  <2> QED  BY <1>b, <2>1, GatedStay
<1> QED  BY <1>1, <1>2, <1>3, <1>4, <1>5, <1>6, <1>b, ExecutorStep DEF RunOK

-----------------------------------------------------------------------------
(* The steps of the store and of the operator. *)

(* The fields of an idle executor. *)
LEMMA IdleFields ==
    /\ DOMAIN Idle = Fields /\ Idle.pc = "idle" /\ Idle.msgs \in Seq(Messages)
    /\ Idle.pending \subseteq Nat /\ Idle.matches \subseteq Nat /\ Idle.left \subseteq Nat
    /\ Idle.ref \in Refs /\ Idle.spent \in Nat /\ Idle.count \in Nat /\ Idle.next \in Nat
BY DEF Idle, Fields, Refs, NoRef

(* A step that changes no more than this keeps the invariant. *)
LEMMA StoreTypes ==
    ASSUME LoopInv, ExecutorsKept, ApprovalsKept,
           DOMAIN run' = Runs,
           \A q \in Runs : DOMAIN run'[q] = RunFields /\ RunTypes(q)',
           UNCHANGED <<conv, steps, batches, effects>>
    PROVE  Types'
<1>1. ASSUME NEW q \in Runs PROVE FieldsOK(q)'
  <2>1. CASE ex'[q] = Idle
    BY <2>1, IdleFields DEF FieldsOK, Pcs
  <2>2. CASE ex'[q] # Idle
    BY <2>2 DEF ExecutorsKept, LoopInv, Types, FieldsOK
  <2> QED  BY <2>1, <2>2
<1>2. DOMAIN ex' = Runs /\ \A q \in Runs : DOMAIN ex'[q] = Fields
  BY DEF ExecutorsKept
<1> QED  BY <1>1, <1>2 DEF LoopInv, Types, ApprovalsKept

(* A step that changes only statuses, or stops executors, keeps the        *)
(* invariant.                                                              *)
LEMMA StoreStep ==
    ASSUME LoopInv, ExecutorsKept, ApprovalsKept, Types', RetryOK',
           UNCHANGED <<conv, steps, batches, effects>>
    PROVE  LoopInv'
<1>1. ASSUME NEW q \in Runs PROVE RunOK(q)'
  <2>0. Types /\ RunOK(q) /\ Saved(q)' = Saved(q)
    BY DEF LoopInv, Saved
  <2>g. \A b, i : Granted(q, b, i) => Granted(q, b, i)'
    BY DEF ApprovalsKept, Granted
  <2>1. SavedOK(q)'
    BY <2>0 DEF RunOK, SavedOK
  <2>2. CASE ex'[q] = Idle
    <3>1. ex'[q].pc = "idle" /\ ~Active(q)'
      BY <2>2, IdleFields DEF Active
    <3>2. WorkOK(q)' /\ PhaseOK(q)' /\ GrantsOK(q)'
      BY <3>1 DEF WorkOK, PhaseOK, GrantsOK
    <3>3. RequestsOK(q)'
      <4>1. SameSteps(q)
        BY <2>0, StepTypes DEF SameSteps
      <4> QED  BY <2>0, <3>1, <4>1, RequestsKept DEF RunOK, ApprovalsKept
    <3> QED  BY <2>1, <3>2, <3>3 DEF RunOK
  <2>3. CASE ex'[q] # Idle
    <3>1. /\ ex'[q].pc = ex[q].pc /\ ex'[q].msgs = ex[q].msgs
          /\ ex'[q].pending = ex[q].pending /\ ex'[q].matches = ex[q].matches
          /\ ex'[q].left = ex[q].left /\ ex'[q].approved = ex[q].approved
          /\ ex'[q].deferred = ex[q].deferred
          /\ ex'[q].next = ex[q].next /\ ex'[q].out = ex[q].out
          /\ Active(q)' <=> Active(q)
      BY <2>3 DEF ExecutorsKept, Active
    <3>2. WorkOK(q)'
      BY <2>0, <3>1 DEF RunOK, WorkOK
    <3>3. PhaseOK(q)'
      BY <2>0, <3>1 DEF RunOK, PhaseOK
    <3>4. RequestsOK(q)'
      BY <2>0, <3>1 DEF RunOK, RequestsOK, ApprovalsKept
    <3>5. GrantsOK(q)'
      BY <2>0, <2>g, <3>1 DEF RunOK, GrantsOK
    <3> QED  BY <2>1, <3>2, <3>3, <3>4, <3>5 DEF RunOK
  <2> QED  BY <2>2, <2>3
<1>2. GatedNeedsApproval'
  <2>1. GrantsStay
    BY DEF GrantsStay, ApprovalsKept
  <2> QED  BY <2>1, GatedStay
<1> QED  BY <1>1, <1>2 DEF LoopInv

(* A run still has an ended source and a retry still names a model call.   *)
LEMMA RetryKept ==
    ASSUME LoopInv, RunsKept
    PROVE  RetryOK' /\ \A q \in Runs : RunTypes(q)'
<1>1. \A q \in Runs : RunTypes(q)'
  BY DEF RunsKept, RunTypes, LoopInv, Types
<1>2. RetryOK'
  <2> SUFFICES ASSUME NEW r \in Runs, run'[r].mode # "fresh"
               PROVE  /\ Parent[r] \in Runs /\ run'[Parent[r]].status \in Terminal
                      /\ run'[r].mode = "retry" => run'[r].index \in 1..run'[Parent[r]].calls
    BY DEF RetryOK
  <2>1. /\ Parent[r] \in Runs /\ run[Parent[r]].status \in Terminal
        /\ run[r].mode = "retry" => run[r].index \in 1..run[Parent[r]].calls
    BY DEF RunsKept, LoopInv, RetryOK
  <2>2. /\ run'[r].mode = run[r].mode /\ run'[r].index = run[r].index
        /\ run'[Parent[r]].calls \in Nat /\ run'[Parent[r]].calls >= run[Parent[r]].calls
        /\ run'[Parent[r]].status \in Terminal /\ run[Parent[r]].calls \in Nat
    BY <2>1 DEF RunsKept, LoopInv, Types, RunTypes
  <2> QED  BY <2>1, <2>2
<1> QED  BY <1>1, <1>2

(* The same, from what the step does to the runs. *)
LEMMA KeptStep ==
    ASSUME LoopInv, RunsKept, ExecutorsKept, ApprovalsKept,
           UNCHANGED <<conv, steps, batches, effects>>
    PROVE  LoopInv'
<1>1. RetryOK' /\ \A q \in Runs : RunTypes(q)'
  BY RetryKept
<1>2. Types'
  BY <1>1, StoreTypes DEF RunsKept
<1> QED  BY <1>1, <1>2, StoreStep

(* No approval changes. *)
LEMMA NoApprovalsChange ==
    ASSUME LoopInv, appr' = appr
    PROVE  ApprovalsKept
BY DEF ApprovalsKept, LoopInv, Types

(* No executor changes. *)
LEMMA NoExecutorsChange ==
    ASSUME LoopInv, ex' = ex
    PROVE  ExecutorsKept
BY DEF ExecutorsKept, LoopInv, Types

(* One executor stops. *)
LEMMA OneStops ==
    ASSUME LoopInv, NEW r \in Runs, ex' = [ex EXCEPT ![r] = Idle]
    PROVE  ExecutorsKept
<1>1. DOMAIN ex' = Runs /\ ex'[r] = Idle /\ \A q \in Runs \ {r} : ex'[q] = ex[q]
  BY DEF LoopInv, Types
<1> QED  BY <1>1, IdleFields DEF ExecutorsKept, LoopInv, Types

(* One run changes its status. *)
LEMMA OneStatus ==
    ASSUME LoopInv, NEW r \in Runs, NEW status \in Statuses,
           run[r].status \in Terminal => status \in Terminal,
           run' = [run EXCEPT ![r].status = status]
    PROVE  RunsKept
<1>0. /\ DOMAIN run = Runs
      /\ \A q \in Runs : DOMAIN run[q] = RunFields /\ RunTypes(q)
  BY DEF LoopInv, Types
<1>1. /\ DOMAIN run' = Runs /\ DOMAIN run'[r] = RunFields
      /\ \A q \in Runs \ {r} : run'[q] = run[q]
      /\ run'[r].status = status /\ run'[r].mode = run[r].mode
      /\ run'[r].index = run[r].index
      /\ run'[r].calls = run[r].calls /\ run'[r].cost = run[r].cost
  BY <1>0 DEF RunFields
<1>2. \A q \in Runs : run[q].calls >= run[q].calls
  BY <1>0 DEF RunTypes
<1> QED  BY <1>0, <1>1, <1>2 DEF RunsKept, RunTypes

(* A failed write stops the executor: WriteFails keeps the invariant. *)
LEMMA WriteFailsKeeps ==
    ASSUME LoopInv, NEW r \in Runs, WriteFails(r)
    PROVE  LoopInv'
<1> DEFINE status == IF run[r].status \in Terminal THEN run[r].status ELSE "failed"
<1>1. /\ run' = [run EXCEPT ![r].status = status]
      /\ ex' = [ex EXCEPT ![r] = Idle]
      /\ UNCHANGED <<conv, steps, appr, batches, effects>>
  BY DEF WriteFails, LoopInv, Types
<1>2. status \in Statuses /\ (run[r].status \in Terminal => status \in Terminal)
  BY DEF Statuses, Terminal
<1> HIDE DEF status
<1> QED  BY <1>1, <1>2, OneStatus, OneStops, NoApprovalsChange, KeptStep

(* All executors stop: Crash keeps the invariant. *)
LEMMA CrashKeeps ==
    ASSUME LoopInv, Crash
    PROVE  LoopInv'
<1>0. /\ DOMAIN run = Runs
      /\ \A q \in Runs : DOMAIN run[q] = RunFields /\ RunTypes(q)
  BY DEF LoopInv, Types
<1>1. /\ run' = [r \in Runs |-> IF run[r].status = "running"
                   THEN [run[r] EXCEPT !.status = "queued"] ELSE run[r]]
      /\ ex' = [r \in Runs |-> Idle]
      /\ UNCHANGED <<conv, steps, appr, batches, effects>>
  BY DEF Crash
<1>2. ExecutorsKept
  BY <1>1, IdleFields DEF ExecutorsKept
<1>3. RunsKept
  <2>1. ASSUME NEW q \in Runs
        PROVE  /\ DOMAIN run'[q] = RunFields
               /\ run'[q].status \in Statuses
               /\ run[q].status \in Terminal => run'[q].status \in Terminal
               /\ run'[q].mode = run[q].mode /\ run'[q].index = run[q].index
               /\ run'[q].calls = run[q].calls
               /\ run'[q].cost = run[q].cost
    <3>1. CASE run[q].status = "running"
      <4>1. run'[q] = [run[q] EXCEPT !.status = "queued"]
        BY <1>1, <3>1
      <4> QED  BY <1>0, <3>1, <4>1 DEF RunFields, Statuses, Terminal
    <3>2. CASE run[q].status # "running"
      BY <1>0, <1>1, <3>2 DEF RunTypes
    <3> QED  BY <3>1, <3>2
  <2>2. \A q \in Runs : run[q].calls >= run[q].calls
    BY <1>0 DEF RunTypes
  <2>3. DOMAIN run' = Runs
    BY <1>1
  <2> QED  BY <1>0, <2>1, <2>2, <2>3 DEF RunsKept, RunTypes
<1> QED  BY <1>1, <1>2, <1>3, NoApprovalsChange, KeptStep

(* The approvals of one run change in their status. *)
LEMMA OneAnswers ==
    ASSUME LoopInv, NEW r \in Runs, NEW S,
           S \in [DOMAIN appr[r] -> {"pending", "approved", "rejected", "cancelled"}],
           \A k \in DOMAIN appr[r] : appr[r][k].status = "approved" => S[k] = "approved",
           appr' = [appr EXCEPT ![r] =
                      [k \in DOMAIN appr[r] |-> [appr[r][k] EXCEPT !.status = S[k]]]]
    PROVE  ApprovalsKept
<1>0. /\ appr \in [Runs -> Seq(Approvals)] /\ appr[r] \in Seq(Approvals)
      /\ Len(appr[r]) \in Nat /\ DOMAIN appr[r] = 1..Len(appr[r])
      /\ \A k \in DOMAIN appr[r] : appr[r][k] \in Approvals
  BY DEF LoopInv, Types
<1> DEFINE t == [k \in DOMAIN appr[r] |-> [appr[r][k] EXCEPT !.status = S[k]]]
<1>1. ASSUME NEW k \in DOMAIN appr[r]
      PROVE  /\ t[k] \in Approvals
             /\ t[k].step = appr[r][k].step /\ t[k].batch = appr[r][k].batch
             /\ t[k].calls = appr[r][k].calls /\ t[k].status = S[k]
  BY <1>0 DEF Approvals
<1>2. t \in Seq(Approvals) /\ DOMAIN t = DOMAIN appr[r]
  <2>1. t \in [1..Len(appr[r]) -> Approvals]
    BY <1>0, <1>1
  <2> QED  BY <1>0, <2>1
<1> HIDE DEF t
<1>3. /\ appr' \in [Runs -> Seq(Approvals)] /\ appr'[r] = t
      /\ \A q \in Runs \ {r} : appr'[q] = appr[q]
  BY <1>0, <1>2 DEF t
<1> QED  BY <1>1, <1>2, <1>3 DEF ApprovalsKept

(* CancelRun keeps the invariant: what was approved stays approved. *)
LEMMA CancelRunKeeps ==
    ASSUME LoopInv, NEW r \in Runs, CancelRun(r)
    PROVE  LoopInv'
<1>0. /\ appr \in [Runs -> Seq(Approvals)] /\ appr[r] \in Seq(Approvals)
      /\ \A k \in DOMAIN appr[r] : appr[r][k] \in Approvals
  BY DEF LoopInv, Types
<1>1. /\ run' = [run EXCEPT ![r].status = "cancelled"]
      /\ UNCHANGED <<conv, steps, ex, batches, effects>>
  BY DEF CancelRun
<1>2. ApprovalsKept
  <2> DEFINE S == [k \in DOMAIN appr[r] |->
                     IF appr[r][k].status = "pending" THEN "cancelled"
                     ELSE appr[r][k].status]
  <2>1. /\ S \in [DOMAIN appr[r] -> {"pending", "approved", "rejected", "cancelled"}]
        /\ \A k \in DOMAIN appr[r] : appr[r][k].status = "approved" => S[k] = "approved"
    BY <1>0 DEF Approvals
  <2>2. appr' = [appr EXCEPT ![r] = [k \in DOMAIN appr[r] |->
                   IF appr[r][k].status = "pending"
                     THEN [appr[r][k] EXCEPT !.status = "cancelled"]
                     ELSE appr[r][k]]]
    BY DEF CancelRun
  <2>3. ASSUME NEW k \in DOMAIN appr[r]
        PROVE  (IF appr[r][k].status = "pending"
                  THEN [appr[r][k] EXCEPT !.status = "cancelled"]
                  ELSE appr[r][k]) = [appr[r][k] EXCEPT !.status = S[k]]
    <3>1. CASE appr[r][k].status = "pending"
      BY <3>1
    <3>2. CASE appr[r][k].status # "pending"
      <4>1. [appr[r][k] EXCEPT !.status = appr[r][k].status] = appr[r][k]
        BY <1>0 DEF Approvals
      <4> QED  BY <3>2, <4>1
    <3> QED  BY <3>1, <3>2
  <2> HIDE DEF S
  <2>4. appr' = [appr EXCEPT ![r] =
                   [k \in DOMAIN appr[r] |-> [appr[r][k] EXCEPT !.status = S[k]]]]
    BY <2>2, <2>3
  <2> QED  BY <2>1, <2>4, OneAnswers
<1>3. RunsKept
  BY <1>1, OneStatus DEF Statuses, Terminal
<1> QED  BY <1>1, <1>2, <1>3, NoExecutorsChange, KeptStep

(* The signal only sets a flag: cancelInFlightJob keeps the invariant. *)
LEMMA cancelInFlightJobKeeps ==
    ASSUME LoopInv, NEW r \in Runs, cancelInFlightJob(r)
    PROVE  LoopInv'
<1>1. /\ ex' = [ex EXCEPT ![r].cancelled = TRUE]
      /\ UNCHANGED <<run, conv, steps, appr, batches, effects>>
  BY DEF cancelInFlightJob
<1>2. RunsKept
  <2>1. \A q \in Runs : run[q].calls >= run[q].calls
    BY DEF LoopInv, Types, RunTypes
  <2> QED  BY <1>1, <2>1 DEF RunsKept, LoopInv, Types, RunTypes
<1>3. ExecutorsKept
  <2>0. DOMAIN ex = Runs /\ \A q \in Runs : DOMAIN ex[q] = Fields
    BY DEF LoopInv, Types
  <2>1. DOMAIN ex' = Runs /\ \A q \in Runs \ {r} : ex'[q] = ex[q]
    BY <1>1, <2>0
  <2>2. /\ DOMAIN ex'[r] = Fields
        /\ ex'[r].pc = ex[r].pc /\ ex'[r].msgs = ex[r].msgs
        /\ ex'[r].pending = ex[r].pending /\ ex'[r].matches = ex[r].matches
        /\ ex'[r].left = ex[r].left /\ ex'[r].ref = ex[r].ref
        /\ ex'[r].approved = ex[r].approved /\ ex'[r].deferred = ex[r].deferred
        /\ ex'[r].spent = ex[r].spent /\ ex'[r].count = ex[r].count
        /\ ex'[r].next = ex[r].next /\ ex'[r].out = ex[r].out
    BY <1>1, <2>0 DEF Fields
  <2> QED  BY <2>0, <2>1, <2>2 DEF ExecutorsKept
<1> QED  BY <1>1, <1>2, <1>3, NoApprovalsChange, KeptStep

(* ApproveAndResume keeps the invariant. *)
LEMMA ApproveAndResumeKeeps ==
    ASSUME LoopInv, NEW r \in Runs, NEW k \in DOMAIN appr[r], ApproveAndResume(r, k)
    PROVE  LoopInv'
<1>0. /\ appr \in [Runs -> Seq(Approvals)] /\ appr[r] \in Seq(Approvals)
      /\ \A j \in DOMAIN appr[r] : appr[r][j] \in Approvals
  BY DEF LoopInv, Types
<1>1. /\ run[r].status = "awaiting_approval"
      /\ run' = [run EXCEPT ![r].status = "queued"]
      /\ appr' = [appr EXCEPT ![r][k].status = "approved"]
      /\ UNCHANGED <<conv, steps, ex, batches, effects>>
  BY DEF ApproveAndResume
<1>2. ApprovalsKept
  <2> DEFINE S == [j \in DOMAIN appr[r] |->
                     IF j = k THEN "approved" ELSE appr[r][j].status]
             t == [j \in DOMAIN appr[r] |-> [appr[r][j] EXCEPT !.status = S[j]]]
  <2>1. /\ S \in [DOMAIN appr[r] -> {"pending", "approved", "rejected", "cancelled"}]
        /\ \A j \in DOMAIN appr[r] : appr[r][j].status = "approved" => S[j] = "approved"
    BY <1>0 DEF Approvals
  <2>2. appr' = [appr EXCEPT ![r] =
                   [appr[r] EXCEPT ![k] = [appr[r][k] EXCEPT !.status = "approved"]]]
    BY <1>0, <1>1
  <2>3. [appr[r] EXCEPT ![k] = [appr[r][k] EXCEPT !.status = "approved"]] = t
    <3>1. ASSUME NEW j \in DOMAIN appr[r], j # k
          PROVE  t[j] = appr[r][j]
      <4>1. [appr[r][j] EXCEPT !.status = appr[r][j].status] = appr[r][j]
        BY <1>0 DEF Approvals
      <4> QED  BY <3>1, <4>1
    <3>2. t[k] = [appr[r][k] EXCEPT !.status = "approved"] /\ DOMAIN t = DOMAIN appr[r]
      OBVIOUS
    <3> HIDE DEF t
    <3>3. t = [j \in DOMAIN appr[r] |-> t[j]]
      BY DEF t
    <3> QED  BY <1>0, <3>1, <3>2, <3>3
  <2> HIDE DEF S
  <2> QED  BY <2>1, <2>2, <2>3, OneAnswers
<1>3. RunsKept
  BY <1>1, OneStatus DEF Statuses, Terminal
<1> QED  BY <1>1, <1>2, <1>3, NoExecutorsChange, KeptStep

(* RejectApproval keeps the invariant. *)
LEMMA RejectApprovalKeeps ==
    ASSUME LoopInv, NEW r \in Runs, NEW k \in DOMAIN appr[r], RejectApproval(r, k)
    PROVE  LoopInv'
<1>0. /\ appr \in [Runs -> Seq(Approvals)] /\ appr[r] \in Seq(Approvals)
      /\ \A j \in DOMAIN appr[r] : appr[r][j] \in Approvals
  BY DEF LoopInv, Types
<1>1. /\ run[r].status = "awaiting_approval" /\ appr[r][k].status = "pending"
      /\ run' = [run EXCEPT ![r].status = "cancelled"]
      /\ UNCHANGED <<conv, steps, ex, batches, effects>>
  BY DEF RejectApproval
<1>2. ApprovalsKept
  <2> DEFINE S == [j \in DOMAIN appr[r] |->
                     IF j = k THEN "rejected"
                     ELSE IF appr[r][j].status = "pending" THEN "cancelled"
                     ELSE appr[r][j].status]
  <2>1. /\ S \in [DOMAIN appr[r] -> {"pending", "approved", "rejected", "cancelled"}]
        /\ \A j \in DOMAIN appr[r] : appr[r][j].status = "approved" => S[j] = "approved"
    BY <1>0, <1>1 DEF Approvals
  <2>2. appr' = [appr EXCEPT ![r] = [j \in DOMAIN appr[r] |->
                   IF j = k THEN [appr[r][j] EXCEPT !.status = "rejected"]
                   ELSE IF appr[r][j].status = "pending"
                     THEN [appr[r][j] EXCEPT !.status = "cancelled"]
                     ELSE appr[r][j]]]
    BY DEF RejectApproval
  <2>3. ASSUME NEW j \in DOMAIN appr[r]
        PROVE  (IF j = k THEN [appr[r][j] EXCEPT !.status = "rejected"]
                ELSE IF appr[r][j].status = "pending"
                  THEN [appr[r][j] EXCEPT !.status = "cancelled"]
                  ELSE appr[r][j]) = [appr[r][j] EXCEPT !.status = S[j]]
    <3>1. CASE j = k \/ appr[r][j].status = "pending"
      BY <3>1
    <3>2. CASE j # k /\ appr[r][j].status # "pending"
      <4>1. [appr[r][j] EXCEPT !.status = appr[r][j].status] = appr[r][j]
        BY <1>0 DEF Approvals
      <4> QED  BY <3>2, <4>1
    <3> QED  BY <3>1, <3>2
  <2> HIDE DEF S
  <2>4. appr' = [appr EXCEPT ![r] =
                   [j \in DOMAIN appr[r] |-> [appr[r][j] EXCEPT !.status = S[j]]]]
    BY <2>2, <2>3
  <2> QED  BY <2>1, <2>4, OneAnswers
<1>3. RunsKept
  BY <1>1, OneStatus DEF Statuses, Terminal
<1> QED  BY <1>1, <1>2, <1>3, NoExecutorsChange, KeptStep

-----------------------------------------------------------------------------
(* Bounds of the stored steps. *)
LEMMA StepBounds ==
    ASSUME Types, NEW r \in Runs
    PROVE  \E b \in Nat : \A n \in DOMAIN steps[r] :
             /\ steps[r][n].idx <= b /\ steps[r][n].cost <= b
             /\ steps[r][n].ref[1] <= b /\ steps[r][n].ref[2] <= b
<1> DEFINE L == Len(steps[r])
<1>1. /\ L \in Nat /\ DOMAIN steps[r] = 1..L
      /\ \A n \in 1..L : /\ steps[r][n].idx \in Nat /\ steps[r][n].cost \in Nat
                         /\ steps[r][n].ref \in Refs
  BY StepTypes
<1>2. \A n \in 1..L : steps[r][n].ref[1] \in Nat /\ steps[r][n].ref[2] \in Nat
  BY <1>1 DEF Refs
<1> HIDE DEF L
<1> DEFINE a == [n \in 1..L |-> steps[r][n].idx]
           c == [n \in 1..L |-> steps[r][n].cost]
           d == [n \in 1..L |-> steps[r][n].ref[1]]
           e == [n \in 1..L |-> steps[r][n].ref[2]]
<1>3. /\ a \in Seq(Nat) /\ c \in Seq(Nat) /\ d \in Seq(Nat) /\ e \in Seq(Nat)
  BY <1>1, <1>2
<1>4. PICK ba \in Nat : \A n \in DOMAIN a : a[n] <= ba
  BY <1>3, NatSeqBounded
<1>5. PICK bc \in Nat : \A n \in DOMAIN c : c[n] <= bc
  BY <1>3, NatSeqBounded
<1>6. PICK bd \in Nat : \A n \in DOMAIN d : d[n] <= bd
  BY <1>3, NatSeqBounded
<1>7. PICK be \in Nat : \A n \in DOMAIN e : e[n] <= be
  BY <1>3, NatSeqBounded
<1>8. \A n \in 1..L : /\ steps[r][n].idx <= ba /\ steps[r][n].cost <= bc
                      /\ steps[r][n].ref[1] <= bd /\ steps[r][n].ref[2] <= be
  BY <1>4, <1>5, <1>6, <1>7
<1>9. ba + bc + bd + be \in Nat
  OBVIOUS
<1>10. ASSUME NEW n \in 1..L
       PROVE  /\ steps[r][n].idx <= ba + bc + bd + be
              /\ steps[r][n].cost <= ba + bc + bd + be
              /\ steps[r][n].ref[1] <= ba + bc + bd + be
              /\ steps[r][n].ref[2] <= ba + bc + bd + be
  <2> DEFINE i == steps[r][n].idx
             j == steps[r][n].cost
             k == steps[r][n].ref[1]
             l == steps[r][n].ref[2]
  <2>1. i \in Nat /\ j \in Nat /\ k \in Nat /\ l \in Nat
    BY <1>1, <1>2
  <2>2. i <= ba /\ j <= bc /\ k <= bd /\ l <= be
    BY <1>8
  <2> HIDE DEF i, j, k, l
  <2>3. /\ i <= ba + bc + bd + be /\ j <= ba + bc + bd + be
        /\ k <= ba + bc + bd + be /\ l <= ba + bc + bd + be
    BY <2>1, <2>2
  <2> QED  BY <2>3 DEF i, j, k, l
<1> QED  BY <1>1, <1>9, <1>10

(* The counters a checkpoint is made of are numbers, and LastIndex is a    *)
(* bound.                                                                  *)
LEMMA Counts ==
    ASSUME Types, NEW r \in Runs
    PROVE  /\ completedModelCallCount(r) \in Nat
           /\ LastIndex(r) \in Nat
           /\ \A n \in DOMAIN steps[r] : steps[r][n].idx <= LastIndex(r)
           /\ Max({run[r].cost} \cup {s.cost : s \in Range(steps[r])}) \in Nat
<1>1. PICK b \in Nat : \A n \in DOMAIN steps[r] :
             /\ steps[r][n].idx <= b /\ steps[r][n].cost <= b
             /\ steps[r][n].ref[1] <= b /\ steps[r][n].ref[2] <= b
  BY StepBounds
<1>2. \A s \in Range(steps[r]) : \E n \in DOMAIN steps[r] : s = steps[r][n]
  BY DEF Range
<1>3. \A n \in DOMAIN steps[r] : steps[r][n] \in Range(steps[r])
  BY DEF Range
<1>4. \A n \in DOMAIN steps[r] : /\ steps[r][n].idx \in Nat /\ steps[r][n].cost \in Nat
                                 /\ steps[r][n].ref \in Refs
  BY StepTypes
<1>5. \A s \in Range(steps[r]) : /\ s.idx \in Nat /\ s.cost \in Nat /\ s.ref[2] \in Nat
                                 /\ s.idx <= b /\ s.cost <= b /\ s.ref[2] <= b
  BY <1>1, <1>2, <1>4 DEF Refs
<1>6. completedModelCallCount(r) \in Nat
  <2> DEFINE S == {0} \cup {s.ref[2] : s \in {x \in Range(steps[r]) : x.kind = "model"}}
  <2>1. S \subseteq Nat /\ S # {} /\ \A n \in S : n <= b
    BY <1>1, <1>5
  <2> HIDE DEF S
  <2>2. Max(S) \in Nat
    BY <1>1, <2>1, MaxNat
  <2> QED  BY <2>2 DEF completedModelCallCount, S
<1>7. LastIndex(r) \in Nat /\ \A n \in DOMAIN steps[r] : steps[r][n].idx <= LastIndex(r)
  <2> DEFINE S == {0} \cup {s.idx : s \in Range(steps[r])}
  <2>1. S \subseteq Nat /\ S # {} /\ (\A n \in S : n <= b)
        /\ \A n \in DOMAIN steps[r] : steps[r][n].idx \in S
    BY <1>1, <1>3, <1>5
  <2> HIDE DEF S
  <2>2. Max(S) \in Nat /\ \A n \in S : n <= Max(S)
    BY <1>1, <2>1, MaxNat
  <2> QED  BY <2>1, <2>2 DEF LastIndex, S
<1>8. Max({run[r].cost} \cup {s.cost : s \in Range(steps[r])}) \in Nat
  <2> DEFINE S == {run[r].cost} \cup {s.cost : s \in Range(steps[r])}
             d == b + run[r].cost
  <2>0. run[r].cost \in Nat
    BY DEF Types, RunTypes
  <2>1. S \subseteq Nat /\ S # {} /\ d \in Nat /\ \A n \in S : n <= d
    BY <1>1, <1>5, <2>0
  <2> HIDE DEF S, d
  <2>2. Max(S) \in Nat
    BY <2>1, MaxNat
  <2> QED  BY <2>2 DEF S
<1> QED  BY <1>6, <1>7, <1>8

(* The maximum of two numbers. *)
LEMMA MaxPair ==
    ASSUME NEW a \in Nat, NEW b \in Nat
    PROVE  Max({a, b}) \in Nat /\ a <= Max({a, b}) /\ b <= Max({a, b})
<1>1. {a, b} \subseteq Nat /\ {a, b} # {} /\ a + b \in Nat
      /\ \A n \in {a, b} : n <= a + b
  OBVIOUS
<1>2. Max({a, b}) \in {a, b} /\ \A n \in {a, b} : n <= Max({a, b})
  BY <1>1, MaxNat
<1> QED  BY <1>2

(* The maximum of three numbers. *)
LEMMA MaxTriple ==
    ASSUME NEW a \in Nat, NEW b \in Nat, NEW c \in Nat
    PROVE  Max({a, b, c}) \in Nat /\ a <= Max({a, b, c})
<1>1. {a, b, c} \subseteq Nat /\ {a, b, c} # {} /\ a + b + c \in Nat
      /\ \A n \in {a, b, c} : n <= a + b + c
  OBVIOUS
<1>2. Max({a, b, c}) \in {a, b, c} /\ \A n \in {a, b, c} : n <= Max({a, b, c})
  BY <1>1, MaxNat
<1> QED  BY <1>2

(* The result of the executor is merged into the run: SettleRun keeps the  *)
(* invariant.                                                              *)
LEMMA SettleRunKeeps ==
    ASSUME LoopInv, NEW r \in Runs, SettleRun(r)
    PROVE  LoopInv'
<1>0. /\ DOMAIN run = Runs /\ FieldsOK(r) /\ Types
      /\ \A q \in Runs : DOMAIN run[q] = RunFields /\ RunTypes(q)
  BY DEF LoopInv, Types
<1> DEFINE status == IF run[r].status \in Terminal THEN run[r].status ELSE ex[r].out
           cost == Max({run[r].cost, ex[r].spent})
           calls == Max({run[r].calls, ex[r].count, completedModelCallCount(r)})
<1>1. /\ ex[r].pc = "return"
      /\ run' = [run EXCEPT ![r] = [run[r] EXCEPT !.status = status, !.cost = cost,
                                                  !.calls = calls]]
      /\ ex' = [ex EXCEPT ![r] = Idle]
      /\ UNCHANGED <<conv, steps, appr, batches, effects>>
  BY DEF SettleRun, At
<1>2. status \in Statuses /\ (run[r].status \in Terminal => status \in Terminal)
  BY <1>0, <1>1 DEF FieldsOK, RunTypes, Statuses, Terminal
<1>3. cost \in Nat /\ calls \in Nat /\ calls >= run[r].calls
  <2>1. /\ run[r].cost \in Nat /\ ex[r].spent \in Nat /\ run[r].calls \in Nat
        /\ ex[r].count \in Nat /\ completedModelCallCount(r) \in Nat
    BY <1>0, Counts DEF FieldsOK, RunTypes
  <2>2. cost \in Nat
    BY <2>1, MaxPair
  <2>3. calls \in Nat /\ run[r].calls <= calls
    BY <2>1, MaxTriple
  <2> HIDE DEF cost, calls
  <2> QED  BY <2>1, <2>2, <2>3
<1> HIDE DEF status, cost, calls
<1>4. RunsKept
  <2>1. /\ DOMAIN run' = Runs /\ DOMAIN run'[r] = RunFields
        /\ \A q \in Runs \ {r} : run'[q] = run[q]
        /\ run'[r].status = status /\ run'[r].mode = run[r].mode
        /\ run'[r].index = run[r].index
        /\ run'[r].calls = calls /\ run'[r].cost = cost
    BY <1>0, <1>1 DEF RunFields
  <2>2. \A q \in Runs : run[q].calls >= run[q].calls
    BY <1>0 DEF RunTypes
  <2> QED  BY <1>0, <1>2, <1>3, <2>1, <2>2 DEF RunsKept, RunTypes
<1> QED  BY <1>1, <1>4, OneStops, NoApprovalsChange, KeptStep

-----------------------------------------------------------------------------
(* A new run: StartFromRun keeps the invariant. *)
LEMMA StartFromRunKeeps ==
    ASSUME LoopInv, NEW r \in Runs, NEW mode \in Modes, NEW index \in Nat, NEW budget,
           mode # "fresh", mode = "retry" => index \in 1..run[r].calls,
           StartFromRun(r, mode, index, budget)
    PROVE  LoopInv'
<1>0. /\ DOMAIN run = Runs
      /\ \A q \in Runs : DOMAIN run[q] = RunFields /\ RunTypes(q)
      /\ Runs \subseteq Nat
  BY RunsNat DEF LoopInv, Types
<1>1. PICK s \in Runs :
      /\ Parent[s] = r
      /\ run[s].status = "none" /\ run[r].status \in Terminal
      /\ run' = [run EXCEPT ![s] =
                   [status |-> "queued", mode |-> mode, index |-> index,
                    calls |-> 0, cost |-> 0, prior |-> run[r].prior + run[r].cost,
                    budget |-> IF budget > 0 THEN budget ELSE TaskBudget]]
      /\ UNCHANGED <<conv, steps, appr, ex, batches, effects>>
  BY DEF StartFromRun
<1>2. /\ DOMAIN run' = Runs /\ DOMAIN run'[s] = RunFields
      /\ \A q \in Runs \ {s} : run'[q] = run[q]
      /\ run'[s].status = "queued" /\ run'[s].mode = mode
      /\ run'[s].index = index /\ run'[s].calls = 0 /\ run'[s].cost = 0
  BY <1>0, <1>1 DEF RunFields
<1>3. \A q \in Runs : DOMAIN run'[q] = RunFields /\ RunTypes(q)'
  BY <1>0, <1>1, <1>2 DEF RunTypes, Statuses
<1>4. RetryOK'
  <2> SUFFICES ASSUME NEW q \in Runs, run'[q].mode # "fresh"
               PROVE  /\ Parent[q] \in Runs /\ run'[Parent[q]].status \in Terminal
                      /\ run'[q].mode = "retry" => run'[q].index \in 1..run'[Parent[q]].calls
    BY DEF RetryOK
  <2>1. CASE q = s
    <3>1. r # s
      BY <1>1 DEF Terminal
    <3> QED  BY <1>1, <1>2, <2>1, <3>1
  <2>2. CASE q # s
    <3>1. /\ Parent[q] \in Runs /\ run[Parent[q]].status \in Terminal
          /\ run[q].mode = "retry" => run[q].index \in 1..run[Parent[q]].calls
          /\ run'[q] = run[q]
      BY <1>2, <2>2 DEF LoopInv, RetryOK
    <3>2. Parent[q] # s
      BY <1>1, <3>1 DEF Terminal
    <3> QED  BY <1>2, <3>1, <3>2
  <2> QED  BY <2>1, <2>2
<1> QED  BY <1>1, <1>2, <1>3, <1>4, NoApprovalsChange, NoExecutorsChange,
              StoreTypes, StoreStep

(* Resuming, continuing and retrying keep the invariant: NewRun keeps the  *)
(* invariant.                                                              *)
LEMMA NewRunKeeps ==
    ASSUME LoopInv, NEW r \in Runs,
           \/ \E budget \in ResumeBudgets : ResumeTaskRun(r, budget)
           \/ ContinueAgentTask(r)
           \/ \E k \in 1..MaxModelCalls : RetryTaskFromModelCall(r, k)
    PROVE  LoopInv'
<1>0. 0 \in Nat /\ {"resume", "continue", "retry"} \subseteq Modes
      /\ "resume" # "retry" /\ "continue" # "retry" /\ MaxModelCalls \in Nat
  BY AgentLoopAssumption DEF Modes
<1>1. CASE \E budget \in ResumeBudgets : ResumeTaskRun(r, budget)
  <2>1. PICK budget : StartFromRun(r, "resume", 0, budget)
    BY <1>1 DEF ResumeTaskRun
  <2> QED  BY <1>0, <2>1, StartFromRunKeeps
<1>2. CASE ContinueAgentTask(r)
  <2>1. StartFromRun(r, "continue", 0, 0)
    BY <1>2 DEF ContinueAgentTask
  <2> QED  BY <1>0, <2>1, StartFromRunKeeps
<1>3. CASE \E k \in 1..MaxModelCalls : RetryTaskFromModelCall(r, k)
  <2>1. PICK k \in 1..MaxModelCalls : /\ k \in 1..run[r].calls
                                      /\ StartFromRun(r, "retry", k, 0)
    BY <1>3 DEF RetryTaskFromModelCall
  <2> QED  BY <1>0, <2>1, StartFromRunKeeps
<1> QED  BY <1>1, <1>2, <1>3

-----------------------------------------------------------------------------
(* Claiming a run. *)

(* The conversations a run may begin with. *)
LEMMA PromptGood ==
    /\ Good(<<Prompt>>) /\ Begun(<<Prompt>>)
    /\ \A b \in Nat : Upto(<<Prompt>>, b)
<1>1. Prompt \in Messages /\ Prompt.role = "user"
  <2>1. <<>> \in Seq(Kinds)  OBVIOUS
  <2> QED  BY <2>1 DEF Prompt, Messages, Sayings
<1>2. Good(<<>>) /\ Pend(<<>>) = {}
  <2>1. Pend(<<>>) = {}
    BY DEF Pend, pendingToolCallsForResume, HasResumableBatch, AssistantsAt
  <2>2. <<>> \in Seq(Messages) /\ Len(<<>>) = 0
    OBVIOUS
  <2> QED  BY <2>1, <2>2 DEF Good
<1>3. Append(<<>>, Prompt) = <<Prompt>>
  BY <1>1
<1>4. Good(<<Prompt>>)
  <2>1. Allowed(<<>>, Prompt)
    BY <1>1, <1>2 DEF Allowed
  <2> QED  BY <1>1, <1>2, <1>3, <2>1, GoodAppend
<1>5. AssistantsAt(<<Prompt>>) = {}
  BY <1>1 DEF AssistantsAt
<1> QED  BY <1>1, <1>4, <1>5 DEF Begun, Upto

(* A conversation cut before one of its answers. *)
LEMMA CutGood ==
    ASSUME NEW m, Good(m), NEW b \in Nat, Upto(m, b), Begun(m),
           NEW calls \in Nat, NEW k \in 1..calls, calls <= countAssistantMessages(m)
    PROVE  LET u == truncateConversation(m, calls, k) IN
           /\ Good(u) /\ Upto(u, b) /\ Begun(u) /\ Pend(u) = {}
           /\ \A n \in DOMAIN u : n \in DOMAIN m /\ u[n] = m[n]
<1> DEFINE A == AssistantsAt(m)
           upto(n) == {j \in A : j <= n}
           target == Cardinality(A) - calls + k
           S == {n \in A : Cardinality(upto(n)) >= target}
           at == Min(S)
           u == SubSeq(m, 1, at - 1)
<1>0. m \in Seq(Messages) /\ Len(m) \in Nat /\ DOMAIN m = 1..Len(m)
  BY DEF Good
<1>1. A \subseteq 1..Len(m) /\ IsFiniteSet(A) /\ Cardinality(A) \in Nat
  <2>1. A \subseteq 1..Len(m)
    BY <1>0 DEF AssistantsAt
  <2>2. IsFiniteSet(1..Len(m))
    BY <1>0, FS_Interval
  <2> QED  BY <2>1, <2>2, FS_Subset, FS_CardinalityType
<1>2. target \in 1..Cardinality(A)
  BY <1>1 DEF countAssistantMessages
<1>3. A # {}
  BY <1>1, <1>2, FS_EmptySet
<1>4. S # {}
  <2> DEFINE a == Max(A)
  <2>1. a \in A /\ \A n \in A : n <= a
    <3>1. A \subseteq Nat /\ \A n \in A : n <= Len(m)
      BY <1>0, <1>1
    <3> HIDE DEF A
    <3> QED  BY <1>0, <1>3, <3>1, MaxNat
  <2> HIDE DEF a
  <2>2. upto(a) = A
    BY <2>1
  <2>3. Cardinality(upto(a)) >= target
    <3> HIDE DEF A, target
    <3>1. Cardinality(A) >= target
      BY <1>1, <1>2
    <3>2. Cardinality(upto(a)) = Cardinality(A)
      BY <2>2, Zenon
    <3> QED  BY <3>1, <3>2, Zenon
  <2> QED  BY <2>1, <2>3
<1>5. at \in A /\ at \in 1..Len(m)
  <2>1. S \subseteq A /\ S \subseteq Nat
    BY <1>1
  <2> HIDE DEF S
  <2>2. at \in S
    BY <1>4, <2>1, MinNat
  <2> QED  BY <1>1, <2>1, <2>2
<1>6. truncateConversation(m, calls, k) = u
  BY DEF truncateConversation, countAssistantMessages
<1>7. at # 1
  BY <1>5 DEF Begun, AssistantsAt
<1> HIDE DEF at
<1>8. at - 1 \in 0..Len(m) /\ at - 1 \in 1..Len(m)
  BY <1>0, <1>5, <1>7
<1>9. Good(u) /\ Upto(u, b)
  BY <1>0, <1>8, GoodPrefix, UptoPrefix
<1>10. Begun(u)
  <2>1. Len(u) = at - 1 /\ u[1] = m[1]
    BY <1>0, <1>8
  <2>2. u # <<>>
    BY <1>8, <2>1
  <2> QED  BY <2>1, <2>2 DEF Begun
<1>11. Pend(u) = {}
  <2>1. m[at].role # "tool"
    BY <1>5 DEF AssistantsAt
  <2> QED  BY <1>5, <2>1, NothingPendingBefore
<1>12. \A n \in DOMAIN u : n \in DOMAIN m /\ u[n] = m[n]
  BY <1>0, <1>8
<1> QED  BY <1>6, <1>9, <1>10, <1>11, <1>12

(* The model call a run's pending calls belong to. *)
LEMMA DirectOrigin ==
    ASSUME Types, NEW r \in Runs
    PROVE  directPendingToolCallOrigin(r) \in Refs
<1> DEFINE withRef == {n \in DOMAIN steps[r] : steps[r][n].ref # NoRef}
           idxs == {steps[r][n].idx : n \in withRef}
           top == Max(idxs)
           newest == {n \in withRef : steps[r][n].idx = top}
<1>0. /\ Len(steps[r]) \in Nat /\ DOMAIN steps[r] = 1..Len(steps[r])
      /\ \A n \in DOMAIN steps[r] : steps[r][n].idx \in Nat /\ steps[r][n].ref \in Refs
  BY StepTypes
<1>b. PICK b \in Nat : \A n \in DOMAIN steps[r] :
             /\ steps[r][n].idx <= b /\ steps[r][n].cost <= b
             /\ steps[r][n].ref[1] <= b /\ steps[r][n].ref[2] <= b
  BY StepBounds
<1>1. CASE withRef # {}
  <2>1. idxs \subseteq Nat /\ idxs # {} /\ \A i \in idxs : i <= b
    BY <1>0, <1>b, <1>1
  <2>2. top \in idxs
    <3> HIDE DEF idxs
    <3> QED  BY <1>b, <2>1, MaxNat
  <2>3. newest # {}
    <3> HIDE DEF top
    <3> QED  BY <2>2
  <2>4. newest \subseteq Nat /\ \A n \in newest : n <= Len(steps[r])
    BY <1>0
  <2>5. Max(newest) \in newest
    <3> HIDE DEF newest
    <3> QED  BY <1>0, <2>3, <2>4, MaxNat
  <2>6. steps[r][Max(newest)].ref \in Refs
    <3> HIDE DEF top
    <3>1. newest \subseteq DOMAIN steps[r]  OBVIOUS
    <3> HIDE DEF newest
    <3> QED  BY <1>0, <2>5, <3>1
  <2> QED  BY <1>1, <2>6 DEF directPendingToolCallOrigin
<1>2. CASE withRef = {}
  <2>1. ModelCallBoundary(r) \in Nat
    <3> DEFINE T == {s.ref[2] : s \in {x \in Range(steps[r]) :
                                         x.kind = "tool" /\ x.ref[1] = r}}
               S == {run[r].calls, completedModelCallCount(r)} \cup T
               d == b + run[r].calls + completedModelCallCount(r)
    <3>1. run[r].calls \in Nat /\ completedModelCallCount(r) \in Nat
      BY Counts DEF Types, RunTypes
    <3>2. \A s \in Range(steps[r]) : s.ref[2] \in Nat /\ s.ref[2] <= b
      <4>1. \A s \in Range(steps[r]) : \E n \in DOMAIN steps[r] : s = steps[r][n]
        BY DEF Range
      <4> QED  BY <1>0, <1>b, <4>1 DEF Refs
    <3>3. T \subseteq Nat /\ \A n \in T : n <= b
      BY <3>2
    <3> HIDE DEF T
    <3>4. S \subseteq Nat /\ S # {} /\ d \in Nat /\ \A n \in S : n <= d
      <4> DEFINE c == completedModelCallCount(r)
                 e == run[r].calls
      <4>1. c \in Nat /\ e \in Nat /\ d = b + e + c /\ S = {e, c} \cup T
        BY <3>1
      <4> HIDE DEF c, e, d, S
      <4>2. d \in Nat /\ b <= d /\ c <= d /\ e <= d
        BY <1>b, <4>1
      <4>3. \A n \in T : n <= d
        BY <1>b, <3>3, <4>2
      <4> QED  BY <3>3, <4>1, <4>2, <4>3
    <3>5. Max(S) \in Nat
      <4> HIDE DEF S, d
      <4> QED  BY <3>4, MaxNat
    <3> QED  BY <3>5 DEF ModelCallBoundary, S, T
  <2>2. <<r, ModelCallBoundary(r)>> \in Refs /\ NoRef \in Refs
    BY <2>1, RunsNat DEF Refs, NoRef
  <2> HIDE DEF withRef
  <2>3. directPendingToolCallOrigin(r) \in {<<r, ModelCallBoundary(r)>>, NoRef}
    BY <1>2 DEF directPendingToolCallOrigin, withRef
  <2> QED  BY <2>2, <2>3
<1> QED  BY <1>1, <1>2

(* The origin along the line of a run. *)
LEMMA OriginRef ==
    ASSUME Types, NEW r \in Nat, r <= MaxRuns
    PROVE  pendingToolCallOrigin(r) \in Refs
<1> DEFINE known == {q \in Line(r) : directPendingToolCallOrigin(q) # NoRef}
<1>1. known \subseteq Nat /\ known \subseteq Runs /\ \A q \in known : q <= r
  BY AgentLoopAssumption DEF Runs, Line
<1>2. CASE known = {}
  BY <1>2 DEF pendingToolCallOrigin, Refs, NoRef
<1>3. CASE known # {}
  <2>1. Max(known) \in known
    <3> HIDE DEF known
    <3> QED  BY <1>1, <1>3, MaxNat
  <2>2. pendingToolCallOrigin(r) = directPendingToolCallOrigin(Max(known))
    BY <1>3 DEF pendingToolCallOrigin
  <2> HIDE DEF known
  <2> QED  BY <1>1, <2>1, <2>2, DirectOrigin
<1> QED  BY <1>2, <1>3

(* The accounting in a checkpoint. *)
LEMMA CheckpointNats ==
    ASSUME Types, NEW r \in Runs
    PROVE  /\ run[r].cost \in Nat /\ run[r].calls \in Nat /\ LastIndex(r) \in Nat
           /\ Max({run[r].cost} \cup {s.cost : s \in Range(steps[r])}) \in Nat
           /\ Max({run[r].calls, completedModelCallCount(r)}) \in Nat
<1>1. /\ run[r].cost \in Nat /\ run[r].calls \in Nat
      /\ completedModelCallCount(r) \in Nat /\ LastIndex(r) \in Nat
      /\ Max({run[r].cost} \cup {s.cost : s \in Range(steps[r])}) \in Nat
  BY Counts DEF Types, RunTypes
<1>2. Max({run[r].calls, completedModelCallCount(r)}) \in Nat
  BY <1>1, MaxPair
<1> QED  BY <1>1, <1>2

(* What is known of a stored conversation. *)
LEMMA SavedBegun ==
    ASSUME LoopInv, NEW r \in Runs
    PROVE  /\ Good(Saved(r)) /\ Upto(Saved(r), batches)
           /\ conv[r] # NoConv => Begun(Saved(r))
           /\ Saved(r) # <<>> => Begun(Saved(r))
<1>1. Saved(r) # <<>> => conv[r] # NoConv
  BY DEF Saved, completedConversationMessages, NoConv
<1> QED  BY <1>1, Facts DEF SavedOK

(* A run that has a conversation starts from it. *)
LEMMA OwnCheckpoint ==
    ASSUME LoopInv, NEW r \in Runs, conv[r] # NoConv
    PROVE  CheckpointOK(r, ownRunResumeCheckpoint(r))
<1> DEFINE m == Saved(r)
           direct == directPendingToolCallOrigin(r)
           origin == IF direct # NoRef THEN direct ELSE pendingToolCallOrigin(Parent[r])
           ref == IF Pend(m) = {} THEN NoRef ELSE origin
           approved == sameRunPendingToolCallsApproved(r, Pend(m))
           c == Checkpoint(TRUE, m, DurableToolDispatches(r), ref, approved, FALSE, r)
<1>0. Types
  BY Facts
<1>1. ownRunResumeCheckpoint(r) = c
  BY DEF ownRunResumeCheckpoint, Saved, Pend
<1>2. ref \in Refs
  <2>1. direct \in Refs /\ NoRef \in Refs
    BY <1>0, DirectOrigin DEF Refs, NoRef
  <2>2. Parent[r] \in Nat /\ Parent[r] <= MaxRuns
    BY ParentFacts, AgentLoopAssumption
  <2>3. pendingToolCallOrigin(Parent[r]) \in Refs
    BY <1>0, <2>2, OriginRef
  <2> HIDE DEF direct, m
  <2> QED  BY <2>1, <2>3
<1> HIDE DEF ref, approved
<1>3. /\ c.same = TRUE /\ c.msgs = m /\ c.ref = ref
      /\ c.approved = approved /\ c.deferred = FALSE
      /\ c.spent \in Nat /\ c.count \in Nat /\ c.lastIdx \in Nat
      /\ c.lastIdx = LastIndex(r)
  BY <1>0, CheckpointNats DEF Checkpoint
<1>4. Good(m) /\ Upto(m, batches) /\ Begun(m)
  BY SavedBegun
<1> HIDE DEF c
<1>5. CheckpointOK(r, c)
  <2>1. approved => sameRunPendingToolCallsApproved(r, Pend(m))
    BY DEF approved
  <2> HIDE DEF m
  <2>2. m = Saved(r)
    BY DEF m
  <2> QED  BY <1>2, <1>3, <1>4, <2>1, <2>2 DEF CheckpointOK
<1> QED  BY <1>1, <1>5

(* Another starts from the conversation of its source, cut for a retry. *)
LEMMA SourceCheckpointOK ==
    ASSUME LoopInv, NEW r \in Runs, conv[r] = NoConv, run[r].mode # "fresh",
           ~CheckpointUnavailable(r)
    PROVE  CheckpointOK(r, sourceCheckpoint(r))
<1>0. Types /\ batches \in Nat
  BY Facts
<1> DEFINE s == Parent[r]
           m == Saved(s)
<1>1. /\ s \in Runs /\ run[s].calls \in Nat
      /\ run[r].mode = "retry" => run[r].index \in 1..run[s].calls
  BY DEF LoopInv, RetryOK, Types, RunTypes
<1>2. /\ Good(m) /\ Upto(m, batches)
      /\ m # <<>> => Begun(m)
  BY <1>1, SavedBegun
<1>3. CASE run[r].mode = "retry"
  <2> DEFINE u == truncateConversation(m, run[s].calls, run[r].index)
             c == Checkpoint(FALSE, u, {}, NoRef, FALSE, FALSE, r)
  <2>1. sourceCheckpoint(r) = c
    BY <1>3 DEF sourceCheckpoint, Saved
  <2>2. ~(countAssistantMessages(m) < run[s].calls)
    BY <1>3 DEF CheckpointUnavailable, Saved
  <2>3. countAssistantMessages(m) \in Nat /\ (m = <<>> => countAssistantMessages(m) = 0)
    <3>1. m \in Seq(Messages)
      BY <1>2 DEF Good
    <3> HIDE DEF m
    <3>2. AssistantsAt(m) \subseteq 1..Len(m) /\ Len(m) \in Nat
      BY <3>1 DEF AssistantsAt
    <3>3. IsFiniteSet(AssistantsAt(m))
      <4>1. IsFiniteSet(1..Len(m))
        BY <3>2, FS_Interval
      <4> QED  BY <3>2, <4>1, FS_Subset
    <3>4. m = <<>> => AssistantsAt(m) = {}
      BY DEF AssistantsAt
    <3> QED  BY <3>3, <3>4, FS_CardinalityType, FS_EmptySet
                DEF countAssistantMessages
  <2>4. run[s].calls <= countAssistantMessages(m) /\ m # <<>>
        /\ run[r].index \in 1..run[s].calls
    <3> HIDE DEF m, s
    <3>1. run[r].index \in 1..run[s].calls
      BY <1>1, <1>3
    <3> QED  BY <1>1, <2>2, <2>3, <3>1
  <2>5. Good(u) /\ Upto(u, batches) /\ Begun(u)
    <3> HIDE DEF m, s
    <3> QED  BY <1>0, <1>1, <1>2, <2>4, CutGood
  <2> HIDE DEF u
  <2>6. /\ c.same = FALSE /\ c.msgs = u /\ c.ref = NoRef
        /\ c.approved = FALSE /\ c.deferred = FALSE
        /\ c.spent \in Nat /\ c.count \in Nat /\ c.lastIdx \in Nat
    BY <1>0, CheckpointNats DEF Checkpoint
  <2> HIDE DEF c
  <2>7. CheckpointOK(r, c)
    BY <2>5, <2>6 DEF CheckpointOK, Refs, NoRef
  <2> QED  BY <2>1, <2>7
<1>4. CASE run[r].mode # "retry"
  <2> DEFINE u == IF m = <<>> THEN <<Prompt>> ELSE m
             ref == IF Pend(u) = {} THEN NoRef ELSE pendingToolCallOrigin(s)
             c == Checkpoint(FALSE, u, DurableToolDispatches(s), ref, FALSE,
                             run[r].mode = "continue", r)
  <2>1. sourceCheckpoint(r) = c
    BY <1>4 DEF sourceCheckpoint, Saved, Pend
  <2>2. Good(u) /\ Upto(u, batches) /\ Begun(u)
    <3> HIDE DEF m
    <3> QED  BY <1>0, <1>2, PromptGood
  <2> HIDE DEF u
  <2>3. ref \in Refs
    <3>1. s \in Nat /\ s <= MaxRuns
      BY <1>1, AgentLoopAssumption DEF Runs
    <3>2. pendingToolCallOrigin(s) \in Refs
      BY <1>0, <3>1, OriginRef
    <3> QED  BY <3>2 DEF Refs, NoRef
  <2> HIDE DEF ref
  <2>4. /\ c.same = FALSE /\ c.msgs = u /\ c.ref = ref
        /\ c.approved = FALSE
        /\ c.spent \in Nat /\ c.count \in Nat /\ c.lastIdx \in Nat
    BY <1>0, CheckpointNats DEF Checkpoint
  <2> HIDE DEF c
  <2>5. CheckpointOK(r, c)
    BY <2>2, <2>3, <2>4 DEF CheckpointOK
  <2> QED  BY <2>1, <2>5
<1> QED  BY <1>3, <1>4

(* Every worker starts from a conversation a provider accepts. *)
LEMMA ResumeCheckpoint ==
    ASSUME LoopInv, NEW r \in Runs, ~CheckpointUnavailable(r)
    PROVE  CheckpointOK(r, resumeCheckpointForRun(r))
<1>1. CASE conv[r] # NoConv
  BY <1>1, OwnCheckpoint DEF resumeCheckpointForRun
<1>2. CASE conv[r] = NoConv /\ run[r].mode # "fresh"
  BY <1>2, SourceCheckpointOK DEF resumeCheckpointForRun
<1>3. CASE conv[r] = NoConv /\ run[r].mode = "fresh"
  <2> DEFINE c == Checkpoint(FALSE, <<Prompt>>, {}, NoRef, FALSE, FALSE, r)
  <2>0. Types /\ batches \in Nat
    BY Facts
  <2>1. resumeCheckpointForRun(r) = c
    BY <1>3 DEF resumeCheckpointForRun
  <2>2. /\ c.same = FALSE /\ c.msgs = <<Prompt>> /\ c.ref = NoRef
        /\ c.approved = FALSE /\ c.deferred = FALSE
        /\ c.spent \in Nat /\ c.count \in Nat /\ c.lastIdx \in Nat
    BY <2>0, CheckpointNats DEF Checkpoint
  <2> HIDE DEF c
  <2>3. CheckpointOK(r, c)
    BY <1>3, <2>0, <2>2, PromptGood DEF CheckpointOK, Refs, NoRef
  <2> QED  BY <2>1, <2>3
<1> QED  BY <1>1, <1>2, <1>3

(* Hydrate does what HydrateDoes says. *)
LEMMA HydrateEffect ==
    ASSUME Types, NEW r \in Runs, NEW c, Hydrate(r, c)
    PROVE  /\ HydrateDoes(r, c)
           /\ c.same => SavesTo(r, c.msgs)
           /\ ~c.same => conv' = conv
<1> DEFINE x == [Idle EXCEPT
                !.pc = IF InvalidBundle(c.msgs) THEN "fail"
                       ELSE IF RecoveryMatches(c) = {} THEN "normalize"
                       ELSE IF c.same THEN "settle" ELSE "inherit",
                !.msgs = c.msgs,
                !.pending = pendingToolCallsForResume(c.msgs),
                !.matches = RecoveryMatches(c),
                !.left = IF c.same THEN {} ELSE RecoveryMatches(c),
                !.ref = c.ref, !.same = c.same,
                !.approved = c.approved, !.deferred = c.deferred,
                !.spent = c.spent, !.count = c.count,
                !.next = c.lastIdx + 1, !.done = c.done]
<1>0. ex' = [ex EXCEPT ![r] = x]
  BY DEF Hydrate
<1>x. /\ DOMAIN x = Fields
      /\ x.pc = IF InvalidBundle(c.msgs) THEN "fail"
                ELSE IF RecoveryMatches(c) = {} THEN "normalize"
                ELSE IF c.same THEN "settle" ELSE "inherit"
      /\ x.msgs = c.msgs /\ x.pending = Pend(c.msgs)
      /\ x.matches = RecoveryMatches(c)
      /\ x.left = IF c.same THEN {} ELSE RecoveryMatches(c)
      /\ x.ref = c.ref
      /\ x.approved = c.approved /\ x.deferred = c.deferred
      /\ x.spent = c.spent /\ x.count = c.count
      /\ x.next = c.lastIdx + 1
  BY DEF Idle, Fields, Pend
<1> HIDE DEF x
<1>y. DOMAIN ex' = Runs /\ ex'[r] = x /\ \A q \in Runs \ {r} : ex'[q] = ex[q]
  BY <1>0 DEF Types
<1>1. HydrateDoes(r, c)
  BY <1>x, <1>y DEF HydrateDoes
<1> QED  BY <1>1 DEF Hydrate, SavesTo

(* An approval that counts for the pending calls covers them. *)
LEMMA ApprovedCovers ==
    ASSUME LoopInv, NEW r \in Runs, NEW calls,
           sameRunPendingToolCallsApproved(r, calls)
    PROVE  \A i \in calls : Granted(r, Bat(Saved(r)).batch, i)
<1>0. Types /\ RequestsOK(r)
  BY Facts
<1>1. PICK n \in DOMAIN steps[r] :
        /\ steps[r][n].idx = LastIndex(r)
        /\ steps[r][n].kind = "approval"
        /\ steps[r][n].calls = calls
        /\ \E k \in DOMAIN appr[r] :
              appr[r][k].step = n /\ appr[r][k].status = "approved"
  BY DEF sameRunPendingToolCallsApproved
<1>2. PICK k \in DOMAIN appr[r] : appr[r][k].step = n /\ appr[r][k].status = "approved"
  BY <1>1
<1>3. \A m \in DOMAIN steps[r] : steps[r][m].idx <= steps[r][n].idx
  BY <1>0, <1>1, Counts
<1>4. /\ appr[r][k].calls = calls
      /\ appr[r][k].batch = Bat(Saved(r)).batch
  BY <1>0, <1>1, <1>2, <1>3 DEF RequestsOK
<1> QED  BY <1>2, <1>4 DEF Granted

(* ClaimRun keeps the invariant. *)
LEMMA ClaimRunKeeps ==
    ASSUME LoopInv, NEW r \in Runs, ClaimRun(r)
    PROVE  LoopInv'
<1>0. /\ Types /\ SavedOK(r) /\ RequestsOK(r) /\ batches \in Nat
      /\ run[r].status = "queued" /\ ~Active(r)
      /\ UNCHANGED <<steps, appr, batches, effects>>
  BY Facts DEF ClaimRun, Active
<1>1. CASE run' = [run EXCEPT ![r].status = "failed"] /\ UNCHANGED <<conv, ex>>
  <2>1. RunsKept
    BY <1>0, <1>1, OneStatus DEF Statuses, Terminal
  <2> QED  BY <1>0, <1>1, <2>1, NoApprovalsChange, NoExecutorsChange, KeptStep
<1>2. CASE /\ ~CheckpointUnavailable(r)
           /\ run' = [run EXCEPT ![r].status = "running"]
           /\ Hydrate(r, resumeCheckpointForRun(r))
  <2> DEFINE c == resumeCheckpointForRun(r)
             matches == RecoveryMatches(c)
  <2>1. CheckpointOK(r, c)
    BY <1>2, ResumeCheckpoint
  <2>2. /\ HydrateDoes(r, c)
        /\ c.same => SavesTo(r, c.msgs)
        /\ ~c.same => conv' = conv
    BY <1>0, <1>2, HydrateEffect
  <2> HIDE DEF c
  <2>3. matches \subseteq Pend(c.msgs)
    BY DEF RecoveryMatches, Pend
  <2>4. /\ Good(c.msgs) /\ Upto(c.msgs, batches) /\ Begun(c.msgs)
        /\ c.ref \in Refs /\ c.spent \in Nat /\ c.count \in Nat /\ c.lastIdx \in Nat
        /\ c.same <=> conv[r] # NoConv
        /\ c.same => c.msgs = Saved(r) /\ c.lastIdx = LastIndex(r)
        /\ c.deferred => ~c.same
        /\ c.approved => /\ c.same
                         /\ sameRunPendingToolCallsApproved(r, Pend(c.msgs))
    BY <2>1 DEF CheckpointOK
  <2>5. /\ c.msgs \in Seq(Messages) /\ c.msgs # <<>> /\ Pend(c.msgs) \subseteq Nat
        /\ c.lastIdx + 1 \in Nat
    BY <2>4, PendingBatch DEF Good, Begun
  <2>c. /\ conv' \in [Runs -> Conversations]
        /\ \A q \in Runs \ {r} : conv'[q] = conv[q]
        /\ conv'[r] # NoConv <=> conv[r] # NoConv
        /\ Saved(r)' = Saved(r)
    <3>1. CASE c.same
      BY <1>0, <2>2, <2>4, <2>5, <3>1, SavedTo
    <3>2. CASE ~c.same
      BY <1>0, <2>2, <3>2 DEF Types, Saved
    <3> QED  BY <3>1, <3>2
  <2>d. /\ DOMAIN ex' = Runs /\ DOMAIN ex'[r] = Fields
        /\ \A q \in Runs \ {r} : ex'[q] = ex[q]
        /\ ex'[r].pc \in {"fail", "normalize", "settle", "inherit"}
        /\ ex'[r].pc \in {"settle", "inherit"} => matches # {}
        /\ ex'[r].pc = "inherit" => ~c.same
        /\ ex'[r].msgs = c.msgs /\ ex'[r].pending = Pend(c.msgs)
        /\ ex'[r].matches = matches
        /\ ex'[r].left = IF c.same THEN {} ELSE matches
        /\ ex'[r].ref = c.ref
        /\ ex'[r].approved = c.approved /\ ex'[r].deferred = c.deferred
        /\ ex'[r].spent = c.spent /\ ex'[r].count = c.count
        /\ ex'[r].next = c.lastIdx + 1
    BY <2>2 DEF HydrateDoes
  <2> HIDE DEF matches
  <2>6. RunsKept
    BY <1>0, <1>2, OneStatus DEF Statuses, Terminal
  <2>7. RetryOK' /\ \A q \in Runs : RunTypes(q)'
    BY <2>6, RetryKept
  <2>8. Types'
    <3>1. FieldsOK(r)'
      BY <2>3, <2>4, <2>5, <2>d DEF FieldsOK, Pcs
    <3>2. ASSUME NEW q \in Runs \ {r} PROVE FieldsOK(q)'
      BY <1>0, <2>d DEF Types, FieldsOK
    <3>3. \A q \in Runs : FieldsOK(q)' /\ DOMAIN ex'[q] = Fields
      BY <1>0, <2>d, <3>1, <3>2 DEF Types
    <3> QED  BY <1>0, <2>6, <2>7, <2>c, <2>d, <3>3 DEF Types, RunsKept
  <2>9. OfRun(r)
    BY <1>0, <2>c, <2>d DEF OfRun
  <2>10. SavedOK(r)'
    BY <1>0, <2>c DEF SavedOK
  <2>11. WorkOK(r)'
    BY <1>0, <2>4, <2>c, <2>d DEF WorkOK
  <2>12. PhaseOK(r)'
    BY <2>3, <2>d DEF PhaseOK
  <2>13. RequestsOK(r)'
    <3>1. SameSteps(r)
      BY <1>0, StepTypes DEF SameSteps
    <3>2. \/ \A n \in DOMAIN steps[r] : steps[r][n].idx < ex'[r].next
          \/ conv[r] = NoConv
      <4>1. /\ LastIndex(r) \in Nat
            /\ \A n \in DOMAIN steps[r] : /\ steps[r][n].idx <= LastIndex(r)
                                          /\ steps[r][n].idx \in Nat
        BY <1>0, Counts, StepTypes
      <4> QED  BY <2>4, <2>d, <4>1
    <3>3. ex'[r].pc # "save"
      BY <2>d
    <3> QED  BY <1>0, <2>c, <3>1, <3>2, <3>3, RequestsKept
  <2>14. GrantsOK(r)'
    <3>1. c.approved => \A i \in Pend(c.msgs) : Granted(r, Bat(c.msgs).batch, i)
      BY <2>4, ApprovedCovers
    <3>2. \A b, i : Granted(r, b, i) => Granted(r, b, i)'
      BY <1>0 DEF Granted
    <3> QED  BY <2>d, <3>1, <3>2 DEF GrantsOK
  <2>15. GatedNeedsApproval'
    BY <1>0 DEF GatedNeedsApproval, LoopInv
  <2>16. \A q \in Runs : RunOK(q)'
    BY <2>9, <2>10, <2>11, <2>12, <2>13, <2>14, OthersOK DEF RunOK
  <2> QED  BY <2>7, <2>8, <2>15, <2>16 DEF LoopInv
<1> QED  BY <1>1, <1>2 DEF ClaimRun

-----------------------------------------------------------------------------

(* The invariant holds initially. *)
LEMMA InitLoop == Init => LoopInv
<1> SUFFICES ASSUME Init PROVE LoopInv
  OBVIOUS
<1>0. 0 \in Nat /\ <<>> \in Seq(Messages) /\ NoConv \in Conversations
  BY DEF NoConv, Conversations
<1>1. /\ DOMAIN run = Runs
      /\ \A r \in Runs : /\ DOMAIN run[r] = RunFields /\ RunTypes(r)
                         /\ run[r].mode = "fresh"
  BY DEF Init, RunFields, RunTypes, Statuses, Modes
<1>2. /\ DOMAIN ex = Runs
      /\ \A r \in Runs : ex[r] = Idle /\ conv[r] = NoConv
                         /\ steps[r] = <<>> /\ appr[r] = <<>>
      /\ batches = 0 /\ effects = {}
  BY DEF Init
<1>3. Types
  <2>1. \A r \in Runs : FieldsOK(r) /\ DOMAIN ex[r] = Fields
    BY <1>2, IdleFields DEF FieldsOK, Pcs
  <2>2. /\ conv \in [Runs -> Conversations] /\ steps \in [Runs -> Seq(Steps)]
        /\ appr \in [Runs -> Seq(Approvals)]
    BY <1>0 DEF Init
  <2> QED  BY <1>0, <1>1, <1>2, <2>1, <2>2 DEF Types
<1>4. ASSUME NEW r \in Runs PROVE RunOK(r)
  <2>1. ex[r].pc = "idle" /\ ~Active(r)
    BY <1>2, IdleFields DEF Active
  <2>2. Saved(r) = <<>>
    BY <1>2 DEF Saved, completedConversationMessages, NoConv
  <2>3. Good(<<>>) /\ Upto(<<>>, 0)
    BY <1>0 DEF Good, Upto, AssistantsAt
  <2>4. SavedOK(r)
    BY <1>2, <2>2, <2>3 DEF SavedOK
  <2>5. WorkOK(r) /\ PhaseOK(r) /\ GrantsOK(r)
    BY <2>1 DEF WorkOK, PhaseOK, GrantsOK
  <2>6. RequestsOK(r)
    BY <1>2, <2>1 DEF RequestsOK
  <2> QED  BY <2>4, <2>5, <2>6 DEF RunOK
<1>5. RetryOK /\ GatedNeedsApproval
  BY <1>1, <1>2 DEF RetryOK, GatedNeedsApproval
<1> QED  BY <1>3, <1>4, <1>5 DEF LoopInv

(* A stuttering step keeps the invariant. *)
LEMMA UnchangedLoop ==
    ASSUME LoopInv, UNCHANGED vars
    PROVE  LoopInv'
<1>1. RunsKept
  <2>1. \A q \in Runs : run[q].calls >= run[q].calls
    BY DEF LoopInv, Types, RunTypes
  <2> QED  BY <2>1 DEF vars, RunsKept, LoopInv, Types, RunTypes
<1> QED  BY <1>1, NoApprovalsChange, NoExecutorsChange, KeptStep DEF vars

(* Every step keeps the invariant. *)
LEMMA NextLoop ==
    ASSUME LoopInv, [Next]_vars
    PROVE  LoopInv'
<1>1. ASSUME NEW r \in Runs,
             \/ \E budget \in ResumeBudgets : ResumeTaskRun(r, budget)
             \/ ContinueAgentTask(r)
             \/ \E k \in 1..MaxModelCalls : RetryTaskFromModelCall(r, k)
      PROVE  LoopInv'
  BY <1>1, NewRunKeeps
<1>2. ASSUME NEW r \in Runs, NEW k \in DOMAIN appr[r],
             ApproveAndResume(r, k) \/ RejectApproval(r, k)
      PROVE  LoopInv'
  BY <1>2, ApproveAndResumeKeeps, RejectApprovalKeeps
<1>3. ASSUME NEW r \in Runs,
             \/ CancelRun(r) \/ cancelInFlightJob(r) \/ ClaimRun(r) \/ SettleRun(r) \/ WriteFails(r)
             \/ InheritDispatch(r) \/ settleAmbiguousToolDispatch(r)
             \/ RecoverToolResult(r) \/ CloseSuperseded(r)
             \/ AppendDeferredContinuation(r)
      PROVE  LoopInv'
  BY <1>3, CancelRunKeeps, cancelInFlightJobKeeps, ClaimRunKeeps,
       SettleRunKeeps, WriteFailsKeeps,
     InheritDispatchKeeps, settleAmbiguousToolDispatchKeeps, RecoverToolResultKeeps,
     CloseSupersededKeeps, AppendDeferredContinuationKeeps
<1>4. ASSUME NEW r \in Runs,
             \/ CeilingReached(r) \/ RecoverAnswer(r) \/ EnterLoop(r)
             \/ StopCancelled(r) \/ GatePending(r) \/ ResumePending(r)
             \/ AwaitApproval(r) \/ ModelCallLimit(r) \/ CallModel(r)
      PROVE  LoopInv'
  BY <1>4, CeilingReachedKeeps, RecoverAnswerKeeps, EnterLoopKeeps,
     StopCancelledKeeps, GatePendingKeeps, ResumePendingKeeps,
     AwaitApprovalKeeps, ModelCallLimitKeeps, CallModelKeeps
<1>5. ASSUME NEW r \in Runs,
             \/ StreamPartial(r) \/ ModelAnswers(r) \/ ModelCallFails(r)
             \/ SaveModelStep(r) \/ SaveAssistant(r) \/ SaveIntent(r)
             \/ Dispatch(r) \/ FinalizeStep(r) \/ SaveToolResult(r)
             \/ failedFromError(r) \/ CreateApproval(r)
      PROVE  LoopInv'
  BY <1>5, StreamPartialKeeps, ModelAnswersKeeps, ModelCallFailsKeeps,
     SaveModelStepKeeps, SaveAssistantKeeps, SaveIntentKeeps, DispatchKeeps,
     FinalizeStepKeeps, SaveToolResultKeeps, failedFromErrorKeeps,
     CreateApprovalKeeps
<1> QED  BY <1>1, <1>2, <1>3, <1>4, <1>5, CrashKeeps, UnchangedLoop DEF Next

(* What is in hand agrees with what is stored in every reachable state. *)
THEOREM LoopInvariant == Spec => []LoopInv
<1>1. Init => LoopInv
  BY InitLoop
<1>2. LoopInv /\ [Next]_vars => LoopInv'
  BY NextLoop
<1> QED  BY <1>1, <1>2, PTL DEF Spec

(* GatedNeedsApproval: a gated tool call takes effect only in a run in     *)
(* which the operator approved it; sameRunPendingToolCallsApproved never   *)
(* takes an approval from another run, batch or an unanswered request.     *)
THEOREM ApprovalTheorem == Spec => []GatedNeedsApproval
<1>1. LoopInv => GatedNeedsApproval
  BY DEF LoopInv
<1> QED  BY <1>1, LoopInvariant, PTL

(* ConversationWellFormed: what UpsertArtifact stores is a conversation in *)
(* which every batch of tool calls but the last is answered, one result    *)
(* per call, through crashes, recovery, continuations and retries.         *)
THEOREM ConversationTheorem == Spec => []ConversationWellFormed
<1>1. LoopInv => ConversationWellFormed
  <2> SUFFICES ASSUME LoopInv, NEW r \in Runs
               PROVE  BatchesAnswered(completedConversationMessages(conv[r]))
    BY DEF ConversationWellFormed
  <2>1. Good(Saved(r))
    BY SavedBegun
  <2> QED  BY <2>1, GoodAnswered DEF Saved
<1> QED  BY <1>1, LoopInvariant, PTL

-----------------------------------------------------------------------------
(* The tree of runs. *)

-----------------------------------------------------------------------------

(* What is known of stored steps. *)
LEMMA StepsTyped ==
    ASSUME NEW s \in Seq(Steps)
    PROVE  /\ Len(s) \in Nat /\ DOMAIN s = 1..Len(s)
           /\ \A n \in DOMAIN s : /\ s[n].idx \in Nat /\ s[n].ref \in Refs
                                  /\ s[n].call \in Nat /\ n \in Nat
<1>1. Len(s) \in Nat /\ DOMAIN s = 1..Len(s) /\ \A n \in 1..Len(s) : s[n] \in Steps
  OBVIOUS
<1>2. \A x \in Steps : x.idx \in Nat /\ x.ref \in Refs /\ x.call \in Nat
  BY DEF Steps
<1> QED  BY <1>1, <1>2

(* The newest reference is that of a step no other is newer than. *)
LEMMA NewestIs ==
    ASSUME NEW s \in Seq(Steps), WithRef(s) # {}
    PROVE  \E n \in WithRef(s) :
             NewestRef(s) = s[n].ref /\ \A m \in WithRef(s) : Newer(s, m, n)
<1> DEFINE W == WithRef(s)
           idxs == {s[n].idx : n \in W}
           top == Max(idxs)
           N == {n \in W : s[n].idx = top}
           k == Max(N)
<1>0. /\ Len(s) \in Nat /\ DOMAIN s = 1..Len(s)
      /\ \A n \in DOMAIN s : s[n].idx \in Nat
  BY StepsTyped
<1>1. W \subseteq DOMAIN s /\ W # {}
  BY DEF WithRef
<1>2. NewestRef(s) = s[k].ref
  BY DEF NewestRef
<1> HIDE DEF W
<1>3. PICK b \in Nat : \A n \in DOMAIN s : s[n].idx <= b
  <2> DEFINE a == [n \in 1..Len(s) |-> s[n].idx]
  <2>1. a \in Seq(Nat) /\ DOMAIN a = 1..Len(s)
    BY <1>0
  <2>2. PICK c \in Nat : \A n \in DOMAIN a : a[n] <= c
    BY <2>1, NatSeqBounded
  <2> QED  BY <1>0, <2>1, <2>2
<1>4. idxs \subseteq Nat /\ idxs # {} /\ \A i \in idxs : i <= b
  BY <1>0, <1>1, <1>3
<1>5. top \in idxs /\ \A i \in idxs : i <= top
  <2> HIDE DEF idxs
  <2> QED  BY <1>3, <1>4, MaxNat
<1> HIDE DEF top
<1>6. N # {} /\ N \subseteq Nat /\ \A n \in N : n <= Len(s)
  BY <1>0, <1>1, <1>5
<1>7. k \in N /\ \A n \in N : n <= k
  <2> HIDE DEF N
  <2> QED  BY <1>0, <1>6, MaxNat
<1> HIDE DEF k
<1>8. ASSUME NEW m \in W PROVE Newer(s, m, k)
  <2>1. s[m].idx <= top /\ s[k].idx = top /\ s[m].idx \in Nat /\ top \in Nat
    BY <1>0, <1>1, <1>4, <1>5, <1>7
  <2>2. s[m].idx = top => m <= k
    BY <1>7
  <2> QED  BY <2>1, <2>2 DEF Newer
<1> QED  BY <1>2, <1>7, <1>8 DEF W

(* Such a step determines it. *)
LEMMA NewestUnique ==
    ASSUME NEW s \in Seq(Steps), NEW n \in WithRef(s),
           \A m \in WithRef(s) : Newer(s, m, n)
    PROVE  NewestRef(s) = s[n].ref
<1>1. PICK k \in WithRef(s) :
        NewestRef(s) = s[k].ref /\ \A m \in WithRef(s) : Newer(s, m, k)
  BY NewestIs
<1>2. Newer(s, k, n) /\ Newer(s, n, k)
  BY <1>1
<1>3. s[k].idx \in Nat /\ s[n].idx \in Nat /\ k \in Nat /\ n \in Nat
  BY <1>1, StepsTyped DEF WithRef
<1>4. k = n
  BY <1>2, <1>3 DEF Newer
<1> QED  BY <1>1, <1>4

(* There is none exactly when no step names a model call. *)
LEMMA NewestNone ==
    ASSUME NEW s \in Seq(Steps)
    PROVE  /\ NewestRef(s) = NoRef <=> WithRef(s) = {}
           /\ NewestRef(s) \in Refs
<1>1. CASE WithRef(s) = {}
  BY <1>1 DEF NewestRef, Refs, NoRef
<1>2. CASE WithRef(s) # {}
  <2>1. PICK n \in WithRef(s) : NewestRef(s) = s[n].ref
    BY <1>2, NewestIs
  <2> QED  BY <1>2, <2>1, StepsTyped DEF WithRef
<1> QED  BY <1>1, <1>2

(* How an appended step changes what the newest names. *)
LEMMA WithRefAppend ==
    ASSUME NEW s \in Seq(Steps), NEW x \in Steps
    PROVE  LET u == Append(s, x) IN
           /\ u \in Seq(Steps) /\ Len(u) = Len(s) + 1 /\ u[Len(u)] = x
           /\ \A n \in DOMAIN s : n \in DOMAIN u /\ u[n] = s[n] /\ n < Len(u)
           /\ \A n \in DOMAIN u : n = Len(u) \/ n \in DOMAIN s
           /\ x.ref = NoRef => WithRef(u) = WithRef(s)
           /\ x.ref # NoRef => WithRef(u) = WithRef(s) \cup {Len(u)}
<1> DEFINE u == Append(s, x)
<1>1. /\ u \in Seq(Steps) /\ Len(u) = Len(s) + 1 /\ u[Len(u)] = x
      /\ Len(s) \in Nat /\ DOMAIN s = 1..Len(s) /\ DOMAIN u = 1..(Len(s) + 1)
      /\ \A n \in 1..Len(s) : u[n] = s[n]
  OBVIOUS
<1> HIDE DEF u
<1>2. /\ \A n \in DOMAIN s : n \in DOMAIN u /\ u[n] = s[n] /\ n < Len(u)
      /\ \A n \in DOMAIN u : n = Len(u) \/ n \in DOMAIN s
      /\ Len(u) \in DOMAIN u
  BY <1>1
<1>3. /\ x.ref = NoRef => WithRef(u) = WithRef(s)
      /\ x.ref # NoRef => WithRef(u) = WithRef(s) \cup {Len(u)}
  BY <1>1, <1>2 DEF WithRef
<1> QED  BY <1>1, <1>2, <1>3 DEF u

(* A step without a model call does not change the newest one. *)
LEMMA AppendNoRef ==
    ASSUME NEW s \in Seq(Steps), NEW x \in Steps, x.ref = NoRef
    PROVE  NewestRef(Append(s, x)) = NewestRef(s)
<1> DEFINE u == Append(s, x)
<1>1. /\ u \in Seq(Steps) /\ WithRef(u) = WithRef(s)
      /\ \A n \in DOMAIN s : u[n] = s[n]
  BY WithRefAppend
<1> HIDE DEF u
<1>2. CASE WithRef(s) = {}
  BY <1>1, <1>2, NewestNone DEF u
<1>3. CASE WithRef(s) # {}
  <2>1. PICK n \in WithRef(s) :
          NewestRef(s) = s[n].ref /\ \A m \in WithRef(s) : Newer(s, m, n)
    BY <1>3, NewestIs
  <2>2. \A m \in WithRef(u) : Newer(u, m, n)
    BY <1>1, <2>1 DEF WithRef, Newer
  <2>3. NewestRef(u) = u[n].ref
    BY <1>1, <2>1, <2>2, NewestUnique
  <2>4. u[n].ref = s[n].ref
    BY <1>1, <2>1 DEF WithRef
  <2> QED  BY <2>1, <2>3, <2>4 DEF u
<1> QED  BY <1>2, <1>3

(* A step that repeats the newest one does not change it. *)
LEMMA AppendSame ==
    ASSUME NEW s \in Seq(Steps), NEW x \in Steps, x.ref # NoRef,
           NewestRef(s) \in {NoRef, x.ref}
    PROVE  NewestRef(Append(s, x)) = x.ref
<1> DEFINE u == Append(s, x)
           l == Len(u)
<1>1. /\ u \in Seq(Steps) /\ WithRef(u) = WithRef(s) \cup {l} /\ u[l] = x
      /\ \A n \in DOMAIN s : u[n] = s[n] /\ n < l
  BY WithRefAppend
<1>2. l \in Nat /\ x.idx \in Nat
  BY DEF Steps
<1> HIDE DEF u, l
<1>3. CASE WithRef(s) = {}
  <2>1. \A m \in WithRef(u) : Newer(u, m, l)
    BY <1>1, <1>2, <1>3 DEF Newer
  <2> QED  BY <1>1, <2>1, NewestUnique DEF u
<1>4. CASE WithRef(s) # {}
  <2>1. PICK n \in WithRef(s) :
          NewestRef(s) = s[n].ref /\ \A m \in WithRef(s) : Newer(s, m, n)
    BY <1>4, NewestIs
  <2>2. n \in DOMAIN s /\ u[n].ref = x.ref /\ n \in Nat /\ s[n].idx \in Nat
    BY <1>1, <1>4, <2>1, NewestNone, StepsTyped DEF WithRef
  <2>3. CASE x.idx < s[n].idx
    <3>1. \A m \in WithRef(u) : Newer(u, m, n)
      BY <1>1, <2>1, <2>2, <2>3 DEF Newer, WithRef
    <3> QED  BY <1>1, <2>1, <2>2, <3>1, NewestUnique DEF u
  <2>4. CASE ~(x.idx < s[n].idx)
    <3>1. ASSUME NEW m \in WithRef(u) PROVE Newer(u, m, l)
      <4>1. CASE m = l
        BY <1>2, <4>1 DEF Newer
      <4>2. CASE m \in WithRef(s)
        <5>1. m \in DOMAIN s /\ m \in Nat /\ s[m].idx \in Nat
          BY <4>2, StepsTyped DEF WithRef
        <5>2. Newer(s, m, n)
          BY <2>1, <4>2
        <5> QED  BY <1>1, <1>2, <2>2, <2>4, <5>1, <5>2 DEF Newer
      <4> QED  BY <1>1, <4>1, <4>2
    <3> QED  BY <1>1, <3>1, NewestUnique DEF u
  <2> QED  BY <2>3, <2>4
<1> QED  BY <1>3, <1>4

(* A step with the greatest index becomes the newest. *)
LEMMA AppendNewest ==
    ASSUME NEW s \in Seq(Steps), NEW x \in Steps, x.ref # NoRef,
           \A n \in WithRef(s) : s[n].idx <= x.idx
    PROVE  NewestRef(Append(s, x)) = x.ref
<1> DEFINE u == Append(s, x)
           l == Len(u)
<1>1. /\ u \in Seq(Steps) /\ WithRef(u) = WithRef(s) \cup {l} /\ u[l] = x
      /\ \A n \in DOMAIN s : u[n] = s[n] /\ n < l
  BY WithRefAppend
<1>2. l \in Nat /\ x.idx \in Nat
  BY DEF Steps
<1> HIDE DEF u, l
<1>3. ASSUME NEW m \in WithRef(u) PROVE Newer(u, m, l)
  <2>1. CASE m = l
    BY <1>2, <2>1 DEF Newer
  <2>2. CASE m \in WithRef(s)
    <3>1. m \in DOMAIN s /\ m \in Nat /\ s[m].idx \in Nat
      BY <2>2, StepsTyped DEF WithRef
    <3> QED  BY <1>1, <1>2, <2>2, <3>1 DEF Newer
  <2> QED  BY <1>1, <2>1, <2>2
<1> QED  BY <1>1, <1>3, NewestUnique DEF u

(* A status does not matter. *)
LEMMA NewestKept ==
    ASSUME Types, NEW r \in Runs, SameSteps(r)
    PROVE  /\ WithRef(steps'[r]) = WithRef(steps[r])
           /\ NewestRef(steps'[r]) = NewestRef(steps[r])
<1>0. steps[r] \in Seq(Steps) /\ steps'[r] \in Seq(Steps)
  BY DEF Types, SameSteps
<1>1. WithRef(steps'[r]) = WithRef(steps[r])
  BY DEF SameSteps, WithRef
<1>2. CASE WithRef(steps[r]) = {}
  BY <1>0, <1>1, <1>2, NewestNone
<1>3. CASE WithRef(steps[r]) # {}
  <2>1. PICK n \in WithRef(steps[r]) :
          /\ NewestRef(steps[r]) = steps[r][n].ref
          /\ \A m \in WithRef(steps[r]) : Newer(steps[r], m, n)
    BY <1>0, <1>3, NewestIs
  <2>2. \A m \in WithRef(steps'[r]) : Newer(steps'[r], m, n)
    BY <1>1, <2>1 DEF WithRef, Newer, SameSteps
  <2>3. NewestRef(steps'[r]) = steps'[r][n].ref
    BY <1>0, <1>1, <2>1, <2>2, NewestUnique
  <2> QED  BY <2>1, <2>3 DEF WithRef, SameSteps
<1> QED  BY <1>1, <1>2, <1>3

-----------------------------------------------------------------------------

(* A run that counted no step knows no origin: the boundary adds nothing. *)
LEMMA DirectIs ==
    ASSUME Types, NEW r \in Runs, CountOK(r)
    PROVE  directPendingToolCallOrigin(r) = NewestRef(steps[r])
<1>0. steps[r] \in Seq(Steps) /\ r \in Nat /\ r # 0
  BY ParentFacts DEF Types
<1>1. CASE WithRef(steps[r]) # {}
  BY <1>1 DEF directPendingToolCallOrigin, NewestRef, WithRef
<1>2. CASE WithRef(steps[r]) = {}
  <2>1. \A x \in Range(steps[r]) : x.ref = NoRef /\ x.kind # "model"
    <3>1. \A x \in Range(steps[r]) : \E n \in DOMAIN steps[r] : x = steps[r][n]
      BY DEF Range
    <3> QED  BY <1>2, <3>1 DEF CountOK, WithRef
  <2>2. NoRef[1] = 0
    BY DEF NoRef
  <2>3. {s.ref[2] : s \in {x \in Range(steps[r]) : x.kind = "model"}} = {}
    BY <2>1
  <2>4. {s.ref[2] : s \in {x \in Range(steps[r]) : x.kind = "tool" /\ x.ref[1] = r}} = {}
    BY <1>0, <2>1, <2>2
  <2>5. Max({0}) = 0
    BY DEF Max
  <2>6. completedModelCallCount(r) = 0
    <3>1. {0} \cup {} = {0}  OBVIOUS
    <3> QED  BY <2>3, <2>5, <3>1 DEF completedModelCallCount
  <2>7. ModelCallBoundary(r) = 0
    <3>1. run[r].calls = 0
      BY <1>2 DEF CountOK
    <3>2. {0, 0} \cup {} = {0}  OBVIOUS
    <3> QED  BY <2>4, <2>5, <2>6, <3>1, <3>2 DEF ModelCallBoundary
  <2> QED  BY <1>2, <2>7 DEF directPendingToolCallOrigin, NewestRef, WithRef
<1> QED  BY <1>1, <1>2

(* The origin of pending calls, by the runs that know it. *)
LEMMA OriginKnown ==
    ASSUME NEW r
    PROVE  Origin(r) = IF Known(r) = {} THEN NoRef
                       ELSE directPendingToolCallOrigin(Max(Known(r)))
BY DEF Origin, pendingToolCallOrigin, Known

(* Its own steps name it, or else the run it was started from. *)
LEMMA OriginIs ==
    LoopInv /\ ChainInv => \A r \in Runs :
      /\ NewestRef(steps[r]) # NoRef => Origin(r) = NewestRef(steps[r])
      /\ NewestRef(steps[r]) = NoRef => Origin(r) = Origin(Parent[r])
      /\ Origin(r) \in Refs /\ Origin(Parent[r]) \in Refs
<1> SUFFICES ASSUME LoopInv, ChainInv, NEW r \in Runs
             PROVE  /\ NewestRef(steps[r]) # NoRef => Origin(r) = NewestRef(steps[r])
                    /\ NewestRef(steps[r]) = NoRef => Origin(r) = Origin(Parent[r])
                    /\ Origin(r) \in Refs /\ Origin(Parent[r]) \in Refs
  OBVIOUS
<1>0. /\ r \in Nat /\ r >= 1 /\ r <= MaxRuns /\ Types
      /\ Parent[r] \in Nat /\ Parent[r] <= MaxRuns
  BY AgentLoopAssumption, ParentFacts DEF Runs, LoopInv
<1>1. directPendingToolCallOrigin(r) = NewestRef(steps[r])
  BY <1>0, DirectIs DEF ChainInv
<1>r. Origin(r) \in Refs /\ Origin(Parent[r]) \in Refs
  BY <1>0, OriginRef DEF Origin
<1>l. r \in Line(r) /\ \A q \in Line(r) : q \in Nat /\ q <= r
  BY LineClosed
<1>2. CASE NewestRef(steps[r]) # NoRef
  <2>1. r \in Known(r)
    BY <1>l, <1>1, <1>2 DEF Known
  <2>2. Known(r) \subseteq Nat /\ \A q \in Known(r) : q <= r
    BY <1>l DEF Known
  <2>3. Max(Known(r)) = r
    <3>1. Max(Known(r)) \in Known(r) /\ \A q \in Known(r) : q <= Max(Known(r))
      BY <1>0, <2>1, <2>2, MaxNat
    <3> QED  BY <1>0, <2>1, <2>2, <3>1
  <2> QED  BY <1>1, <1>2, <1>r, <2>1, <2>3, OriginKnown
<1>3. CASE NewestRef(steps[r]) = NoRef
  <2>1. Known(r) = Known(Parent[r])
    <3>1. \A q : q \in Line(r) <=> q = r \/ q \in Line(Parent[r])
      BY LineStep
    <3> QED  BY <1>1, <1>3, <3>1 DEF Known
  <2> QED  BY <1>3, <1>r, <2>1, OriginKnown
<1> QED  BY <1>2, <1>3

(* The same, after a step. *)
LEMMA OriginIsNext ==
    ASSUME LoopInv', ChainInv'
    PROVE  \A r \in Runs :
      /\ NewestRef(steps'[r]) # NoRef => Origin(r)' = NewestRef(steps'[r])
      /\ NewestRef(steps'[r]) = NoRef => Origin(r)' = Origin(Parent[r])'
      /\ Origin(r)' \in Refs /\ Origin(Parent[r])' \in Refs
<1>1. (\A r \in Runs :
      /\ NewestRef(steps[r]) # NoRef => Origin(r) = NewestRef(steps[r])
      /\ NewestRef(steps[r]) = NoRef => Origin(r) = Origin(Parent[r])
      /\ Origin(r) \in Refs /\ Origin(Parent[r]) \in Refs)'
  BY OriginIs, PTL
<1> QED  BY <1>1 DEF NewestRef, WithRef

(* DirectIs for all runs at once. *)
LEMMA DirectAll ==
    LoopInv /\ ChainInv =>
      \A q \in Runs : directPendingToolCallOrigin(q) = NewestRef(steps[q])
BY DirectIs DEF LoopInv, ChainInv

(* It stays while the newest steps of the runs it goes back to stay. *)
LEMMA OriginKept ==
    ASSUME LoopInv, ChainInv, LoopInv', ChainInv', NEW r \in Runs \cup {0},
           \A q \in Line(r) : NewestRef(steps'[q]) = NewestRef(steps[q])
    PROVE  Origin(r)' = Origin(r)
<1>1. \A q \in Runs : directPendingToolCallOrigin(q) = NewestRef(steps[q])
  BY DirectAll
<1>2. (\A q \in Runs : directPendingToolCallOrigin(q) = NewestRef(steps[q]))'
  BY DirectAll, PTL
<1>3. /\ Line(r) \subseteq Runs /\ r \in Nat
      /\ \A q \in Line(r) : q \in Nat /\ q <= r
  <2>1. CASE r \in Runs
    BY <2>1, LineClosed, RunsNat
  <2>2. CASE r = 0
    BY <2>2 DEF Line
  <2> QED  BY <2>1, <2>2
<1>4. \A q \in Line(r) : directPendingToolCallOrigin(q)' = directPendingToolCallOrigin(q)
  BY <1>1, <1>2, <1>3 DEF NewestRef, WithRef
<1>l. Line(r)' = Line(r)
  BY DEF Line, Runs
<1>5. Known(r)' = Known(r)
  BY <1>4, <1>l DEF Known
<1>6. Known(r) # {} => Max(Known(r)) \in Line(r)
  <2>1. Known(r) \subseteq Nat /\ Known(r) \subseteq Line(r) /\ \A q \in Known(r) : q <= r
    BY <1>3 DEF Known
  <2> QED  BY <1>3, <2>1, MaxNat
<1>7. (Origin(r) = IF Known(r) = {} THEN NoRef
                   ELSE directPendingToolCallOrigin(Max(Known(r))))'
  BY DEF Origin, pendingToolCallOrigin, Known
<1> QED  BY <1>4, <1>5, <1>6, <1>7, OriginKnown

(* A step that names it, or no model call, does not change it. *)
LEMMA OriginAdd ==
    ASSUME LoopInv, ChainInv, LoopInv', ChainInv', NEW r \in Runs, NEW s \in Steps,
           AddsStep(r, s), s.ref \in {NoRef, Origin(r)}
    PROVE  Origin(r)' = Origin(r)
<1>0. /\ Types /\ steps[r] \in Seq(Steps) /\ steps'[r] = Append(steps[r], s)
      /\ \A q \in Runs \ {r} : steps'[q] = steps[q]
  BY DEF LoopInv, Types, AddsStep
<1>1. Line(r) \subseteq Runs
  BY LineFacts
<1>2. CASE s.ref = NoRef
  <2>1. NewestRef(steps'[r]) = NewestRef(steps[r])
    BY <1>0, <1>2, AppendNoRef
  <2>2. \A q \in Line(r) : NewestRef(steps'[q]) = NewestRef(steps[q])
    BY <1>0, <1>1, <2>1
  <2> QED  BY <1>1, <2>2, OriginKept
<1>3. CASE s.ref # NoRef
  <2>1. NewestRef(steps[r]) \in {NoRef, s.ref}
    BY <1>3, OriginIs
  <2>2. NewestRef(steps'[r]) = s.ref
    BY <1>0, <1>3, <2>1, AppendSame
  <2> QED  BY <1>3, <2>2, OriginIsNext
<1> QED  BY <1>2, <1>3

-----------------------------------------------------------------------------

(* A step that is built from typed parts. *)
LEMMA StepIs ==
    ASSUME NEW kind \in {"tool", "model", "approval", "control", "failure"},
           NEW idx \in Nat, NEW ref \in Refs, NEW call \in Nat,
           NEW status \in {"running", "completed", "failed", "awaiting_approval"},
           NEW calls, calls \subseteq Nat, NEW cost \in Nat
    PROVE  LET s == Step(kind, idx, ref, call, status, calls, cost) IN
           /\ s \in Steps
           /\ s.kind = kind /\ s.idx = idx /\ s.ref = ref /\ s.call = call
           /\ s.status = status /\ s.calls = calls
BY DEF Step, Steps

(* The first pending, inherited or matched call is one of them. *)
LEMMA FirstIs ==
    ASSUME LoopInv, NEW r \in Runs
    PROVE  /\ ex[r].next \in Nat /\ ex[r].ref \in Refs /\ ex[r].count \in Nat
           /\ ex[r].spent \in Nat /\ ex[r].pending \subseteq Nat
           /\ ex[r].left \subseteq Nat /\ ex[r].matches \subseteq Nat
           /\ ex[r].pending # {} => Min(ex[r].pending) \in Nat
                                    /\ Min(ex[r].pending) \in ex[r].pending
           /\ ex[r].left # {} => Min(ex[r].left) \in Nat /\ Min(ex[r].left) \in ex[r].left
           /\ ex[r].matches # {} => Min(ex[r].matches) \in Nat
                                    /\ Min(ex[r].matches) \in ex[r].matches
           /\ ex[r].pc \in {"intent", "dispatch", "finalize", "result", "pause"} =>
                ex[r].pending # {}
           /\ ex[r].pc = "inherit" => ex[r].left # {}
           /\ ex[r].pc \in {"inherit", "settle"} => ex[r].matches # {}
<1>1. FieldsOK(r) /\ PhaseOK(r)
  BY Facts
<1>2. /\ ex[r].pending \subseteq Nat /\ ex[r].left \subseteq Nat
      /\ ex[r].matches \subseteq Nat
  BY <1>1 DEF FieldsOK
<1>3. /\ ex[r].pending # {} => Min(ex[r].pending) \in ex[r].pending
      /\ ex[r].left # {} => Min(ex[r].left) \in ex[r].left
      /\ ex[r].matches # {} => Min(ex[r].matches) \in ex[r].matches
  BY <1>2, MinNat
<1> QED  BY <1>1, <1>2, <1>3 DEF FieldsOK, PhaseOK

(* Saving a conversation leaves those of other runs alone. *)
LEMMA OnlyConv ==
    ASSUME Types, NEW r \in Runs, NEW c, conv' = [conv EXCEPT ![r] = c]
    PROVE  \A q \in Runs \ {r} : conv'[q] = conv[q]
BY DEF Types

(* Every step of an executor changes its own run only, in one of three     *)
(* ways.                                                                   *)
LEMMA ExecutorMoves ==
    ASSUME LoopInv, NEW r \in Runs, Executor(r)
    PROVE  Moves(r)
<1>0. Types /\ FieldsOK(r) /\ DOMAIN conv = Runs /\ DOMAIN steps = Runs /\ batches \in Nat
  BY Facts DEF Types
<1>f. /\ ex[r].next \in Nat /\ ex[r].ref \in Refs /\ ex[r].count \in Nat
      /\ ex[r].spent \in Nat /\ ex[r].pending \subseteq Nat
      /\ ex[r].pc \in {"intent", "dispatch", "finalize", "result"} =>
           ex[r].pending # {} /\ Min(ex[r].pending) \in Nat
      /\ ex[r].pc = "inherit" => Min(ex[r].left) \in Nat
  BY FirstIs
<1>r. <<r, ex[r].count + 1>> \in Refs /\ <<r, ex[r].count + 1>> # NoRef /\ NoRef \in Refs
  BY <1>f, RunsNat DEF Refs, NoRef
<1>1. CASE InheritDispatch(r)
  <2>1. InheritDispatchDoes(r)
    BY <1>0, <1>1, InheritDispatchEffect
  <2> DEFINE s == Step("tool", ex[r].next, ex[r].ref, Min(ex[r].left), "failed", {}, 0)
  <2>2. s \in Steps /\ s.kind # "model"
    BY <1>f, <2>1, StepIs DEF InheritDispatchDoes
  <2>3. AddsStep(r, s)
    BY <2>1 DEF InheritDispatchDoes
  <2> HIDE DEF s
  <2>4. Stays(r)
    BY <1>0, <2>1, <2>3
       DEF InheritDispatchDoes, Stays, Active, Live, Frame, AddsStep
  <2> QED  BY <1>0, <2>1, <2>2, <2>3, <2>4
              DEF InheritDispatchDoes, Moves, Active, Live, CountsKept
<1>2. CASE settleAmbiguousToolDispatch(r)
  <2>1. settleAmbiguousToolDispatchDoes(r)
    BY <1>0, <1>2, settleAmbiguousToolDispatchEffect
  <2>2. PICK n \in DOMAIN steps[r] : steps' = [steps EXCEPT ![r][n].status = "failed"]
    BY <2>1 DEF settleAmbiguousToolDispatchDoes
  <2>3. SameSteps(r) /\ \A q \in Runs \ {r} : steps'[q] = steps[q]
    BY <1>0, <2>2, StatusSet
  <2> QED  BY <1>0, <2>1, <2>3
              DEF settleAmbiguousToolDispatchDoes, Stays, Moves, Active, Live
<1>3. CASE RecoverToolResult(r)
  <2>1. RecoverToolResultDoes(r)
    BY <1>0, <1>3, RecoverToolResultEffect
  <2> QED  BY <1>0, <2>1, OnlyConv
              DEF RecoverToolResultDoes, Stays, Moves, Active, Live, Frame,
                  CountsKept, SavesTo
<1>4. CASE CloseSuperseded(r)
  <2>1. CloseSupersededDoes(r)
    BY <1>0, <1>4, CloseSupersededEffect
  <2> QED  BY <1>0, <2>1
              DEF CloseSupersededDoes, Stays, Moves, Active, Live, Frame,
                  CountsKept
<1>5. CASE AppendDeferredContinuation(r)
  <2>1. AppendDeferredContinuationDoes(r)
    BY <1>0, <1>5, AppendDeferredContinuationEffect
  <2> QED  BY <1>0, <2>1, OnlyConv
              DEF AppendDeferredContinuationDoes, Stays, Moves, Active, Live,
                  Frame, CountsKept, SavesTo
<1>6. CASE CeilingReached(r)
  <2>1. CeilingReachedDoes(r)
    BY <1>0, <1>6, CeilingReachedEffect
  <2> QED  BY <1>0, <2>1, OnlyConv
              DEF CeilingReachedDoes, Stays, Moves, Active, Live, Frame,
                  CountsKept, SavesTo
<1>7. CASE RecoverAnswer(r)
  <2>1. RecoverAnswerDoes(r)
    BY <1>0, <1>7, RecoverAnswerEffect
  <2> QED  BY <1>0, <2>1, OnlyConv
              DEF RecoverAnswerDoes, Stays, Moves, Active, Live, Frame,
                  CountsKept, SavesTo
<1>8. CASE EnterLoop(r)
  <2>1. EnterLoopDoes(r)
    BY <1>0, <1>8, EnterLoopEffect
  <2> QED  BY <1>0, <2>1 DEF EnterLoopDoes, Stays, Moves, Active, Live, Frame
<1>9. CASE StopCancelled(r)
  <2>1. StopCancelledDoes(r)
    BY <1>0, <1>9, StopCancelledEffect
  <2> QED  BY <1>0, <2>1
              DEF StopCancelledDoes, Stays, Moves, Active, Live, Frame, CountsKept
<1>10. CASE GatePending(r)
  <2>1. GatePendingDoes(r)
    BY <1>0, <1>10, GatePendingEffect
  <2> QED  BY <1>0, <2>1, OnlyConv
              DEF GatePendingDoes, Stays, Moves, Active, Live, Frame,
                  CountsKept, SavesTo
<1>11. CASE ResumePending(r)
  <2>1. ResumePendingDoes(r)
    BY <1>0, <1>11, ResumePendingEffect
  <2> DEFINE s == Step("control", ex[r].next, ex[r].ref, 0, "completed", {}, 0)
  <2>2. s \in Steps /\ s.kind # "model"
    BY <1>f, StepIs
  <2>3. AddsStep(r, s)
    BY <2>1 DEF ResumePendingDoes
  <2> HIDE DEF s
  <2>4. Stays(r)
    BY <1>0, <2>1, <2>3
       DEF ResumePendingDoes, Stays, Active, Live, Frame, AddsStep
  <2> QED  BY <1>0, <2>1, <2>2, <2>3, <2>4
              DEF ResumePendingDoes, Moves, Active, Live, CountsKept
<1>12. CASE AwaitApproval(r)
  <2>1. AwaitApprovalDoes(r)
    BY <1>0, <1>12, AwaitApprovalEffect
  <2> DEFINE s == Step("approval", ex[r].next, ex[r].ref, 0, "awaiting_approval",
                       ex[r].pending, 0)
  <2>0. /\ ex[r].next \in Nat /\ ex[r].ref \in Refs /\ ex[r].pending \subseteq Nat
        /\ 0 \in Nat
    BY <1>f
  <2>2. s \in Steps /\ s.kind # "model"
    BY <2>0, StepIs, SMTT(40)
  <2>3. AddsStep(r, s)
    BY <2>1 DEF AwaitApprovalDoes
  <2> HIDE DEF s
  <2>4. Stays(r)
    BY <1>0, <2>1, <2>3
       DEF AwaitApprovalDoes, Stays, Active, Live, Frame, AddsStep
  <2> QED  BY <1>0, <2>1, <2>2, <2>3, <2>4
              DEF AwaitApprovalDoes, Moves, Active, Live, CountsKept
<1>13. CASE ModelCallLimit(r)
  <2>1. ModelCallLimitDoes(r)
    BY <1>0, <1>13, ModelCallLimitEffect
  <2> QED  BY <1>0, <2>1
              DEF ModelCallLimitDoes, Stays, Moves, Active, Live, Frame,
                  CountsKept
<1>14. CASE CallModel(r)
  <2>1. CallModelDoes(r)
    BY <1>0, <1>14, CallModelEffect
  <2> QED  BY <1>0, <2>1
              DEF CallModelDoes, Stays, Moves, Active, Live, Frame, CountsKept
<1>15. CASE StreamPartial(r)
  <2>1. StreamPartialDoes(r)
    BY <1>0, <1>15, StreamPartialEffect
  <2> QED  BY <1>0, <2>1, OnlyConv
              DEF StreamPartialDoes, Stays, Moves, Active, Live
<1>16. CASE ModelAnswers(r)
  <2>1. ModelAnswersDoes(r)
    BY <1>0, <1>16, ModelAnswersEffect
  <2> QED  BY <1>0, <2>1
              DEF ModelAnswersDoes, Stays, Moves, Active, Live, Frame, CountsKept
<1>17. CASE ModelCallFails(r)
  <2>1. ModelCallFailsDoes(r)
    BY <1>0, <1>17, ModelCallFailsEffect
  <2> QED  BY <1>0, <2>1, OnlyConv
              DEF ModelCallFailsDoes, Stays, Moves, Active, Live, Frame,
                  CountsKept, SavesTo
<1>18. CASE SaveModelStep(r)
  <2>1. SaveModelStepDoes(r)
    BY <1>0, <1>18, SaveModelStepEffect
  <2> DEFINE s == Step("model", ex[r].next, <<r, ex[r].count + 1>>, 0, "completed", {},
                       ex[r].spent + 1)
  <2>2. s \in Steps /\ s.ref = <<r, ex[r].count + 1>>
    <3>1. ex[r].spent + 1 \in Nat /\ 0 \in Nat /\ {} \subseteq Nat
      BY <1>f
    <3>2. \A ref \in Refs : Step("model", ex[r].next, ref, 0, "completed", {}, ex[r].spent + 1) \in Steps
                          /\ Step("model", ex[r].next, ref, 0, "completed", {}, ex[r].spent + 1).ref = ref
      BY <1>f, <3>1, StepIs
    <3> QED  BY <1>r, <3>2
  <2>3. AddsStep(r, s)
    BY <2>1 DEF SaveModelStepDoes
  <2> HIDE DEF s
  <2>4. Stays(r)
    BY <1>0, <2>1, <2>3
       DEF SaveModelStepDoes, Stays, Active, Live, Frame, AddsStep
  <2> QED  BY <1>0, <1>r, <2>1, <2>2, <2>3, <2>4
              DEF SaveModelStepDoes, Moves, Active, Live, CountsKept
<1>19. CASE SaveAssistant(r)
  <2>1. SaveAssistantDoes(r)
    BY <1>0, <1>19, SaveAssistantEffect
  <2>2. ex'[r].pc # "idle"
    BY <2>1 DEF SaveAssistantDoes, AfterModelCall
  <2> QED  BY <1>0, <2>1, <2>2, OnlyConv
              DEF SaveAssistantDoes, Stays, Moves, Active, Live, Frame,
                  CountsKept, SavesTo
<1>20. CASE SaveIntent(r)
  <2>1. SaveIntentDoes(r)
    BY <1>0, <1>20, SaveIntentEffect
  <2> DEFINE s == Step("tool", ex[r].next, ex[r].ref, Min(ex[r].pending), "running", {}, 0)
  <2>2. s \in Steps /\ s.kind # "model"
    BY <1>f, <2>1, StepIs DEF SaveIntentDoes
  <2>3. AddsStep(r, s)
    BY <2>1 DEF SaveIntentDoes
  <2> HIDE DEF s
  <2>4. Stays(r)
    BY <1>0, <2>1, <2>3 DEF SaveIntentDoes, Stays, Active, Live, Frame, AddsStep
  <2> QED  BY <1>0, <2>1, <2>2, <2>3, <2>4
              DEF SaveIntentDoes, Moves, Active, Live, CountsKept
<1>21. CASE Dispatch(r)
  <2>1. DispatchDoes(r)
    BY <1>0, <1>21, DispatchEffect
  <2> QED  BY <1>0, <1>21, <2>1
              DEF DispatchDoes, Stays, Moves, Active, Live, Frame, CountsKept
<1>22. CASE FinalizeStep(r)
  <2>1. FinalizeStepDoes(r)
    BY <1>0, <1>22, FinalizeStepEffect
  <2>2. Len(steps[r]) \in DOMAIN steps[r]
    <3>1. steps[r] # <<>>
      BY <2>1, Facts DEF FinalizeStepDoes, GrantsOK
    <3>2. steps[r] \in Seq(Steps)
      BY <1>0 DEF Types
    <3> QED  BY <3>1, <3>2
  <2>3. SameSteps(r) /\ \A q \in Runs \ {r} : steps'[q] = steps[q]
    BY <1>0, <2>1, <2>2, StatusSet DEF FinalizeStepDoes
  <2> QED  BY <1>0, <2>1, <2>3
              DEF FinalizeStepDoes, Stays, Moves, Active, Live, Frame, CountsKept
<1>23. CASE SaveToolResult(r)
  <2>1. SaveToolResultDoes(r)
    BY <1>0, <1>23, SaveToolResultEffect
  <2> QED  BY <1>0, <2>1, OnlyConv
              DEF SaveToolResultDoes, Stays, Moves, Active, Live, Frame,
                  CountsKept, SavesTo
<1>24. CASE failedFromError(r)
  <2>1. failedFromErrorDoes(r)
    BY <1>0, <1>24, failedFromErrorEffect
  <2> DEFINE s == Step("failure", ex[r].next, NoRef, 0, "failed", {}, 0)
  <2>2. s \in Steps /\ s.kind # "model"
    BY <1>f, <1>r, StepIs
  <2>3. AddsStep(r, s)
    BY <2>1 DEF failedFromErrorDoes
  <2> HIDE DEF s
  <2>4. Stays(r)
    BY <1>0, <2>1, <2>3
       DEF failedFromErrorDoes, Stays, Active, Live, Frame, AddsStep
  <2> QED  BY <1>0, <2>1, <2>2, <2>3, <2>4
              DEF failedFromErrorDoes, Moves, Active, Live, CountsKept
<1>25. CASE CreateApproval(r)
  <2>1. CreateApprovalDoes(r)
    BY <1>0, <1>25, CreateApprovalEffect
  <2> QED  BY <1>0, <2>1 DEF CreateApprovalDoes, Stays, Moves, Active, Live
<1> QED  BY <1>1, <1>2, <1>3, <1>4, <1>5, <1>6, <1>7, <1>8, <1>9, <1>10,
              <1>11, <1>12,
            <1>13, <1>14, <1>15, <1>16, <1>17, <1>18, <1>19, <1>20, <1>21, <1>22, <1>23,
            <1>24, <1>25 DEF Executor

-----------------------------------------------------------------------------
(* The steps keep the order of the runs. *)

(* Without a step that names a model call there is no completed one. *)
LEMMA NoModelCalls ==
    ASSUME NEW r, WithRef(steps[r]) = {},
           \A n \in DOMAIN steps[r] : steps[r][n].kind = "model" => steps[r][n].ref # NoRef
    PROVE  completedModelCallCount(r) = 0
<1>1. \A x \in Range(steps[r]) : x.kind # "model"
  <2>1. \A x \in Range(steps[r]) : \E n \in DOMAIN steps[r] : x = steps[r][n]
    BY DEF Range
  <2> QED  BY <2>1 DEF WithRef
<1>2. {s.ref[2] : s \in {x \in Range(steps[r]) : x.kind = "model"}} = {}
  BY <1>1
<1>3. Max({0}) = 0
  BY DEF Max
<1>4. {0} \cup {} = {0}  OBVIOUS
<1> QED  BY <1>2, <1>3, <1>4 DEF completedModelCallCount

(* Such a step keeps the second layer. *)
LEMMA MovesChain ==
    ASSUME LoopInv, ChainInv, NEW r \in Runs, Moves(r)
    PROVE  ChainInv'
<1>0. run' = run /\ Active(r) /\ Active(r)' /\ Types /\ LifeOK /\ CountOK(r)
      /\ ex'[r].cancelled = ex[r].cancelled
  BY DEF Moves, Stays, LoopInv, ChainInv
<1>1. \A q \in Runs : q # r => ex'[q] = ex[q] /\ conv'[q] = conv[q] /\ steps'[q] = steps[q]
  BY DEF Moves, Stays
<1>2. run[r].status # "none"
  BY <1>0 DEF LifeOK
<1>3. LifeOK'
  <2>1. \A p, q \in Runs : p \in Line(q) /\ p # q /\ run'[q].status # "none" => Ended(p)'
    <3>1. \A p \in Runs : Ended(p) => Ended(p)'
      BY <1>0, <1>1 DEF Ended, Live, Active
    <3> QED  BY <1>0, <3>1 DEF LifeOK
  <2>2. ASSUME NEW q \in Runs
        PROVE  /\ run'[q].status = "none" =>
                    /\ steps'[q] = <<>> /\ conv'[q] = NoConv /\ ~Active(q)'
                    /\ run'[q].mode = "fresh"
               /\ run'[q].status # "none" /\ q # 1 => run'[q].mode # "fresh"
               /\ Active(q)' =>
                    \/ run'[q].status = "cancelled"
                    \/ run'[q].status = "running" /\ ~ex'[q].cancelled
    BY <1>0, <1>1, <1>2 DEF LifeOK, Active
  <2>l. \A q : Line(q)' = Line(q)
    BY DEF Line, Runs
  <2> QED  BY <2>1, <2>2, <2>l DEF LifeOK
<1>4. ASSUME NEW q \in Runs PROVE CountOK(q)'
  <2>1. CASE q # r
    BY <1>0, <1>1, <2>1 DEF ChainInv, CountOK, WithRef, Active
  <2>2. CASE q = r /\ steps' = steps /\ ex'[r].count \in {ex[r].count, 0}
    BY <1>0, <2>2 DEF CountOK, WithRef, Active
  <2>3. CASE q = r /\ SameSteps(r) /\ ex'[r].count = ex[r].count
    BY <1>0, <2>3 DEF CountOK, WithRef, Active, SameSteps
  <2>4. CASE q = r /\ \E s \in Steps :
               /\ AddsStep(r, s)
               /\ s.kind = "model" => s.ref # NoRef
               /\ s.ref # NoRef \/ ex'[r].count = ex[r].count
    <3>1. PICK s \in Steps :
               /\ AddsStep(r, s)
               /\ s.kind = "model" => s.ref # NoRef
               /\ s.ref # NoRef \/ ex'[r].count = ex[r].count
      BY <2>4
    <3>2. /\ Len(steps[r]) \in Nat /\ DOMAIN steps[r] = 1..Len(steps[r])
          /\ DOMAIN steps'[r] = 1..(Len(steps[r]) + 1)
          /\ \A n \in 1..Len(steps[r]) : steps'[r][n] = steps[r][n]
          /\ steps'[r][Len(steps[r]) + 1] = s
      BY <1>0, <3>1, StepAdded
    <3>3. \A n \in DOMAIN steps'[r] : n \in DOMAIN steps[r] \/ n = Len(steps[r]) + 1
      BY <3>2
    <3>4. \A n \in DOMAIN steps'[r] : steps'[r][n].kind = "model" => steps'[r][n].ref # NoRef
      BY <1>0, <3>1, <3>2, <3>3 DEF CountOK
    <3>5. WithRef(steps'[r]) = {} => s.ref = NoRef /\ WithRef(steps[r]) = {}
      BY <3>2 DEF WithRef
    <3> QED  BY <1>0, <2>4, <3>1, <3>4, <3>5 DEF CountOK, Active, WithRef
  <2> QED  BY <2>1, <2>2, <2>3, <2>4 DEF Moves
<1> QED  BY <1>3, <1>4 DEF ChainInv

(* A step that only moves the status of one run on keeps the second layer. *)
LEMMA StatusChain ==
    ASSUME LoopInv, ChainInv, steps' = steps, \A q \in Runs : ChainStep(q)
    PROVE  ChainInv'
<1>0. LifeOK /\ \A q \in Runs : CountOK(q)
  BY DEF ChainInv
<1>l. \A q : Line(q)' = Line(q)
  BY DEF Line, Runs
<1>1. \A p, q \in Runs : p \in Line(q) /\ p # q /\ run'[q].status # "none" => Ended(p)'
  BY <1>0 DEF LifeOK, ChainStep, Ended
<1>2. ASSUME NEW q \in Runs
      PROVE  /\ run'[q].status = "none" =>
                  /\ steps'[q] = <<>> /\ conv'[q] = NoConv /\ ~Active(q)'
                  /\ run'[q].mode = "fresh"
             /\ run'[q].status # "none" /\ q # 1 => run'[q].mode # "fresh"
             /\ Active(q)' => \/ run'[q].status = "cancelled"
                              \/ run'[q].status = "running" /\ ~ex'[q].cancelled
  BY <1>0 DEF LifeOK, ChainStep
<1>3. LifeOK'
  BY <1>1, <1>2, <1>l DEF LifeOK
<1>4. \A q \in Runs : CountOK(q)'
  BY <1>0 DEF CountOK, WithRef, ChainStep
<1> QED  BY <1>3, <1>4 DEF ChainInv

(* What the second layer says of one run. *)
LEMMA ChainFacts ==
    ASSUME LoopInv, ChainInv, NEW q \in Runs
    PROVE  /\ WithRef(steps[q]) = {} => /\ run[q].calls = 0
                                        /\ completedModelCallCount(q) = 0
                                        /\ Active(q) => ex[q].count = 0
           /\ Active(q) => \/ run[q].status = "cancelled"
                           \/ run[q].status = "running" /\ ~ex[q].cancelled
           /\ run[q].status = "none" => ~Active(q)
           /\ Live(q) => run[q].status \in {"running", "cancelled"}
           /\ DOMAIN run = Runs /\ DOMAIN ex = Runs
           /\ DOMAIN run[q] = RunFields /\ DOMAIN ex[q] = Fields
           /\ run[q].calls \in Nat
<1>1. CountOK(q) /\ LifeOK /\ Types
  BY DEF ChainInv, LoopInv
<1> QED  BY <1>1, NoModelCalls
            DEF CountOK, LifeOK, Types, Live, Terminal, RunTypes

(* It holds initially. *)
LEMMA InitChain == Init => ChainInv
<1> SUFFICES ASSUME Init PROVE ChainInv  OBVIOUS
<1>1. /\ \A q \in Runs : /\ run[q].status = IF q = 1 THEN "queued" ELSE "none"
                         /\ run[q].mode = "fresh" /\ run[q].calls = 0
                         /\ steps[q] = <<>> /\ conv[q] = NoConv /\ ex[q] = Idle
  BY DEF Init
<1>2. \A q \in Runs : ~Active(q)
  BY <1>1 DEF Active, Idle
<1>3. LifeOK
  <2>1. \A p, q \in Runs : p \in Line(q) /\ p # q => run[q].status = "none"
    BY <1>1, LineFacts
  <2> QED  BY <1>1, <1>2, <2>1 DEF LifeOK
<1>4. \A q \in Runs : CountOK(q)
  BY <1>1, <1>2 DEF CountOK, WithRef
<1> QED  BY <1>3, <1>4 DEF ChainInv

(* A new run starts only from one that has ended and whose executor has    *)
(* stopped.                                                                *)
LEMMA StartChain ==
    ASSUME LoopInv, ChainInv, NEW r \in Runs, NEW mode \in Modes, mode # "fresh",
           NEW index, NEW budget, StartFromRun(r, mode, index, budget),
           LateSignal = FALSE
    PROVE  ChainInv'
<1>0. /\ Types /\ UNCHANGED <<conv, steps, ex>>
      /\ run[r].status \in Terminal /\ Stopped(r)
  BY DEF StartFromRun, LoopInv
<1>s. PICK s \in Runs :
        /\ Parent[s] = r /\ run[s].status = "none"
        /\ \A q \in Runs : q # s => run'[q] = run[q]
        /\ run'[s].status = "queued" /\ run'[s].mode = mode /\ run'[s].calls = 0
  BY <1>0 DEF StartFromRun, Types
<1>l. /\ Line(s) = {s} \cup Line(r) /\ s \notin Line(r)
      /\ \A q : Line(q)' = Line(q)
  BY <1>s, LineFacts DEF Line, Runs
<1>1. LifeOK /\ \A q \in Runs : CountOK(q)
  BY DEF ChainInv
<1>e. \A p \in Runs : Ended(p) => p # s /\ Ended(p)'
  BY <1>0, <1>s DEF Ended, Live, Active, Terminal
<1>2. ASSUME NEW p \in Runs, NEW q \in Runs, p \in Line(q), p # q,
             run'[q].status # "none"
      PROVE  Ended(p)'
  <2>1. CASE q = s
    <3>1. p \in Line(r)
      BY <1>2, <1>l, <2>1
    <3>2. Ended(r)
      BY <1>0 DEF Ended, Live, Active, Stopped
    <3>3. p = r \/ Ended(p)
      BY <1>0, <1>1, <3>1 DEF LifeOK, Terminal
    <3> QED  BY <1>e, <3>2, <3>3
  <2>2. CASE q # s
    <3>1. Ended(p)
      BY <1>1, <1>2, <1>s, <2>2 DEF LifeOK
    <3> QED  BY <1>e, <3>1
  <2> QED  BY <2>1, <2>2
<1>3. ASSUME NEW q \in Runs
      PROVE  /\ run'[q].status = "none" =>
                  /\ steps'[q] = <<>> /\ conv'[q] = NoConv /\ ~Active(q)'
                  /\ run'[q].mode = "fresh"
             /\ run'[q].status # "none" /\ q # 1 => run'[q].mode # "fresh"
             /\ Active(q)' => \/ run'[q].status = "cancelled"
                              \/ run'[q].status = "running" /\ ~ex'[q].cancelled
  BY <1>0, <1>1, <1>s DEF LifeOK, Active
<1>4. LifeOK'
  BY <1>2, <1>3, <1>l DEF LifeOK
<1>5. \A q \in Runs : CountOK(q)'
  BY <1>0, <1>1, <1>s DEF CountOK, WithRef, LifeOK, Active
<1> QED  BY <1>4, <1>5 DEF ChainInv

(* CancelRun keeps the second layer. *)
LEMMA CancelChain ==
    ASSUME LoopInv, ChainInv, NEW r \in Runs, CancelRun(r)
    PROVE  ChainInv'
<1>0. /\ run[r].status \in {"queued", "running", "awaiting_approval"}
      /\ run' = [run EXCEPT ![r].status = "cancelled"]
      /\ UNCHANGED <<conv, steps, ex>>
  BY DEF CancelRun
<1>1. DOMAIN run = Runs /\ DOMAIN run[r] = RunFields
  BY ChainFacts
<1>2. /\ \A q \in Runs : q # r => run'[q] = run[q]
      /\ run'[r].status = "cancelled" /\ run'[r].mode = run[r].mode
      /\ run'[r].calls = run[r].calls
  BY <1>0, <1>1 DEF RunFields
<1>3. ASSUME NEW q \in Runs
      PROVE  ChainStep(q)
  <2>1. CASE q # r
    BY <1>0, <1>2, <2>1, ChainFacts DEF Active, ChainStep, Ended, Live
  <2>2. CASE q = r
    BY <1>0, <1>2, <2>2, ChainFacts DEF Active, Terminal, ChainStep, Ended, Live
  <2> QED  BY <2>1, <2>2
<1> QED  BY <1>0, <1>3, StatusChain

(* cancelInFlightJob keeps the second layer. *)
LEMMA SignalChain ==
    ASSUME LoopInv, ChainInv, NEW r \in Runs, cancelInFlightJob(r)
    PROVE  ChainInv'
<1>0. /\ run[r].status = "cancelled" /\ ex[r].pc # "idle"
      /\ ex' = [ex EXCEPT ![r].cancelled = TRUE]
      /\ UNCHANGED <<run, conv, steps>>
  BY DEF cancelInFlightJob
<1>1. DOMAIN ex = Runs /\ DOMAIN ex[r] = Fields
  BY ChainFacts
<1>2. /\ \A q \in Runs : q # r => ex'[q] = ex[q]
      /\ ex'[r].pc = ex[r].pc /\ ex'[r].count = ex[r].count /\ ex'[r].cancelled
  BY <1>0, <1>1 DEF Fields
<1>3. ASSUME NEW q \in Runs
      PROVE  ChainStep(q)
  BY <1>0, <1>2, ChainFacts DEF Active, ChainStep, Ended, Live
<1> QED  BY <1>0, <1>3, StatusChain

(* Answers to approvals keep the second layer. *)
LEMMA AnswerChain ==
    ASSUME LoopInv, ChainInv, NEW r \in Runs, NEW k,
           ApproveAndResume(r, k) \/ RejectApproval(r, k)
    PROVE  ChainInv'
<1>0. /\ run[r].status = "awaiting_approval"
      /\ \E status \in {"queued", "cancelled"} : run' = [run EXCEPT ![r].status = status]
      /\ UNCHANGED <<conv, steps, ex>>
  BY DEF ApproveAndResume, RejectApproval
<1>1. DOMAIN run = Runs /\ DOMAIN run[r] = RunFields
  BY ChainFacts
<1>2. /\ \A q \in Runs : q # r => run'[q] = run[q]
      /\ run'[r].status \in {"queued", "cancelled"} /\ run'[r].mode = run[r].mode
      /\ run'[r].calls = run[r].calls
  BY <1>0, <1>1 DEF RunFields
<1>3. ASSUME NEW q \in Runs
      PROVE  ChainStep(q)
  BY <1>0, <1>2, ChainFacts DEF ChainStep, Ended, Live, Active, Terminal
<1> QED  BY <1>0, <1>3, StatusChain

(* SettleRun keeps the second layer. *)
LEMMA SettleChain ==
    ASSUME LoopInv, ChainInv, NEW r \in Runs, SettleRun(r)
    PROVE  ChainInv'
<1>0. /\ ex[r].pc = "return"
      /\ run' = [run EXCEPT ![r] =
           [@ EXCEPT !.status = IF run[r].status \in Terminal THEN run[r].status
                                ELSE ex[r].out,
                     !.cost = Max({run[r].cost, ex[r].spent}),
                     !.calls = Max({run[r].calls, ex[r].count,
                                    completedModelCallCount(r)})]]
      /\ ex' = [ex EXCEPT ![r] = Idle]
      /\ UNCHANGED <<conv, steps>>
  BY DEF SettleRun, At
<1>1. DOMAIN run = Runs /\ DOMAIN run[r] = RunFields /\ DOMAIN ex = Runs
  BY ChainFacts
<1>2. /\ \A q \in Runs : q # r => run'[q] = run[q] /\ ex'[q] = ex[q]
      /\ run'[r].status = (IF run[r].status \in Terminal THEN run[r].status ELSE ex[r].out)
      /\ run'[r].mode = run[r].mode
      /\ run'[r].calls = Max({run[r].calls, ex[r].count, completedModelCallCount(r)})
      /\ ex'[r].pc = "idle"
  BY <1>0, <1>1 DEF RunFields, Idle
<1>3. Max({0, 0, 0}) = 0
  <2>1. {0, 0, 0} = {0}  OBVIOUS
  <2>2. Max({0}) = 0
    BY DEF Max
  <2> QED  BY <2>1, <2>2
<1>4. WithRef(steps[r]) = {} => run'[r].calls = 0
  BY <1>0, <1>2, <1>3, ChainFacts DEF Active
<1>5. run[r].status # "none" /\ run'[r].status # "none"
  <2>1. ex[r].out \in Terminal \cup {"awaiting_approval"}
    BY <1>0, Facts DEF FieldsOK
  <2>2. run[r].status # "none"
    BY <1>0, ChainFacts DEF Active
  <2> QED  BY <1>2, <2>1, <2>2 DEF Terminal
<1>6. ASSUME NEW q \in Runs
      PROVE  ChainStep(q)
  BY <1>0, <1>2, <1>4, <1>5, ChainFacts DEF ChainStep, Ended, Live, Active
<1> QED  BY <1>0, <1>6, StatusChain

(* WriteFails keeps the second layer. *)
LEMMA WriteFailsChain ==
    ASSUME LoopInv, ChainInv, NEW r \in Runs, WriteFails(r)
    PROVE  ChainInv'
<1>0. /\ ex[r].pc \in WritePcs
      /\ run' = [run EXCEPT ![r].status = IF @ \in Terminal THEN @ ELSE "failed"]
      /\ ex' = [ex EXCEPT ![r] = Idle]
      /\ UNCHANGED <<conv, steps>>
  BY DEF WriteFails
<1>1. DOMAIN run = Runs /\ DOMAIN run[r] = RunFields /\ DOMAIN ex = Runs
  BY ChainFacts
<1>2. /\ \A q \in Runs : q # r => run'[q] = run[q] /\ ex'[q] = ex[q]
      /\ run'[r].status = (IF run[r].status \in Terminal THEN run[r].status ELSE "failed")
      /\ run'[r].mode = run[r].mode /\ run'[r].calls = run[r].calls
      /\ ex'[r].pc = "idle"
  BY <1>0, <1>1 DEF RunFields, Idle
<1>3. run[r].status # "none"
  BY <1>0, ChainFacts DEF Active, WritePcs
<1>4. ASSUME NEW q \in Runs
      PROVE  ChainStep(q)
  BY <1>0, <1>2, <1>3, ChainFacts DEF ChainStep, Ended, Live, Active
<1> QED  BY <1>0, <1>4, StatusChain

(* Crash keeps the second layer. *)
LEMMA CrashChain ==
    ASSUME LoopInv, ChainInv, Crash
    PROVE  ChainInv'
<1>0. /\ run' = [q \in Runs |-> IF run[q].status = "running"
                   THEN [run[q] EXCEPT !.status = "queued"] ELSE run[q]]
      /\ ex' = [q \in Runs |-> Idle]
      /\ UNCHANGED <<conv, steps>>
  BY DEF Crash
<1>1. ASSUME NEW q \in Runs
      PROVE  ChainStep(q)
  <2>1. ~Active(q)' /\ conv'[q] = conv[q]
    BY <1>0 DEF Active, Idle
  <2>2. DOMAIN run[q] = RunFields
    BY ChainFacts
  <2>3. CASE run[q].status = "running"
    BY <1>0, <2>1, <2>2, <2>3, ChainFacts
       DEF ChainStep, Ended, Live, RunFields, Terminal
  <2>4. CASE run[q].status # "running"
    BY <1>0, <2>1, <2>4, ChainFacts DEF ChainStep, Ended, Live
  <2> QED  BY <2>3, <2>4
<1> QED  BY <1>0, <1>1, StatusChain

(* ClaimRun keeps the second layer. *)
LEMMA ClaimChain ==
    ASSUME LoopInv, ChainInv, NEW r \in Runs, ClaimRun(r)
    PROVE  ChainInv'
<1>0. Types /\ run[r].status = "queued" /\ ex[r].pc = "idle" /\ steps' = steps
  BY DEF ClaimRun, LoopInv
<1>1. DOMAIN run = Runs /\ DOMAIN run[r] = RunFields /\ DOMAIN ex = Runs
  BY ChainFacts
<1>2. CASE run' = [run EXCEPT ![r].status = "failed"] /\ UNCHANGED <<conv, ex>>
  <2>1. /\ \A q \in Runs : q # r => run'[q] = run[q]
        /\ run'[r].status = "failed" /\ run'[r].mode = run[r].mode
        /\ run'[r].calls = run[r].calls
    BY <1>1, <1>2 DEF RunFields
  <2>2. ASSUME NEW q \in Runs
        PROVE  ChainStep(q)
    BY <1>0, <1>2, <2>1, ChainFacts DEF ChainStep, Ended, Live, Active, Terminal
  <2> QED  BY <1>0, <2>2, StatusChain
<1>3. CASE /\ run' = [run EXCEPT ![r].status = "running"]
           /\ Hydrate(r, resumeCheckpointForRun(r))
  <2> DEFINE c == resumeCheckpointForRun(r)
  <2>1. /\ \A q \in Runs : q # r => run'[q] = run[q]
        /\ run'[r].status = "running" /\ run'[r].mode = run[r].mode
        /\ run'[r].calls = run[r].calls
    BY <1>1, <1>3 DEF RunFields
  <2>2. c.count = run[r].calls
        \/ c.count = Max({run[r].calls, completedModelCallCount(r)})
    BY
       DEF resumeCheckpointForRun, ownRunResumeCheckpoint, sourceCheckpoint,
           Checkpoint
  <2>3. Max({0, 0}) = 0
    <3>1. {0, 0} = {0}  OBVIOUS
    <3>2. Max({0}) = 0
      BY DEF Max
    <3> QED  BY <3>1, <3>2
  <2>4. WithRef(steps[r]) = {} => c.count = 0
    BY <2>2, <2>3, ChainFacts
  <2> HIDE DEF c
  <2>5. /\ HydrateDoes(r, c)
        /\ c.same => SavesTo(r, c.msgs)
        /\ ~c.same => conv' = conv
    BY <1>0, <1>3, HydrateEffect DEF c
  <2>6. /\ \A q \in Runs \ {r} : ex'[q] = ex[q] /\ conv'[q] = conv[q]
        /\ ex'[r].count = c.count
    BY <1>0, <2>5, OnlyConv DEF HydrateDoes, SavesTo
  <2>7. ex'[r].cancelled = FALSE
    BY <1>1, <1>3 DEF Hydrate, Idle
  <2>8. ASSUME NEW q \in Runs
        PROVE  ChainStep(q)
    BY <1>0, <2>1, <2>4, <2>6, <2>7, ChainFacts
       DEF ChainStep, Ended, Live, Active, Terminal
  <2> QED  BY <1>0, <2>8, StatusChain
<1> QED  BY <1>2, <1>3 DEF ClaimRun

(* They all start from an earlier run, in a mode that is not fresh. *)
LEMMA StartsIs ==
    ASSUME NEW r \in Runs, Starts(r)
    PROVE  \E mode \in {"resume", "continue", "retry"} : \E index, budget :
             StartFromRun(r, mode, index, budget)
<1>1. CASE \E budget \in ResumeBudgets : ResumeTaskRun(r, budget)
  BY <1>1 DEF ResumeTaskRun
<1>2. CASE ContinueAgentTask(r)
  BY <1>2 DEF ContinueAgentTask
<1>3. CASE \E k \in 1..MaxModelCalls : RetryTaskFromModelCall(r, k)
  BY <1>3 DEF RetryTaskFromModelCall
<1> QED  BY <1>1, <1>2, <1>3 DEF Starts

(* The steps of the system, sorted. *)
LEMMA NextIs ==
    ASSUME Next
    PROVE  \/ \E r \in Runs :
                \/ Starts(r)
                \/ CancelRun(r) \/ cancelInFlightJob(r)
                \/ \E k \in DOMAIN appr[r] : ApproveAndResume(r, k) \/ RejectApproval(r, k)
                \/ ClaimRun(r) \/ Executor(r) \/ SettleRun(r) \/ WriteFails(r)
           \/ Crash
BY Zenon DEF Next, Starts, Executor

(* Every step keeps the second layer, if a run is started only once the    *)
(* executor of its source has stopped.                                     *)
LEMMA NextChain ==
    ASSUME LoopInv, ChainInv, [Next]_vars, LateSignal = FALSE
    PROVE  ChainInv'
<1>1. CASE UNCHANGED vars
  <2>1. ASSUME NEW q \in Runs PROVE ChainStep(q)
    BY <1>1, ChainFacts DEF vars, ChainStep, Ended, Live, Active
  <2> QED  BY <1>1, <2>1, StatusChain DEF vars
<1>2. ASSUME NEW r \in Runs, Starts(r) PROVE ChainInv'
  BY <1>2, StartsIs, StartChain DEF Modes
<1>3. ASSUME NEW r \in Runs, CancelRun(r) \/ cancelInFlightJob(r) PROVE ChainInv'
  BY <1>3, CancelChain, SignalChain
<1>4. ASSUME NEW r \in Runs, NEW k \in DOMAIN appr[r],
             ApproveAndResume(r, k) \/ RejectApproval(r, k)
      PROVE  ChainInv'
  BY <1>4, AnswerChain
<1>5. ASSUME NEW r \in Runs, Executor(r) PROVE ChainInv'
  BY <1>5, ExecutorMoves, MovesChain
<1>6. ASSUME NEW r \in Runs, ClaimRun(r) PROVE ChainInv'
  BY <1>6, ClaimChain
<1>7. ASSUME NEW r \in Runs, SettleRun(r) PROVE ChainInv'
  BY <1>7, SettleChain
<1>8. ASSUME NEW r \in Runs, WriteFails(r) PROVE ChainInv'
  BY <1>8, WriteFailsChain
<1>9. CASE Crash
  BY <1>9, CrashChain
<1> QED  BY <1>1, <1>2, <1>3, <1>4, <1>5, <1>6, <1>7, <1>8, <1>9, NextIs

-----------------------------------------------------------------------------
(* A run that has not saved a conversation of its own yet. *)

-----------------------------------------------------------------------------

(* When the runs it goes back to keep their steps, so is what a run takes  *)
(* over.                                                                   *)
LEMMA SourceKept ==
    ASSUME LoopInv, ChainInv, LoopInv', ChainInv', NEW r \in Runs,
           run'[r].mode = run[r].mode,
           run[r].mode # "fresh" =>
             /\ \A p \in Line(r) : p # r => steps'[p] = steps[p]
             /\ Pend(Saved(Parent[r]))' = Pend(Saved(Parent[r]))
    PROVE  SourceSame(r)
<1>1. CASE run[r].mode = "fresh"
  <2>1. ~SrcPend(r) /\ ~SrcPend(r)'
    BY <1>1 DEF SrcPend
  <2>2. Cap(r) = 1 /\ Cap(r)' = 1
    BY <2>1 DEF Cap
  <2> QED  BY <2>1, <2>2 DEF SourceSame
<1>2. CASE run[r].mode # "fresh"
  <2>0. /\ Parent[r] \in Runs /\ Parent[r] \in Line(r) /\ Parent[r] # r
        /\ \A q \in Line(Parent[r]) : q \in Line(r) /\ q # r
    <3>1. Parent[r] \in Runs
      BY <1>2 DEF LoopInv, RetryOK
    <3> QED  BY <3>1, LineFacts
  <2>1. Origin(Parent[r])' = Origin(Parent[r])
    <3>1. \A q \in Line(Parent[r]) : NewestRef(steps'[q]) = NewestRef(steps[q])
      BY <1>2, <2>0
    <3> QED  BY <2>0, <3>1, OriginKept
  <2>2. SrcPend(r)' <=> SrcPend(r)
    BY <1>2 DEF SrcPend
  <2>3. Taken(r)' = Taken(r)
    <3>1. steps'[Parent[r]] = steps[Parent[r]]
      BY <1>2, <2>0
    <3>2. \A i : ToolAt(Parent[r], Origin(Parent[r]), i)' <=> ToolAt(Parent[r], Origin(Parent[r]), i)
      BY <2>1, <3>1 DEF ToolAt
    <3> QED  BY <1>2, <3>2 DEF Taken
  <2>4. Cap(r)' = Cap(r)
    BY <2>2, <2>3 DEF Cap
  <2> QED  BY <2>1, <2>2, <2>3, <2>4 DEF SourceSame
<1> QED  BY <1>1, <1>2

(* A run whose own state stays. *)
LEMMA FrameProgress ==
    ASSUME NEW q \in Runs, Progress(q), ex'[q] = ex[q], steps'[q] = steps[q],
           conv'[q] = conv[q], \A e \in effects' : e \in effects \/ e.run # q,
           ~Ended(q)' => ~Ended(q),
           ~Ended(q) => SourceSame(q)
    PROVE  Progress(q)'
<1>1. FirstOK(q)'
  <2> SUFFICES ASSUME conv'[q] = NoConv, ~Ended(q)'
               PROVE  FirstOK(q)'
    BY DEF FirstOK
  <2>1. FirstOK(q) /\ SourceSame(q) /\ conv[q] = NoConv /\ ~Ended(q)
    BY DEF Progress
  <2>2. (\E e \in effects' : e.run = q) => \E e \in effects : e.run = q
    OBVIOUS
  <2>3. Active(q)' <=> Active(q)
    BY DEF Active
  <2> QED  BY <2>1, <2>2, <2>3
              DEF FirstOK, SourceSame, RefsBelow, OnlyRef, WithRef
<1>2. InheritOK(q)'
  BY DEF Progress, InheritOK, Live, Active, SourceSame, Ended
<1>3. IndexOK(q)'
  BY DEF Progress, IndexOK, Live, Active, RefsBelow, WithRef
<1> QED  BY <1>1, <1>2, <1>3 DEF Progress

(* Nothing is pending in an empty conversation. *)
LEMMA EmptyPend == Pend(<<>>) = {}
BY DEF Pend, pendingToolCallsForResume, HasResumableBatch, AssistantsAt

(* A run without a conversation has an empty one. *)
LEMMA NoConvSaved ==
    ASSUME NEW r, conv[r] = NoConv
    PROVE  Saved(r) = <<>> /\ Pend(Saved(r)) = {}
<1>1. Saved(r) = <<>>
  BY DEF Saved, completedConversationMessages, NoConv
<1> QED  BY <1>1, EmptyPend

(* A cancelled executor leaves the pending calls of its run as they are. *)
LEMMA CancelledPend ==
    ASSUME LoopInv, NEW r \in Runs, Stays(r), ~Live(r)
    PROVE  /\ Pend(Saved(r))' = Pend(Saved(r))
           /\ Pend(Saved(r)) # {} => Saved(r)' = Saved(r)
           /\ conv[r] # NoConv => Saved(r)' = Saved(r)
<1>0. /\ Types /\ WorkOK(r) /\ PhaseOK(r) /\ ex[r].msgs \in Seq(Messages) /\ Active(r)
      /\ conv' = conv \/ (ex[r].pc = "model" /\ SavesTo(r, ex[r].msgs))
  BY Facts DEF Stays, FieldsOK
<1>1. CASE conv' = conv
  BY <1>1 DEF Saved
<1>2. CASE ex[r].pc = "model" /\ SavesTo(r, ex[r].msgs)
  <2>1. Saved(r)' = ex[r].msgs
    BY <1>0, <1>2, SavedTo
  <2>2. Pend(ex[r].msgs) = {}
    BY <1>0, <1>2 DEF WorkOK, PhaseOK
  <2>3. CASE conv[r] = NoConv
    <3>1. Pend(Saved(r)) = {} /\ Pend(Saved(r)') = {}
      BY <2>1, <2>2, <2>3, NoConvSaved
    <3> QED  BY <2>3, <3>1
  <2>4. CASE conv[r] # NoConv
    BY <1>0, <2>1, <2>4 DEF WorkOK
  <2> QED  BY <2>3, <2>4
<1> QED  BY <1>0, <1>1, <1>2

(* The source of a run that goes on stays in a step of an executor. *)
LEMMA MovesSource ==
    ASSUME LoopInv, ChainInv, LoopInv', ChainInv', NEW r \in Runs, Moves(r),
           NEW q \in Runs, ~Ended(q)
    PROVE  SourceSame(q)
<1>0. /\ run' = run /\ LifeOK /\ Stays(r) /\ Active(r)
      /\ \A p \in Runs \ {r} : conv'[p] = conv[p] /\ steps'[p] = steps[p]
  BY DEF Moves, Stays, ChainInv
<1>1. CASE run[q].mode = "fresh"
  BY <1>0, <1>1, SourceKept
<1>2. CASE run[q].mode # "fresh"
  <2>0. /\ Parent[q] \in Runs /\ Parent[q] # q /\ run[q].status # "none"
        /\ Line(q) \subseteq Runs /\ Parent[q] \in Line(q)
    <3>1. Parent[q] \in Runs
      BY <1>2 DEF LoopInv, RetryOK
    <3>2. run[q].status # "none"
      BY <1>0, <1>2 DEF LifeOK
    <3> QED  BY <3>1, <3>2, LineFacts
  <2>1. CASE q = r \/ r \notin Line(q)
    <3>1. \A p \in Line(q) : p # q => steps'[p] = steps[p]
      BY <1>0, <2>0, <2>1
    <3>2. Pend(Saved(Parent[q]))' = Pend(Saved(Parent[q]))
      BY <1>0, <2>0, <2>1 DEF Saved
    <3> QED  BY <1>0, <3>1, <3>2, SourceKept
  <2>2. CASE q # r /\ r \in Line(q)
    <3>3. Ended(r)
      BY <1>0, <2>0, <2>2 DEF LifeOK
    <3>4. ~Live(r)
      BY <3>3 DEF Ended
    <3>5. steps' = steps
      BY <3>4 DEF Moves
    <3>6. Pend(Saved(Parent[q]))' = Pend(Saved(Parent[q]))
      <4>1. CASE Parent[q] = r
        BY <1>0, <3>4, <4>1, CancelledPend
      <4>2. CASE Parent[q] # r
        BY <1>0, <2>0, <4>2 DEF Saved
      <4> QED  BY <4>1, <4>2
    <3> QED  BY <1>0, <3>5, <3>6, SourceKept
  <2> QED  BY <2>1, <2>2
<1> QED  BY <1>1, <1>2

(* The other runs. *)
LEMMA MovesOthers ==
    ASSUME LoopInv, ChainInv, LoopInv', ChainInv', ProgressInv, NEW r \in Runs, Moves(r),
           NEW q \in Runs \ {r}
    PROVE  Progress(q)'
<1>1. /\ ex'[q] = ex[q] /\ conv'[q] = conv[q] /\ steps'[q] = steps[q] /\ run' = run
      /\ Progress(q) /\ Types
  BY DEF Moves, Stays, ProgressInv, LoopInv
<1>2. \A e \in effects' : e \in effects \/ e.run # q
  <2>1. CASE effects' = effects
    BY <2>1
  <2>2. CASE Dispatch(r)
    <3>1. DispatchDoes(r)
      BY <1>1, <2>2, DispatchEffect
    <3> QED  BY <3>1 DEF DispatchDoes
  <2> QED  BY <2>1, <2>2 DEF Moves, Stays
<1>3. ~Ended(q)' => ~Ended(q)
  BY <1>1 DEF Ended, Live, Active
<1>4. ~Ended(q) => SourceSame(q)
  BY MovesSource
<1> QED  BY <1>1, <1>2, <1>3, <1>4, FrameProgress

-----------------------------------------------------------------------------
(* The run whose executor moves. *)

(* What is known of an executor that moves. *)
LEMMA MovingFacts ==
    ASSUME NEW r \in Runs, Moving(r)
    PROVE  /\ Types /\ Types' /\ FirstOK(r) /\ InheritOK(r) /\ IndexOK(r) /\ SourceSame(r)
           /\ run' = run /\ ~Ended(r) /\ Live(r) /\ Live(r)'
           /\ Active(r) /\ Active(r)'
           /\ WorkOK(r) /\ PhaseOK(r) /\ FieldsOK(r) /\ GrantsOK(r)
           /\ WorkOK(r)' /\ PhaseOK(r)' /\ FieldsOK(r)'
<1>1. LoopInv /\ ChainInv /\ LoopInv' /\ ChainInv' /\ ProgressInv /\ Moves(r) /\ Live(r)
  BY DEF Moving
<1>2. run' = run /\ Active(r) /\ Active(r)' /\ ex'[r].cancelled = ex[r].cancelled
  BY <1>1 DEF Moves, Stays
<1>3. ~Ended(r)
  BY <1>1 DEF Ended
<1>4. SourceSame(r)
  BY <1>1, <1>3, MovesSource
<1>5. Live(r)'
  BY <1>1, <1>2 DEF Live
<1>6. WorkOK(r)' /\ PhaseOK(r)' /\ FieldsOK(r)' /\ Types'
  BY <1>1 DEF LoopInv, RunOK, Types
<1> QED  BY <1>1, <1>2, <1>3, <1>4, <1>5, <1>6, Facts DEF ProgressInv, Progress

(* Steps that only change status keep their bounds. *)
LEMMA RefsSame ==
    ASSUME NEW r \in Runs, SameSteps(r)
    PROVE  /\ \A k : RefsBelow(steps[r], k) => RefsBelow(steps'[r], k)
           /\ \A ref : OnlyRef(steps[r], ref) => OnlyRef(steps'[r], ref)
BY DEF SameSteps, RefsBelow, OnlyRef, WithRef

(* A quiet step keeps the progress of its run. *)
LEMMA QuietProgress ==
    ASSUME NEW r \in Runs, Moving(r), Quiet(r)
    PROVE  Progress(r)'
<1>0. /\ FirstOK(r) /\ IndexOK(r) /\ SourceSame(r) /\ run' = run /\ Live(r)
      /\ ~Ended(r) /\ Active(r)
  BY MovingFacts
<1>1. FirstOK(r)'
  <2> SUFFICES ASSUME conv'[r] = NoConv PROVE FirstOK(r)'
    BY DEF FirstOK
  <2>1. /\ conv[r] = NoConv /\ ex'[r].ref = ex[r].ref /\ ex[r].pc \notin Dispatches
        /\ ex'[r].pending = {} => ex[r].pending = {} \/ ex'[r].deferred
        /\ ex[r].deferred => ex'[r].deferred
        /\ ex'[r].pc \in {"normalize", "loop", "model", "think"} =>
             ex'[r].deferred \/ ex[r].pc \in {"normalize", "loop", "model", "think"}
        /\ ex'[r].pc \notin Dispatches
    BY DEF Quiet
  <2>2. RefsBelow(steps'[r], Cap(r)')
    BY <1>0, <2>1, RefsSame DEF FirstOK, SourceSame, Quiet
  <2>3. SrcPend(r)' => OnlyRef(steps'[r], Origin(Parent[r])')
    BY <1>0, <2>1, RefsSame DEF FirstOK, SourceSame, Quiet
  <2>4. ~\E e \in effects' : e.run = r
    BY <1>0, <2>1 DEF FirstOK, Quiet, Dispatches
  <2>5. Active(r)' /\ SrcPend(r)' =>
          ex'[r].ref = Origin(Parent[r])' /\ (ex'[r].pending = {} => ex'[r].deferred)
    BY <1>0, <2>1 DEF FirstOK, SourceSame
  <2>6. ex'[r].pc \in {"normalize", "loop", "model", "think"} /\ ~ex'[r].deferred =>
          ex'[r].next <= 1
    BY <1>0, <2>1 DEF FirstOK, Quiet
  <2> QED  BY <2>1, <2>2, <2>3, <2>4, <2>5, <2>6 DEF FirstOK
<1>2. InheritOK(r)'
  BY DEF InheritOK, Quiet
<1>3. IndexOK(r)'
  BY <1>0, RefsSame DEF IndexOK, Quiet
<1> QED  BY <1>1, <1>2, <1>3 DEF Progress

(* It adds one. *)
LEMMA RefsAdded ==
    ASSUME Types, NEW r \in Runs, NEW s \in Steps, AddsStep(r, s)
    PROVE  /\ \A k \in Nat : RefsBelow(steps[r], k) /\ (s.ref = NoRef \/ s.idx <= k) =>
                RefsBelow(steps'[r], k)
           /\ \A ref : OnlyRef(steps[r], ref) /\ s.ref \in {NoRef, ref} =>
                OnlyRef(steps'[r], ref)
           /\ steps'[r][Len(steps'[r])] = s
<1>1. /\ Len(steps[r]) \in Nat /\ DOMAIN steps[r] = 1..Len(steps[r])
      /\ Len(steps'[r]) = Len(steps[r]) + 1
      /\ DOMAIN steps'[r] = 1..(Len(steps[r]) + 1)
      /\ \A n \in 1..Len(steps[r]) : steps'[r][n] = steps[r][n]
      /\ steps'[r][Len(steps[r]) + 1] = s
  BY StepAdded
<1>2. \A n \in DOMAIN steps'[r] : n = Len(steps[r]) + 1 \/ n \in DOMAIN steps[r]
  BY <1>1
<1>3. \A n \in WithRef(steps'[r]) :
        (n \in WithRef(steps[r]) /\ steps'[r][n] = steps[r][n])
        \/ (s.ref # NoRef /\ steps'[r][n] = s)
  BY <1>1, <1>2 DEF WithRef
<1> QED  BY <1>1, <1>3 DEF RefsBelow, OnlyRef

(* The bound on indices may grow. *)
LEMMA BelowMore ==
    ASSUME NEW s \in Seq(Steps), NEW j \in Nat, NEW k \in Nat, j <= k, RefsBelow(s, j)
    PROVE  RefsBelow(s, k)
BY StepsTyped DEF RefsBelow, WithRef

(* The bound is a positive number. *)
LEMMA CapNat ==
    ASSUME LoopInv, NEW r \in Runs
    PROVE  /\ SrcPend(r) => IsFiniteSet(Taken(r)) /\ Taken(r) \subseteq Nat
           /\ Cap(r) \in Nat /\ Cap(r) >= 1
<1>1. ASSUME SrcPend(r) PROVE IsFiniteSet(Taken(r)) /\ Taken(r) \subseteq Nat
  <2>1. Parent[r] \in Runs
    BY <1>1 DEF SrcPend, LoopInv, RetryOK
  <2>2. Saved(Parent[r]) \in Seq(Messages)
    BY <2>1, Facts DEF SavedOK, Good
  <2> DEFINE m == Saved(Parent[r])
  <2> HIDE DEF m
  <2>3. /\ Pend(m) \subseteq Nat /\ Bat(m) \in Messages /\ Pend(m) \subseteq DOMAIN Bat(m).calls
    BY <1>1, <2>2, PendingBatch DEF SrcPend, m
  <2>4. Bat(m).calls \in Seq(Kinds)
    BY <2>3 DEF Messages
  <2>5. IsFiniteSet(DOMAIN Bat(m).calls)
    <3>1. DOMAIN Bat(m).calls = 1..Len(Bat(m).calls) /\ Len(Bat(m).calls) \in Nat
      BY <2>4
    <3> QED  BY <3>1, FS_Interval
  <2>6. Taken(r) \subseteq Pend(m)
    BY DEF Taken, m
  <2> QED  BY <2>3, <2>5, <2>6, FS_Subset
<1>2. ASSUME SrcPend(r), Taken(r) # {} PROVE Cardinality(Taken(r)) \in Nat /\ Cardinality(Taken(r)) >= 1
  BY <1>1, <1>2, FS_CardinalityType, FS_EmptySet
<1> QED  BY <1>1, <1>2 DEF Cap

(* A step with the index of the next one. *)
LEMMA AddedIndex ==
    ASSUME NEW r \in Runs, Moving(r), NEW s \in Steps, AddsStep(r, s), s.idx = ex[r].next,
           ex[r].pc \notin {"inherit", "fail", "return"}, ex'[r].next = ex[r].next + 1
    PROVE  IndexOK(r)'
<1>0. IndexOK(r) /\ Types /\ Live(r) /\ ex[r].next \in Nat /\ steps[r] \in Seq(Steps)
  BY MovingFacts DEF FieldsOK, Types
<1>1. RefsBelow(steps[r], ex[r].next)
  BY <1>0 DEF IndexOK
<1>2. ex[r].next + 1 \in Nat /\ ex[r].next <= ex[r].next + 1
  BY <1>0
<1>3. RefsBelow(steps[r], ex[r].next + 1)
  BY <1>0, <1>1, <1>2, BelowMore
<1>4. RefsBelow(steps'[r], ex[r].next + 1)
  BY <1>0, <1>2, <1>3, RefsAdded
<1> QED  BY <1>4 DEF IndexOK

(* The steps that add none. *)
LEMMA SavedNow ==
    ASSUME NEW r \in Runs, Moving(r), NEW m, SavesTo(r, m), m = ex'[r].msgs
    PROVE  conv'[r] # NoConv
<1>1. Types /\ m \in Seq(Messages) /\ m # <<>>
  BY MovingFacts DEF WorkOK, FieldsOK, Begun
<1> QED  BY <1>1, SavedTo

(* No step changes. *)
LEMMA StepsSame ==
    ASSUME Types, NEW r \in Runs, steps' = steps
    PROVE  SameSteps(r)
BY DEF SameSteps, Types

(* The steps of an executor that are quiet. *)
LEMMA QuietSteps ==
    ASSUME NEW r \in Runs, Moving(r),
           \/ settleAmbiguousToolDispatch(r) \/ RecoverToolResult(r)
           \/ CloseSuperseded(r) \/ AppendDeferredContinuation(r) \/ CeilingReached(r)
           \/ RecoverAnswer(r) \/ EnterLoop(r) \/ StopCancelled(r) \/ GatePending(r)
           \/ ModelCallLimit(r) \/ CallModel(r) \/ StreamPartial(r) \/ ModelAnswers(r)
           \/ ModelCallFails(r) \/ SaveAssistant(r) \/ SaveToolResult(r)
           \/ CreateApproval(r)
    PROVE  Quiet(r)
<1>0. Types /\ Active(r) /\ Active(r)' /\ ~ex[r].cancelled
  BY MovingFacts DEF Live
<1>s. steps' = steps => SameSteps(r)
  BY <1>0, StepsSame
<1>1. CASE settleAmbiguousToolDispatch(r)
  <2>1. settleAmbiguousToolDispatchDoes(r)
    BY <1>0, <1>1, settleAmbiguousToolDispatchEffect
  <2>2. PICK n \in DOMAIN steps[r] : steps' = [steps EXCEPT ![r][n].status = "failed"]
    BY <2>1 DEF settleAmbiguousToolDispatchDoes
  <2>3. SameSteps(r)
    BY <1>0, <2>2, StatusSet
  <2> QED  BY <2>1, <2>3 DEF settleAmbiguousToolDispatchDoes, Quiet, Dispatches
<1>2. CASE RecoverToolResult(r)
  <2>1. RecoverToolResultDoes(r)
    BY <1>0, <1>2, RecoverToolResultEffect
  <2>2. CASE ex[r].deferred
    BY <1>s, <2>1, <2>2 DEF RecoverToolResultDoes, Quiet, Dispatches, CountsKept
  <2>3. CASE ~ex[r].deferred
    <3>1. conv'[r] # NoConv
      BY <2>1, <2>3, SavedNow DEF RecoverToolResultDoes
    <3> QED  BY <1>s, <2>1, <3>1
                DEF RecoverToolResultDoes, Quiet, Dispatches, CountsKept
  <2> QED  BY <2>2, <2>3
<1>3. CASE CloseSuperseded(r)
  <2>1. CloseSupersededDoes(r)
    BY <1>0, <1>3, CloseSupersededEffect
  <2> QED  BY <1>s, <2>1 DEF CloseSupersededDoes, Quiet, Dispatches, CountsKept
<1>4. CASE AppendDeferredContinuation(r)
  <2>1. AppendDeferredContinuationDoes(r)
    BY <1>0, <1>4, AppendDeferredContinuationEffect
  <2>2. conv'[r] # NoConv
    BY <2>1, SavedNow DEF AppendDeferredContinuationDoes
  <2> QED  BY <1>s, <2>1, <2>2
              DEF AppendDeferredContinuationDoes, Quiet, Dispatches, CountsKept
<1>5. CASE CeilingReached(r)
  <2>1. CeilingReachedDoes(r)
    BY <1>0, <1>5, CeilingReachedEffect
  <2>2. conv'[r] # NoConv
    BY <2>1, SavedNow DEF CeilingReachedDoes, WorkKept
  <2> QED  BY <1>s, <2>1, <2>2
              DEF CeilingReachedDoes, Quiet, Dispatches, CountsKept
<1>6. CASE RecoverAnswer(r)
  <2>1. RecoverAnswerDoes(r)
    BY <1>0, <1>6, RecoverAnswerEffect
  <2>2. conv'[r] # NoConv
    BY <2>1, SavedNow DEF RecoverAnswerDoes, WorkKept
  <2> QED  BY <1>s, <2>1, <2>2
              DEF RecoverAnswerDoes, Quiet, Dispatches, CountsKept
<1>7. CASE EnterLoop(r)
  <2>1. EnterLoopDoes(r)
    BY <1>0, <1>7, EnterLoopEffect
  <2> QED  BY <1>s, <2>1 DEF EnterLoopDoes, Quiet, Dispatches, WorkKept
<1>8. CASE StopCancelled(r)
  BY <1>0, <1>8 DEF StopCancelled
<1>9. CASE GatePending(r)
  <2>1. GatePendingDoes(r)
    BY <1>0, <1>9, GatePendingEffect
  <2>2. conv'[r] # NoConv
    BY <2>1, SavedNow DEF GatePendingDoes, WorkKept
  <2> QED  BY <1>s, <2>1, <2>2 DEF GatePendingDoes, Quiet, Dispatches, CountsKept
<1>10. CASE ModelCallLimit(r)
  <2>1. ModelCallLimitDoes(r)
    BY <1>0, <1>10, ModelCallLimitEffect
  <2> QED  BY <1>s, <2>1
              DEF ModelCallLimitDoes, Quiet, Dispatches, WorkKept, CountsKept
<1>11. CASE CallModel(r)
  <2>1. CallModelDoes(r)
    BY <1>0, <1>11, CallModelEffect
  <2> QED  BY <1>s, <2>1
              DEF CallModelDoes, Quiet, Dispatches, WorkKept, CountsKept
<1>12. CASE StreamPartial(r)
  <2>1. StreamPartialDoes(r)
    BY <1>0, <1>12, StreamPartialEffect
  <2>2. conv'[r].streaming
    BY <1>0, <2>1 DEF StreamPartialDoes, Types
  <2>3. conv'[r] # NoConv
    BY <2>2 DEF NoConv
  <2> QED  BY <1>s, <2>1, <2>3 DEF StreamPartialDoes, Quiet, Dispatches
<1>13. CASE ModelAnswers(r)
  <2>1. ModelAnswersDoes(r)
    BY <1>0, <1>13, ModelAnswersEffect
  <2> QED  BY <1>s, <2>1
              DEF ModelAnswersDoes, Quiet, Dispatches, WorkKept, CountsKept
<1>14. CASE ModelCallFails(r)
  <2>1. ModelCallFailsDoes(r)
    BY <1>0, <1>14, ModelCallFailsEffect
  <2>2. conv'[r] # NoConv
    BY <2>1, SavedNow DEF ModelCallFailsDoes, WorkKept
  <2> QED  BY <1>s, <2>1, <2>2
              DEF ModelCallFailsDoes, Quiet, Dispatches, CountsKept
<1>15. CASE SaveAssistant(r)
  <2>1. SaveAssistantDoes(r)
    BY <1>0, <1>15, SaveAssistantEffect
  <2>2. conv'[r] # NoConv
    BY <2>1, SavedNow DEF SaveAssistantDoes
  <2>3. ex'[r].pc \in {"fail", "return", "pause", "intent"}
    BY <2>1 DEF SaveAssistantDoes, AfterModelCall
  <2> QED  BY <1>s, <2>1, <2>2, <2>3
              DEF SaveAssistantDoes, Quiet, Dispatches, CountsKept
<1>16. CASE SaveToolResult(r)
  <2>1. SaveToolResultDoes(r)
    BY <1>0, <1>16, SaveToolResultEffect
  <2>2. conv'[r] # NoConv
    BY <2>1, SavedNow DEF SaveToolResultDoes
  <2> QED  BY <1>s, <2>1, <2>2
              DEF SaveToolResultDoes, Quiet, Dispatches, CountsKept
<1>17. CASE CreateApproval(r)
  <2>1. CreateApprovalDoes(r)
    BY <1>0, <1>17, CreateApprovalEffect
  <2> QED  BY <1>s, <2>1 DEF CreateApprovalDoes, Quiet, Dispatches
<1> QED  BY <1>1, <1>2, <1>3, <1>4, <1>5, <1>6, <1>7, <1>8, <1>9, <1>10,
              <1>11, <1>12,
            <1>13, <1>14, <1>15, <1>16, <1>17

-----------------------------------------------------------------------------
(* The steps that add one. *)

(* InheritDispatch records one more match of the source. *)
LEMMA InheritProgress ==
    ASSUME NEW r \in Runs, Moving(r), InheritDispatch(r)
    PROVE  Progress(r)'
<1>0. /\ Types /\ FirstOK(r) /\ InheritOK(r) /\ SourceSame(r) /\ Live(r) /\ Active(r)
      /\ run' = run /\ ~Ended(r) /\ PhaseOK(r) /\ FieldsOK(r)
      /\ LoopInv /\ steps[r] \in Seq(Steps)
  BY MovingFacts DEF Moving, Types
<1>1. InheritDispatchDoes(r)
  BY <1>0, InheritDispatchEffect
<1>2. /\ conv[r] = NoConv /\ SrcPend(r) /\ ex[r].matches = Taken(r) /\ conv' = conv
      /\ ex[r].next + Cardinality(ex[r].left) = Cardinality(Taken(r)) + 1
      /\ ex[r].ref = Origin(Parent[r]) /\ effects' = effects
      /\ OnlyRef(steps[r], Origin(Parent[r])) /\ RefsBelow(steps[r], Cap(r))
      /\ ~\E e \in effects : e.run = r
      /\ ex[r].pending = {} => ex[r].deferred
  BY <1>0, <1>1 DEF InheritDispatchDoes, InheritOK, FirstOK, Dispatches
<1>3. /\ ex[r].left # {} /\ ex[r].left \subseteq Taken(r) /\ Min(ex[r].left) \in ex[r].left
      /\ ex[r].next \in Nat /\ ex[r].ref \in Refs /\ Min(ex[r].left) \in Nat
  BY <1>0, <1>1, <1>2, FirstIs DEF InheritDispatchDoes, PhaseOK
<1> DEFINE i == Min(ex[r].left)
           L == ex[r].left
           s == Step("tool", ex[r].next, ex[r].ref, i, "failed", {}, 0)
<1>4. s \in Steps /\ s.idx = ex[r].next /\ s.ref = ex[r].ref
  BY <1>3, StepIs
<1>5. AddsStep(r, s)
  BY <1>1 DEF InheritDispatchDoes
<1> HIDE DEF s
<1>6. /\ IsFiniteSet(L) /\ Cardinality(L) \in Nat /\ Cardinality(Taken(r)) \in Nat
      /\ Cardinality(L \ {i}) = Cardinality(L) - 1 /\ Cardinality(L) >= 1
      /\ L = {i} <=> Cardinality(L \ {i}) = 0
  <2>1. IsFiniteSet(Taken(r)) /\ IsFiniteSet(L)
    BY <1>0, <1>2, <1>3, CapNat, FS_Subset
  <2>2. Cardinality(L) \in Nat /\ Cardinality(Taken(r)) \in Nat
    BY <2>1, FS_CardinalityType
  <2>3. IsFiniteSet(L \ {i}) /\ Cardinality(L \ {i}) = Cardinality(L) - 1
    BY <1>3, <2>1, FS_RemoveElement
  <2>4. Cardinality(L \ {i}) \in Nat /\ (Cardinality(L \ {i}) = 0 <=> L \ {i} = {})
    BY <2>3, FS_CardinalityType, FS_EmptySet
  <2>5. L = {i} <=> L \ {i} = {}
    BY <1>3
  <2> QED  BY <2>1, <2>2, <2>3, <2>4, <2>5
<1>7. Cap(r) = Cardinality(Taken(r))
  BY <1>2, <1>3 DEF Cap
<1>8. ex[r].next <= Cap(r) /\ Cap(r) \in Nat
  BY <1>2, <1>3, <1>6, <1>7
<1>9. RefsBelow(steps'[r], Cap(r)) /\ OnlyRef(steps'[r], Origin(Parent[r]))
  BY <1>0, <1>2, <1>4, <1>5, <1>8, RefsAdded
<1>10. ex'[r].pc \in {"settle", "inherit"} /\ ex'[r].ref = ex[r].ref
       /\ ex'[r].pending = ex[r].pending /\ ex'[r].deferred = ex[r].deferred
       /\ ex'[r].matches = ex[r].matches /\ ex'[r].left = L \ {i}
       /\ ex'[r].next = ex[r].next + 1
       /\ ex'[r].pc = IF L = {i} THEN "settle" ELSE "inherit"
  BY <1>1 DEF InheritDispatchDoes
<1>11. FirstOK(r)'
  <2>1. RefsBelow(steps'[r], Cap(r)') /\ OnlyRef(steps'[r], Origin(Parent[r])')
    BY <1>0, <1>2, <1>9 DEF SourceSame
  <2>2. ~\E e \in effects' : e.run = r
    BY <1>2
  <2>3. ex'[r].ref = Origin(Parent[r])' /\ (ex'[r].pending = {} => ex'[r].deferred)
    BY <1>0, <1>2, <1>10 DEF SourceSame
  <2> QED  BY <1>10, <2>1, <2>2, <2>3 DEF FirstOK, Dispatches
<1>12. InheritOK(r)'
  <2>1. SrcPend(r)' /\ Taken(r)' = Taken(r)
    BY <1>0, <1>2 DEF SourceSame
  <2>2. ex'[r].next + Cardinality(ex'[r].left) = Cardinality(Taken(r)) + 1
    BY <1>2, <1>3, <1>6, <1>10
  <2> QED  BY <1>2, <1>10, <2>1, <2>2 DEF InheritOK
<1>13. IndexOK(r)'
  <2> SUFFICES ASSUME ex'[r].pc = "settle" PROVE RefsBelow(steps'[r], ex'[r].next)
    BY <1>10 DEF IndexOK
  <2>1. ex[r].next = Cap(r)
    BY <1>2, <1>3, <1>6, <1>7, <1>10
  <2>2. steps'[r] \in Seq(Steps)
    BY <1>0, <1>4, <1>5, StepAdded
  <2>3. Cap(r) + 1 \in Nat /\ Cap(r) <= Cap(r) + 1
    BY <1>8
  <2> QED  BY <1>8, <1>9, <1>10, <2>1, <2>2, <2>3, BelowMore
<1> QED  BY <1>11, <1>12, <1>13 DEF Progress

(* A step that names the model call of the pending calls, or none. *)
LEMMA AddedProgress ==
    ASSUME NEW r \in Runs, Moving(r), NEW s \in Steps, AddsStep(r, s), s.idx = ex[r].next,
           s.ref \in {NoRef, ex[r].ref},
           conv' = conv, effects' = effects, ex'[r].ref = ex[r].ref,
           ex'[r].pending = ex[r].pending, ex'[r].deferred = ex[r].deferred,
           ex[r].pc \notin Dispatches, ex[r].pc # "inherit",
           ex'[r].pc \notin {"normalize", "loop", "model", "think", "inherit", "finalize",
                             "result"},
           conv[r] = NoConv => s.ref = NoRef \/ ex[r].next <= 1 \/ ex'[r].pc = "dispatch",
           ex'[r].pc = "dispatch" => s.kind = "tool" /\ s.status # "failed",
           \/ ex[r].pc = "fail" /\ ex'[r].pc = "return"
           \/ ex[r].pc \notin {"fail", "return"} /\ ex'[r].next = ex[r].next + 1
    PROVE  Progress(r)'
<1>0. /\ Types /\ FirstOK(r) /\ IndexOK(r) /\ SourceSame(r) /\ run' = run
      /\ ~Ended(r) /\ Active(r) /\ LoopInv /\ ex[r].next \in Nat
  BY MovingFacts DEF Moving, FieldsOK
<1>1. FirstOK(r)'
  <2> SUFFICES ASSUME conv[r] = NoConv PROVE FirstOK(r)'
    BY DEF FirstOK
  <2>1. Cap(r) \in Nat /\ Cap(r) >= 1 /\ Cap(r)' = Cap(r)
    BY <1>0, CapNat DEF SourceSame
  <2>2. ex'[r].pc \notin Dispatches => RefsBelow(steps'[r], Cap(r)')
    <3>1. RefsBelow(steps[r], Cap(r))
      BY <1>0 DEF FirstOK
    <3> QED  BY <1>0, <2>1, <3>1, RefsAdded DEF Dispatches
  <2>3. SrcPend(r)' => OnlyRef(steps'[r], Origin(Parent[r])')
    BY <1>0, RefsAdded DEF FirstOK, SourceSame
  <2>4. ~\E e \in effects' : e.run = r
    BY <1>0 DEF FirstOK, Dispatches
  <2>5. Active(r)' /\ SrcPend(r)' =>
          ex'[r].ref = Origin(Parent[r])' /\ (ex'[r].pending = {} => ex'[r].deferred)
    BY <1>0 DEF FirstOK, SourceSame
  <2>6. ex'[r].pc \in Dispatches =>
          /\ steps'[r][Len(steps'[r])].kind = "tool"
          /\ steps'[r][Len(steps'[r])].status # "failed"
    BY <1>0, RefsAdded DEF Dispatches
  <2> QED  BY <2>2, <2>3, <2>4, <2>5, <2>6 DEF FirstOK
<1>2. InheritOK(r)'
  BY DEF InheritOK
<1>3. IndexOK(r)'
  <2>1. CASE ex'[r].pc = "return"
    BY <2>1 DEF IndexOK
  <2>2. CASE ex[r].pc \notin {"fail", "return"} /\ ex'[r].next = ex[r].next + 1
    BY <2>2, AddedIndex
  <2> QED  BY <2>1, <2>2
<1> QED  BY <1>1, <1>2, <1>3 DEF Progress

(* The steps that add a step of their own. *)
LEMMA OwnStepProgress ==
    ASSUME NEW r \in Runs, Moving(r),
           \/ ResumePending(r) \/ AwaitApproval(r) \/ SaveIntent(r) \/ failedFromError(r)
    PROVE  Progress(r)'
<1>0. /\ Types /\ FirstOK(r) /\ Active(r) /\ WorkOK(r) /\ GrantsOK(r) /\ LoopInv
      /\ ~Ended(r) /\ 0 \in Nat /\ {} \subseteq Nat /\ NoRef \in Refs
  BY MovingFacts DEF Moving, Refs, NoRef
<1>f. /\ ex[r].next \in Nat /\ ex[r].ref \in Refs /\ ex[r].pending \subseteq Nat
      /\ ex[r].pc = "intent" => Min(ex[r].pending) \in Nat
  BY <1>0, FirstIs
<1>1. CASE ResumePending(r)
  <2>1. ResumePendingDoes(r)
    BY <1>0, <1>1, ResumePendingEffect
  <2> DEFINE s == Step("control", ex[r].next, ex[r].ref, 0, "completed", {}, 0)
  <2>2. s \in Steps /\ s.idx = ex[r].next /\ s.ref = ex[r].ref
    BY <1>0, <1>f, StepIs
  <2>3. AddsStep(r, s)
    BY <2>1 DEF ResumePendingDoes
  <2> HIDE DEF s
  <2>4. conv[r] = NoConv => ex[r].next <= 1
    BY <1>0, <2>1 DEF ResumePendingDoes, FirstOK, WorkOK
  <2>5. /\ conv' = conv /\ effects' = effects /\ ex'[r].ref = ex[r].ref
        /\ ex'[r].pending = ex[r].pending /\ ex'[r].deferred = ex[r].deferred
        /\ ex[r].pc = "loop" /\ ex'[r].pc = "intent" /\ ex'[r].next = ex[r].next + 1
    BY <2>1 DEF ResumePendingDoes, WorkKept
  <2> QED  BY <2>2, <2>3, <2>4, <2>5, AddedProgress DEF Dispatches
<1>2. CASE AwaitApproval(r)
  <2>1. AwaitApprovalDoes(r)
    BY <1>0, <1>2, AwaitApprovalEffect
  <2> DEFINE s == Step("approval", ex[r].next, ex[r].ref, 0, "awaiting_approval",
                       ex[r].pending, 0)
  <2>2. s \in Steps /\ s.idx = ex[r].next /\ s.ref = ex[r].ref
    BY <1>0, <1>f, StepIs
  <2>3. AddsStep(r, s)
    BY <2>1 DEF AwaitApprovalDoes
  <2> HIDE DEF s
  <2>5. /\ conv' = conv /\ effects' = effects /\ ex'[r].ref = ex[r].ref
        /\ ex'[r].pending = ex[r].pending /\ ex'[r].deferred = ex[r].deferred
        /\ ex[r].pc = "pause" /\ ex'[r].pc = "return" /\ ex'[r].next = ex[r].next + 1
    BY <2>1 DEF AwaitApprovalDoes, WorkKept
  <2>6. conv[r] # NoConv
    BY <1>0, <2>5 DEF GrantsOK
  <2> QED  BY <2>2, <2>3, <2>5, <2>6, AddedProgress DEF Dispatches
<1>3. CASE SaveIntent(r)
  <2>1. SaveIntentDoes(r)
    BY <1>0, <1>3, SaveIntentEffect
  <2> DEFINE s == Step("tool", ex[r].next, ex[r].ref, Min(ex[r].pending), "running", {}, 0)
  <2>2. /\ s \in Steps /\ s.idx = ex[r].next /\ s.ref = ex[r].ref
        /\ s.kind = "tool" /\ s.status # "failed"
    BY <1>0, <1>f, <2>1, StepIs DEF SaveIntentDoes
  <2>3. AddsStep(r, s)
    BY <2>1 DEF SaveIntentDoes
  <2> HIDE DEF s
  <2>5. /\ conv' = conv /\ effects' = effects /\ ex'[r].ref = ex[r].ref
        /\ ex'[r].pending = ex[r].pending /\ ex'[r].deferred = ex[r].deferred
        /\ ex[r].pc = "intent" /\ ex'[r].pc = "dispatch" /\ ex'[r].next = ex[r].next + 1
    BY <2>1 DEF SaveIntentDoes, WorkKept
  <2> QED  BY <2>2, <2>3, <2>5, AddedProgress DEF Dispatches
<1>4. CASE failedFromError(r)
  <2>1. failedFromErrorDoes(r)
    BY <1>0, <1>4, failedFromErrorEffect
  <2> DEFINE s == Step("failure", ex[r].next, NoRef, 0, "failed", {}, 0)
  <2>2. s \in Steps /\ s.idx = ex[r].next /\ s.ref = NoRef
    BY <1>0, <1>f, StepIs
  <2>3. AddsStep(r, s)
    BY <2>1 DEF failedFromErrorDoes
  <2> HIDE DEF s
  <2>5. /\ conv' = conv /\ effects' = effects /\ ex'[r].ref = ex[r].ref
        /\ ex'[r].pending = ex[r].pending /\ ex'[r].deferred = ex[r].deferred
        /\ ex[r].pc = "fail" /\ ex'[r].pc = "return"
    BY <2>1 DEF failedFromErrorDoes, WorkKept
  <2> QED  BY <2>2, <2>3, <2>5, AddedProgress DEF Dispatches
<1> QED  BY <1>1, <1>2, <1>3, <1>4

(* A model call of a run without a conversation is its first, and there    *)
(* was nothing to take over.                                               *)
LEMMA ModelStepProgress ==
    ASSUME NEW r \in Runs, Moving(r), SaveModelStep(r)
    PROVE  Progress(r)'
<1>0. /\ Types /\ FirstOK(r) /\ IndexOK(r) /\ SourceSame(r) /\ run' = run /\ WorkOK(r)
      /\ ~Ended(r) /\ Active(r) /\ LoopInv /\ PhaseOK(r)
  BY MovingFacts DEF Moving
<1>f. /\ ex[r].next \in Nat /\ ex[r].count \in Nat /\ ex[r].spent + 1 \in Nat
      /\ <<r, ex[r].count + 1>> \in Refs /\ 0 \in Nat /\ {} \subseteq Nat
  <2>1. ex[r].next \in Nat /\ ex[r].count \in Nat /\ ex[r].spent \in Nat
    BY <1>0, FirstIs
  <2> QED  BY <2>1, RunsNat DEF Refs
<1>1. SaveModelStepDoes(r)
  BY <1>0, SaveModelStepEffect
<1> DEFINE ref == <<r, ex[r].count + 1>>
<1> HIDE DEF ref
<1> DEFINE s == Step("model", ex[r].next, ref, 0, "completed", {}, ex[r].spent + 1)
<1>2. s \in Steps /\ s.idx = ex[r].next /\ s.ref = ref
  BY <1>f, StepIs, SMTT(40) DEF ref
<1>3. AddsStep(r, s)
  BY <1>1 DEF SaveModelStepDoes, ref
<1> HIDE DEF s
<1>4. /\ conv' = conv /\ effects' = effects /\ ex'[r].ref = ex[r].ref
      /\ ex'[r].pending = ex[r].pending /\ ex'[r].deferred = ex[r].deferred
      /\ ex[r].pc = "think" /\ ex'[r].pc = "save" /\ ex'[r].next = ex[r].next + 1
  BY <1>1 DEF SaveModelStepDoes, WorkKept
<1>5. FirstOK(r)'
  <2> SUFFICES ASSUME conv[r] = NoConv PROVE FirstOK(r)'
    BY <1>4 DEF FirstOK
  <2>1. ~SrcPend(r) /\ ~SrcPend(r)'
    <3>1. ~ex[r].deferred /\ ex[r].pending = {}
      BY <1>0, <1>4 DEF WorkOK, PhaseOK
    <3> QED  BY <1>0, <3>1 DEF FirstOK, SourceSame
  <2>2. Cap(r) = 1 /\ Cap(r)' = 1
    BY <2>1 DEF Cap
  <2>3. RefsBelow(steps[r], 1) /\ ex[r].next <= 1 /\ ~\E e \in effects : e.run = r
    BY <1>0, <1>4, <2>2 DEF FirstOK, WorkOK, Dispatches
  <2>4. RefsBelow(steps'[r], 1)
    BY <1>0, <1>2, <1>3, <2>3, RefsAdded
  <2> QED  BY <1>4, <2>1, <2>2, <2>3, <2>4 DEF FirstOK, Dispatches
<1>6. InheritOK(r)'
  BY <1>4 DEF InheritOK
<1>7. IndexOK(r)'
  BY <1>2, <1>3, <1>4, AddedIndex
<1> QED  BY <1>5, <1>6, <1>7 DEF Progress

(* An effect and the end of its step. *)
LEMMA DispatchProgress ==
    ASSUME NEW r \in Runs, Moving(r), Dispatch(r) \/ FinalizeStep(r)
    PROVE  Progress(r)'
<1>0. /\ Types /\ FirstOK(r) /\ IndexOK(r) /\ SourceSame(r) /\ run' = run
      /\ ~Ended(r) /\ Active(r) /\ Live(r) /\ GrantsOK(r)
      /\ steps[r] \in Seq(Steps)
  BY MovingFacts DEF Types
<1>1. /\ ex[r].pc \in {"dispatch", "finalize"} /\ ex'[r].pc \in {"finalize", "result"}
      /\ WorkKept(r) /\ CountsKept(r) /\ conv' = conv
      /\ SameSteps(r) /\ steps'[r][Len(steps[r])].status \in {"completed", steps[r][Len(steps[r])].status}
      /\ Len(steps[r]) \in DOMAIN steps[r]
  <2>0. Len(steps[r]) \in DOMAIN steps[r] /\ ex[r].pc \in {"dispatch", "finalize"}
    <3>1. ex[r].pc \in {"dispatch", "finalize"}
      BY DEF Dispatch, FinalizeStep, At
    <3>2. steps[r] # <<>>
      BY <1>0, <3>1 DEF GrantsOK
    <3> QED  BY <1>0, <3>1, <3>2
  <2>1. CASE Dispatch(r)
    <3>1. DispatchDoes(r)
      BY <1>0, <2>1, DispatchEffect
    <3> QED  BY <1>0, <2>0, <3>1, StepsSame DEF DispatchDoes
  <2>2. CASE FinalizeStep(r)
    <3>1. FinalizeStepDoes(r)
      BY <1>0, <2>2, FinalizeStepEffect
    <3>2. SameSteps(r)
      BY <1>0, <2>0, <3>1, StatusSet DEF FinalizeStepDoes
    <3>3. steps'[r][Len(steps[r])].status = "completed"
      <4>1. steps[r][Len(steps[r])] \in Steps
        BY <1>0, <2>0
      <4>2. DOMAIN steps = Runs
        BY <1>0 DEF Types
      <4> QED  BY <2>0, <3>1, <4>1, <4>2 DEF FinalizeStepDoes, Steps
    <3> QED  BY <2>0, <3>1, <3>2, <3>3 DEF FinalizeStepDoes
  <2> QED  BY <2>1, <2>2
<1>2. FirstOK(r)'
  <2> SUFFICES ASSUME conv[r] = NoConv PROVE FirstOK(r)'
    BY <1>1 DEF FirstOK
  <2>1. SrcPend(r)' => OnlyRef(steps'[r], Origin(Parent[r])')
    BY <1>0, <1>1, RefsSame DEF FirstOK, SourceSame
  <2>2. Active(r)' /\ SrcPend(r)' =>
          ex'[r].ref = Origin(Parent[r])' /\ (ex'[r].pending = {} => ex'[r].deferred)
    BY <1>0, <1>1 DEF FirstOK, SourceSame, WorkKept
  <2>3. /\ steps'[r][Len(steps'[r])].kind = "tool"
        /\ steps'[r][Len(steps'[r])].status # "failed"
    BY <1>0, <1>1 DEF FirstOK, SameSteps, Dispatches
  <2> QED  BY <1>1, <2>1, <2>2, <2>3 DEF FirstOK, Dispatches
<1>3. InheritOK(r)'
  BY <1>1 DEF InheritOK
<1>4. IndexOK(r)'
  BY <1>0, <1>1, RefsSame DEF IndexOK, CountsKept
<1> QED  BY <1>2, <1>3, <1>4 DEF Progress

(* A run that was cancelled. *)
LEMMA CancelledProgress ==
    ASSUME LoopInv, ChainInv, NEW r \in Runs, Moves(r), ~Live(r)
    PROVE  Progress(r)'
<1>1. run' = run /\ Active(r) /\ Active(r)' /\ ex'[r].cancelled = ex[r].cancelled
  BY DEF Moves, Stays
<1>2. Ended(r)' /\ ~Live(r)'
  BY <1>1, ChainFacts DEF Live, Terminal, Ended
<1> QED  BY <1>2 DEF Progress, FirstOK, InheritOK, IndexOK

(* Every step of an executor keeps the progress of all runs. *)
LEMMA ExecutorProgress ==
    ASSUME LoopInv, ChainInv, LoopInv', ChainInv', ProgressInv, NEW r \in Runs, Executor(r)
    PROVE  ProgressInv'
<1>1. Moves(r)
  BY ExecutorMoves
<1>2. \A q \in Runs \ {r} : Progress(q)'
  BY <1>1, MovesOthers
<1>3. Progress(r)'
  <2>1. CASE ~Live(r)
    BY <1>1, <2>1, CancelledProgress
  <2>2. CASE Live(r)
    <3>1. Moving(r)
      BY <1>1, <2>2 DEF Moving
    <3>2. CASE \/ settleAmbiguousToolDispatch(r) \/ RecoverToolResult(r)
           \/ CloseSuperseded(r) \/ AppendDeferredContinuation(r) \/ CeilingReached(r)
           \/ RecoverAnswer(r) \/ EnterLoop(r) \/ StopCancelled(r) \/ GatePending(r)
           \/ ModelCallLimit(r) \/ CallModel(r) \/ StreamPartial(r) \/ ModelAnswers(r)
           \/ ModelCallFails(r) \/ SaveAssistant(r) \/ SaveToolResult(r)
           \/ CreateApproval(r)
      BY <3>1, <3>2, QuietSteps, QuietProgress
    <3>3. CASE InheritDispatch(r)
      BY <3>1, <3>3, InheritProgress
    <3>4. CASE \/ ResumePending(r) \/ AwaitApproval(r) \/ SaveIntent(r)
               \/ failedFromError(r)
      BY <3>1, <3>4, OwnStepProgress
    <3>5. CASE SaveModelStep(r)
      BY <3>1, <3>5, ModelStepProgress
    <3>6. CASE Dispatch(r) \/ FinalizeStep(r)
      BY <3>1, <3>6, DispatchProgress
    <3> QED  BY <3>2, <3>3, <3>4, <3>5, <3>6 DEF Executor
  <2> QED  BY <2>1, <2>2
<1> QED  BY <1>2, <1>3 DEF ProgressInv

-----------------------------------------------------------------------------
(* The steps of the store. *)

(* An executor stays, stops with its run, or stops while no dispatch can   *)
(* be forgotten.                                                           *)
LEMMA KeptProgress ==
    ASSUME LoopInv, ChainInv, LoopInv', ChainInv', ProgressInv,
           steps' = steps, effects' = effects, conv' = conv,
           \A q \in Runs :
             /\ run'[q].mode = run[q].mode
             /\ Ended(q) => Ended(q)'
             /\ \/ ex'[q] = ex[q]
                \/ Ended(q)' /\ ~Live(q)'
                \/ /\ ex'[q].pc = "idle"
                   /\ conv[q] = NoConv /\ ~Ended(q) =>
                        ex[q].pc \notin Dispatches
    PROVE  ProgressInv'
<1> SUFFICES ASSUME NEW q \in Runs PROVE Progress(q)'
  BY DEF ProgressInv
<1>0. Progress(q) /\ FirstOK(q)
  BY DEF ProgressInv, Progress
<1>1. SourceSame(q)
  <2>1. Pend(Saved(Parent[q]))' = Pend(Saved(Parent[q]))
    BY DEF Saved
  <2> QED  BY <2>1, SourceKept
<1>2. CASE ex'[q] = ex[q]
  BY <1>0, <1>1, <1>2, FrameProgress
<1>3. CASE Ended(q)' /\ ~Live(q)'
  BY <1>3 DEF Progress, FirstOK, InheritOK, IndexOK
<1>4. CASE /\ ex'[q].pc = "idle"
           /\ conv[q] = NoConv /\ ~Ended(q) => ex[q].pc \notin Dispatches
  <2>1. ~Active(q)' /\ ~Live(q)'
    BY <1>4 DEF Active, Live
  <2>2. FirstOK(q)'
    <3> SUFFICES ASSUME conv[q] = NoConv, ~Ended(q)' PROVE FirstOK(q)'
      BY DEF FirstOK
    <3>1. ex[q].pc \notin Dispatches /\ ~Ended(q)
      BY <1>4
    <3>2. RefsBelow(steps'[q], Cap(q)')
      BY <1>0, <1>1, <3>1 DEF FirstOK, SourceSame
    <3>3. SrcPend(q)' => OnlyRef(steps'[q], Origin(Parent[q])')
      BY <1>0, <1>1, <3>1 DEF FirstOK, SourceSame
    <3>4. ~\E e \in effects' : e.run = q
      BY <1>0, <3>1 DEF FirstOK, Dispatches
    <3> QED  BY <1>4, <2>1, <3>2, <3>3, <3>4 DEF FirstOK, Dispatches
  <2> QED  BY <2>1, <2>2 DEF Progress, InheritOK, IndexOK
<1> QED  BY <1>2, <1>3, <1>4

(* Progress holds initially. *)
LEMMA InitProgress == Init => ProgressInv
<1> SUFFICES ASSUME Init, NEW q \in Runs PROVE Progress(q)
  BY DEF ProgressInv
<1>1. /\ steps[q] = <<>> /\ ex[q] = Idle /\ effects = {} /\ run[q].mode = "fresh"
  BY DEF Init
<1>2. ~Active(q) /\ ~Live(q) /\ ex[q].pc = "idle"
  BY <1>1 DEF Active, Live, Idle
<1>3. WithRef(steps[q]) = {} /\ ~SrcPend(q)
  BY <1>1 DEF WithRef, SrcPend
<1> QED  BY <1>1, <1>2, <1>3
            DEF Progress, FirstOK, InheritOK, IndexOK, RefsBelow, OnlyRef,
            Dispatches

(* A new run has no progress yet. *)
LEMMA StartProgress ==
    ASSUME LoopInv, ChainInv, LoopInv', ChainInv', ProgressInv, NEW r \in Runs,
           NEW mode, NEW index, NEW budget, StartFromRun(r, mode, index, budget)
    PROVE  ProgressInv'
<1>0. /\ Types /\ UNCHANGED <<conv, steps, ex, effects>>
  BY DEF StartFromRun, LoopInv
<1>s. PICK s \in Runs :
        /\ run[s].status = "none" /\ run'[s].status = "queued"
        /\ \A q \in Runs : q # s => run'[q] = run[q]
  BY <1>0 DEF StartFromRun, Types
<1>1. ASSUME NEW q \in Runs, q # s PROVE Progress(q)'
  <2>0. Progress(q) /\ run'[q] = run[q] /\ Line(q) \subseteq Runs
    BY <1>s, <1>1, LineFacts DEF ProgressInv
  <2>1. \A p \in Line(q) : p # q => steps'[p] = steps[p]
    BY <1>0
  <2>2. Pend(Saved(Parent[q]))' = Pend(Saved(Parent[q]))
    BY <1>0 DEF Saved
  <2>3. SourceSame(q)
    BY <2>0, <2>1, <2>2, SourceKept
  <2>4. ~Ended(q)' => ~Ended(q)
    BY <1>0, <2>0 DEF Ended, Live, Active
  <2> QED  BY <1>0, <2>0, <2>3, <2>4, FrameProgress
<1>2. Progress(s)'
  <2>1. /\ steps[s] = <<>> /\ conv[s] = NoConv /\ ~Active(s) /\ FirstOK(s)
    BY <1>s DEF ChainInv, LifeOK, ProgressInv, Progress
  <2>2. ~\E e \in effects : e.run = s
    BY <1>s, <2>1 DEF FirstOK, Active, Terminal, Ended
  <2>3. ~Active(s)' /\ ~Live(s)' /\ ex'[s].pc = "idle"
    BY <1>0, <2>1 DEF Active, Live
  <2>4. WithRef(steps'[s]) = {}
    BY <1>0, <2>1 DEF WithRef
  <2> QED  BY <1>0, <2>2, <2>3, <2>4
              DEF Progress, FirstOK, InheritOK, IndexOK, RefsBelow,
              OnlyRef, Dispatches
<1> QED  BY <1>1, <1>2 DEF ProgressInv

(* CancelRun keeps progress. *)
LEMMA CancelProgress ==
    ASSUME LoopInv, ChainInv, LoopInv', ChainInv', ProgressInv, NEW r \in Runs, CancelRun(r)
    PROVE  ProgressInv'
<1>0. /\ run[r].status \in {"queued", "running", "awaiting_approval"}
      /\ run' = [run EXCEPT ![r].status = "cancelled"]
      /\ UNCHANGED <<conv, steps, ex, effects>>
  BY DEF CancelRun
<1>1. DOMAIN run = Runs /\ DOMAIN run[r] = RunFields
  BY ChainFacts
<1>2. \A q \in Runs : /\ run'[q].mode = run[q].mode /\ ex'[q] = ex[q]
                      /\ Ended(q) => Ended(q)'
  BY <1>0, <1>1 DEF RunFields, Terminal, Ended, Live, Active
<1> QED  BY <1>0, <1>2, KeptProgress

(* cancelInFlightJob keeps progress. *)
LEMMA SignalProgress ==
    ASSUME LoopInv, ChainInv, LoopInv', ChainInv', ProgressInv, NEW r \in Runs,
           cancelInFlightJob(r)
    PROVE  ProgressInv'
<1>0. /\ run[r].status = "cancelled"
      /\ ex' = [ex EXCEPT ![r].cancelled = TRUE]
      /\ UNCHANGED <<run, conv, steps, effects>>
  BY DEF cancelInFlightJob
<1>1. DOMAIN ex = Runs /\ DOMAIN ex[r] = Fields
  BY ChainFacts
<1>2. (\A q \in Runs : q # r => ex'[q] = ex[q]) /\ ex'[r].cancelled
  BY <1>0, <1>1 DEF Fields
<1>3. Ended(r)' /\ ~Live(r)'
  BY <1>0, <1>2 DEF Ended, Live, Terminal
<1>4. \A q \in Runs : q # r => (Ended(q) => Ended(q)')
  BY <1>0, <1>2 DEF Ended, Live, Active
<1>5. \A q \in Runs :
             /\ run'[q].mode = run[q].mode
             /\ Ended(q) => Ended(q)'
             /\ \/ ex'[q] = ex[q]
                \/ Ended(q)' /\ ~Live(q)'
  BY <1>0, <1>2, <1>3, <1>4
<1> QED  BY <1>0, <1>5, KeptProgress

(* Answers to approvals keep progress. *)
LEMMA AnswerProgress ==
    ASSUME LoopInv, ChainInv, LoopInv', ChainInv', ProgressInv, NEW r \in Runs, NEW k,
           ApproveAndResume(r, k) \/ RejectApproval(r, k)
    PROVE  ProgressInv'
<1>0. /\ run[r].status = "awaiting_approval"
      /\ \E status : run' = [run EXCEPT ![r].status = status]
      /\ UNCHANGED <<conv, steps, ex, effects>>
  BY DEF ApproveAndResume, RejectApproval
<1>1. DOMAIN run = Runs /\ DOMAIN run[r] = RunFields
  BY ChainFacts
<1>2. \A q \in Runs : /\ run'[q].mode = run[q].mode /\ ex'[q] = ex[q]
                      /\ Ended(q) => Ended(q)'
  BY <1>0, <1>1 DEF RunFields, Terminal, Ended, Live, Active
<1> QED  BY <1>0, <1>2, KeptProgress

(* SettleRun keeps progress. *)
LEMMA SettleProgress ==
    ASSUME LoopInv, ChainInv, LoopInv', ChainInv', ProgressInv, NEW r \in Runs, SettleRun(r)
    PROVE  ProgressInv'
<1>0. /\ ex[r].pc = "return"
      /\ run' = [run EXCEPT ![r] =
           [@ EXCEPT !.status = IF run[r].status \in Terminal THEN run[r].status
                                ELSE ex[r].out,
                     !.cost = Max({run[r].cost, ex[r].spent}),
                     !.calls = Max({run[r].calls, ex[r].count,
                                    completedModelCallCount(r)})]]
      /\ ex' = [ex EXCEPT ![r] = Idle]
      /\ UNCHANGED <<conv, steps, effects>>
  BY DEF SettleRun, At
<1>1. DOMAIN run = Runs /\ DOMAIN run[r] = RunFields /\ DOMAIN ex = Runs
  BY ChainFacts
<1>2. /\ \A q \in Runs : q # r => run'[q] = run[q] /\ ex'[q] = ex[q]
      /\ run[r].status \in Terminal => run'[r].status = run[r].status
      /\ run'[r].mode = run[r].mode /\ ex'[r].pc = "idle"
  BY <1>0, <1>1 DEF RunFields, Idle
<1>3. ex[r].pc \notin Dispatches
  BY <1>0 DEF Dispatches
<1>4. \A q \in Runs :
             /\ run'[q].mode = run[q].mode
             /\ Ended(q) => Ended(q)'
             /\ \/ ex'[q] = ex[q]
                \/ Ended(q)' /\ ~Live(q)'
                \/ /\ ex'[q].pc = "idle"
                   /\ conv[q] = NoConv /\ ~Ended(q) =>
                        ex[q].pc \notin Dispatches
  BY <1>2, <1>3 DEF Ended, Live, Active
<1> QED  BY <1>0, <1>4, KeptProgress

(* WriteFails keeps progress. *)
LEMMA WriteFailsProgress ==
    ASSUME LoopInv, ChainInv, LoopInv', ChainInv', ProgressInv, NEW r \in Runs, WriteFails(r)
    PROVE  ProgressInv'
<1>0. /\ run' = [run EXCEPT ![r].status = IF @ \in Terminal THEN @ ELSE "failed"]
      /\ ex' = [ex EXCEPT ![r] = Idle]
      /\ UNCHANGED <<conv, steps, effects>>
  BY DEF WriteFails
<1>1. DOMAIN run = Runs /\ DOMAIN run[r] = RunFields /\ DOMAIN ex = Runs
  BY ChainFacts
<1>2. /\ \A q \in Runs : q # r => run'[q] = run[q] /\ ex'[q] = ex[q]
      /\ Ended(r)'
      /\ run'[r].mode = run[r].mode /\ ex'[r].pc = "idle"
  BY <1>0, <1>1 DEF RunFields, Idle, Terminal, Ended, Live, Active
<1>3. ~Live(r)'
  BY <1>2 DEF Live, Active
<1>4. \A q \in Runs :
             /\ run'[q].mode = run[q].mode
             /\ Ended(q) => Ended(q)'
             /\ \/ ex'[q] = ex[q]
                \/ Ended(q)' /\ ~Live(q)'
                \/ /\ ex'[q].pc = "idle"
                   /\ conv[q] = NoConv /\ ~Ended(q) =>
                        ex[q].pc \notin Dispatches
  BY <1>2, <1>3 DEF Ended, Live, Active
<1> QED  BY <1>0, <1>4, KeptProgress

(* Outside the window no dispatch is forgotten in a crash. *)
LEMMA CrashProgress ==
    ASSUME LoopInv, ChainInv, LoopInv', ChainInv', ProgressInv, ReplayWindow = FALSE, Crash
    PROVE  ProgressInv'
<1>0. /\ run' = [q \in Runs |-> IF run[q].status = "running"
                   THEN [run[q] EXCEPT !.status = "queued"] ELSE run[q]]
      /\ ex' = [q \in Runs |-> Idle]
      /\ UNCHANGED <<conv, steps, effects>> /\ CrashSafe
  BY DEF Crash
<1>1. ASSUME NEW q \in Runs
      PROVE  /\ run'[q].mode = run[q].mode
             /\ Ended(q) => Ended(q)'
             /\ \/ Ended(q)' /\ ~Live(q)'
                \/ /\ ex'[q].pc = "idle"
                   /\ conv[q] = NoConv /\ ~Ended(q) =>
                        ex[q].pc \notin Dispatches
  <2>1. DOMAIN run[q] = RunFields /\ FirstOK(q)
    BY ChainFacts DEF ProgressInv, Progress
  <2>2. run'[q].mode = run[q].mode
    BY <1>0, <2>1 DEF RunFields
  <2>3. Ended(q) => Ended(q)'
    BY <1>0 DEF Terminal, Ended, Live, Active, Idle
  <2>4. ASSUME conv[q] = NoConv, ~Ended(q), ex[q].pc \in Dispatches,
               run[q].status # "cancelled"
        PROVE  FALSE
    <3>1. run[q].status = "running"
      BY <2>4, ChainFacts DEF Active, Dispatches, Terminal
    <3>2. /\ steps[q][Len(steps[q])].kind = "tool"
          /\ steps[q][Len(steps[q])].status # "failed"
      BY <2>1, <2>4 DEF FirstOK
    <3>3. steps[q] # <<>> /\ steps[q] \in Seq(Steps)
      BY <2>4, Facts DEF GrantsOK, Dispatches, Types
    <3>4. steps[q][Len(steps[q])] \in Range(steps[q])
      BY <3>3 DEF Range
    <3> QED  BY <1>0, <2>4, <3>1, <3>2, <3>4 DEF CrashSafe
  <2>5. ex'[q].pc = "idle"
    BY <1>0 DEF Idle
  <2>6. run[q].status = "cancelled" => Ended(q)' /\ ~Live(q)'
    BY <1>0, <2>5 DEF Ended, Live, Active, Terminal
  <2> QED  BY <2>2, <2>3, <2>4, <2>5, <2>6
<1> QED  BY <1>0, <1>1, KeptProgress

-----------------------------------------------------------------------------

(* The evidence a worker looks for. *)
LEMMA MatchesAre ==
    ASSUME NEW q, NEW c, c.evidence = DurableToolDispatches(q)
    PROVE  RecoveryMatches(c) = {i \in Pend(c.msgs) : ToolAt(q, c.ref, i)}
<1>1. ASSUME NEW i
      PROVE  findDurableToolDispatch(c.evidence, i, c.ref) # {} <=> ToolAt(q, c.ref, i)
  <2>1. \A s : s \in Range(steps[q]) <=> \E n \in DOMAIN steps[q] : s = steps[q][n]
    BY DEF Range
  <2> QED  BY <2>1 DEF findDurableToolDispatch, ToolAt, DurableToolDispatches
<1> QED  BY <1>1 DEF RecoveryMatches, Pend

(* Nothing is pending after the first prompt. *)
LEMMA PromptPend == Pend(<<Prompt>>) = {}
<1>1. Prompt \in Messages /\ Prompt.role = "user"
  BY DEF Prompt, Messages, Sayings
<1>2. <<Prompt>> = Append(<<>>, Prompt) /\ <<>> \in Seq(Messages)
  OBVIOUS
<1> QED  BY <1>1, <1>2, AppendUser

(* A conversation of only the prompt copies nothing else. *)
LEMMA PromptCopied ==
    ASSUME NEW r
    PROVE  Copied(r, <<Prompt>>)
<1>1. \A n \in DOMAIN <<Prompt>> : <<Prompt>>[n] = Prompt
  OBVIOUS
<1> QED  BY <1>1 DEF Copied

(* A run with a conversation of its own is claimed from it. *)
LEMMA OwnClaimIs ==
    ASSUME LoopInv, ChainInv, NEW r \in Runs, run[r].status = "queued", conv[r] # NoConv,
           HydrateDoes(r, resumeCheckpointForRun(r))
    PROVE  OwnClaim(r)
<1> DEFINE m == Saved(r)
           direct == directPendingToolCallOrigin(r)
           origin == IF direct # NoRef THEN direct ELSE pendingToolCallOrigin(Parent[r])
           ref == IF Pend(m) = {} THEN NoRef ELSE origin
           approved == sameRunPendingToolCallsApproved(r, Pend(m))
           c == Checkpoint(TRUE, m, DurableToolDispatches(r), ref, approved, FALSE, r)
<1>1. resumeCheckpointForRun(r) = c
  BY DEF resumeCheckpointForRun, ownRunResumeCheckpoint, Saved, Pend
<1>2. origin = Origin(r)
  <2>1. direct = NewestRef(steps[r])
    BY DirectAll
  <2>2. CASE direct # NoRef
    BY <2>1, <2>2, OriginIs
  <2>3. CASE direct = NoRef
    BY <2>1, <2>3, OriginIs DEF Origin
  <2> QED  BY <2>2, <2>3
<1> HIDE DEF origin, approved
<1>3. /\ c.same = TRUE /\ c.msgs = m /\ c.ref = ref /\ c.lastIdx = LastIndex(r)
      /\ c.evidence = DurableToolDispatches(r)
  BY DEF Checkpoint
<1> HIDE DEF c
<1>4. RecoveryMatches(c) = {i \in Pend(m) : ToolAt(r, ref, i)}
  BY <1>3, MatchesAre
<1>5. RecoveryMatches(c) = {i \in Pend(m) : ToolAt(r, Origin(r), i)}
  <2>1. CASE Pend(m) = {}
    BY <1>4, <2>1
  <2>2. CASE Pend(m) # {}
    BY <1>2, <1>4, <2>2
  <2> QED  BY <2>1, <2>2
<1>6. /\ ex'[r].msgs = m /\ ex'[r].pending = Pend(m) /\ ex'[r].ref = ref
      /\ ex'[r].matches = RecoveryMatches(c) /\ ex'[r].next = LastIndex(r) + 1
      /\ ex'[r].pc # "inherit"
  BY <1>1, <1>3 DEF HydrateDoes
<1> QED  BY <1>2, <1>5, <1>6 DEF OwnClaim

(* Another is claimed from its source, or starts afresh. *)
LEMMA SourceClaimIs ==
    ASSUME LoopInv, ChainInv, NEW r \in Runs, conv[r] = NoConv, ~CheckpointUnavailable(r),
           HydrateDoes(r, resumeCheckpointForRun(r))
    PROVE  SourceClaim(r) \/ FreshClaim(r)
<1>1. CASE run[r].mode = "fresh"
  <2> DEFINE c == Checkpoint(FALSE, <<Prompt>>, {}, NoRef, FALSE, FALSE, r)
  <2>1. resumeCheckpointForRun(r) = c
    BY <1>1 DEF resumeCheckpointForRun
  <2>2. c.msgs = <<Prompt>> /\ c.lastIdx = 0 /\ c.evidence = {} /\ c.same = FALSE
    BY DEF Checkpoint
  <2> HIDE DEF c
  <2>3. RecoveryMatches(c) = {}
    BY <2>2, PromptPend DEF RecoveryMatches, Pend
  <2>4. /\ ex'[r].pending = {} /\ ex'[r].next = 1 /\ ex'[r].msgs = <<Prompt>>
        /\ ex'[r].pc \notin {"inherit", "settle"}
    BY <2>1, <2>2, <2>3, PromptPend DEF HydrateDoes
  <2> QED  BY <1>1, <2>4, PromptCopied DEF FreshClaim, SrcPend
<1>2. CASE run[r].mode = "retry"
  <2> DEFINE s == Parent[r]
             m == Saved(s)
             u == truncateConversation(m, run[s].calls, run[r].index)
             c == Checkpoint(FALSE, u, {}, NoRef, FALSE, FALSE, r)
  <2>0. Types /\ batches \in Nat
    BY Facts
  <2>1. resumeCheckpointForRun(r) = c
    BY <1>2 DEF resumeCheckpointForRun, sourceCheckpoint, Saved
  <2>2. s \in Runs /\ run[s].calls \in Nat /\ run[r].index \in 1..run[s].calls
    BY <1>2, <2>0 DEF LoopInv, RetryOK, Types, RunTypes
  <2>3. Good(m) /\ Upto(m, batches) /\ (m # <<>> => Begun(m)) /\ m \in Seq(Messages)
    BY <2>2, SavedBegun DEF Good
  <2>4. ~(countAssistantMessages(m) < run[s].calls)
    BY <1>2 DEF CheckpointUnavailable, Saved
  <2>5. Pend(u) = {} /\ \A n \in DOMAIN u : n \in DOMAIN m /\ u[n] = m[n]
    <3> HIDE DEF m, s
    <3>1. AssistantsAt(m) \subseteq 1..Len(m) /\ Len(m) \in Nat
      BY <2>3 DEF AssistantsAt
    <3>2. IsFiniteSet(AssistantsAt(m))
      <4>1. IsFiniteSet(1..Len(m))
        BY <3>1, FS_Interval
      <4> QED  BY <3>1, <4>1, FS_Subset
    <3>3. m = <<>> => AssistantsAt(m) = {}
      BY DEF AssistantsAt
    <3>4. countAssistantMessages(m) \in Nat /\ (m = <<>> => countAssistantMessages(m) = 0)
      BY <3>2, <3>3, FS_CardinalityType, FS_EmptySet DEF countAssistantMessages
    <3>5. run[s].calls <= countAssistantMessages(m) /\ m # <<>>
      BY <2>2, <2>4, <3>4
    <3> QED  BY <2>0, <2>2, <2>3, <3>5, CutGood
  <2> HIDE DEF u
  <2>c. Copied(r, u)
    BY <2>2, <2>5 DEF Copied
  <2>6. c.msgs = u /\ c.lastIdx = 0 /\ c.evidence = {} /\ c.same = FALSE
    BY DEF Checkpoint
  <2> HIDE DEF c
  <2>7. RecoveryMatches(c) = {}
    BY <2>5, <2>6 DEF RecoveryMatches, Pend
  <2>8. /\ ex'[r].pending = {} /\ ex'[r].next = 1 /\ ex'[r].msgs = u
        /\ ex'[r].pc \notin {"inherit", "settle"}
    BY <2>1, <2>5, <2>6, <2>7 DEF HydrateDoes
  <2> QED  BY <1>2, <2>8, <2>c DEF FreshClaim, SrcPend
<1>3. CASE run[r].mode \in {"resume", "continue"}
  <2> DEFINE s == Parent[r]
             m == Saved(s)
             u == IF m = <<>> THEN <<Prompt>> ELSE m
             ref == IF Pend(u) = {} THEN NoRef ELSE Origin(s)
             c == Checkpoint(FALSE, u, DurableToolDispatches(s), ref, FALSE,
                             run[r].mode = "continue", r)
  <2>1. resumeCheckpointForRun(r) = c
    BY <1>3 DEF resumeCheckpointForRun, sourceCheckpoint, Saved, Pend, Origin
  <2>2. Pend(u) = Pend(m) /\ (Pend(m) # {} => u = m)
    BY PromptPend, EmptyPend
  <2>c. Copied(r, u)
    <3>1. s \in Runs
      BY <1>3 DEF LoopInv, RetryOK
    <3>2. CASE m = <<>>
      BY <3>2, PromptCopied
    <3>3. CASE m # <<>>
      <4>1. u = m
        BY <3>3
      <4> QED  BY <3>1, <4>1 DEF Copied
    <3> QED  BY <3>2, <3>3
  <2> HIDE DEF u
  <2>3. /\ c.msgs = u /\ c.lastIdx = 0 /\ c.evidence = DurableToolDispatches(s)
        /\ c.same = FALSE /\ c.ref = ref
    BY DEF Checkpoint
  <2> HIDE DEF c
  <2>4. RecoveryMatches(c) = {i \in Pend(u) : ToolAt(s, ref, i)}
    BY <2>3, MatchesAre
  <2>5. /\ ex'[r].msgs = u /\ ex'[r].pending = Pend(u) /\ ex'[r].ref = ref
        /\ ex'[r].matches = RecoveryMatches(c) /\ ex'[r].left = RecoveryMatches(c)
        /\ ex'[r].next = 1 /\ ex'[r].pc # "settle"
        /\ RecoveryMatches(c) = {} => ex'[r].pc # "inherit"
    BY <2>1, <2>3 DEF HydrateDoes
  <2>6. CASE Pend(m) = {}
    BY <1>3, <2>2, <2>4, <2>5, <2>6, <2>c DEF FreshClaim, SrcPend
  <2>7. CASE Pend(m) # {}
    <3>1. SrcPend(r)
      BY <1>3, <2>7 DEF SrcPend
    <3>2. RecoveryMatches(c) = Taken(r)
      BY <2>2, <2>4, <2>7 DEF Taken
    <3> QED  BY <2>2, <2>5, <2>7, <3>1, <3>2 DEF SourceClaim
  <2> QED  BY <2>6, <2>7
<1> QED
  <2>1. run[r].mode \in Modes
    BY DEF LoopInv, Types, RunTypes
  <2> QED  BY <1>1, <1>2, <1>3, <2>1 DEF Modes

(* A claim hands the run over, or fails it. *)
LEMMA ClaimIs ==
    ASSUME LoopInv, ChainInv, NEW r \in Runs, ClaimRun(r)
    PROVE  \/ Claims(r)
           \/ /\ run' = [run EXCEPT ![r].status = "failed"]
              /\ UNCHANGED <<conv, ex, steps, batches, effects>>
              /\ run[r].status = "queued" /\ ex[r].pc = "idle"
<1>0. /\ Types /\ run[r].status = "queued" /\ ~Active(r) /\ ex[r].pc = "idle"
      /\ UNCHANGED <<steps, batches, effects>>
  BY Facts DEF ClaimRun, Active
<1>1. CASE run' = [run EXCEPT ![r].status = "failed"] /\ UNCHANGED <<conv, ex>>
  BY <1>0, <1>1
<1>2. CASE /\ ~CheckpointUnavailable(r)
           /\ run' = [run EXCEPT ![r].status = "running"]
           /\ Hydrate(r, resumeCheckpointForRun(r))
  <2> DEFINE c == resumeCheckpointForRun(r)
  <2>0. DOMAIN run = Runs /\ DOMAIN run[r] = RunFields /\ DOMAIN ex = Runs
    BY ChainFacts
  <2>1. CheckpointOK(r, c)
    BY <1>2, ResumeCheckpoint
  <2>2. /\ HydrateDoes(r, c)
        /\ c.same => SavesTo(r, c.msgs)
        /\ ~c.same => conv' = conv
    BY <1>0, <1>2, HydrateEffect
  <2>3. OwnClaim(r) \/ SourceClaim(r) \/ FreshClaim(r)
    BY <1>0, <1>2, <2>2, OwnClaimIs, SourceClaimIs
  <2>4. ex'[r].cancelled = FALSE
    BY <1>2, <2>0 DEF Hydrate, Idle
  <2> HIDE DEF c
  <2>5. /\ c.msgs \in Seq(Messages) /\ c.msgs # <<>>
        /\ c.same <=> conv[r] # NoConv
        /\ c.same => c.msgs = Saved(r)
    BY <2>1 DEF CheckpointOK, Good, Begun
  <2>6. /\ \A q \in Runs \ {r} : conv'[q] = conv[q]
        /\ conv'[r] # NoConv <=> conv[r] # NoConv
        /\ Saved(r)' = Saved(r)
        /\ conv'[r] = conv[r] \/ ~conv'[r].streaming
    <3>1. CASE c.same
      BY <1>0, <2>2, <2>5, <3>1, SavedTo
    <3>2. CASE ~c.same
      BY <1>0, <2>2, <3>2 DEF Types, Saved
    <3> QED  BY <3>1, <3>2
  <2>7. /\ \A q \in Runs \ {r} : ex'[q] = ex[q]
        /\ ex'[r].pc \in {"fail", "normalize", "settle", "inherit"}
        /\ ex'[r].pc = "normalize" => ex'[r].matches = {}
    BY <2>2 DEF HydrateDoes
  <2>8. /\ \A q \in Runs \ {r} : run'[q] = run[q]
        /\ run'[r].status = "running" /\ run'[r].mode = run[r].mode
    BY <1>2, <2>0 DEF RunFields
  <2>9. \A q \in Runs : /\ run'[q].mode = run[q].mode
                        /\ Saved(q)' = Saved(q)
                        /\ conv'[q] = NoConv <=> conv[q] = NoConv
    BY <2>6, <2>8 DEF Saved
  <2> QED  BY <1>0, <2>3, <2>4, <2>6, <2>7, <2>8, <2>9 DEF Claims
<1> QED  BY <1>1, <1>2 DEF ClaimRun

(* ClaimRun keeps progress. *)
LEMMA ClaimProgress ==
    ASSUME LoopInv, ChainInv, LoopInv', ChainInv', ProgressInv, NEW r \in Runs, ClaimRun(r)
    PROVE  ProgressInv'
<1>1. CASE /\ run' = [run EXCEPT ![r].status = "failed"]
           /\ UNCHANGED <<conv, ex, steps, effects>>
           /\ run[r].status = "queued"
  <2>1. DOMAIN run = Runs /\ DOMAIN run[r] = RunFields
    BY ChainFacts
  <2>2. \A q \in Runs : /\ run'[q].mode = run[q].mode /\ ex'[q] = ex[q]
                        /\ Ended(q) => Ended(q)'
    BY <1>1, <2>1 DEF RunFields, Terminal, Ended, Live, Active
  <2> QED  BY <1>1, <2>2, KeptProgress
<1>2. CASE Claims(r)
  <2>0. /\ UNCHANGED <<steps, effects>>
        /\ \A q \in Runs : /\ run'[q].mode = run[q].mode
                           /\ Saved(q)' = Saved(q)
                           /\ conv'[q] = NoConv <=> conv[q] = NoConv
        /\ \A q \in Runs \ {r} : ex'[q] = ex[q] /\ conv'[q] = conv[q] /\ run'[q] = run[q]
        /\ run[r].status = "queued" /\ ~Active(r)
        /\ ex'[r].pc \in {"fail", "normalize", "settle", "inherit"}
        /\ ex'[r].pc = "normalize" => ex'[r].matches = {}
    BY <1>2 DEF Claims
  <2>1. ASSUME NEW q \in Runs PROVE SourceSame(q)
    <3>1. run[q].mode # "fresh" => Pend(Saved(Parent[q]))' = Pend(Saved(Parent[q]))
      <4> SUFFICES ASSUME run[q].mode # "fresh" PROVE Pend(Saved(Parent[q]))' = Pend(Saved(Parent[q]))
        OBVIOUS
      <4>1. Parent[q] \in Runs
        BY DEF LoopInv, RetryOK
      <4> QED  BY <2>0, <4>1
    <3> QED  BY <2>0, <3>1, SourceKept
  <2>2. ASSUME NEW q \in Runs \ {r} PROVE Progress(q)'
    <3>1. ~Ended(q)' => ~Ended(q)
      BY <2>0 DEF Ended, Live, Active
    <3>2. Progress(q)
      BY DEF ProgressInv
    <3> QED  BY <2>0, <2>1, <3>1, <3>2, FrameProgress
  <2>3. Progress(r)'
    <3>0. /\ FirstOK(r) /\ SourceSame(r) /\ ex[r].pc \notin Dispatches
          /\ ~Ended(r) /\ Types /\ steps[r] \in Seq(Steps)
      BY <2>0, <2>1
         DEF ProgressInv, Progress, Active, Terminal, Dispatches, LoopInv, Types,
         Ended
    <3>1. ASSUME conv[r] = NoConv
          PROVE  /\ RefsBelow(steps'[r], Cap(r)') /\ ~\E e \in effects' : e.run = r
                 /\ SrcPend(r)' => OnlyRef(steps'[r], Origin(Parent[r])')
      BY <2>0, <3>0, <3>1 DEF FirstOK, SourceSame, Dispatches
    <3>2. CASE OwnClaim(r)
      <4>1. conv'[r] # NoConv /\ ex'[r].pc # "inherit" /\ ex'[r].next = LastIndex(r) + 1
        BY <2>0, <3>2 DEF OwnClaim
      <4>2. RefsBelow(steps'[r], ex'[r].next)
        <5>1. /\ LastIndex(r) \in Nat
              /\ \A n \in DOMAIN steps[r] : steps[r][n].idx <= LastIndex(r)
                                            /\ steps[r][n].idx \in Nat
          BY <3>0, Counts, StepTypes
        <5> QED  BY <2>0, <4>1, <5>1 DEF RefsBelow, WithRef
      <4> QED  BY <4>1, <4>2 DEF Progress, FirstOK, InheritOK, IndexOK
    <3>3. CASE SourceClaim(r)
      <4>1. /\ conv[r] = NoConv /\ SrcPend(r) /\ ex'[r].pending = Pend(Saved(Parent[r]))
            /\ ex'[r].ref = Origin(Parent[r]) /\ ex'[r].matches = Taken(r)
            /\ ex'[r].left = Taken(r) /\ ex'[r].next = 1 /\ ex'[r].pc # "settle"
        BY <3>3 DEF SourceClaim
      <4>2. ex'[r].pending # {} /\ ex'[r].ref = Origin(Parent[r])' /\ Taken(r)' = Taken(r)
            /\ SrcPend(r)'
        BY <3>0, <4>1 DEF SrcPend, SourceSame
      <4>3. FirstOK(r)'
        BY <2>0, <3>1, <4>1, <4>2 DEF FirstOK, Dispatches
      <4>4. InheritOK(r)'
        <5>1. IsFiniteSet(Taken(r))
          BY <4>1, CapNat
        <5>2. Cardinality(Taken(r)) \in Nat
          BY <5>1, FS_CardinalityType
        <5>3. ex'[r].next + Cardinality(ex'[r].left) = Cardinality(Taken(r)) + 1
          BY <4>1, <5>2
        <5> QED  BY <2>0, <4>1, <4>2, <5>3 DEF InheritOK
      <4>5. IndexOK(r)'
        <5> SUFFICES ASSUME ex'[r].pc = "normalize" PROVE RefsBelow(steps'[r], ex'[r].next)
          BY <2>0, <4>1 DEF IndexOK
        <5>1. Cap(r)' = 1
          BY <2>0, <4>1, <4>2 DEF Cap
        <5> QED  BY <3>1, <4>1, <5>1
      <4> QED  BY <4>3, <4>4, <4>5 DEF Progress
    <3>4. CASE FreshClaim(r)
      <4>1. /\ conv[r] = NoConv /\ ~SrcPend(r)' /\ ex'[r].next = 1
            /\ ex'[r].pc \in {"fail", "normalize"}
        BY <2>0, <3>0, <3>4 DEF FreshClaim, SourceSame
      <4>2. Cap(r)' = 1
        BY <4>1 DEF Cap
      <4>3. FirstOK(r)'
        BY <2>0, <3>1, <4>1 DEF FirstOK, Dispatches
      <4>4. IndexOK(r)'
        BY <3>1, <4>1, <4>2 DEF IndexOK
      <4> QED  BY <4>1, <4>3, <4>4 DEF Progress, InheritOK
    <3> QED  BY <1>2, <3>2, <3>3, <3>4 DEF Claims
  <2> QED  BY <2>2, <2>3 DEF ProgressInv
<1> QED  BY <1>1, <1>2, ClaimIs

(* Every step keeps progress, if no crash falls into the window of         *)
(* CrashSafe.                                                              *)
LEMMA NextProgress ==
    ASSUME LoopInv, ChainInv, ProgressInv, ReplayWindow = FALSE, LateSignal = FALSE,
           [Next]_vars
    PROVE  ProgressInv'
<1>0. LoopInv' /\ ChainInv'
  BY NextLoop, NextChain
<1>1. CASE UNCHANGED vars
  <2>1. steps' = steps /\ effects' = effects /\ conv' = conv /\ ex' = ex /\ run' = run
    BY <1>1 DEF vars
  <2>2. \A q \in Runs : Ended(q) => Ended(q)'
    BY <2>1 DEF Ended, Live, Active
  <2> QED  BY <1>0, <2>1, <2>2, KeptProgress
<1>2. ASSUME NEW r \in Runs, Starts(r) PROVE ProgressInv'
  BY <1>0, <1>2, StartsIs, StartProgress
<1>3. ASSUME NEW r \in Runs, CancelRun(r) \/ cancelInFlightJob(r) PROVE ProgressInv'
  BY <1>0, <1>3, CancelProgress, SignalProgress
<1>4. ASSUME NEW r \in Runs, NEW k \in DOMAIN appr[r],
             ApproveAndResume(r, k) \/ RejectApproval(r, k)
      PROVE  ProgressInv'
  BY <1>0, <1>4, AnswerProgress
<1>5. ASSUME NEW r \in Runs, Executor(r) PROVE ProgressInv'
  BY <1>0, <1>5, ExecutorProgress
<1>6. ASSUME NEW r \in Runs, ClaimRun(r) PROVE ProgressInv'
  BY <1>0, <1>6, ClaimProgress
<1>7. ASSUME NEW r \in Runs, SettleRun(r) PROVE ProgressInv'
  BY <1>0, <1>7, SettleProgress
<1>8. ASSUME NEW r \in Runs, WriteFails(r) PROVE ProgressInv'
  BY <1>0, <1>8, WriteFailsProgress
<1>9. CASE Crash
  BY <1>0, <1>9, CrashProgress
<1> QED  BY <1>1, <1>2, <1>3, <1>4, <1>5, <1>6, <1>7, <1>8, <1>9, NextIs

-----------------------------------------------------------------------------
(* A tool call takes effect at most once. *)

-----------------------------------------------------------------------------

(* A run is on its own line; lines do not change. *)
LEMMA KinFacts ==
    ASSUME NEW r \in Runs, NEW q
    PROVE  /\ Kin(r, r) /\ (Kin(q, r) <=> Kin(r, q))
           /\ q \in Line(r) => q \in Runs /\ Kin(q, r)
           /\ (Kin(q, r)' <=> Kin(q, r)) /\ Line(r)' = Line(r)
<1>1. Line(r)' = Line(r) /\ Line(q)' = Line(q)
  BY DEF Line, Runs
<1> QED  BY <1>1, LineFacts DEF Kin

(* The other runs of its lines have ended or not begun. *)
LEMMA Alone ==
    ASSUME LoopInv, ChainInv, NEW r \in Runs, ~Ended(r), run[r].status # "none",
           NEW q \in Runs \ {r}, Kin(q, r)
    PROVE  /\ q \in Line(r) => Ended(q)
           /\ r \in Line(q) => run[q].status = "none"
           /\ ~Live(q)
<1>1. LifeOK
  BY DEF ChainInv
<1>2. /\ q \in Line(r) => Ended(q)
      /\ r \in Line(q) => run[q].status = "none"
  BY <1>1 DEF LifeOK
<1>3. ~Live(q)
  BY <1>2, ChainFacts DEF Live, Kin, Ended
<1> QED  BY <1>2, <1>3

(* A run that has not begun has dispatched nothing. *)
LEMMA NotBegun ==
    ASSUME LoopInv, ChainInv, ProgressInv, NEW q \in Runs, run[q].status = "none"
    PROVE  /\ Saved(q) = <<>> /\ Pend(Saved(q)) = {} /\ conv[q] = NoConv /\ ~Active(q)
           /\ \A b, i : ~Committed(q, b, i)
<1>1. conv[q] = NoConv /\ ~Active(q) /\ FirstOK(q) /\ ~Ended(q)
  BY DEF ChainInv, LifeOK, ProgressInv, Progress, Terminal, Ended
<1>2. ex[q].pc = "idle" /\ ~\E e \in effects : e.run = q
  BY <1>1 DEF Active, FirstOK
<1> QED  BY <1>1, <1>2, NoConvSaved DEF Committed, Ran, Dispatching

(* What is about to be dispatched belongs to an answer that was counted. *)
LEMMA BatchKnown ==
    ASSUME LoopInv, NEW r \in Runs, Active(r), ex[r].pending # {}
    PROVE  CurrentBatch(r) \in Nat /\ CurrentBatch(r) <= batches
<1>1. /\ ex[r].msgs \in Seq(Messages) /\ Upto(ex[r].msgs, batches)
      /\ Pend(ex[r].msgs) # {}
  BY Facts DEF FieldsOK, WorkOK
<1>2. PICK a \in AssistantsAt(ex[r].msgs) : Bat(ex[r].msgs) = ex[r].msgs[a]
  BY <1>1, PendingBatch
<1>3. Bat(ex[r].msgs) \in Messages
  BY <1>1, PendingBatch
<1>4. CurrentBatch(r) = Bat(ex[r].msgs).batch
  BY DEF CurrentBatch, Bat
<1> QED  BY <1>1, <1>2, <1>3, <1>4 DEF Upto, Messages

(* Without new commitments a free call stays free. *)
LEMMA StillFree ==
    ASSUME NoNew, NEW r \in Runs, NEW b, NEW i, Free(r, b, i)
    PROVE  Free(r, b, i)'
<1>1. \A q \in Runs : Kin(q, r)' => ~Committed(q, b, i)'
  BY KinFacts DEF NoNew, Free
<1> QED  BY <1>1 DEF Free

(* It holds initially. *)
LEMMA InitReplay == Init => ReplayInv
<1> SUFFICES ASSUME Init PROVE ReplayInv
  OBVIOUS
<1>1. effects = {}
  BY DEF Init
<1>2. ASSUME NEW q \in Runs PROVE Replays(q)
  <2>1. ex[q].pc = "idle" /\ conv[q] = NoConv
    BY DEF Init, Idle
  <2>2. ~Live(q) /\ Pend(Saved(q)) = {}
    BY <2>1, NoConvSaved DEF Live, Active
  <2> QED  BY <2>1, <2>2 DEF Replays, OriginOK, ClaimOK, DispatchOK, EvidenceOK
<1> QED  BY <1>1, <1>2 DEF ReplayInv, NoReplay, BatchesBound

-----------------------------------------------------------------------------
(* A step of the executor of a run that has not ended. *)

(* The runs that do not go back to it keep what they know. *)
LEMMA OthersKept ==
    ASSUME NEW r \in Runs, Moving(r), NEW q \in Runs, r \notin Line(q)
    PROVE  /\ Origin(q)' = Origin(q) /\ Saved(q)' = Saved(q) /\ ex'[q] = ex[q]
           /\ \A i : ToolAt(q, Origin(q), i) => ToolAt(q, Origin(q), i)'
<1>0. /\ LoopInv /\ ChainInv /\ LoopInv' /\ ChainInv' /\ run' = run
      /\ \A p \in Runs \ {r} : ex'[p] = ex[p] /\ conv'[p] = conv[p] /\ steps'[p] = steps[p]
  BY DEF Moving, Moves, Stays
<1>1. q # r /\ \A p \in Line(q) : p \in Runs /\ p # r
  BY LineFacts
<1>2. Origin(q)' = Origin(q)
  <2>1. \A p \in Line(q) : NewestRef(steps'[p]) = NewestRef(steps[p])
    BY <1>0, <1>1
  <2> QED  BY <1>0, <2>1, OriginKept
<1>3. Saved(q)' = Saved(q) /\ ex'[q] = ex[q] /\ steps'[q] = steps[q]
  BY <1>0, <1>1 DEF Saved
<1> QED  BY <1>2, <1>3 DEF ToolAt

(* Its own steps keep their model calls. *)
LEMMA SameKept ==
    ASSUME NEW r \in Runs, Moving(r), SameSteps(r)
    PROVE  /\ Origin(r)' = Origin(r)
           /\ \A i : ToolAt(r, Origin(r), i) => ToolAt(r, Origin(r), i)'
<1>0. /\ LoopInv /\ ChainInv /\ LoopInv' /\ ChainInv' /\ run' = run /\ Types
      /\ \A p \in Runs \ {r} : steps'[p] = steps[p]
  BY MovingFacts DEF Moving, Moves, Stays
<1>1. Line(r) \subseteq Runs
  BY LineFacts
<1>2. NewestRef(steps'[r]) = NewestRef(steps[r])
  BY <1>0, NewestKept
<1>3. \A p \in Line(r) : NewestRef(steps'[p]) = NewestRef(steps[p])
  BY <1>0, <1>1, <1>2
<1>4. Origin(r)' = Origin(r)
  BY <1>0, <1>1, <1>3, OriginKept
<1> QED  BY <1>4 DEF ToolAt, SameSteps

(* So they do when it adds one for its pending calls, or for none. *)
LEMMA AddKept ==
    ASSUME NEW r \in Runs, Moving(r), NEW s \in Steps, AddsStep(r, s),
           s.ref \in {NoRef, Origin(r)}
    PROVE  /\ Origin(r)' = Origin(r)
           /\ \A i : ToolAt(r, Origin(r), i) => ToolAt(r, Origin(r), i)'
           /\ s.kind = "tool" /\ s.ref = Origin(r) => ToolAt(r, Origin(r), s.call)'
<1>0. LoopInv /\ ChainInv /\ LoopInv' /\ ChainInv' /\ run' = run /\ Types
  BY MovingFacts DEF Moving
<1>1. Origin(r)' = Origin(r)
  BY <1>0, OriginAdd
<1>2. /\ Len(steps[r]) \in Nat /\ DOMAIN steps[r] = 1..Len(steps[r])
      /\ DOMAIN steps'[r] = 1..(Len(steps[r]) + 1)
      /\ \A n \in 1..Len(steps[r]) : steps'[r][n] = steps[r][n]
      /\ steps'[r][Len(steps[r]) + 1] = s
  BY <1>0, StepAdded
<1>3. Len(steps[r]) + 1 \in DOMAIN steps'[r] /\ \A n \in DOMAIN steps[r] : n \in DOMAIN steps'[r]
  BY <1>2
<1> QED  BY <1>1, <1>2, <1>3 DEF ToolAt

(* What an executor holds after its step is enough. *)
LEMMA HeldReplays ==
    ASSUME NEW r \in Runs, Moving(r), Replays(r), NoNew, Held(r),
           Origin(r)' = Origin(r),
           \A i : ToolAt(r, Origin(r), i) => ToolAt(r, Origin(r), i)'
    PROVE  Replays(r)'
<1>1. OriginOK(r)'
  BY DEF Held, OriginOK
<1>2. ClaimOK(r)'
  <2>1. \A i \in ex'[r].pending \ Handled(r)' : Free(r, CurrentBatch(r), i)'
    <3>1. \A q \in Runs : \A b, i : Committed(q, b, i)' => Committed(q, b, i)
      BY DEF NoNew
    <3>2. \A i \in ex'[r].pending \ Handled(r)' : Free(r, CurrentBatch(r)', i)
      BY DEF Held
    <3> QED  BY <3>1, <3>2, KinFacts DEF Free, Committed, Ran, Dispatching
  <2>2. ex'[r].pc \in Dispatches => ToolAt(r, Origin(r), Min(ex[r].pending))'
    BY DEF Held
  <2> QED  BY <2>1, <2>2 DEF ClaimOK, Held
<1>3. DispatchOK(r)'
  BY DEF DispatchOK, Held
<1>4. EvidenceOK(r)'
  <2>0. \A q \in Line(r) : q \in Runs /\ Kin(q, r)
    BY KinFacts
  <2>1. SUFFICES ASSUME NEW i \in Pend(Saved(r))', NEW q \in Line(r),
                        Committed(q, Bat(Saved(r)).batch, i)'
                 PROVE  ToolAt(r, Origin(r), i)'
    BY KinFacts DEF EvidenceOK
  <2>2. Committed(q, Bat(Saved(r))'.batch, i) /\ q \in Runs
    <3>1. \A b, j : Committed(q, b, j)' => Committed(q, b, j)
      BY <2>0 DEF NoNew
    <3> QED  BY <2>0, <2>1, <3>1 DEF Committed, Ran, Dispatching
  <2>3. CASE Saved(r)' = Saved(r)
    BY <2>1, <2>2, <2>3 DEF Replays, EvidenceOK
  <2>4. CASE \A j \in Pend(Saved(r))' :
               Free(r, Bat(Saved(r))'.batch, j) \/ ToolAt(r, Origin(r), j)
    BY <2>0, <2>1, <2>2, <2>4 DEF Free
  <2> QED  BY <2>3, <2>4 DEF Held
<1> QED  BY <1>1, <1>2, <1>3, <1>4 DEF Replays

(* The other runs. *)
LEMMA OthersReplays ==
    ASSUME NEW r \in Runs, Moving(r), ReplayInv, Commits(r), NEW q \in Runs \ {r}
    PROVE  Replays(q)'
<1>0. /\ LoopInv /\ ChainInv /\ ProgressInv /\ ~Ended(r) /\ run[r].status # "none"
      /\ \A p \in Runs \ {r} : ex'[p] = ex[p] /\ conv'[p] = conv[p]
      /\ Replays(q)
  BY MovingFacts, ChainFacts DEF Moving, Moves, Stays, ReplayInv
<1>1. Kin(q, r) => /\ ~Live(q)
                   /\ r \in Line(q) => run[q].status = "none"
  BY <1>0, Alone
<1>k. /\ \A p \in Runs : Kin(p, q)' <=> Kin(p, q)
      /\ Kin(r, q) <=> Kin(q, r)
      /\ Line(q)' = Line(q) /\ \A p \in Line(q) : p \in Runs /\ Kin(p, q)
  BY KinFacts
<1>3. \A p \in Runs \ {r} : \A b, i : Dispatching(p, b, i)' <=> Dispatching(p, b, i)
  BY <1>0 DEF Dispatching, CurrentBatch
<1>c. \A p \in Runs \ {r} : \A b, i : Committed(p, b, i)' => Committed(p, b, i)
  BY <1>3 DEF Commits, Committed
<1>4. DispatchOK(q)'
  <2> SUFFICES ASSUME ex[q].pc = "dispatch" PROVE DispatchOK(q)'
    BY <1>0 DEF DispatchOK
  <2>0. PICK b, i : b = CurrentBatch(q) /\ i = Min(ex[q].pending)
    OBVIOUS
  <2>1. b = CurrentBatch(q)' /\ i = Min(ex'[q].pending) /\ Dispatching(q, b, i)
    BY <1>0, <2>0 DEF CurrentBatch, Dispatching
  <2>2. \A p \in Runs : Kin(p, q) => ~Ran(p, b, i) /\ (p # q => ~Dispatching(p, b, i))
    BY <1>0, <2>0 DEF Replays, DispatchOK
  <2>3. ASSUME NEW p \in Runs, Kin(p, q) PROVE ~Ran(p, b, i)'
    <3>1. CASE p = r
      BY <2>2, <2>3, <3>1 DEF Commits, Committed
    <3>2. CASE p # r
      BY <2>2, <2>3, <3>2 DEF Commits
    <3> QED  BY <3>1, <3>2
  <2>4. ASSUME NEW p \in Runs \ {q}, Kin(p, q) PROVE ~Dispatching(p, b, i)'
    <3>1. CASE p = r
      BY <1>k, <2>1, <2>4, <3>1 DEF Commits, Free, Committed
    <3>2. CASE p # r
      BY <1>3, <2>2, <2>4, <3>2
    <3> QED  BY <3>1, <3>2
  <2>5. \A p \in Runs : Kin(p, q)' => /\ ~Ran(p, b, i)'
                                      /\ p # q => ~Dispatching(p, b, i)'
    BY <1>k, <2>3, <2>4
  <2> QED  BY <2>1, <2>5 DEF DispatchOK, Ran, Dispatching
<1>5. CASE r \in Line(q)
  <2>1. conv'[q] = NoConv /\ Kin(q, r) /\ ~Live(q)'
    BY <1>0, <1>1, <1>5, NotBegun DEF Kin, Live, Active
  <2>2. Pend(Saved(q))' = {}
    <3>1. Saved(q)' = <<>>
      BY <2>1 DEF Saved, completedConversationMessages, NoConv
    <3> QED  BY <3>1, EmptyPend
  <2> QED  BY <1>4, <2>1, <2>2 DEF Replays, OriginOK, ClaimOK, EvidenceOK
<1>6. CASE r \notin Line(q)
  <2>1. /\ Origin(q)' = Origin(q) /\ Saved(q)' = Saved(q)
        /\ \A i : ToolAt(q, Origin(q), i) => ToolAt(q, Origin(q), i)'
    BY <1>6, OthersKept
  <2>2. EvidenceOK(q)'
    <3> SUFFICES ASSUME NEW i \in Pend(Saved(q)), NEW p \in Line(q),
                        Committed(p, Bat(Saved(q)).batch, i)'
                 PROVE  ToolAt(q, Origin(q), i)'
      BY <1>k, <2>1 DEF EvidenceOK
    <3>3. \A b : Committed(p, b, i)' => Committed(p, b, i)
      BY <1>c, <1>k, <1>6
    <3>4. Bat(Saved(q))' = Bat(Saved(q))
      BY <2>1
    <3>5. Committed(p, Bat(Saved(q)).batch, i)
      BY <3>3, <3>4 DEF Committed, Ran, Dispatching
    <3> QED  BY <1>0, <2>1, <3>5 DEF Replays, EvidenceOK
  <2>3. CASE Kin(q, r)
    <3>1. ~Live(q)'
      BY <1>0, <1>1, <2>3 DEF Live, Active
    <3> QED  BY <1>4, <2>2, <3>1 DEF Replays, OriginOK, ClaimOK
  <2>4. CASE ~Kin(q, r)
    <3>0. /\ ex'[q] = ex[q] /\ CurrentBatch(q)' = CurrentBatch(q)
          /\ Handled(q)' = Handled(q) /\ (Live(q)' <=> Live(q))
      BY <1>0 DEF CurrentBatch, Handled, Live, Active
    <3>1. OriginOK(q)'
      BY <1>0, <2>1, <3>0 DEF Replays, OriginOK
    <3>2. \A b, i : Free(q, b, i) => \A p \in Runs : Kin(p, q)' => ~Committed(p, b, i)'
      BY <1>c, <1>k, <2>4 DEF Free
    <3>3. \A i : Free(q, CurrentBatch(q), i) => Free(q, CurrentBatch(q), i)'
      BY <3>0, <3>2 DEF Free, Committed, Ran, Dispatching
    <3>5. NewBatch(q, ex[q].out.batch) => NewBatch(q, ex[q].out.batch)'
      BY <3>0, <3>2 DEF NewBatch, Free, Committed, Ran, Dispatching
    <3>6. ClaimOK(q)'
      BY <1>0, <2>1, <3>0, <3>3, <3>5 DEF Replays, ClaimOK
    <3> QED  BY <1>4, <2>2, <3>1, <3>6 DEF Replays
  <2> QED  BY <2>3, <2>4
<1> QED  BY <1>5, <1>6

(* A step without an effect that does not go on to a dispatch. *)
LEMMA NoCommit ==
    ASSUME NEW r \in Runs, Moving(r), effects' = effects, ex'[r].pc # "dispatch"
    PROVE  NoNew /\ Commits(r)
<1>0. \A p \in Runs \ {r} : ex'[p] = ex[p]
  BY DEF Moving, Moves, Stays
<1>1. \A p : \A b, i : Ran(p, b, i)' <=> Ran(p, b, i)
  BY DEF Ran
<1>2. \A p \in Runs \ {r} : \A b, i : Dispatching(p, b, i)' <=> Dispatching(p, b, i)
  BY <1>0 DEF Dispatching, CurrentBatch
<1>3. \A b, i : ~Dispatching(r, b, i)'
  BY DEF Dispatching
<1> QED  BY <1>1, <1>2, <1>3 DEF NoNew, Commits, Committed

(* Both, for a step that only leaves something in hand. *)
LEMMA StepReplay ==
    ASSUME NEW r \in Runs, Moving(r), ReplayInv, effects' = effects, Held(r),
           Origin(r)' = Origin(r),
           \A i : ToolAt(r, Origin(r), i) => ToolAt(r, Origin(r), i)'
    PROVE  ReplayInv'
<1>1. ex'[r].pc # "dispatch"
  BY DEF Held
<1>2. NoNew /\ Commits(r)
  BY <1>1, NoCommit
<1>3. Replays(r)
  BY DEF ReplayInv
<1>4. Replays(r)'
  BY <1>2, <1>3, HeldReplays
<1>5. \A q \in Runs \ {r} : Replays(q)'
  BY <1>2, OthersReplays
<1>6. BatchesBound'
  <2>1. batches \in Nat /\ batches' \in Nat /\ batches <= batches'
    BY MovingFacts DEF Moving, Moves, Stays, Types
  <2>2. BatchesBound
    BY DEF ReplayInv
  <2> QED  BY <2>1, <2>2 DEF BatchesBound
<1>7. NoReplay'
  BY DEF ReplayInv, NoReplay
<1> QED  BY <1>4, <1>5, <1>6, <1>7 DEF ReplayInv

(* What the invariant says of the run that moves. *)
LEMMA ReplayFacts ==
    ASSUME NEW r \in Runs, Moving(r), ReplayInv
    PROVE  /\ ex[r].pending # {} => ex[r].ref = Origin(r)
           /\ ex[r].pc = "save" => Origin(r) = <<r, ex[r].count>>
           /\ \A i \in ex[r].pending \ Handled(r) : Free(r, CurrentBatch(r), i)
           /\ ex[r].pc = "settle" => \A i \in ex[r].matches : ToolAt(r, Origin(r), i)
           /\ ex[r].pc = "inherit" =>
                \A i \in ex[r].matches \ ex[r].left : ToolAt(r, Origin(r), i)
           /\ ex[r].pc \in Dispatches => ToolAt(r, Origin(r), Min(ex[r].pending))
           /\ ex[r].pc \in {"think", "save"} => NewBatch(r, ex[r].out.batch)
           /\ ex[r].pc = "dispatch" => \A q \in Runs : Kin(q, r) =>
                /\ ~Ran(q, CurrentBatch(r), Min(ex[r].pending))
                /\ q # r => ~Dispatching(q, CurrentBatch(r), Min(ex[r].pending))
BY DEF Moving, ReplayInv, Replays, OriginOK, ClaimOK, DispatchOK

(* A quiet step keeps the evidence. *)
LEMMA QuietReplay ==
    ASSUME NEW r \in Runs, Moving(r), ReplayInv, Quiet(r),
           ex'[r].pending # {} => ex'[r].ref = Origin(r),
           ex'[r].pc # "save",
           \A i \in ex'[r].pending :
             \/ ex'[r].pc \in {"fail", "return"} /\ conv' = conv
             \/ Free(r, CurrentBatch(r)', i)
             \/ ex'[r].pc = "settle" /\ i \in ex'[r].matches,
           ex'[r].pc = "settle" => \A i \in ex'[r].matches : ToolAt(r, Origin(r), i),
           ex'[r].pc = "think" => NewBatch(r, ex[r].out.batch)'
    PROVE  ReplayInv'
<1>0. /\ SameSteps(r) /\ effects' = effects /\ ex'[r].pc \notin Dispatches
      /\ ex'[r].pc # "inherit" /\ ex'[r].pc # "dispatch"
      /\ conv'[r] = conv[r] \/ conv'[r] # NoConv
  BY DEF Quiet, Dispatches
<1>1. /\ Origin(r)' = Origin(r)
      /\ \A i : ToolAt(r, Origin(r), i) => ToolAt(r, Origin(r), i)'
  BY <1>0, SameKept
<1>2. \A i \in ex'[r].pending \ Handled(r)' : Free(r, CurrentBatch(r)', i)
  <2>1. ex'[r].pc \in {"fail", "return"} => Handled(r)' = ex'[r].pending
    BY DEF Handled, Dispatches
  <2>2. ex'[r].pc = "settle" => Handled(r)' = ex'[r].matches
    BY DEF Handled
  <2> QED  BY <2>1, <2>2
<1>3. \/ Saved(r)' = Saved(r)
      \/ \A i \in Pend(Saved(r))' :
           Free(r, Bat(Saved(r))'.batch, i) \/ ToolAt(r, Origin(r), i)
  <2>1. CASE conv'[r] = conv[r]
    BY <2>1 DEF Saved
  <2>2. CASE conv'[r] # NoConv /\ conv'[r] # conv[r]
    <3>1. Saved(r)' = ex'[r].msgs /\ Pend(ex[r].msgs)' = ex'[r].pending
      BY <2>2, MovingFacts DEF WorkOK
    <3>2. Bat(Saved(r))'.batch = CurrentBatch(r)'
      BY <3>1 DEF CurrentBatch, Bat
    <3>3. Pend(Saved(r))' = ex'[r].pending
      BY <3>1
    <3> QED  BY <2>2, <3>2, <3>3
  <2> QED  BY <1>0, <2>1, <2>2
<1>4. Held(r)
  BY <1>0, <1>1, <1>2, <1>3 DEF Held
<1> QED  BY <1>0, <1>1, <1>4, StepReplay

(* Results of calls that were recovered or superseded. *)
LEMMA RecoverReplay ==
    ASSUME NEW r \in Runs, Moving(r), ReplayInv,
           settleAmbiguousToolDispatch(r) \/ RecoverToolResult(r) \/ CloseSuperseded(r)
           \/ AppendDeferredContinuation(r)
    PROVE  ReplayInv'
<1>0. Types /\ Active(r) /\ LoopInv /\ PhaseOK(r) /\ ~ex[r].cancelled
  BY MovingFacts DEF Moving, Live
<1>q. Quiet(r)
  BY QuietSteps
<1>1. CASE settleAmbiguousToolDispatch(r)
  <2>1. settleAmbiguousToolDispatchDoes(r)
    BY <1>0, <1>1, settleAmbiguousToolDispatchEffect
  <2>2. ex' = ex /\ ex[r].pc = "settle" /\ CurrentBatch(r)' = CurrentBatch(r)
    BY <2>1 DEF settleAmbiguousToolDispatchDoes, CurrentBatch
  <2>3. Handled(r) = ex[r].matches
    BY <2>2 DEF Handled
  <2> QED  BY <1>q, <2>2, <2>3, ReplayFacts, QuietReplay
<1>2. CASE RecoverToolResult(r)
  <2>1. RecoverToolResultDoes(r)
    BY <1>0, <1>2, RecoverToolResultEffect
  <2>2. ex[r].matches # {} /\ ex[r].matches \subseteq ex[r].pending /\ ex[r].pc = "settle"
    BY <1>0, <2>1 DEF RecoverToolResultDoes, PhaseOK
  <2>3. PICK u, i : /\ i = Min(ex[r].matches)
                    /\ u = Append(ex[r].msgs, ToolResult(CurrentBatch(r), i, "unknown"))
    OBVIOUS
  <2>4. i \in ex[r].matches /\ Bat(u) = Bat(ex[r].msgs) /\ Pend(u) = ex[r].pending \ {i}
    BY <1>0, <2>2, <2>3, FirstClosed DEF Sayings
  <2>5. /\ ex'[r].msgs = u /\ ex'[r].pending = ex[r].pending \ {i}
        /\ ex'[r].matches = ex[r].matches \ {i} /\ ex'[r].ref = ex[r].ref
        /\ ex'[r].pc = IF ex[r].matches = {i} THEN "normalize" ELSE "settle"
    BY <2>1, <2>3, <2>4 DEF RecoverToolResultDoes
  <2>6. CurrentBatch(r)' = CurrentBatch(r) /\ Handled(r) = ex[r].matches
    BY <2>2, <2>4, <2>5 DEF CurrentBatch, Bat, Handled
  <2>7. \A j \in ex'[r].pending : Free(r, CurrentBatch(r)', j) \/ j \in ex'[r].matches
    BY <2>5, <2>6, ReplayFacts
  <2>8. ex'[r].pc # "settle" => ex'[r].matches = {}
    BY <2>4, <2>5
  <2> QED  BY <1>q, <2>2, <2>5, <2>7, <2>8, ReplayFacts, QuietReplay
<1>3. CASE CloseSuperseded(r)
  <2>1. CloseSupersededDoes(r)
    BY <1>0, <1>3, CloseSupersededEffect
  <2>3. PICK u, i : /\ i = Min(ex[r].pending)
                    /\ u = Append(ex[r].msgs, ToolResult(CurrentBatch(r), i, "superseded"))
    OBVIOUS
  <2>4. Bat(u) = Bat(ex[r].msgs) /\ ex[r].pc = "normalize"
    BY <1>0, <2>1, <2>3, FirstClosed DEF Sayings, CloseSupersededDoes
  <2>5. /\ ex'[r].msgs = u /\ ex'[r].pending \subseteq ex[r].pending
        /\ ex'[r].ref = ex[r].ref /\ ex'[r].pc = "normalize"
    BY <2>1, <2>3 DEF CloseSupersededDoes
  <2>6. CurrentBatch(r)' = CurrentBatch(r) /\ Handled(r) = {}
    BY <2>4, <2>5 DEF CurrentBatch, Bat, Handled, Dispatches
  <2> QED  BY <1>q, <2>5, <2>6, ReplayFacts, QuietReplay
<1>4. CASE AppendDeferredContinuation(r)
  <2>1. AppendDeferredContinuationDoes(r)
    BY <1>0, <1>4, AppendDeferredContinuationEffect
  <2>2. ex'[r].pending = {} /\ ex'[r].pc = "normalize"
    BY <2>1 DEF AppendDeferredContinuationDoes
  <2> QED  BY <1>q, <2>2, QuietReplay
<1> QED  BY <1>1, <1>2, <1>3, <1>4

(* Steps that keep what is in hand. *)
LEMMA KeepReplay ==
    ASSUME NEW r \in Runs, Moving(r), ReplayInv,
           \/ CeilingReached(r) \/ RecoverAnswer(r) \/ EnterLoop(r) \/ GatePending(r)
           \/ StopCancelled(r) \/ ModelCallLimit(r) \/ CallModel(r) \/ StreamPartial(r)
           \/ ModelCallFails(r) \/ CreateApproval(r)
    PROVE  ReplayInv'
<1>0. Types /\ Active(r) /\ LoopInv /\ PhaseOK(r) /\ ~ex[r].cancelled
  BY MovingFacts DEF Moving, Live
<1>q. Quiet(r)
  BY QuietSteps
<1>1. /\ ex'[r].msgs = ex[r].msgs /\ ex'[r].pending = ex[r].pending /\ ex'[r].ref = ex[r].ref
      /\ ex'[r].pc \in {"return", "fail", "loop", "pause", "model"}
      /\ \/ ex[r].pc \in {"normalize", "loop"}
         \/ ex[r].pending = {}
         \/ ex'[r].pc = "return" /\ conv' = conv
  <2>1. CASE CeilingReached(r)
    BY <1>0, <2>1, CeilingReachedEffect DEF CeilingReachedDoes, WorkKept
  <2>2. CASE RecoverAnswer(r)
    BY <1>0, <2>2, RecoverAnswerEffect DEF RecoverAnswerDoes, WorkKept
  <2>3. CASE EnterLoop(r)
    BY <1>0, <2>3, EnterLoopEffect DEF EnterLoopDoes, WorkKept
  <2>4. CASE GatePending(r)
    BY <1>0, <2>4, GatePendingEffect DEF GatePendingDoes, WorkKept
  <2>5. CASE StopCancelled(r)
    BY <1>0, <2>5 DEF StopCancelled
  <2>6. CASE ModelCallLimit(r)
    BY <1>0, <2>6, ModelCallLimitEffect DEF ModelCallLimitDoes, WorkKept
  <2>7. CASE CallModel(r)
    BY <1>0, <2>7, CallModelEffect DEF CallModelDoes, WorkKept
  <2>8. CASE StreamPartial(r)
    BY <1>0, <2>8, StreamPartialEffect DEF StreamPartialDoes, PhaseOK
  <2>9. CASE ModelCallFails(r)
    BY <1>0, <2>9, ModelCallFailsEffect DEF ModelCallFailsDoes, WorkKept, PhaseOK
  <2>10. CASE CreateApproval(r)
    BY <1>0, <2>10, CreateApprovalEffect DEF CreateApprovalDoes
  <2> QED  BY <2>1, <2>2, <2>3, <2>4, <2>5, <2>6, <2>7, <2>8, <2>9, <2>10
<1>2. CurrentBatch(r)' = CurrentBatch(r)
  BY <1>1 DEF CurrentBatch
<1>3. ex[r].pc \in {"normalize", "loop"} => Handled(r) = {}
  BY DEF Handled, Dispatches
<1> QED  BY <1>q, <1>1, <1>2, <1>3, ReplayFacts, QuietReplay

(* An answer is new. *)
LEMMA AnswersReplay ==
    ASSUME NEW r \in Runs, Moving(r), ReplayInv, ModelAnswers(r)
    PROVE  ReplayInv'
<1>0. Types /\ Active(r) /\ LoopInv /\ LoopInv' /\ PhaseOK(r) /\ batches \in Nat
  BY MovingFacts DEF Moving, Types
<1>q. Quiet(r)
  BY QuietSteps
<1>1. ModelAnswersDoes(r)
  BY <1>0, ModelAnswersEffect
<1>2. /\ ex'[r].pending = {} /\ ex'[r].pc = "think" /\ effects' = effects
      /\ \A q \in Runs \ {r} : ex'[q] = ex[q]
      /\ ex'[r].out.batch = batches + 1
  BY <1>0, <1>1 DEF ModelAnswersDoes, WorkKept, PhaseOK, Frame, Assistant
<1>3. NewBatch(r, ex[r].out.batch)'
  <2>1. \A e \in effects' : e.batch # batches + 1
    BY <1>0, <1>2 DEF ReplayInv, BatchesBound
  <2>2. ASSUME NEW q \in Runs, ex'[q].pc = "dispatch" PROVE CurrentBatch(q)' # batches + 1
    <3>1. q # r /\ ex'[q] = ex[q]
      BY <1>2, <2>2
    <3>2. CurrentBatch(q)' = CurrentBatch(q)
      BY <3>1 DEF CurrentBatch
    <3>3. Active(q) /\ ex[q].pending # {}
      BY <1>0, <2>2, <3>1, FirstIs DEF Active
    <3>4. CurrentBatch(q) \in Nat /\ CurrentBatch(q) <= batches
      BY <1>0, <3>3, BatchKnown
    <3> QED  BY <1>0, <3>2, <3>4
  <2>0. PICK b : b = batches + 1
    OBVIOUS
  <2>3. \A q \in Runs : \A i : ~Committed(q, b, i)'
    BY <2>0, <2>1, <2>2 DEF Committed, Ran, Dispatching
  <2>4. \A i : Free(r, ex[r].out.batch, i)'
    BY <1>2, <2>0, <2>3 DEF Free, Committed, Ran, Dispatching
  <2> QED  BY <2>4 DEF NewBatch
<1> QED  BY <1>q, <1>2, <1>3, QuietReplay

(* Its calls are free. *)
LEMMA AssistantReplay ==
    ASSUME NEW r \in Runs, Moving(r), ReplayInv, SaveAssistant(r)
    PROVE  ReplayInv'
<1>0. Types /\ Active(r) /\ LoopInv /\ PhaseOK(r) /\ FieldsOK(r)
  BY MovingFacts DEF Moving
<1>q. Quiet(r)
  BY QuietSteps
<1>1. SaveAssistantDoes(r)
  BY <1>0, SaveAssistantEffect
<1>2. /\ ex[r].pc = "save" /\ ex[r].out \in Messages /\ ex[r].out.role = "assistant"
      /\ ex[r].msgs \in Seq(Messages)
  BY <1>0, <1>1 DEF SaveAssistantDoes, PhaseOK, FieldsOK
<1>3. /\ ex'[r].msgs = Append(ex[r].msgs, ex[r].out) /\ ex'[r].ref = <<r, ex[r].count>>
      /\ ex'[r].pc \in {"fail", "return", "pause", "intent"}
  BY <1>1 DEF SaveAssistantDoes, AfterModelCall
<1>4. Bat(Append(ex[r].msgs, ex[r].out)) = ex[r].out
  BY <1>2, AppendAnswer
<1>5. CurrentBatch(r)' = ex[r].out.batch
  BY <1>3, <1>4 DEF CurrentBatch, Bat
<1>6. \A i : Free(r, ex[r].out.batch, i)
  BY <1>2, ReplayFacts DEF NewBatch
<1> QED  BY <1>q, <1>2, <1>3, <1>5, <1>6, ReplayFacts, QuietReplay

(* A result closes the call that was dispatched. *)
LEMMA ResultReplay ==
    ASSUME NEW r \in Runs, Moving(r), ReplayInv, SaveToolResult(r)
    PROVE  ReplayInv'
<1>0. Types /\ Active(r) /\ LoopInv /\ PhaseOK(r)
  BY MovingFacts DEF Moving
<1>q. Quiet(r)
  BY QuietSteps
<1>1. SaveToolResultDoes(r)
  BY <1>0, SaveToolResultEffect
<1>2. PICK u, i : /\ i = Min(ex[r].pending)
                  /\ u = Append(ex[r].msgs, ToolResult(CurrentBatch(r), i, "result"))
  OBVIOUS
<1>3. ex[r].pc = "result" /\ ex[r].pending # {}
  BY <1>0, <1>1 DEF SaveToolResultDoes, PhaseOK
<1>4. Bat(u) = Bat(ex[r].msgs)
  BY <1>0, <1>2, <1>3, FirstClosed DEF Sayings
<1>5. /\ ex'[r].msgs = u /\ ex'[r].pending = ex[r].pending \ {i}
      /\ ex'[r].ref = ex[r].ref /\ ex'[r].pc \in {"loop", "intent"}
  BY <1>1, <1>2 DEF SaveToolResultDoes
<1>6. CurrentBatch(r)' = CurrentBatch(r) /\ Handled(r) = {i}
  BY <1>2, <1>3, <1>4, <1>5 DEF CurrentBatch, Bat, Handled, Dispatches
<1> QED  BY <1>q, <1>5, <1>6, ReplayFacts, QuietReplay

(* Evidence that was taken over is recorded. *)
LEMMA InheritReplay ==
    ASSUME NEW r \in Runs, Moving(r), ReplayInv, InheritDispatch(r)
    PROVE  ReplayInv'
<1>0. Types /\ Active(r) /\ LoopInv /\ PhaseOK(r)
  BY MovingFacts DEF Moving
<1>1. InheritDispatchDoes(r)
  BY <1>0, InheritDispatchEffect
<1>2. /\ ex[r].pc = "inherit" /\ ex[r].left # {} /\ ex[r].left \subseteq ex[r].matches
      /\ ex[r].matches # {} /\ ex[r].matches \subseteq ex[r].pending
      /\ ex[r].next \in Nat /\ ex[r].ref \in Refs /\ Min(ex[r].left) \in Nat
      /\ Min(ex[r].left) \in ex[r].left
  BY <1>0, <1>1, FirstIs DEF InheritDispatchDoes, PhaseOK
<1>3. ex[r].ref = Origin(r)
  BY <1>2, ReplayFacts
<1>i. PICK i, s : /\ i = Min(ex[r].left)
                  /\ s = Step("tool", ex[r].next, ex[r].ref, i, "failed", {}, 0)
  OBVIOUS
<1>4. s \in Steps /\ s.ref = ex[r].ref /\ s.call = i /\ s.kind = "tool"
  BY <1>2, <1>i, StepIs
<1>5. AddsStep(r, s)
  BY <1>1, <1>i DEF InheritDispatchDoes
<1>6. /\ Origin(r)' = Origin(r)
      /\ \A j : ToolAt(r, Origin(r), j) => ToolAt(r, Origin(r), j)'
      /\ ToolAt(r, Origin(r), s.call)'
  BY <1>3, <1>4, <1>5, AddKept
<1>7. /\ ex'[r].msgs = ex[r].msgs /\ ex'[r].pending = ex[r].pending
      /\ ex'[r].matches = ex[r].matches /\ ex'[r].left = ex[r].left \ {i}
      /\ ex'[r].ref = ex[r].ref /\ conv' = conv /\ effects' = effects
      /\ ex'[r].pc = IF ex[r].left = {i} THEN "settle" ELSE "inherit"
  BY <1>1, <1>i DEF InheritDispatchDoes
<1>8. \A j \in ex[r].matches \ (ex[r].left \ {i}) : ToolAt(r, Origin(r), j)'
  BY <1>2, <1>4, <1>6, ReplayFacts
<1>9. /\ CurrentBatch(r)' = CurrentBatch(r) /\ Handled(r) = ex[r].matches
      /\ Handled(r)' = ex[r].matches /\ Saved(r)' = Saved(r)
  BY <1>2, <1>7 DEF CurrentBatch, Handled, Saved
<1>10. Held(r)
  BY <1>3, <1>7, <1>8, <1>9, ReplayFacts DEF Held, Dispatches
<1> QED  BY <1>6, <1>7, <1>10, StepReplay

(* The steps that go with the pending calls, and the failure of the run. *)
LEMMA AddReplay ==
    ASSUME NEW r \in Runs, Moving(r), ReplayInv,
           ResumePending(r) \/ AwaitApproval(r) \/ failedFromError(r)
    PROVE  ReplayInv'
<1>0. Types /\ Active(r) /\ LoopInv /\ 0 \in Nat /\ {} \subseteq Nat /\ NoRef \in Refs
  BY MovingFacts DEF Moving, Refs, NoRef
<1>f. /\ ex[r].next \in Nat /\ ex[r].ref \in Refs /\ ex[r].pending \subseteq Nat
      /\ ex[r].pending # {} => ex[r].ref = Origin(r)
      /\ ex[r].pc = "pause" => ex[r].pending # {}
  BY <1>0, FirstIs, ReplayFacts
<1>1. /\ \E s \in Steps : s.ref \in {NoRef, Origin(r)} /\ AddsStep(r, s)
      /\ WorkKept(r) /\ conv' = conv /\ effects' = effects
      /\ \/ ex[r].pc = "loop" /\ ex'[r].pc = "intent"
         \/ ex'[r].pc = "return"
  <2>1. CASE ResumePending(r)
    <3>1. ResumePendingDoes(r)
      BY <1>0, <2>1, ResumePendingEffect
    <3>2. PICK s : s = Step("control", ex[r].next, ex[r].ref, 0, "completed", {}, 0)
      OBVIOUS
    <3>3. s \in Steps /\ s.ref = ex[r].ref
      BY <1>0, <1>f, <3>2, StepIs
    <3> QED  BY <1>f, <3>1, <3>2, <3>3 DEF ResumePendingDoes
  <2>2. CASE AwaitApproval(r)
    <3>1. AwaitApprovalDoes(r)
      BY <1>0, <2>2, AwaitApprovalEffect
    <3>2. PICK s : s = Step("approval", ex[r].next, ex[r].ref, 0, "awaiting_approval",
                            ex[r].pending, 0)
      OBVIOUS
    <3>3. s \in Steps /\ s.ref = ex[r].ref
      BY <1>0, <1>f, <3>2, StepIs
    <3> QED  BY <1>f, <3>1, <3>2, <3>3 DEF AwaitApprovalDoes
  <2>3. CASE failedFromError(r)
    <3>1. failedFromErrorDoes(r)
      BY <1>0, <2>3, failedFromErrorEffect
    <3>2. PICK s : s = Step("failure", ex[r].next, NoRef, 0, "failed", {}, 0)
      OBVIOUS
    <3>3. s \in Steps /\ s.ref = NoRef
      BY <1>0, <1>f, <3>2, StepIs
    <3> QED  BY <3>1, <3>2, <3>3 DEF failedFromErrorDoes
  <2> QED  BY <2>1, <2>2, <2>3
<1>2. /\ Origin(r)' = Origin(r)
      /\ \A j : ToolAt(r, Origin(r), j) => ToolAt(r, Origin(r), j)'
  BY <1>1, AddKept
<1>3. /\ CurrentBatch(r)' = CurrentBatch(r) /\ Saved(r)' = Saved(r)
      /\ ex[r].pc = "loop" => Handled(r) = {}
      /\ ex'[r].pc = "return" => Handled(r)' = ex'[r].pending
  BY <1>1 DEF CurrentBatch, Handled, Saved, Dispatches, WorkKept
<1>4. Held(r)
  BY <1>f, <1>1, <1>3, ReplayFacts DEF Held, Dispatches, WorkKept
<1> QED  BY <1>1, <1>2, <1>4, StepReplay

(* The model step of an answer is the newest. *)
LEMMA ModelStepReplay ==
    ASSUME NEW r \in Runs, Moving(r), ReplayInv, SaveModelStep(r)
    PROVE  ReplayInv'
<1>0. /\ Types /\ Active(r) /\ LoopInv /\ LoopInv' /\ ChainInv' /\ IndexOK(r) /\ PhaseOK(r)
      /\ WorkOK(r) /\ Live(r) /\ steps[r] \in Seq(Steps) /\ 0 \in Nat /\ {} \subseteq Nat
      /\ batches \in Nat
  BY MovingFacts DEF Moving, Types
<1>1. SaveModelStepDoes(r)
  BY <1>0, SaveModelStepEffect
<1>2. /\ ex[r].next \in Nat /\ ex[r].count + 1 \in Nat /\ ex[r].spent + 1 \in Nat
      /\ r \in Nat /\ r # 0
  <2>1. ex[r].next \in Nat /\ ex[r].count \in Nat /\ ex[r].spent \in Nat
    BY <1>0, FirstIs
  <2>2. r \in Nat /\ r # 0
    BY RunsNat DEF Runs
  <2> QED  BY <2>1, <2>2
<1>3. PICK ref, s : /\ ref = <<r, ex[r].count + 1>>
                    /\ s = Step("model", ex[r].next, ref, 0, "completed", {}, ex[r].spent + 1)
  OBVIOUS
<1>4. ref \in Refs /\ ref # NoRef
  BY <1>2, <1>3 DEF Refs, NoRef
<1>5. s \in Steps /\ s.ref = ref /\ s.idx = ex[r].next
  BY <1>0, <1>2, <1>3, <1>4, StepIs
<1>6. AddsStep(r, s)
  BY <1>1, <1>3 DEF SaveModelStepDoes
<1>7. Origin(r)' = ref
  <2>1. steps'[r] = Append(steps[r], s)
    BY <1>0, <1>6 DEF AddsStep, Types
  <2>2. \A n \in WithRef(steps[r]) : steps[r][n].idx <= s.idx
    BY <1>0, <1>1, <1>5 DEF IndexOK, RefsBelow, SaveModelStepDoes
  <2>3. NewestRef(steps'[r]) = ref
    BY <1>0, <1>4, <1>5, <2>1, <2>2, AppendNewest
  <2> QED  BY <1>0, <1>4, <2>3, OriginIsNext
<1>8. /\ ex[r].pc = "think" /\ ex'[r].pc = "save" /\ ex'[r].pending = {} /\ ex[r].pending = {}
      /\ ex'[r].count = ex[r].count + 1 /\ ex'[r].out = ex[r].out
      /\ conv' = conv /\ effects' = effects /\ batches' = batches
      /\ \A q \in Runs \ {r} : ex'[q] = ex[q]
  BY <1>0, <1>1 DEF SaveModelStepDoes, WorkKept, PhaseOK, Frame
<1>9. NoNew /\ Commits(r)
  BY <1>8, NoCommit
<1>10. NewBatch(r, ex[r].out.batch)'
  <2>0. PICK b : b = ex[r].out.batch
    OBVIOUS
  <2>1. \A i : Free(r, b, i)
    BY <1>8, <2>0, ReplayFacts DEF NewBatch
  <2>2. \A i : Free(r, b, i)'
    BY <1>9, <2>1, StillFree
  <2> QED  BY <1>8, <2>0, <2>2 DEF NewBatch, Free, Committed, Ran, Dispatching
<1>11. Replays(r)'
  <2>1. OriginOK(r)'
    BY <1>3, <1>7, <1>8 DEF OriginOK
  <2>2. ClaimOK(r)'
    BY <1>8, <1>10 DEF ClaimOK, Dispatches
  <2>3. DispatchOK(r)'
    BY <1>8 DEF DispatchOK
  <2>4. EvidenceOK(r)'
    <3>1. Pend(Saved(r)) = {}
      BY <1>0, <1>8, NoConvSaved DEF WorkOK
    <3>2. Saved(r)' = Saved(r)
      BY <1>8 DEF Saved
    <3> QED  BY <3>1, <3>2 DEF EvidenceOK
  <2> QED  BY <2>1, <2>2, <2>3, <2>4 DEF Replays
<1>12. \A q \in Runs \ {r} : Replays(q)'
  BY <1>9, OthersReplays
<1>13. NoReplay' /\ BatchesBound'
  BY <1>8 DEF ReplayInv, NoReplay, BatchesBound
<1> QED  BY <1>11, <1>12, <1>13 DEF ReplayInv

(* The intent of a call is stored before the run commits to it. *)
LEMMA IntentReplay ==
    ASSUME NEW r \in Runs, Moving(r), ReplayInv, SaveIntent(r)
    PROVE  ReplayInv'
<1>0. Types /\ Active(r) /\ LoopInv /\ PhaseOK(r) /\ 0 \in Nat /\ {} \subseteq Nat
      /\ Replays(r)
  BY MovingFacts DEF Moving, ReplayInv
<1>1. SaveIntentDoes(r)
  BY <1>0, SaveIntentEffect
<1>2. PICK b, i, s : /\ b = CurrentBatch(r) /\ i = Min(ex[r].pending)
                     /\ s = Step("tool", ex[r].next, ex[r].ref, i, "running", {}, 0)
  OBVIOUS
<1>3. /\ ex[r].pc = "intent" /\ ex'[r].pc = "dispatch" /\ ex'[r].ref = ex[r].ref
      /\ ex'[r].msgs = ex[r].msgs /\ ex'[r].pending = ex[r].pending
      /\ conv' = conv /\ effects' = effects /\ batches' = batches
      /\ \A q \in Runs \ {r} : ex'[q] = ex[q]
      /\ AddsStep(r, s)
  BY <1>1, <1>2 DEF SaveIntentDoes, WorkKept, Frame
<1>4. /\ ex[r].pending # {} /\ i \in ex[r].pending /\ i \in Nat /\ ex[r].next \in Nat
      /\ ex[r].ref \in Refs /\ ex[r].ref = Origin(r)
  BY <1>0, <1>2, <1>3, FirstIs, ReplayFacts
<1>5. s \in Steps /\ s.ref = ex[r].ref /\ s.call = i /\ s.kind = "tool"
  BY <1>0, <1>2, <1>4, StepIs
<1>6. /\ Origin(r)' = Origin(r)
      /\ \A j : ToolAt(r, Origin(r), j) => ToolAt(r, Origin(r), j)'
      /\ ToolAt(r, Origin(r), s.call)'
  BY <1>3, <1>4, <1>5, AddKept
<1>7. ToolAt(r, Origin(r), i)'
  BY <1>5, <1>6 DEF ToolAt
<1>8. \A j \in ex[r].pending : Free(r, b, j)
  <2>1. Handled(r) = {}
    BY <1>3 DEF Handled, Dispatches
  <2> QED  BY <1>2, <2>1, ReplayFacts
<1>9. CurrentBatch(r)' = b /\ Min(ex[r].pending)' = i /\ Handled(r)' = {i}
  BY <1>2, <1>3 DEF CurrentBatch, Handled, Dispatches
<1>10. /\ \A q : \A c, j : Ran(q, c, j)' <=> Ran(q, c, j)
       /\ \A q \in Runs \ {r} : \A c, j : Dispatching(q, c, j)' <=> Dispatching(q, c, j)
       /\ \A c, j : Dispatching(r, c, j)' <=> c = b /\ j = i
  BY <1>3, <1>9 DEF Ran, Dispatching, CurrentBatch
<1>11. Commits(r)
  BY <1>4, <1>8, <1>10 DEF Commits, Committed
<1>12. \A q \in Runs : \A c, j : Committed(q, c, j)' => Committed(q, c, j) \/ (c = b /\ j = i)
  BY <1>10 DEF Committed
<1>13. OriginOK(r)'
  BY <1>3, <1>4, <1>6 DEF OriginOK
<1>14. ClaimOK(r)'
  <2>1. \A j \in ex'[r].pending \ Handled(r)' : Free(r, CurrentBatch(r), j)'
    <3> SUFFICES ASSUME NEW j \in ex[r].pending, j # i PROVE Free(r, CurrentBatch(r), j)'
      BY <1>3, <1>9
    <3>1. \A q \in Runs : Kin(q, r)' => ~Committed(q, b, j)'
      BY <1>8, <1>12, KinFacts DEF Free
    <3>2. Free(r, b, j)'
      BY <3>1 DEF Free
    <3> QED  BY <1>9, <3>2 DEF Free, Committed, Ran, Dispatching
  <2>2. ToolAt(r, Origin(r), Min(ex[r].pending))'
    BY <1>7, <1>9 DEF ToolAt
  <2> QED  BY <1>3, <2>1, <2>2 DEF ClaimOK
<1>15. DispatchOK(r)'
  <2>1. Free(r, b, i)
    BY <1>4, <1>8
  <2>2. \A q \in Runs : Kin(q, r)' => /\ ~Ran(q, b, i)'
                                      /\ q # r => ~Dispatching(q, b, i)'
    BY <1>10, <2>1, KinFacts DEF Free, Committed
  <2> QED  BY <1>9, <2>2 DEF DispatchOK, Ran, Dispatching
<1>16. EvidenceOK(r)'
  <2>0. Saved(r)' = Saved(r) /\ Line(r)' = Line(r) /\ \A q \in Line(r) : q \in Runs
    BY <1>3, KinFacts DEF Saved
  <2> SUFFICES ASSUME NEW k \in Pend(Saved(r)), NEW q \in Line(r),
                      Committed(q, Bat(Saved(r)).batch, k)'
               PROVE  ToolAt(r, Origin(r), k)'
    BY <2>0 DEF EvidenceOK
  <2>1. PICK c : c = Bat(Saved(r)).batch /\ c = Bat(Saved(r))'.batch
    BY <2>0
  <2>2. Committed(q, c, k)'
    BY <2>1 DEF Committed, Ran, Dispatching
  <2>3. CASE k = i
    BY <1>7, <2>3
  <2>4. CASE k # i
    BY <1>0, <1>6, <1>12, <2>0, <2>1, <2>2, <2>4 DEF Replays, EvidenceOK
  <2> QED  BY <2>3, <2>4
<1>17. Replays(r)'
  BY <1>13, <1>14, <1>15, <1>16 DEF Replays
<1>18. \A q \in Runs \ {r} : Replays(q)'
  BY <1>11, OthersReplays
<1>19. NoReplay' /\ BatchesBound'
  BY <1>3 DEF ReplayInv, NoReplay, BatchesBound
<1> QED  BY <1>17, <1>18, <1>19 DEF ReplayInv

(* What an effect adds was committed to by its run alone. *)
LEMMA DispatchRan ==
    ASSUME LoopInv, ReplayInv, NEW r \in Runs, Dispatch(r)
    PROVE  /\ NoReplay' /\ BatchesBound' /\ NoNew
           /\ \A p \in Runs : \A b, i :
                Ran(p, b, i)' => Ran(p, b, i) \/ (p = r /\ Dispatching(r, b, i))
<1>0. Types /\ Replays(r) /\ NoReplay /\ BatchesBound /\ (\A f \in effects : f.run \in Runs)
      /\ batches \in Nat
  BY DEF LoopInv, ReplayInv, Types
<1>1. DispatchDoes(r)
  BY <1>0, DispatchEffect
<1>2. /\ ex[r].pc = "dispatch" /\ ex'[r].pc = "finalize" /\ batches' = batches
      /\ \A q \in Runs \ {r} : ex'[q] = ex[q]
  BY <1>1 DEF DispatchDoes, Frame
<1>3. PICK b, i, e : /\ b = CurrentBatch(r) /\ i = Min(ex[r].pending)
                     /\ e = [run |-> r, step |-> Len(steps[r]), batch |-> b, call |-> i,
                             kind |-> Bat(ex[r].msgs).calls[i]]
  OBVIOUS
<1>4. effects' \subseteq effects \cup {e} /\ e.run = r /\ e.batch = b /\ e.call = i
  BY <1>1, <1>3 DEF DispatchDoes
<1>5. /\ \A q \in Runs : Kin(q, r) => ~Ran(q, b, i)
      /\ Dispatching(r, b, i)
  BY <1>0, <1>2, <1>3 DEF Replays, DispatchOK, Dispatching
<1>6. \A f \in effects : Kin(f.run, r) => ~(f.batch = b /\ f.call = i)
  BY <1>0, <1>5 DEF Ran
<1>7. NoReplay'
  <2>1. SUFFICES ASSUME NEW f \in effects', NEW g \in effects', f.run \in Line(g.run),
                        f.batch = g.batch /\ f.call = g.call
                 PROVE  f = g
    BY DEF NoReplay, Line
  <2>2. CASE f \in effects /\ g \in effects
    BY <1>0, <2>1, <2>2 DEF NoReplay
  <2>3. CASE f \notin effects /\ g \in effects
    BY <1>4, <1>6, <2>1, <2>3 DEF Kin
  <2>4. CASE f \in effects /\ g \notin effects
    BY <1>4, <1>6, <2>1, <2>4 DEF Kin
  <2> QED  BY <1>4, <2>2, <2>3, <2>4
<1>8. BatchesBound'
  <2>1. Active(r) /\ ex[r].pending # {}
    BY <1>2, FirstIs DEF Active
  <2>2. b \in Nat /\ b <= batches
    BY <1>3, <2>1, BatchKnown
  <2>3. b \in 0..batches
    BY <1>0, <2>2
  <2> QED  BY <1>0, <1>2, <1>4, <2>3 DEF BatchesBound
<1>9. ASSUME NEW p \in Runs, NEW c, NEW j, Ran(p, c, j)'
      PROVE  Ran(p, c, j) \/ (p = r /\ Dispatching(r, c, j))
  BY <1>4, <1>5, <1>9 DEF Ran
<1>10. NoNew
  <2>1. \A q \in Runs : \A c, j : Dispatching(q, c, j)' => Dispatching(q, c, j)
    BY <1>2 DEF Dispatching, CurrentBatch
  <2> QED  BY <1>9, <2>1 DEF NoNew, Committed
<1> QED  BY <1>7, <1>8, <1>9, <1>10

(* Dispatch and FinalizeStep. *)
LEMMA EffectReplay ==
    ASSUME NEW r \in Runs, Moving(r), ReplayInv, Dispatch(r) \/ FinalizeStep(r)
    PROVE  ReplayInv'
<1>0. Types /\ Active(r) /\ LoopInv /\ GrantsOK(r) /\ Replays(r) /\ steps[r] \in Seq(Steps)
  BY MovingFacts DEF Moving, ReplayInv, Types
<1>1. /\ ex[r].pc \in {"dispatch", "finalize"} /\ ex'[r].pc \in {"finalize", "result"}
      /\ WorkKept(r) /\ conv' = conv /\ SameSteps(r)
      /\ \A q \in Runs \ {r} : ex'[q] = ex[q]
  <2>1. CASE Dispatch(r)
    <3>1. DispatchDoes(r)
      BY <1>0, <2>1, DispatchEffect
    <3> QED  BY <1>0, <3>1, StepsSame DEF DispatchDoes, Frame
  <2>2. CASE FinalizeStep(r)
    <3>1. FinalizeStepDoes(r)
      BY <1>0, <2>2, FinalizeStepEffect
    <3>2. Len(steps[r]) \in DOMAIN steps[r]
      BY <1>0, <3>1 DEF GrantsOK, FinalizeStepDoes
    <3>3. SameSteps(r)
      BY <1>0, <3>1, <3>2, StatusSet DEF FinalizeStepDoes
    <3> QED  BY <3>1, <3>3 DEF FinalizeStepDoes, Frame
  <2> QED  BY <2>1, <2>2
<1>2. /\ Origin(r)' = Origin(r)
      /\ \A i : ToolAt(r, Origin(r), i) => ToolAt(r, Origin(r), i)'
  BY <1>1, SameKept
<1>3. /\ CurrentBatch(r)' = CurrentBatch(r) /\ Handled(r)' = Handled(r)
      /\ Saved(r)' = Saved(r)
  BY <1>1 DEF CurrentBatch, Handled, Saved, Dispatches, WorkKept
<1>4. Held(r)
  <2>1. ToolAt(r, Origin(r), Min(ex[r].pending))
    BY <1>1, ReplayFacts DEF Dispatches
  <2>2. PICK i : i = Min(ex[r].pending) /\ i = Min(ex[r].pending)'
    BY <1>1 DEF WorkKept
  <2>3. ToolAt(r, Origin(r), i)'
    BY <1>2, <2>1, <2>2
  <2>4. ToolAt(r, Origin(r), Min(ex[r].pending))'
    BY <2>2, <2>3 DEF ToolAt
  <2> QED  BY <1>1, <1>3, <2>4, ReplayFacts DEF Held, WorkKept
<1>5. CASE FinalizeStep(r)
  <2>1. effects' = effects
    BY <1>5 DEF FinalizeStep
  <2> QED  BY <1>2, <1>4, <2>1, StepReplay
<1>6. CASE Dispatch(r)
  <2>1. /\ NoReplay' /\ BatchesBound' /\ NoNew
        /\ \A p \in Runs : \A b, i :
             Ran(p, b, i)' => Ran(p, b, i) \/ (p = r /\ Dispatching(r, b, i))
    BY <1>0, <1>6, DispatchRan
  <2>2. Commits(r)
    <3>1. \A b, i : ~Dispatching(r, b, i)'
      BY <1>1 DEF Dispatching
    <3> QED  BY <2>1, <3>1 DEF Commits, Committed
  <2>3. Replays(r)'
    BY <1>0, <1>2, <1>4, <2>1, HeldReplays
  <2>4. \A q \in Runs \ {r} : Replays(q)'
    BY <2>2, OthersReplays
  <2> QED  BY <2>1, <2>3, <2>4 DEF ReplayInv
<1> QED  BY <1>5, <1>6

-----------------------------------------------------------------------------
(* Steps that leave the stored steps as they are. *)

(* The origin of pending calls is kept. *)
LEMMA OriginStill ==
    ASSUME LoopInv, ChainInv, LoopInv', ChainInv', Settled, NEW q \in Runs
    PROVE  /\ Origin(q)' = Origin(q)
           /\ \A i : ToolAt(q, Origin(q), i)' <=> ToolAt(q, Origin(q), i)
<1>1. Origin(q)' = Origin(q)
  BY OriginKept DEF Settled
<1> QED  BY <1>1 DEF ToolAt, Settled

(* The evidence of a run stays good. *)
LEMMA StillEvidence ==
    ASSUME LoopInv, ChainInv, LoopInv', ChainInv', Settled, NEW q \in Runs, EvidenceOK(q),
           Pend(Saved(q))' # {} => Saved(q)' = Saved(q)
    PROVE  EvidenceOK(q)'
<1>0. Line(q)' = Line(q) /\ \A p \in Line(q) : p \in Runs
  BY KinFacts
<1> SUFFICES ASSUME NEW i \in Pend(Saved(q))', NEW p \in Line(q),
                    Committed(p, Bat(Saved(q)).batch, i)'
             PROVE  ToolAt(q, Origin(q), i)'
  BY <1>0 DEF EvidenceOK
<1>1. Saved(q)' = Saved(q) /\ i \in Pend(Saved(q))
  OBVIOUS
<1>2. PICK c : c = Bat(Saved(q)).batch /\ c = Bat(Saved(q))'.batch
  BY <1>1
<1>3. Committed(p, c, i)'
  BY <1>2 DEF Committed, Ran, Dispatching
<1>4. Committed(p, c, i)
  BY <1>0, <1>3 DEF Settled, NoNew
<1>5. ToolAt(q, Origin(q), i)
  BY <1>1, <1>2, <1>4 DEF EvidenceOK
<1> QED  BY <1>5, OriginStill

(* An executor that may write stays, and one that is about to dispatch.    *)
LEMMA StillRun ==
    ASSUME LoopInv, ChainInv, LoopInv', ChainInv', Settled, NEW q \in Runs, Replays(q),
           Live(q)' => ex'[q] = ex[q],
           ex'[q].pc = "dispatch" =>
             /\ ex[q].pc = "dispatch"
             /\ ex'[q].msgs = ex[q].msgs /\ ex'[q].pending = ex[q].pending
             /\ \A b, i : Ran(q, b, i)' => Ran(q, b, i),
           Pend(Saved(q))' # {} => Saved(q)' = Saved(q)
    PROVE  Replays(q)'
<1>1. EvidenceOK(q)'
  BY StillEvidence DEF Replays
<1>2. DispatchOK(q)'
  <2> SUFFICES ASSUME ex'[q].pc = "dispatch" PROVE DispatchOK(q)'
    BY DEF DispatchOK
  <2>0. PICK b, i : b = CurrentBatch(q) /\ i = Min(ex[q].pending)
    OBVIOUS
  <2>1. b = CurrentBatch(q)' /\ i = Min(ex[q].pending)' /\ Dispatching(q, b, i)
    BY <2>0 DEF CurrentBatch, Dispatching
  <2>2. \A p \in Runs : Kin(p, q) => ~Ran(p, b, i) /\ (p # q => ~Dispatching(p, b, i))
    BY <2>0 DEF Replays, DispatchOK
  <2>3. \A p \in Runs \ {q} : Kin(p, q)' => ~Committed(p, b, i)'
    BY <2>2, KinFacts DEF Settled, NoNew, Committed
  <2>4. ~Ran(q, b, i)'
    BY <2>2, KinFacts
  <2> QED  BY <2>1, <2>3, <2>4 DEF DispatchOK, Ran, Dispatching, Committed
<1>3. CASE ~Live(q)'
  BY <1>1, <1>2, <1>3 DEF Replays, OriginOK, ClaimOK
<1>4. CASE Live(q)'
  <2>1. ex'[q] = ex[q] /\ Live(q)
    BY <1>4 DEF Live, Active
  <2>3. /\ Origin(q)' = Origin(q)
        /\ \A i : ToolAt(q, Origin(q), i)' <=> ToolAt(q, Origin(q), i)
    BY OriginStill
  <2>4. OriginOK(q)'
    BY <2>1, <2>3 DEF Replays, OriginOK
  <2>5. ClaimOK(q)'
    <3>0. PICK b, i, n : /\ b = CurrentBatch(q) /\ i = Min(ex[q].pending)
                         /\ n = ex[q].out.batch
      OBVIOUS
    <3>1. /\ CurrentBatch(q)' = b /\ Min(ex[q].pending)' = i /\ Handled(q)' = Handled(q)
          /\ ex'[q].out.batch = n
      BY <2>1, <3>0 DEF CurrentBatch, Handled
    <3>2. \A j \in ex'[q].pending \ Handled(q)' : Free(q, CurrentBatch(q), j)'
      <4> SUFFICES ASSUME NEW j \in ex[q].pending \ Handled(q) PROVE Free(q, CurrentBatch(q), j)'
        BY <2>1, <3>1
      <4>1. Free(q, b, j)
        BY <2>1, <3>0 DEF Replays, ClaimOK
      <4>2. Free(q, b, j)'
        BY <4>1, StillFree DEF Settled
      <4> QED  BY <3>1, <4>2 DEF Free, Committed, Ran, Dispatching
    <3>3. ex'[q].pc \in Dispatches => ToolAt(q, Origin(q), Min(ex[q].pending))'
      <4> SUFFICES ASSUME ex[q].pc \in Dispatches PROVE ToolAt(q, Origin(q), Min(ex[q].pending))'
        BY <2>1
      <4>1. ToolAt(q, Origin(q), i)
        BY <2>1, <3>0 DEF Replays, ClaimOK
      <4>2. ToolAt(q, Origin(q), i)'
        BY <2>3, <4>1
      <4> QED  BY <3>1, <4>2 DEF ToolAt
    <3>4. ex'[q].pc \in {"think", "save"} => NewBatch(q, ex[q].out.batch)'
      <4> SUFFICES ASSUME ex[q].pc \in {"think", "save"} PROVE NewBatch(q, ex[q].out.batch)'
        BY <2>1
      <4>1. NewBatch(q, n)
        BY <2>1, <3>0 DEF Replays, ClaimOK
      <4>2. NewBatch(q, n)'
        BY <4>1, StillFree DEF Settled, NewBatch
      <4> QED  BY <3>1, <4>2 DEF NewBatch, Free, Committed, Ran, Dispatching
    <3> QED  BY <2>1, <2>3, <3>2, <3>3, <3>4 DEF Replays, ClaimOK
  <2> QED  BY <1>1, <1>2, <2>4, <2>5 DEF Replays
<1> QED  BY <1>3, <1>4

(* Such a step keeps the evidence and commits no call. *)
LEMMA StoreReplay ==
    ASSUME LoopInv, ChainInv, LoopInv', ChainInv', ReplayInv, StoreMoves
    PROVE  ReplayInv' /\ NoNew
<1>0. UNCHANGED <<conv, steps, batches, effects>>
  BY DEF StoreMoves
<1>1. \A p : \A b, i : Ran(p, b, i)' <=> Ran(p, b, i)
  BY <1>0 DEF Ran
<1>2. \A q \in Runs :
        /\ Live(q)' => ex'[q] = ex[q]
        /\ ex'[q].pc = "dispatch" =>
             /\ ex[q].pc = "dispatch"
             /\ ex'[q].msgs = ex[q].msgs /\ ex'[q].pending = ex[q].pending
        /\ Saved(q)' = Saved(q)
  BY <1>0 DEF StoreMoves, Live, Active, Saved
<1>3. \A q \in Runs : \A b, i : Dispatching(q, b, i)' => Dispatching(q, b, i)
  BY <1>2 DEF Dispatching, CurrentBatch
<1>4. Settled
  BY <1>1, <1>3 DEF Settled, NoNew, Committed, StoreMoves
<1>5. ASSUME NEW q \in Runs PROVE Replays(q)'
  <2>1. Replays(q)
    BY DEF ReplayInv
  <2> QED  BY <1>1, <1>2, <1>4, <2>1, StillRun
<1>6. NoReplay' /\ BatchesBound'
  BY <1>0 DEF ReplayInv, NoReplay, BatchesBound
<1> QED  BY <1>4, <1>5, <1>6 DEF ReplayInv, Settled

(* A cancelled executor starts no call. *)
LEMMA CancelledStops ==
    ASSUME LoopInv, NEW r \in Runs, Executor(r), ~Live(r)
    PROVE  /\ ex'[r].pc \notin {"dispatch", "model"}
           /\ ex'[r].pc \in {"think", "save"} => ex'[r].out.says # "superseded"
<1>0. /\ Types /\ Moves(r)
      /\ ex[r].cancelled
  BY ExecutorMoves DEF LoopInv, Moves, Stays, Live
<1>1. CASE RecoverToolResult(r)
  BY <1>0, <1>1, RecoverToolResultEffect DEF RecoverToolResultDoes
<1>2. CASE CloseSuperseded(r)
  BY <1>0, <1>2, CloseSupersededEffect DEF CloseSupersededDoes
<1>3. CASE EnterLoop(r)
  BY <1>0, <1>3, EnterLoopEffect DEF EnterLoopDoes
<1>4. CASE StopCancelled(r)
  BY <1>0, <1>4, StopCancelledEffect DEF StopCancelledDoes
<1>5. CASE ModelCallLimit(r) \/ CallModel(r)
  BY <1>0, <1>5 DEF ModelCallLimit, CallModel
<1>6. CASE ModelAnswers(r)
  <2>1. /\ ex'[r].pc = "think"
        /\ \E calls \in Seq(Kinds), says \in Sayings :
             ex'[r].out = Assistant(batches + 1, calls, says) /\ says # "superseded"
    BY <1>0, <1>6, ModelAnswersEffect DEF ModelAnswersDoes
  <2>2. PICK calls, says : ex'[r].out = Assistant(batches + 1, calls, says) /\ says # "superseded"
    BY <2>1
  <2>3. ex'[r].out.says # "superseded"
    BY <2>2 DEF Assistant
  <2> QED  BY <2>1, <2>3
<1>7. CASE ModelCallFails(r)
  BY <1>0, <1>7, ModelCallFailsEffect DEF ModelCallFailsDoes
<1>8. CASE Dispatch(r)
  BY <1>0, <1>8, DispatchEffect DEF DispatchDoes
<1>9. CASE CreateApproval(r)
  BY <1>0, <1>9 DEF CreateApproval, At
<1>10. ~Writes(r)
  BY <1>0 DEF Writes
<1> QED  BY <1>1, <1>2, <1>3, <1>4, <1>5, <1>6, <1>7, <1>8, <1>9, <1>10
         DEF Executor, InheritDispatch, settleAmbiguousToolDispatch,
             AppendDeferredContinuation, CeilingReached, RecoverAnswer, GatePending,
             ResumePending, AwaitApproval, StreamPartial, SaveModelStep, SaveAssistant,
             SaveIntent, FinalizeStep, SaveToolResult, failedFromError, AddStep,
             UpsertArtifact

(* A cancelled executor keeps the evidence. *)
LEMMA CancelledReplay ==
    ASSUME LoopInv, ChainInv, LoopInv', ChainInv', ReplayInv, NEW r \in Runs,
           Executor(r), ~Live(r)
    PROVE  ReplayInv'
<1>0. /\ Stays(r) /\ steps' = steps /\ run' = run /\ ex'[r].pc # "dispatch" /\ ~Live(r)'
      /\ \A q \in Runs \ {r} : ex'[q] = ex[q] /\ conv'[q] = conv[q]
      /\ batches \in Nat /\ batches' \in Nat /\ batches <= batches'
  <2>1. Moves(r)
    BY ExecutorMoves
  <2> QED  BY <2>1, CancelledStops DEF Moves, Stays, Live, LoopInv, Types
<1>1. /\ NoReplay' /\ BatchesBound' /\ NoNew
      /\ \A p \in Runs \ {r} : \A b, i : Ran(p, b, i)' => Ran(p, b, i)
  <2>1. CASE Dispatch(r)
    BY <2>1, DispatchRan
  <2>2. CASE effects' = effects
    <3>1. \A p : \A b, i : Ran(p, b, i)' <=> Ran(p, b, i)
      BY <2>2 DEF Ran
    <3>2. \A q \in Runs : \A b, i : Dispatching(q, b, i)' => Dispatching(q, b, i)
      BY <1>0 DEF Dispatching, CurrentBatch
    <3>3. NoReplay' /\ BatchesBound'
      BY <1>0, <2>2 DEF ReplayInv, NoReplay, BatchesBound
    <3> QED  BY <3>1, <3>2, <3>3 DEF NoNew, Committed
  <2> QED  BY <1>0, <2>1, <2>2 DEF Stays
<1>2. Settled
  BY <1>0, <1>1 DEF Settled
<1>3. ASSUME NEW q \in Runs PROVE Replays(q)'
  <2>0. Replays(q)
    BY DEF ReplayInv
  <2>1. CASE q = r
    <3>1. Pend(Saved(q))' # {} => Saved(q)' = Saved(q)
      <4>1. /\ Pend(Saved(r))' = Pend(Saved(r))
            /\ Pend(Saved(r)) # {} => Saved(r)' = Saved(r)
        BY <1>0, CancelledPend
      <4> QED  BY <2>1, <4>1
    <3> QED  BY <1>0, <1>2, <2>0, <2>1, <3>1, StillRun
  <2>2. CASE q # r
    <3>1. Saved(q)' = Saved(q) /\ ex'[q] = ex[q]
      BY <1>0, <2>2 DEF Saved
    <3> QED  BY <1>1, <1>2, <2>0, <2>2, <3>1, StillRun
  <2> QED  BY <2>1, <2>2
<1> QED  BY <1>1, <1>3 DEF ReplayInv

(* Every step of an executor keeps the evidence. *)
LEMMA ExecutorReplay ==
    ASSUME LoopInv, ChainInv, LoopInv', ChainInv', ProgressInv, ReplayInv,
           NEW r \in Runs, Executor(r)
    PROVE  ReplayInv'
<1>1. CASE ~Live(r)
  BY <1>1, CancelledReplay
<1>2. CASE Live(r)
  <2>1. Moving(r)
    BY <1>2, ExecutorMoves DEF Moving
  <2>2. CASE \/ settleAmbiguousToolDispatch(r) \/ RecoverToolResult(r)
             \/ CloseSuperseded(r) \/ AppendDeferredContinuation(r)
    BY <2>1, <2>2, RecoverReplay
  <2>3. CASE \/ CeilingReached(r) \/ RecoverAnswer(r) \/ EnterLoop(r) \/ GatePending(r)
             \/ StopCancelled(r) \/ ModelCallLimit(r) \/ CallModel(r) \/ StreamPartial(r)
             \/ ModelCallFails(r) \/ CreateApproval(r)
    BY <2>1, <2>3, KeepReplay
  <2>4. CASE ResumePending(r) \/ AwaitApproval(r) \/ failedFromError(r)
    BY <2>1, <2>4, AddReplay
  <2>5. CASE InheritDispatch(r)
    BY <2>1, <2>5, InheritReplay
  <2>6. CASE ModelAnswers(r)
    BY <2>1, <2>6, AnswersReplay
  <2>7. CASE SaveModelStep(r)
    BY <2>1, <2>7, ModelStepReplay
  <2>8. CASE SaveAssistant(r)
    BY <2>1, <2>8, AssistantReplay
  <2>9. CASE SaveIntent(r)
    BY <2>1, <2>9, IntentReplay
  <2>10. CASE Dispatch(r) \/ FinalizeStep(r)
    BY <2>1, <2>10, EffectReplay
  <2>11. CASE SaveToolResult(r)
    BY <2>1, <2>11, ResultReplay
  <2> QED  BY <2>2, <2>3, <2>4, <2>5, <2>6, <2>7, <2>8, <2>9, <2>10, <2>11
              DEF Executor
<1> QED  BY <1>1, <1>2

-----------------------------------------------------------------------------
(* The steps of the store. *)

(* Which they are. *)
LEMMA StoreSteps ==
    ASSUME LoopInv, ChainInv, NEW r \in Runs,
           \/ Starts(r) \/ CancelRun(r) \/ cancelInFlightJob(r)
           \/ \E k \in DOMAIN appr[r] : ApproveAndResume(r, k) \/ RejectApproval(r, k)
           \/ SettleRun(r) \/ WriteFails(r)
           \/ UNCHANGED <<conv, ex, steps, batches, effects>>
    PROVE  StoreMoves
<1>0. DOMAIN ex = Runs /\ DOMAIN ex[r] = Fields
  BY ChainFacts
<1>1. CASE Starts(r)
  <2>1. PICK mode, index, budget : StartFromRun(r, mode, index, budget)
    BY <1>1, StartsIs
  <2> QED  BY <2>1 DEF StartFromRun, StoreMoves
<1>2. CASE cancelInFlightJob(r)
  <2>1. /\ ex' = [ex EXCEPT ![r].cancelled = TRUE]
        /\ UNCHANGED <<conv, steps, batches, effects>>
    BY <1>2 DEF cancelInFlightJob
  <2> QED  BY <1>0, <2>1 DEF StoreMoves, Live, Fields
<1>3. CASE SettleRun(r) \/ WriteFails(r)
  <2>1. ex' = [ex EXCEPT ![r] = Idle] /\ UNCHANGED <<conv, steps, batches, effects>>
    BY <1>3 DEF SettleRun, WriteFails
  <2> QED  BY <1>0, <2>1 DEF StoreMoves, Idle
<1> QED  BY <1>1, <1>2, <1>3
            DEF StoreMoves, CancelRun, ApproveAndResume, RejectApproval

(* So is a crash. *)
LEMMA CrashStores ==
    ASSUME Crash
    PROVE  StoreMoves
BY DEF Crash, StoreMoves, Idle

(* The steps of the system: of the store, a claim, or of an executor. *)
LEMMA NextSorted ==
    ASSUME LoopInv, ChainInv, LoopInv', ChainInv', [Next]_vars
    PROVE  \/ StoreMoves
           \/ \E r \in Runs : Claims(r) \/ Executor(r)
<1>1. CASE UNCHANGED vars
  BY <1>1 DEF vars, StoreMoves
<1>3. ASSUME NEW r \in Runs,
             \/ Starts(r) \/ CancelRun(r) \/ cancelInFlightJob(r)
             \/ \E k \in DOMAIN appr[r] : ApproveAndResume(r, k) \/ RejectApproval(r, k)
             \/ SettleRun(r) \/ WriteFails(r)
      PROVE  StoreMoves
  BY <1>3, StoreSteps
<1>4. ASSUME NEW r \in Runs, ClaimRun(r) PROVE StoreMoves \/ Claims(r)
  BY <1>4, ClaimIs, StoreSteps
<1>5. CASE Crash
  BY <1>5, CrashStores
<1> QED  BY <1>1, <1>3, <1>4, <1>5, NextIs

(* What a claim puts in hand without evidence is free. *)
LEMMA OwnFree ==
    ASSUME LoopInv, ChainInv, ProgressInv, NEW r \in Runs, run[r].status = "queued",
           EvidenceOK(r), NEW i \in Pend(Saved(r)), ~ToolAt(r, Origin(r), i)
    PROVE  Free(r, Bat(Saved(r)).batch, i)
<1> SUFFICES ASSUME NEW q \in Runs, Kin(q, r) PROVE ~Committed(q, Bat(Saved(r)).batch, i)
  BY DEF Free
<1>1. CASE q \in Line(r)
  BY <1>1 DEF EvidenceOK
<1>2. CASE q \notin Line(r)
  <2>1. q # r /\ r \in Line(q) /\ ~Ended(r)
    BY <1>2, LineFacts DEF Kin, Ended, Terminal
  <2>2. run[q].status = "none"
    BY <2>1, Alone
  <2> QED  BY <2>2, NotBegun
<1> QED  BY <1>1, <1>2

(* A pending call of the source without evidence there was never started. *)
LEMMA SourceFree ==
    ASSUME LoopInv, ChainInv, ProgressInv, NEW r \in Runs, run[r].status = "queued",
           ~Active(r), conv[r] = NoConv, Parent[r] \in Runs, EvidenceOK(Parent[r]),
           NEW i \in Pend(Saved(Parent[r])), ~ToolAt(Parent[r], Origin(Parent[r]), i)
    PROVE  Free(r, Bat(Saved(Parent[r])).batch, i)
<1> SUFFICES ASSUME NEW q \in Runs, Kin(q, r)
             PROVE  ~Committed(q, Bat(Saved(Parent[r])).batch, i)
  BY DEF Free
<1>0. ~Ended(r)
  BY DEF Ended, Terminal
<1>1. CASE q \in Line(Parent[r])
  BY <1>1 DEF EvidenceOK
<1>2. CASE q = r
  <2>1. FirstOK(r) /\ ex[r].pc = "idle"
    BY DEF ProgressInv, Progress, Active
  <2>2. ~\E e \in effects : e.run = r
    BY <1>0, <2>1 DEF FirstOK, Dispatches
  <2> QED  BY <1>2, <2>1, <2>2 DEF Committed, Ran, Dispatching
<1>3. CASE q \notin Line(Parent[r]) /\ q # r
  <2>1. r \in Line(q)
    BY <1>3, LineFacts DEF Kin
  <2>2. run[q].status = "none"
    BY <1>0, <1>3, <2>1, Alone
  <2> QED  BY <2>2, NotBegun
<1> QED  BY <1>1, <1>2, <1>3

(* A run that took over calls names the model call of its source. *)
LEMMA TakenOrigin ==
    ASSUME LoopInv, ChainInv, ProgressInv, NEW r \in Runs, run[r].status = "queued",
           conv[r] = NoConv, SrcPend(r)
    PROVE  Origin(r) = Origin(Parent[r]) /\ Parent[r] \in Runs
<1>1. OnlyRef(steps[r], Origin(Parent[r])) /\ run[r].mode # "fresh" /\ steps[r] \in Seq(Steps)
  BY DEF ProgressInv, Progress, FirstOK, Ended, Terminal, SrcPend, LoopInv, Types
<1>2. Parent[r] \in Runs
  BY <1>1 DEF LoopInv, RetryOK
<1>3. CASE NewestRef(steps[r]) = NoRef
  BY <1>1, <1>2, <1>3, OriginIs
<1>4. CASE NewestRef(steps[r]) # NoRef
  <2>1. WithRef(steps[r]) # {}
    BY <1>1, <1>4, NewestNone
  <2>2. PICK n \in WithRef(steps[r]) : NewestRef(steps[r]) = steps[r][n].ref
    BY <1>1, <2>1, NewestIs
  <2>3. NewestRef(steps[r]) = Origin(Parent[r])
    BY <1>1, <2>2 DEF OnlyRef
  <2> QED  BY <1>2, <1>4, <2>3, OriginIs
<1> QED  BY <1>3, <1>4

(* A claim keeps the evidence. *)
LEMMA ClaimReplay ==
    ASSUME LoopInv, ChainInv, LoopInv', ChainInv', ProgressInv, ReplayInv,
           NEW r \in Runs, Claims(r)
    PROVE  ReplayInv'
<1>0. /\ UNCHANGED <<steps, batches, effects>>
      /\ \A q \in Runs : run'[q].mode = run[q].mode /\ Saved(q)' = Saved(q)
      /\ \A q \in Runs \ {r} : ex'[q] = ex[q]
      /\ run[r].status = "queued" /\ ~Active(r)
      /\ ex'[r].pc \in {"fail", "normalize", "settle", "inherit"}
      /\ ex'[r].pc = "normalize" => ex'[r].matches = {}
      /\ Replays(r)
  BY Claims(r) DEF Claims, ReplayInv
<1>1. \A p : \A b, i : Ran(p, b, i)' <=> Ran(p, b, i)
  BY <1>0 DEF Ran
<1>2. \A q \in Runs : \A b, i : Dispatching(q, b, i)' => Dispatching(q, b, i)
  BY <1>0 DEF Dispatching, CurrentBatch
<1>3. Settled
  BY <1>0, <1>1, <1>2 DEF Settled, NoNew, Committed
<1>4. ASSUME NEW q \in Runs \ {r} PROVE Replays(q)'
  <2>1. Replays(q)
    BY DEF ReplayInv
  <2> QED  BY <1>0, <1>1, <1>3, <2>1, StillRun
<1>5. /\ Origin(r)' = Origin(r)
      /\ \A i : ToolAt(r, Origin(r), i)' <=> ToolAt(r, Origin(r), i)
  BY <1>0, <1>3, OriginStill
<1>6. EvidenceOK(r)' /\ DispatchOK(r)'
  BY <1>0, <1>3, StillEvidence DEF Replays, DispatchOK
<1>7. /\ ex'[r].pending # {} => ex'[r].ref = Origin(r)
      /\ \A i \in ex'[r].pending \ ex'[r].matches : Free(r, CurrentBatch(r)', i)
      /\ ex'[r].pc = "settle" => \A i \in ex'[r].matches : ToolAt(r, Origin(r), i)
      /\ ex'[r].pc = "inherit" => ex'[r].left = ex'[r].matches
  <2>1. CASE OwnClaim(r)
    <3>1. CurrentBatch(r)' = Bat(Saved(r)).batch
      BY <2>1 DEF OwnClaim, CurrentBatch, Bat
    <3> QED  BY <1>0, <2>1, <3>1, OwnFree DEF OwnClaim, Replays
  <2>2. CASE SourceClaim(r)
    <3>1. CurrentBatch(r)' = Bat(Saved(Parent[r])).batch
      BY <2>2 DEF SourceClaim, CurrentBatch, Bat
    <3>2. Origin(r) = Origin(Parent[r]) /\ Parent[r] \in Runs
      BY <1>0, <2>2, TakenOrigin DEF SourceClaim
    <3>3. EvidenceOK(Parent[r])
      BY <3>2 DEF ReplayInv, Replays
    <3>4. \A i \in ex'[r].pending \ ex'[r].matches :
            i \in Pend(Saved(Parent[r])) /\ ~ToolAt(Parent[r], Origin(Parent[r]), i)
      BY <2>2 DEF SourceClaim, Taken
    <3>5. conv[r] = NoConv
      BY <2>2 DEF SourceClaim
    <3>6. \A i \in ex'[r].pending \ ex'[r].matches : Free(r, Bat(Saved(Parent[r])).batch, i)
      BY <1>0, <3>2, <3>3, <3>4, <3>5, SourceFree
    <3> QED  BY <2>2, <3>1, <3>2, <3>6 DEF SourceClaim
  <2>3. CASE FreshClaim(r)
    BY <2>3 DEF FreshClaim
  <2> QED  BY Claims(r), <2>1, <2>2, <2>3 DEF Claims
<1>8. OriginOK(r)'
  BY <1>0, <1>5, <1>7 DEF OriginOK
<1>9. ClaimOK(r)'
  <2>1. \A i \in ex'[r].pending \ Handled(r)' : Free(r, CurrentBatch(r), i)'
    <3> SUFFICES ASSUME NEW i \in ex'[r].pending \ Handled(r)'
                 PROVE  Free(r, CurrentBatch(r), i)'
      OBVIOUS
    <3>1. i \in ex'[r].pending \ ex'[r].matches
      BY <1>0 DEF Handled, Dispatches
    <3>2. PICK b : b = CurrentBatch(r)'
      OBVIOUS
    <3>3. Free(r, b, i)
      BY <1>7, <3>1, <3>2
    <3>4. Free(r, b, i)'
      BY <1>3, <3>3, StillFree DEF Settled
    <3> QED  BY <3>2, <3>4 DEF Free, Committed, Ran, Dispatching
  <2> QED  BY <1>0, <1>5, <1>7, <2>1 DEF ClaimOK, Dispatches
<1>10. Replays(r)'
  BY <1>6, <1>8, <1>9 DEF Replays
<1>11. NoReplay' /\ BatchesBound'
  BY <1>0 DEF ReplayInv, NoReplay, BatchesBound
<1> QED  BY <1>4, <1>10, <1>11 DEF ReplayInv

(* Every step keeps the evidence. *)
LEMMA NextReplay ==
    ASSUME LoopInv, ChainInv, ProgressInv, ReplayInv, [Next]_vars, LateSignal = FALSE
    PROVE  ReplayInv'
<1>0. LoopInv' /\ ChainInv'
  BY NextLoop, NextChain
<1>1. CASE StoreMoves
  BY <1>0, <1>1, StoreReplay
<1>2. ASSUME NEW r \in Runs, Executor(r) PROVE ReplayInv'
  BY <1>0, <1>2, ExecutorReplay
<1>3. ASSUME NEW r \in Runs, Claims(r) PROVE ReplayInv'
  BY <1>0, <1>3, ClaimReplay
<1> QED  BY <1>0, <1>1, <1>2, <1>3, NextSorted

(* No tool call of a batch has its effect twice on a line of runs, after   *)
(* however many crashes, resumptions, continuations and retries, for any   *)
(* tree of runs: a worker that finds a pending call dispatches it only if  *)
(* no evidence of an earlier dispatch is stored (RecoveryMatches,          *)
(* settleAmbiguousToolDispatch). The hypotheses exclude crashes in the     *)
(* window that CrashSafe names, where the code does replay, and runs       *)
(* started before the cancelled executor of their source has stopped.      *)
THEOREM ReplayTheorem ==
    ASSUME ReplayWindow = FALSE, LateSignal = FALSE
    PROVE  Spec => []NoReplay
<1> DEFINE Inv == LoopInv /\ ChainInv /\ ProgressInv /\ ReplayInv
<1>1. Init => Inv
  BY InitLoop, InitChain, InitProgress, InitReplay
<1>2. Inv /\ [Next]_vars => Inv'
  BY NextLoop, NextChain, NextProgress, NextReplay
<1>3. Inv => NoReplay
  BY DEF ReplayInv
<1> QED  BY <1>1, <1>2, <1>3, PTL DEF Spec

(* An appended message that supersedes nothing. *)
LEMMA SupAppend ==
    ASSUME NEW m \in Seq(Messages), NEW x \in Messages, NEW b, NEW i,
           SupIn(Append(m, x), b, i)
    PROVE  \/ SupIn(m, b, i)
           \/ x.says = "superseded" /\ x.batch = b /\ x.call = i
<1>1. PICK n \in DOMAIN Append(m, x) :
        /\ Append(m, x)[n].says = "superseded"
        /\ Append(m, x)[n].batch = b /\ Append(m, x)[n].call = i
  BY DEF SupIn
<1>2. \/ n \in DOMAIN m /\ Append(m, x)[n] = m[n]
      \/ Append(m, x)[n] = x
  OBVIOUS
<1> QED  BY <1>1, <1>2 DEF SupIn

(* An empty conversation says nothing. *)
LEMMA EmptySays ==
    /\ \A b, i : ~SupIn(<<>>, b, i)
    /\ \A b, i : ~Open(<<>>, b, i)
BY EmptyPend DEF SupIn, Open

(* What is stored of an active run is what its executor has in hand. *)
LEMMA InHandNext ==
    ASSUME LoopInv', NEW r \in Runs, Active(r)', NEW b, NEW i
    PROVE  /\ SupIn(Saved(r)', b, i) => SupIn(ex'[r].msgs, b, i)
           /\ Open(Saved(r)', b, i) => Open(ex'[r].msgs, b, i)
<1>1. CASE conv'[r] = NoConv
  <2>1. Saved(r)' = <<>>
    BY <1>1 DEF Saved, completedConversationMessages, NoConv
  <2> QED  BY <2>1, EmptySays
<1>2. CASE conv'[r] # NoConv
  BY <1>2 DEF LoopInv, RunOK, WorkOK
<1> QED  BY <1>1, <1>2

(* A run that has not begun says nothing, and has nothing to dispatch. *)
LEMMA NotBegunGone ==
    ASSUME LoopInv, ChainInv, ProgressInv, NEW q \in Runs, run[q].status = "none",
           NEW b, NEW i
    PROVE  ~Has(q, b, i) /\ Gone(q, b, i)
<1>1. Saved(q) = <<>> /\ ~Active(q)
  BY NotBegun
<1>2. ~Live(q) /\ ~Holds(q)
  BY <1>1 DEF Live, Holds, Active
<1> QED  BY <1>1, <1>2, EmptySays DEF Has, Gone

(* It holds initially: nothing is said. *)
LEMMA InitSupersede == Init => SupersedeInv
<1> SUFFICES ASSUME Init PROVE SupersedeInv
  OBVIOUS
<1> SUFFICES ASSUME NEW q \in Runs
             PROVE  TailOK(q) /\ \A b, i : Has(q, b, i) => Dead(q, b, i)
  BY DEF SupersedeInv
<1>1. conv[q] = NoConv /\ ex[q] = Idle
  BY DEF Init
<1>2. Saved(q) = <<>> /\ conv[q].msgs = <<>>
  BY <1>1, NoConvSaved DEF NoConv
<1>3. ex[q].pc = "idle"
  BY <1>1 DEF Idle
<1>4. ~Holds(q)
  BY <1>3 DEF Holds, Live, Active
<1> QED  BY <1>2, <1>3, <1>4, EmptySays DEF TailOK, Has

(* A call that is dead stays dead when no executor is live but as it was. *)
LEMMA StillDead ==
    ASSUME NoNew, batches \in Nat, batches' \in Nat, batches <= batches',
           \A q \in Runs :
             /\ Live(q)' => ex'[q] = ex[q] /\ Live(q)
             /\ \A b, i : Open(Saved(q)', b, i) => Open(Saved(q), b, i),
           NEW q \in Runs, NEW b, NEW i, Dead(q, b, i)
    PROVE  Dead(q, b, i)'
<1>1. Free(q, b, i)' /\ b \in 0..batches'
  BY StillFree DEF Dead
<1>2. ASSUME NEW r \in Runs, q \in Line(r) PROVE Gone(r, b, i)'
  <2>1. Gone(r, b, i)
    BY <1>2 DEF Dead
  <2>2. ~Open(Saved(r), b, i)'
    BY <2>1 DEF Gone
  <2>3. ASSUME Live(r)'
        PROVE  /\ ~Open(ex[r].msgs, b, i)'
               /\ ex'[r].pc \in {"think", "save"} => ex'[r].out.batch # b
    BY <2>1, <2>3 DEF Gone
  <2> QED  BY <2>2, <2>3 DEF Gone
<1>3. \A r \in Runs : Line(r)' = Line(r)
  BY KinFacts
<1> QED  BY <1>1, <1>2, <1>3 DEF Dead

(* The steps of the store keep it. *)
LEMMA StoreSupersede ==
    ASSUME LoopInv, ChainInv, LoopInv', ChainInv', ReplayInv, SupersedeInv, StoreMoves
    PROVE  SupersedeInv'
<1>0. /\ NoNew /\ conv' = conv /\ batches' = batches /\ batches \in Nat
      /\ \A q \in Runs : Saved(q)' = Saved(q)
  BY StoreReplay DEF StoreMoves, Saved, LoopInv, Types
<1>1. ASSUME NEW q \in Runs
      PROVE  /\ ex'[q].pc \in {"think", "save", "model"} =>
                  ex'[q].pc = ex[q].pc /\ ex'[q].out = ex[q].out /\ ex'[q].msgs = ex[q].msgs
             /\ Live(q)' => ex'[q] = ex[q] /\ Live(q)
  <2>1. \/ ex'[q] = ex[q]
        \/ ex'[q].pc = "idle"
        \/ /\ ~Live(q)' /\ ex'[q].pc = ex[q].pc /\ ex'[q].out = ex[q].out
           /\ ex'[q].msgs = ex[q].msgs
    BY DEF StoreMoves
  <2> QED  BY <2>1 DEF Live, Active
<1> SUFFICES ASSUME NEW q \in Runs
             PROVE  /\ TailOK(q)'
                    /\ \A b, i : Has(q, b, i)' => Dead(q, b, i)'
  BY DEF SupersedeInv
<1>2. TailOK(q)'
  <2>1. TailOK(q)
    BY DEF SupersedeInv
  <2>2. \A b, i : SupIn(conv[q].msgs, b, i)' => SupIn(Saved(q), b, i)'
    BY <1>0, <2>1 DEF TailOK
  <2> QED  BY <1>1, <2>1, <2>2 DEF TailOK
<1>3. ASSUME NEW b, NEW i, Has(q, b, i)' PROVE Dead(q, b, i)'
  <2>1. Has(q, b, i)
    <3>1. \/ SupIn(Saved(q)', b, i)
          \/ Holds(q)' /\ SupIn(ex'[q].msgs, b, i)
      BY <1>3 DEF Has
    <3>2. ASSUME SupIn(Saved(q)', b, i) PROVE Has(q, b, i)
      BY <1>0, <3>2 DEF Has
    <3>3. ASSUME Holds(q)', SupIn(ex'[q].msgs, b, i) PROVE Has(q, b, i)
      <4>1. Holds(q) /\ ex'[q].msgs = ex[q].msgs
        BY <1>1, <3>3 DEF Holds
      <4> QED  BY <3>3, <4>1 DEF Has
    <3> QED  BY <3>1, <3>2, <3>3
  <2>2. Dead(q, b, i)
    BY <2>1 DEF SupersedeInv
  <2>3. \A p \in Runs : /\ Live(p)' => ex'[p] = ex[p] /\ Live(p)
                        /\ \A c, j : Open(Saved(p)', c, j) => Open(Saved(p), c, j)
    BY <1>0, <1>1
  <2> QED  BY <1>0, <2>2, <2>3, StillDead
<1> QED  BY <1>2, <1>3

(* A cancelled executor has no effect of its own but the dispatch in hand. *)
LEMMA CancelledNoNew ==
    ASSUME LoopInv, ReplayInv, NEW r \in Runs, Executor(r), ~Live(r)
    PROVE  NoNew
<1>0. Stays(r) /\ ex'[r].pc # "dispatch"
  BY ExecutorMoves, CancelledStops DEF Moves
<1>1. CASE Dispatch(r)
  BY <1>1, DispatchRan
<1>2. CASE effects' = effects
  <2>1. ASSUME NEW q \in Runs, NEW b, NEW i, Committed(q, b, i)' PROVE Committed(q, b, i)
    <3>1. Ran(q, b, i)' => Ran(q, b, i)
      BY <1>2 DEF Ran
    <3>2. Dispatching(q, b, i)' => Dispatching(q, b, i)
      BY <1>0 DEF Dispatching, CurrentBatch, Stays
    <3> QED  BY <2>1, <3>1, <3>2 DEF Committed
  <2> QED  BY <2>1 DEF NoNew
<1> QED  BY <1>0, <1>1, <1>2 DEF Stays

(* A cancelled executor keeps it: it saves at most what it had in hand, in *)
(* which nothing is pending.                                               *)
LEMMA CancelledSupersede ==
    ASSUME LoopInv, ChainInv, LoopInv', ChainInv', ReplayInv, SupersedeInv, NEW r \in Runs,
           Executor(r), ~Live(r)
    PROVE  SupersedeInv'
<1>0. /\ NoNew /\ Stays(r) /\ ex'[r].pc # "model" /\ Types /\ Types'
      /\ ex'[r].pc \in {"think", "save"} => ex'[r].out.says # "superseded"
      /\ batches \in Nat /\ batches' \in Nat /\ batches <= batches'
  BY CancelledNoNew, CancelledStops, ExecutorMoves
     DEF Moves, Stays, LoopInv, Types
<1>1. ~Live(r)' /\ ~Holds(r)'
  BY <1>0 DEF Stays, Live, Active, Holds
<1>2. \A q \in Runs \ {r} : /\ ex'[q] = ex[q] /\ conv'[q] = conv[q] /\ Saved(q)' = Saved(q)
                            /\ Live(q)' <=> Live(q)
                            /\ Holds(q)' <=> Holds(q)
  BY <1>0 DEF Stays, Saved, Live, Active, Holds
<1>3. \/ conv' = conv
      \/ ex[r].pc = "model" /\ SavesTo(r, ex[r].msgs)
  BY <1>0 DEF Stays
<1>4. ASSUME ex[r].pc = "model", SavesTo(r, ex[r].msgs)
      PROVE  /\ Saved(r)' = ex[r].msgs /\ conv'[r].msgs = ex[r].msgs
             /\ \A b, i : ~Open(ex[r].msgs, b, i)
             /\ Holds(r)
  <2>1. Pend(ex[r].msgs) = {} /\ ex[r].msgs \in Seq(Messages)
    BY <1>4 DEF LoopInv, RunOK, PhaseOK, WorkOK, Active, Types, FieldsOK
  <2>2. conv'[r] = [msgs |-> ex[r].msgs, streaming |-> FALSE]
    BY <1>0, <1>4 DEF SavesTo, Types
  <2>3. Saved(r)' = ex[r].msgs /\ conv'[r].msgs = ex[r].msgs
    BY <2>2 DEF Saved, completedConversationMessages
  <2> QED  BY <1>4, <2>1, <2>3 DEF Open, Holds
<1>5. conv' = conv => Saved(r)' = Saved(r)
  BY DEF Saved
<1>6. \A p \in Runs : /\ Live(p)' => ex'[p] = ex[p] /\ Live(p)
                      /\ \A c, j : Open(Saved(p)', c, j) => Open(Saved(p), c, j)
  BY <1>1, <1>2, <1>3, <1>4, <1>5
<1>7. ASSUME NEW q \in Runs PROVE TailOK(q)'
  <2>0. TailOK(q)
    BY DEF SupersedeInv
  <2>1. CASE q # r
    <3>1. \A b, i : SupIn(conv[q].msgs, b, i)' => SupIn(Saved(q), b, i)'
      BY <1>2, <2>0, <2>1 DEF TailOK
    <3> QED  BY <1>2, <2>0, <2>1, <3>1 DEF TailOK
  <2>2. CASE q = r
    <3>1. \A b, i : SupIn(conv[q].msgs, b, i)' => SupIn(Saved(q), b, i)'
      BY <1>3, <1>4, <1>5, <2>0, <2>2 DEF TailOK
    <3> QED  BY <1>0, <2>2, <3>1 DEF TailOK
  <2> QED  BY <2>1, <2>2
<1>8. ASSUME NEW q \in Runs, NEW b, NEW i, Has(q, b, i)' PROVE Has(q, b, i)
  <2>1. \/ SupIn(Saved(q)', b, i)
        \/ Holds(q)' /\ SupIn(ex'[q].msgs, b, i)
    BY <1>8 DEF Has
  <2>2. CASE q # r
    BY <1>2, <2>1, <2>2 DEF Has
  <2>3. CASE q = r
    BY <1>1, <1>3, <1>4, <1>5, <2>1, <2>3 DEF Has
  <2> QED  BY <2>2, <2>3
<1>9. ASSUME NEW q \in Runs, NEW b, NEW i, Has(q, b, i)' PROVE Dead(q, b, i)'
  <2>1. Dead(q, b, i)
    BY <1>8, <1>9 DEF SupersedeInv
  <2> QED  BY <1>0, <1>6, <2>1, StillDead
<1> QED  BY <1>7, <1>9 DEF SupersedeInv

(* A dead call stays dead for all runs. *)
LEMMA TreatsDead ==
    ASSUME NEW r \in Runs, Moving(r), Treats(r), NEW q \in Runs,
           q \in Line(r) \/ ~Kin(q, r), NEW b, NEW i, Dead(q, b, i)
    PROVE  Dead(q, b, i)'
<1>0. /\ batches \in Nat /\ batches' \in Nat /\ batches <= batches'
      /\ Live(r) /\ Live(r)' /\ Active(r)' /\ LoopInv'
      /\ \A p \in Runs \ {r} : ex'[p] = ex[p] /\ conv'[p] = conv[p]
  BY MovingFacts DEF Moving, Moves, Stays, Types
<1>1. /\ Free(q, b, i) /\ b \in 0..batches /\ b \in 0..batches'
      /\ \A p \in Runs : q \in Line(p) => Gone(p, b, i)
      /\ \A p \in Runs : Line(p)' = Line(p)
  BY <1>0, KinFacts DEF Dead
<1>2. ASSUME q \in Line(r)
      PROVE  /\ ~Open(ex[r].msgs, b, i)
             /\ ex[r].pc \in {"think", "save"} => ex[r].out.batch # b
  BY <1>0, <1>1, <1>2 DEF Gone
<1>3. Free(q, b, i)'
  BY <1>1, <1>2 DEF Treats
<1>7. ASSUME q \in Line(r) PROVE Gone(r, b, i)'
  <2>0. ~Open(ex'[r].msgs, b, i) /\ b # batches + 1
    BY <1>0, <1>1, <1>2, <1>7 DEF Treats
  <2>1. ex'[r].pc \in {"think", "save"} => ex'[r].out.batch # b
    BY <1>2, <1>7, <2>0 DEF Treats
  <2>2. ~Open(Saved(r)', b, i)
    BY <1>0, <2>0, InHandNext
  <2>3. ~Open(Saved(r), b, i)' /\ ~Open(ex[r].msgs, b, i)'
    BY <2>0, <2>2
  <2> QED  BY <2>1, <2>3 DEF Gone
<1>8. ASSUME NEW p \in Runs \ {r}, q \in Line(p) PROVE Gone(p, b, i)'
  <2>1. Gone(p, b, i)
    BY <1>1, <1>8
  <2>2. ex'[p] = ex[p] /\ Saved(p)' = Saved(p) /\ (Live(p)' <=> Live(p))
    BY <1>0 DEF Saved, Live, Active
  <2>3. ~Open(Saved(p), b, i)' /\ (Live(p) => ~Open(ex[p].msgs, b, i)')
    BY <2>1, <2>2 DEF Gone
  <2> QED  BY <2>1, <2>2, <2>3 DEF Gone
<1> QED  BY <1>1, <1>3, <1>7, <1>8 DEF Dead

(* Nothing is said by, or open in, the runs that go back to a run that is  *)
(* running.                                                                *)
LEMMA LaterGone ==
    ASSUME NEW r \in Runs, LoopInv, ChainInv, ProgressInv, ~Ended(r),
           run[r].status # "none", NEW q \in Runs \ {r}, r \in Line(q)
    PROVE  \A b, i : ~Has(q, b, i) /\ Gone(q, b, i)
<1>1. run[q].status = "none"
  BY Alone DEF Kin
<1> QED  BY <1>1, NotBegunGone

(* A step that treats its calls like this keeps the invariant. *)
LEMMA TreatsSupersede ==
    ASSUME NEW r \in Runs, Moving(r), SupersedeInv, Treats(r)
    PROVE  SupersedeInv'
<1>0. /\ LoopInv /\ LoopInv' /\ ChainInv /\ ChainInv' /\ ProgressInv
      /\ Types /\ Live(r) /\ Live(r)' /\ Active(r) /\ Active(r)' /\ run' = run
      /\ ~Ended(r) /\ run[r].status # "none"
      /\ \A p \in Runs \ {r} : ex'[p] = ex[p] /\ conv'[p] = conv[p]
  BY MovingFacts, ChainFacts DEF Moving, Moves, Stays, Ended
<1>1. \A p \in Runs \ {r} : /\ Saved(p)' = Saved(p)
                            /\ Live(p)' <=> Live(p)
                            /\ Holds(p)' <=> Holds(p)
  BY <1>0 DEF Saved, Live, Active, Holds
<1>2. ASSUME NEW q \in Runs \ {r}, NEW b, NEW i, Has(q, b, i)' PROVE Dead(q, b, i)'
  <2>1. \/ SupIn(Saved(q)', b, i)
        \/ Holds(q)' /\ SupIn(ex'[q].msgs, b, i)
    BY <1>2 DEF Has
  <2>2. Has(q, b, i)
    BY <1>0, <1>1, <2>1 DEF Has
  <2>3. Dead(q, b, i) /\ r \notin Line(q)
    BY <1>0, <2>2, LaterGone DEF SupersedeInv
  <2> QED  BY <2>3, TreatsDead DEF Kin
<1>3. ASSUME NEW b, NEW i, Has(r, b, i)' PROVE Dead(r, b, i)'
  <2>1. \/ SupIn(Saved(r)', b, i)
        \/ Holds(r)' /\ SupIn(ex'[r].msgs, b, i)
    BY <1>3 DEF Has
  <2>2. SupIn(ex'[r].msgs, b, i)
    BY <1>0, <2>1, InHandNext
  <2>3. CASE SupIn(ex[r].msgs, b, i)
    <3>1. Has(r, b, i) /\ r \in Line(r)
      BY <1>0, <2>3, LineFacts DEF Has, Holds
    <3> QED  BY <3>1, TreatsDead DEF SupersedeInv
  <2>4. CASE /\ Free(r, b, i)' /\ b \in 0..batches' /\ ~Open(ex'[r].msgs, b, i)
             /\ ex'[r].pc = "normalize"
    <3>1. ~Open(Saved(r)', b, i)
      BY <1>0, <2>4, InHandNext
    <3>2. ~Open(Saved(r), b, i)' /\ ~Open(ex[r].msgs, b, i)'
      BY <2>4, <3>1
    <3>3. Gone(r, b, i)'
      BY <2>4, <3>2 DEF Gone
    <3>4. ASSUME NEW p \in Runs, r \in Line(p) PROVE Gone(p, b, i)'
      <4>1. CASE p = r
        BY <3>3, <4>1 DEF Gone, Open, Saved, Live, Active
      <4>2. CASE p # r
        <5>1. run'[p].status = "none"
          BY <1>0, <3>4, <4>2, Alone DEF Kin
        <5>2. conv'[p] = NoConv /\ ~Active(p)'
          BY <1>0, <5>1 DEF ChainInv, LifeOK
        <5>3. Saved(p)' = <<>> /\ ~Live(p)'
          BY <5>2 DEF Saved, completedConversationMessages, NoConv, Live
        <5>4. ~Open(Saved(p), b, i)'
          BY <5>3, EmptySays
        <5> QED  BY <5>3, <5>4 DEF Gone
      <4> QED  BY <4>1, <4>2
    <3>5. \A p \in Runs : Line(p)' = Line(p)
      BY KinFacts
    <3> QED  BY <2>4, <3>4, <3>5 DEF Dead
  <2> QED  BY <2>2, <2>3, <2>4 DEF Treats
<1>4. ASSUME NEW q \in Runs PROVE TailOK(q)'
  <2>0. TailOK(q)
    BY DEF SupersedeInv
  <2>1. CASE q # r
    <3>1. \A b, i : SupIn(conv[q].msgs, b, i)' => SupIn(Saved(q), b, i)'
      BY <1>0, <1>1, <2>0, <2>1 DEF TailOK
    <3> QED  BY <1>0, <2>0, <2>1, <3>1 DEF TailOK
  <2>2. CASE q = r
    <3>1. ASSUME NEW b, NEW i, SupIn(conv'[r].msgs, b, i) PROVE SupIn(Saved(r)', b, i)
      <4>1. CASE conv'[r] = conv[r]
        <5>1. Saved(r)' = Saved(r)
          BY <4>1 DEF Saved
        <5> QED  BY <2>0, <2>2, <3>1, <4>1, <5>1 DEF TailOK
      <4>2. CASE ~conv'[r].streaming
        BY <3>1, <4>2 DEF Saved, completedConversationMessages
      <4>3. CASE StreamPartial(r)
        <5>1. /\ ex[r].msgs \in Seq(Messages)
              /\ Assistant(0, <<>>, "partial") \in Messages
              /\ conv'[r] = [msgs |-> Append(ex[r].msgs, Assistant(0, <<>>, "partial")),
                             streaming |-> TRUE]
          <6>1. ex[r].msgs \in Seq(Messages) /\ StreamPartialDoes(r) /\ DOMAIN conv = Runs
            BY <1>0, <4>3, StreamPartialEffect DEF Types, FieldsOK
          <6>2. conv'[r] = [msgs |-> Append(ex[r].msgs, Assistant(0, <<>>, "partial")),
                            streaming |-> TRUE]
            BY <6>1 DEF StreamPartialDoes
          <6>3. Assistant(0, <<>>, "partial") \in Messages
            BY DEF Messages, Assistant, Sayings
          <6> QED  BY <6>1, <6>2, <6>3
        <5>2. Saved(r)' = ex[r].msgs
          BY <5>1, FrontAppend DEF Saved, completedConversationMessages
        <5>3. SupIn(Append(ex[r].msgs, Assistant(0, <<>>, "partial")), b, i)
          BY <3>1, <5>1
        <5>4. SupIn(ex[r].msgs, b, i)
          BY <5>1, <5>3, SupAppend DEF Assistant
        <5> QED  BY <5>2, <5>4
      <4> QED  BY <4>1, <4>2, <4>3 DEF Treats
    <3>2. \A b, i : SupIn(conv[r].msgs, b, i)' => SupIn(Saved(r), b, i)'
      BY <3>1
    <3>3. ex'[r].pc \in {"think", "save"} => ex'[r].out.says # "superseded"
      BY DEF Treats
    <3>4. TailOK(r)'
      BY <3>2, <3>3 DEF TailOK
    <3> QED  BY <2>2, <3>4 DEF TailOK, SupIn, Saved
  <2> QED  BY <2>1, <2>2
<1>5. ASSUME NEW q \in Runs, NEW b, NEW i, Has(q, b, i)' PROVE Dead(q, b, i)'
  <2>1. CASE q = r
    <3>1. Has(r, b, i)'
      BY <1>5, <2>1 DEF Has, SupIn, Saved, Holds, Live, Active
    <3>2. Dead(r, b, i)'
      BY <1>3, <3>1
    <3> QED  BY <2>1, <3>2
  <2>2. CASE q # r
    BY <1>2, <1>5, <2>2
  <2> QED  BY <2>1, <2>2
<1> QED  BY <1>4, <1>5 DEF SupersedeInv

(* A step that saves the conversation does not stream it. *)
LEMMA SavesWhole ==
    ASSUME Types, NEW r \in Runs, NEW m, SavesTo(r, m)
    PROVE  ~conv'[r].streaming
BY DEF SavesTo, Types

(* A step that leaves the conversation in hand alone. *)
LEMMA KeptTreats ==
    ASSUME NEW r \in Runs, Moving(r), NoNew, ex'[r].msgs = ex[r].msgs,
           ex'[r].pc \notin {"think", "save"},
           conv'[r] = conv[r] \/ ~conv'[r].streaming \/ StreamPartial(r)
    PROVE  Treats(r)
<1>1. \A q \in Runs : \A b, i : Free(q, b, i) => Free(q, b, i)'
  BY StillFree
<1> QED  BY <1>1 DEF Treats

(* The steps of an executor that leave its conversation alone. *)
LEMMA QuietTreats ==
    ASSUME NEW r \in Runs, Moving(r), ReplayInv,
           \/ settleAmbiguousToolDispatch(r) \/ InheritDispatch(r)
           \/ CeilingReached(r) \/ RecoverAnswer(r) \/ EnterLoop(r) \/ StopCancelled(r)
           \/ GatePending(r) \/ ResumePending(r) \/ AwaitApproval(r) \/ ModelCallLimit(r)
           \/ CallModel(r) \/ StreamPartial(r) \/ ModelCallFails(r)
           \/ Dispatch(r) \/ FinalizeStep(r) \/ failedFromError(r) \/ CreateApproval(r)
    PROVE  Treats(r)
<1>0. Types /\ LoopInv
  BY MovingFacts DEF Moving
<1>k. ASSUME effects' = effects, ex'[r].msgs = ex[r].msgs,
             ex'[r].pc \notin {"think", "save", "dispatch"},
             conv' = conv \/ SavesTo(r, ex[r].msgs) \/ StreamPartial(r)
      PROVE  Treats(r)
  <2>1. NoNew
    BY <1>k, NoCommit
  <2>2. conv'[r] = conv[r] \/ ~conv'[r].streaming \/ StreamPartial(r)
    BY <1>0, <1>k, SavesWhole
  <2> QED  BY <1>k, <2>1, <2>2, KeptTreats
<1>1. CASE settleAmbiguousToolDispatch(r)
  BY <1>0, <1>1, <1>k, settleAmbiguousToolDispatchEffect
     DEF settleAmbiguousToolDispatchDoes
<1>2. CASE InheritDispatch(r)
  BY <1>0, <1>2, <1>k, InheritDispatchEffect DEF InheritDispatchDoes
<1>3. CASE CeilingReached(r)
  BY <1>0, <1>3, <1>k, CeilingReachedEffect DEF CeilingReachedDoes, WorkKept
<1>4. CASE RecoverAnswer(r)
  BY <1>0, <1>4, <1>k, RecoverAnswerEffect DEF RecoverAnswerDoes, WorkKept
<1>5. CASE EnterLoop(r)
  BY <1>0, <1>5, <1>k, EnterLoopEffect DEF EnterLoopDoes, WorkKept
<1>6. CASE StopCancelled(r)
  BY <1>0, <1>6, <1>k, StopCancelledEffect DEF StopCancelledDoes, WorkKept
<1>7. CASE GatePending(r)
  BY <1>0, <1>7, <1>k, GatePendingEffect DEF GatePendingDoes, WorkKept
<1>8. CASE ResumePending(r)
  BY <1>0, <1>8, <1>k, ResumePendingEffect DEF ResumePendingDoes, WorkKept
<1>9. CASE AwaitApproval(r)
  BY <1>0, <1>9, <1>k, AwaitApprovalEffect DEF AwaitApprovalDoes, WorkKept
<1>10. CASE ModelCallLimit(r)
  BY <1>0, <1>10, <1>k, ModelCallLimitEffect DEF ModelCallLimitDoes, WorkKept
<1>11. CASE CallModel(r)
  BY <1>0, <1>11, <1>k, CallModelEffect DEF CallModelDoes, WorkKept
<1>12. CASE StreamPartial(r)
  BY <1>0, <1>12, <1>k, StreamPartialEffect DEF StreamPartialDoes
<1>13. CASE ModelCallFails(r)
  BY <1>0, <1>13, <1>k, ModelCallFailsEffect DEF ModelCallFailsDoes, WorkKept
<1>14. CASE FinalizeStep(r)
  BY <1>0, <1>14, <1>k, FinalizeStepEffect DEF FinalizeStepDoes, WorkKept
<1>15. CASE failedFromError(r)
  BY <1>0, <1>15, <1>k, failedFromErrorEffect DEF failedFromErrorDoes, WorkKept
<1>16. CASE CreateApproval(r)
  BY <1>0, <1>16, <1>k DEF CreateApproval, At
<1>17. CASE Dispatch(r)
  <2>1. NoNew
    BY <1>0, <1>17, DispatchRan
  <2>2. ex'[r].msgs = ex[r].msgs /\ ex'[r].pc = "finalize" /\ conv' = conv
    BY <1>0, <1>17, DispatchEffect DEF DispatchDoes, WorkKept
  <2> QED  BY <2>1, <2>2, KeptTreats
<1> QED  BY <1>1, <1>2, <1>3, <1>4, <1>5, <1>6, <1>7, <1>8, <1>9, <1>10,
              <1>11, <1>12,
            <1>13, <1>14, <1>15, <1>16, <1>17

(* A new answer has a batch of its own. *)
LEMMA AnswerTreats ==
    ASSUME NEW r \in Runs, Moving(r), ReplayInv, SupersedeInv,
           ModelAnswers(r) \/ SaveModelStep(r)
    PROVE  Treats(r)
<1>0. Types /\ TailOK(r)
  BY MovingFacts DEF SupersedeInv
<1>1. /\ effects' = effects /\ ex'[r].msgs = ex[r].msgs /\ conv' = conv
      /\ ex'[r].pc \in {"think", "save"}
      /\ ex'[r].out.says # "superseded"
      /\ \/ ex[r].pc \in {"think", "save"} /\ ex'[r].out = ex[r].out
         \/ ex'[r].out.batch = batches + 1
  <2>1. CASE ModelAnswers(r)
    <3>1. /\ effects' = effects /\ ex'[r].msgs = ex[r].msgs /\ conv' = conv
          /\ ex'[r].pc = "think"
          /\ \E calls \in Seq(Kinds), says \in Sayings :
               /\ ex'[r].out = Assistant(batches + 1, calls, says)
               /\ says # "superseded"
      BY <1>0, <2>1, ModelAnswersEffect DEF ModelAnswersDoes, WorkKept
    <3>2. PICK calls, says : /\ ex'[r].out = Assistant(batches + 1, calls, says)
                             /\ says # "superseded"
      BY <3>1
    <3>3. ex'[r].out.says # "superseded" /\ ex'[r].out.batch = batches + 1
      BY <3>2 DEF Assistant
    <3> QED  BY <3>1, <3>3
  <2>2. CASE SaveModelStep(r)
    BY <1>0, <2>2, SaveModelStepEffect DEF SaveModelStepDoes, WorkKept, TailOK
  <2> QED  BY <2>1, <2>2
<1>2. \A q \in Runs : \A b, i : Free(q, b, i) => Free(q, b, i)'
  BY <1>1, NoCommit, StillFree
<1> QED  BY <1>1, <1>2 DEF Treats

(* SaveIntent commits to a call that is pending. *)
LEMMA IntentTreats ==
    ASSUME NEW r \in Runs, Moving(r), SaveIntent(r)
    PROVE  Treats(r)
<1>0. Types /\ LoopInv /\ Active(r) /\ WorkOK(r)
  BY MovingFacts DEF Moving
<1>1. /\ ex[r].pc = "intent" /\ ex'[r].pc = "dispatch" /\ ex'[r].msgs = ex[r].msgs
      /\ ex'[r].pending = ex[r].pending /\ conv' = conv /\ effects' = effects
      /\ \A q \in Runs \ {r} : ex'[q] = ex[q]
  BY <1>0, SaveIntentEffect DEF SaveIntentDoes, WorkKept, Frame
<1>2. Min(ex[r].pending) \in Pend(ex[r].msgs)
  BY <1>0, <1>1, FirstIs DEF WorkOK
<1>3. ASSUME NEW q \in Runs, NEW b, NEW i, Free(q, b, i),
             Kin(q, r) => ~Open(ex[r].msgs, b, i)
      PROVE  Free(q, b, i)'
  <2>1. ASSUME NEW p \in Runs, Kin(p, q), Committed(p, b, i)' PROVE FALSE
    <3>1. ~Ran(p, b, i)' /\ ~Committed(p, b, i)
      BY <1>1, <1>3, <2>1 DEF Free, Committed, Ran
    <3>2. CASE p # r
      BY <1>1, <2>1, <3>1, <3>2 DEF Committed, Dispatching, CurrentBatch
    <3>3. CASE p = r
      <4>1. CurrentBatch(r) = b /\ Min(ex[r].pending) = i /\ Kin(q, r)
        BY <1>1, <2>1, <3>1, <3>3, KinFacts
           DEF Committed, Dispatching, CurrentBatch
      <4> QED  BY <1>2, <1>3, <4>1 DEF Open, CurrentBatch, Bat
    <3> QED  BY <3>2, <3>3
  <2>2. \A p \in Runs : Kin(p, q)' => ~Committed(p, b, i)'
    BY <2>1, KinFacts
  <2> QED  BY <2>2 DEF Free
<1> QED  BY <1>1, <1>3 DEF Treats

(* A message that supersedes nothing is appended. *)
LEMMA AddsTreats ==
    ASSUME NEW r \in Runs, Moving(r), effects' = effects,
           ex'[r].pc \notin {"think", "save", "dispatch"},
           conv' = conv \/ SavesTo(r, ex'[r].msgs),
           NEW x \in Messages, ex'[r].msgs = Append(ex[r].msgs, x),
           x.says # "superseded",
           \A b, i : Open(ex'[r].msgs, b, i) =>
             Open(ex[r].msgs, b, i) \/ (ex[r].pc = "save" /\ b = ex[r].out.batch)
    PROVE  Treats(r)
<1>0. Types /\ ex[r].msgs \in Seq(Messages)
  BY MovingFacts DEF FieldsOK
<1>1. \A q \in Runs : \A b, i : Free(q, b, i) => Free(q, b, i)'
  BY NoCommit, StillFree
<1>2. \A b, i : SupIn(ex'[r].msgs, b, i) => SupIn(ex[r].msgs, b, i)
  BY <1>0, SupAppend
<1>3. conv'[r] = conv[r] \/ ~conv'[r].streaming
  BY <1>0, SavesWhole
<1> QED  BY <1>1, <1>2, <1>3 DEF Treats

(* A result, or an error for a call that was recovered. *)
LEMMA ResultTreats ==
    ASSUME NEW r \in Runs, Moving(r), NEW S, S # {}, S \subseteq ex[r].pending,
           NEW says \in Sayings \ {"superseded"}, effects' = effects,
           ex'[r].pc \notin {"think", "save", "dispatch"},
           ex'[r].msgs = Append(ex[r].msgs, ToolResult(CurrentBatch(r), Min(S), says)),
           conv' = conv \/ SavesTo(r, ex'[r].msgs)
    PROVE  Treats(r)
<1>0. LoopInv /\ Active(r) /\ WorkOK(r)
  BY MovingFacts DEF Moving
<1>1. PICK x, u : /\ x = ToolResult(CurrentBatch(r), Min(S), says)
                  /\ u = Append(ex[r].msgs, x)
  OBVIOUS
<1>2. /\ Min(S) \in Nat /\ Bat(u) = Bat(ex[r].msgs)
      /\ Pend(u) = ex[r].pending \ {Min(S)}
  BY <1>0, <1>1, FirstClosed
<1>3. CurrentBatch(r) \in Nat
  BY <1>0, BatchKnown
<1>4. x \in Messages /\ x.says # "superseded"
  BY <1>1, <1>2, <1>3 DEF ToolResult, Messages, Kinds
<1>5. \A b, i : Open(u, b, i) => Open(ex[r].msgs, b, i)
  BY <1>0, <1>2 DEF Open, WorkOK
<1>6. ex'[r].msgs = u
  BY <1>1
<1> QED  BY <1>1, <1>4, <1>5, <1>6, AddsTreats

(* The steps that append a result, a prompt or an answer. *)
LEMMA MessageTreats ==
    ASSUME NEW r \in Runs, Moving(r), SupersedeInv,
           \/ RecoverToolResult(r) \/ AppendDeferredContinuation(r)
           \/ SaveAssistant(r) \/ SaveToolResult(r)
    PROVE  Treats(r)
<1>0. Types /\ PhaseOK(r) /\ FieldsOK(r) /\ ex[r].msgs \in Seq(Messages) /\ TailOK(r)
  BY MovingFacts DEF SupersedeInv, FieldsOK
<1>1. CASE RecoverToolResult(r)
  <2>1. RecoverToolResultDoes(r)
    BY <1>0, <1>1, RecoverToolResultEffect
  <2>2. ex[r].matches # {} /\ ex[r].matches \subseteq ex[r].pending
    BY <1>0, <2>1 DEF RecoverToolResultDoes, PhaseOK
  <2>3. /\ ex'[r].msgs =
             Append(ex[r].msgs, ToolResult(CurrentBatch(r), Min(ex[r].matches), "unknown"))
        /\ ex'[r].pc \in {"normalize", "settle"} /\ effects' = effects
        /\ conv' = conv \/ SavesTo(r, ex'[r].msgs)
    BY <2>1 DEF RecoverToolResultDoes
  <2> QED  BY <2>2, <2>3, ResultTreats DEF Sayings
<1>2. CASE SaveToolResult(r)
  <2>1. SaveToolResultDoes(r)
    BY <1>0, <1>2, SaveToolResultEffect
  <2>2. ex[r].pending # {}
    BY <1>0, <2>1 DEF SaveToolResultDoes, PhaseOK
  <2>3. /\ ex'[r].msgs =
             Append(ex[r].msgs, ToolResult(CurrentBatch(r), Min(ex[r].pending), "result"))
        /\ ex'[r].pc \in {"loop", "intent"} /\ effects' = effects
        /\ SavesTo(r, ex'[r].msgs)
    BY <2>1 DEF SaveToolResultDoes
  <2> QED  BY <2>2, <2>3, ResultTreats DEF Sayings
<1>3. CASE AppendDeferredContinuation(r)
  <2>1. /\ ex'[r].msgs = Append(ex[r].msgs, Prompt) /\ ex'[r].pc = "normalize"
        /\ effects' = effects /\ SavesTo(r, ex'[r].msgs)
    BY <1>0, <1>3, AppendDeferredContinuationEffect
       DEF AppendDeferredContinuationDoes
  <2>2. Prompt \in Messages /\ Prompt.says # "superseded" /\ Prompt.role = "user"
    BY DEF Prompt, Messages, Sayings
  <2>3. \A b, i : ~Open(ex'[r].msgs, b, i)
    BY <1>0, <2>1, <2>2, AppendUser DEF Open
  <2> QED  BY <2>1, <2>2, <2>3, AddsTreats
<1>4. CASE SaveAssistant(r)
  <2>1. SaveAssistantDoes(r)
    BY <1>0, <1>4, SaveAssistantEffect
  <2>2. /\ ex[r].pc = "save" /\ ex'[r].msgs = Append(ex[r].msgs, ex[r].out)
        /\ effects' = effects /\ SavesTo(r, ex'[r].msgs)
        /\ ex'[r].pc \in {"fail", "return", "pause", "intent"}
    BY <2>1 DEF SaveAssistantDoes, AfterModelCall
  <2>3. /\ ex[r].out \in Messages /\ ex[r].out.role = "assistant"
        /\ ex[r].out.says # "superseded"
    BY <1>0, <2>2 DEF PhaseOK, FieldsOK, TailOK
  <2>4. \A b, i : Open(ex'[r].msgs, b, i) => b = ex[r].out.batch
    BY <1>0, <2>2, <2>3, AppendAnswer DEF Open
  <2> QED  BY <2>2, <2>3, <2>4, AddsTreats
<1> QED  BY <1>1, <1>2, <1>3, <1>4

(* A continuation supersedes only calls that never started. *)
LEMMA CloseTreats ==
    ASSUME NEW r \in Runs, Moving(r), ReplayInv, CloseSuperseded(r)
    PROVE  Treats(r)
<1>0. Types /\ LoopInv /\ Active(r) /\ WorkOK(r) /\ ex[r].msgs \in Seq(Messages)
      /\ batches \in Nat
  BY MovingFacts DEF Moving, FieldsOK, Types
<1>1. CloseSupersededDoes(r)
  BY <1>0, CloseSupersededEffect
<1>2. PICK c, k, x, u : /\ c = CurrentBatch(r) /\ k = Min(ex[r].pending)
                        /\ x = ToolResult(c, k, "superseded")
                        /\ u = Append(ex[r].msgs, x)
  OBVIOUS
<1>3. /\ ex[r].pc = "normalize" /\ ex'[r].pc = "normalize" /\ ex[r].pending # {}
      /\ ex'[r].msgs = u /\ effects' = effects /\ conv' = conv /\ batches' = batches
  BY <1>1, <1>2 DEF CloseSupersededDoes
<1>4. /\ k \in Nat /\ k \in ex[r].pending /\ Bat(u) = Bat(ex[r].msgs)
      /\ Pend(u) = ex[r].pending \ {k}
  BY <1>0, <1>2, <1>3, FirstClosed DEF Sayings
<1>5. c \in Nat /\ c <= batches
  BY <1>0, <1>2, <1>3, BatchKnown
<1>6. x \in Messages /\ x.batch = c /\ x.call = k
  BY <1>2, <1>4, <1>5 DEF ToolResult, Messages, Kinds, Sayings
<1>7. \A b, i : Open(u, b, i) => Open(ex[r].msgs, b, i)
  BY <1>0, <1>4 DEF Open, WorkOK
<1>8. \A q \in Runs : \A b, i : Free(q, b, i) => Free(q, b, i)'
  BY <1>3, NoCommit, StillFree
<1>9. Free(r, c, k)
  <2>1. Handled(r) = {}
    BY <1>3 DEF Handled, Dispatches
  <2> QED  BY <1>2, <1>4, <2>1, ReplayFacts
<1>10. ~Open(u, c, k)
  BY <1>4 DEF Open
<1>11. ASSUME NEW b, NEW i, SupIn(ex'[r].msgs, b, i)
       PROVE  \/ SupIn(ex[r].msgs, b, i)
              \/ /\ Free(r, b, i)' /\ b \in 0..batches' /\ ~Open(ex'[r].msgs, b, i)
                 /\ ex'[r].pc = "normalize"
  <2>1. SupIn(ex[r].msgs, b, i) \/ (b = c /\ i = k)
    BY <1>0, <1>2, <1>3, <1>6, <1>11, SupAppend
  <2>2. CASE b = c /\ i = k
    <3>1. Free(r, b, i)'
      BY <1>8, <1>9, <2>2
    <3> QED  BY <1>0, <1>3, <1>5, <1>10, <2>2, <3>1
  <2> QED  BY <2>1, <2>2
<1> QED  BY <1>3, <1>7, <1>8, <1>11 DEF Treats

(* Every step of an executor keeps it. *)
LEMMA ExecutorSupersede ==
    ASSUME LoopInv, ChainInv, LoopInv', ChainInv', ProgressInv, ReplayInv, SupersedeInv,
           NEW r \in Runs, Executor(r)
    PROVE  SupersedeInv'
<1>1. CASE ~Live(r)
  BY <1>1, CancelledSupersede
<1>2. CASE Live(r)
  <2>1. Moving(r)
    BY <1>2, ExecutorMoves DEF Moving
  <2>2. Treats(r)
    BY <2>1, QuietTreats, AnswerTreats, IntentTreats, MessageTreats, CloseTreats
       DEF Executor
  <2> QED  BY <2>1, <2>2, TreatsSupersede
<1> QED  BY <1>1, <1>2

(* What a claim takes over its source says. *)
LEMMA ClaimHas ==
    ASSUME LoopInv, ChainInv, LoopInv', ProgressInv, NEW r \in Runs, Claims(r),
           NEW q \in Runs, NEW b, NEW i, Has(q, b, i)'
    PROVE  \/ Has(q, b, i) /\ (q = r => conv[r] # NoConv)
           \/ q = r /\ Parent[r] \in Runs /\ Has(Parent[r], b, i)
<1>0. /\ Saved(q)' = Saved(q)
      /\ \A p \in Runs \ {r} : ex'[p] = ex[p]
  BY DEF Claims
<1>1. \/ SupIn(Saved(q), b, i)
      \/ Holds(q)' /\ SupIn(ex'[q].msgs, b, i)
  BY <1>0 DEF Has
<1>2. CASE q # r
  <2>1. Holds(q)' <=> Holds(q)
    BY <1>0, <1>2 DEF Holds, Live, Active
  <2>2. Has(q, b, i)
    BY <1>0, <1>1, <1>2, <2>1 DEF Has
  <2> QED  BY <1>2, <2>2
<1>3. CASE q = r
  <2>1. CASE SupIn(Saved(r), b, i)
    <3>1. conv[r] # NoConv
      BY <2>1, NoConvSaved, EmptySays
    <3> QED  BY <1>3, <2>1, <3>1 DEF Has
  <2>2. CASE SupIn(ex'[r].msgs, b, i) /\ ~SupIn(Saved(r), b, i)
    <3>1. Parent[r] \in Runs /\ SupIn(Saved(Parent[r]), b, i)
      <4>1. CASE OwnClaim(r)
        BY <2>2, <4>1 DEF OwnClaim
      <4>2. CASE SourceClaim(r)
        BY <2>2, <4>2 DEF SourceClaim, SrcPend, LoopInv, RetryOK
      <4>3. CASE FreshClaim(r)
        <5>1. PICK n \in DOMAIN ex'[r].msgs :
                /\ ex'[r].msgs[n].says = "superseded"
                /\ ex'[r].msgs[n].batch = b /\ ex'[r].msgs[n].call = i
          BY <2>2 DEF SupIn
        <5>2. Copied(r, ex'[r].msgs)
          BY <4>3 DEF FreshClaim
        <5>3. ex'[r].msgs[n] # Prompt
          BY <5>1 DEF Prompt
        <5> QED  BY <5>1, <5>2, <5>3 DEF Copied, SupIn
      <4> QED  BY <4>1, <4>2, <4>3 DEF Claims
    <3> QED  BY <1>3, <3>1 DEF Has
  <2> QED  BY <1>1, <1>3, <2>1, <2>2
<1> QED  BY <1>2, <1>3

(* A claim keeps it: what is pending in the conversation it takes over was *)
(* not superseded before.                                                  *)
LEMMA ClaimSupersede ==
    ASSUME LoopInv, ChainInv, LoopInv', ChainInv', ProgressInv, ReplayInv, SupersedeInv,
           NEW r \in Runs, Claims(r)
    PROVE  SupersedeInv'
<1>0. /\ batches' = batches /\ effects' = effects /\ batches \in Nat
      /\ \A q \in Runs : Saved(q)' = Saved(q)
      /\ \A q \in Runs \ {r} : ex'[q] = ex[q] /\ conv'[q] = conv[q]
      /\ conv'[r] = conv[r] \/ ~conv'[r].streaming
      /\ ex'[r].pc \in {"fail", "normalize", "settle", "inherit"}
      /\ Active(r)'
  BY DEF Claims, LoopInv, Types, Active
<1>1. NoNew
  <2>1. ASSUME NEW q \in Runs, NEW b, NEW i, Committed(q, b, i)' PROVE Committed(q, b, i)
    <3>1. Ran(q, b, i)' => Ran(q, b, i)
      BY <1>0 DEF Ran
    <3>2. Dispatching(q, b, i)' => Dispatching(q, b, i)
      BY <1>0 DEF Dispatching, CurrentBatch
    <3> QED  BY <2>1, <3>1, <3>2 DEF Committed
  <2> QED  BY <2>1 DEF NoNew
<1>2. ASSUME NEW q \in Runs PROVE TailOK(q)'
  <2>0. TailOK(q)
    BY DEF SupersedeInv
  <2>1. \A b, i : SupIn(conv[q].msgs, b, i)' => SupIn(Saved(q), b, i)'
    <3>1. CASE conv'[q] = conv[q]
      BY <1>0, <2>0, <3>1 DEF TailOK
    <3>2. CASE ~conv'[q].streaming
      BY <3>2 DEF Saved, completedConversationMessages
    <3> QED  BY <1>0, <3>1, <3>2
  <2>2. ex'[q].pc \in {"think", "save"} => ex'[q].out.says # "superseded"
    BY <1>0, <2>0 DEF TailOK
  <2> QED  BY <2>1, <2>2 DEF TailOK
<1>3. ASSUME NEW q \in Runs, NEW b, NEW i, Has(q, b, i)' PROVE Dead(q, b, i)'
  <2>0. PICK p \in Runs :
          /\ Has(p, b, i)
          /\ \/ p = q /\ (q = r => conv[r] # NoConv)
             \/ q = r /\ p = Parent[r]
    BY <1>3, ClaimHas
  <2>1. /\ p \in Line(q)
        /\ q = r => p = Parent[r] \/ conv[r] # NoConv
        /\ \A s \in Runs : q \in Line(s) => p \in Line(s)
        /\ \A s \in Runs : Kin(s, q) => Kin(s, p)
    BY <2>0, LineFacts DEF Kin
  <2>2. /\ Free(q, b, i) /\ b \in 0..batches
        /\ \A s \in Runs : p \in Line(s) => Gone(s, b, i)
    BY <2>0, <2>1 DEF SupersedeInv, Dead, Free
  <2>3. Free(q, b, i)'
    BY <1>1, <2>2, StillFree
  <2>4. ASSUME NEW s \in Runs, q \in Line(s) PROVE Gone(s, b, i)'
    <3>1. Gone(s, b, i)
      BY <2>1, <2>2, <2>4
    <3>2. ~Open(Saved(s), b, i)'
      BY <1>0, <3>1 DEF Gone
    <3>3. CASE s # r
      <4>1. ex'[s] = ex[s] /\ (Live(s)' <=> Live(s))
        BY <1>0, <3>3 DEF Live, Active
      <4>2. Live(s) => ~Open(ex[s].msgs, b, i)'
        BY <3>1, <4>1 DEF Gone
      <4> QED  BY <3>1, <3>2, <4>1, <4>2 DEF Gone
    <3>4. CASE s = r
      <4>1. ~Open(ex'[r].msgs, b, i)
        <5>1. CASE OwnClaim(r)
          BY <3>1, <3>4, <5>1 DEF OwnClaim, Gone
        <5>2. CASE SourceClaim(r)
          <6>0. Parent[r] \in Runs
            BY <5>2 DEF SourceClaim, SrcPend, LoopInv, RetryOK
          <6>1. p \in Line(Parent[r])
            <7>1. CASE q = r
              BY <2>1, <5>2, <6>0, <7>1, LineFacts DEF SourceClaim
            <7>2. CASE q # r
              BY <2>0, <2>4, <3>4, <6>0, <7>2, LineFacts
            <7> QED  BY <7>1, <7>2
          <6>2. Gone(Parent[r], b, i)
            BY <2>2, <6>0, <6>1
          <6> QED  BY <5>2, <6>2 DEF SourceClaim, Gone
        <5>3. CASE FreshClaim(r)
          <6>1. Pend(ex'[r].msgs) = {}
            BY <1>0, <5>3 DEF FreshClaim, LoopInv, RunOK, WorkOK
          <6> QED  BY <6>1 DEF Open
        <5> QED  BY <5>1, <5>2, <5>3 DEF Claims
      <4>2. ~Open(ex[s].msgs, b, i)'
        BY <3>4, <4>1
      <4>3. ex'[s].pc \notin {"think", "save"}
        BY <1>0, <3>4
      <4> QED  BY <3>2, <4>2, <4>3 DEF Gone
    <3> QED  BY <3>3, <3>4
  <2>5. \A s \in Runs : Line(s)' = Line(s)
    BY KinFacts
  <2> QED  BY <1>0, <2>2, <2>3, <2>4, <2>5 DEF Dead
<1> QED  BY <1>2, <1>3 DEF SupersedeInv

(* Every step keeps it. *)
LEMMA NextSupersede ==
    ASSUME LoopInv, ChainInv, LoopInv', ChainInv', ProgressInv, ReplayInv, SupersedeInv,
           [Next]_vars
    PROVE  SupersedeInv'
<1>1. CASE StoreMoves
  BY <1>1, StoreSupersede
<1>2. ASSUME NEW r \in Runs, Claims(r) PROVE SupersedeInv'
  BY <1>2, ClaimSupersede
<1>3. ASSUME NEW r \in Runs, Executor(r) PROVE SupersedeInv'
  BY <1>3, ExecutorSupersede
<1> QED  BY <1>1, <1>2, <1>3, NextSorted

(* The invariant rules out an effect of a superseded call. *)
LEMMA SupersedeImplies ==
    ASSUME Types, SupersedeInv
    PROVE  SupersededNeverRan
<1> SUFFICES ASSUME NEW r \in Runs, NEW n \in DOMAIN conv[r].msgs,
                    conv[r].msgs[n].says = "superseded", NEW e \in effects,
                    e.batch = conv[r].msgs[n].batch, e.call = conv[r].msgs[n].call,
                    Kin(e.run, r)
             PROVE  FALSE
  BY DEF SupersededNeverRan, Kin
<1>1. SupIn(conv[r].msgs, e.batch, e.call)
  BY DEF SupIn
<1>2. Has(r, e.batch, e.call)
  BY <1>1 DEF SupersedeInv, TailOK, Has
<1>3. Free(r, e.batch, e.call) /\ e.run \in Runs
  BY <1>2 DEF SupersedeInv, Dead, Types
<1>4. Ran(e.run, e.batch, e.call)
  BY DEF Ran
<1> QED  BY <1>3, <1>4 DEF Free, Committed

(* A call whose stored result says that it never started, because a        *)
(* continuation superseded it (CloseSuperseded, finished by                *)
(* AppendDeferredContinuation), has had no effect and never will, in any   *)
(* run of a line through the run that says so. The hypotheses are those of *)
(* ReplayTheorem.                                                          *)
THEOREM SupersededTheorem ==
    ASSUME ReplayWindow = FALSE, LateSignal = FALSE
    PROVE  Spec => []SupersededNeverRan
<1> DEFINE Inv == LoopInv /\ ChainInv /\ ProgressInv /\ ReplayInv /\ SupersedeInv
<1>1. Init => Inv
  BY InitLoop, InitChain, InitProgress, InitReplay, InitSupersede
<1>2. Inv /\ [Next]_vars => Inv'
  <2> SUFFICES ASSUME Inv, [Next]_vars PROVE Inv'
    OBVIOUS
  <2>1. LoopInv' /\ ChainInv'
    BY NextLoop, NextChain
  <2>2. ProgressInv' /\ ReplayInv'
    BY NextProgress, NextReplay
  <2>3. SupersedeInv'
    BY <2>1, NextSupersede
  <2> QED  BY <2>1, <2>2, <2>3
<1>3. Inv => SupersededNeverRan
  BY SupersedeImplies DEF LoopInv
<1> QED  BY <1>1, <1>2, <1>3, PTL DEF Spec

=============================================================================
