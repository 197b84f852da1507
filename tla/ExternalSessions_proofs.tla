---------------------- MODULE ExternalSessions_proofs ----------------------
(***************************************************************************)
(* Safety of the session manager of external agents, for any number of     *)
(* calls, adapter processes and lost native sessions.                      *)
(***************************************************************************)
EXTENDS ExternalSessions, FiniteSetTheorems, TLAPS

(* The native sessions an adapter can have: its own, the one of an earlier *)
(* run of the gateway, or none.                                            *)
Natives == Peers \cup {Old, None}

(* The steps that close a session. *)
ClosePcs == {"close", "kill", "drain"}

(* What a call does after it has closed sessions. *)
NextPcs == {"drop", "published", "abort", "installed", "aborted", "end"}

(* Where a call in progress can be. *)
Pcs == {"session", "shutdown", "take", "launch", "attach", "persist", "publish",
        "lock", "check", "turn", "prompt", "prompted", "relaunch", "reattach",
        "commit", "install", "retry", "waitStarts"} \cup ClosePcs \cup NextPcs

(* Calls in progress, and calls that have returned. *)
CallRecords ==
    [pc : Pcs, kind : Kinds, config : {1, 2}, previous : Natives,
     p : Peers \cup {None}, fresh : Peers \cup {None}, recovery : BOOLEAN,
     allow : BOOLEAN, todo : Seq(Peers), next : NextPcs \cup {"none"},
     waits : Calls \cup {None}, cancelled : BOOLEAN, stopped : BOOLEAN,
     failed : BOOLEAN]
Returned == [pc : {"done"}, kind : {"none", "failed", "shutdown"}]

(* The states of an adapter process and of its session. *)
PeerRecords ==
    [state : {"none", "live", "dead"}, native : Natives, config : {0, 1, 2},
     closing : BOOLEAN, turn : Calls \cup {None}, cut : BOOLEAN,
     lock : Calls \cup {None}]

(* The phases in which a call uses its session, and has started one that   *)
(* is not installed.                                                       *)
SessionPhases ==
    {"published", "lock", "check", "turn", "prompt", "prompted", "retry",
     "relaunch", "reattach", "commit", "install", "installed", "abort"}
FreshPhases == {"attach", "persist", "publish", "reattach", "commit", "install"}

(* A call is in a phase while it takes its steps, and while it closes      *)
(* sessions before it goes on with them.                                   *)
Is(r, phases) == r.pc \in phases \/ r.next \in phases

(* What the fields of a call in progress hold at each of its steps. *)
GoodCalls ==
    {r \in CallRecords :
        /\ r.pc \in ClosePcs <=> r.next # "none"
        /\ r.pc \in ClosePcs => r.todo # <<>>
        /\ r.todo # <<>> => r.pc \in ClosePcs \cup {"waitStarts"}
        /\ Is(r, SessionPhases) => r.p \in Peers
        /\ r.fresh \in Peers <=> r.pc \in FreshPhases
        /\ r.waits # None => r.pc \in {"session", "waitStarts"}
        /\ r.kind = "shutdown" => Is(r, {"shutdown", "waitStarts", "end"})
        /\ r.pc \in {"shutdown", "waitStarts"} => r.kind = "shutdown"}

(* A call that has not begun, has returned, or is in progress. *)
CallStates == {NoCall} \cup Returned \cup GoodCalls

(* The types, with the shape of calls. *)
Shape ==
    /\ processScoped \in BOOLEAN
    /\ config \in {1, 2}
    /\ durable \in Natives
    /\ retired \subseteq Peers
    /\ lost \subseteq Peers \cup {Old}
    /\ succeeded \in BOOLEAN
    /\ installed \in Peers \cup {None}
    /\ start \in Calls \cup {None}
    /\ closed \in BOOLEAN
    /\ peer \in [Peers -> PeerRecords]
    /\ call \in [Calls -> CallStates]

(* The reserved start is that of the one call in a phase that owns one. *)
StartPhases ==
    {"launch", "attach", "persist", "publish", "drop", "relaunch", "reattach",
     "commit", "install", "installed", "abort"}

StartReserved ==
    \A c \in Calls :
        start = c <=> InProgress(c) /\ Phase(c) \in StartPhases

-----------------------------------------------------------------------------
(* The model starts in shape. *)
LEMMA ShapeInit == Init => Shape
<1> SUFFICES ASSUME Init PROVE Shape  OBVIOUS
<1>1. NoPeer \in PeerRecords
  BY DEF NoPeer, PeerRecords, Natives
<1>2. peer \in [Peers -> PeerRecords] /\ call \in [Calls -> CallStates]
  BY <1>1 DEF Init, CallStates
<1> QED  BY <1>2 DEF Init, Shape, Natives

(* A call in progress has the fields of one. *)
LEMMA Progress ==
    ASSUME Shape, NEW c \in Calls
    PROVE  /\ InProgress(c) => call[c] \in GoodCalls
           /\ call[c] \in GoodCalls => InProgress(c)
BY DEF Shape, CallStates, InProgress, NoCall, Returned, GoodCalls,
   CallRecords, Pcs, ClosePcs, NextPcs

(* How a call in progress ends. *)
LEMMA EndedReturned ==
    ASSUME Shape, NEW c \in Calls, InProgress(c)
    PROVE  Ended(c) \in Returned /\ CallEnded \in Returned
BY Progress DEF Ended, CallEnded, Returned

(* How many adapters have been launched. *)
LEMMA CountLaunched ==
    Cardinality({q \in Peers : peer[q].state # "none"}) \in Nat
<1>1. IsFiniteSet(Peers)
  BY FS_Interval, SessionsAssumption DEF Peers
<1>2. IsFiniteSet({q \in Peers : peer[q].state # "none"})
  BY <1>1, FS_Subset
<1> QED  BY <1>2, FS_CardinalityType

(* Closing sessions and then going on. *)
LEMMA Closing ==
    ASSUME NEW c \in Calls, call[c] \in CallRecords, NEW s \in Seq(Peers),
           NEW next \in NextPcs
    PROVE  /\ CloseThen(c, s, next) \in CallRecords
           /\ CloseThen(c, s, next).todo = s
           /\ s = <<>> =>
                CloseThen(c, s, next).pc = next
                  /\ CloseThen(c, s, next).next = "none"
           /\ s # <<>> =>
                CloseThen(c, s, next).pc = "close"
                  /\ CloseThen(c, s, next).next = next
           /\ CloseThen(c, s, next).failed = call[c].failed
           /\ CloseThen(c, s, next).kind = call[c].kind
           /\ CloseThen(c, s, next).p = call[c].p
           /\ CloseThen(c, s, next).fresh = call[c].fresh
           /\ CloseThen(c, s, next).waits = call[c].waits
<1> DEFINE r == call[c]
<1>1. CASE s = <<>>
  <2>1. CloseThen(c, s, next) =
          [r EXCEPT !.pc = next, !.todo = s, !.next = "none"]
    BY <1>1 DEF CloseThen
  <2>2. next \in Pcs /\ "none" \in NextPcs \cup {"none"}
    BY DEF Pcs
  <2> HIDE DEF r
  <2>3. r \in CallRecords
    BY DEF r
  <2>4. CloseThen(c, s, next) \in CallRecords
    BY <2>1, <2>2, <2>3 DEF CallRecords
  <2> QED  BY <1>1, <2>1, <2>3, <2>4 DEF CallRecords, r
<1>2. CASE s # <<>>
  <2>1. CloseThen(c, s, next) =
          [r EXCEPT !.pc = "close", !.todo = s, !.next = next]
    BY <1>2 DEF CloseThen
  <2>2. "close" \in Pcs /\ next \in NextPcs \cup {"none"}
    BY DEF Pcs, ClosePcs
  <2> HIDE DEF r
  <2>3. r \in CallRecords
    BY DEF r
  <2>4. CloseThen(c, s, next) \in CallRecords
    BY <2>1, <2>2, <2>3 DEF CallRecords
  <2> QED  BY <1>2, <2>1, <2>3, <2>4 DEF CallRecords, r
<1> QED  BY <1>1, <1>2

(* Updates of a call's record that keep its shape. *)
LEMMA Updates ==
    ASSUME NEW r \in GoodCalls
    PROVE  /\ [r EXCEPT !.waits = None] \in GoodCalls
           /\ [r EXCEPT !.stopped = TRUE] \in GoodCalls
           /\ [r EXCEPT !.cancelled = TRUE] \in GoodCalls
<1>1. r \in CallRecords
  BY DEF GoodCalls
<1>3. [r EXCEPT !.waits = None] \in GoodCalls
  <2> DEFINE u == [r EXCEPT !.waits = None]
  <2>1. u \in CallRecords
    BY <1>1 DEF CallRecords, ClosePcs
  <2>2. /\ u.pc = r.pc
        /\ u.next = r.next
        /\ u.todo = r.todo
        /\ u.p = r.p
        /\ u.fresh = r.fresh
        /\ u.waits = None
        /\ u.kind = r.kind
    BY <1>1 DEF CallRecords
  <2> HIDE DEF u
  <2>3. u \in GoodCalls
    BY <1>1, <2>1, <2>2 DEF GoodCalls, Is, ClosePcs
  <2> QED  BY <2>3 DEF u
<1>4. [r EXCEPT !.stopped = TRUE] \in GoodCalls
  <2> DEFINE u == [r EXCEPT !.stopped = TRUE]
  <2>1. u \in CallRecords
    BY <1>1 DEF CallRecords, ClosePcs
  <2>2. /\ u.pc = r.pc
        /\ u.next = r.next
        /\ u.todo = r.todo
        /\ u.p = r.p
        /\ u.fresh = r.fresh
        /\ u.waits = r.waits
        /\ u.kind = r.kind
    BY <1>1 DEF CallRecords
  <2> HIDE DEF u
  <2>3. u \in GoodCalls
    BY <1>1, <2>1, <2>2 DEF GoodCalls, Is, ClosePcs
  <2> QED  BY <2>3 DEF u
<1>5. [r EXCEPT !.cancelled = TRUE] \in GoodCalls
  <2> DEFINE u == [r EXCEPT !.cancelled = TRUE]
  <2>1. u \in CallRecords
    BY <1>1 DEF CallRecords, ClosePcs
  <2>2. /\ u.pc = r.pc
        /\ u.next = r.next
        /\ u.todo = r.todo
        /\ u.p = r.p
        /\ u.fresh = r.fresh
        /\ u.waits = r.waits
        /\ u.kind = r.kind
    BY <1>1 DEF CallRecords
  <2> HIDE DEF u
  <2>3. u \in GoodCalls
    BY <1>1, <2>1, <2>2 DEF GoodCalls, Is, ClosePcs
  <2> QED  BY <2>3 DEF u
<1> QED  BY <1>3, <1>4, <1>5

(* A call that looks for a session uses one, starts one or waits. *)
LEMMA SessionUpdates ==
    ASSUME NEW r \in GoodCalls, r.pc = "session"
    PROVE  /\ (r.waits = None) => [r EXCEPT !.pc = "launch"] \in GoodCalls
           /\ \A q \in Peers : (r.waits = None) =>
                [r EXCEPT !.pc = "lock", !.p = q, !.recovery = FALSE]
                  \in GoodCalls
           /\ \A d \in Calls : [r EXCEPT !.waits = d] \in GoodCalls
<1>1. r \in CallRecords
  BY DEF GoodCalls
<1>2. r.next = "none" /\ r.todo = <<>> /\ r.fresh \notin Peers
        /\ r.kind # "shutdown"
  BY DEF GoodCalls, ClosePcs, FreshPhases, Is
<1>3. ASSUME r.waits = None
      PROVE  [r EXCEPT !.pc = "launch"] \in GoodCalls
  <2> DEFINE u == [r EXCEPT !.pc = "launch"]
  <2>1. u \in CallRecords
    BY <1>1 DEF CallRecords, Pcs, ClosePcs
  <2>2. /\ u.pc = "launch"
        /\ u.next = r.next
        /\ u.todo = r.todo
        /\ u.p = r.p
        /\ u.fresh = r.fresh
        /\ u.waits = r.waits
        /\ u.kind = r.kind
    BY <1>1 DEF CallRecords
  <2> HIDE DEF u
  <2>3. u \in GoodCalls
    BY <1>3, <1>1, <1>2, <2>1, <2>2 DEF GoodCalls, Is, ClosePcs, FreshPhases,
       SessionPhases
  <2> QED  BY <2>3 DEF u
<1>4. ASSUME NEW q \in Peers, r.waits = None
      PROVE  [r EXCEPT !.pc = "lock", !.p = q, !.recovery = FALSE] \in GoodCalls
  <2> DEFINE u == [r EXCEPT !.pc = "lock", !.p = q, !.recovery = FALSE]
  <2>1. u \in CallRecords
    BY <1>1 DEF CallRecords, Pcs, ClosePcs
  <2>2. /\ u.pc = "lock"
        /\ u.next = r.next
        /\ u.todo = r.todo
        /\ u.p = q
        /\ u.fresh = r.fresh
        /\ u.waits = r.waits
        /\ u.kind = r.kind
    BY <1>1 DEF CallRecords
  <2> HIDE DEF u
  <2>3. u \in GoodCalls
    BY <1>4, <1>1, <1>2, <2>1, <2>2 DEF GoodCalls, ClosePcs, FreshPhases
  <2> QED  BY <2>3 DEF u
<1>5. ASSUME NEW d \in Calls
      PROVE  [r EXCEPT !.waits = d] \in GoodCalls
  <2> DEFINE u == [r EXCEPT !.waits = d]
  <2>1. u \in CallRecords
    BY <1>1 DEF CallRecords, ClosePcs
  <2>2. /\ u.pc = r.pc
        /\ u.next = r.next
        /\ u.todo = r.todo
        /\ u.p = r.p
        /\ u.fresh = r.fresh
        /\ u.waits = d
        /\ u.kind = r.kind
    BY <1>1 DEF CallRecords
  <2> HIDE DEF u
  <2>3. u \in GoodCalls
    BY <1>5, <1>1, <1>2, <2>1, <2>2 DEF GoodCalls, Is, ClosePcs
  <2> QED  BY <2>3 DEF u
<1> QED  BY <1>3, <1>4, <1>5

(* A call that has launched an adapter. *)
LEMMA LaunchUpdates ==
    ASSUME NEW r \in GoodCalls, NEW q \in Peers
    PROVE  /\ (r.pc = "launch") =>
                [r EXCEPT !.pc = "attach", !.fresh = q] \in GoodCalls
           /\ (r.pc = "relaunch") =>
                [r EXCEPT !.pc = "reattach", !.fresh = q] \in GoodCalls
<1>1. r \in CallRecords
  BY DEF GoodCalls
<1>3. ASSUME r.pc = "launch"
      PROVE  [r EXCEPT !.pc = "attach", !.fresh = q] \in GoodCalls
  <2> DEFINE u == [r EXCEPT !.pc = "attach", !.fresh = q]
  <2>1. u \in CallRecords
    BY <1>1 DEF CallRecords, Pcs, ClosePcs
  <2>2. /\ u.pc = "attach"
        /\ u.next = r.next
        /\ u.todo = r.todo
        /\ u.p = r.p
        /\ u.fresh = q
        /\ u.waits = r.waits
        /\ u.kind = r.kind
    BY <1>1 DEF CallRecords
  <2> HIDE DEF u
  <2>3. u \in GoodCalls
    BY <1>3, <1>1, <2>1, <2>2 DEF GoodCalls, Is, ClosePcs, FreshPhases,
       SessionPhases
  <2> QED  BY <2>3 DEF u
<1>4. ASSUME r.pc = "relaunch"
      PROVE  [r EXCEPT !.pc = "reattach", !.fresh = q] \in GoodCalls
  <2> DEFINE u == [r EXCEPT !.pc = "reattach", !.fresh = q]
  <2>1. u \in CallRecords
    BY <1>1 DEF CallRecords, Pcs, ClosePcs
  <2>2. /\ u.pc = "reattach"
        /\ u.next = r.next
        /\ u.todo = r.todo
        /\ u.p = r.p
        /\ u.fresh = q
        /\ u.waits = r.waits
        /\ u.kind = r.kind
    BY <1>1 DEF CallRecords
  <2> HIDE DEF u
  <2>3. u \in GoodCalls
    BY <1>4, <1>1, <2>1, <2>2 DEF GoodCalls, Is, ClosePcs, FreshPhases,
       SessionPhases
  <2> QED  BY <2>3 DEF u
<1> QED  BY <1>3, <1>4

(* Shutdown that waits for starts. *)
LEMMA ShutdownUpdate ==
    ASSUME NEW r \in GoodCalls, r.pc = "shutdown",
           NEW d \in Calls \cup {None}, NEW s \in Seq(Peers)
    PROVE  /\ [r EXCEPT !.pc = "waitStarts", !.waits = d, !.todo = s]
                \in GoodCalls
<1>1. r \in CallRecords
  BY DEF GoodCalls
<1>3. [r EXCEPT !.pc = "waitStarts", !.waits = d, !.todo = s] \in GoodCalls
  <2> DEFINE u == [r EXCEPT !.pc = "waitStarts", !.waits = d, !.todo = s]
  <2>1. u \in CallRecords
    BY <1>1 DEF CallRecords, Pcs, ClosePcs
  <2>2. /\ u.pc = "waitStarts"
        /\ u.next = r.next
        /\ u.todo = s
        /\ u.p = r.p
        /\ u.fresh = r.fresh
        /\ u.waits = d
        /\ u.kind = r.kind
    BY <1>1 DEF CallRecords
  <2> HIDE DEF u
  <2>3. u \in GoodCalls
    BY <1>1, <2>1, <2>2 DEF GoodCalls, Is, ClosePcs, FreshPhases,
       SessionPhases
  <2> QED  BY <2>3 DEF u
<1> QED  BY <1>3

(* Steps of the shutdown of a session. *)
LEMMA ClosingSteps ==
    ASSUME NEW r \in GoodCalls, r.pc \in ClosePcs
    PROVE  /\ [r EXCEPT !.pc = "kill"] \in GoodCalls
           /\ [r EXCEPT !.pc = "drain"] \in GoodCalls
<1>1. r \in CallRecords
  BY DEF GoodCalls
<1>3. [r EXCEPT !.pc = "kill"] \in GoodCalls
  <2> DEFINE u == [r EXCEPT !.pc = "kill"]
  <2>1. u \in CallRecords
    BY <1>1 DEF CallRecords, Pcs, ClosePcs
  <2>2. /\ u.pc = "kill"
        /\ u.next = r.next
        /\ u.todo = r.todo
        /\ u.p = r.p
        /\ u.fresh = r.fresh
        /\ u.waits = r.waits
        /\ u.kind = r.kind
    BY <1>1 DEF CallRecords
  <2> HIDE DEF u
  <2>3. u \in GoodCalls
    BY <1>1, <2>1, <2>2 DEF GoodCalls, Is, ClosePcs, FreshPhases,
       SessionPhases
  <2> QED  BY <2>3 DEF u
<1>4. [r EXCEPT !.pc = "drain"] \in GoodCalls
  <2> DEFINE u == [r EXCEPT !.pc = "drain"]
  <2>1. u \in CallRecords
    BY <1>1 DEF CallRecords, Pcs, ClosePcs
  <2>2. /\ u.pc = "drain"
        /\ u.next = r.next
        /\ u.todo = r.todo
        /\ u.p = r.p
        /\ u.fresh = r.fresh
        /\ u.waits = r.waits
        /\ u.kind = r.kind
    BY <1>1 DEF CallRecords
  <2> HIDE DEF u
  <2>3. u \in GoodCalls
    BY <1>1, <2>1, <2>2 DEF GoodCalls, Is, ClosePcs, FreshPhases,
       SessionPhases
  <2> QED  BY <2>3 DEF u
<1> QED  BY <1>3, <1>4

(* A call that closes sessions and then goes on. *)
LEMMA CloseUpdates ==
    ASSUME NEW v \in CallRecords, NEW b \in BOOLEAN,
           \/ v.next = "none" /\ v.todo = <<>> /\ v.pc \in NextPcs
           \/ v.pc = "close" /\ v.todo # <<>> /\ v.next \in NextPcs,
           v.kind = "shutdown" => Is(v, {"end"})
    PROVE  /\ \A q \in Peers : (v.waits = None) =>
                [v EXCEPT !.p = q, !.fresh = None] \in GoodCalls
           /\ (v.waits = None /\ (Is(v, SessionPhases) => v.p \in Peers)) =>
                [v EXCEPT !.fresh = None] \in GoodCalls
           /\ (v.fresh \notin Peers /\ (Is(v, SessionPhases) => v.p \in Peers)) =>
                [v EXCEPT !.waits = None, !.failed = b] \in GoodCalls
           /\ (/\ v.waits = None /\ v.fresh \notin Peers
               /\ Is(v, SessionPhases) => v.p \in Peers) =>
                [v EXCEPT !.failed = b] \in GoodCalls
<1>1. v \in CallRecords
  OBVIOUS
<1>2. None \notin Peers
  BY SessionsAssumption
<1>3. ASSUME NEW q \in Peers, v.waits = None
      PROVE  [v EXCEPT !.p = q, !.fresh = None] \in GoodCalls
  <2> DEFINE u == [v EXCEPT !.p = q, !.fresh = None]
  <2>1. u \in CallRecords
    BY <1>1 DEF CallRecords, ClosePcs
  <2>2. /\ u.pc = v.pc
        /\ u.next = v.next
        /\ u.todo = v.todo
        /\ u.p = q
        /\ u.fresh = None
        /\ u.waits = v.waits
        /\ u.kind = v.kind
    BY <1>1 DEF CallRecords
  <2> HIDE DEF u
  <2>3. u \in GoodCalls
    BY <1>3, <1>1, <1>2, <2>1, <2>2 DEF GoodCalls, Is, ClosePcs, NextPcs,
       FreshPhases
  <2> QED  BY <2>3 DEF u
<1>4. ASSUME v.waits = None /\ (Is(v, SessionPhases) => v.p \in Peers)
      PROVE  [v EXCEPT !.fresh = None] \in GoodCalls
  <2> DEFINE u == [v EXCEPT !.fresh = None]
  <2>1. u \in CallRecords
    BY <1>1 DEF CallRecords, ClosePcs
  <2>2. /\ u.pc = v.pc
        /\ u.next = v.next
        /\ u.todo = v.todo
        /\ u.p = v.p
        /\ u.fresh = None
        /\ u.waits = v.waits
        /\ u.kind = v.kind
    BY <1>1 DEF CallRecords
  <2> HIDE DEF u
  <2>3. u \in GoodCalls
    BY <1>4, <1>1, <1>2, <2>1, <2>2 DEF GoodCalls, Is, ClosePcs, NextPcs,
       FreshPhases
  <2> QED  BY <2>3 DEF u
<1>5. ASSUME v.fresh \notin Peers /\ (Is(v, SessionPhases) => v.p \in Peers)
      PROVE  [v EXCEPT !.waits = None, !.failed = b] \in GoodCalls
  <2> DEFINE u == [v EXCEPT !.waits = None, !.failed = b]
  <2>1. u \in CallRecords
    BY <1>1 DEF CallRecords, ClosePcs
  <2>2. /\ u.pc = v.pc
        /\ u.next = v.next
        /\ u.todo = v.todo
        /\ u.p = v.p
        /\ u.fresh = v.fresh
        /\ u.waits = None
        /\ u.kind = v.kind
    BY <1>1 DEF CallRecords
  <2> HIDE DEF u
  <2>3. u \in GoodCalls
    BY <1>5, <1>1, <1>2, <2>1, <2>2 DEF GoodCalls, Is, ClosePcs, NextPcs,
       FreshPhases
  <2> QED  BY <2>3 DEF u
<1>6. ASSUME v.waits = None /\ v.fresh \notin Peers
               /\ (Is(v, SessionPhases) => v.p \in Peers)
      PROVE  [v EXCEPT !.failed = b] \in GoodCalls
  <2> DEFINE u == [v EXCEPT !.failed = b]
  <2>1. u \in CallRecords
    BY <1>1 DEF CallRecords, ClosePcs
  <2>2. /\ u.pc = v.pc
        /\ u.next = v.next
        /\ u.todo = v.todo
        /\ u.p = v.p
        /\ u.fresh = v.fresh
        /\ u.waits = v.waits
        /\ u.kind = v.kind
    BY <1>1 DEF CallRecords
  <2> HIDE DEF u
  <2>3. u \in GoodCalls
    BY <1>6, <1>1, <1>2, <2>1, <2>2 DEF GoodCalls, Is, ClosePcs, NextPcs,
       FreshPhases
  <2> QED  BY <2>3 DEF u
<1> QED  BY <1>3, <1>4, <1>5, <1>6

(* Updates of an adapter session. *)
LEMMA PeerUpdates ==
    ASSUME NEW r \in PeerRecords
    PROVE  /\ \A k \in {1, 2} :
                [r EXCEPT !.state = "live", !.config = k] \in PeerRecords
           /\ \A b \in BOOLEAN :
                [r EXCEPT !.closing = TRUE, !.cut = b] \in PeerRecords
           /\ [r EXCEPT !.state = "dead"] \in PeerRecords
           /\ [r EXCEPT !.turn = None, !.lock = None, !.cut = FALSE]
                \in PeerRecords
<1>1. ASSUME NEW k \in {1, 2}
      PROVE  [r EXCEPT !.state = "live", !.config = k] \in PeerRecords
  BY DEF PeerRecords
<1>2. ASSUME NEW b \in BOOLEAN
      PROVE  [r EXCEPT !.closing = TRUE, !.cut = b] \in PeerRecords
  BY DEF PeerRecords
<1>3. [r EXCEPT !.turn = None, !.lock = None, !.cut = FALSE] \in PeerRecords
  BY DEF PeerRecords
<1>4. [r EXCEPT !.state = "dead"] \in PeerRecords
  BY DEF PeerRecords
<1> QED  BY <1>1, <1>2, <1>3, <1>4

(* So a call that closes sessions keeps its shape. *)
LEMMA ClosingGood ==
    ASSUME NEW c \in Calls, call[c] \in GoodCalls, NEW s \in Seq(Peers),
           NEW next \in NextPcs, NEW b \in BOOLEAN,
           call[c].kind = "shutdown" => next = "end"
    PROVE  /\ call[c].waits = None => \A q \in Peers :
                [CloseThen(c, s, next) EXCEPT !.p = q, !.fresh = None]
                  \in GoodCalls
           /\ (next \in SessionPhases => call[c].p \in Peers) =>
                /\ call[c].waits = None =>
                     [CloseThen(c, s, next) EXCEPT !.fresh = None] \in GoodCalls
                /\ call[c].fresh \notin Peers =>
                     [CloseThen(c, s, next) EXCEPT !.waits = None, !.failed = b]
                        \in GoodCalls
                /\ call[c].fresh \notin Peers /\ call[c].waits = None =>
                     /\ CloseThen(c, s, next) \in GoodCalls
                     /\ [CloseThen(c, s, next) EXCEPT !.failed = b] \in GoodCalls
<1> DEFINE v == CloseThen(c, s, next)
<1>1. call[c] \in CallRecords
  BY DEF GoodCalls
<1>2. /\ v \in CallRecords
      /\ \/ v.next = "none" /\ v.todo = <<>> /\ v.pc \in NextPcs
         \/ v.pc = "close" /\ v.todo # <<>> /\ v.next \in NextPcs
      /\ v.kind = call[c].kind /\ v.p = call[c].p /\ v.fresh = call[c].fresh
      /\ v.waits = call[c].waits
      /\ \A S \in SUBSET NextPcs : Is(v, S) <=> next \in S
      /\ v.failed = call[c].failed
  BY <1>1, Closing DEF Is, NextPcs
<1>3. Is(v, SessionPhases) <=> next \in SessionPhases
  BY <1>1, Closing DEF Is, SessionPhases
<1>4. v.kind = "shutdown" => Is(v, {"end"})
  BY <1>2
<1> HIDE DEF v
<1>5. [v EXCEPT !.failed = v.failed] = v
  BY <1>2 DEF CallRecords
<1>6. v.failed \in BOOLEAN
  BY <1>2 DEF CallRecords
<1>7. /\ call[c].waits = None =>
           \A q \in Peers : [v EXCEPT !.p = q, !.fresh = None] \in GoodCalls
      /\ (next \in SessionPhases => call[c].p \in Peers) =>
           /\ call[c].waits = None => [v EXCEPT !.fresh = None] \in GoodCalls
           /\ call[c].fresh \notin Peers =>
                [v EXCEPT !.waits = None, !.failed = b] \in GoodCalls
           /\ call[c].fresh \notin Peers /\ call[c].waits = None =>
                [v EXCEPT !.failed = b] \in GoodCalls
  BY <1>2, <1>3, <1>4, CloseUpdates
<1>8. (next \in SessionPhases => call[c].p \in Peers)
        /\ call[c].fresh \notin Peers /\ call[c].waits = None =>
             [v EXCEPT !.failed = v.failed] \in GoodCalls
  BY <1>2, <1>3, <1>4, <1>6, CloseUpdates
<1> QED  BY <1>5, <1>7, <1>8 DEF v

(* A call in progress that moves on, and drops or keeps its new session. *)
LEMMA SteppedCall ==
    ASSUME NEW r \in GoodCalls
    PROVE  /\ r.pc = "attach" =>
                [r EXCEPT !.pc = "drop", !.fresh = None] \in GoodCalls
           /\ r.pc = "reattach" =>
                [r EXCEPT !.pc = "abort", !.fresh = None] \in GoodCalls
           /\ r.pc \in {"turn", "retry"} =>
                \A b \in BOOLEAN :
                   [r EXCEPT !.allow = b, !.pc = "prompt"] \in GoodCalls
           /\ r.pc = "prompted" =>
                [r EXCEPT !.pc = "relaunch", !.stopped = FALSE] \in GoodCalls
<1> USE DEF CallRecords
<1>0. r \in CallRecords
  BY DEF GoodCalls
<1>1. ASSUME r.pc = "attach"
      PROVE  [r EXCEPT !.pc = "drop", !.fresh = None] \in GoodCalls
  <2> DEFINE m == [r EXCEPT !.pc = "drop", !.fresh = None]
  <2>1. m \in CallRecords
    BY <1>0 DEF Pcs, NextPcs, ClosePcs
  <2>2. /\ m.pc = "drop" /\ m.fresh = None /\ m.next = r.next /\ m.todo = r.todo
        /\ m.p = r.p /\ m.waits = r.waits /\ m.kind = r.kind
    BY <1>0
  <2> HIDE DEF m, CallRecords
  <2>3. m \in GoodCalls
    BY <1>1, <2>1, <2>2, SessionsAssumption DEF GoodCalls, Is, ClosePcs,
       SessionPhases, FreshPhases
  <2> QED  BY <2>3 DEF m
<1>2. ASSUME r.pc = "reattach"
      PROVE  [r EXCEPT !.pc = "abort", !.fresh = None] \in GoodCalls
  <2> DEFINE m == [r EXCEPT !.pc = "abort", !.fresh = None]
  <2>1. m \in CallRecords
    BY <1>0 DEF Pcs, NextPcs, ClosePcs
  <2>2. /\ m.pc = "abort" /\ m.fresh = None /\ m.next = r.next /\ m.todo = r.todo
        /\ m.p = r.p /\ m.waits = r.waits /\ m.kind = r.kind
    BY <1>0
  <2> HIDE DEF m, CallRecords
  <2>3. m \in GoodCalls
    BY <1>2, <2>1, <2>2, SessionsAssumption DEF GoodCalls, Is, ClosePcs,
       SessionPhases, FreshPhases
  <2> QED  BY <2>3 DEF m
<1>3. ASSUME r.pc \in {"turn", "retry"}, NEW b \in BOOLEAN
      PROVE  [r EXCEPT !.allow = b, !.pc = "prompt"] \in GoodCalls
  <2> DEFINE m == [r EXCEPT !.allow = b, !.pc = "prompt"]
  <2>1. m \in CallRecords
    BY <1>0 DEF Pcs, ClosePcs
  <2>2. /\ m.pc = "prompt" /\ m.fresh = r.fresh /\ m.next = r.next
        /\ m.todo = r.todo /\ m.p = r.p /\ m.waits = r.waits /\ m.kind = r.kind
    BY <1>0
  <2> HIDE DEF m, CallRecords
  <2>3. m \in GoodCalls
    BY <1>3, <2>1, <2>2 DEF GoodCalls, Is, ClosePcs, SessionPhases, FreshPhases
  <2> QED  BY <2>3 DEF m
<1>4. ASSUME r.pc = "prompted"
      PROVE  [r EXCEPT !.pc = "relaunch", !.stopped = FALSE] \in GoodCalls
  <2> DEFINE m == [r EXCEPT !.pc = "relaunch", !.stopped = FALSE]
  <2>1. m \in CallRecords
    BY <1>0 DEF Pcs, ClosePcs
  <2>2. /\ m.pc = "relaunch" /\ m.fresh = r.fresh /\ m.next = r.next
        /\ m.todo = r.todo /\ m.p = r.p /\ m.waits = r.waits /\ m.kind = r.kind
    BY <1>0
  <2> HIDE DEF m, CallRecords
  <2>3. m \in GoodCalls
    BY <1>4, <2>1, <2>2 DEF GoodCalls, Is, ClosePcs, SessionPhases, FreshPhases
  <2> QED  BY <2>3 DEF m
<1> HIDE DEF CallRecords
<1> QED  BY <1>1, <1>2, <1>3, <1>4

(* Every step keeps the shape of calls and sessions. *)
LEMMA ShapeKept ==
    ASSUME Shape, StartReserved, [Next]_vars
    PROVE  Shape'
<1>1. ASSUME NEW c \in Calls, NEW kind \in KindsOf[c], Begin(c, kind)
      PROVE  Shape'
  <2>1. call'[c] \in GoodCalls
    <3> DEFINE r == [pc |-> CASE kind \in {"run", "prepare"} -> "session"
                              [] kind = "shutdown" -> "shutdown"
                              [] OTHER -> "take",
          kind |-> kind, config |-> config, previous |-> durable,
          p |-> None, fresh |-> None, recovery |-> FALSE,
          allow |-> ~succeeded, todo |-> <<>>, next |-> "none",
          waits |-> None, cancelled |-> FALSE, stopped |-> FALSE,
          failed |-> FALSE]
    <3>1. call'[c] = r
      BY <1>1 DEF Begin, Shape
    <3>2. kind \in Kinds
      BY SessionsAssumption
    <3>3. r.pc \in {"session", "shutdown", "take"}
            /\ (kind = "shutdown" <=> r.pc = "shutdown")
      BY <3>2 DEF Kinds
    <3>4. <<>> \in Seq(Peers) /\ r.pc \in Pcs
      BY <3>3 DEF Pcs
    <3>5. r \in CallRecords
      BY <3>2, <3>4 DEF CallRecords, Shape
    <3> QED
      BY <3>1, <3>3, <3>5, SessionsAssumption DEF GoodCalls, Is, ClosePcs,
         SessionPhases, FreshPhases
  <2>4. call' \in [Calls -> CallStates]
    BY <1>1, <2>1 DEF Begin, Shape, CallStates
  <2>5. peer' \in [Peers -> PeerRecords]
    BY <1>1 DEF Begin, Shape, Natives, PeerRecords
  <2> QED  BY <1>1, <2>4, <2>5 DEF Begin, Shape, Natives, chat, manager
<1>2. ASSUME NEW c \in Calls, CancelContext(c)
      PROVE  Shape'
  <2>1. InProgress(c) /\ call[c] \in GoodCalls
    BY <1>2, Progress DEF CancelContext, InProgress
  <2>2. Ended(c) \in Returned /\ CallEnded \in Returned
    BY <2>1, EndedReturned
  <2>3. call'[c] \in GoodCalls \cup Returned
    BY <1>2, <2>1, Updates DEF CancelContext, Shape
  <2>4. call' \in [Calls -> CallStates]
    BY <1>2, <2>3 DEF CancelContext, Shape, CallStates
  <2>5. peer' \in [Peers -> PeerRecords]
    BY <1>2, <2>1 DEF CancelContext, Shape, Natives, GoodCalls, CallRecords,
       ClosePcs, PeerRecords
  <2> QED  BY <1>2, <2>4, <2>5, <2>1 DEF CancelContext, Shape, Natives, chat,
     manager, GoodCalls, CallRecords, ClosePcs
<1>3. ASSUME NEW c \in Calls, Session(c)
      PROVE  Shape'
  <2>1. InProgress(c) /\ call[c] \in GoodCalls
    BY <1>3, Progress DEF Session, At, InProgress
  <2>2. Ended(c) \in Returned /\ CallEnded \in Returned
    BY <2>1, EndedReturned
  <2>3. call'[c] \in GoodCalls \cup Returned
    <3>1. CASE closed
      BY <1>3, <3>1, <2>2 DEF Session, Finish, Shape
    <3>2. CASE ~closed /\ Serves(c)
      <4>1. installed \in Peers
        BY <3>2 DEF Serves, Shape
      <4>2. [call[c] EXCEPT !.pc = "lock", !.p = installed, !.recovery = FALSE]
              \in GoodCalls
        BY <1>3, <2>1, <4>1, SessionUpdates DEF Session, At
      <4> QED  BY <1>3, <3>2, <2>2, <4>2 DEF Session, Shape
    <3>3. CASE ~closed /\ ~Serves(c) /\ start # None
      <4>1. [call[c] EXCEPT !.waits = start] \in GoodCalls
        BY <1>3, <2>1, <3>3, SessionUpdates DEF Session, At, Shape
      <4> QED  BY <1>3, <3>3, <4>1 DEF Session, Shape
    <3>4. CASE ~closed /\ ~Serves(c) /\ start = None
      <4>1. [call[c] EXCEPT !.pc = "launch"] \in GoodCalls
        BY <1>3, <2>1, SessionUpdates DEF Session, At
      <4> QED  BY <1>3, <3>4, <4>1 DEF Session, To, Shape
    <3> QED  BY <3>1, <3>2, <3>3, <3>4
  <2>4. call' \in [Calls -> CallStates]
    BY <1>3, <2>3 DEF Session, Finish, To, Shape, CallStates
  <2>5. peer' \in [Peers -> PeerRecords]
    BY <1>3, <2>1 DEF Session, Finish, To, Shape, Natives, GoodCalls,
       CallRecords, ClosePcs, PeerRecords
  <2> QED  BY <1>3, <2>4, <2>5, <2>1 DEF Session, Finish, To, Shape, Natives,
     chat, manager, GoodCalls, CallRecords, ClosePcs
<1>4. ASSUME NEW c \in Calls, StopWaiting(c)
      PROVE  Shape'
  <2>1. InProgress(c) /\ call[c] \in GoodCalls
    BY <1>4, Progress DEF StopWaiting, At, InProgress
  <2>2. Ended(c) \in Returned /\ CallEnded \in Returned
    BY <2>1, EndedReturned
  <2>3. call'[c] \in GoodCalls \cup Returned
    BY <1>4, <2>1, <2>2 DEF StopWaiting, Finish, Shape, GoodCalls,
       CallRecords, ClosePcs
  <2>4. call' \in [Calls -> CallStates]
    BY <1>4, <2>3 DEF StopWaiting, Finish, Shape, CallStates
  <2>5. peer' \in [Peers -> PeerRecords]
    BY <1>4, <2>1 DEF StopWaiting, Finish, Shape, Natives, GoodCalls,
       CallRecords, ClosePcs, PeerRecords
  <2> QED  BY <1>4, <2>4, <2>5, <2>1 DEF StopWaiting, Finish, Shape, Natives,
     chat, manager, GoodCalls, CallRecords, ClosePcs
<1>5. ASSUME NEW c \in Calls, Launch(c)
      PROVE  Shape'
  <2>1. InProgress(c) /\ call[c] \in GoodCalls
    BY <1>5, Progress DEF Launch, InProgress
  <2>2. Ended(c) \in Returned /\ CallEnded \in Returned
    BY <2>1, EndedReturned
  <2>3. call'[c] \in GoodCalls \cup Returned
    <3> DEFINE q == Cardinality({r \in Peers : peer[r].state # "none"}) + 1
    <3>1. q \in Peers
      BY <1>5, CountLaunched DEF Launch, Peers
    <3>2. CASE At(c, "launch")
      <4>1. [call[c] EXCEPT !.pc = "attach", !.fresh = q] \in GoodCalls
        BY <2>1, <3>1, <3>2, LaunchUpdates DEF At
      <4> QED  BY <1>5, <3>2, <4>1 DEF Launch, At, Shape
    <3>3. CASE At(c, "relaunch")
      <4>1. [call[c] EXCEPT !.pc = "reattach", !.fresh = q] \in GoodCalls
        BY <2>1, <3>1, <3>3, LaunchUpdates DEF At
      <4> QED  BY <1>5, <3>3, <4>1 DEF Launch, At, Shape
    <3> QED  BY <1>5, <3>2, <3>3 DEF Launch, At
  <2>4. call' \in [Calls -> CallStates]
    BY <1>5, <2>3 DEF Launch, Shape, CallStates
  <2>5. peer' \in [Peers -> PeerRecords]
    BY <1>5, <2>1, PeerUpdates DEF Launch, Shape, Natives, GoodCalls,
       CallRecords, ClosePcs
  <2> QED  BY <1>5, <2>4, <2>5, <2>1 DEF Launch, Shape, Natives, chat,
     manager, GoodCalls, CallRecords, ClosePcs
<1>6. ASSUME NEW c \in Calls, LaunchFails(c)
      PROVE  Shape'
  <2>1. InProgress(c) /\ call[c] \in GoodCalls
    BY <1>6, Progress DEF LaunchFails, At, InProgress
  <2>2. Ended(c) \in Returned /\ CallEnded \in Returned
    BY <2>1, EndedReturned
  <2>3. call'[c] \in GoodCalls \cup Returned
    BY <1>6, <2>1, <2>2 DEF LaunchFails, At, To, Shape, GoodCalls,
       CallRecords, Is, Pcs, ClosePcs, NextPcs, SessionPhases, FreshPhases
  <2>4. call' \in [Calls -> CallStates]
    BY <1>6, <2>3 DEF LaunchFails, To, Shape, CallStates
  <2>5. peer' \in [Peers -> PeerRecords]
    BY <1>6, <2>1 DEF LaunchFails, To, Shape, Natives, GoodCalls, CallRecords,
       ClosePcs, PeerRecords
  <2> QED  BY <1>6, <2>4, <2>5, <2>1 DEF LaunchFails, To, Shape, Natives,
     chat, manager, GoodCalls, CallRecords, ClosePcs
<1>7. ASSUME NEW c \in Calls, Attach(c)
      PROVE  Shape'
  <2>1. InProgress(c) /\ call[c] \in GoodCalls
    BY <1>7, Progress DEF Attach, InProgress
  <2>2. Ended(c) \in Returned /\ CallEnded \in Returned
    BY <2>1, EndedReturned
  <2>a. \/ \E pc \in {"publish", "commit"} :
             /\ call'[c] = [call[c] EXCEPT !.pc = pc]
             /\ pc = "commit" => call[c].pc = "reattach"
        \/ call'[c] = [call[c] EXCEPT !.pc = "persist", !.recovery = TRUE]
    BY <1>7 DEF Attach, At, To, Shape
  <2>3. call'[c] \in GoodCalls \cup Returned
    <3> USE DEF GoodCalls, CallRecords, Is, Pcs, ClosePcs, SessionPhases,
                FreshPhases
    <3>1. call[c].pc \in {"attach", "reattach"}
      BY <1>7 DEF Attach
    <3>2. ASSUME NEW pc \in {"publish", "commit"},
                 call'[c] = [call[c] EXCEPT !.pc = pc],
                 pc = "commit" => call[c].pc = "reattach"
          PROVE  call'[c] \in GoodCalls
      BY <2>1, <3>1, <3>2
    <3>3. ASSUME call'[c] = [call[c] EXCEPT !.pc = "persist", !.recovery = TRUE]
          PROVE  call'[c] \in GoodCalls
      BY <2>1, <3>1, <3>3
    <3> QED  BY <2>a, <3>2, <3>3
  <2>4. call' \in [Calls -> CallStates]
    BY <1>7, <2>3 DEF Attach, To, Shape, CallStates
  <2>5. peer' \in [Peers -> PeerRecords]
    BY <1>7, <2>1 DEF Attach, To, Shape, Natives, GoodCalls, CallRecords,
       ClosePcs, PeerRecords
  <2> QED  BY <1>7, <2>4, <2>5, <2>1 DEF Attach, To, Shape, Natives, chat,
     manager, GoodCalls, CallRecords, ClosePcs
<1>8. ASSUME NEW c \in Calls, AttachFails(c)
      PROVE  Shape'
  <2>1. InProgress(c) /\ call[c] \in GoodCalls
    BY <1>8, Progress DEF AttachFails, InProgress
  <2>2. Ended(c) \in Returned /\ CallEnded \in Returned
    BY <2>1, EndedReturned
  <2>a. /\ call[c].pc = "attach" =>
              call'[c] = [call[c] EXCEPT !.pc = "drop", !.fresh = None]
        /\ call[c].pc = "reattach" =>
              call'[c] = [call[c] EXCEPT !.pc = "abort", !.fresh = None]
        /\ call[c].pc \in {"attach", "reattach"}
    BY <1>8 DEF AttachFails, Shape
  <2>3. call'[c] \in GoodCalls \cup Returned
    <3>1. CASE call[c].pc = "attach"
      BY <2>1, <2>a, <3>1, SteppedCall, SessionsAssumption DEF Pcs
    <3>2. CASE call[c].pc = "reattach"
      BY <2>1, <2>a, <3>2, SteppedCall, SessionsAssumption DEF Pcs
    <3> QED  BY <2>a, <3>1, <3>2
  <2>4. call' \in [Calls -> CallStates]
    BY <1>8, <2>3 DEF AttachFails, Shape, CallStates
  <2>5. peer' \in [Peers -> PeerRecords]
    BY <1>8, <2>1 DEF AttachFails, Shape, Natives, GoodCalls, CallRecords,
       ClosePcs, FreshPhases, PeerRecords
  <2> QED  BY <1>8, <2>4, <2>5, <2>1 DEF AttachFails, Shape, Natives, chat,
     manager, GoodCalls, CallRecords, ClosePcs
<1>9. ASSUME NEW c \in Calls, PersistRecovery(c)
      PROVE  Shape'
  <2>1. InProgress(c) /\ call[c] \in GoodCalls
    BY <1>9, Progress DEF PersistRecovery, At, InProgress
  <2>2. Ended(c) \in Returned /\ CallEnded \in Returned
    BY <2>1, EndedReturned
  <2>7. call[c].waits = None /\ call[c].kind # "shutdown"
    BY <1>9, <2>1 DEF PersistRecovery, At, GoodCalls, Is, ClosePcs,
       CallRecords
  <2>6. <<call[c].fresh>> \in Seq(Peers)
    BY <1>9, <2>1 DEF PersistRecovery, At, Shape, GoodCalls, FreshPhases
  <2>8. [CloseThen(c, <<call[c].fresh>>, "drop") EXCEPT !.fresh = None]
          \in GoodCalls
    BY <2>1, <2>6, <2>7, ClosingGood DEF NextPcs, SessionPhases
  <2>3. call'[c] \in GoodCalls \cup Returned
    <3>1. CASE call' = [call EXCEPT ![c].pc = "publish"]
      BY <1>9, <3>1, <2>1 DEF PersistRecovery, At, Shape, GoodCalls,
         CallRecords, Is, Pcs, ClosePcs, SessionPhases, FreshPhases
    <3> QED  BY <1>9, <3>1, <2>8 DEF PersistRecovery, To, Shape
  <2>4. call' \in [Calls -> CallStates]
    BY <1>9, <2>3 DEF PersistRecovery, To, ReplaceNativeSession, Shape,
       CallStates
  <2>5. peer' \in [Peers -> PeerRecords]
    BY <1>9, <2>1 DEF PersistRecovery, To, ReplaceNativeSession, Shape,
       Natives, GoodCalls, CallRecords, ClosePcs, PeerRecords
  <2> QED  BY <1>9, <2>4, <2>5, <2>1 DEF PersistRecovery, To,
     ReplaceNativeSession, Shape, Natives, chat, manager, GoodCalls,
     CallRecords, ClosePcs
<1>10. ASSUME NEW c \in Calls, Drop(c)
      PROVE  Shape'
  <2>1. InProgress(c) /\ call[c] \in GoodCalls
    BY <1>10, Progress DEF Drop, At, InProgress
  <2>2. Ended(c) \in Returned /\ CallEnded \in Returned
    BY <2>1, EndedReturned
  <2>3. call'[c] \in GoodCalls \cup Returned
    BY <1>10, <2>1, <2>2 DEF Drop, Woken, Shape, CallEnded, GoodCalls,
       CallRecords, ClosePcs
  <2>4. call' \in [Calls -> CallStates]
    BY <1>10, <2>3, Updates, Progress DEF Drop, Woken, Shape, CallStates
  <2>5. peer' \in [Peers -> PeerRecords]
    BY <1>10, <2>1 DEF Drop, Shape, Natives, GoodCalls, CallRecords, ClosePcs,
       PeerRecords
  <2> QED  BY <1>10, <2>4, <2>5, <2>1 DEF Drop, Shape, Natives, chat, manager,
     GoodCalls, CallRecords, ClosePcs
<1>11. ASSUME NEW c \in Calls, Publish(c)
      PROVE  Shape'
  <2>1. InProgress(c) /\ call[c] \in GoodCalls
    BY <1>11, Progress DEF Publish, At, InProgress
  <2>2. Ended(c) \in Returned /\ CallEnded \in Returned
    BY <2>1, EndedReturned
  <2>7. call[c].waits = None /\ call[c].kind # "shutdown"
    BY <1>11, <2>1 DEF Publish, At, GoodCalls, Is, ClosePcs, CallRecords
  <2>6. /\ <<call[c].fresh>> \in Seq(Peers)
        /\ (IF installed = None THEN <<>> ELSE <<installed>>) \in Seq(Peers)
        /\ call[c].fresh \in Peers
    BY <1>11, <2>1 DEF Publish, At, Shape, GoodCalls, FreshPhases
  <2>8. [CloseThen(c, <<call[c].fresh>>, "drop") EXCEPT !.fresh = None]
          \in GoodCalls
    BY <2>1, <2>6, <2>7, ClosingGood DEF NextPcs, SessionPhases
  <2>9. [CloseThen(c, IF installed = None THEN <<>> ELSE <<installed>>,
                   "published")
           EXCEPT !.p = call[c].fresh, !.fresh = None] \in GoodCalls
    BY <2>1, <2>6, <2>7, ClosingGood DEF NextPcs
  <2>3. call'[c] \in GoodCalls \cup Returned
    BY <1>11, <2>1, <2>8, <2>9 DEF Publish, Shape
  <2>4. call' \in [Calls -> CallStates]
    BY <1>11, <2>3 DEF Publish, Shape, CallStates
  <2>5. peer' \in [Peers -> PeerRecords]
    BY <1>11, <2>1 DEF Publish, Shape, Natives, GoodCalls, CallRecords,
       ClosePcs, PeerRecords
  <2> QED  BY <1>11, <2>4, <2>5, <2>1 DEF Publish, Shape, Natives, chat,
     manager, GoodCalls, CallRecords, ClosePcs
<1>12. ASSUME NEW c \in Calls, Published(c)
      PROVE  Shape'
  <2>1. InProgress(c) /\ call[c] \in GoodCalls
    BY <1>12, Progress DEF Published, At, InProgress
  <2>2. Ended(c) \in Returned /\ CallEnded \in Returned
    BY <2>1, EndedReturned
  <2>3. call'[c] \in GoodCalls \cup Returned
    BY <1>12, <2>1, <2>2 DEF Published, At, Woken, Shape, CallEnded,
       GoodCalls, CallRecords, Is, Pcs, ClosePcs, SessionPhases, FreshPhases
  <2>4. call' \in [Calls -> CallStates]
    BY <1>12, <2>3, Updates, Progress DEF Published, Woken, Shape, CallStates
  <2>5. peer' \in [Peers -> PeerRecords]
    BY <1>12, <2>1 DEF Published, Shape, Natives, PeerRecords, GoodCalls,
       PeerRecords
  <2> QED  BY <1>12, <2>4, <2>5, <2>1 DEF Published, At, Shape, Natives, chat,
     manager, PeerRecords, GoodCalls, Is, SessionPhases
<1>13. ASSUME NEW c \in Calls, TurnLock(c)
      PROVE  Shape'
  <2>1. InProgress(c) /\ call[c] \in GoodCalls
    BY <1>13, Progress DEF TurnLock, At, InProgress
  <2>2. Ended(c) \in Returned /\ CallEnded \in Returned
    BY <2>1, EndedReturned
  <2>3. call'[c] \in GoodCalls \cup Returned
    BY <1>13, <2>1, <2>2 DEF TurnLock, At, To, Shape, GoodCalls, CallRecords,
       Is, Pcs, ClosePcs, SessionPhases, FreshPhases
  <2>4. call' \in [Calls -> CallStates]
    BY <1>13, <2>3 DEF TurnLock, To, Shape, CallStates
  <2>5. peer' \in [Peers -> PeerRecords]
    BY <1>13, <2>1 DEF TurnLock, At, To, Shape, Natives, GoodCalls,
       CallRecords, Is, ClosePcs, SessionPhases, PeerRecords
  <2> QED  BY <1>13, <2>4, <2>5, <2>1 DEF TurnLock, To, Shape, Natives, chat,
     manager, GoodCalls, CallRecords, ClosePcs
<1>14. ASSUME NEW c \in Calls, CheckCurrent(c)
      PROVE  Shape'
  <2>1. InProgress(c) /\ call[c] \in GoodCalls
    BY <1>14, Progress DEF CheckCurrent, At, InProgress
  <2>2. Ended(c) \in Returned /\ CallEnded \in Returned
    BY <2>1, EndedReturned
  <2>3. call'[c] \in GoodCalls \cup Returned
    BY <1>14, <2>1, <2>2 DEF CheckCurrent, At, To, Finish, Unlocked, Shape,
       GoodCalls, CallRecords, Is, Pcs, ClosePcs, SessionPhases, FreshPhases
  <2>4. call' \in [Calls -> CallStates]
    BY <1>14, <2>3 DEF CheckCurrent, To, Finish, Unlocked, Shape, CallStates
  <2>5. peer' \in [Peers -> PeerRecords]
    BY <1>14, <2>1 DEF CheckCurrent, At, To, Finish, Unlocked, Shape, Natives,
       GoodCalls, CallRecords, ClosePcs, PeerRecords
  <2> QED  BY <1>14, <2>4, <2>5, <2>1 DEF CheckCurrent, To, Finish, Unlocked,
     Shape, Natives, chat, manager, GoodCalls, CallRecords, ClosePcs
<1>15. ASSUME NEW c \in Calls, BeginTurn(c)
      PROVE  Shape'
  <2>1. InProgress(c) /\ call[c] \in GoodCalls
    BY <1>15, Progress DEF BeginTurn, InProgress
  <2>2. Ended(c) \in Returned /\ CallEnded \in Returned
    BY <2>1, EndedReturned
  <2>a. \/ /\ call[c].pc \in {"turn", "retry"}
           /\ \E b \in BOOLEAN :
                call'[c] = [call[c] EXCEPT !.allow = b, !.pc = "prompt"]
        \/ call'[c] = Ended(c) \/ call'[c] = CallEnded
    <3>1. (call[c].allow /\ At(c, "turn")) \in BOOLEAN
      OBVIOUS
    <3> QED  BY <1>15, <3>1 DEF BeginTurn, Finish, Shape
  <2>3. call'[c] \in GoodCalls \cup Returned
    BY <2>1, <2>2, <2>a, SteppedCall
  <2>4. call' \in [Calls -> CallStates]
    BY <1>15, <2>3 DEF BeginTurn, Unlocked, Finish, Shape, CallStates
  <2>5. peer' \in [Peers -> PeerRecords]
    BY <1>15, <2>1 DEF BeginTurn, Unlocked, Finish, Shape, Natives, GoodCalls,
       CallRecords, ClosePcs, PeerRecords
  <2> QED  BY <1>15, <2>4, <2>5, <2>1 DEF BeginTurn, Unlocked, Finish, Shape,
     Natives, chat, manager, GoodCalls, CallRecords, ClosePcs
<1>16. ASSUME NEW c \in Calls, Prompt(c)
      PROVE  Shape'
  <2>1. InProgress(c) /\ call[c] \in GoodCalls
    BY <1>16, Progress DEF Prompt, At, InProgress
  <2>2. Ended(c) \in Returned /\ CallEnded \in Returned
    BY <2>1, EndedReturned
  <2>3. call'[c] \in GoodCalls \cup Returned
    BY <1>16, <2>1, <2>2 DEF Prompt, At, To, Shape, GoodCalls, CallRecords,
       Is, Pcs, ClosePcs, SessionPhases, FreshPhases
  <2>4. call' \in [Calls -> CallStates]
    BY <1>16, <2>3 DEF Prompt, To, Shape, CallStates
  <2>5. peer' \in [Peers -> PeerRecords]
    BY <1>16, <2>1 DEF Prompt, To, Shape, Natives, GoodCalls, CallRecords,
       ClosePcs, PeerRecords
  <2> QED  BY <1>16, <2>4, <2>5, <2>1 DEF Prompt, To, Shape, Natives, chat,
     manager, GoodCalls, CallRecords, ClosePcs
<1>17. ASSUME NEW c \in Calls, NEW success \in BOOLEAN, EndTurn(c, success)
      PROVE  Shape'
  <2>1. InProgress(c) /\ call[c] \in GoodCalls
    BY <1>17, Progress DEF EndTurn, At, InProgress
  <2>2. Ended(c) \in Returned /\ CallEnded \in Returned
    BY <2>1, EndedReturned
  <2>3. call'[c] \in GoodCalls \cup Returned
    BY <1>17, <2>1, <2>2 DEF EndTurn, Finish, Shape, GoodCalls, CallRecords,
       ClosePcs
  <2>4. call' \in [Calls -> CallStates]
    BY <1>17, <2>3 DEF EndTurn, Finish, Shape, CallStates
  <2>5. peer' \in [Peers -> PeerRecords]
    BY <1>17, <2>1, PeerUpdates DEF EndTurn, Finish, Shape, Natives,
       GoodCalls, CallRecords, ClosePcs
  <2> QED  BY <1>17, <2>4, <2>5, <2>1 DEF EndTurn, Finish, Shape, Natives,
     chat, manager, GoodCalls, CallRecords, ClosePcs
<1>18. ASSUME NEW c \in Calls, Reserve(c)
      PROVE  Shape'
  <2>1. InProgress(c) /\ call[c] \in GoodCalls
    BY <1>18, Progress DEF Reserve, At, InProgress
  <2>2. Ended(c) \in Returned /\ CallEnded \in Returned
    BY <2>1, EndedReturned
  <2>a. /\ call[c].pc = "prompted"
        /\ \/ call'[c] = [call[c] EXCEPT !.pc = "relaunch", !.stopped = FALSE]
           \/ call'[c] = Ended(c)
    BY <1>18 DEF Reserve, At, Finish, Shape
  <2>3. call'[c] \in GoodCalls \cup Returned
    BY <2>1, <2>2, <2>a, SteppedCall
  <2>4. call' \in [Calls -> CallStates]
    BY <1>18, <2>3 DEF Reserve, Finish, Shape, CallStates
  <2>5. peer' \in [Peers -> PeerRecords]
    BY <1>18, <2>1, PeerUpdates DEF Reserve, Finish, Shape, Natives
  <2> QED  BY <1>18, <2>4, <2>5, <2>1 DEF Reserve, Finish, Shape, Natives,
     chat, manager
<1>19. ASSUME NEW c \in Calls, Commit(c)
      PROVE  Shape'
  <2>1. InProgress(c) /\ call[c] \in GoodCalls
    BY <1>19, Progress DEF Commit, At, InProgress
  <2>2. Ended(c) \in Returned /\ CallEnded \in Returned
    BY <2>1, EndedReturned
  <2>7. call[c].waits = None /\ call[c].kind # "shutdown"
    BY <1>19, <2>1 DEF Commit, At, GoodCalls, Is, ClosePcs, CallRecords
  <2>6. <<call[c].fresh>> \in Seq(Peers) /\ call[c].p \in Peers
    BY <1>19, <2>1 DEF Commit, At, Shape, GoodCalls, FreshPhases,
       SessionPhases, Is
  <2>8. [CloseThen(c, <<call[c].fresh>>, "abort") EXCEPT !.fresh = None]
          \in GoodCalls
    BY <2>1, <2>6, <2>7, ClosingGood DEF NextPcs
  <2>3. call'[c] \in GoodCalls \cup Returned
    <3>1. CASE call' = [call EXCEPT ![c].pc = "install"]
      BY <1>19, <3>1, <2>1 DEF Commit, At, Shape, GoodCalls, CallRecords, Is,
         Pcs, ClosePcs, SessionPhases, FreshPhases
    <3> QED  BY <1>19, <3>1, <2>8 DEF Commit, To, Shape
  <2>4. call' \in [Calls -> CallStates]
    BY <1>19, <2>3 DEF Commit, To, ReplaceNativeSession, Shape, CallStates
  <2>5. peer' \in [Peers -> PeerRecords]
    BY <1>19, <2>1 DEF Commit, To, ReplaceNativeSession, Shape, Natives,
       GoodCalls, CallRecords, ClosePcs, PeerRecords
  <2> QED  BY <1>19, <2>4, <2>5, <2>1 DEF Commit, At, To,
     ReplaceNativeSession, Shape, Natives, chat, manager, GoodCalls,
     CallRecords, Is, ClosePcs, SessionPhases
<1>20. ASSUME NEW c \in Calls, Install(c)
      PROVE  Shape'
  <2>1. InProgress(c) /\ call[c] \in GoodCalls
    BY <1>20, Progress DEF Install, At, InProgress
  <2>2. Ended(c) \in Returned /\ CallEnded \in Returned
    BY <2>1, EndedReturned
  <2>7. call[c].waits = None /\ call[c].kind # "shutdown"
    BY <1>20, <2>1 DEF Install, At, GoodCalls, Is, ClosePcs, CallRecords
  <2>6. /\ <<call[c].fresh, call[c].p>> \in Seq(Peers)
        /\ <<call[c].p>> \in Seq(Peers)
        /\ call[c].fresh \in Peers
    BY <1>20, <2>1 DEF Install, At, Shape, GoodCalls, FreshPhases,
       SessionPhases, Is
  <2>8. [CloseThen(c, <<call[c].fresh, call[c].p>>, "drop")
           EXCEPT !.fresh = None] \in GoodCalls
    BY <2>1, <2>6, <2>7, ClosingGood DEF NextPcs, SessionPhases
  <2>9. [CloseThen(c, <<call[c].p>>, "installed")
           EXCEPT !.p = call[c].fresh, !.fresh = None] \in GoodCalls
    BY <2>1, <2>6, <2>7, ClosingGood DEF NextPcs
  <2>3. call'[c] \in GoodCalls \cup Returned
    BY <1>20, <2>1, <2>8, <2>9 DEF Install, Shape
  <2>4. call' \in [Calls -> CallStates]
    BY <1>20, <2>3 DEF Install, Shape, CallStates
  <2>5. peer' \in [Peers -> PeerRecords]
    BY <1>20, <2>1 DEF Install, At, Shape, Natives, GoodCalls, CallRecords,
       ClosePcs, PeerRecords
  <2> QED  BY <1>20, <2>4, <2>5, <2>1 DEF Install, Shape, Natives, chat,
     manager, GoodCalls, CallRecords, ClosePcs
<1>21. ASSUME NEW c \in Calls, Installed(c)
      PROVE  Shape'
  <2>1. InProgress(c) /\ call[c] \in GoodCalls
    BY <1>21, Progress DEF Installed, At, InProgress
  <2>2. Ended(c) \in Returned /\ CallEnded \in Returned
    BY <2>1, EndedReturned
  <2>3. call'[c] \in GoodCalls \cup Returned
    BY <1>21, <2>1, <2>2 DEF Installed, At, Woken, Shape, CallEnded,
       GoodCalls, CallRecords, Is, Pcs, ClosePcs, SessionPhases, FreshPhases
  <2>4. call' \in [Calls -> CallStates]
    BY <1>21, <2>3, Updates, Progress DEF Installed, Woken, Shape, CallStates
  <2>5. peer' \in [Peers -> PeerRecords]
    BY <1>21, <2>1 DEF Installed, Shape, Natives, GoodCalls, CallRecords,
       ClosePcs, PeerRecords
  <2> QED  BY <1>21, <2>4, <2>5, <2>1 DEF Installed, Shape, Natives, chat,
     manager, GoodCalls, CallRecords, ClosePcs
<1>22. ASSUME NEW c \in Calls, Abort(c)
      PROVE  Shape'
  <2>1. InProgress(c) /\ call[c] \in GoodCalls
    BY <1>22, Progress DEF Abort, At, InProgress
  <2>2. Ended(c) \in Returned /\ CallEnded \in Returned
    BY <2>1, EndedReturned
  <2>7. call[c].waits = None /\ call[c].kind # "shutdown"
    BY <1>22, <2>1 DEF Abort, At, GoodCalls, Is, ClosePcs, CallRecords
  <2>6. /\ (IF closed THEN <<call[c].p>> ELSE <<>>) \in Seq(Peers)
        /\ call[c].fresh \notin Peers
    BY <1>22, <2>1 DEF Abort, At, Shape, GoodCalls, FreshPhases,
       SessionPhases, Is
  <2>8. CloseThen(c, IF closed THEN <<call[c].p>> ELSE <<>>, "aborted")
          \in GoodCalls
    BY <2>1, <2>6, <2>7, ClosingGood DEF NextPcs, SessionPhases
  <2>3. call'[c] \in GoodCalls \cup Returned
    BY <1>22, <2>1, <2>8 DEF Abort, Shape
  <2>4. call' \in [Calls -> CallStates]
    BY <1>22, <2>3 DEF Abort, Shape, CallStates
  <2>5. peer' \in [Peers -> PeerRecords]
    BY <1>22, <2>1 DEF Abort, Shape, Natives, GoodCalls, CallRecords,
       ClosePcs, PeerRecords
  <2> QED  BY <1>22, <2>4, <2>5, <2>1 DEF Abort, Shape, Natives, chat,
     manager, GoodCalls, CallRecords, ClosePcs
<1>23. ASSUME NEW c \in Calls, Aborted(c)
      PROVE  Shape'
  <2>1. InProgress(c) /\ call[c] \in GoodCalls
    BY <1>23, Progress DEF Aborted, At, InProgress
  <2>2. Ended(c) \in Returned /\ CallEnded \in Returned
    BY <2>1, EndedReturned
  <2>3. call'[c] \in GoodCalls \cup Returned
    BY <1>23, <2>1, <2>2 DEF Aborted, Woken, Shape, CallEnded, GoodCalls,
       CallRecords, ClosePcs
  <2>4. call' \in [Calls -> CallStates]
    BY <1>23, <2>3, Updates, Progress DEF Aborted, Woken, Shape, CallStates
  <2>5. peer' \in [Peers -> PeerRecords]
    BY <1>23, <2>1 DEF Aborted, Shape, Natives, GoodCalls, CallRecords,
       ClosePcs, PeerRecords
  <2> QED  BY <1>23, <2>4, <2>5, <2>1 DEF Aborted, Shape, Natives, chat,
     manager, GoodCalls, CallRecords, ClosePcs
<1>24. ASSUME NEW c \in Calls, CloseAdmission(c)
      PROVE  Shape'
  <2>1. InProgress(c) /\ call[c] \in GoodCalls
    BY <1>24, Progress DEF CloseAdmission, At, InProgress
  <2>2. Ended(c) \in Returned /\ CallEnded \in Returned
    BY <2>1, EndedReturned
  <2>3. call'[c] \in GoodCalls \cup Returned
    BY <1>24, <2>1, ClosingSteps DEF CloseAdmission, At, To, Shape, ClosePcs
  <2>4. call' \in [Calls -> CallStates]
    BY <1>24, <2>3 DEF CloseAdmission, To, Shape, CallStates
  <2>5. peer' \in [Peers -> PeerRecords]
    BY <1>24, <2>1, PeerUpdates DEF CloseAdmission, To, Shape, Natives
  <2> QED  BY <1>24, <2>4, <2>5, <2>1 DEF CloseAdmission, To, Shape, Natives,
     chat, manager
<1>25. ASSUME NEW c \in Calls, ClosePeer(c)
      PROVE  Shape'
  <2>1. InProgress(c) /\ call[c] \in GoodCalls
    BY <1>25, Progress DEF ClosePeer, At, InProgress
  <2>2. Ended(c) \in Returned /\ CallEnded \in Returned
    BY <2>1, EndedReturned
  <2>3. call'[c] \in GoodCalls \cup Returned
    BY <1>25, <2>1, ClosingSteps DEF ClosePeer, At, To, Shape, ClosePcs
  <2>4. call' \in [Calls -> CallStates]
    BY <1>25, <2>3 DEF ClosePeer, To, Shape, CallStates
  <2>5. peer' \in [Peers -> PeerRecords]
    BY <1>25, <2>1, PeerUpdates DEF ClosePeer, To, Shape, Natives
  <2> QED  BY <1>25, <2>4, <2>5, <2>1 DEF ClosePeer, To, Shape, Natives, chat,
     manager
<1>26. ASSUME NEW c \in Calls, NEW inTime \in BOOLEAN, DrainTurn(c, inTime)
      PROVE  Shape'
  <2>1. InProgress(c) /\ call[c] \in GoodCalls
    BY <1>26, Progress DEF DrainTurn, At, InProgress
  <2>2. Ended(c) \in Returned /\ CallEnded \in Returned
    BY <2>1, EndedReturned
  <2>7. call[c].waits = None
          /\ (call[c].kind = "shutdown" => call[c].next = "end")
    BY <1>26, <2>1 DEF DrainTurn, At, GoodCalls, Is, ClosePcs, CallRecords,
       NextPcs
  <2>6. /\ call[c].todo \in Seq(Peers) /\ call[c].todo # <<>>
        /\ call[c].next \in NextPcs /\ call[c].fresh \notin Peers
        /\ call[c].next \in SessionPhases => call[c].p \in Peers
        /\ call[c].failed \in BOOLEAN
    BY <1>26, <2>1 DEF DrainTurn, At, GoodCalls, CallRecords, Is, FreshPhases,
       ClosePcs
  <2>8. Tail(call[c].todo) \in Seq(Peers)
          /\ (call[c].failed \/ ~inTime) \in BOOLEAN
    BY <2>6
  <2>9. call'[c] = [CloseThen(c, Tail(call[c].todo), call[c].next)
                       EXCEPT !.failed = call[c].failed \/ ~inTime]
    BY <1>26 DEF DrainTurn, Shape
  <2>11. [CloseThen(c, Tail(call[c].todo), call[c].next)
            EXCEPT !.failed = call[c].failed \/ ~inTime] \in GoodCalls
    BY <2>1, <2>6, <2>7, <2>8, ClosingGood
  <2>3. call'[c] \in GoodCalls \cup Returned
    BY <2>9, <2>11
  <2>4. call' \in [Calls -> CallStates]
    BY <1>26, <2>3 DEF DrainTurn, Shape, CallStates
  <2>5. peer' \in [Peers -> PeerRecords]
    BY <1>26, <2>1 DEF DrainTurn, Shape, Natives, GoodCalls, CallRecords,
       ClosePcs, PeerRecords
  <2> QED  BY <1>26, <2>4, <2>5, <2>1 DEF DrainTurn, Shape, Natives, chat,
     manager, GoodCalls, CallRecords, ClosePcs
<1>27. ASSUME NEW c \in Calls, TakeSession(c)
      PROVE  Shape'
  <2>1. InProgress(c) /\ call[c] \in GoodCalls
    BY <1>27, Progress DEF TakeSession, At, InProgress
  <2>2. Ended(c) \in Returned /\ CallEnded \in Returned
    BY <2>1, EndedReturned
  <2>7. call[c].waits = None /\ call[c].kind # "shutdown"
    BY <1>27, <2>1 DEF TakeSession, At, GoodCalls, Is, ClosePcs, CallRecords
  <2>6. /\ (IF installed = None THEN <<>> ELSE <<installed>>) \in Seq(Peers)
        /\ call[c].fresh \notin Peers
    BY <1>27, <2>1 DEF TakeSession, At, Shape, GoodCalls, FreshPhases
  <2>8. CloseThen(c, IF installed = None THEN <<>> ELSE <<installed>>, "end")
          \in GoodCalls
    BY <2>1, <2>6, <2>7, ClosingGood DEF NextPcs, SessionPhases
  <2>3. call'[c] \in GoodCalls \cup Returned
    BY <1>27, <2>1, <2>8 DEF TakeSession, Shape
  <2>4. call' \in [Calls -> CallStates]
    BY <1>27, <2>3 DEF TakeSession, Shape, CallStates
  <2>5. peer' \in [Peers -> PeerRecords]
    BY <1>27, <2>1 DEF TakeSession, Shape, Natives, GoodCalls, CallRecords,
       ClosePcs, PeerRecords
  <2> QED  BY <1>27, <2>4, <2>5, <2>1 DEF TakeSession, Shape, Natives,
     GoodCalls, CallRecords, ClosePcs
<1>28. ASSUME NEW c \in Calls, Shutdown(c)
      PROVE  Shape'
  <2>1. InProgress(c) /\ call[c] \in GoodCalls
    BY <1>28, Progress DEF Shutdown, At, InProgress
  <2>2. Ended(c) \in Returned /\ CallEnded \in Returned
    BY <2>1, EndedReturned
  <2>3. call'[c] \in GoodCalls \cup Returned
    <3>1. (IF installed = None THEN <<>> ELSE <<installed>>) \in Seq(Peers)
      BY DEF Shape
    <3>2. [call[c] EXCEPT !.pc = "waitStarts", !.waits = start,
             !.todo = IF installed = None THEN <<>> ELSE <<installed>>]
          \in GoodCalls
      BY <1>28, <2>1, <3>1, ShutdownUpdate DEF Shutdown, At, Shape
    <3>3. c # start
      BY <1>28, <2>1 DEF Shutdown, At, StartReserved, StartPhases, GoodCalls,
         Phase, ClosePcs
    <3>4. call'[c] = [call[c] EXCEPT !.pc = "waitStarts", !.waits = start,
                        !.todo = IF installed = None THEN <<>> ELSE <<installed>>]
      BY <1>28, <3>3 DEF Shutdown
    <3> QED  BY <3>2, <3>4
  <2>4. call' \in [Calls -> CallStates]
    <3>1. ASSUME NEW d \in Calls \ {c}
          PROVE  call'[d] = IF d = start THEN [call[d] EXCEPT !.stopped = TRUE]
                   ELSE call[d]
      BY <1>28 DEF Shutdown
    <3>2. ASSUME NEW d \in Calls \ {c} PROVE call'[d] \in CallStates
      <4>1. d = start => InProgress(d)
        BY <3>2 DEF StartReserved
      <4>2. d = start => [call[d] EXCEPT !.stopped = TRUE] \in GoodCalls
        BY <4>1, <3>2, Progress, Updates
      <4> QED  BY <3>1, <3>2, <4>2 DEF Shape, CallStates
    <3> QED  BY <1>28, <2>3, <3>2 DEF Shutdown, CallStates
  <2>5. peer' \in [Peers -> PeerRecords]
    BY <1>28, <2>1 DEF Shutdown, Shape, Natives, GoodCalls, CallRecords,
       ClosePcs, PeerRecords
  <2> QED  BY <1>28, <2>4, <2>5, <2>1 DEF Shutdown, Shape, Natives, chat,
     manager, GoodCalls, CallRecords, ClosePcs
<1>29. ASSUME NEW c \in Calls, NEW inTime \in BOOLEAN, StartsDone(c, inTime)
      PROVE  Shape'
  <2>1. InProgress(c) /\ call[c] \in GoodCalls
    BY <1>29, Progress DEF StartsDone, At, InProgress
  <2>2. Ended(c) \in Returned /\ CallEnded \in Returned
    BY <2>1, EndedReturned
  <2>7. TRUE
    BY <1>29, <2>1 DEF StartsDone, GoodCalls, ClosePcs, CallRecords
  <2>6. /\ call[c].todo \in Seq(Peers) /\ call[c].fresh \notin Peers
    BY <1>29, <2>1 DEF StartsDone, At, Shape, GoodCalls, CallRecords,
       FreshPhases
  <2>8. [CloseThen(c, call[c].todo, "end") EXCEPT !.waits = None,
         !.failed = ~inTime]
           \in GoodCalls
    BY <2>1, <2>6, ClosingGood DEF NextPcs, SessionPhases
  <2>3. call'[c] \in GoodCalls \cup Returned
    BY <1>29, <2>1, <2>8 DEF StartsDone, Shape
  <2>4. call' \in [Calls -> CallStates]
    BY <1>29, <2>3 DEF StartsDone, Shape, CallStates
  <2>5. peer' \in [Peers -> PeerRecords]
    BY <1>29, <2>1 DEF StartsDone, Shape, Natives, GoodCalls, CallRecords,
       ClosePcs, PeerRecords
  <2> QED  BY <1>29, <2>4, <2>5, <2>1 DEF StartsDone, Shape, Natives, chat,
     manager, GoodCalls, CallRecords, ClosePcs
<1>30. ASSUME NEW c \in Calls, Return(c)
      PROVE  Shape'
  <2>1. InProgress(c) /\ call[c] \in GoodCalls
    BY <1>30, Progress DEF Return, At, InProgress
  <2>2. Ended(c) \in Returned /\ CallEnded \in Returned
    BY <2>1, EndedReturned
  <2>3. call'[c] \in GoodCalls \cup Returned
    BY <1>30, <2>1, <2>2 DEF Return, Finish, Shape, GoodCalls, CallRecords,
       ClosePcs
  <2>4. call' \in [Calls -> CallStates]
    BY <1>30, <2>3 DEF Return, Finish, Shape, CallStates
  <2>5. peer' \in [Peers -> PeerRecords]
    BY <1>30, <2>1 DEF Return, Finish, Shape, Natives, GoodCalls, CallRecords,
       ClosePcs, PeerRecords
  <2> QED  BY <1>30, <2>4, <2>5, <2>1 DEF Return, Finish, Shape, Natives,
     chat, manager, GoodCalls, CallRecords, ClosePcs
<1>31. ASSUME NEW n \in Peers \cup {Old}, LoseNative(n)
      PROVE  Shape'
  BY <1>31 DEF LoseNative, Shape, manager
<1>32. CASE UNCHANGED vars
  BY <1>32 DEF vars, Shape
<1> QED  BY <1>1, <1>2, <1>3, <1>4, <1>5, <1>6, <1>7, <1>8, <1>9, <1>10,
   <1>11, <1>12, <1>13, <1>14, <1>15, <1>16, <1>17, <1>18, <1>19, <1>20,
   <1>21, <1>22, <1>23, <1>24, <1>25, <1>26, <1>27, <1>28, <1>29, <1>30,
   <1>31, <1>32 DEF Next, Step

-----------------------------------------------------------------------------
(* What a step of another call leaves of call d: it can only end its wait  *)
(* or tell its start to stop.                                              *)
Kept(d) ==
    /\ call'[d].pc = call[d].pc
    /\ call'[d].kind = call[d].kind
    /\ InProgress(d) =>
         /\ call'[d].next = call[d].next
         /\ call'[d].p = call[d].p
         /\ call'[d].fresh = call[d].fresh
         /\ call'[d].todo = call[d].todo
         /\ call'[d].failed = call[d].failed
         /\ call'[d].waits \in {call[d].waits, None}

(* The steps of one call. *)
LEMMA Bystanders ==
    ASSUME Shape, StartReserved, NEW c \in Calls, NEW d \in Calls \ {c},
           (\E kind \in KindsOf[c] : Begin(c, kind)) \/ CancelContext(c)
             \/ Step(c)
    PROVE  Kept(d)
<1>1. ASSUME call'[d] = call[d] PROVE Kept(d)
  BY <1>1 DEF Kept
<1>2. ASSUME InProgress(d), call'[d] = [call[d] EXCEPT !.waits = None]
      PROVE  Kept(d)
  BY <1>2, Progress DEF Kept, GoodCalls, CallRecords
<1>3. ASSUME InProgress(d), call'[d] = [call[d] EXCEPT !.stopped = TRUE]
      PROVE  Kept(d)
  BY <1>3, Progress DEF Kept, GoodCalls, CallRecords
<1>4. CASE \E kind \in KindsOf[c] : Begin(c, kind)
  BY <1>4, <1>1 DEF Begin, Shape
<1>5. CASE CancelContext(c)
  BY <1>5, <1>1 DEF CancelContext, Shape
<1>6. CASE Session(c)
  BY <1>6, <1>1 DEF Session, Finish, To, Shape
<1>7. CASE StopWaiting(c)
  BY <1>7, <1>1 DEF StopWaiting, Finish, Shape
<1>8. CASE Launch(c)
  BY <1>8, <1>1 DEF Launch, Shape
<1>9. CASE LaunchFails(c)
  BY <1>9, <1>1 DEF LaunchFails, To, Shape
<1>10. CASE Attach(c)
  BY <1>10, <1>1 DEF Attach, To, Shape
<1>11. CASE AttachFails(c)
  BY <1>11, <1>1 DEF AttachFails, Shape
<1>12. CASE PersistRecovery(c)
  BY <1>12, <1>1 DEF PersistRecovery, To, Shape
<1>13. CASE Drop(c)
  BY <1>13, <1>1, <1>2 DEF Drop, Woken, Shape
<1>14. CASE Publish(c)
  BY <1>14, <1>1 DEF Publish, Shape
<1>15. CASE Published(c)
  BY <1>15, <1>1, <1>2 DEF Published, Woken, Shape
<1>16. CASE TurnLock(c)
  BY <1>16, <1>1 DEF TurnLock, To, Shape
<1>17. CASE CheckCurrent(c)
  BY <1>17, <1>1 DEF CheckCurrent, To, Finish, Shape
<1>18. CASE BeginTurn(c)
  BY <1>18, <1>1 DEF BeginTurn, Finish, Shape
<1>19. CASE Prompt(c)
  BY <1>19, <1>1 DEF Prompt, To, Shape
<1>20. CASE \E success \in BOOLEAN : EndTurn(c, success)
  BY <1>20, <1>1 DEF EndTurn, Finish, Shape
<1>21. CASE Reserve(c)
  BY <1>21, <1>1 DEF Reserve, Finish, Shape
<1>22. CASE Commit(c)
  BY <1>22, <1>1 DEF Commit, To, Shape
<1>23. CASE Install(c)
  BY <1>23, <1>1 DEF Install, Shape
<1>24. CASE Installed(c)
  BY <1>24, <1>1, <1>2 DEF Installed, Woken, Shape
<1>25. CASE Abort(c)
  BY <1>25, <1>1 DEF Abort, Shape
<1>26. CASE Aborted(c)
  BY <1>26, <1>1, <1>2 DEF Aborted, Woken, Shape
<1>27. CASE CloseAdmission(c)
  BY <1>27, <1>1 DEF CloseAdmission, To, Shape
<1>28. CASE ClosePeer(c)
  BY <1>28, <1>1 DEF ClosePeer, To, Shape
<1>29. CASE \E inTime \in BOOLEAN : DrainTurn(c, inTime)
  BY <1>29, <1>1 DEF DrainTurn, Shape
<1>30. CASE TakeSession(c)
  BY <1>30, <1>1 DEF TakeSession, Shape
<1>31. CASE Shutdown(c)
  <2>1. call'[d] = IF d = start THEN [call[d] EXCEPT !.stopped = TRUE]
          ELSE call[d]
    BY <1>31 DEF Shutdown
  <2> QED  BY <2>1, <1>1, <1>3 DEF StartReserved
<1>32. CASE \E inTime \in BOOLEAN : StartsDone(c, inTime)
  BY <1>32, <1>1 DEF StartsDone, Shape
<1>33. CASE Return(c)
  BY <1>33, <1>1 DEF Return, Finish, Shape
<1> QED  BY <1>4, <1>5, <1>6, <1>7, <1>8, <1>9, <1>10, <1>11, <1>12, <1>13,
   <1>14, <1>15, <1>16, <1>17, <1>18, <1>19, <1>20, <1>21, <1>22, <1>23,
   <1>24, <1>25, <1>26, <1>27, <1>28, <1>29, <1>30, <1>31, <1>32, <1>33 DEF
   Step

(* Call c has reached pc: what it uses, has started and is to close. *)
Reached(c, pc, next, todo, q, fresh) ==
    /\ InProgress(c)'
    /\ call'[c].pc = pc
    /\ call'[c].next = next
    /\ call'[c].todo = todo
    /\ call'[c].p = q
    /\ call'[c].fresh = fresh
    /\ call'[c].kind = call[c].kind

(* It closes the sessions todo and then goes on at next. *)
Closes(c, todo, next, q, fresh) ==
    \/ todo = <<>> /\ Reached(c, next, "none", todo, q, fresh)
    \/ todo # <<>> /\ Reached(c, "close", next, todo, q, fresh)

(* Updates of a record that closes sessions. *)
LEMMA ClosesFields ==
    ASSUME Shape, NEW c \in Calls, InProgress(c), NEW s \in Seq(Peers),
           NEW next \in NextPcs, NEW q, NEW b
    PROVE  /\ call' = [call EXCEPT ![c] = CloseThen(c, s, next)] =>
                Closes(c, s, next, call[c].p, call[c].fresh)
           /\ call' = [call EXCEPT ![c] =
                         [CloseThen(c, s, next) EXCEPT !.fresh = None]] =>
                Closes(c, s, next, call[c].p, None)
                  /\ call'[c].waits = call[c].waits
           /\ call' = [call EXCEPT ![c] =
                         [CloseThen(c, s, next) EXCEPT !.p = q,
                          !.fresh = None]] =>
                Closes(c, s, next, q, None) /\ call'[c].waits = call[c].waits
           /\ call' = [call EXCEPT ![c] =
                         [CloseThen(c, s, next) EXCEPT !.failed = b]] =>
                /\ Closes(c, s, next, call[c].p, call[c].fresh)
                /\ call'[c].failed = b /\ call'[c].waits = call[c].waits
           /\ call' = [call EXCEPT ![c] =
                         [CloseThen(c, s, next) EXCEPT !.waits = None,
                          !.failed = b]] =>
                /\ Closes(c, s, next, call[c].p, call[c].fresh)
                /\ call'[c].failed = b /\ call'[c].waits = None
<1> DEFINE v == CloseThen(c, s, next)
<1>1. call[c] \in CallRecords
  BY Progress DEF GoodCalls
<1>2. /\ v \in CallRecords
      /\ v.todo = s
      /\ s = <<>> => v.pc = next /\ v.next = "none"
      /\ s # <<>> => v.pc = "close" /\ v.next = next
      /\ v.kind = call[c].kind
      /\ v.p = call[c].p
      /\ v.fresh = call[c].fresh
      /\ v.waits = call[c].waits
  BY <1>1, Closing
<1>3. next \notin {"idle", "done"}
  BY DEF NextPcs
<1>4. DOMAIN call = Calls /\ call = [d \in Calls |-> call[d]]
  BY DEF Shape
<1> HIDE DEF v
<1>5. ASSUME call' = [call EXCEPT ![c] = v]
      PROVE  Closes(c, s, next, call[c].p, call[c].fresh)
  <2>1. call'[c] = v
    BY <1>5, <1>4
  <2> QED  BY <2>1, <1>2, <1>3 DEF Closes, Reached, InProgress, CallRecords
<1>6. ASSUME call' = [call EXCEPT ![c] = [v EXCEPT !.fresh = None]]
      PROVE  Closes(c, s, next, call[c].p, None) /\ call'[c].waits = call[c].waits
  <2>1. call'[c] = [v EXCEPT !.fresh = None]
    BY <1>6, <1>4
  <2> QED  BY <2>1, <1>2, <1>3 DEF Closes, Reached, InProgress, CallRecords
<1>7. ASSUME call' = [call EXCEPT ![c] = [v EXCEPT !.p = q, !.fresh = None]]
      PROVE  Closes(c, s, next, q, None) /\ call'[c].waits = call[c].waits
  <2>1. call'[c] = [v EXCEPT !.p = q, !.fresh = None]
    BY <1>7, <1>4
  <2> QED  BY <2>1, <1>2, <1>3 DEF Closes, Reached, InProgress, CallRecords
<1>8. ASSUME call' = [call EXCEPT ![c] = [v EXCEPT !.failed = b]]
      PROVE  Closes(c, s, next, call[c].p, call[c].fresh) /\ call'[c].failed = b
             /\ call'[c].waits = call[c].waits
  <2>1. call'[c] = [v EXCEPT !.failed = b]
    BY <1>8, <1>4
  <2> QED  BY <2>1, <1>2, <1>3 DEF Closes, Reached, InProgress, CallRecords
<1>9. ASSUME call' = [call EXCEPT ![c] = [v EXCEPT !.waits = None, !.failed = b]]
      PROVE  Closes(c, s, next, call[c].p, call[c].fresh) /\ call'[c].failed = b
             /\ call'[c].waits = None
  <2>1. call'[c] = [v EXCEPT !.waits = None, !.failed = b]
    BY <1>9, <1>4
  <2> QED  BY <2>1, <1>2, <1>3 DEF Closes, Reached, InProgress, CallRecords
<1> QED  BY <1>5, <1>6, <1>7, <1>8, <1>9 DEF v

(* Where the steps that close sessions, and those that get one, lead. *)
LEMMA PersistRecoveryOutcome ==
    ASSUME Shape, NEW c \in Calls, PersistRecovery(c)
    PROVE  \/ Closes(c, <<call[c].fresh>>, "drop", call[c].p, None)
           \/ Reached(c, "publish", "none", <<>>, call[c].p, call[c].fresh)
<1>1. InProgress(c) /\ call[c] \in GoodCalls
  BY Progress DEF PersistRecovery, At, InProgress
<1>2. <<call[c].fresh>> \in Seq(Peers) /\ call[c].next = "none"
        /\ call[c].todo = <<>> /\ call[c].waits = None
  BY <1>1 DEF PersistRecovery, At, Shape, GoodCalls, CallRecords, ClosePcs,
     FreshPhases
<1>3. CASE call' = [call EXCEPT ![c].pc = "publish"]
  BY <1>1, <1>2, <1>3 DEF Reached, InProgress, GoodCalls, CallRecords, Shape
<1>4. CASE call' = [call EXCEPT ![c] =
             [CloseThen(c, <<call[c].fresh>>, "drop") EXCEPT !.fresh = None]]
  BY <1>1, <1>2, <1>4, ClosesFields DEF NextPcs, Shape
<1> QED  BY <1>3, <1>4 DEF PersistRecovery, To

(* The commit of a replacement. *)
LEMMA CommitOutcome ==
    ASSUME Shape, NEW c \in Calls, Commit(c)
    PROVE  \/ /\ Closes(c, <<call[c].fresh>>, "abort", call[c].p, None)
              /\ UNCHANGED retired
           \/ /\ Reached(c, "install", "none", <<>>, call[c].p, call[c].fresh)
              /\ retired' = retired \cup {call[c].p}
<1>1. InProgress(c) /\ call[c] \in GoodCalls
  BY Progress DEF Commit, At, InProgress
<1>2. <<call[c].fresh>> \in Seq(Peers) /\ call[c].next = "none"
        /\ call[c].todo = <<>> /\ call[c].waits = None
  BY <1>1 DEF Commit, At, Shape, GoodCalls, CallRecords, ClosePcs, FreshPhases
<1>3. CASE call' = [call EXCEPT ![c].pc = "install"]
        /\ retired' = retired \cup {call[c].p}
  BY <1>1, <1>2, <1>3 DEF Reached, InProgress, GoodCalls, CallRecords, Shape
<1>4. CASE /\ call' = [call EXCEPT ![c] =
                 [CloseThen(c, <<call[c].fresh>>, "abort") EXCEPT !.fresh = None]]
           /\ UNCHANGED retired
  BY <1>1, <1>2, <1>4, ClosesFields DEF NextPcs, Shape
<1> QED  BY <1>3, <1>4 DEF Commit, To

(* The publication of a start. *)
LEMMA PublishOutcome ==
    ASSUME Shape, NEW c \in Calls, Publish(c)
    PROVE  \/ /\ closed
              /\ Closes(c, <<call[c].fresh>>, "drop", call[c].p, None)
              /\ UNCHANGED <<installed, start>>
           \/ /\ ~closed
              /\ Closes(c, IF installed = None THEN <<>> ELSE <<installed>>,
                        "published", call[c].fresh, None)
              /\ installed' = call[c].fresh
              /\ start' = None
<1>1. InProgress(c) /\ call[c] \in GoodCalls
  BY Progress DEF Publish, At, InProgress
<1>2. /\ <<call[c].fresh>> \in Seq(Peers) /\ call[c].fresh \in Peers
      /\ (IF installed = None THEN <<>> ELSE <<installed>>) \in Seq(Peers)
  BY <1>1 DEF Publish, At, Shape, GoodCalls, CallRecords, ClosePcs,
     FreshPhases
<1>3. CASE closed
  BY <1>1, <1>2, <1>3, ClosesFields DEF Publish, NextPcs, Shape
<1>4. CASE ~closed
  BY <1>1, <1>2, <1>4, ClosesFields DEF Publish, NextPcs, Shape
<1> QED  BY <1>3, <1>4

(* The installation of a replacement. *)
LEMMA InstallOutcome ==
    ASSUME Shape, NEW c \in Calls, Install(c)
    PROVE  \/ /\ closed
              /\ Closes(c, <<call[c].fresh, call[c].p>>, "drop", call[c].p, None)
              /\ UNCHANGED <<installed, peer>>
           \/ /\ ~closed
              /\ Closes(c, <<call[c].p>>, "installed", call[c].fresh, None)
              /\ installed' = call[c].fresh
              /\ peer' = [peer EXCEPT ![call[c].fresh].lock = c]
<1>1. InProgress(c) /\ call[c] \in GoodCalls
  BY Progress DEF Install, At, InProgress
<1>2. /\ <<call[c].fresh, call[c].p>> \in Seq(Peers)
      /\ <<call[c].p>> \in Seq(Peers)
      /\ call[c].fresh \in Peers
  BY <1>1 DEF Install, At, Shape, GoodCalls, CallRecords, ClosePcs,
     FreshPhases, SessionPhases, Is
<1>3. CASE closed
  BY <1>1, <1>2, <1>3, ClosesFields DEF Install, NextPcs, Shape
<1>4. CASE ~closed
  BY <1>1, <1>2, <1>4, ClosesFields DEF Install, NextPcs, Shape
<1> QED  BY <1>3, <1>4

(* An aborted replacement. *)
LEMMA AbortOutcome ==
    ASSUME Shape, NEW c \in Calls, Abort(c)
    PROVE  Closes(c, IF closed THEN <<call[c].p>> ELSE <<>>, "aborted",
                  call[c].p, call[c].fresh)
<1>1. InProgress(c) /\ call[c] \in GoodCalls
  BY Progress DEF Abort, At, InProgress
<1>2. /\ (IF closed THEN <<call[c].p>> ELSE <<>>) \in Seq(Peers)
      /\ call[c].p \in Peers
  BY <1>1 DEF Abort, At, Shape, GoodCalls, CallRecords, ClosePcs,
     SessionPhases, Is
<1> QED  BY <1>1, <1>2, ClosesFields DEF Abort, NextPcs

(* A session that is taken. *)
LEMMA TakeSessionOutcome ==
    ASSUME Shape, NEW c \in Calls, TakeSession(c)
    PROVE  Closes(c, IF installed = None THEN <<>> ELSE <<installed>>, "end",
                  call[c].p, call[c].fresh)
<1>1. InProgress(c) /\ call[c] \in GoodCalls
  BY Progress DEF TakeSession, At, InProgress
<1>2. (IF installed = None THEN <<>> ELSE <<installed>>) \in Seq(Peers)
  BY <1>1 DEF TakeSession, Shape, GoodCalls, CallRecords, ClosePcs
<1> QED  BY <1>1, <1>2, ClosesFields DEF TakeSession, NextPcs

(* A session that is closed. *)
LEMMA DrainTurnOutcome ==
    ASSUME Shape, NEW c \in Calls, NEW inTime \in BOOLEAN, DrainTurn(c, inTime)
    PROVE  /\ Closes(c, Tail(call[c].todo), call[c].next, call[c].p,
                     call[c].fresh)
           /\ call'[c].failed = (call[c].failed \/ ~inTime)
           /\ call'[c].waits = call[c].waits
           /\ call[c].todo \in Seq(Peers) /\ call[c].todo # <<>>
<1>1. InProgress(c) /\ call[c] \in GoodCalls
  BY Progress DEF DrainTurn, At, InProgress
<1>2. /\ call[c].todo \in Seq(Peers) /\ call[c].todo # <<>>
      /\ Tail(call[c].todo) \in Seq(Peers) /\ call[c].next \in NextPcs
  BY <1>1 DEF DrainTurn, At, Shape, GoodCalls, CallRecords, ClosePcs
<1> DEFINE b == (call[c].failed \/ ~inTime)
<1>3. call' = [call EXCEPT ![c] =
         [CloseThen(c, Tail(call[c].todo), call[c].next) EXCEPT !.failed = b]]
  BY DEF DrainTurn
<1> HIDE DEF b
<1>4. /\ Closes(c, Tail(call[c].todo), call[c].next, call[c].p, call[c].fresh)
      /\ call'[c].waits = call[c].waits
      /\ call'[c].failed = b
  <2> DEFINE v == CloseThen(c, Tail(call[c].todo), call[c].next)
  <2>1. call[c] \in CallRecords
    BY <1>1 DEF GoodCalls
  <2>2. /\ v \in CallRecords
        /\ v.todo = Tail(call[c].todo)
        /\ v.todo = <<>> => v.pc = call[c].next /\ v.next = "none"
        /\ v.todo # <<>> => v.pc = "close" /\ v.next = call[c].next
        /\ v.kind = call[c].kind /\ v.p = call[c].p
        /\ v.fresh = call[c].fresh /\ v.waits = call[c].waits
    <3>1. PICK t \in Seq(Peers), n \in NextPcs : t = Tail(call[c].todo)
            /\ n = call[c].next
      BY <1>2
    <3>2. v = CloseThen(c, t, n)
      BY <3>1
    <3>3. /\ CloseThen(c, t, n) \in CallRecords
          /\ CloseThen(c, t, n).todo = t
          /\ t = <<>> =>
               CloseThen(c, t, n).pc = n /\ CloseThen(c, t, n).next = "none"
          /\ t # <<>> =>
               CloseThen(c, t, n).pc = "close" /\ CloseThen(c, t, n).next = n
          /\ CloseThen(c, t, n).kind = call[c].kind
          /\ CloseThen(c, t, n).p = call[c].p
          /\ CloseThen(c, t, n).fresh = call[c].fresh
          /\ CloseThen(c, t, n).waits = call[c].waits
      BY <2>1, Closing
    <3> HIDE DEF v
    <3> QED  BY <3>1, <3>2, <3>3
  <2>3. call'[c] = [v EXCEPT !.failed = b]
    BY <1>3 DEF Shape
  <2>4. call[c].next \notin {"idle", "done"}
    BY <1>2 DEF NextPcs
  <2> HIDE DEF v
  <2> QED  BY <2>2, <2>3, <2>4 DEF Closes, Reached, InProgress, CallRecords
<1> QED  BY <1>2, <1>4 DEF b

(* Shutdown that goes on to close its sessions. *)
LEMMA StartsDoneOutcome ==
    ASSUME Shape, NEW c \in Calls, NEW inTime \in BOOLEAN, StartsDone(c, inTime)
    PROVE  /\ Closes(c, call[c].todo, "end", call[c].p, call[c].fresh)
           /\ call'[c].failed = ~inTime
           /\ call'[c].waits = None
<1>1. InProgress(c) /\ call[c] \in GoodCalls
  BY Progress DEF StartsDone, At, InProgress
<1>2. call[c].todo \in Seq(Peers)
  BY <1>1 DEF StartsDone, Shape, GoodCalls, CallRecords, ClosePcs
<1> DEFINE b == ~inTime
<1>3. call' = [call EXCEPT ![c] =
         [CloseThen(c, call[c].todo, "end") EXCEPT !.waits = None, !.failed = b]]
  BY DEF StartsDone
<1> HIDE DEF b
<1>4. /\ Closes(c, call[c].todo, "end", call[c].p, call[c].fresh)
      /\ call'[c].waits = None
      /\ call'[c].failed = b
  BY <1>1, <1>2, <1>3, ClosesFields DEF NextPcs
<1> QED  BY <1>2, <1>4 DEF b

(* The lookup of a session. *)
LEMMA SessionOutcome ==
    ASSUME Shape, NEW c \in Calls, Session(c)
    PROVE  /\ call[c].fresh \notin Peers /\ call[c].todo = <<>>
           /\ call[c].next = "none"
           /\ \/ ~InProgress(c)' /\ call'[c].kind = "none" /\ UNCHANGED start
              \/ /\ Reached(c, "lock", "none", <<>>, installed, call[c].fresh)
                 /\ UNCHANGED start
                 /\ call'[c].waits = None
              \/ /\ Reached(c, "session", "none", <<>>, call[c].p, call[c].fresh)
                 /\ ~closed /\ start # None /\ UNCHANGED start
                 /\ call'[c].waits = start
              \/ /\ Reached(c, "launch", "none", <<>>, call[c].p, call[c].fresh)
                 /\ ~closed /\ start = None /\ start' = c
                 /\ call'[c].waits = None
<1>1. InProgress(c) /\ call[c] \in GoodCalls
  BY Progress DEF Session, At, InProgress
<1>2. /\ call[c] \in CallRecords /\ call[c].pc = "session"
      /\ call[c].next = "none"
      /\ call[c].todo = <<>> /\ call[c].fresh \notin Peers
      /\ call[c].kind # "shutdown" /\ call[c].waits = None
  BY <1>1 DEF Session, At, GoodCalls, ClosePcs, FreshPhases, Is
<1>3. call = [d \in Calls |-> call[d]]
  BY DEF Shape
<1>4. Ended(c) = CallEnded /\ CallEnded.pc = "done" /\ CallEnded.kind = "none"
  BY <1>2 DEF Ended, CallEnded
<1>5. CASE closed
  BY <1>2, <1>3, <1>4, <1>5 DEF Session, Finish, InProgress
<1>6. CASE ~closed /\ Serves(c)
  <2>1. CASE call[c].kind = "run"
    <3>1. call'[c] =
            [call[c] EXCEPT !.pc = "lock", !.p = installed, !.recovery = FALSE]
      BY <1>3, <1>6, <2>1 DEF Session
    <3> QED  BY <1>2, <1>6, <3>1 DEF Reached, InProgress, CallRecords, Session
  <2>2. CASE call[c].kind # "run"
    BY <1>2, <1>3, <1>4, <1>6, <2>2 DEF Session, InProgress
  <2> QED  BY <2>1, <2>2
<1>7. CASE ~closed /\ ~Serves(c) /\ start # None
  <2>1. call'[c] = [call[c] EXCEPT !.waits = start]
    BY <1>3, <1>7 DEF Session
  <2> QED  BY <1>2, <1>7, <2>1 DEF Reached, InProgress, CallRecords, Session
<1>8. CASE ~closed /\ ~Serves(c) /\ start = None
  <2>1. call'[c] = [call[c] EXCEPT !.pc = "launch"]
    BY <1>3, <1>8 DEF Session, To
  <2> QED  BY <1>2, <1>8, <2>1 DEF Reached, InProgress, CallRecords, Session
<1> QED  BY <1>5, <1>6, <1>7, <1>8

(* Adapters are launched in the order of their numbers. *)
LaunchedInOrder ==
    \E k \in 0..MaxPeers : \A q \in Peers : peer[q].state # "none" <=> q <= k

(* A launch takes an adapter that has not been launched. *)
LEMMA LaunchOutcome ==
    ASSUME Shape, LaunchedInOrder, NEW c \in Calls, Launch(c)
    PROVE  \E q \in Peers :
             /\ peer[q].state = "none"
             /\ peer' =
                  [peer EXCEPT ![q] =
                    [@ EXCEPT !.state = "live", !.config = call[c].config]]
             /\ \A r \in Peers : peer'[r].state # "none" <=> r <= q
             /\ \/ /\ At(c, "launch")
                   /\ Reached(c, "attach", "none", <<>>, call[c].p, q)
                \/ /\ At(c, "relaunch")
                   /\ Reached(c, "reattach", "none", <<>>, call[c].p, q)
<1>1. InProgress(c) /\ call[c] \in GoodCalls
  BY Progress DEF Launch, InProgress
<1>2. PICK k \in 0..MaxPeers : \A q \in Peers : peer[q].state # "none" <=> q <= k
  BY DEF LaunchedInOrder
<1>3. {q \in Peers : peer[q].state # "none"} = 1..k
  BY <1>2, SessionsAssumption DEF Peers
<1>4. Cardinality(1..k) = k
  BY <1>2, SessionsAssumption, FS_Interval
<1>5. k \in Nat /\ k + 1 <= MaxPeers
  <2>1. k + 1 <= MaxPeers
    BY <1>3, <1>4 DEF Launch
  <2> QED  BY <1>2, <2>1
<1>6. k + 1 \in Peers /\ peer[k + 1].state = "none"
  BY <1>2, <1>5 DEF Peers
<1>7. /\ peer' =
           [peer EXCEPT ![k + 1] =
             [@ EXCEPT !.state = "live", !.config = call[c].config]]
      /\ call' =
           [call EXCEPT ![c] =
             [@ EXCEPT !.pc = IF call[c].pc = "launch" THEN "attach" ELSE "reattach",
                       !.fresh = k + 1]]
  BY <1>3, <1>4 DEF Launch
<1>8. \A r \in Peers : peer'[r].state # "none" <=> r <= k + 1
  BY <1>2, <1>6, <1>7 DEF Peers, Shape, PeerRecords
<1>9. /\ call[c] \in CallRecords /\ call[c].next = "none" /\ call[c].todo = <<>>
      /\ call[c].pc \in {"launch", "relaunch"}
  BY <1>1 DEF GoodCalls, ClosePcs, Launch
<1>10. call'[c] = [call[c] EXCEPT !.pc = IF call[c].pc = "launch" THEN "attach"
                                         ELSE "reattach", !.fresh = k + 1]
  BY <1>7 DEF Shape
<1>11. \/ At(c, "launch") /\ Reached(c, "attach", "none", <<>>, call[c].p, k + 1)
       \/ At(c, "relaunch")
            /\ Reached(c, "reattach", "none", <<>>, call[c].p, k + 1)
  BY <1>9, <1>10 DEF Reached, InProgress, CallRecords, At
<1> QED  BY <1>6, <1>7, <1>8, <1>11

(* A call that is not closing sessions has none to close. *)
LEMMA Quiet ==
    ASSUME Shape, NEW c \in Calls, InProgress(c), call[c].pc \notin ClosePcs
    PROVE  /\ call[c].next = "none"
           /\ call[c].pc # "waitStarts" => call[c].todo = <<>>
           /\ call[c].pc \notin {"session", "waitStarts"} => call[c].waits = None
           /\ call[c].pc \in FreshPhases <=> call[c].fresh \in Peers
           /\ call[c].pc \in SessionPhases => call[c].p \in Peers
           /\ call[c].kind = "shutdown" =>
                call[c].pc \in {"shutdown", "waitStarts", "end"}
BY Progress DEF GoodCalls, Is, ClosePcs

(* A call that only moves on. *)
LEMMA Moves ==
    ASSUME Shape, NEW c \in Calls, InProgress(c), NEW pc,
           pc \notin {"idle", "done"}, To(c, pc)
    PROVE  /\ Reached(c, pc, call[c].next, call[c].todo, call[c].p, call[c].fresh)
           /\ call'[c].waits = call[c].waits
           /\ call'[c].failed = call[c].failed
<1>1. call[c] \in CallRecords
  BY Progress DEF GoodCalls
<1>2. call'[c] = [call[c] EXCEPT !.pc = pc]
  BY DEF To, Shape
<1> QED  BY <1>1, <1>2 DEF Reached, InProgress, CallRecords

(* A call that returns. *)
LEMMA Returns ==
    ASSUME Shape, NEW c \in Calls, InProgress(c),
           Finish(c) \/ call'[c] = CallEnded
    PROVE  /\ ~InProgress(c)' /\ call'[c].pc = "done"
           /\ call'[c].kind = "shutdown" =>
                call[c].kind = "shutdown" /\ ~call[c].failed
<1>1. CASE call'[c] = Ended(c)
  <2>1. CASE call[c].kind = "shutdown"
    BY <1>1, <2>1 DEF Ended, CallEnded, InProgress
  <2>2. CASE call[c].kind # "shutdown"
    BY <1>1, <2>2 DEF Ended, CallEnded, InProgress
  <2> QED  BY <2>1, <2>2
<1>2. CASE call'[c] = CallEnded
  BY <1>2 DEF CallEnded, InProgress
<1> QED  BY <1>1, <1>2 DEF Finish, Shape

(* The other steps, one by one. *)
LEMMA StopWaitingOutcome ==
    ASSUME Shape, NEW c \in Calls, StopWaiting(c)
    PROVE  ~InProgress(c)' /\ call'[c].pc = "done" /\ call'[c].kind # "shutdown"
<1>1. InProgress(c) /\ call[c].pc \notin ClosePcs
  BY DEF StopWaiting, At, InProgress, ClosePcs
<1>2. /\ call[c].next = "none"
      /\ call[c].pc # "waitStarts" => call[c].todo = <<>>
      /\ call[c].pc \notin {"session", "waitStarts"} => call[c].waits = None
      /\ call[c].kind = "shutdown" =>
           call[c].pc \in {"shutdown", "waitStarts", "end"}
  BY <1>1, Quiet
<1> QED  BY <1>1, <1>2, Returns DEF StopWaiting, At

(* An adapter that cannot be launched. *)
LEMMA LaunchFailsOutcome ==
    ASSUME Shape, NEW c \in Calls, LaunchFails(c)
    PROVE  \/ At(c, "launch")
                /\ Reached(c, "drop", "none", <<>>, call[c].p, call[c].fresh)
                /\ call'[c].waits = None
           \/ At(c, "relaunch")
                /\ Reached(c, "abort", "none", <<>>, call[c].p, call[c].fresh)
                /\ call'[c].waits = None
<1>1. InProgress(c) /\ call[c].pc \notin ClosePcs
  BY DEF LaunchFails, At, InProgress, ClosePcs
<1>2. /\ call[c].next = "none"
      /\ call[c].pc # "waitStarts" => call[c].todo = <<>>
      /\ call[c].pc \notin {"session", "waitStarts"} => call[c].waits = None
      /\ call[c].kind = "shutdown" =>
           call[c].pc \in {"shutdown", "waitStarts", "end"}
  BY <1>1, Quiet
<1> QED  BY <1>1, <1>2, Moves DEF LaunchFails, At

(* A turn lock is taken. *)
LEMMA TurnLockOutcome ==
    ASSUME Shape, NEW c \in Calls, TurnLock(c)
    PROVE  Reached(c, "check", "none", <<>>, call[c].p, call[c].fresh)
             /\ call'[c].waits = None
<1>1. InProgress(c) /\ call[c].pc \notin ClosePcs
  BY DEF TurnLock, At, InProgress, ClosePcs
<1>2. /\ call[c].next = "none"
      /\ call[c].pc # "waitStarts" => call[c].todo = <<>>
      /\ call[c].pc \notin {"session", "waitStarts"} => call[c].waits = None
      /\ call[c].kind = "shutdown" =>
           call[c].pc \in {"shutdown", "waitStarts", "end"}
  BY <1>1, Quiet
<1> QED  BY <1>1, <1>2, Moves DEF TurnLock, At

(* A prompt is sent. *)
LEMMA PromptOutcome ==
    ASSUME Shape, NEW c \in Calls, Prompt(c)
    PROVE  Reached(c, "prompted", "none", <<>>, call[c].p, call[c].fresh)
             /\ call'[c].waits = None
<1>1. InProgress(c) /\ call[c].pc \notin ClosePcs
  BY DEF Prompt, At, InProgress, ClosePcs
<1>2. /\ call[c].next = "none"
      /\ call[c].pc # "waitStarts" => call[c].todo = <<>>
      /\ call[c].pc \notin {"session", "waitStarts"} => call[c].waits = None
      /\ call[c].kind = "shutdown" =>
           call[c].pc \in {"shutdown", "waitStarts", "end"}
  BY <1>1, Quiet
<1> QED  BY <1>1, <1>2, Moves DEF Prompt, At

(* A turn ends. *)
LEMMA EndTurnOutcome ==
    ASSUME Shape, NEW c \in Calls, NEW success \in BOOLEAN, EndTurn(c, success)
    PROVE  ~InProgress(c)' /\ call'[c].pc = "done" /\ call'[c].kind # "shutdown"
<1>1. InProgress(c) /\ call[c].pc \notin ClosePcs
  BY DEF EndTurn, At, InProgress, ClosePcs
<1>2. /\ call[c].next = "none"
      /\ call[c].pc # "waitStarts" => call[c].todo = <<>>
      /\ call[c].pc \notin {"session", "waitStarts"} => call[c].waits = None
      /\ call[c].kind = "shutdown" =>
           call[c].pc \in {"shutdown", "waitStarts", "end"}
  BY <1>1, Quiet
<1> QED  BY <1>1, <1>2, Returns DEF EndTurn, At

(* A call returns. *)
LEMMA ReturnOutcome ==
    ASSUME Shape, NEW c \in Calls, Return(c)
    PROVE  /\ ~InProgress(c)' /\ call'[c].pc = "done"
           /\ call'[c].kind = "shutdown" =>
                call[c].kind = "shutdown" /\ ~call[c].failed
<1>1. InProgress(c) /\ call[c].pc \notin ClosePcs
  BY DEF Return, At, InProgress, ClosePcs
<1>2. /\ call[c].next = "none"
      /\ call[c].pc # "waitStarts" => call[c].todo = <<>>
      /\ call[c].pc \notin {"session", "waitStarts"} => call[c].waits = None
      /\ call[c].kind = "shutdown" =>
           call[c].pc \in {"shutdown", "waitStarts", "end"}
  BY <1>1, Quiet
<1> QED  BY <1>1, <1>2, Returns DEF Return

(* A session that is looked up again under its lock. *)
LEMMA CheckCurrentOutcome ==
    ASSUME Shape, NEW c \in Calls, CheckCurrent(c)
    PROVE  \/ /\ ~closed /\ installed = call[c].p /\ UNCHANGED peer
              /\ Reached(c, "turn", "none", <<>>, call[c].p, call[c].fresh)
              /\ call'[c].waits = None
           \/ /\ peer' = Unlocked(c)
              /\ Reached(c, "session", "none", <<>>, call[c].p, call[c].fresh)
              /\ call'[c].waits = None
           \/ /\ peer' = Unlocked(c)
              /\ ~InProgress(c)' /\ call'[c].pc = "done"
              /\ call'[c].kind # "shutdown"
<1>1. InProgress(c) /\ call[c].pc \notin ClosePcs
  BY DEF CheckCurrent, At, InProgress, ClosePcs
<1>2. /\ call[c].next = "none"
      /\ call[c].pc # "waitStarts" => call[c].todo = <<>>
      /\ call[c].pc \notin {"session", "waitStarts"} => call[c].waits = None
      /\ call[c].kind = "shutdown" =>
           call[c].pc \in {"shutdown", "waitStarts", "end"}
  BY <1>1, Quiet
<1>3. \/ ~closed /\ installed = call[c].p /\ UNCHANGED peer /\ To(c, "turn")
      \/ peer' = Unlocked(c) /\ (Finish(c) \/ To(c, "session"))
  BY DEF CheckCurrent
<1>4. CASE ~closed /\ installed = call[c].p /\ UNCHANGED peer /\ To(c, "turn")
  BY <1>1, <1>2, <1>4, Moves DEF CheckCurrent, At
<1>5. CASE peer' = Unlocked(c) /\ To(c, "session")
  BY <1>1, <1>2, <1>5, Moves DEF CheckCurrent, At
<1>6. CASE peer' = Unlocked(c) /\ Finish(c)
  BY <1>1, <1>2, <1>6, Returns DEF CheckCurrent, At
<1> QED  BY <1>3, <1>4, <1>5, <1>6

(* A turn begins, unless its session is closing. *)
LEMMA BeginTurnOutcome ==
    ASSUME Shape, NEW c \in Calls, BeginTurn(c)
    PROVE  \/ /\ ~peer[call[c].p].closing
              /\ peer' = [peer EXCEPT ![call[c].p].turn = c]
              /\ Reached(c, "prompt", "none", <<>>, call[c].p, call[c].fresh)
              /\ call'[c].waits = None
           \/ /\ peer' = Unlocked(c)
              /\ ~InProgress(c)' /\ call'[c].pc = "done"
              /\ call'[c].kind # "shutdown"
<1>1. InProgress(c) /\ call[c].pc \notin ClosePcs
  BY DEF BeginTurn, InProgress, ClosePcs
<1>2. /\ call[c].next = "none"
      /\ call[c].pc # "waitStarts" => call[c].todo = <<>>
      /\ call[c].pc \notin {"session", "waitStarts"} => call[c].waits = None
      /\ call[c].kind = "shutdown" =>
           call[c].pc \in {"shutdown", "waitStarts", "end"}
  BY <1>1, Quiet
<1>3. CASE /\ ~peer[call[c].p].closing
           /\ peer' = [peer EXCEPT ![call[c].p].turn = c]
           /\ call' =
                [call EXCEPT ![c] =
                  [@ EXCEPT !.allow = call[c].allow /\ At(c, "turn"),
                            !.pc = "prompt"]]
  <2>1. call[c] \in CallRecords
    BY <1>1, Progress DEF GoodCalls
  <2>2. call'[c] = [call[c] EXCEPT !.allow = @ /\ At(c, "turn"), !.pc = "prompt"]
    BY <1>3 DEF Shape
  <2>3. Reached(c, "prompt", "none", <<>>, call[c].p, call[c].fresh)
          /\ call'[c].waits = call[c].waits
    BY <1>2, <2>1, <2>2 DEF Reached, InProgress, CallRecords, BeginTurn
  <2> QED  BY <1>2, <1>3, <2>3 DEF BeginTurn
<1>4. CASE peer' = Unlocked(c) /\ Finish(c)
  BY <1>1, <1>2, <1>4, Returns DEF BeginTurn
<1> QED  BY <1>3, <1>4 DEF BeginTurn

(* The reservation of a replacement. *)
LEMMA ReserveOutcome ==
    ASSUME Shape, NEW c \in Calls, Reserve(c)
    PROVE  \/ /\ ~InProgress(c)' /\ call'[c].pc = "done"
              /\ call'[c].kind # "shutdown"
              /\ UNCHANGED <<installed, start>>
           \/ /\ Reached(c, "relaunch", "none", <<>>, call[c].p, call[c].fresh)
              /\ call'[c].waits = None
              /\ ~closed /\ installed = call[c].p /\ start = None
              /\ start' = c /\ installed' = None
<1>1. InProgress(c) /\ call[c].pc \notin ClosePcs
  BY DEF Reserve, At, InProgress, ClosePcs
<1>2. /\ call[c].next = "none"
      /\ call[c].pc # "waitStarts" => call[c].todo = <<>>
      /\ call[c].pc \notin {"session", "waitStarts"} => call[c].waits = None
      /\ call[c].kind = "shutdown" =>
           call[c].pc \in {"shutdown", "waitStarts", "end"}
  BY <1>1, Quiet
<1>3. CASE ~closed /\ installed = call[c].p /\ start = None
  <2>1. call[c] \in CallRecords
    BY <1>1, Progress DEF GoodCalls
  <2>2. call'[c] = [call[c] EXCEPT !.pc = "relaunch", !.stopped = FALSE]
    BY <1>3 DEF Reserve, Shape
  <2>3. Reached(c, "relaunch", "none", <<>>, call[c].p, call[c].fresh)
          /\ call'[c].waits = call[c].waits
    BY <1>2, <2>1, <2>2 DEF Reached, InProgress, CallRecords, Reserve, At
  <2> QED  BY <1>2, <1>3, <2>3 DEF Reserve, At
<1>4. CASE Finish(c) /\ UNCHANGED <<installed, start>>
  BY <1>1, <1>2, <1>4, Returns DEF Reserve, At
<1> QED  BY <1>3, <1>4 DEF Reserve

(* An adapter that has a session. *)
LEMMA AttachOutcome ==
    ASSUME Shape, NEW c \in Calls, Attach(c)
    PROVE  \E native \in Peers \cup {Old, None},
             pc \in {"publish", "persist", "commit"} :
             /\ peer' = [peer EXCEPT ![call[c].fresh].native = native]
             /\ At(c, "attach") <=> pc # "commit"
             /\ Reached(c, pc, "none", <<>>, call[c].p, call[c].fresh)
             /\ call'[c].waits = None
<1>1. InProgress(c) /\ call[c].pc \notin ClosePcs
  BY DEF Attach, InProgress, ClosePcs
<1>2. /\ call[c].next = "none"
      /\ call[c].pc # "waitStarts" => call[c].todo = <<>>
      /\ call[c].pc \notin {"session", "waitStarts"} => call[c].waits = None
      /\ call[c].kind = "shutdown" =>
           call[c].pc \in {"shutdown", "waitStarts", "end"}
  BY <1>1, Quiet
<1>3. call[c] \in CallRecords /\ call[c].fresh \in Peers
  BY <1>1, Progress DEF GoodCalls, Attach, FreshPhases
<1>4. ASSUME call' = [call EXCEPT ![c] =
                       [@ EXCEPT !.pc = "persist", !.recovery = TRUE]]
      PROVE  /\ Reached(c, "persist", "none", <<>>, call[c].p, call[c].fresh)
             /\ call'[c].waits = None
  <2>1. call'[c] = [call[c] EXCEPT !.pc = "persist", !.recovery = TRUE]
    BY <1>4 DEF Shape
  <2>2. Reached(c, "persist", "none", <<>>, call[c].p, call[c].fresh)
          /\ call'[c].waits = call[c].waits
    BY <1>2, <1>3, <2>1 DEF Reached, InProgress, CallRecords, Attach
  <2> QED  BY <1>2, <2>2 DEF Attach
<1>5. CASE At(c, "attach")
  <2>1. call[c].previous \in Natives
    BY <1>3 DEF CallRecords
  <2>2. ASSUME To(c, "publish")
        PROVE  /\ Reached(c, "publish", "none", <<>>, call[c].p, call[c].fresh)
               /\ call'[c].waits = None
    BY <1>1, <1>2, <2>2, Moves DEF Attach
  <2>3. \/ To(c, "publish")
             /\ \E n \in Natives :
                  peer' = [peer EXCEPT ![call[c].fresh].native = n]
        \/ /\ call' = [call EXCEPT ![c] =
                        [@ EXCEPT !.pc = "persist", !.recovery = TRUE]]
           /\ \E n \in Natives : peer' = [peer EXCEPT ![call[c].fresh].native = n]
    BY <1>3, <1>5, <2>1 DEF Attach, Natives
  <2> QED  BY <1>4, <1>5, <2>2, <2>3 DEF Natives
<1>6. CASE ~At(c, "attach")
  <2>1. To(c, "commit")
          /\ peer' = [peer EXCEPT ![call[c].fresh].native = call[c].fresh]
    BY <1>6 DEF Attach
  <2>2. /\ Reached(c, "commit", "none", <<>>, call[c].p, call[c].fresh)
        /\ call'[c].waits = None
    BY <1>1, <1>2, <2>1, Moves DEF Attach
  <2> QED  BY <1>3, <1>6, <2>1, <2>2
<1> QED  BY <1>5, <1>6

(* An adapter that refuses. *)
LEMMA AttachFailsOutcome ==
    ASSUME Shape, NEW c \in Calls, AttachFails(c)
    PROVE  \/ At(c, "attach")
                /\ Reached(c, "drop", "none", <<>>, call[c].p, None)
                /\ call'[c].waits = None
           \/ At(c, "reattach")
                /\ Reached(c, "abort", "none", <<>>, call[c].p, None)
                /\ call'[c].waits = None
<1>1. InProgress(c) /\ call[c].pc \notin ClosePcs
  BY DEF AttachFails, InProgress, ClosePcs
<1>2. /\ call[c].next = "none"
      /\ call[c].pc # "waitStarts" => call[c].todo = <<>>
      /\ call[c].pc \notin {"session", "waitStarts"} => call[c].waits = None
      /\ call[c].kind = "shutdown" =>
           call[c].pc \in {"shutdown", "waitStarts", "end"}
  BY <1>1, Quiet
<1>3. call[c] \in CallRecords
  BY <1>1, Progress DEF GoodCalls
<1>4. call'[c] =
        [call[c] EXCEPT !.pc = IF call[c].pc = "attach" THEN "drop" ELSE "abort",
                                 !.fresh = None]
  BY DEF AttachFails, Shape
<1>5. call[c].pc \in {"attach", "reattach"}
  BY DEF AttachFails
<1>6. CASE call[c].pc = "attach"
  BY <1>2, <1>3, <1>4, <1>6 DEF Reached, InProgress, CallRecords, At
<1>7. CASE call[c].pc = "reattach"
  BY <1>2, <1>3, <1>4, <1>7 DEF Reached, InProgress, CallRecords, At
<1> QED  BY <1>5, <1>6, <1>7

(* A start that is over. *)
LEMMA DropOutcome ==
    ASSUME Shape, NEW c \in Calls, Drop(c)
    PROVE  /\ ~InProgress(c)' /\ call'[c].pc = "done"
           /\ call'[c].kind # "shutdown"
           /\ \A d \in Calls \ {c} : call'[d] = Woken(c)[d]
<1>1. InProgress(c) /\ call[c].pc \notin ClosePcs
  BY DEF Drop, At, InProgress, ClosePcs
<1>2. /\ call[c].next = "none"
      /\ call[c].pc # "waitStarts" => call[c].todo = <<>>
      /\ call[c].pc \notin {"session", "waitStarts"} => call[c].waits = None
      /\ call[c].kind = "shutdown" =>
           call[c].pc \in {"shutdown", "waitStarts", "end"}
  BY <1>1, Quiet
<1> QED  BY <1>1, Returns DEF Drop, Woken, CallEnded

(* A start that is over. *)
LEMMA AbortedOutcome ==
    ASSUME Shape, NEW c \in Calls, Aborted(c)
    PROVE  /\ ~InProgress(c)' /\ call'[c].pc = "done"
           /\ call'[c].kind # "shutdown"
           /\ \A d \in Calls \ {c} : call'[d] = Woken(c)[d]
<1>1. InProgress(c) /\ call[c].pc \notin ClosePcs
  BY DEF Aborted, At, InProgress, ClosePcs
<1>2. /\ call[c].next = "none"
      /\ call[c].pc # "waitStarts" => call[c].todo = <<>>
      /\ call[c].pc \notin {"session", "waitStarts"} => call[c].waits = None
      /\ call[c].kind = "shutdown" =>
           call[c].pc \in {"shutdown", "waitStarts", "end"}
  BY <1>1, Quiet
<1> QED  BY <1>1, Returns DEF Aborted, Woken, CallEnded

(* A start that is published. *)
LEMMA PublishedOutcome ==
    ASSUME Shape, NEW c \in Calls, Published(c)
    PROVE  /\ \/ ~InProgress(c)' /\ call'[c].pc = "done"
                   /\ call'[c].kind # "shutdown"
              \/ Reached(c, "lock", "none", <<>>, call[c].p, call[c].fresh)
                   /\ call'[c].waits = None
           /\ \A d \in Calls \ {c} : call'[d] = Woken(c)[d]
<1>1. InProgress(c) /\ call[c].pc \notin ClosePcs
  BY DEF Published, At, InProgress, ClosePcs
<1>2. /\ call[c].next = "none"
      /\ call[c].pc # "waitStarts" => call[c].todo = <<>>
      /\ call[c].pc \notin {"session", "waitStarts"} => call[c].waits = None
      /\ call[c].kind = "shutdown" =>
           call[c].pc \in {"shutdown", "waitStarts", "end"}
  BY <1>1, Quiet
<1>3. CASE call[c].kind = "run"
  <2>1. call[c] \in CallRecords
    BY <1>1, Progress DEF GoodCalls
  <2>2. call'[c] = [call[c] EXCEPT !.pc = "lock"]
    BY <1>3 DEF Published, Woken
  <2>3. Reached(c, "lock", "none", <<>>, call[c].p, call[c].fresh)
          /\ call'[c].waits = call[c].waits
    BY <1>2, <2>1, <2>2 DEF Reached, InProgress, CallRecords, Published, At
  <2> QED  BY <1>2, <2>3 DEF Published, At, Woken
<1>4. CASE call[c].kind # "run"
  BY <1>4 DEF Published, Woken, CallEnded, InProgress
<1> QED  BY <1>3, <1>4

(* A replacement that is installed. *)
LEMMA InstalledOutcome ==
    ASSUME Shape, NEW c \in Calls, Installed(c)
    PROVE  /\ Reached(c, "retry", "none", <<>>, call[c].p, call[c].fresh)
           /\ call'[c].waits = None
           /\ \A d \in Calls \ {c} : call'[d] = Woken(c)[d]
<1>1. InProgress(c) /\ call[c].pc \notin ClosePcs
  BY DEF Installed, At, InProgress, ClosePcs
<1>2. /\ call[c].next = "none"
      /\ call[c].pc # "waitStarts" => call[c].todo = <<>>
      /\ call[c].pc \notin {"session", "waitStarts"} => call[c].waits = None
      /\ call[c].kind = "shutdown" =>
           call[c].pc \in {"shutdown", "waitStarts", "end"}
  BY <1>1, Quiet
<1>3. call[c] \in CallRecords
  BY <1>1, Progress DEF GoodCalls
<1>4. call[c].waits = None /\ call[c].todo = <<>>
  BY <1>2 DEF Installed, At
<1>5. CASE call'[c] = [call[c] EXCEPT !.pc = "retry"]
  BY <1>2, <1>3, <1>4, <1>5 DEF Reached, InProgress, CallRecords, Installed,
     Woken
<1>6. CASE call'[c] = [[call[c] EXCEPT !.waits = None] EXCEPT !.pc = "retry"]
  BY <1>2, <1>3, <1>4, <1>6 DEF Reached, InProgress, CallRecords, Installed,
     Woken
<1> QED  BY <1>5, <1>6 DEF Installed, Woken

(* The shutdown of the manager. *)
LEMMA ShutdownOutcome ==
    ASSUME Shape, StartReserved, NEW c \in Calls, Shutdown(c)
    PROVE  /\ Reached(c, "waitStarts", "none",
                      IF installed = None THEN <<>> ELSE <<installed>>,
                      call[c].p, call[c].fresh)
           /\ call'[c].waits = start
           /\ call[c].fresh \notin Peers /\ call[c].todo = <<>>
           /\ \A d \in Calls \ {c} : InProgress(d) =>
                call'[d].waits = call[d].waits
<1>1. InProgress(c) /\ call[c].pc \notin ClosePcs
  BY DEF Shutdown, At, InProgress, ClosePcs
<1>2. /\ call[c].next = "none" /\ call[c].todo = <<>>
      /\ call[c].fresh \notin Peers
      /\ call[c] \in CallRecords
  BY <1>1, Quiet, Progress DEF Shutdown, At, FreshPhases, GoodCalls
<1>3. c # start
  BY <1>2 DEF Shutdown, At, StartReserved, StartPhases, Phase
<1>4. call'[c] = [call[c] EXCEPT !.pc = "waitStarts", !.waits = start,
                    !.todo = IF installed = None THEN <<>> ELSE <<installed>>]
  BY <1>3 DEF Shutdown
<1>5. ASSUME NEW d \in Calls \ {c}, InProgress(d)
      PROVE  call'[d].waits = call[d].waits
  <2>1. call'[d] = IF d = start THEN [call[d] EXCEPT !.stopped = TRUE]
          ELSE call[d]
    BY DEF Shutdown
  <2>2. call[d] \in CallRecords
    BY <1>5, Progress DEF GoodCalls
  <2> QED  BY <2>1, <2>2 DEF CallRecords
<1> QED  BY <1>2, <1>4, <1>5 DEF Reached, InProgress, CallRecords

(* A call that begins. *)
LEMMA BeginOutcome ==
    ASSUME Shape, NEW c \in Calls, NEW kind \in KindsOf[c], Begin(c, kind)
    PROVE  /\ ~InProgress(c) /\ InProgress(c)'
           /\ call'[c].pc \in {"session", "shutdown", "take"}
           /\ call'[c].next = "none" /\ call'[c].todo = <<>>
           /\ call'[c].p = None /\ call'[c].fresh = None /\ call'[c].waits = None
           /\ call'[c].kind = "shutdown" <=> call'[c].pc = "shutdown"
<1>1. kind \in Kinds
  BY SessionsAssumption
<1> QED  BY <1>1 DEF Begin, At, InProgress, Shape, Kinds

(* A context that ends. *)
LEMMA CancelContextOutcome ==
    ASSUME Shape, NEW c \in Calls, CancelContext(c)
    PROVE  /\ Reached(c, call[c].pc, call[c].next, call[c].todo, call[c].p,
                      call[c].fresh)
           /\ call'[c].waits = call[c].waits /\ call[c].kind # "shutdown"
<1>1. call[c] \in CallRecords /\ InProgress(c)
  BY Progress DEF GoodCalls, CancelContext
<1>2. call'[c] = [call[c] EXCEPT !.cancelled = TRUE]
  BY DEF CancelContext, Shape
<1> QED  BY <1>1, <1>2 DEF Reached, InProgress, CallRecords, CancelContext

(* The steps of the shutdown of a session. *)
LEMMA CloseAdmissionOutcome ==
    ASSUME Shape, NEW c \in Calls, CloseAdmission(c)
    PROVE  /\ Reached(c, "kill", call[c].next, call[c].todo, call[c].p,
                      call[c].fresh)
           /\ call'[c].waits = call[c].waits /\ call'[c].failed = call[c].failed
BY Moves DEF CloseAdmission, At, InProgress

LEMMA ClosePeerOutcome ==
    ASSUME Shape, NEW c \in Calls, ClosePeer(c)
    PROVE  /\ Reached(c, "drain", call[c].next, call[c].todo, call[c].p,
                      call[c].fresh)
           /\ call'[c].waits = call[c].waits /\ call'[c].failed = call[c].failed
BY Moves DEF ClosePeer, At, InProgress

-----------------------------------------------------------------------------
(* The effect of every step on the call, on those that wait for it, on the *)
(* manager and on the sessions: what a step of call c leaves of the other  *)
(* calls, with their phases.                                               *)
Others(c) ==
    \A d \in Calls \ {c} :
        /\ Kept(d)
        /\ InProgress(d)' <=> InProgress(d)
        /\ InProgress(d) => Phase(d)' = Phase(d)

(* Every step leaves the other calls as they are. *)
LEMMA Rest ==
    ASSUME Shape, StartReserved, NEW c \in Calls,
           (\E kind \in KindsOf[c] : Begin(c, kind)) \/ CancelContext(c)
             \/ Step(c)
    PROVE  Others(c)
BY Bystanders DEF Others, Kept, InProgress, Phase

(* Call c is in one of the phases, with the fields of that phase. *)
From(c, phases) ==
    /\ InProgress(c) /\ Phase(c) \in phases
    /\ call[c].pc = Phase(c) /\ call[c].next = "none"
    /\ call[c].kind = "shutdown" => Phase(c) \in {"shutdown", "waitStarts", "end"}
    /\ call[c].waits # None => Phase(c) \in {"session", "waitStarts"}
    /\ call[c].fresh # None => call[c].fresh \in Peers /\ Phase(c) \in FreshPhases
    /\ Phase(c) \in FreshPhases => call[c].fresh \in Peers
    /\ Phase(c) \in SessionPhases => call[c].p \in Peers
    /\ call[c].todo # <<>> => Phase(c) = "waitStarts"

(* Call c goes on to a phase, closing the sessions of todo first. *)
Goes(c, phase, todo, q, fresh) ==
    /\ InProgress(c)' /\ Phase(c)' = phase
    /\ call'[c].todo = todo /\ call'[c].p = q /\ call'[c].fresh = fresh
    /\ call'[c].pc = IF todo = <<>> THEN phase ELSE "close"
    /\ call'[c].kind = call[c].kind
    /\ phase \notin {"session", "waitStarts"} => call'[c].waits = None

(* Call c returns, and is not a shutdown. *)
Ends(c) == ~InProgress(c)' /\ call'[c].kind # "shutdown"

(* No call is woken. *)
Calm(c) ==
    \A d \in Calls \ {c} : InProgress(d) => call'[d].waits = call[d].waits

(* The calls that wait for c are woken. *)
Wakes(c) ==
    \A d \in Calls \ {c} :
        InProgress(d) =>
          call'[d].waits = IF call[d].waits = c THEN None ELSE call[d].waits

(* The new state of the session p; the other sessions do not change. *)
Becomes(p, state, closing, turn, cut, lock) ==
    \A q \in Peers :
        /\ peer'[q].state = IF q = p THEN state ELSE peer[q].state
        /\ peer'[q].closing = IF q = p THEN closing ELSE peer[q].closing
        /\ peer'[q].turn = IF q = p THEN turn ELSE peer[q].turn
        /\ peer'[q].cut = IF q = p THEN cut ELSE peer[q].cut
        /\ peer'[q].lock = IF q = p THEN lock ELSE peer[q].lock

(* The turn on p is over, and p admits no more turns. *)
Releases(p) ==
    \A q \in Peers :
        /\ peer'[q].state = peer[q].state /\ peer'[q].closing = peer[q].closing
        /\ IF q = p
             THEN peer'[q].turn = None /\ ~peer'[q].cut /\ peer'[q].lock = None
             ELSE /\ peer'[q].turn = peer[q].turn /\ peer'[q].cut = peer[q].cut
                  /\ peer'[q].lock = peer[q].lock

(* The session p admits no more turns, and its turn is cancelled. *)
StopsTurns(p) ==
    \A q \in Peers :
        /\ peer'[q].state = peer[q].state /\ peer'[q].turn = peer[q].turn
        /\ peer'[q].lock = peer[q].lock
        /\ IF q = p
             THEN peer'[q].closing /\ (peer[q].turn # None => peer'[q].cut)
             ELSE /\ peer'[q].closing = peer[q].closing
                  /\ peer'[q].cut = peer[q].cut

(* Where a call is before a step that is not part of a shutdown. *)
LEMMA Before ==
    ASSUME Shape, NEW c \in Calls, InProgress(c), call[c].pc \notin ClosePcs
    PROVE  From(c, {call[c].pc})
<1>1. call[c] \in GoodCalls /\ call[c] \in CallRecords
  BY Progress DEF GoodCalls
<1> QED  BY <1>1, Quiet DEF From, Phase, CallRecords

(* An outcome of the call, as a phase that it goes on to. *)
LEMMA Reaches ==
    ASSUME Shape', NEW c \in Calls, NEW pc, NEW todo, NEW q, NEW fresh
    PROVE  /\ Reached(c, pc, "none", <<>>, q, fresh) =>
                Goes(c, pc, <<>>, q, fresh)
           /\ pc \notin {"none", "session", "waitStarts"}
                /\ Closes(c, todo, pc, q, fresh) =>
                Goes(c, pc, todo, q, fresh)
<1>1. InProgress(c)' => call'[c] \in GoodCalls
  BY DEF Shape, CallStates, InProgress, Returned, NoCall
<1>2. InProgress(c)' /\ call'[c].pc \notin {"session", "waitStarts"} =>
        call'[c].waits = None
  BY <1>1 DEF GoodCalls
<1> QED  BY <1>2 DEF Reached, Closes, Goes, Phase

(* Updates of a session. *)
LEMMA Sessions ==
    ASSUME Shape, NEW p \in Peers, NEW x
    PROVE  /\ peer' = [peer EXCEPT ![p].lock = x] =>
                Becomes(p, peer[p].state, peer[p].closing, peer[p].turn,
                        peer[p].cut, x)
           /\ peer' = [peer EXCEPT ![p].native = x] =>
                Becomes(p, peer[p].state, peer[p].closing, peer[p].turn,
                        peer[p].cut,
                        peer[p].lock)
           /\ peer' = [peer EXCEPT ![p].turn = x] =>
                Becomes(p, peer[p].state, peer[p].closing, x, peer[p].cut,
                        peer[p].lock)
           /\ peer' = [peer EXCEPT ![p].state = "dead"] =>
                Becomes(p, "dead", peer[p].closing, peer[p].turn, peer[p].cut,
                        peer[p].lock)
           /\ peer' = [peer EXCEPT ![p] =
                        [@ EXCEPT !.state = "live", !.config = x]] =>
                Becomes(p, "live", peer[p].closing, peer[p].turn, peer[p].cut,
                        peer[p].lock)
           /\ peer' = [peer EXCEPT ![p] =
                        [@ EXCEPT !.turn = None, !.lock = None, !.cut = FALSE]] =>
                Releases(p)
           /\ peer' = [peer EXCEPT ![p] =
                        [@ EXCEPT !.closing = TRUE,
                                  !.cut = peer[p].cut \/ peer[p].turn # None]] =>
                StopsTurns(p)
<1>1. peer \in [Peers -> PeerRecords]
  BY DEF Shape
<1>2. ASSUME peer' = [peer EXCEPT ![p].lock = x]
      PROVE  Becomes(p, peer[p].state, peer[p].closing, peer[p].turn,
                     peer[p].cut, x)
  BY <1>1, <1>2 DEF Becomes, PeerRecords
<1>3. ASSUME peer' = [peer EXCEPT ![p].native = x]
      PROVE  Becomes(p, peer[p].state, peer[p].closing, peer[p].turn, peer[p].cut,
                        peer[p].lock)
  BY <1>1, <1>3 DEF Becomes, PeerRecords
<1>4. ASSUME peer' = [peer EXCEPT ![p].turn = x]
      PROVE  Becomes(p, peer[p].state, peer[p].closing, x, peer[p].cut,
                     peer[p].lock)
  BY <1>1, <1>4 DEF Becomes, PeerRecords
<1>5. ASSUME peer' = [peer EXCEPT ![p].state = "dead"]
      PROVE  Becomes(p, "dead", peer[p].closing, peer[p].turn, peer[p].cut,
                     peer[p].lock)
  BY <1>1, <1>5 DEF Becomes, PeerRecords
<1>6. ASSUME peer' = [peer EXCEPT ![p] =
                       [@ EXCEPT !.state = "live", !.config = x]]
      PROVE  Becomes(p, "live", peer[p].closing, peer[p].turn, peer[p].cut,
                     peer[p].lock)
  BY <1>1, <1>6 DEF Becomes, PeerRecords
<1>7. ASSUME peer' =
               [peer EXCEPT ![p] =
                 [@ EXCEPT !.turn = None, !.lock = None, !.cut = FALSE]]
      PROVE  Releases(p)
  BY <1>1, <1>7 DEF Releases, PeerRecords
<1>8. ASSUME peer' =
               [peer EXCEPT ![p] =
                 [@ EXCEPT !.closing = TRUE,
                           !.cut = peer[p].cut \/ peer[p].turn # None]]
      PROVE  StopsTurns(p)
  <2>1. /\ peer'[p] = [peer[p] EXCEPT !.closing = TRUE,
                         !.cut = peer[p].cut \/ peer[p].turn # None]
        /\ \A q \in Peers \ {p} : peer'[q] = peer[q]
    BY <1>1, <1>8
  <2>2. peer'[p].cut = (peer[p].cut \/ peer[p].turn # None)
    BY <1>1, <2>1 DEF PeerRecords
  <2>3. /\ peer'[p].closing /\ peer'[p].state = peer[p].state
        /\ peer'[p].turn = peer[p].turn /\ peer'[p].lock = peer[p].lock
    BY <1>1, <2>1 DEF PeerRecords
  <2> QED  BY Zenon, <2>1, <2>2, <2>3 DEF StopsTurns
<1> QED  BY <1>2, <1>3, <1>4, <1>5, <1>6, <1>7, <1>8

(* A step that wakes the calls that wait for it. *)
LEMMA Wakens ==
    ASSUME Shape, NEW c \in Calls,
           \A d \in Calls \ {c} : call'[d] = Woken(c)[d]
    PROVE  Wakes(c)
<1> SUFFICES ASSUME NEW d \in Calls \ {c}, InProgress(d)
             PROVE  call'[d].waits = IF call[d].waits = c THEN None
                      ELSE call[d].waits
  BY DEF Wakes
<1>1. call[d] \in CallRecords
  BY Progress DEF GoodCalls
<1> QED  BY <1>1 DEF Woken, CallRecords

(* The effect of Begin. *)
LEMMA BeginEffect ==
    ASSUME Shape, Shape', StartReserved, LaunchedInOrder, NEW c \in Calls,
           NEW kind \in KindsOf[c],
           Begin(c, kind)
    PROVE  /\ Others(c)
           /\ ~InProgress(c)
           /\ Calm(c)
           /\ InProgress(c)'
           /\ Phase(c)' \in {"session", "shutdown", "take"}
           /\ call'[c].pc = Phase(c)'
           /\ call'[c].todo = <<>> /\ call'[c].p = None /\ call'[c].fresh = None
           /\ call'[c].waits = None
           /\ call'[c].kind = "shutdown" <=> Phase(c)' = "shutdown"
           /\ UNCHANGED <<installed, start, closed>>
           /\ UNCHANGED <<peer, retired>>
<1>1. Others(c)
  BY Rest DEF Step
<1>2. Calm(c)
  BY DEF Calm, Shape, Begin
<1> QED
  BY <1>1, <1>2, BeginOutcome, Reaches DEF Begin, manager, chat, Reached,
     Phase

(* The effect of CancelContext. *)
LEMMA CancelContextEffect ==
    ASSUME Shape, Shape', StartReserved, LaunchedInOrder, NEW c \in Calls,
           CancelContext(c)
    PROVE  /\ Others(c)
           /\ InProgress(c)
           /\ Calm(c)
           /\ InProgress(c)' /\ Phase(c)' = Phase(c) /\ call'[c].pc = call[c].pc
           /\ call'[c].todo = call[c].todo /\ call'[c].p = call[c].p
           /\ call'[c].fresh = call[c].fresh /\ call'[c].waits = call[c].waits
           /\ call[c].kind # "shutdown" /\ call'[c].kind = call[c].kind
           /\ call[c].waits # None => Phase(c) \in {"session", "waitStarts"}
           /\ UNCHANGED <<installed, start, closed>>
           /\ UNCHANGED <<peer, retired>>
<1>1. Others(c)
  BY Rest DEF Step
<1>2. Calm(c)
  BY DEF Calm, Shape, CancelContext
<1>3. InProgress(c) /\ call[c] \in GoodCalls
  BY Progress DEF CancelContext
<1>4. call[c].waits # None => Phase(c) \in {"session", "waitStarts"}
  BY <1>3 DEF GoodCalls, ClosePcs, Phase
<1> QED
  BY <1>1, <1>2, <1>3, <1>4, CancelContextOutcome, Reaches DEF CancelContext,
     manager, chat, Reached, Phase

(* The effect of Session. *)
LEMMA SessionEffect ==
    ASSUME Shape, Shape', StartReserved, LaunchedInOrder, NEW c \in Calls,
           Session(c)
    PROVE  /\ Others(c)
           /\ From(c, {"session"})
           /\ Calm(c)
           /\ UNCHANGED <<installed, closed, peer, retired>>
           /\ \/ Ends(c) /\ UNCHANGED start
              \/ Goes(c, "lock", <<>>, installed, call[c].fresh)
                   /\ UNCHANGED start
              \/ /\ Goes(c, "session", <<>>, call[c].p, call[c].fresh)
                 /\ UNCHANGED start
                 /\ start # None /\ call'[c].waits = start /\ ~closed
              \/ /\ Goes(c, "launch", <<>>, call[c].p, call[c].fresh)
                 /\ start = None /\ start' = c
                 /\ ~closed
<1>1. Others(c)
  BY Rest DEF Step
<1>2. Calm(c)
  BY DEF Calm, Shape, Session, Finish, To
<1>3. InProgress(c) /\ call[c].pc \notin ClosePcs
  BY DEF Session, At, InProgress, ClosePcs
<1>4. From(c, {"session"})
  BY <1>3, Before DEF Session, At, From
<1>5. /\ call[c].fresh \notin Peers /\ call[c].todo = <<>>
      /\ call[c].next = "none"
      /\ \/ Ends(c) /\ UNCHANGED start
         \/ /\ Goes(c, "lock", <<>>, installed, call[c].fresh)
            /\ UNCHANGED start
           
         \/ /\ Goes(c, "session", <<>>, call[c].p, call[c].fresh)
            /\ ~closed /\ start # None /\ UNCHANGED start
            /\ call'[c].waits = start
         \/ /\ Goes(c, "launch", <<>>, call[c].p, call[c].fresh)
            /\ ~closed /\ start = None /\ start' = c
           
  BY SessionOutcome, Reaches DEF Ends
<1> QED
  BY <1>1, <1>2, <1>3, <1>4, <1>5 DEF Session, manager, chat, From

(* The effect of StopWaiting. *)
LEMMA StopWaitingEffect ==
    ASSUME Shape, Shape', StartReserved, LaunchedInOrder, NEW c \in Calls,
           StopWaiting(c)
    PROVE  /\ Others(c)
           /\ From(c, {"session"})
           /\ Calm(c)
           /\ Ends(c)
           /\ UNCHANGED <<installed, start, closed>>
           /\ UNCHANGED <<peer, retired>>
<1>1. Others(c)
  BY Rest DEF Step
<1>2. Calm(c)
  BY DEF Calm, Shape, StopWaiting, Finish
<1>3. InProgress(c) /\ call[c].pc \notin ClosePcs
  BY DEF StopWaiting, At, InProgress, ClosePcs
<1>4. From(c, {"session"})
  BY <1>3, Before DEF StopWaiting, At, From
<1>5. Ends(c)
  BY StopWaitingOutcome, Reaches DEF Ends
<1> QED
  BY <1>1, <1>2, <1>3, <1>4, <1>5 DEF StopWaiting, manager, chat, From

(* The effect of Launch. *)
LEMMA LaunchEffect ==
    ASSUME Shape, Shape', StartReserved, LaunchedInOrder, NEW c \in Calls,
           Launch(c)
    PROVE  /\ Others(c)
           /\ From(c, {"launch", "relaunch"})
           /\ Calm(c)
           /\ UNCHANGED <<installed, start, closed>>
           /\ UNCHANGED retired
           /\ \E q \in Peers :
                /\ peer[q].state = "none"
                /\ \A r \in Peers : peer'[r].state # "none" <=> r <= q
                /\ Becomes(q, "live", peer[q].closing, peer[q].turn,
                           peer[q].cut, peer[q].lock)
                /\ \/ Phase(c) = "launch" /\ Goes(c, "attach", <<>>, call[c].p, q)
                   \/ Phase(c) = "relaunch"
                        /\ Goes(c, "reattach", <<>>, call[c].p, q)
<1>1. Others(c)
  BY Rest DEF Step
<1>2. Calm(c)
  BY DEF Calm, Shape, Launch
<1>3. InProgress(c) /\ call[c].pc \notin ClosePcs
  BY DEF Launch, InProgress, ClosePcs
<1>4. From(c, {"launch", "relaunch"})
  BY <1>3, Before DEF Launch, From
<1>5. \E q \in Peers :
        /\ peer[q].state = "none"
        /\ peer' = [peer EXCEPT ![q] =
                     [@ EXCEPT !.state = "live", !.config = call[c].config]]
        /\ \A r \in Peers : peer'[r].state # "none" <=> r <= q
        /\ \/ /\ At(c, "launch")
              /\ Goes(c, "attach", <<>>, call[c].p, q)
           \/ /\ At(c, "relaunch")
              /\ Goes(c, "reattach", <<>>, call[c].p, q)
  BY LaunchOutcome, Reaches
<1> QED
  BY <1>1, <1>2, <1>3, <1>4, <1>5, Sessions DEF Launch, At, manager, chat,
     From

(* The effect of LaunchFails. *)
LEMMA LaunchFailsEffect ==
    ASSUME Shape, Shape', StartReserved, LaunchedInOrder, NEW c \in Calls,
           LaunchFails(c)
    PROVE  /\ Others(c)
           /\ From(c, {"launch", "relaunch"})
           /\ Calm(c)
           /\ UNCHANGED <<installed, start, closed>>
           /\ UNCHANGED <<peer, retired>>
           /\ \/ Phase(c) = "launch"
                   /\ Goes(c, "drop", <<>>, call[c].p, call[c].fresh)
              \/ Phase(c) = "relaunch"
                   /\ Goes(c, "abort", <<>>, call[c].p, call[c].fresh)
<1>1. Others(c)
  BY Rest DEF Step
<1>2. Calm(c)
  BY DEF Calm, Shape, LaunchFails, To
<1>3. InProgress(c) /\ call[c].pc \notin ClosePcs
  BY DEF LaunchFails, At, InProgress, ClosePcs
<1>4. From(c, {"launch", "relaunch"})
  BY <1>3, Before DEF LaunchFails, At, From
<1>5. \/ At(c, "launch") /\ Goes(c, "drop", <<>>, call[c].p, call[c].fresh)
      \/ At(c, "relaunch") /\ Goes(c, "abort", <<>>, call[c].p, call[c].fresh)
  BY LaunchFailsOutcome, Reaches
<1> QED
  BY <1>1, <1>2, <1>3, <1>4, <1>5 DEF LaunchFails, At, manager, chat, From

(* The effect of Attach. *)
LEMMA AttachEffect ==
    ASSUME Shape, Shape', StartReserved, LaunchedInOrder, NEW c \in Calls,
           Attach(c)
    PROVE  /\ Others(c)
           /\ From(c, {"attach", "reattach"})
           /\ Calm(c)
           /\ UNCHANGED <<installed, start, closed>>
           /\ UNCHANGED retired
           /\ Becomes(call[c].fresh, peer[call[c].fresh].state,
                      peer[call[c].fresh].closing, peer[call[c].fresh].turn,
                      peer[call[c].fresh].cut, peer[call[c].fresh].lock)
           /\ \/ Phase(c) = "attach"
                   /\ Goes(c, "publish", <<>>, call[c].p, call[c].fresh)
              \/ Phase(c) = "attach"
                   /\ Goes(c, "persist", <<>>, call[c].p, call[c].fresh)
              \/ Phase(c) = "reattach"
                   /\ Goes(c, "commit", <<>>, call[c].p, call[c].fresh)
<1>1. Others(c)
  BY Rest DEF Step
<1>2. Calm(c)
  BY DEF Calm, Shape, Attach, To
<1>3. InProgress(c) /\ call[c].pc \notin ClosePcs
  BY DEF Attach, InProgress, ClosePcs
<1>4. From(c, {"attach", "reattach"})
  BY <1>3, Before DEF Attach, From
<1>5. \E native \in Peers \cup {Old, None},
        pc \in {"publish", "persist", "commit"} :
        /\ peer' = [peer EXCEPT ![call[c].fresh].native = native]
        /\ At(c, "attach") <=> pc # "commit"
        /\ Goes(c, pc, <<>>, call[c].p, call[c].fresh)
       
  BY AttachOutcome, Reaches
<1> QED
  BY <1>1, <1>2, <1>3, <1>4, <1>5, Sessions DEF Attach, At, manager, chat,
     From, FreshPhases

(* The effect of AttachFails. *)
LEMMA AttachFailsEffect ==
    ASSUME Shape, Shape', StartReserved, LaunchedInOrder, NEW c \in Calls,
           AttachFails(c)
    PROVE  /\ Others(c)
           /\ From(c, {"attach", "reattach"})
           /\ Calm(c)
           /\ UNCHANGED <<installed, start, closed>>
           /\ UNCHANGED retired
           /\ Becomes(call[c].fresh, "dead", peer[call[c].fresh].closing,
                      peer[call[c].fresh].turn, peer[call[c].fresh].cut,
                      peer[call[c].fresh].lock)
           /\ \/ Phase(c) = "attach" /\ Goes(c, "drop", <<>>, call[c].p, None)
              \/ Phase(c) = "reattach" /\ Goes(c, "abort", <<>>, call[c].p, None)
<1>1. Others(c)
  BY Rest DEF Step
<1>2. Calm(c)
  BY DEF Calm, Shape, AttachFails
<1>3. InProgress(c) /\ call[c].pc \notin ClosePcs
  BY DEF AttachFails, InProgress, ClosePcs
<1>4. From(c, {"attach", "reattach"})
  BY <1>3, Before DEF AttachFails, From
<1>5. \/ At(c, "attach") /\ Goes(c, "drop", <<>>, call[c].p, None)
      \/ At(c, "reattach") /\ Goes(c, "abort", <<>>, call[c].p, None)
  BY AttachFailsOutcome, Reaches
<1> QED
  BY <1>1, <1>2, <1>3, <1>4, <1>5, Sessions DEF AttachFails, At, manager,
     chat, From, FreshPhases

(* The effect of PersistRecovery. *)
LEMMA PersistRecoveryEffect ==
    ASSUME Shape, Shape', StartReserved, LaunchedInOrder, NEW c \in Calls,
           PersistRecovery(c)
    PROVE  /\ Others(c)
           /\ From(c, {"persist"})
           /\ Calm(c)
           /\ UNCHANGED <<installed, start, closed>>
           /\ UNCHANGED <<peer, retired>>
           /\ \/ Goes(c, "publish", <<>>, call[c].p, call[c].fresh)
              \/ Goes(c, "drop", <<call[c].fresh>>, call[c].p, None)
<1>1. Others(c)
  BY Rest DEF Step
<1>2. Calm(c)
  BY DEF Calm, Shape, PersistRecovery, To
<1>3. InProgress(c) /\ call[c].pc \notin ClosePcs
  BY DEF PersistRecovery, At, InProgress, ClosePcs
<1>4. From(c, {"persist"})
  BY <1>3, Before DEF PersistRecovery, At, From
<1>5. \/ Goes(c, "drop", <<call[c].fresh>>, call[c].p, None)
      \/ Goes(c, "publish", <<>>, call[c].p, call[c].fresh)
  BY PersistRecoveryOutcome, Reaches
<1> QED
  BY <1>1, <1>2, <1>3, <1>4, <1>5 DEF PersistRecovery, manager, chat, From

(* The effect of Drop. *)
LEMMA DropEffect ==
    ASSUME Shape, Shape', StartReserved, LaunchedInOrder, NEW c \in Calls,
           Drop(c)
    PROVE  /\ Others(c)
           /\ From(c, {"drop"})
           /\ Wakes(c)
           /\ Ends(c)
           /\ start' = IF start = c THEN None ELSE start
           /\ UNCHANGED <<installed, closed, peer, retired>>
<1>1. Others(c)
  BY Rest DEF Step
<1>2. Wakes(c)
  BY DropOutcome, Wakens
<1>3. InProgress(c) /\ call[c].pc \notin ClosePcs
  BY DEF Drop, At, InProgress, ClosePcs
<1>4. From(c, {"drop"})
  BY <1>3, Before DEF Drop, At, From
<1>5. /\ Ends(c)
      /\ \A d \in Calls \ {c} : call'[d] = Woken(c)[d]
  BY DropOutcome, Reaches DEF Ends
<1> QED
  BY <1>1, <1>2, <1>3, <1>4, <1>5 DEF Drop, manager, chat, From

(* The effect of Publish. *)
LEMMA PublishEffect ==
    ASSUME Shape, Shape', StartReserved, LaunchedInOrder, NEW c \in Calls,
           Publish(c)
    PROVE  /\ Others(c)
           /\ From(c, {"publish"})
           /\ Calm(c)
           /\ UNCHANGED <<closed, peer, retired>>
           /\ \/ /\ closed /\ UNCHANGED <<installed, start>>
                 /\ Goes(c, "drop", <<call[c].fresh>>, call[c].p, None)
              \/ /\ ~closed /\ installed' = call[c].fresh /\ start' = None
                 /\ Goes(c, "published",
                         (IF installed = None THEN <<>> ELSE <<installed>>),
                         call[c].fresh, None)
<1>1. Others(c)
  BY Rest DEF Step
<1>2. Calm(c)
  BY DEF Calm, Shape, Publish
<1>3. InProgress(c) /\ call[c].pc \notin ClosePcs
  BY DEF Publish, At, InProgress, ClosePcs
<1>4. From(c, {"publish"})
  BY <1>3, Before DEF Publish, At, From
<1>5. \/ /\ closed
         /\ Goes(c, "drop", <<call[c].fresh>>, call[c].p, None)
         /\ UNCHANGED <<installed, start>>
      \/ /\ ~closed
         /\ Goes(c, "published",
                 IF installed = None THEN <<>> ELSE <<installed>>,
                 call[c].fresh, None)
         /\ installed' = call[c].fresh
         /\ start' = None
  BY PublishOutcome, Reaches
<1> QED
  BY <1>1, <1>2, <1>3, <1>4, <1>5 DEF Publish, manager, chat, From

(* The effect of Published. *)
LEMMA PublishedEffect ==
    ASSUME Shape, Shape', StartReserved, LaunchedInOrder, NEW c \in Calls,
           Published(c)
    PROVE  /\ Others(c)
           /\ From(c, {"published"})
           /\ Wakes(c)
           /\ UNCHANGED <<installed, start, closed>>
           /\ UNCHANGED <<peer, retired>>
           /\ Ends(c) \/ Goes(c, "lock", <<>>, call[c].p, call[c].fresh)
<1>1. Others(c)
  BY Rest DEF Step
<1>2. Wakes(c)
  BY PublishedOutcome, Wakens
<1>3. InProgress(c) /\ call[c].pc \notin ClosePcs
  BY DEF Published, At, InProgress, ClosePcs
<1>4. From(c, {"published"})
  BY <1>3, Before DEF Published, At, From
<1>5. /\ \/ Ends(c)
         \/ Goes(c, "lock", <<>>, call[c].p, call[c].fresh)
      /\ \A d \in Calls \ {c} : call'[d] = Woken(c)[d]
  BY PublishedOutcome, Reaches DEF Ends
<1> QED
  BY <1>1, <1>2, <1>3, <1>4, <1>5 DEF Published, manager, chat, From

(* The effect of TurnLock. *)
LEMMA TurnLockEffect ==
    ASSUME Shape, Shape', StartReserved, LaunchedInOrder, NEW c \in Calls,
           TurnLock(c)
    PROVE  /\ Others(c)
           /\ From(c, {"lock"})
           /\ Calm(c)
           /\ UNCHANGED <<installed, start, closed>>
           /\ UNCHANGED retired
           /\ peer[call[c].p].lock = None
           /\ Becomes(call[c].p, peer[call[c].p].state,
                      peer[call[c].p].closing, peer[call[c].p].turn,
                      peer[call[c].p].cut, c)
           /\ Goes(c, "check", <<>>, call[c].p, call[c].fresh)
<1>1. Others(c)
  BY Rest DEF Step
<1>2. Calm(c)
  BY DEF Calm, Shape, TurnLock, To
<1>3. InProgress(c) /\ call[c].pc \notin ClosePcs
  BY DEF TurnLock, At, InProgress, ClosePcs
<1>4. From(c, {"lock"})
  BY <1>3, Before DEF TurnLock, At, From
<1>5. Goes(c, "check", <<>>, call[c].p, call[c].fresh)
  BY TurnLockOutcome, Reaches
<1> QED
  BY <1>1, <1>2, <1>3, <1>4, <1>5, Sessions DEF TurnLock, manager, chat, From,
     SessionPhases

(* The effect of CheckCurrent. *)
LEMMA CheckCurrentEffect ==
    ASSUME Shape, Shape', StartReserved, LaunchedInOrder, NEW c \in Calls,
           CheckCurrent(c)
    PROVE  /\ Others(c)
           /\ From(c, {"check"})
           /\ Calm(c)
           /\ UNCHANGED <<installed, start, closed>>
           /\ UNCHANGED retired
           /\ \/ /\ ~closed /\ installed = call[c].p /\ UNCHANGED peer
                 /\ Goes(c, "turn", <<>>, call[c].p, call[c].fresh)
              \/ /\ Becomes(call[c].p, peer[call[c].p].state,
                            peer[call[c].p].closing, peer[call[c].p].turn,
                            peer[call[c].p].cut, None)
                 /\ Ends(c)
                    \/ /\ Goes(c, "session", <<>>, call[c].p, call[c].fresh)
                       /\ call'[c].waits = None
<1>1. Others(c)
  BY Rest DEF Step
<1>2. Calm(c)
  BY DEF Calm, Shape, CheckCurrent, To, Finish
<1>3. InProgress(c) /\ call[c].pc \notin ClosePcs
  BY DEF CheckCurrent, At, InProgress, ClosePcs
<1>4. From(c, {"check"})
  BY <1>3, Before DEF CheckCurrent, At, From
<1>5. \/ /\ ~closed /\ installed = call[c].p /\ UNCHANGED peer
         /\ Goes(c, "turn", <<>>, call[c].p, call[c].fresh)
         /\ call'[c].waits = None
      \/ /\ peer' = Unlocked(c)
         /\ Goes(c, "session", <<>>, call[c].p, call[c].fresh)
         /\ call'[c].waits = None
      \/ /\ peer' = Unlocked(c)
         /\ Ends(c)
  BY CheckCurrentOutcome, Reaches DEF Ends
<1>6. peer' = Unlocked(c) =>
        Becomes(call[c].p, peer[call[c].p].state, peer[call[c].p].closing,
                peer[call[c].p].turn, peer[call[c].p].cut, None)
  BY <1>4, Sessions DEF Unlocked, From, SessionPhases
<1>7. UNCHANGED <<installed, start, closed>> /\ UNCHANGED retired
  BY DEF CheckCurrent, manager, chat
<1> QED  BY <1>1, <1>2, <1>3, <1>4, <1>5, <1>6, <1>7

(* The effect of BeginTurn. *)
LEMMA BeginTurnEffect ==
    ASSUME Shape, Shape', StartReserved, LaunchedInOrder, NEW c \in Calls,
           BeginTurn(c)
    PROVE  /\ Others(c)
           /\ From(c, {"turn", "retry"})
           /\ Calm(c)
           /\ UNCHANGED <<installed, start, closed>>
           /\ UNCHANGED retired
           /\ \/ /\ ~peer[call[c].p].closing
                 /\ Becomes(call[c].p, peer[call[c].p].state,
                            peer[call[c].p].closing, c, peer[call[c].p].cut,
                            peer[call[c].p].lock)
                 /\ Goes(c, "prompt", <<>>, call[c].p, call[c].fresh)
              \/ Becomes(call[c].p, peer[call[c].p].state,
                         peer[call[c].p].closing, peer[call[c].p].turn,
                         peer[call[c].p].cut, None) /\ Ends(c)
<1>1. Others(c)
  BY Rest DEF Step
<1>2. Calm(c)
  BY DEF Calm, Shape, BeginTurn, Finish
<1>3. InProgress(c) /\ call[c].pc \notin ClosePcs
  BY DEF BeginTurn, InProgress, ClosePcs
<1>4. From(c, {"turn", "retry"})
  BY <1>3, Before DEF BeginTurn, From
<1>5. \/ /\ ~peer[call[c].p].closing
         /\ peer' = [peer EXCEPT ![call[c].p].turn = c]
         /\ Goes(c, "prompt", <<>>, call[c].p, call[c].fresh)
      \/ /\ peer' = Unlocked(c)
         /\ Ends(c)
  BY BeginTurnOutcome, Reaches DEF Ends
<1> QED
  BY <1>1, <1>2, <1>3, <1>4, <1>5, Sessions DEF BeginTurn, manager, chat,
     Unlocked, From, SessionPhases

(* The effect of Prompt. *)
LEMMA PromptEffect ==
    ASSUME Shape, Shape', StartReserved, LaunchedInOrder, NEW c \in Calls,
           Prompt(c)
    PROVE  /\ Others(c)
           /\ From(c, {"prompt"})
           /\ Calm(c)
           /\ UNCHANGED <<installed, start, closed>>
           /\ UNCHANGED <<peer, retired>>
           /\ Goes(c, "prompted", <<>>, call[c].p, call[c].fresh)
<1>1. Others(c)
  BY Rest DEF Step
<1>2. Calm(c)
  BY DEF Calm, Shape, Prompt, To
<1>3. InProgress(c) /\ call[c].pc \notin ClosePcs
  BY DEF Prompt, At, InProgress, ClosePcs
<1>4. From(c, {"prompt"})
  BY <1>3, Before DEF Prompt, At, From
<1>5. Goes(c, "prompted", <<>>, call[c].p, call[c].fresh)
  BY PromptOutcome, Reaches
<1> QED
  BY <1>1, <1>2, <1>3, <1>4, <1>5 DEF Prompt, manager, chat, From

(* The effect of EndTurn. *)
LEMMA EndTurnEffect ==
    ASSUME Shape, Shape', StartReserved, LaunchedInOrder, NEW c \in Calls,
           NEW success \in BOOLEAN,
           EndTurn(c, success)
    PROVE  /\ Others(c)
           /\ From(c, {"prompt", "prompted"})
           /\ Calm(c)
           /\ UNCHANGED <<installed, start, closed>>
           /\ UNCHANGED retired
           /\ Releases(call[c].p)
           /\ Ends(c)
<1>1. Others(c)
  BY Rest DEF Step
<1>2. Calm(c)
  BY DEF Calm, Shape, EndTurn, Finish
<1>3. InProgress(c) /\ call[c].pc \notin ClosePcs
  BY DEF EndTurn, At, InProgress, ClosePcs
<1>4. From(c, {"prompt", "prompted"})
  BY <1>3, Before DEF EndTurn, At, From
<1>5. Ends(c)
  BY EndTurnOutcome, Reaches DEF Ends
<1> QED
  BY <1>1, <1>2, <1>3, <1>4, <1>5, Sessions DEF EndTurn, manager, chat, From,
     SessionPhases

(* The effect of Reserve. *)
LEMMA ReserveEffect ==
    ASSUME Shape, Shape', StartReserved, LaunchedInOrder, NEW c \in Calls,
           Reserve(c)
    PROVE  /\ Others(c)
           /\ From(c, {"prompted"})
           /\ Calm(c)
           /\ UNCHANGED <<closed, retired>>
           /\ Releases(call[c].p)
           /\ \/ Ends(c) /\ UNCHANGED <<installed, start>>
              \/ /\ ~closed /\ installed = call[c].p /\ start = None
                 /\ installed' = None /\ start' = c
                 /\ Goes(c, "relaunch", <<>>, call[c].p, call[c].fresh)
<1>1. Others(c)
  BY Rest DEF Step
<1>2. Calm(c)
  BY DEF Calm, Shape, Reserve, Finish
<1>3. InProgress(c) /\ call[c].pc \notin ClosePcs
  BY DEF Reserve, At, InProgress, ClosePcs
<1>4. From(c, {"prompted"})
  BY <1>3, Before DEF Reserve, At, From
<1>5. \/ /\ Ends(c)
         /\ UNCHANGED <<installed, start>>
      \/ /\ Goes(c, "relaunch", <<>>, call[c].p, call[c].fresh)
         /\ ~closed /\ installed = call[c].p /\ start = None
         /\ start' = c /\ installed' = None
  BY ReserveOutcome, Reaches DEF Ends
<1> QED
  BY <1>1, <1>2, <1>3, <1>4, <1>5, Sessions DEF Reserve, manager, chat, From,
     SessionPhases

(* The effect of Commit. *)
LEMMA CommitEffect ==
    ASSUME Shape, Shape', StartReserved, LaunchedInOrder, NEW c \in Calls,
           Commit(c)
    PROVE  /\ Others(c)
           /\ From(c, {"commit"})
           /\ Calm(c)
           /\ UNCHANGED <<installed, start, closed>>
           /\ UNCHANGED peer
           /\ \/ /\ retired' = retired \cup {call[c].p}
                 /\ Goes(c, "install", <<>>, call[c].p, call[c].fresh)
              \/ /\ UNCHANGED retired
                 /\ Goes(c, "abort", <<call[c].fresh>>, call[c].p, None)
<1>1. Others(c)
  BY Rest DEF Step
<1>2. Calm(c)
  BY DEF Calm, Shape, Commit, To
<1>3. InProgress(c) /\ call[c].pc \notin ClosePcs
  BY DEF Commit, At, InProgress, ClosePcs
<1>4. From(c, {"commit"})
  BY <1>3, Before DEF Commit, At, From
<1>5. \/ /\ Goes(c, "abort", <<call[c].fresh>>, call[c].p, None)
         /\ UNCHANGED retired
      \/ /\ Goes(c, "install", <<>>, call[c].p, call[c].fresh)
         /\ retired' = retired \cup {call[c].p}
  BY CommitOutcome, Reaches
<1> QED
  BY <1>1, <1>2, <1>3, <1>4, <1>5 DEF Commit, manager, chat, From

(* The effect of Install. *)
LEMMA InstallEffect ==
    ASSUME Shape, Shape', StartReserved, LaunchedInOrder, NEW c \in Calls,
           Install(c)
    PROVE  /\ Others(c)
           /\ From(c, {"install"})
           /\ Calm(c)
           /\ UNCHANGED <<start, closed, retired>>
           /\ \/ /\ closed /\ UNCHANGED <<installed, peer>>
                 /\ Goes(c, "drop", <<call[c].fresh, call[c].p>>, call[c].p, None)
              \/ /\ ~closed /\ installed' = call[c].fresh
                 /\ Becomes(call[c].fresh, peer[call[c].fresh].state,
                            peer[call[c].fresh].closing,
                            peer[call[c].fresh].turn, peer[call[c].fresh].cut, c)
                 /\ Goes(c, "installed", <<call[c].p>>, call[c].fresh, None)
<1>1. Others(c)
  BY Rest DEF Step
<1>2. Calm(c)
  BY DEF Calm, Shape, Install
<1>3. InProgress(c) /\ call[c].pc \notin ClosePcs
  BY DEF Install, At, InProgress, ClosePcs
<1>4. From(c, {"install"})
  BY <1>3, Before DEF Install, At, From
<1>5. \/ /\ closed
         /\ Goes(c, "drop", <<call[c].fresh, call[c].p>>, call[c].p, None)
         /\ UNCHANGED <<installed, peer>>
      \/ /\ ~closed
         /\ Goes(c, "installed", <<call[c].p>>, call[c].fresh, None)
         /\ installed' = call[c].fresh
         /\ peer' = [peer EXCEPT ![call[c].fresh].lock = c]
  BY InstallOutcome, Reaches
<1> QED
  BY <1>1, <1>2, <1>3, <1>4, <1>5, Sessions DEF Install, manager, chat, From,
     FreshPhases

(* The effect of Installed. *)
LEMMA InstalledEffect ==
    ASSUME Shape, Shape', StartReserved, LaunchedInOrder, NEW c \in Calls,
           Installed(c)
    PROVE  /\ Others(c)
           /\ From(c, {"installed"})
           /\ Wakes(c)
           /\ start' = None
           /\ UNCHANGED <<installed, closed, peer, retired>>
           /\ Goes(c, "retry", <<>>, call[c].p, call[c].fresh)
<1>1. Others(c)
  BY Rest DEF Step
<1>2. Wakes(c)
  BY InstalledOutcome, Wakens
<1>3. InProgress(c) /\ call[c].pc \notin ClosePcs
  BY DEF Installed, At, InProgress, ClosePcs
<1>4. From(c, {"installed"})
  BY <1>3, Before DEF Installed, At, From
<1>5. /\ Goes(c, "retry", <<>>, call[c].p, call[c].fresh)
      /\ \A d \in Calls \ {c} : call'[d] = Woken(c)[d]
  BY InstalledOutcome, Reaches
<1> QED
  BY <1>1, <1>2, <1>3, <1>4, <1>5 DEF Installed, manager, chat, From

(* The effect of Abort. *)
LEMMA AbortEffect ==
    ASSUME Shape, Shape', StartReserved, LaunchedInOrder, NEW c \in Calls,
           Abort(c)
    PROVE  /\ Others(c)
           /\ From(c, {"abort"})
           /\ Calm(c)
           /\ start' = None
           /\ UNCHANGED <<closed, peer, retired>>
           /\ \/ closed /\ UNCHANGED installed
                   /\ Goes(c, "aborted", <<call[c].p>>, call[c].p, call[c].fresh)
              \/ ~closed /\ installed' = call[c].p
                   /\ Goes(c, "aborted", <<>>, call[c].p, call[c].fresh)
<1>1. Others(c)
  BY Rest DEF Step
<1>2. Calm(c)
  BY DEF Calm, Shape, Abort
<1>3. InProgress(c) /\ call[c].pc \notin ClosePcs
  BY DEF Abort, At, InProgress, ClosePcs
<1>4. From(c, {"abort"})
  BY <1>3, Before DEF Abort, At, From
<1>5. Goes(c, "aborted", IF closed THEN <<call[c].p>> ELSE <<>>, call[c].p,
           call[c].fresh)
  BY AbortOutcome, Reaches
<1> QED
  BY <1>1, <1>2, <1>3, <1>4, <1>5 DEF Abort, manager, chat, From

(* The effect of Aborted. *)
LEMMA AbortedEffect ==
    ASSUME Shape, Shape', StartReserved, LaunchedInOrder, NEW c \in Calls,
           Aborted(c)
    PROVE  /\ Others(c)
           /\ From(c, {"aborted"})
           /\ Wakes(c)
           /\ Ends(c)
           /\ UNCHANGED <<installed, start, closed>>
           /\ UNCHANGED <<peer, retired>>
<1>1. Others(c)
  BY Rest DEF Step
<1>2. Wakes(c)
  BY AbortedOutcome, Wakens
<1>3. InProgress(c) /\ call[c].pc \notin ClosePcs
  BY DEF Aborted, At, InProgress, ClosePcs
<1>4. From(c, {"aborted"})
  BY <1>3, Before DEF Aborted, At, From
<1>5. /\ Ends(c)
      /\ \A d \in Calls \ {c} : call'[d] = Woken(c)[d]
  BY AbortedOutcome, Reaches DEF Ends
<1> QED
  BY <1>1, <1>2, <1>3, <1>4, <1>5 DEF Aborted, manager, chat, From

(* The effect of CloseAdmission. *)
LEMMA CloseAdmissionEffect ==
    ASSUME Shape, Shape', StartReserved, LaunchedInOrder, NEW c \in Calls,
           CloseAdmission(c)
    PROVE  /\ Others(c)
           /\ InProgress(c) /\ call[c].pc = "close"
           /\ Calm(c)
           /\ UNCHANGED <<installed, start, closed>>
           /\ UNCHANGED retired
           /\ Head(call[c].todo) \in Peers
           /\ StopsTurns(Head(call[c].todo))
           /\ InProgress(c)' /\ Phase(c)' = Phase(c) /\ call'[c].pc = "kill"
           /\ call'[c].todo = call[c].todo /\ call[c].todo \in Seq(Peers)
           /\ call[c].todo # <<>>
           /\ call'[c].p = call[c].p /\ call'[c].fresh = call[c].fresh
           /\ call'[c].kind = call[c].kind /\ call'[c].failed = call[c].failed
           /\ call'[c].waits = None /\ call[c].waits = None
           /\ Phase(c) \in NextPcs
           /\ (call[c].kind = "shutdown" => Phase(c) = "end")
           /\ call[c].fresh \notin Peers
<1>1. Others(c)
  BY Rest DEF Step
<1>2. Calm(c)
  BY DEF Calm, Shape, CloseAdmission, To
<1>3. InProgress(c) /\ call[c] \in GoodCalls /\ call[c] \in CallRecords
  BY Progress DEF CloseAdmission, At, InProgress, GoodCalls
<1>4. /\ call[c].todo \in Seq(Peers) /\ call[c].todo # <<>>
      /\ call[c].waits = None /\ call[c].fresh \notin Peers
      /\ call[c].next \in NextPcs /\ Phase(c) = call[c].next
      /\ call[c].kind = "shutdown" => Phase(c) = "end"
  BY <1>3 DEF CloseAdmission, At, GoodCalls, CallRecords, Is, ClosePcs,
     FreshPhases, Phase, NextPcs
<1>5. Head(call[c].todo) \in Peers
  BY <1>4
<1> QED
  BY <1>1, <1>2, <1>3, <1>4, <1>5, CloseAdmissionOutcome, Reaches, Sessions
     DEF CloseAdmission, At, manager, chat, Reached, Phase

(* The effect of ClosePeer. *)
LEMMA ClosePeerEffect ==
    ASSUME Shape, Shape', StartReserved, LaunchedInOrder, NEW c \in Calls,
           ClosePeer(c)
    PROVE  /\ Others(c)
           /\ InProgress(c) /\ call[c].pc = "kill"
           /\ Calm(c)
           /\ UNCHANGED <<installed, start, closed>>
           /\ UNCHANGED retired
           /\ Head(call[c].todo) \in Peers
           /\ Becomes(Head(call[c].todo), "dead",
                      peer[Head(call[c].todo)].closing,
                      peer[Head(call[c].todo)].turn, peer[Head(call[c].todo)].cut,
                      peer[Head(call[c].todo)].lock)
           /\ InProgress(c)' /\ Phase(c)' = Phase(c) /\ call'[c].pc = "drain"
           /\ call'[c].todo = call[c].todo /\ call[c].todo \in Seq(Peers)
           /\ call[c].todo # <<>>
           /\ call'[c].p = call[c].p /\ call'[c].fresh = call[c].fresh
           /\ call'[c].kind = call[c].kind /\ call'[c].failed = call[c].failed
           /\ call'[c].waits = None /\ call[c].waits = None
           /\ Phase(c) \in NextPcs
           /\ (call[c].kind = "shutdown" => Phase(c) = "end")
           /\ call[c].fresh \notin Peers
<1>1. Others(c)
  BY Rest DEF Step
<1>2. Calm(c)
  BY DEF Calm, Shape, ClosePeer, To
<1>3. InProgress(c) /\ call[c] \in GoodCalls /\ call[c] \in CallRecords
  BY Progress DEF ClosePeer, At, InProgress, GoodCalls
<1>4. /\ call[c].todo \in Seq(Peers) /\ call[c].todo # <<>>
      /\ call[c].waits = None /\ call[c].fresh \notin Peers
      /\ call[c].next \in NextPcs /\ Phase(c) = call[c].next
      /\ call[c].kind = "shutdown" => Phase(c) = "end"
  BY <1>3 DEF ClosePeer, At, GoodCalls, CallRecords, Is, ClosePcs,
     FreshPhases, Phase, NextPcs
<1>5. Head(call[c].todo) \in Peers
  BY <1>4
<1> QED
  BY <1>1, <1>2, <1>3, <1>4, <1>5, ClosePeerOutcome, Reaches, Sessions DEF
     ClosePeer, At, manager, chat, Reached, Phase

(* The effect of DrainTurn. *)
LEMMA DrainTurnEffect ==
    ASSUME Shape, Shape', StartReserved, LaunchedInOrder, NEW c \in Calls,
           NEW inTime \in BOOLEAN,
           DrainTurn(c, inTime)
    PROVE  /\ Others(c)
           /\ InProgress(c) /\ call[c].pc = "drain"
           /\ Calm(c)
           /\ UNCHANGED <<installed, start, closed>>
           /\ UNCHANGED <<peer, retired>>
           /\ call[c].todo \in Seq(Peers) /\ call[c].todo # <<>>
           /\ Phase(c) \in NextPcs
           /\ call[c].kind = "shutdown" => Phase(c) = "end"
           /\ call[c].fresh \notin Peers /\ call[c].waits = None
           /\ call'[c].failed = (call[c].failed \/ ~inTime)
           /\ Goes(c, Phase(c), Tail(call[c].todo), call[c].p, call[c].fresh)
<1>1. Others(c)
  BY Rest DEF Step
<1>2. Calm(c)
  BY DEF Calm, Shape, DrainTurn
<1>3. InProgress(c) /\ call[c] \in GoodCalls /\ call[c] \in CallRecords
  BY Progress DEF DrainTurn, At, InProgress, GoodCalls
<1>4. /\ call[c].todo \in Seq(Peers) /\ call[c].todo # <<>>
      /\ call[c].waits = None /\ call[c].fresh \notin Peers
      /\ call[c].next \in NextPcs /\ Phase(c) = call[c].next
      /\ call[c].kind = "shutdown" => Phase(c) = "end"
  BY <1>3 DEF DrainTurn, At, GoodCalls, CallRecords, Is, ClosePcs,
     FreshPhases, Phase, NextPcs
<1>5. Head(call[c].todo) \in Peers
  BY <1>4
<1> QED
  BY <1>1, <1>2, <1>3, <1>4, <1>5, DrainTurnOutcome, Reaches DEF DrainTurn,
     At, manager, chat, Phase, NextPcs

(* The effect of TakeSession. *)
LEMMA TakeSessionEffect ==
    ASSUME Shape, Shape', StartReserved, LaunchedInOrder, NEW c \in Calls,
           TakeSession(c)
    PROVE  /\ Others(c)
           /\ From(c, {"take"})
           /\ Calm(c)
           /\ installed' = None
           /\ UNCHANGED <<start, closed, peer, retired>>
           /\ Goes(c, "end",
                   (IF installed = None THEN <<>> ELSE <<installed>>),
                   call[c].p, call[c].fresh)
<1>1. Others(c)
  BY Rest DEF Step
<1>2. Calm(c)
  BY DEF Calm, Shape, TakeSession
<1>3. InProgress(c) /\ call[c].pc \notin ClosePcs
  BY DEF TakeSession, At, InProgress, ClosePcs
<1>4. From(c, {"take"})
  BY <1>3, Before DEF TakeSession, At, From
<1>5. Goes(c, "end", IF installed = None THEN <<>> ELSE <<installed>>,
           call[c].p, call[c].fresh)
  BY TakeSessionOutcome, Reaches
<1> QED
  BY <1>1, <1>2, <1>3, <1>4, <1>5 DEF TakeSession, From

(* The effect of Shutdown. *)
LEMMA ShutdownEffect ==
    ASSUME Shape, Shape', StartReserved, LaunchedInOrder, NEW c \in Calls,
           Shutdown(c)
    PROVE  /\ Others(c)
           /\ From(c, {"shutdown"})
           /\ Calm(c)
           /\ installed' = None /\ closed'
           /\ UNCHANGED <<start, peer, retired>>
           /\ call'[c].waits = start
           /\ InProgress(c)' /\ Phase(c)' = "waitStarts"
           /\ call'[c].pc = "waitStarts"
           /\ call'[c].todo = IF installed = None THEN <<>> ELSE <<installed>>
           /\ call'[c].p = call[c].p /\ call'[c].fresh = call[c].fresh
           /\ call'[c].kind = call[c].kind
<1>1. Others(c)
  BY Rest DEF Step
<1>2. Calm(c)
  BY ShutdownOutcome DEF Calm
<1>3. InProgress(c) /\ call[c].pc \notin ClosePcs
  BY DEF Shutdown, At, InProgress, ClosePcs
<1>4. From(c, {"shutdown"})
  BY <1>3, Before DEF Shutdown, At, From
<1> QED
  BY <1>1, <1>2, <1>3, <1>4, ShutdownOutcome, Reaches, Quiet DEF Shutdown,
     manager, chat, Reached, Phase, From

(* The effect of StartsDone. *)
LEMMA StartsDoneEffect ==
    ASSUME Shape, Shape', StartReserved, LaunchedInOrder, NEW c \in Calls,
           NEW inTime \in BOOLEAN,
           StartsDone(c, inTime)
    PROVE  /\ Others(c)
           /\ From(c, {"waitStarts"})
           /\ Calm(c)
           /\ UNCHANGED <<installed, start, closed>>
           /\ UNCHANGED <<peer, retired>>
           /\ call'[c].failed = ~inTime
           /\ inTime <=> call[c].waits = None
           /\ Goes(c, "end", call[c].todo, call[c].p, call[c].fresh)
<1>1. Others(c)
  BY Rest DEF Step
<1>2. Calm(c)
  BY DEF Calm, Shape, StartsDone
<1>3. InProgress(c) /\ call[c].pc \notin ClosePcs
  BY DEF StartsDone, At, InProgress, ClosePcs
<1>4. From(c, {"waitStarts"})
  BY <1>3, Before DEF StartsDone, At, From
<1> QED
  BY <1>1, <1>2, <1>3, <1>4, StartsDoneOutcome, Reaches DEF StartsDone,
     manager, chat, From

(* The effect of Return. *)
LEMMA ReturnEffect ==
    ASSUME Shape, Shape', StartReserved, LaunchedInOrder, NEW c \in Calls,
           Return(c)
    PROVE  /\ Others(c)
           /\ From(c, {"end"})
           /\ Calm(c)
           /\ ~InProgress(c)' /\ call'[c].pc = "done"
           /\ call'[c].kind = "shutdown" =>
                call[c].kind = "shutdown" /\ ~call[c].failed
           /\ UNCHANGED <<installed, start, closed>>
           /\ UNCHANGED <<peer, retired>>
<1>1. Others(c)
  BY Rest DEF Step
<1>2. Calm(c)
  BY DEF Calm, Shape, Return, Finish
<1>3. InProgress(c) /\ call[c].pc \notin ClosePcs
  BY DEF Return, At, InProgress, ClosePcs
<1>4. From(c, {"end"})
  BY <1>3, Before DEF Return, At, From
<1> QED
  BY <1>1, <1>2, <1>3, <1>4, ReturnOutcome, Reaches DEF Return, manager, chat

-----------------------------------------------------------------------------
(* The ranges of the fields the invariants are about. *)
LEMMA Fields ==
    ASSUME Shape
    PROVE  /\ start \in Calls \cup {None} /\ installed \in Peers \cup {None}
           /\ closed \in BOOLEAN /\ retired \subseteq Peers
           /\ \A p \in Peers :
                /\ peer[p].lock \in Calls \cup {None}
                /\ peer[p].turn \in Calls \cup {None}
                /\ peer[p].closing \in BOOLEAN /\ peer[p].cut \in BOOLEAN
           /\ \A c \in Calls : InProgress(c) =>
                /\ call[c].waits \in Calls \cup {None}
                /\ call[c].p \in Peers \cup {None}
                /\ call[c].fresh \in Peers \cup {None}
                /\ call[c].todo \in Seq(Peers)
                /\ call[c].failed \in BOOLEAN
<1>1. \A p \in Peers : peer[p] \in PeerRecords
  BY DEF Shape
<1>2. \A c \in Calls : InProgress(c) => call[c] \in CallRecords
  BY Progress DEF GoodCalls
<1> QED  BY <1>1, <1>2 DEF Shape, PeerRecords, CallRecords

(* Sessions a call has to close. *)
LEMMA Ranges ==
    /\ Range(<<>>) = {}
    /\ \A p, q : Range(<<p>>) = {p} /\ Range(<<p, q>>) = {p, q}
    /\ \A s \in Seq(Peers) : s # <<>> =>
         Range(s) = {Head(s)} \cup Range(Tail(s))
<1>1. ASSUME NEW s \in Seq(Peers), s # <<>>
      PROVE  Range(s) = {Head(s)} \cup Range(Tail(s))
  <2>1. \A i \in DOMAIN s : i # 1 =>
          i - 1 \in DOMAIN Tail(s) /\ s[i] = Tail(s)[i - 1]
    BY <1>1
  <2>2. \A i \in DOMAIN Tail(s) : i + 1 \in DOMAIN s /\ Tail(s)[i] = s[i + 1]
    BY <1>1
  <2>3. 1 \in DOMAIN s /\ Head(s) = s[1]
    BY <1>1
  <2>4. ASSUME NEW x \in Range(s) PROVE x \in {Head(s)} \cup Range(Tail(s))
    <3>1. PICK i \in DOMAIN s : x = s[i]
      BY <2>4 DEF Range
    <3>2. CASE i = 1
      BY <2>3, <3>1, <3>2
    <3>3. CASE i # 1
      BY <2>1, <3>1, <3>3 DEF Range
    <3> QED  BY <3>2, <3>3
  <2>5. ASSUME NEW x \in Range(Tail(s)) PROVE x \in Range(s)
    BY <2>2, <2>5 DEF Range
  <2>6. Head(s) \in Range(s)
    BY <2>3 DEF Range
  <2> HIDE DEF Range
  <2> QED  BY <2>4, <2>5, <2>6
<1> QED  BY <1>1 DEF Range

(* A call waits for a start that will wake it. *)
WaitInv ==
    \A c \in Calls :
        InProgress(c) /\ call[c].waits # None => Starting(call[c].waits)

(* Every step keeps the waits backed. *)
LEMMA WaitKept ==
    ASSUME Shape, Shape', StartReserved, LaunchedInOrder,
           WaitInv, [Next]_vars
    PROVE  WaitInv'
<1>1. ASSUME NEW c \in Calls, NEW kind \in KindsOf[c], Begin(c, kind)
      PROVE  WaitInv'
  BY <1>1, BeginEffect, Fields DEF Others, Kept, Calm, WaitInv, Starting
<1>2. ASSUME NEW c \in Calls, CancelContext(c) PROVE WaitInv'
  BY <1>2, CancelContextEffect, Fields DEF Others, Kept, Calm, WaitInv,
     Starting
<1>3. ASSUME NEW c \in Calls, Session(c) PROVE WaitInv'
  BY <1>3, SessionEffect, Fields DEF Others, Kept, Goes, Ends, From, Calm,
     WaitInv, Starting, StartReserved, StartPhases
<1>4. ASSUME NEW c \in Calls, StopWaiting(c) PROVE WaitInv'
  BY <1>4, StopWaitingEffect, Fields DEF Others, Kept, Ends, From, Calm,
     WaitInv, Starting
<1>5. ASSUME NEW c \in Calls, Launch(c) PROVE WaitInv'
  BY <1>5, LaunchEffect, Fields DEF Others, Kept, Goes, From, Calm, WaitInv,
     Starting
<1>6. ASSUME NEW c \in Calls, LaunchFails(c) PROVE WaitInv'
  BY <1>6, LaunchFailsEffect, Fields DEF Others, Kept, Goes, From, Calm,
     WaitInv, Starting
<1>7. ASSUME NEW c \in Calls, Attach(c) PROVE WaitInv'
  BY <1>7, AttachEffect, Fields DEF Others, Kept, Goes, From, Calm, WaitInv,
     Starting
<1>8. ASSUME NEW c \in Calls, AttachFails(c) PROVE WaitInv'
  BY <1>8, AttachFailsEffect, Fields DEF Others, Kept, Goes, From, Calm,
     WaitInv, Starting
<1>9. ASSUME NEW c \in Calls, PersistRecovery(c) PROVE WaitInv'
  BY <1>9, PersistRecoveryEffect, Fields DEF Others, Kept, Goes, From, Calm,
     WaitInv, Starting
<1>10. ASSUME NEW c \in Calls, Drop(c) PROVE WaitInv'
  BY <1>10, DropEffect, Fields DEF Others, Kept, Ends, From, Wakes, WaitInv,
     Starting
<1>11. ASSUME NEW c \in Calls, Publish(c) PROVE WaitInv'
  BY <1>11, PublishEffect, Fields DEF Others, Kept, Goes, From, Calm, WaitInv,
     Starting
<1>12. ASSUME NEW c \in Calls, Published(c) PROVE WaitInv'
  BY <1>12, PublishedEffect, Fields DEF Others, Kept, Goes, Ends, From, Wakes,
     WaitInv, Starting
<1>13. ASSUME NEW c \in Calls, TurnLock(c) PROVE WaitInv'
  BY <1>13, TurnLockEffect, Fields DEF Others, Kept, Goes, From, Calm,
     WaitInv, Starting
<1>14. ASSUME NEW c \in Calls, CheckCurrent(c) PROVE WaitInv'
  BY <1>14, CheckCurrentEffect, Fields DEF Others, Kept, Goes, Ends, From,
     Calm, WaitInv, Starting
<1>15. ASSUME NEW c \in Calls, BeginTurn(c) PROVE WaitInv'
  BY <1>15, BeginTurnEffect, Fields DEF Others, Kept, Goes, Ends, From, Calm,
     WaitInv, Starting
<1>16. ASSUME NEW c \in Calls, Prompt(c) PROVE WaitInv'
  BY <1>16, PromptEffect, Fields DEF Others, Kept, Goes, From, Calm, WaitInv,
     Starting
<1>17. ASSUME NEW c \in Calls, NEW success \in BOOLEAN, EndTurn(c, success)
       PROVE  WaitInv'
  BY <1>17, EndTurnEffect, Fields DEF Others, Kept, Ends, From, Calm, WaitInv,
     Starting
<1>18. ASSUME NEW c \in Calls, Reserve(c) PROVE WaitInv'
  BY <1>18, ReserveEffect, Fields DEF Others, Kept, Goes, Ends, From, Calm,
     WaitInv, Starting
<1>19. ASSUME NEW c \in Calls, Commit(c) PROVE WaitInv'
  BY <1>19, CommitEffect, Fields DEF Others, Kept, Goes, From, Calm, WaitInv,
     Starting
<1>20. ASSUME NEW c \in Calls, Install(c) PROVE WaitInv'
  BY <1>20, InstallEffect, Fields DEF Others, Kept, Goes, From, Calm, WaitInv,
     Starting
<1>21. ASSUME NEW c \in Calls, Installed(c) PROVE WaitInv'
  BY <1>21, InstalledEffect, Fields DEF Others, Kept, Goes, From, Wakes,
     WaitInv, Starting
<1>22. ASSUME NEW c \in Calls, Abort(c) PROVE WaitInv'
  BY <1>22, AbortEffect, Fields DEF Others, Kept, Goes, From, Calm, WaitInv,
     Starting
<1>23. ASSUME NEW c \in Calls, Aborted(c) PROVE WaitInv'
  BY <1>23, AbortedEffect, Fields DEF Others, Kept, Ends, From, Wakes,
     WaitInv, Starting
<1>24. ASSUME NEW c \in Calls, CloseAdmission(c) PROVE WaitInv'
  BY <1>24, CloseAdmissionEffect, Fields DEF Others, Kept, Calm, WaitInv,
     Starting
<1>25. ASSUME NEW c \in Calls, ClosePeer(c) PROVE WaitInv'
  BY <1>25, ClosePeerEffect, Fields DEF Others, Kept, Calm, WaitInv, Starting
<1>26. ASSUME NEW c \in Calls, NEW inTime \in BOOLEAN, DrainTurn(c, inTime)
       PROVE  WaitInv'
  BY <1>26, DrainTurnEffect, Fields DEF Others, Kept, Goes, Calm, WaitInv,
     Starting, NextPcs
<1>27. ASSUME NEW c \in Calls, TakeSession(c) PROVE WaitInv'
  BY <1>27, TakeSessionEffect, Fields DEF Others, Kept, Goes, From, Calm,
     WaitInv, Starting
<1>28. ASSUME NEW c \in Calls, Shutdown(c) PROVE WaitInv'
  BY <1>28, ShutdownEffect, Fields DEF Others, Kept, From, Calm, WaitInv,
     Starting, StartReserved, StartPhases
<1>29. ASSUME NEW c \in Calls, NEW inTime \in BOOLEAN, StartsDone(c, inTime)
       PROVE  WaitInv'
  BY <1>29, StartsDoneEffect, Fields DEF Others, Kept, Goes, From, Calm,
     WaitInv, Starting
<1>30. ASSUME NEW c \in Calls, Return(c) PROVE WaitInv'
  BY <1>30, ReturnEffect, Fields DEF Others, Kept, From, Calm, WaitInv,
     Starting
<1>31. ASSUME NEW n \in Peers \cup {Old}, LoseNative(n) PROVE WaitInv'
  BY <1>31 DEF LoseNative, InProgress, Phase, WaitInv, Starting
<1>32. CASE UNCHANGED vars
  BY <1>32 DEF vars, InProgress, Phase, WaitInv, Starting
<1> QED  BY <1>1, <1>2, <1>3, <1>4, <1>5, <1>6, <1>7, <1>8, <1>9, <1>10,
   <1>11, <1>12, <1>13, <1>14, <1>15, <1>16, <1>17, <1>18, <1>19, <1>20,
   <1>21, <1>22, <1>23, <1>24, <1>25, <1>26, <1>27, <1>28, <1>29, <1>30,
   <1>31, <1>32 DEF Next, Step

(* A session that a call has started and not installed is its own, and an  *)
(* adapter that has not been launched is in nobody's hands.                *)
FreshInv ==
    /\ \A q \in Peers : peer[q].state = "none" =>
          /\ installed # q
          /\ \A c \in Calls : InProgress(c) => q \notin {call[c].p, call[c].fresh}
    /\ \A c \in Calls : InProgress(c) /\ call[c].fresh # None =>
          /\ installed # call[c].fresh
          /\ \A d \in Calls : InProgress(d) =>
                /\ call[d].p # call[c].fresh
                /\ d # c => call[d].fresh # call[c].fresh

(* Every step keeps started sessions with their calls. *)
LEMMA FreshKept ==
    ASSUME Shape, Shape', StartReserved, LaunchedInOrder,
           FreshInv, [Next]_vars
    PROVE  FreshInv'
<1>1. ASSUME NEW c \in Calls, NEW kind \in KindsOf[c], Begin(c, kind)
      PROVE  FreshInv'
  BY <1>1, BeginEffect, SessionsAssumption DEF Others, Kept, FreshInv
<1>2. ASSUME NEW c \in Calls, CancelContext(c) PROVE FreshInv'
  BY <1>2, CancelContextEffect DEF Others, Kept, FreshInv
<1>3. ASSUME NEW c \in Calls, Session(c) PROVE FreshInv'
  BY <1>3, SessionEffect DEF Others, Kept, Goes, Ends, From, FreshInv
<1>4. ASSUME NEW c \in Calls, StopWaiting(c) PROVE FreshInv'
  BY <1>4, StopWaitingEffect DEF Others, Kept, Ends, From, FreshInv
<1>5. ASSUME NEW c \in Calls, Launch(c) PROVE FreshInv'
  BY <1>5, LaunchEffect DEF Others, Kept, Goes, From, Becomes, FreshInv
<1>6. ASSUME NEW c \in Calls, LaunchFails(c) PROVE FreshInv'
  BY <1>6, LaunchFailsEffect DEF Others, Kept, Goes, From, FreshInv
<1>7. ASSUME NEW c \in Calls, Attach(c) PROVE FreshInv'
  BY <1>7, AttachEffect DEF Others, Kept, Goes, From, Becomes, FreshInv
<1>8. ASSUME NEW c \in Calls, AttachFails(c) PROVE FreshInv'
  BY <1>8, AttachFailsEffect, SessionsAssumption DEF Others, Kept, Goes, From,
     Becomes, FreshInv
<1>9. ASSUME NEW c \in Calls, PersistRecovery(c) PROVE FreshInv'
  BY <1>9, PersistRecoveryEffect, SessionsAssumption DEF Others, Kept, Goes,
     From, FreshInv
<1>10. ASSUME NEW c \in Calls, Drop(c) PROVE FreshInv'
  BY <1>10, DropEffect DEF Others, Kept, Ends, From, FreshInv
<1>11. ASSUME NEW c \in Calls, Publish(c) PROVE FreshInv'
  BY <1>11, PublishEffect, SessionsAssumption DEF Others, Kept, Goes, From,
     FreshInv
<1>12. ASSUME NEW c \in Calls, Published(c) PROVE FreshInv'
  BY <1>12, PublishedEffect DEF Others, Kept, Goes, Ends, From, FreshInv
<1>13. ASSUME NEW c \in Calls, TurnLock(c) PROVE FreshInv'
  BY <1>13, TurnLockEffect DEF Others, Kept, Goes, From, Becomes, FreshInv
<1>14. ASSUME NEW c \in Calls, CheckCurrent(c) PROVE FreshInv'
  BY <1>14, CheckCurrentEffect DEF Others, Kept, Goes, Ends, From, Becomes,
     FreshInv
<1>15. ASSUME NEW c \in Calls, BeginTurn(c) PROVE FreshInv'
  BY <1>15, BeginTurnEffect DEF Others, Kept, Goes, Ends, From, Becomes,
     FreshInv
<1>16. ASSUME NEW c \in Calls, Prompt(c) PROVE FreshInv'
  BY <1>16, PromptEffect DEF Others, Kept, Goes, From, FreshInv
<1>17. ASSUME NEW c \in Calls, NEW success \in BOOLEAN, EndTurn(c, success)
       PROVE  FreshInv'
  BY <1>17, EndTurnEffect DEF Others, Kept, Ends, From, Releases, FreshInv
<1>18. ASSUME NEW c \in Calls, Reserve(c) PROVE FreshInv'
  BY <1>18, ReserveEffect, SessionsAssumption DEF Others, Kept, Goes, Ends,
     From, Releases, FreshInv
<1>19. ASSUME NEW c \in Calls, Commit(c) PROVE FreshInv'
  BY <1>19, CommitEffect, SessionsAssumption DEF Others, Kept, Goes, From,
     FreshInv
<1>20. ASSUME NEW c \in Calls, Install(c) PROVE FreshInv'
  BY <1>20, InstallEffect, SessionsAssumption DEF Others, Kept, Goes, From,
     Becomes, FreshInv
<1>21. ASSUME NEW c \in Calls, Installed(c) PROVE FreshInv'
  BY <1>21, InstalledEffect DEF Others, Kept, Goes, From, FreshInv
<1>22. ASSUME NEW c \in Calls, Abort(c) PROVE FreshInv'
  BY <1>22, AbortEffect DEF Others, Kept, Goes, From, FreshInv
<1>23. ASSUME NEW c \in Calls, Aborted(c) PROVE FreshInv'
  BY <1>23, AbortedEffect DEF Others, Kept, Ends, From, FreshInv
<1>24. ASSUME NEW c \in Calls, CloseAdmission(c) PROVE FreshInv'
  BY <1>24, CloseAdmissionEffect DEF Others, Kept, StopsTurns, FreshInv
<1>25. ASSUME NEW c \in Calls, ClosePeer(c) PROVE FreshInv'
  BY <1>25, ClosePeerEffect DEF Others, Kept, Becomes, FreshInv
<1>26. ASSUME NEW c \in Calls, NEW inTime \in BOOLEAN, DrainTurn(c, inTime)
       PROVE  FreshInv'
  BY <1>26, DrainTurnEffect DEF Others, Kept, Goes, FreshInv
<1>27. ASSUME NEW c \in Calls, TakeSession(c) PROVE FreshInv'
  BY <1>27, TakeSessionEffect, SessionsAssumption DEF Others, Kept, Goes,
     From, FreshInv
<1>28. ASSUME NEW c \in Calls, Shutdown(c) PROVE FreshInv'
  BY <1>28, ShutdownEffect, SessionsAssumption DEF Others, Kept, From,
     FreshInv
<1>29. ASSUME NEW c \in Calls, NEW inTime \in BOOLEAN, StartsDone(c, inTime)
       PROVE  FreshInv'
  BY <1>29, StartsDoneEffect DEF Others, Kept, Goes, From, FreshInv
<1>30. ASSUME NEW c \in Calls, Return(c) PROVE FreshInv'
  BY <1>30, ReturnEffect DEF Others, Kept, From, FreshInv
<1>31. ASSUME NEW n \in Peers \cup {Old}, LoseNative(n) PROVE FreshInv'
  BY <1>31 DEF LoseNative, manager, InProgress, Phase, FreshInv
<1>32. CASE UNCHANGED vars
  BY <1>32 DEF vars, InProgress, Phase, FreshInv
<1> QED  BY <1>1, <1>2, <1>3, <1>4, <1>5, <1>6, <1>7, <1>8, <1>9, <1>10,
   <1>11, <1>12, <1>13, <1>14, <1>15, <1>16, <1>17, <1>18, <1>19, <1>20,
   <1>21, <1>22, <1>23, <1>24, <1>25, <1>26, <1>27, <1>28, <1>29, <1>30,
   <1>31, <1>32 DEF Next, Step

(* The turn lock of a session is held by the call that is in its turn. *)
Holds(c) ==
    /\ InProgress(c)
    /\ Phase(c) \in {"check", "turn", "retry", "prompt", "prompted", "installed"}

LockInv ==
    /\ \A c \in Calls : Holds(c) => peer[call[c].p].lock = c
    /\ \A p \in Peers : peer[p].lock # None =>
          Holds(peer[p].lock) /\ call[peer[p].lock].p = p

(* What a step of call c may do with locks: nothing, take a free one, or   *)
(* release its own.                                                        *)
Leaves(c) ==
    /\ \A q \in Peers : peer'[q].lock = peer[q].lock
    /\ Holds(c)' <=> Holds(c)
    /\ Holds(c) => call'[c].p = call[c].p
Takes(c, p) ==
    /\ peer[p].lock = None
    /\ \A q \in Peers : peer'[q].lock = IF q = p THEN c ELSE peer[q].lock
    /\ ~Holds(c) /\ Holds(c)' /\ call'[c].p = p
Frees(c, p) ==
    /\ Holds(c) /\ call[c].p = p
    /\ \A q \in Peers : peer'[q].lock = IF q = p THEN None ELSE peer[q].lock
    /\ ~Holds(c)'

(* Such a step keeps the turn locks right. *)
LEMMA Locks ==
    ASSUME Shape, Shape', LockInv, NEW c \in Calls, Others(c),
           Leaves(c) \/ \E p \in Peers : Takes(c, p) \/ Frees(c, p)
    PROVE  LockInv'
<1>1. /\ \A d \in Calls \ {c} : Holds(d)' <=> Holds(d)
      /\ \A d \in Calls \ {c} : Holds(d) => call'[d].p = call[d].p
      /\ \A d \in Calls : Holds(d) => call[d].p \in Peers
  BY Progress DEF Others, Kept, Holds, GoodCalls, Is, SessionPhases, Phase
<1>2. CASE Leaves(c)
  BY <1>1, <1>2, Fields DEF LockInv, Leaves
<1>3. ASSUME NEW p \in Peers, Takes(c, p) PROVE LockInv'
  BY <1>1, <1>3, Fields, SessionsAssumption DEF LockInv, Takes
<1>4. ASSUME NEW p \in Peers, Frees(c, p) PROVE LockInv'
  BY <1>1, <1>4, Fields DEF LockInv, Frees
<1> QED  BY <1>2, <1>3, <1>4

(* Every step keeps the locks with their turns. *)
LEMMA LockKept ==
    ASSUME Shape, Shape', StartReserved, LaunchedInOrder,
           FreshInv, LockInv, [Next]_vars
    PROVE  LockInv'
<1>1. ASSUME NEW c \in Calls, NEW kind \in KindsOf[c], Begin(c, kind)
      PROVE  LockInv'
  <2>1. Leaves(c)
    BY <1>1, BeginEffect DEF Holds, Leaves
  <2> QED  BY <1>1, <2>1, BeginEffect, Locks
<1>2. ASSUME NEW c \in Calls, CancelContext(c) PROVE LockInv'
  <2>1. Leaves(c)
    BY <1>2, CancelContextEffect DEF Holds, Leaves
  <2> QED  BY <1>2, <2>1, CancelContextEffect, Locks
<1>3. ASSUME NEW c \in Calls, Session(c) PROVE LockInv'
  <2>1. Leaves(c)
    BY <1>3, SessionEffect DEF From, Goes, Ends, Holds, Leaves
  <2> QED  BY <1>3, <2>1, SessionEffect, Locks
<1>4. ASSUME NEW c \in Calls, StopWaiting(c) PROVE LockInv'
  <2>1. Leaves(c)
    BY <1>4, StopWaitingEffect DEF From, Ends, Holds, Leaves
  <2> QED  BY <1>4, <2>1, StopWaitingEffect, Locks
<1>5. ASSUME NEW c \in Calls, Launch(c) PROVE LockInv'
  <2>1. Leaves(c)
    BY <1>5, LaunchEffect DEF From, Goes, Becomes, Holds, Leaves
  <2> QED  BY <1>5, <2>1, LaunchEffect, Locks
<1>6. ASSUME NEW c \in Calls, LaunchFails(c) PROVE LockInv'
  <2>1. Leaves(c)
    BY <1>6, LaunchFailsEffect DEF From, Goes, Holds, Leaves
  <2> QED  BY <1>6, <2>1, LaunchFailsEffect, Locks
<1>7. ASSUME NEW c \in Calls, Attach(c) PROVE LockInv'
  <2>1. Leaves(c)
    BY <1>7, AttachEffect DEF From, Goes, Becomes, Holds, Leaves
  <2> QED  BY <1>7, <2>1, AttachEffect, Locks
<1>8. ASSUME NEW c \in Calls, AttachFails(c) PROVE LockInv'
  <2>1. Leaves(c)
    BY <1>8, AttachFailsEffect DEF From, Goes, Becomes, Holds, Leaves
  <2> QED  BY <1>8, <2>1, AttachFailsEffect, Locks
<1>9. ASSUME NEW c \in Calls, PersistRecovery(c) PROVE LockInv'
  <2>1. Leaves(c)
    BY <1>9, PersistRecoveryEffect DEF From, Goes, Holds, Leaves
  <2> QED  BY <1>9, <2>1, PersistRecoveryEffect, Locks
<1>10. ASSUME NEW c \in Calls, Drop(c) PROVE LockInv'
  <2>1. Leaves(c)
    BY <1>10, DropEffect DEF From, Ends, Holds, Leaves
  <2> QED  BY <1>10, <2>1, DropEffect, Locks
<1>11. ASSUME NEW c \in Calls, Publish(c) PROVE LockInv'
  <2>1. Leaves(c)
    BY <1>11, PublishEffect DEF From, Goes, Holds, Leaves
  <2> QED  BY <1>11, <2>1, PublishEffect, Locks
<1>12. ASSUME NEW c \in Calls, Published(c) PROVE LockInv'
  <2>1. Leaves(c)
    BY <1>12, PublishedEffect DEF From, Goes, Ends, Holds, Leaves
  <2> QED  BY <1>12, <2>1, PublishedEffect, Locks
<1>13. ASSUME NEW c \in Calls, TurnLock(c) PROVE LockInv'
  <2>1. call[c].p \in Peers
    BY <1>13, TurnLockEffect DEF From, SessionPhases
  <2>2. Takes(c, call[c].p)
    BY <1>13, <2>1, TurnLockEffect DEF From, Goes, Becomes, Holds, Takes
  <2> QED  BY <1>13, <2>1, <2>2, TurnLockEffect, Locks
<1>14. ASSUME NEW c \in Calls, CheckCurrent(c) PROVE LockInv'
  <2>1. call[c].p \in Peers
    BY <1>14, CheckCurrentEffect DEF From, SessionPhases
  <2>2. Leaves(c) \/ Frees(c, call[c].p)
    BY <1>14, <2>1, CheckCurrentEffect DEF From, Goes, Ends, Becomes, Holds,
       Leaves, Frees
  <2> QED  BY <1>14, <2>1, <2>2, CheckCurrentEffect, Locks
<1>15. ASSUME NEW c \in Calls, BeginTurn(c) PROVE LockInv'
  <2>1. call[c].p \in Peers
    BY <1>15, BeginTurnEffect DEF From, SessionPhases
  <2>2. Leaves(c) \/ Frees(c, call[c].p)
    BY <1>15, <2>1, BeginTurnEffect DEF From, Goes, Ends, Becomes, Holds,
       Leaves, Frees
  <2> QED  BY <1>15, <2>1, <2>2, BeginTurnEffect, Locks
<1>16. ASSUME NEW c \in Calls, Prompt(c) PROVE LockInv'
  <2>1. Leaves(c)
    BY <1>16, PromptEffect DEF From, Goes, Holds, Leaves
  <2> QED  BY <1>16, <2>1, PromptEffect, Locks
<1>17. ASSUME NEW c \in Calls, NEW success \in BOOLEAN, EndTurn(c, success)
       PROVE  LockInv'
  <2>1. call[c].p \in Peers
    BY <1>17, EndTurnEffect DEF From, SessionPhases
  <2>2. Frees(c, call[c].p)
    BY <1>17, <2>1, EndTurnEffect DEF From, Ends, Releases, Holds, Frees
  <2> QED  BY <1>17, <2>1, <2>2, EndTurnEffect, Locks
<1>18. ASSUME NEW c \in Calls, Reserve(c) PROVE LockInv'
  <2>1. call[c].p \in Peers
    BY <1>18, ReserveEffect DEF From, SessionPhases
  <2>2. Frees(c, call[c].p)
    BY <1>18, <2>1, ReserveEffect DEF From, Goes, Ends, Releases, Holds, Frees
  <2> QED  BY <1>18, <2>1, <2>2, ReserveEffect, Locks
<1>19. ASSUME NEW c \in Calls, Commit(c) PROVE LockInv'
  <2>1. Leaves(c)
    BY <1>19, CommitEffect DEF From, Goes, Holds, Leaves
  <2> QED  BY <1>19, <2>1, CommitEffect, Locks
<1>20. ASSUME NEW c \in Calls, Install(c) PROVE LockInv'
  <2>1. call[c].fresh \in Peers /\ peer[call[c].fresh].lock = None
    <3>1. From(c, {"install"})
      BY <1>20, InstallEffect
    <3>2. InProgress(c) /\ call[c].fresh \in Peers
      BY <3>1 DEF From, FreshPhases
    <3>3. \A d \in Calls : InProgress(d) => call[d].p # call[c].fresh
      BY <3>2, SessionsAssumption DEF FreshInv
    <3> QED  BY <3>2, <3>3, Fields DEF LockInv, Holds
  <2>2. Leaves(c) \/ Takes(c, call[c].fresh)
    BY <1>20, <2>1, InstallEffect DEF From, Goes, Becomes, Holds, Leaves,
       Takes
  <2> QED  BY <1>20, <2>1, <2>2, InstallEffect, Locks
<1>21. ASSUME NEW c \in Calls, Installed(c) PROVE LockInv'
  <2>1. Leaves(c)
    BY <1>21, InstalledEffect DEF From, Goes, Holds, Leaves
  <2> QED  BY <1>21, <2>1, InstalledEffect, Locks
<1>22. ASSUME NEW c \in Calls, Abort(c) PROVE LockInv'
  <2>1. Leaves(c)
    BY <1>22, AbortEffect DEF From, Goes, Holds, Leaves
  <2> QED  BY <1>22, <2>1, AbortEffect, Locks
<1>23. ASSUME NEW c \in Calls, Aborted(c) PROVE LockInv'
  <2>1. Leaves(c)
    BY <1>23, AbortedEffect DEF From, Ends, Holds, Leaves
  <2> QED  BY <1>23, <2>1, AbortedEffect, Locks
<1>24. ASSUME NEW c \in Calls, CloseAdmission(c) PROVE LockInv'
  <2>1. Leaves(c)
    BY <1>24, CloseAdmissionEffect DEF StopsTurns, Holds, Leaves
  <2> QED  BY <1>24, <2>1, CloseAdmissionEffect, Locks
<1>25. ASSUME NEW c \in Calls, ClosePeer(c) PROVE LockInv'
  <2>1. Leaves(c)
    BY <1>25, ClosePeerEffect DEF Becomes, Holds, Leaves
  <2> QED  BY <1>25, <2>1, ClosePeerEffect, Locks
<1>26. ASSUME NEW c \in Calls, NEW inTime \in BOOLEAN, DrainTurn(c, inTime)
       PROVE  LockInv'
  <2>1. Leaves(c)
    BY <1>26, DrainTurnEffect DEF Goes, Holds, Leaves
  <2> QED  BY <1>26, <2>1, DrainTurnEffect, Locks
<1>27. ASSUME NEW c \in Calls, TakeSession(c) PROVE LockInv'
  <2>1. Leaves(c)
    BY <1>27, TakeSessionEffect DEF From, Goes, Holds, Leaves
  <2> QED  BY <1>27, <2>1, TakeSessionEffect, Locks
<1>28. ASSUME NEW c \in Calls, Shutdown(c) PROVE LockInv'
  <2>1. Leaves(c)
    BY <1>28, ShutdownEffect DEF From, Holds, Leaves
  <2> QED  BY <1>28, <2>1, ShutdownEffect, Locks
<1>29. ASSUME NEW c \in Calls, NEW inTime \in BOOLEAN, StartsDone(c, inTime)
       PROVE  LockInv'
  <2>1. Leaves(c)
    BY <1>29, StartsDoneEffect DEF From, Goes, Holds, Leaves
  <2> QED  BY <1>29, <2>1, StartsDoneEffect, Locks
<1>30. ASSUME NEW c \in Calls, Return(c) PROVE LockInv'
  <2>1. Leaves(c)
    BY <1>30, ReturnEffect DEF From, Holds, Leaves
  <2> QED  BY <1>30, <2>1, ReturnEffect, Locks
<1>31. ASSUME NEW n \in Peers \cup {Old}, LoseNative(n) PROVE LockInv'
  BY <1>31 DEF LoseNative, InProgress, Phase, LockInv, Holds
<1>32. CASE UNCHANGED vars
  BY <1>32 DEF vars, InProgress, Phase, LockInv, Holds
<1> QED  BY <1>1, <1>2, <1>3, <1>4, <1>5, <1>6, <1>7, <1>8, <1>9, <1>10,
   <1>11, <1>12, <1>13, <1>14, <1>15, <1>16, <1>17, <1>18, <1>19, <1>20,
   <1>21, <1>22, <1>23, <1>24, <1>25, <1>26, <1>27, <1>28, <1>29, <1>30,
   <1>31, <1>32 DEF Next, Step

(* Every step keeps the reservation with the call that owns it. *)
LEMMA StartKept ==
    ASSUME Shape, Shape', StartReserved, LaunchedInOrder,
           [Next]_vars
    PROVE  StartReserved'
<1>1. ASSUME NEW c \in Calls, NEW kind \in KindsOf[c], Begin(c, kind)
      PROVE  StartReserved'
  BY <1>1, BeginEffect DEF Others, Kept, StartReserved, StartPhases
<1>2. ASSUME NEW c \in Calls, CancelContext(c) PROVE StartReserved'
  BY <1>2, CancelContextEffect DEF Others, Kept, StartReserved, StartPhases
<1>3. ASSUME NEW c \in Calls, Session(c) PROVE StartReserved'
  BY <1>3, SessionEffect, SessionsAssumption DEF Others, Kept, Goes, Ends,
     From, StartReserved, StartPhases
<1>4. ASSUME NEW c \in Calls, StopWaiting(c) PROVE StartReserved'
  BY <1>4, StopWaitingEffect DEF Others, Kept, Ends, From, StartReserved,
     StartPhases
<1>5. ASSUME NEW c \in Calls, Launch(c) PROVE StartReserved'
  BY <1>5, LaunchEffect DEF Others, Kept, Goes, From, StartReserved,
     StartPhases
<1>6. ASSUME NEW c \in Calls, LaunchFails(c) PROVE StartReserved'
  BY <1>6, LaunchFailsEffect DEF Others, Kept, Goes, From, StartReserved,
     StartPhases
<1>7. ASSUME NEW c \in Calls, Attach(c) PROVE StartReserved'
  BY <1>7, AttachEffect DEF Others, Kept, Goes, From, StartReserved,
     StartPhases
<1>8. ASSUME NEW c \in Calls, AttachFails(c) PROVE StartReserved'
  BY <1>8, AttachFailsEffect DEF Others, Kept, Goes, From, StartReserved,
     StartPhases
<1>9. ASSUME NEW c \in Calls, PersistRecovery(c) PROVE StartReserved'
  BY <1>9, PersistRecoveryEffect DEF Others, Kept, Goes, From, StartReserved,
     StartPhases
<1>10. ASSUME NEW c \in Calls, Drop(c) PROVE StartReserved'
  BY <1>10, DropEffect, SessionsAssumption DEF Others, Kept, Ends, From,
     StartReserved, StartPhases
<1>11. ASSUME NEW c \in Calls, Publish(c) PROVE StartReserved'
  BY <1>11, PublishEffect, SessionsAssumption DEF Others, Kept, Goes, From,
     StartReserved, StartPhases
<1>12. ASSUME NEW c \in Calls, Published(c) PROVE StartReserved'
  BY <1>12, PublishedEffect DEF Others, Kept, Goes, Ends, From, StartReserved,
     StartPhases
<1>13. ASSUME NEW c \in Calls, TurnLock(c) PROVE StartReserved'
  BY <1>13, TurnLockEffect DEF Others, Kept, Goes, From, StartReserved,
     StartPhases
<1>14. ASSUME NEW c \in Calls, CheckCurrent(c) PROVE StartReserved'
  BY <1>14, CheckCurrentEffect DEF Others, Kept, Goes, Ends, From,
     StartReserved, StartPhases
<1>15. ASSUME NEW c \in Calls, BeginTurn(c) PROVE StartReserved'
  BY <1>15, BeginTurnEffect DEF Others, Kept, Goes, Ends, From, StartReserved,
     StartPhases
<1>16. ASSUME NEW c \in Calls, Prompt(c) PROVE StartReserved'
  BY <1>16, PromptEffect DEF Others, Kept, Goes, From, StartReserved,
     StartPhases
<1>17. ASSUME NEW c \in Calls, NEW success \in BOOLEAN, EndTurn(c, success)
       PROVE  StartReserved'
  BY <1>17, EndTurnEffect DEF Others, Kept, Ends, From, StartReserved,
     StartPhases
<1>18. ASSUME NEW c \in Calls, Reserve(c) PROVE StartReserved'
  BY <1>18, ReserveEffect, SessionsAssumption DEF Others, Kept, Goes, Ends,
     From, StartReserved, StartPhases
<1>19. ASSUME NEW c \in Calls, Commit(c) PROVE StartReserved'
  BY <1>19, CommitEffect DEF Others, Kept, Goes, From, StartReserved,
     StartPhases
<1>20. ASSUME NEW c \in Calls, Install(c) PROVE StartReserved'
  BY <1>20, InstallEffect DEF Others, Kept, Goes, From, StartReserved,
     StartPhases
<1>21. ASSUME NEW c \in Calls, Installed(c) PROVE StartReserved'
  BY <1>21, InstalledEffect, SessionsAssumption DEF Others, Kept, Goes, From,
     StartReserved, StartPhases
<1>22. ASSUME NEW c \in Calls, Abort(c) PROVE StartReserved'
  BY <1>22, AbortEffect, SessionsAssumption DEF Others, Kept, Goes, From,
     StartReserved, StartPhases
<1>23. ASSUME NEW c \in Calls, Aborted(c) PROVE StartReserved'
  BY <1>23, AbortedEffect DEF Others, Kept, Ends, From, StartReserved,
     StartPhases
<1>24. ASSUME NEW c \in Calls, CloseAdmission(c) PROVE StartReserved'
  BY <1>24, CloseAdmissionEffect DEF Others, Kept, StartReserved, StartPhases
<1>25. ASSUME NEW c \in Calls, ClosePeer(c) PROVE StartReserved'
  BY <1>25, ClosePeerEffect DEF Others, Kept, StartReserved, StartPhases
<1>26. ASSUME NEW c \in Calls, NEW inTime \in BOOLEAN, DrainTurn(c, inTime)
       PROVE  StartReserved'
  BY <1>26, DrainTurnEffect DEF Others, Kept, Goes, StartReserved, StartPhases
<1>27. ASSUME NEW c \in Calls, TakeSession(c) PROVE StartReserved'
  BY <1>27, TakeSessionEffect DEF Others, Kept, Goes, From, StartReserved,
     StartPhases
<1>28. ASSUME NEW c \in Calls, Shutdown(c) PROVE StartReserved'
  BY <1>28, ShutdownEffect DEF Others, Kept, From, StartReserved, StartPhases
<1>29. ASSUME NEW c \in Calls, NEW inTime \in BOOLEAN, StartsDone(c, inTime)
       PROVE  StartReserved'
  BY <1>29, StartsDoneEffect DEF Others, Kept, Goes, From, StartReserved,
     StartPhases
<1>30. ASSUME NEW c \in Calls, Return(c) PROVE StartReserved'
  BY <1>30, ReturnEffect DEF Others, Kept, From, StartReserved, StartPhases
<1>31. ASSUME NEW n \in Peers \cup {Old}, LoseNative(n) PROVE StartReserved'
  BY <1>31 DEF LoseNative, manager, InProgress, Phase, StartReserved,
     StartPhases
<1>32. CASE UNCHANGED vars
  BY <1>32 DEF vars, InProgress, Phase, StartReserved, StartPhases
<1> QED  BY <1>1, <1>2, <1>3, <1>4, <1>5, <1>6, <1>7, <1>8, <1>9, <1>10,
   <1>11, <1>12, <1>13, <1>14, <1>15, <1>16, <1>17, <1>18, <1>19, <1>20,
   <1>21, <1>22, <1>23, <1>24, <1>25, <1>26, <1>27, <1>28, <1>29, <1>30,
   <1>31, <1>32 DEF Next, Step

(* The sessions a call has to close have been launched. *)
TodoInv ==
    \A c \in Calls : InProgress(c) =>
        \A q \in Peers : q \in Range(call[c].todo) => peer[q].state # "none"

(* Every step keeps the sessions to close among the launched. *)
LEMMA TodoKept ==
    ASSUME Shape, Shape', StartReserved, LaunchedInOrder,
           FreshInv, TodoInv, [Next]_vars
    PROVE  TodoInv'
<1>1. ASSUME NEW c \in Calls, NEW kind \in KindsOf[c], Begin(c, kind)
      PROVE  TodoInv'
  BY <1>1, BeginEffect, Ranges DEF Others, Kept, TodoInv
<1>2. ASSUME NEW c \in Calls, CancelContext(c) PROVE TodoInv'
  BY <1>2, CancelContextEffect DEF Others, Kept, TodoInv
<1>3. ASSUME NEW c \in Calls, Session(c) PROVE TodoInv'
  BY <1>3, SessionEffect DEF Others, Kept, Goes, Ends, From, TodoInv
<1>4. ASSUME NEW c \in Calls, StopWaiting(c) PROVE TodoInv'
  BY <1>4, StopWaitingEffect DEF Others, Kept, Ends, From, TodoInv
<1>5. ASSUME NEW c \in Calls, Launch(c) PROVE TodoInv'
  BY <1>5, LaunchEffect DEF Others, Kept, Goes, From, Becomes, TodoInv
<1>6. ASSUME NEW c \in Calls, LaunchFails(c) PROVE TodoInv'
  BY <1>6, LaunchFailsEffect DEF Others, Kept, Goes, From, TodoInv
<1>7. ASSUME NEW c \in Calls, Attach(c) PROVE TodoInv'
  BY <1>7, AttachEffect DEF Others, Kept, Goes, From, Becomes, TodoInv
<1>8. ASSUME NEW c \in Calls, AttachFails(c) PROVE TodoInv'
  BY <1>8, AttachFailsEffect DEF Others, Kept, Goes, From, Becomes, TodoInv
<1>9. ASSUME NEW c \in Calls, PersistRecovery(c) PROVE TodoInv'
  <2>1. Range(<<call[c].fresh>>) = {call[c].fresh} /\ Range(<<>>) = {}
    BY Ranges
  <2> QED  BY <1>9, <2>1, PersistRecoveryEffect DEF Others, Kept, Goes, From,
     TodoInv, FreshInv
<1>10. ASSUME NEW c \in Calls, Drop(c) PROVE TodoInv'
  BY <1>10, DropEffect DEF Others, Kept, Ends, From, TodoInv
<1>11. ASSUME NEW c \in Calls, Publish(c) PROVE TodoInv'
  BY <1>11, PublishEffect, Ranges DEF Others, Kept, Goes, From, TodoInv,
     FreshInv
<1>12. ASSUME NEW c \in Calls, Published(c) PROVE TodoInv'
  BY <1>12, PublishedEffect DEF Others, Kept, Goes, Ends, From, TodoInv
<1>13. ASSUME NEW c \in Calls, TurnLock(c) PROVE TodoInv'
  BY <1>13, TurnLockEffect DEF Others, Kept, Goes, From, Becomes, TodoInv
<1>14. ASSUME NEW c \in Calls, CheckCurrent(c) PROVE TodoInv'
  BY <1>14, CheckCurrentEffect DEF Others, Kept, Goes, Ends, From, Becomes,
     TodoInv
<1>15. ASSUME NEW c \in Calls, BeginTurn(c) PROVE TodoInv'
  BY <1>15, BeginTurnEffect DEF Others, Kept, Goes, Ends, From, Becomes,
     TodoInv
<1>16. ASSUME NEW c \in Calls, Prompt(c) PROVE TodoInv'
  BY <1>16, PromptEffect DEF Others, Kept, Goes, From, TodoInv
<1>17. ASSUME NEW c \in Calls, NEW success \in BOOLEAN, EndTurn(c, success)
       PROVE  TodoInv'
  BY <1>17, EndTurnEffect DEF Others, Kept, Ends, From, Releases, TodoInv
<1>18. ASSUME NEW c \in Calls, Reserve(c) PROVE TodoInv'
  BY <1>18, ReserveEffect DEF Others, Kept, Goes, Ends, From, Releases,
     TodoInv
<1>19. ASSUME NEW c \in Calls, Commit(c) PROVE TodoInv'
  <2>1. Range(<<call[c].fresh>>) = {call[c].fresh} /\ Range(<<>>) = {}
    BY Ranges
  <2> QED  BY <1>19, <2>1, CommitEffect DEF Others, Kept, Goes, From, TodoInv,
     FreshInv
<1>20. ASSUME NEW c \in Calls, Install(c) PROVE TodoInv'
  <2>1. Others(c)
    BY <1>20, Rest DEF Step
  <2>2. /\ Range(<<call[c].fresh, call[c].p>>) = {call[c].fresh, call[c].p}
        /\ Range(<<call[c].p>>) = {call[c].p}
    BY Ranges
  <2>3. peer[call[c].fresh].state # "none" /\ peer[call[c].p].state # "none"
    BY <1>20, InstallEffect DEF From, FreshPhases, SessionPhases, FreshInv
  <2>4. \A q \in Peers : peer'[q].state = peer[q].state
    BY <1>20, InstallEffect DEF Becomes
  <2>5. Range(call'[c].todo) \subseteq {call[c].fresh, call[c].p}
    BY <1>20, <2>2, InstallEffect DEF Goes
  <2> QED  BY <2>1, <2>3, <2>4, <2>5 DEF Others, Kept, TodoInv
<1>21. ASSUME NEW c \in Calls, Installed(c) PROVE TodoInv'
  BY <1>21, InstalledEffect DEF Others, Kept, Goes, From, TodoInv
<1>22. ASSUME NEW c \in Calls, Abort(c) PROVE TodoInv'
  <2>1. Range(<<call[c].p>>) = {call[c].p} /\ Range(<<>>) = {}
    BY Ranges
  <2> QED  BY <1>22, <2>1, AbortEffect DEF Others, Kept, Goes, From, TodoInv,
     FreshInv
<1>23. ASSUME NEW c \in Calls, Aborted(c) PROVE TodoInv'
  BY <1>23, AbortedEffect DEF Others, Kept, Ends, From, TodoInv
<1>24. ASSUME NEW c \in Calls, CloseAdmission(c) PROVE TodoInv'
  BY <1>24, CloseAdmissionEffect DEF Others, Kept, StopsTurns, TodoInv
<1>25. ASSUME NEW c \in Calls, ClosePeer(c) PROVE TodoInv'
  BY <1>25, ClosePeerEffect DEF Others, Kept, Becomes, TodoInv
<1>26. ASSUME NEW c \in Calls, NEW inTime \in BOOLEAN, DrainTurn(c, inTime)
       PROVE  TodoInv'
  BY <1>26, DrainTurnEffect, Ranges DEF Others, Kept, Goes, TodoInv
<1>27. ASSUME NEW c \in Calls, TakeSession(c) PROVE TodoInv'
  BY <1>27, TakeSessionEffect, Ranges DEF Others, Kept, Goes, From, TodoInv,
     FreshInv
<1>28. ASSUME NEW c \in Calls, Shutdown(c) PROVE TodoInv'
  BY <1>28, ShutdownEffect, Ranges DEF Others, Kept, From, TodoInv, FreshInv
<1>29. ASSUME NEW c \in Calls, NEW inTime \in BOOLEAN, StartsDone(c, inTime)
       PROVE  TodoInv'
  BY <1>29, StartsDoneEffect DEF Others, Kept, Goes, From, TodoInv
<1>30. ASSUME NEW c \in Calls, Return(c) PROVE TodoInv'
  BY <1>30, ReturnEffect DEF Others, Kept, From, TodoInv
<1>31. ASSUME NEW n \in Peers \cup {Old}, LoseNative(n) PROVE TodoInv'
  BY <1>31 DEF LoseNative, InProgress, Phase, TodoInv
<1>32. CASE UNCHANGED vars
  BY <1>32 DEF vars, InProgress, Phase, TodoInv
<1> QED  BY <1>1, <1>2, <1>3, <1>4, <1>5, <1>6, <1>7, <1>8, <1>9, <1>10,
   <1>11, <1>12, <1>13, <1>14, <1>15, <1>16, <1>17, <1>18, <1>19, <1>20,
   <1>21, <1>22, <1>23, <1>24, <1>25, <1>26, <1>27, <1>28, <1>29, <1>30,
   <1>31, <1>32 DEF Next, Step

(* Adapters are launched in order. *)
LEMMA LaunchedKept ==
    ASSUME Shape, Shape', StartReserved, LaunchedInOrder, FreshInv, TodoInv,
             [Next]_vars
    PROVE  LaunchedInOrder'
<1>0. ASSUME \A q \in Peers : peer'[q].state = "none" <=> peer[q].state = "none"
      PROVE  LaunchedInOrder'
  BY <1>0 DEF LaunchedInOrder
<1>1. ASSUME NEW c \in Calls, NEW kind \in KindsOf[c], Begin(c, kind)
      PROVE  LaunchedInOrder'
  BY <1>0, <1>1, BeginEffect
<1>2. ASSUME NEW c \in Calls, CancelContext(c) PROVE LaunchedInOrder'
  BY <1>0, <1>2, CancelContextEffect
<1>3. ASSUME NEW c \in Calls, Session(c) PROVE LaunchedInOrder'
  BY <1>0, <1>3, SessionEffect
<1>4. ASSUME NEW c \in Calls, StopWaiting(c) PROVE LaunchedInOrder'
  BY <1>0, <1>4, StopWaitingEffect
<1>5. ASSUME NEW c \in Calls, Launch(c) PROVE LaunchedInOrder'
  <2>1. \E q \in Peers : \A r \in Peers : peer'[r].state # "none" <=> r <= q
    BY <1>5, LaunchEffect
  <2>2. Peers \subseteq 0..MaxPeers
    BY DEF Peers
  <2> QED  BY <2>1, <2>2 DEF LaunchedInOrder
<1>6. ASSUME NEW c \in Calls, LaunchFails(c) PROVE LaunchedInOrder'
  BY <1>0, <1>6, LaunchFailsEffect
<1>7. ASSUME NEW c \in Calls, Attach(c) PROVE LaunchedInOrder'
  BY <1>0, <1>7, AttachEffect DEF Becomes
<1>8. ASSUME NEW c \in Calls, AttachFails(c) PROVE LaunchedInOrder'
  BY <1>0, <1>8, AttachFailsEffect DEF Becomes, From, FreshInv
<1>9. ASSUME NEW c \in Calls, PersistRecovery(c) PROVE LaunchedInOrder'
  BY <1>0, <1>9, PersistRecoveryEffect
<1>10. ASSUME NEW c \in Calls, Drop(c) PROVE LaunchedInOrder'
  BY <1>0, <1>10, DropEffect
<1>11. ASSUME NEW c \in Calls, Publish(c) PROVE LaunchedInOrder'
  BY <1>0, <1>11, PublishEffect
<1>12. ASSUME NEW c \in Calls, Published(c) PROVE LaunchedInOrder'
  BY <1>0, <1>12, PublishedEffect
<1>13. ASSUME NEW c \in Calls, TurnLock(c) PROVE LaunchedInOrder'
  BY <1>0, <1>13, TurnLockEffect DEF Becomes
<1>14. ASSUME NEW c \in Calls, CheckCurrent(c) PROVE LaunchedInOrder'
  BY <1>0, <1>14, CheckCurrentEffect DEF Becomes
<1>15. ASSUME NEW c \in Calls, BeginTurn(c) PROVE LaunchedInOrder'
  BY <1>0, <1>15, BeginTurnEffect DEF Becomes
<1>16. ASSUME NEW c \in Calls, Prompt(c) PROVE LaunchedInOrder'
  BY <1>0, <1>16, PromptEffect
<1>17. ASSUME NEW c \in Calls, NEW success \in BOOLEAN, EndTurn(c, success)
       PROVE  LaunchedInOrder'
  BY <1>0, <1>17, EndTurnEffect DEF Releases
<1>18. ASSUME NEW c \in Calls, Reserve(c) PROVE LaunchedInOrder'
  BY <1>0, <1>18, ReserveEffect DEF Releases
<1>19. ASSUME NEW c \in Calls, Commit(c) PROVE LaunchedInOrder'
  BY <1>0, <1>19, CommitEffect
<1>20. ASSUME NEW c \in Calls, Install(c) PROVE LaunchedInOrder'
  <2>1. CASE closed
    BY <1>0, <1>20, <2>1, InstallEffect
  <2>2. CASE ~closed
    <3>1. Becomes(call[c].fresh, peer[call[c].fresh].state,
                  peer[call[c].fresh].closing, peer[call[c].fresh].turn,
                  peer[call[c].fresh].cut, c)
      BY <1>20, <2>2, InstallEffect
    <3> QED  BY <1>0, <3>1 DEF Becomes
  <2> QED  BY <2>1, <2>2
<1>21. ASSUME NEW c \in Calls, Installed(c) PROVE LaunchedInOrder'
  BY <1>0, <1>21, InstalledEffect
<1>22. ASSUME NEW c \in Calls, Abort(c) PROVE LaunchedInOrder'
  BY <1>0, <1>22, AbortEffect
<1>23. ASSUME NEW c \in Calls, Aborted(c) PROVE LaunchedInOrder'
  BY <1>0, <1>23, AbortedEffect
<1>24. ASSUME NEW c \in Calls, CloseAdmission(c) PROVE LaunchedInOrder'
  BY <1>0, <1>24, CloseAdmissionEffect DEF StopsTurns
<1>25. ASSUME NEW c \in Calls, ClosePeer(c) PROVE LaunchedInOrder'
  <2>1. peer[Head(call[c].todo)].state # "none"
    BY <1>25, ClosePeerEffect, Ranges DEF TodoInv
  <2> QED  BY <1>0, <1>25, <2>1, ClosePeerEffect DEF Becomes
<1>26. ASSUME NEW c \in Calls, NEW inTime \in BOOLEAN, DrainTurn(c, inTime)
       PROVE  LaunchedInOrder'
  BY <1>0, <1>26, DrainTurnEffect
<1>27. ASSUME NEW c \in Calls, TakeSession(c) PROVE LaunchedInOrder'
  BY <1>0, <1>27, TakeSessionEffect
<1>28. ASSUME NEW c \in Calls, Shutdown(c) PROVE LaunchedInOrder'
  BY <1>0, <1>28, ShutdownEffect
<1>29. ASSUME NEW c \in Calls, NEW inTime \in BOOLEAN, StartsDone(c, inTime)
       PROVE  LaunchedInOrder'
  BY <1>0, <1>29, StartsDoneEffect
<1>30. ASSUME NEW c \in Calls, Return(c) PROVE LaunchedInOrder'
  BY <1>0, <1>30, ReturnEffect
<1>31. ASSUME NEW n \in Peers \cup {Old}, LoseNative(n) PROVE LaunchedInOrder'
  BY <1>0, <1>31 DEF LoseNative
<1>32. CASE UNCHANGED vars
  BY <1>0, <1>32 DEF vars
<1> QED  BY <1>1, <1>2, <1>3, <1>4, <1>5, <1>6, <1>7, <1>8, <1>9, <1>10,
   <1>11, <1>12, <1>13, <1>14, <1>15, <1>16, <1>17, <1>18, <1>19, <1>20,
   <1>21, <1>22, <1>23, <1>24, <1>25, <1>26, <1>27, <1>28, <1>29, <1>30,
   <1>31, <1>32 DEF Next, Step

(* No session is installed in a manager that has shut down, nor while a    *)
(* call replaces the session.                                              *)
Stale(c) ==
    /\ InProgress(c)
    /\ Phase(c) \in {"relaunch", "reattach", "commit", "install", "abort"}

InstalledInv ==
    /\ closed => installed = None
    /\ \A c \in Calls : Stale(c) => installed = None

(* Every step keeps a session that is being replaced out of the manager. *)
LEMMA InstalledKept ==
    ASSUME Shape, Shape', StartReserved, LaunchedInOrder,
           InstalledInv, [Next]_vars
    PROVE  InstalledInv'
<1>1. ASSUME NEW c \in Calls, NEW kind \in KindsOf[c], Begin(c, kind)
      PROVE  InstalledInv'
  BY <1>1, BeginEffect DEF Others, Kept, InstalledInv, Stale
<1>2. ASSUME NEW c \in Calls, CancelContext(c) PROVE InstalledInv'
  BY <1>2, CancelContextEffect DEF Others, Kept, InstalledInv, Stale
<1>3. ASSUME NEW c \in Calls, Session(c) PROVE InstalledInv'
  BY <1>3, SessionEffect DEF Others, Kept, Goes, Ends, From, InstalledInv,
     Stale
<1>4. ASSUME NEW c \in Calls, StopWaiting(c) PROVE InstalledInv'
  BY <1>4, StopWaitingEffect DEF Others, Kept, Ends, From, InstalledInv, Stale
<1>5. ASSUME NEW c \in Calls, Launch(c) PROVE InstalledInv'
  BY <1>5, LaunchEffect DEF Others, Kept, Goes, From, InstalledInv, Stale
<1>6. ASSUME NEW c \in Calls, LaunchFails(c) PROVE InstalledInv'
  BY <1>6, LaunchFailsEffect DEF Others, Kept, Goes, From, InstalledInv, Stale
<1>7. ASSUME NEW c \in Calls, Attach(c) PROVE InstalledInv'
  BY <1>7, AttachEffect DEF Others, Kept, Goes, From, InstalledInv, Stale
<1>8. ASSUME NEW c \in Calls, AttachFails(c) PROVE InstalledInv'
  BY <1>8, AttachFailsEffect DEF Others, Kept, Goes, From, InstalledInv, Stale
<1>9. ASSUME NEW c \in Calls, PersistRecovery(c) PROVE InstalledInv'
  BY <1>9, PersistRecoveryEffect DEF Others, Kept, Goes, From, InstalledInv,
     Stale
<1>10. ASSUME NEW c \in Calls, Drop(c) PROVE InstalledInv'
  BY <1>10, DropEffect DEF Others, Kept, Ends, From, InstalledInv, Stale
<1>11. ASSUME NEW c \in Calls, Publish(c) PROVE InstalledInv'
  BY <1>11, PublishEffect DEF Others, Kept, Goes, From, InstalledInv, Stale,
     StartReserved, StartPhases
<1>12. ASSUME NEW c \in Calls, Published(c) PROVE InstalledInv'
  BY <1>12, PublishedEffect DEF Others, Kept, Goes, Ends, From, InstalledInv,
     Stale
<1>13. ASSUME NEW c \in Calls, TurnLock(c) PROVE InstalledInv'
  BY <1>13, TurnLockEffect DEF Others, Kept, Goes, From, InstalledInv, Stale
<1>14. ASSUME NEW c \in Calls, CheckCurrent(c) PROVE InstalledInv'
  BY <1>14, CheckCurrentEffect DEF Others, Kept, Goes, Ends, From,
     InstalledInv, Stale
<1>15. ASSUME NEW c \in Calls, BeginTurn(c) PROVE InstalledInv'
  BY <1>15, BeginTurnEffect DEF Others, Kept, Goes, Ends, From, InstalledInv,
     Stale
<1>16. ASSUME NEW c \in Calls, Prompt(c) PROVE InstalledInv'
  BY <1>16, PromptEffect DEF Others, Kept, Goes, From, InstalledInv, Stale
<1>17. ASSUME NEW c \in Calls, NEW success \in BOOLEAN, EndTurn(c, success)
       PROVE  InstalledInv'
  BY <1>17, EndTurnEffect DEF Others, Kept, Ends, From, InstalledInv, Stale
<1>18. ASSUME NEW c \in Calls, Reserve(c) PROVE InstalledInv'
  BY <1>18, ReserveEffect DEF Others, Kept, Goes, Ends, From, InstalledInv,
     Stale
<1>19. ASSUME NEW c \in Calls, Commit(c) PROVE InstalledInv'
  BY <1>19, CommitEffect DEF Others, Kept, Goes, From, InstalledInv, Stale
<1>20. ASSUME NEW c \in Calls, Install(c) PROVE InstalledInv'
  BY <1>20, InstallEffect DEF Others, Kept, Goes, From, InstalledInv, Stale,
     StartReserved, StartPhases
<1>21. ASSUME NEW c \in Calls, Installed(c) PROVE InstalledInv'
  BY <1>21, InstalledEffect DEF Others, Kept, Goes, From, InstalledInv, Stale
<1>22. ASSUME NEW c \in Calls, Abort(c) PROVE InstalledInv'
  BY <1>22, AbortEffect DEF Others, Kept, Goes, From, InstalledInv, Stale,
     StartReserved, StartPhases
<1>23. ASSUME NEW c \in Calls, Aborted(c) PROVE InstalledInv'
  BY <1>23, AbortedEffect DEF Others, Kept, Ends, From, InstalledInv, Stale
<1>24. ASSUME NEW c \in Calls, CloseAdmission(c) PROVE InstalledInv'
  BY <1>24, CloseAdmissionEffect DEF Others, Kept, InstalledInv, Stale
<1>25. ASSUME NEW c \in Calls, ClosePeer(c) PROVE InstalledInv'
  BY <1>25, ClosePeerEffect DEF Others, Kept, InstalledInv, Stale
<1>26. ASSUME NEW c \in Calls, NEW inTime \in BOOLEAN, DrainTurn(c, inTime)
       PROVE  InstalledInv'
  BY <1>26, DrainTurnEffect DEF Others, Kept, Goes, InstalledInv, Stale
<1>27. ASSUME NEW c \in Calls, TakeSession(c) PROVE InstalledInv'
  BY <1>27, TakeSessionEffect DEF Others, Kept, Goes, From, InstalledInv,
     Stale
<1>28. ASSUME NEW c \in Calls, Shutdown(c) PROVE InstalledInv'
  BY <1>28, ShutdownEffect DEF Others, Kept, From, InstalledInv, Stale
<1>29. ASSUME NEW c \in Calls, NEW inTime \in BOOLEAN, StartsDone(c, inTime)
       PROVE  InstalledInv'
  BY <1>29, StartsDoneEffect DEF Others, Kept, Goes, From, InstalledInv, Stale
<1>30. ASSUME NEW c \in Calls, Return(c) PROVE InstalledInv'
  BY <1>30, ReturnEffect DEF Others, Kept, From, InstalledInv, Stale
<1>31. ASSUME NEW n \in Peers \cup {Old}, LoseNative(n) PROVE InstalledInv'
  BY <1>31 DEF LoseNative, manager, InProgress, Phase, InstalledInv, Stale
<1>32. CASE UNCHANGED vars
  BY <1>32 DEF vars, InProgress, Phase, InstalledInv, Stale
<1> QED  BY <1>1, <1>2, <1>3, <1>4, <1>5, <1>6, <1>7, <1>8, <1>9, <1>10,
   <1>11, <1>12, <1>13, <1>14, <1>15, <1>16, <1>17, <1>18, <1>19, <1>20,
   <1>21, <1>22, <1>23, <1>24, <1>25, <1>26, <1>27, <1>28, <1>29, <1>30,
   <1>31, <1>32 DEF Next, Step

(* The session that a call is closing. *)
LEMMA Heads ==
    ASSUME Shape
    PROVE  \A c \in Calls : InProgress(c) /\ call[c].pc \in ClosePcs =>
             /\ call[c].todo \in Seq(Peers) /\ call[c].todo # <<>>
             /\ Head(call[c].todo) \in Peers
<1>1. ASSUME NEW c \in Calls, InProgress(c), call[c].pc \in ClosePcs
      PROVE  call[c].todo \in Seq(Peers) /\ call[c].todo # <<>>
  BY <1>1, Progress DEF GoodCalls, CallRecords
<1>2. \A s \in Seq(Peers) : s # <<>> => Head(s) \in Peers
  OBVIOUS
<1> QED  BY <1>1, <1>2

(* A session that is being closed admits no turn, an active turn on it is  *)
(* cancelled, and its process is ended before the wait for that turn.      *)
ClosingInv ==
    /\ \A c \in Calls :
          /\ InProgress(c) /\ call[c].pc \in {"kill", "drain"} =>
               peer[Head(call[c].todo)].closing
          /\ InProgress(c) /\ call[c].pc = "drain" =>
               peer[Head(call[c].todo)].state = "dead"
    /\ \A p \in Peers : peer[p].closing /\ peer[p].turn # None => peer[p].cut

(* Every step keeps closed sessions from having turns that are not cancelled. *)
LEMMA ClosingKept ==
    ASSUME Shape, Shape', StartReserved, LaunchedInOrder,
           ClosingInv, [Next]_vars
    PROVE  ClosingInv'
<1>1. ASSUME NEW c \in Calls, NEW kind \in KindsOf[c], Begin(c, kind)
      PROVE  ClosingInv'
  BY <1>1, BeginEffect DEF Others, Kept, ClosingInv, ClosePcs
<1>2. ASSUME NEW c \in Calls, CancelContext(c) PROVE ClosingInv'
  BY <1>2, CancelContextEffect DEF Others, Kept, ClosingInv, ClosePcs
<1>3. ASSUME NEW c \in Calls, Session(c) PROVE ClosingInv'
  BY <1>3, SessionEffect DEF Others, Kept, Goes, Ends, From, ClosingInv,
     ClosePcs
<1>4. ASSUME NEW c \in Calls, StopWaiting(c) PROVE ClosingInv'
  BY <1>4, StopWaitingEffect DEF Others, Kept, Ends, From, ClosingInv,
     ClosePcs
<1>5. ASSUME NEW c \in Calls, Launch(c) PROVE ClosingInv'
  BY <1>5, LaunchEffect, Heads DEF Others, Kept, Goes, From, Becomes,
     ClosingInv, ClosePcs
<1>6. ASSUME NEW c \in Calls, LaunchFails(c) PROVE ClosingInv'
  BY <1>6, LaunchFailsEffect DEF Others, Kept, Goes, From, ClosingInv,
     ClosePcs
<1>7. ASSUME NEW c \in Calls, Attach(c) PROVE ClosingInv'
  BY <1>7, AttachEffect, Heads DEF Others, Kept, Goes, From, Becomes,
     ClosingInv, ClosePcs
<1>8. ASSUME NEW c \in Calls, AttachFails(c) PROVE ClosingInv'
  BY <1>8, AttachFailsEffect, Heads DEF Others, Kept, Goes, From, Becomes,
     ClosingInv, ClosePcs
<1>9. ASSUME NEW c \in Calls, PersistRecovery(c) PROVE ClosingInv'
  BY <1>9, PersistRecoveryEffect DEF Others, Kept, Goes, From, ClosingInv,
     ClosePcs
<1>10. ASSUME NEW c \in Calls, Drop(c) PROVE ClosingInv'
  BY <1>10, DropEffect DEF Others, Kept, Ends, From, ClosingInv, ClosePcs
<1>11. ASSUME NEW c \in Calls, Publish(c) PROVE ClosingInv'
  BY <1>11, PublishEffect DEF Others, Kept, Goes, From, ClosingInv, ClosePcs
<1>12. ASSUME NEW c \in Calls, Published(c) PROVE ClosingInv'
  BY <1>12, PublishedEffect DEF Others, Kept, Goes, Ends, From, ClosingInv,
     ClosePcs
<1>13. ASSUME NEW c \in Calls, TurnLock(c) PROVE ClosingInv'
  BY <1>13, TurnLockEffect, Heads DEF Others, Kept, Goes, From, Becomes,
     ClosingInv, ClosePcs
<1>14. ASSUME NEW c \in Calls, CheckCurrent(c) PROVE ClosingInv'
  BY <1>14, CheckCurrentEffect, Heads DEF Others, Kept, Goes, Ends, From,
     Becomes, ClosingInv, ClosePcs
<1>15. ASSUME NEW c \in Calls, BeginTurn(c) PROVE ClosingInv'
  BY <1>15, BeginTurnEffect, Heads DEF Others, Kept, Goes, Ends, From,
     Becomes, ClosingInv, ClosePcs
<1>16. ASSUME NEW c \in Calls, Prompt(c) PROVE ClosingInv'
  BY <1>16, PromptEffect DEF Others, Kept, Goes, From, ClosingInv, ClosePcs
<1>17. ASSUME NEW c \in Calls, NEW success \in BOOLEAN, EndTurn(c, success)
       PROVE  ClosingInv'
  BY <1>17, EndTurnEffect, Heads DEF Others, Kept, Ends, From, Releases,
     ClosingInv, ClosePcs
<1>18. ASSUME NEW c \in Calls, Reserve(c) PROVE ClosingInv'
  BY <1>18, ReserveEffect, Heads DEF Others, Kept, Goes, Ends, From, Releases,
     ClosingInv, ClosePcs
<1>19. ASSUME NEW c \in Calls, Commit(c) PROVE ClosingInv'
  BY <1>19, CommitEffect DEF Others, Kept, Goes, From, ClosingInv, ClosePcs
<1>20. ASSUME NEW c \in Calls, Install(c) PROVE ClosingInv'
  <2>1. Others(c)
    BY <1>20, Rest DEF Step
  <2>2. \A q \in Peers :
          /\ peer'[q].state = peer[q].state /\ peer'[q].closing = peer[q].closing
          /\ peer'[q].turn = peer[q].turn /\ peer'[q].cut = peer[q].cut
    <3>1. CASE closed
      BY <1>20, <3>1, InstallEffect
    <3>2. CASE ~closed
      <4>1. Becomes(call[c].fresh, peer[call[c].fresh].state,
                    peer[call[c].fresh].closing, peer[call[c].fresh].turn,
                    peer[call[c].fresh].cut, c)
        BY <1>20, <3>2, InstallEffect
      <4> QED  BY <4>1 DEF Becomes
    <3> QED  BY <3>1, <3>2
  <2>3. call'[c].pc \notin {"kill", "drain"}
    BY <1>20, InstallEffect DEF Goes
  <2> QED  BY <2>1, <2>2, <2>3, Heads DEF Others, Kept, ClosingInv, ClosePcs
<1>21. ASSUME NEW c \in Calls, Installed(c) PROVE ClosingInv'
  BY <1>21, InstalledEffect DEF Others, Kept, Goes, From, ClosingInv, ClosePcs
<1>22. ASSUME NEW c \in Calls, Abort(c) PROVE ClosingInv'
  BY <1>22, AbortEffect DEF Others, Kept, Goes, From, ClosingInv, ClosePcs
<1>23. ASSUME NEW c \in Calls, Aborted(c) PROVE ClosingInv'
  BY <1>23, AbortedEffect DEF Others, Kept, Ends, From, ClosingInv, ClosePcs
<1>24. ASSUME NEW c \in Calls, CloseAdmission(c) PROVE ClosingInv'
  BY <1>24, CloseAdmissionEffect, Heads DEF Others, Kept, StopsTurns,
     ClosingInv, ClosePcs
<1>25. ASSUME NEW c \in Calls, ClosePeer(c) PROVE ClosingInv'
  BY <1>25, ClosePeerEffect, Heads DEF Others, Kept, Becomes, ClosingInv,
     ClosePcs, NextPcs
<1>26. ASSUME NEW c \in Calls, NEW inTime \in BOOLEAN, DrainTurn(c, inTime)
       PROVE  ClosingInv'
  BY <1>26, DrainTurnEffect DEF Others, Kept, Goes, ClosingInv, ClosePcs,
     NextPcs
<1>27. ASSUME NEW c \in Calls, TakeSession(c) PROVE ClosingInv'
  BY <1>27, TakeSessionEffect DEF Others, Kept, Goes, From, ClosingInv,
     ClosePcs
<1>28. ASSUME NEW c \in Calls, Shutdown(c) PROVE ClosingInv'
  BY <1>28, ShutdownEffect DEF Others, Kept, From, ClosingInv, ClosePcs
<1>29. ASSUME NEW c \in Calls, NEW inTime \in BOOLEAN, StartsDone(c, inTime)
       PROVE  ClosingInv'
  BY <1>29, StartsDoneEffect DEF Others, Kept, Goes, From, ClosingInv,
     ClosePcs
<1>30. ASSUME NEW c \in Calls, Return(c) PROVE ClosingInv'
  BY <1>30, ReturnEffect DEF Others, Kept, From, ClosingInv, ClosePcs
<1>31. ASSUME NEW n \in Peers \cup {Old}, LoseNative(n) PROVE ClosingInv'
  BY <1>31 DEF LoseNative, InProgress, Phase, ClosingInv, ClosePcs
<1>32. CASE UNCHANGED vars
  BY <1>32 DEF vars, InProgress, Phase, ClosingInv, ClosePcs
<1> QED  BY <1>1, <1>2, <1>3, <1>4, <1>5, <1>6, <1>7, <1>8, <1>9, <1>10,
   <1>11, <1>12, <1>13, <1>14, <1>15, <1>16, <1>17, <1>18, <1>19, <1>20,
   <1>21, <1>22, <1>23, <1>24, <1>25, <1>26, <1>27, <1>28, <1>29, <1>30,
   <1>31, <1>32 DEF Next, Step

(* A running adapter is installed, has just been started, is being closed  *)
(* or is being replaced.                                                   *)
ToClose(c, p) == InProgress(c) /\ p \in Range(call[c].todo)
Owns(c, p) ==
    \/ InProgress(c) /\ call[c].fresh = p
    \/ ToClose(c, p)
    \/ Stale(c) /\ call[c].p = p

OwnerInv ==
    \A p \in Peers : peer[p].state = "live" =>
        installed = p \/ \E c \in Calls : Owns(c, p)

(* A step of call c hands over the adapters that it owns, and the          *)
(* installed one.                                                          *)
HandsOver(c) ==
    \A p \in Peers : peer'[p].state = "live" =>
        \/ Owns(c, p)'
        \/ /\ peer[p].state = "live"
           /\ installed = p \/ Owns(c, p) => installed' = p

(* Such a step keeps an owner for every running adapter. *)
LEMMA Owners ==
    ASSUME Shape, OwnerInv, NEW c \in Calls, Others(c), HandsOver(c)
    PROVE  OwnerInv'
<1>1. \A d \in Calls \ {c}, p \in Peers : Owns(d, p) => Owns(d, p)'
  BY DEF Others, Kept, Owns, ToClose, Stale
<1> QED  BY <1>1 DEF OwnerInv, HandsOver

(* Every step keeps every running adapter owned. *)
LEMMA OwnerKept ==
    ASSUME Shape, Shape', StartReserved, LaunchedInOrder,
           InstalledInv, ClosingInv, OwnerInv, [Next]_vars
    PROVE  OwnerInv'
<1>1. ASSUME NEW c \in Calls, NEW kind \in KindsOf[c], Begin(c, kind)
      PROVE  OwnerInv'
  <2>1. Range(<<>>) = {}
    BY Ranges
  <2>2. HandsOver(c)
    BY <1>1, <2>1, BeginEffect DEF HandsOver, Owns, ToClose, Stale
  <2> QED  BY <1>1, <2>2, BeginEffect, Owners
<1>2. ASSUME NEW c \in Calls, CancelContext(c) PROVE OwnerInv'
  <2>1. HandsOver(c)
    BY <1>2, CancelContextEffect DEF HandsOver, Owns, ToClose, Stale
  <2> QED  BY <1>2, <2>1, CancelContextEffect, Owners
<1>3. ASSUME NEW c \in Calls, Session(c) PROVE OwnerInv'
  <2>1. Range(<<>>) = {}
    BY Ranges
  <2>2. HandsOver(c)
    BY <1>3, <2>1, SessionEffect, SessionsAssumption DEF HandsOver, Owns,
       ToClose, Stale, Goes, From, FreshPhases
  <2> QED  BY <1>3, <2>2, SessionEffect, Owners
<1>4. ASSUME NEW c \in Calls, StopWaiting(c) PROVE OwnerInv'
  <2>1. Range(<<>>) = {}
    BY Ranges
  <2>2. HandsOver(c)
    BY <1>4, <2>1, StopWaitingEffect, SessionsAssumption DEF HandsOver, Owns,
       ToClose, Stale, From, FreshPhases
  <2> QED  BY <1>4, <2>2, StopWaitingEffect, Owners
<1>5. ASSUME NEW c \in Calls, Launch(c) PROVE OwnerInv'
  <2>1. Range(<<>>) = {}
    BY Ranges
  <2>2. HandsOver(c)
    BY <1>5, <2>1, LaunchEffect, SessionsAssumption DEF HandsOver, Owns,
       ToClose, Stale, Goes, Becomes, From, FreshPhases
  <2> QED  BY <1>5, <2>2, LaunchEffect, Owners
<1>6. ASSUME NEW c \in Calls, LaunchFails(c) PROVE OwnerInv'
  <2>1. Range(<<>>) = {}
    BY Ranges
  <2>2. HandsOver(c)
    BY <1>6, <2>1, LaunchFailsEffect DEF HandsOver, Owns, ToClose, Stale,
       Goes, From
  <2> QED  BY <1>6, <2>2, LaunchFailsEffect, Owners
<1>7. ASSUME NEW c \in Calls, Attach(c) PROVE OwnerInv'
  <2>1. Range(<<>>) = {}
    BY Ranges
  <2>2. HandsOver(c)
    BY <1>7, <2>1, AttachEffect DEF HandsOver, Owns, ToClose, Stale, Goes,
       Becomes, From
  <2> QED  BY <1>7, <2>2, AttachEffect, Owners
<1>8. ASSUME NEW c \in Calls, AttachFails(c) PROVE OwnerInv'
  <2>1. Range(<<>>) = {}
    BY Ranges
  <2>2. HandsOver(c)
    BY <1>8, <2>1, AttachFailsEffect DEF HandsOver, Owns, ToClose, Stale,
       Goes, Becomes, From
  <2> QED  BY <1>8, <2>2, AttachFailsEffect, Owners
<1>9. ASSUME NEW c \in Calls, PersistRecovery(c) PROVE OwnerInv'
  <2>1. /\ Range(<<call[c].fresh>>) = {call[c].fresh}
        /\ Range(<<>>) = {}
    BY Ranges
  <2>2. HandsOver(c)
    BY <1>9, <2>1, PersistRecoveryEffect DEF HandsOver, Owns, ToClose, Stale,
       Goes, From
  <2> QED  BY <1>9, <2>2, PersistRecoveryEffect, Owners
<1>10. ASSUME NEW c \in Calls, Drop(c) PROVE OwnerInv'
  <2>1. Range(<<>>) = {}
    BY Ranges
  <2>2. HandsOver(c)
    BY <1>10, <2>1, DropEffect, SessionsAssumption DEF HandsOver, Owns,
       ToClose, Stale, From, FreshPhases
  <2> QED  BY <1>10, <2>2, DropEffect, Owners
<1>11. ASSUME NEW c \in Calls, Publish(c) PROVE OwnerInv'
  <2>1. /\ Range(<<call[c].fresh>>) = {call[c].fresh}
        /\ Range(<<installed>>) = {installed}
        /\ Range(<<>>) = {}
    BY Ranges
  <2>2. HandsOver(c)
    BY <1>11, <2>1, PublishEffect DEF HandsOver, Owns, ToClose, Stale, Goes,
       From, InstalledInv
  <2> QED  BY <1>11, <2>2, PublishEffect, Owners
<1>12. ASSUME NEW c \in Calls, Published(c) PROVE OwnerInv'
  <2>1. Range(<<>>) = {}
    BY Ranges
  <2>2. HandsOver(c)
    BY <1>12, <2>1, PublishedEffect, SessionsAssumption DEF HandsOver, Owns,
       ToClose, Stale, Goes, From, FreshPhases
  <2> QED  BY <1>12, <2>2, PublishedEffect, Owners
<1>13. ASSUME NEW c \in Calls, TurnLock(c) PROVE OwnerInv'
  <2>1. Range(<<>>) = {}
    BY Ranges
  <2>2. HandsOver(c)
    BY <1>13, <2>1, TurnLockEffect DEF HandsOver, Owns, ToClose, Stale, Goes,
       Becomes, From
  <2> QED  BY <1>13, <2>2, TurnLockEffect, Owners
<1>14. ASSUME NEW c \in Calls, CheckCurrent(c) PROVE OwnerInv'
  <2>1. Range(<<>>) = {}
    BY Ranges
  <2>2. HandsOver(c)
    BY <1>14, <2>1, CheckCurrentEffect, SessionsAssumption DEF HandsOver,
       Owns, ToClose, Stale, Goes, Becomes, From, FreshPhases
  <2> QED  BY <1>14, <2>2, CheckCurrentEffect, Owners
<1>15. ASSUME NEW c \in Calls, BeginTurn(c) PROVE OwnerInv'
  <2>1. Range(<<>>) = {}
    BY Ranges
  <2>2. HandsOver(c)
    BY <1>15, <2>1, BeginTurnEffect, SessionsAssumption DEF HandsOver, Owns,
       ToClose, Stale, Goes, Becomes, From, FreshPhases
  <2> QED  BY <1>15, <2>2, BeginTurnEffect, Owners
<1>16. ASSUME NEW c \in Calls, Prompt(c) PROVE OwnerInv'
  <2>1. Range(<<>>) = {}
    BY Ranges
  <2>2. HandsOver(c)
    BY <1>16, <2>1, PromptEffect DEF HandsOver, Owns, ToClose, Stale, Goes,
       From
  <2> QED  BY <1>16, <2>2, PromptEffect, Owners
<1>17. ASSUME NEW c \in Calls, NEW success \in BOOLEAN, EndTurn(c, success)
       PROVE  OwnerInv'
  <2>1. Range(<<>>) = {}
    BY Ranges
  <2>2. HandsOver(c)
    BY <1>17, <2>1, EndTurnEffect, SessionsAssumption DEF HandsOver, Owns,
       ToClose, Stale, Releases, From, FreshPhases
  <2> QED  BY <1>17, <2>2, EndTurnEffect, Owners
<1>18. ASSUME NEW c \in Calls, Reserve(c) PROVE OwnerInv'
  <2>1. Range(<<>>) = {}
    BY Ranges
  <2>2. HandsOver(c)
    BY <1>18, <2>1, ReserveEffect, SessionsAssumption DEF HandsOver, Owns,
       ToClose, Stale, Goes, Releases, From, FreshPhases
  <2> QED  BY <1>18, <2>2, ReserveEffect, Owners
<1>19. ASSUME NEW c \in Calls, Commit(c) PROVE OwnerInv'
  <2>1. /\ Range(<<call[c].fresh>>) = {call[c].fresh}
        /\ Range(<<>>) = {}
    BY Ranges
  <2>2. HandsOver(c)
    BY <1>19, <2>1, CommitEffect DEF HandsOver, Owns, ToClose, Stale, Goes,
       From
  <2> QED  BY <1>19, <2>2, CommitEffect, Owners
<1>20. ASSUME NEW c \in Calls, Install(c) PROVE OwnerInv'
  <2>1. Others(c)
    BY <1>20, Rest DEF Step
  <2>2. /\ Range(<<call[c].fresh, call[c].p>>) = {call[c].fresh, call[c].p}
        /\ Range(<<call[c].p>>) = {call[c].p}
        /\ Range(<<>>) = {}
    BY Ranges
  <2>3. \A q \in Peers : peer'[q].state = peer[q].state
    BY <1>20, InstallEffect DEF Becomes
  <2>4. installed = None /\ \A q \in Peers : Owns(c, q) =>
          q \in {call[c].fresh, call[c].p}
    BY <1>20, <2>2, InstallEffect DEF From, Owns, ToClose, Stale, InstalledInv
  <2>5. /\ InProgress(c)' /\ call[c].p \in Range(call'[c].todo)
        /\ installed' = call[c].fresh \/ call[c].fresh \in Range(call'[c].todo)
    BY <1>20, <2>2, InstallEffect DEF Goes
  <2>6. HandsOver(c)
    BY <2>3, <2>4, <2>5, SessionsAssumption DEF HandsOver, Owns, ToClose
  <2> QED  BY <2>1, <2>6, Owners
<1>21. ASSUME NEW c \in Calls, Installed(c) PROVE OwnerInv'
  <2>1. Range(<<>>) = {}
    BY Ranges
  <2>2. HandsOver(c)
    BY <1>21, <2>1, InstalledEffect DEF HandsOver, Owns, ToClose, Stale, Goes,
       From
  <2> QED  BY <1>21, <2>2, InstalledEffect, Owners
<1>22. ASSUME NEW c \in Calls, Abort(c) PROVE OwnerInv'
  <2>1. /\ Range(<<call[c].p>>) = {call[c].p}
        /\ Range(<<>>) = {}
    BY Ranges
  <2>2. HandsOver(c)
    BY <1>22, <2>1, AbortEffect DEF HandsOver, Owns, ToClose, Stale, Goes,
       From, FreshPhases, InstalledInv
  <2> QED  BY <1>22, <2>2, AbortEffect, Owners
<1>23. ASSUME NEW c \in Calls, Aborted(c) PROVE OwnerInv'
  <2>1. Range(<<>>) = {}
    BY Ranges
  <2>2. HandsOver(c)
    BY <1>23, <2>1, AbortedEffect, SessionsAssumption DEF HandsOver, Owns,
       ToClose, Stale, From, FreshPhases
  <2> QED  BY <1>23, <2>2, AbortedEffect, Owners
<1>24. ASSUME NEW c \in Calls, CloseAdmission(c) PROVE OwnerInv'
  <2>1. Range(<<>>) = {}
    BY Ranges
  <2>2. HandsOver(c)
    BY <1>24, <2>1, CloseAdmissionEffect DEF HandsOver, Owns, ToClose, Stale,
       StopsTurns
  <2> QED  BY <1>24, <2>2, CloseAdmissionEffect, Owners
<1>25. ASSUME NEW c \in Calls, ClosePeer(c) PROVE OwnerInv'
  <2>1. Range(<<>>) = {}
    BY Ranges
  <2>2. HandsOver(c)
    BY <1>25, <2>1, ClosePeerEffect DEF HandsOver, Owns, ToClose, Stale,
       Becomes
  <2> QED  BY <1>25, <2>2, ClosePeerEffect, Owners
<1>26. ASSUME NEW c \in Calls, NEW inTime \in BOOLEAN, DrainTurn(c, inTime)
       PROVE  OwnerInv'
  <2>1. HandsOver(c)
    BY <1>26, Ranges, DrainTurnEffect DEF HandsOver, Owns, ToClose, Stale,
       Goes, ClosingInv
  <2> QED  BY <1>26, <2>1, DrainTurnEffect, Owners
<1>27. ASSUME NEW c \in Calls, TakeSession(c) PROVE OwnerInv'
  <2>1. /\ Range(<<installed>>) = {installed}
        /\ Range(<<>>) = {}
    BY Ranges
  <2>2. HandsOver(c)
    BY <1>27, <2>1, TakeSessionEffect DEF HandsOver, Owns, ToClose, Stale,
       Goes, From
  <2> QED  BY <1>27, <2>2, TakeSessionEffect, Owners
<1>28. ASSUME NEW c \in Calls, Shutdown(c) PROVE OwnerInv'
  <2>1. /\ Range(<<installed>>) = {installed}
        /\ Range(<<>>) = {}
    BY Ranges
  <2>2. HandsOver(c)
    BY <1>28, <2>1, ShutdownEffect DEF HandsOver, Owns, ToClose, Stale, From
  <2> QED  BY <1>28, <2>2, ShutdownEffect, Owners
<1>29. ASSUME NEW c \in Calls, NEW inTime \in BOOLEAN, StartsDone(c, inTime)
       PROVE  OwnerInv'
  <2>1. HandsOver(c)
    BY <1>29, StartsDoneEffect DEF HandsOver, Owns, ToClose, Stale, Goes, From
  <2> QED  BY <1>29, <2>1, StartsDoneEffect, Owners
<1>30. ASSUME NEW c \in Calls, Return(c) PROVE OwnerInv'
  <2>1. Range(<<>>) = {}
    BY Ranges
  <2>2. HandsOver(c)
    BY <1>30, <2>1, ReturnEffect, SessionsAssumption DEF HandsOver, Owns,
       ToClose, Stale, From, FreshPhases
  <2> QED  BY <1>30, <2>2, ReturnEffect, Owners
<1>31. ASSUME NEW n \in Peers \cup {Old}, LoseNative(n) PROVE OwnerInv'
  BY <1>31 DEF LoseNative, manager, InProgress, Phase, OwnerInv, Owns,
     ToClose, Stale
<1>32. CASE UNCHANGED vars
  BY <1>32 DEF vars, InProgress, Phase, OwnerInv, Owns, ToClose, Stale
<1> QED  BY <1>1, <1>2, <1>3, <1>4, <1>5, <1>6, <1>7, <1>8, <1>9, <1>10,
   <1>11, <1>12, <1>13, <1>14, <1>15, <1>16, <1>17, <1>18, <1>19, <1>20,
   <1>21, <1>22, <1>23, <1>24, <1>25, <1>26, <1>27, <1>28, <1>29, <1>30,
   <1>31, <1>32 DEF Next, Step

(* The turn of a session is that of a call that prompts it. *)
TurnInv ==
    \A p \in Peers : peer[p].turn # None =>
        LET c == peer[p].turn IN
        InProgress(c) /\ Phase(c) \in {"prompt", "prompted"} /\ call[c].p = p

(* Every step keeps turns with the calls that prompt. *)
LEMMA TurnKept ==
    ASSUME Shape, Shape', StartReserved, LaunchedInOrder,
           TurnInv, [Next]_vars
    PROVE  TurnInv'
<1>1. ASSUME NEW c \in Calls, NEW kind \in KindsOf[c], Begin(c, kind)
      PROVE  TurnInv'
  BY <1>1, BeginEffect, Fields DEF Others, Kept, TurnInv
<1>2. ASSUME NEW c \in Calls, CancelContext(c) PROVE TurnInv'
  BY <1>2, CancelContextEffect, Fields DEF Others, Kept, TurnInv
<1>3. ASSUME NEW c \in Calls, Session(c) PROVE TurnInv'
  BY <1>3, SessionEffect, Fields DEF Others, Kept, Goes, From, TurnInv
<1>4. ASSUME NEW c \in Calls, StopWaiting(c) PROVE TurnInv'
  BY <1>4, StopWaitingEffect, Fields DEF Others, Kept, From, TurnInv
<1>5. ASSUME NEW c \in Calls, Launch(c) PROVE TurnInv'
  BY <1>5, LaunchEffect, Fields DEF Others, Kept, Goes, From, Becomes, TurnInv
<1>6. ASSUME NEW c \in Calls, LaunchFails(c) PROVE TurnInv'
  BY <1>6, LaunchFailsEffect, Fields DEF Others, Kept, Goes, From, TurnInv
<1>7. ASSUME NEW c \in Calls, Attach(c) PROVE TurnInv'
  BY <1>7, AttachEffect, Fields DEF Others, Kept, Goes, From, Becomes, TurnInv
<1>8. ASSUME NEW c \in Calls, AttachFails(c) PROVE TurnInv'
  BY <1>8, AttachFailsEffect, Fields DEF Others, Kept, Goes, From, Becomes,
     TurnInv
<1>9. ASSUME NEW c \in Calls, PersistRecovery(c) PROVE TurnInv'
  BY <1>9, PersistRecoveryEffect, Fields DEF Others, Kept, Goes, From, TurnInv
<1>10. ASSUME NEW c \in Calls, Drop(c) PROVE TurnInv'
  BY <1>10, DropEffect, Fields DEF Others, Kept, From, TurnInv
<1>11. ASSUME NEW c \in Calls, Publish(c) PROVE TurnInv'
  BY <1>11, PublishEffect, Fields DEF Others, Kept, Goes, From, TurnInv
<1>12. ASSUME NEW c \in Calls, Published(c) PROVE TurnInv'
  BY <1>12, PublishedEffect, Fields DEF Others, Kept, Goes, From, TurnInv
<1>13. ASSUME NEW c \in Calls, TurnLock(c) PROVE TurnInv'
  BY <1>13, TurnLockEffect, Fields DEF Others, Kept, Goes, From, Becomes,
     TurnInv
<1>14. ASSUME NEW c \in Calls, CheckCurrent(c) PROVE TurnInv'
  BY <1>14, CheckCurrentEffect, Fields DEF Others, Kept, Goes, From, Becomes,
     TurnInv
<1>15. ASSUME NEW c \in Calls, BeginTurn(c) PROVE TurnInv'
  BY <1>15, BeginTurnEffect, Fields DEF Others, Kept, Goes, From, Becomes,
     TurnInv
<1>16. ASSUME NEW c \in Calls, Prompt(c) PROVE TurnInv'
  BY <1>16, PromptEffect, Fields DEF Others, Kept, Goes, From, TurnInv
<1>17. ASSUME NEW c \in Calls, NEW success \in BOOLEAN, EndTurn(c, success)
       PROVE  TurnInv'
  BY <1>17, EndTurnEffect, Fields DEF Others, Kept, From, Releases, TurnInv
<1>18. ASSUME NEW c \in Calls, Reserve(c) PROVE TurnInv'
  BY <1>18, ReserveEffect, Fields DEF Others, Kept, Goes, From, Releases,
     TurnInv
<1>19. ASSUME NEW c \in Calls, Commit(c) PROVE TurnInv'
  BY <1>19, CommitEffect, Fields DEF Others, Kept, Goes, From, TurnInv
<1>20. ASSUME NEW c \in Calls, Install(c) PROVE TurnInv'
  BY <1>20, InstallEffect, Fields DEF Others, Kept, Goes, From, Becomes,
     TurnInv
<1>21. ASSUME NEW c \in Calls, Installed(c) PROVE TurnInv'
  BY <1>21, InstalledEffect, Fields DEF Others, Kept, Goes, From, TurnInv
<1>22. ASSUME NEW c \in Calls, Abort(c) PROVE TurnInv'
  BY <1>22, AbortEffect, Fields DEF Others, Kept, Goes, From, TurnInv
<1>23. ASSUME NEW c \in Calls, Aborted(c) PROVE TurnInv'
  BY <1>23, AbortedEffect, Fields DEF Others, Kept, From, TurnInv
<1>24. ASSUME NEW c \in Calls, CloseAdmission(c) PROVE TurnInv'
  BY <1>24, CloseAdmissionEffect, Fields DEF Others, Kept, StopsTurns, TurnInv
<1>25. ASSUME NEW c \in Calls, ClosePeer(c) PROVE TurnInv'
  BY <1>25, ClosePeerEffect, Fields DEF Others, Kept, Becomes, TurnInv
<1>26. ASSUME NEW c \in Calls, NEW inTime \in BOOLEAN, DrainTurn(c, inTime)
       PROVE  TurnInv'
  BY <1>26, DrainTurnEffect, Fields DEF Others, Kept, Goes, TurnInv
<1>27. ASSUME NEW c \in Calls, TakeSession(c) PROVE TurnInv'
  BY <1>27, TakeSessionEffect, Fields DEF Others, Kept, Goes, From, TurnInv
<1>28. ASSUME NEW c \in Calls, Shutdown(c) PROVE TurnInv'
  BY <1>28, ShutdownEffect, Fields DEF Others, Kept, From, TurnInv
<1>29. ASSUME NEW c \in Calls, NEW inTime \in BOOLEAN, StartsDone(c, inTime)
       PROVE  TurnInv'
  BY <1>29, StartsDoneEffect, Fields DEF Others, Kept, Goes, From, TurnInv
<1>30. ASSUME NEW c \in Calls, Return(c) PROVE TurnInv'
  BY <1>30, ReturnEffect, Fields DEF Others, Kept, From, TurnInv
<1>31. ASSUME NEW n \in Peers \cup {Old}, LoseNative(n) PROVE TurnInv'
  BY <1>31 DEF LoseNative, InProgress, Phase, TurnInv
<1>32. CASE UNCHANGED vars
  BY <1>32 DEF vars, InProgress, Phase, TurnInv
<1> QED  BY <1>1, <1>2, <1>3, <1>4, <1>5, <1>6, <1>7, <1>8, <1>9, <1>10,
   <1>11, <1>12, <1>13, <1>14, <1>15, <1>16, <1>17, <1>18, <1>19, <1>20,
   <1>21, <1>22, <1>23, <1>24, <1>25, <1>26, <1>27, <1>28, <1>29, <1>30,
   <1>31, <1>32 DEF Next, Step

(* The session of a call in its turn is installed, or another call closes  *)
(* it, or has.                                                             *)
InTurn(c) ==
    /\ InProgress(c)
    /\ Phase(c) \in {"turn", "retry", "prompt", "prompted", "installed"}
Covers(c, p) ==
    \/ installed = p
    \/ ToClose(c, p)
    \/ peer[p].state = "dead" /\ peer[p].closing

CoverInv ==
    \A c \in Calls : InTurn(c) => \E d \in Calls : Covers(d, call[c].p)

(* A step of call c leaves the session of another call's turn covered.     *)
KeepsCover(c) ==
    /\ \A p \in Peers : Covers(c, p) =>
          \/ Covers(c, p)'
          \/ \A d \in Calls \ {c} : ~(InTurn(d) /\ call[d].p = p)
    /\ InTurn(c)' =>
          \/ Covers(c, call[c].p)'
          \/ /\ InTurn(c) /\ call'[c].p = call[c].p
             /\ Covers(c, call[c].p) => Covers(c, call[c].p)'

(* Such a step keeps somebody who ends every turn. *)
LEMMA Turns ==
    ASSUME Shape, CoverInv, NEW c \in Calls, Others(c), KeepsCover(c)
    PROVE  CoverInv'
<1>1. \A d \in Calls \ {c}, p \in Peers : ToClose(d, p)' <=> ToClose(d, p)
  BY DEF Others, Kept, ToClose
<1>2. /\ \A d \in Calls \ {c} : InTurn(d)' <=> InTurn(d)
      /\ \A d \in Calls \ {c} : InTurn(d) => call'[d].p = call[d].p
      /\ \A d \in Calls : InTurn(d) => call[d].p \in Peers
  BY Progress DEF Others, Kept, InTurn, GoodCalls, Is, SessionPhases, Phase
<1>3. ASSUME NEW e \in Calls, InTurn(e), call'[e].p = call[e].p,
             Covers(c, call[e].p) => Covers(c, call[e].p)'
      PROVE  \E d \in Calls : Covers(d, call[e].p)'
  <2>1. PICK d \in Calls : Covers(d, call[e].p)
    BY <1>3 DEF CoverInv
  <2>2. CASE Covers(c, call[e].p)
    BY <1>3, <2>2
  <2>3. CASE ~Covers(c, call[e].p)
    <3>1. d # c /\ ToClose(d, call[e].p) /\ call[e].p \in Peers
      BY <1>2, <1>3, <2>1, <2>3 DEF Covers
    <3>2. InProgress(d)' /\ call'[d].todo = call[d].todo
            /\ call[e].p \in Range(call[d].todo)
      BY <3>1 DEF Others, Kept, ToClose
    <3> QED  BY <1>3, <3>2 DEF Covers, ToClose
  <2> QED  BY <2>2, <2>3
<1>4. ASSUME NEW e \in Calls \ {c}, InTurn(e)'
      PROVE  \E d \in Calls : Covers(d, call[e].p)'
  <2>1. InTurn(e) /\ call'[e].p = call[e].p /\ call[e].p \in Peers
    BY <1>2, <1>4
  <2>2. ASSUME Covers(c, call[e].p) PROVE Covers(c, call[e].p)'
    <3>1. PICK p \in Peers : p = call[e].p
      BY <2>1
    <3>2. Covers(c, p)'
      BY <2>1, <2>2, <3>1 DEF KeepsCover
    <3> QED  BY <2>1, <3>1, <3>2 DEF Covers, ToClose
  <2> QED  BY <1>3, <2>1, <2>2
<1>5. ASSUME InTurn(c)' PROVE \E d \in Calls : Covers(d, call[c].p)'
  <2>1. CASE Covers(c, call[c].p)'
    BY <2>1
  <2>2. CASE /\ InTurn(c) /\ call'[c].p = call[c].p
             /\ Covers(c, call[c].p) => Covers(c, call[c].p)'
    BY <1>3, <2>2
  <2> QED  BY <1>5, <2>1, <2>2 DEF KeepsCover
<1> QED  BY <1>4, <1>5 DEF CoverInv

(* Every step keeps the sessions of turns covered. *)
LEMMA CoverKept ==
    ASSUME Shape, Shape', StartReserved, LaunchedInOrder,
           LockInv, InstalledInv, ClosingInv, CoverInv, [Next]_vars
    PROVE  CoverInv'
<1>1. ASSUME NEW c \in Calls, NEW kind \in KindsOf[c], Begin(c, kind)
      PROVE  CoverInv'
  <2>1. Range(<<>>) = {}
    BY Ranges
  <2>2. KeepsCover(c)
    BY <1>1, <2>1, BeginEffect DEF KeepsCover, Covers, ToClose, InTurn
  <2> QED  BY <1>1, <2>2, BeginEffect, Turns
<1>2. ASSUME NEW c \in Calls, CancelContext(c) PROVE CoverInv'
  <2>1. KeepsCover(c)
    BY <1>2, CancelContextEffect DEF KeepsCover, Covers, ToClose, InTurn
  <2> QED  BY <1>2, <2>1, CancelContextEffect, Turns
<1>3. ASSUME NEW c \in Calls, Session(c) PROVE CoverInv'
  <2>1. Range(<<>>) = {}
    BY Ranges
  <2>2. KeepsCover(c)
    BY <1>3, <2>1, SessionEffect DEF KeepsCover, Covers, ToClose, InTurn,
       Goes, Ends, From
  <2> QED  BY <1>3, <2>2, SessionEffect, Turns
<1>4. ASSUME NEW c \in Calls, StopWaiting(c) PROVE CoverInv'
  <2>1. Range(<<>>) = {}
    BY Ranges
  <2>2. KeepsCover(c)
    BY <1>4, <2>1, StopWaitingEffect DEF KeepsCover, Covers, ToClose, InTurn,
       Ends, From
  <2> QED  BY <1>4, <2>2, StopWaitingEffect, Turns
<1>5. ASSUME NEW c \in Calls, Launch(c) PROVE CoverInv'
  <2>1. Range(<<>>) = {}
    BY Ranges
  <2>2. KeepsCover(c)
    BY <1>5, <2>1, LaunchEffect DEF KeepsCover, Covers, ToClose, InTurn, Goes,
       Becomes, From
  <2> QED  BY <1>5, <2>2, LaunchEffect, Turns
<1>6. ASSUME NEW c \in Calls, LaunchFails(c) PROVE CoverInv'
  <2>1. Range(<<>>) = {}
    BY Ranges
  <2>2. KeepsCover(c)
    BY <1>6, <2>1, LaunchFailsEffect DEF KeepsCover, Covers, ToClose, InTurn,
       Goes, From
  <2> QED  BY <1>6, <2>2, LaunchFailsEffect, Turns
<1>7. ASSUME NEW c \in Calls, Attach(c) PROVE CoverInv'
  <2>1. Range(<<>>) = {}
    BY Ranges
  <2>2. KeepsCover(c)
    BY <1>7, <2>1, AttachEffect DEF KeepsCover, Covers, ToClose, InTurn, Goes,
       Becomes, From
  <2> QED  BY <1>7, <2>2, AttachEffect, Turns
<1>8. ASSUME NEW c \in Calls, AttachFails(c) PROVE CoverInv'
  <2>1. Range(<<>>) = {}
    BY Ranges
  <2>2. KeepsCover(c)
    BY <1>8, <2>1, AttachFailsEffect DEF KeepsCover, Covers, ToClose, InTurn,
       Goes, Becomes, From
  <2> QED  BY <1>8, <2>2, AttachFailsEffect, Turns
<1>9. ASSUME NEW c \in Calls, PersistRecovery(c) PROVE CoverInv'
  <2>1. /\ Range(<<call[c].fresh>>) = {call[c].fresh}
        /\ Range(<<>>) = {}
    BY Ranges
  <2>2. KeepsCover(c)
    BY <1>9, <2>1, PersistRecoveryEffect DEF KeepsCover, Covers, ToClose,
       InTurn, Goes, From
  <2> QED  BY <1>9, <2>2, PersistRecoveryEffect, Turns
<1>10. ASSUME NEW c \in Calls, Drop(c) PROVE CoverInv'
  <2>1. Range(<<>>) = {}
    BY Ranges
  <2>2. KeepsCover(c)
    BY <1>10, <2>1, DropEffect DEF KeepsCover, Covers, ToClose, InTurn, Ends,
       From
  <2> QED  BY <1>10, <2>2, DropEffect, Turns
<1>11. ASSUME NEW c \in Calls, Publish(c) PROVE CoverInv'
  <2>1. /\ Range(<<call[c].fresh>>) = {call[c].fresh}
        /\ Range(<<installed>>) = {installed}
        /\ Range(<<>>) = {}
    BY Ranges
  <2>2. KeepsCover(c)
    BY <1>11, <2>1, PublishEffect, SessionsAssumption DEF KeepsCover, Covers,
       ToClose, InTurn, Goes, From
  <2> QED  BY <1>11, <2>2, PublishEffect, Turns
<1>12. ASSUME NEW c \in Calls, Published(c) PROVE CoverInv'
  <2>1. Range(<<>>) = {}
    BY Ranges
  <2>2. KeepsCover(c)
    BY <1>12, <2>1, PublishedEffect DEF KeepsCover, Covers, ToClose, InTurn,
       Goes, Ends, From
  <2> QED  BY <1>12, <2>2, PublishedEffect, Turns
<1>13. ASSUME NEW c \in Calls, TurnLock(c) PROVE CoverInv'
  <2>1. Range(<<>>) = {}
    BY Ranges
  <2>2. KeepsCover(c)
    BY <1>13, <2>1, TurnLockEffect DEF KeepsCover, Covers, ToClose, InTurn,
       Goes, Becomes, From
  <2> QED  BY <1>13, <2>2, TurnLockEffect, Turns
<1>14. ASSUME NEW c \in Calls, CheckCurrent(c) PROVE CoverInv'
  <2>1. Range(<<>>) = {}
    BY Ranges
  <2>2. KeepsCover(c)
    BY <1>14, <2>1, CheckCurrentEffect DEF KeepsCover, Covers, ToClose,
       InTurn, Goes, Ends, Becomes, From
  <2> QED  BY <1>14, <2>2, CheckCurrentEffect, Turns
<1>15. ASSUME NEW c \in Calls, BeginTurn(c) PROVE CoverInv'
  <2>1. Range(<<>>) = {}
    BY Ranges
  <2>2. KeepsCover(c)
    BY <1>15, <2>1, BeginTurnEffect DEF KeepsCover, Covers, ToClose, InTurn,
       Goes, Ends, Becomes, From
  <2> QED  BY <1>15, <2>2, BeginTurnEffect, Turns
<1>16. ASSUME NEW c \in Calls, Prompt(c) PROVE CoverInv'
  <2>1. Range(<<>>) = {}
    BY Ranges
  <2>2. KeepsCover(c)
    BY <1>16, <2>1, PromptEffect DEF KeepsCover, Covers, ToClose, InTurn,
       Goes, From
  <2> QED  BY <1>16, <2>2, PromptEffect, Turns
<1>17. ASSUME NEW c \in Calls, NEW success \in BOOLEAN, EndTurn(c, success)
       PROVE  CoverInv'
  <2>1. Range(<<>>) = {}
    BY Ranges
  <2>2. KeepsCover(c)
    BY <1>17, <2>1, EndTurnEffect DEF KeepsCover, Covers, ToClose, InTurn,
       Ends, Releases, From
  <2> QED  BY <1>17, <2>2, EndTurnEffect, Turns
<1>18. ASSUME NEW c \in Calls, Reserve(c) PROVE CoverInv'
  <2>1. Range(<<>>) = {}
    BY Ranges
  <2>2. KeepsCover(c)
    BY <1>18, <2>1, ReserveEffect DEF KeepsCover, Covers, ToClose, InTurn,
       Goes, Ends, Releases, From, LockInv, Holds
  <2> QED  BY <1>18, <2>2, ReserveEffect, Turns
<1>19. ASSUME NEW c \in Calls, Commit(c) PROVE CoverInv'
  <2>1. /\ Range(<<call[c].fresh>>) = {call[c].fresh}
        /\ Range(<<>>) = {}
    BY Ranges
  <2>2. KeepsCover(c)
    BY <1>19, <2>1, CommitEffect DEF KeepsCover, Covers, ToClose, InTurn,
       Goes, From
  <2> QED  BY <1>19, <2>2, CommitEffect, Turns
<1>20. ASSUME NEW c \in Calls, Install(c) PROVE CoverInv'
  <2>1. Others(c)
    BY <1>20, Rest DEF Step
  <2>2. Range(<<>>) = {}
    BY Ranges
  <2>3. \A q \in Peers :
          peer'[q].state = peer[q].state /\ peer'[q].closing = peer[q].closing
    BY <1>20, InstallEffect DEF Becomes
  <2>4. installed = None /\ ~InTurn(c) /\ call[c].todo = <<>>
    BY <1>20, InstallEffect DEF From, Stale, InTurn, InstalledInv
  <2>5. InTurn(c)' => installed' = call'[c].p
    BY <1>20, InstallEffect DEF Goes, InTurn
  <2>6. KeepsCover(c)
    BY <2>2, <2>3, <2>4, <2>5, SessionsAssumption DEF KeepsCover, Covers,
       ToClose
  <2> QED  BY <2>1, <2>6, Turns
<1>21. ASSUME NEW c \in Calls, Installed(c) PROVE CoverInv'
  <2>1. Range(<<>>) = {}
    BY Ranges
  <2>2. KeepsCover(c)
    BY <1>21, <2>1, InstalledEffect DEF KeepsCover, Covers, ToClose, InTurn,
       Goes, From
  <2> QED  BY <1>21, <2>2, InstalledEffect, Turns
<1>22. ASSUME NEW c \in Calls, Abort(c) PROVE CoverInv'
  <2>1. /\ Range(<<call[c].p>>) = {call[c].p}
        /\ Range(<<>>) = {}
    BY Ranges
  <2>2. KeepsCover(c)
    BY <1>22, <2>1, AbortEffect, SessionsAssumption DEF KeepsCover, Covers,
       ToClose, InTurn, Goes, From, InstalledInv, Stale
  <2> QED  BY <1>22, <2>2, AbortEffect, Turns
<1>23. ASSUME NEW c \in Calls, Aborted(c) PROVE CoverInv'
  <2>1. Range(<<>>) = {}
    BY Ranges
  <2>2. KeepsCover(c)
    BY <1>23, <2>1, AbortedEffect DEF KeepsCover, Covers, ToClose, InTurn,
       Ends, From
  <2> QED  BY <1>23, <2>2, AbortedEffect, Turns
<1>24. ASSUME NEW c \in Calls, CloseAdmission(c) PROVE CoverInv'
  <2>1. Others(c)
    BY <1>24, Rest DEF Step
  <2>2. \A q \in Peers : peer[q].state = "dead" /\ peer[q].closing =>
          peer'[q].state = "dead" /\ peer'[q].closing
    BY <1>24, CloseAdmissionEffect DEF StopsTurns
  <2>3. /\ UNCHANGED installed /\ InProgress(c) /\ InProgress(c)'
        /\ call'[c].todo = call[c].todo /\ Phase(c)' \in NextPcs
        /\ Phase(c)' = Phase(c) /\ call'[c].p = call[c].p
    BY <1>24, CloseAdmissionEffect
  <2>4. InTurn(c) => call[c].p \in Peers
    BY Progress DEF InTurn, GoodCalls, Is, SessionPhases, Phase
  <2>5. KeepsCover(c)
    BY <2>2, <2>3, <2>4 DEF KeepsCover, Covers, ToClose, InTurn
  <2> QED  BY <2>1, <2>5, Turns
<1>25. ASSUME NEW c \in Calls, ClosePeer(c) PROVE CoverInv'
  <2>1. Others(c)
    BY <1>25, Rest DEF Step
  <2>2. \A q \in Peers : peer[q].state = "dead" /\ peer[q].closing =>
          peer'[q].state = "dead" /\ peer'[q].closing
    BY <1>25, ClosePeerEffect DEF Becomes
  <2>3. /\ UNCHANGED installed /\ InProgress(c) /\ InProgress(c)'
        /\ call'[c].todo = call[c].todo /\ Phase(c)' \in NextPcs
        /\ Phase(c)' = Phase(c) /\ call'[c].p = call[c].p
    BY <1>25, ClosePeerEffect
  <2>4. InTurn(c) => call[c].p \in Peers
    BY Progress DEF InTurn, GoodCalls, Is, SessionPhases, Phase
  <2>5. KeepsCover(c)
    BY <2>2, <2>3, <2>4 DEF KeepsCover, Covers, ToClose, InTurn
  <2> QED  BY <2>1, <2>5, Turns
<1>26. ASSUME NEW c \in Calls, NEW inTime \in BOOLEAN, DrainTurn(c, inTime)
       PROVE  CoverInv'
  <2>1. KeepsCover(c)
    BY <1>26, Ranges, DrainTurnEffect DEF KeepsCover, Covers, ToClose, InTurn,
       Goes, ClosingInv
  <2> QED  BY <1>26, <2>1, DrainTurnEffect, Turns
<1>27. ASSUME NEW c \in Calls, TakeSession(c) PROVE CoverInv'
  <2>1. /\ Range(<<installed>>) = {installed}
        /\ Range(<<>>) = {}
    BY Ranges
  <2>2. KeepsCover(c)
    BY <1>27, <2>1, TakeSessionEffect DEF KeepsCover, Covers, ToClose, InTurn,
       Goes, From
  <2> QED  BY <1>27, <2>2, TakeSessionEffect, Turns
<1>28. ASSUME NEW c \in Calls, Shutdown(c) PROVE CoverInv'
  <2>1. /\ Range(<<installed>>) = {installed}
        /\ Range(<<>>) = {}
    BY Ranges
  <2>2. KeepsCover(c)
    BY <1>28, <2>1, ShutdownEffect DEF KeepsCover, Covers, ToClose, InTurn,
       From
  <2> QED  BY <1>28, <2>2, ShutdownEffect, Turns
<1>29. ASSUME NEW c \in Calls, NEW inTime \in BOOLEAN, StartsDone(c, inTime)
       PROVE  CoverInv'
  <2>1. KeepsCover(c)
    BY <1>29, StartsDoneEffect DEF KeepsCover, Covers, ToClose, InTurn, Goes,
       From
  <2> QED  BY <1>29, <2>1, StartsDoneEffect, Turns
<1>30. ASSUME NEW c \in Calls, Return(c) PROVE CoverInv'
  <2>1. Range(<<>>) = {}
    BY Ranges
  <2>2. KeepsCover(c)
    BY <1>30, <2>1, ReturnEffect DEF KeepsCover, Covers, ToClose, InTurn, From
  <2> QED  BY <1>30, <2>2, ReturnEffect, Turns
<1>31. ASSUME NEW n \in Peers \cup {Old}, LoseNative(n) PROVE CoverInv'
  BY <1>31 DEF LoseNative, manager, InProgress, Phase, CoverInv, Covers,
     InTurn, ToClose
<1>32. CASE UNCHANGED vars
  BY <1>32 DEF vars, InProgress, Phase, CoverInv, Covers, InTurn, ToClose
<1> QED  BY <1>1, <1>2, <1>3, <1>4, <1>5, <1>6, <1>7, <1>8, <1>9, <1>10,
   <1>11, <1>12, <1>13, <1>14, <1>15, <1>16, <1>17, <1>18, <1>19, <1>20,
   <1>21, <1>22, <1>23, <1>24, <1>25, <1>26, <1>27, <1>28, <1>29, <1>30,
   <1>31, <1>32 DEF Next, Step

(* After a shutdown of the manager nothing starts: the shutdown waits for  *)
(* the start it met, and reports an error if it cannot.                    *)
ShutInv ==
    \A c \in Calls :
        /\ InProgress(c) /\ Phase(c) = "waitStarts" =>
             closed /\ (start # None => call[c].waits = start)
        /\ InProgress(c) /\ call[c].kind = "shutdown" /\ Phase(c) = "end" =>
             closed /\ (~call[c].failed => start = None)
        /\ ~InProgress(c) /\ call[c].kind = "shutdown" => closed /\ start = None

(* Every step keeps a manager that has shut down from starting sessions. *)
LEMMA ShutKept ==
    ASSUME Shape, Shape', StartReserved, LaunchedInOrder,
           ShutInv, [Next]_vars
    PROVE  ShutInv'
<1>1. ASSUME NEW c \in Calls, NEW kind \in KindsOf[c], Begin(c, kind)
      PROVE  ShutInv'
  BY <1>1, BeginEffect DEF Others, Kept, Calm, ShutInv
<1>2. ASSUME NEW c \in Calls, CancelContext(c) PROVE ShutInv'
  BY <1>2, CancelContextEffect DEF Others, Kept, Calm, ShutInv
<1>3. ASSUME NEW c \in Calls, Session(c) PROVE ShutInv'
  BY <1>3, SessionEffect DEF Others, Kept, Goes, Ends, From, Calm, ShutInv
<1>4. ASSUME NEW c \in Calls, StopWaiting(c) PROVE ShutInv'
  BY <1>4, StopWaitingEffect DEF Others, Kept, Ends, From, Calm, ShutInv
<1>5. ASSUME NEW c \in Calls, Launch(c) PROVE ShutInv'
  BY <1>5, LaunchEffect DEF Others, Kept, Goes, From, Calm, ShutInv
<1>6. ASSUME NEW c \in Calls, LaunchFails(c) PROVE ShutInv'
  BY <1>6, LaunchFailsEffect DEF Others, Kept, Goes, From, Calm, ShutInv
<1>7. ASSUME NEW c \in Calls, Attach(c) PROVE ShutInv'
  BY <1>7, AttachEffect DEF Others, Kept, Goes, From, Calm, ShutInv
<1>8. ASSUME NEW c \in Calls, AttachFails(c) PROVE ShutInv'
  BY <1>8, AttachFailsEffect DEF Others, Kept, Goes, From, Calm, ShutInv
<1>9. ASSUME NEW c \in Calls, PersistRecovery(c) PROVE ShutInv'
  BY <1>9, PersistRecoveryEffect DEF Others, Kept, Goes, From, Calm, ShutInv
<1>10. ASSUME NEW c \in Calls, Drop(c) PROVE ShutInv'
  BY <1>10, DropEffect DEF Others, Kept, Ends, From, Wakes, ShutInv
<1>11. ASSUME NEW c \in Calls, Publish(c) PROVE ShutInv'
  BY <1>11, PublishEffect DEF Others, Kept, Goes, From, Calm, ShutInv
<1>12. ASSUME NEW c \in Calls, Published(c) PROVE ShutInv'
  BY <1>12, PublishedEffect DEF Others, Kept, Goes, Ends, From, Wakes,
     ShutInv, StartReserved, StartPhases
<1>13. ASSUME NEW c \in Calls, TurnLock(c) PROVE ShutInv'
  BY <1>13, TurnLockEffect DEF Others, Kept, Goes, From, Calm, ShutInv
<1>14. ASSUME NEW c \in Calls, CheckCurrent(c) PROVE ShutInv'
  BY <1>14, CheckCurrentEffect DEF Others, Kept, Goes, Ends, From, Calm,
     ShutInv
<1>15. ASSUME NEW c \in Calls, BeginTurn(c) PROVE ShutInv'
  BY <1>15, BeginTurnEffect DEF Others, Kept, Goes, Ends, From, Calm, ShutInv
<1>16. ASSUME NEW c \in Calls, Prompt(c) PROVE ShutInv'
  BY <1>16, PromptEffect DEF Others, Kept, Goes, From, Calm, ShutInv
<1>17. ASSUME NEW c \in Calls, NEW success \in BOOLEAN, EndTurn(c, success)
       PROVE  ShutInv'
  BY <1>17, EndTurnEffect DEF Others, Kept, Ends, From, Calm, ShutInv
<1>18. ASSUME NEW c \in Calls, Reserve(c) PROVE ShutInv'
  BY <1>18, ReserveEffect DEF Others, Kept, Goes, Ends, From, Calm, ShutInv
<1>19. ASSUME NEW c \in Calls, Commit(c) PROVE ShutInv'
  BY <1>19, CommitEffect DEF Others, Kept, Goes, From, Calm, ShutInv
<1>20. ASSUME NEW c \in Calls, Install(c) PROVE ShutInv'
  BY <1>20, InstallEffect DEF Others, Kept, Goes, From, Calm, ShutInv
<1>21. ASSUME NEW c \in Calls, Installed(c) PROVE ShutInv'
  BY <1>21, InstalledEffect DEF Others, Kept, Goes, From, Wakes, ShutInv
<1>22. ASSUME NEW c \in Calls, Abort(c) PROVE ShutInv'
  BY <1>22, AbortEffect DEF Others, Kept, Goes, From, Calm, ShutInv
<1>23. ASSUME NEW c \in Calls, Aborted(c) PROVE ShutInv'
  BY <1>23, AbortedEffect DEF Others, Kept, Ends, From, Wakes, ShutInv,
     StartReserved, StartPhases
<1>24. ASSUME NEW c \in Calls, CloseAdmission(c) PROVE ShutInv'
  BY <1>24, CloseAdmissionEffect DEF Others, Kept, Calm, ShutInv
<1>25. ASSUME NEW c \in Calls, ClosePeer(c) PROVE ShutInv'
  BY <1>25, ClosePeerEffect DEF Others, Kept, Calm, ShutInv
<1>26. ASSUME NEW c \in Calls, NEW inTime \in BOOLEAN, DrainTurn(c, inTime)
       PROVE  ShutInv'
  BY <1>26, DrainTurnEffect, Fields DEF Others, Kept, Goes, Calm, ShutInv
<1>27. ASSUME NEW c \in Calls, TakeSession(c) PROVE ShutInv'
  BY <1>27, TakeSessionEffect DEF Others, Kept, Goes, From, Calm, ShutInv
<1>28. ASSUME NEW c \in Calls, Shutdown(c) PROVE ShutInv'
  BY <1>28, ShutdownEffect DEF Others, Kept, From, Calm, ShutInv
<1>29. ASSUME NEW c \in Calls, NEW inTime \in BOOLEAN, StartsDone(c, inTime)
       PROVE  ShutInv'
  BY <1>29, StartsDoneEffect, Fields DEF Others, Kept, Goes, From, Calm,
     ShutInv
<1>30. ASSUME NEW c \in Calls, Return(c) PROVE ShutInv'
  BY <1>30, ReturnEffect DEF Others, Kept, From, Calm, ShutInv
<1>31. ASSUME NEW n \in Peers \cup {Old}, LoseNative(n) PROVE ShutInv'
  BY <1>31 DEF LoseNative, manager, InProgress, Phase, ShutInv
<1>32. CASE UNCHANGED vars
  BY <1>32 DEF vars, InProgress, Phase, ShutInv
<1> QED  BY <1>1, <1>2, <1>3, <1>4, <1>5, <1>6, <1>7, <1>8, <1>9, <1>10,
   <1>11, <1>12, <1>13, <1>14, <1>15, <1>16, <1>17, <1>18, <1>19, <1>20,
   <1>21, <1>22, <1>23, <1>24, <1>25, <1>26, <1>27, <1>28, <1>29, <1>30,
   <1>31, <1>32 DEF Next, Step

(* A session whose replacement is persisted is out of use, and a session   *)
(* that is being replaced is in no turn.                                   *)
RetiredInv ==
    /\ \A q \in retired :
          /\ peer[q].state # "none" /\ installed # q
          /\ \A c \in Calls :
                /\ InProgress(c) => call[c].fresh # q
                /\ InTurn(c) => call[c].p # q
                /\ Stale(c) /\ Phase(c) # "install" => call[c].p # q
    /\ \A c, d \in Calls : Stale(c) /\ InTurn(d) => call[c].p # call[d].p

(* Every step keeps superseded sessions out of use. *)
LEMMA RetiredKept ==
    ASSUME Shape, Shape', StartReserved, LaunchedInOrder,
           FreshInv, TodoInv, LockInv, InstalledInv, RetiredInv, [Next]_vars
    PROVE  RetiredInv'
<1>1. ASSUME NEW c \in Calls, NEW kind \in KindsOf[c], Begin(c, kind)
      PROVE  RetiredInv'
  BY <1>1, BeginEffect, Fields, SessionsAssumption DEF Others, Kept,
     RetiredInv, InTurn, Stale, FreshInv, InstalledInv
<1>2. ASSUME NEW c \in Calls, CancelContext(c) PROVE RetiredInv'
  BY <1>2, CancelContextEffect DEF Others, Kept, RetiredInv, InTurn, Stale,
     FreshInv, InstalledInv
<1>3. ASSUME NEW c \in Calls, Session(c) PROVE RetiredInv'
  BY <1>3, SessionEffect DEF Others, Kept, Goes, Ends, From, RetiredInv,
     InTurn, Stale, FreshInv, InstalledInv
<1>4. ASSUME NEW c \in Calls, StopWaiting(c) PROVE RetiredInv'
  BY <1>4, StopWaitingEffect DEF Others, Kept, Ends, From, RetiredInv, InTurn,
     Stale, FreshInv, InstalledInv
<1>5. ASSUME NEW c \in Calls, Launch(c) PROVE RetiredInv'
  BY <1>5, LaunchEffect, Fields DEF Others, Kept, Goes, From, Becomes,
     RetiredInv, InTurn, Stale, FreshInv, InstalledInv
<1>6. ASSUME NEW c \in Calls, LaunchFails(c) PROVE RetiredInv'
  BY <1>6, LaunchFailsEffect DEF Others, Kept, Goes, From, RetiredInv, InTurn,
     Stale, FreshInv, InstalledInv
<1>7. ASSUME NEW c \in Calls, Attach(c) PROVE RetiredInv'
  BY <1>7, AttachEffect, Fields DEF Others, Kept, Goes, From, Becomes,
     RetiredInv, InTurn, Stale, FreshInv, InstalledInv
<1>8. ASSUME NEW c \in Calls, AttachFails(c) PROVE RetiredInv'
  BY <1>8, AttachFailsEffect, Fields, SessionsAssumption DEF Others, Kept,
     Goes, From, Becomes, RetiredInv, InTurn, Stale, FreshInv, InstalledInv
<1>9. ASSUME NEW c \in Calls, PersistRecovery(c) PROVE RetiredInv'
  BY <1>9, PersistRecoveryEffect, Fields, SessionsAssumption DEF Others, Kept,
     Goes, From, RetiredInv, InTurn, Stale, FreshInv, InstalledInv
<1>10. ASSUME NEW c \in Calls, Drop(c) PROVE RetiredInv'
  BY <1>10, DropEffect DEF Others, Kept, Ends, From, RetiredInv, InTurn,
     Stale, FreshInv, InstalledInv
<1>11. ASSUME NEW c \in Calls, Publish(c) PROVE RetiredInv'
  BY <1>11, PublishEffect, Fields, SessionsAssumption DEF Others, Kept, Goes,
     From, RetiredInv, InTurn, Stale, FreshInv, InstalledInv
<1>12. ASSUME NEW c \in Calls, Published(c) PROVE RetiredInv'
  BY <1>12, PublishedEffect DEF Others, Kept, Goes, Ends, From, RetiredInv,
     InTurn, Stale, FreshInv, InstalledInv
<1>13. ASSUME NEW c \in Calls, TurnLock(c) PROVE RetiredInv'
  BY <1>13, TurnLockEffect, Fields DEF Others, Kept, Goes, From, Becomes,
     RetiredInv, InTurn, Stale, FreshInv, InstalledInv
<1>14. ASSUME NEW c \in Calls, CheckCurrent(c) PROVE RetiredInv'
  BY <1>14, CheckCurrentEffect, Fields, SessionsAssumption DEF Others, Kept,
     Goes, Ends, From, Becomes, RetiredInv, InTurn, Stale, FreshInv,
     InstalledInv, SessionPhases
<1>15. ASSUME NEW c \in Calls, BeginTurn(c) PROVE RetiredInv'
  BY <1>15, BeginTurnEffect, Fields DEF Others, Kept, Goes, Ends, From,
     Becomes, RetiredInv, InTurn, Stale, FreshInv, InstalledInv
<1>16. ASSUME NEW c \in Calls, Prompt(c) PROVE RetiredInv'
  BY <1>16, PromptEffect DEF Others, Kept, Goes, From, RetiredInv, InTurn,
     Stale, FreshInv, InstalledInv
<1>17. ASSUME NEW c \in Calls, NEW success \in BOOLEAN, EndTurn(c, success)
       PROVE  RetiredInv'
  BY <1>17, EndTurnEffect, Fields DEF Others, Kept, Ends, From, Releases,
     RetiredInv, InTurn, Stale, FreshInv, InstalledInv
<1>18. ASSUME NEW c \in Calls, Reserve(c) PROVE RetiredInv'
  <2>1. Others(c)
    BY <1>18, Rest DEF Step
  <2>2. call[c].p \in Peers /\ Holds(c)
    BY <1>18, ReserveEffect DEF From, Holds, SessionPhases
  <2>3. \A d \in Calls \ {c} : InTurn(d) => call[d].p # call[c].p
    BY <2>2 DEF LockInv, Holds, InTurn
  <2> QED  BY <1>18, <2>1, <2>2, <2>3, ReserveEffect, Fields,
     SessionsAssumption DEF Others, Kept, Goes, Ends, From, Releases,
     RetiredInv, InTurn, Stale
<1>19. ASSUME NEW c \in Calls, Commit(c) PROVE RetiredInv'
  BY <1>19, CommitEffect, SessionsAssumption DEF Others, Kept, Goes, From,
     RetiredInv, InTurn, Stale, FreshInv, InstalledInv, SessionPhases,
     StartReserved, StartPhases
<1>20. ASSUME NEW c \in Calls, Install(c) PROVE RetiredInv'
  BY <1>20, InstallEffect, Fields DEF Others, Kept, Goes, From, Becomes,
     RetiredInv, InTurn, Stale, FreshInv, InstalledInv, StartReserved,
     StartPhases
<1>21. ASSUME NEW c \in Calls, Installed(c) PROVE RetiredInv'
  BY <1>21, InstalledEffect DEF Others, Kept, Goes, From, RetiredInv, InTurn,
     Stale, FreshInv, InstalledInv
<1>22. ASSUME NEW c \in Calls, Abort(c) PROVE RetiredInv'
  BY <1>22, AbortEffect DEF Others, Kept, Goes, From, RetiredInv, InTurn,
     Stale, FreshInv, InstalledInv
<1>23. ASSUME NEW c \in Calls, Aborted(c) PROVE RetiredInv'
  BY <1>23, AbortedEffect DEF Others, Kept, Ends, From, RetiredInv, InTurn,
     Stale, FreshInv, InstalledInv
<1>24. ASSUME NEW c \in Calls, CloseAdmission(c) PROVE RetiredInv'
  BY <1>24, CloseAdmissionEffect, Fields DEF Others, Kept, StopsTurns,
     RetiredInv, InTurn, Stale, FreshInv, InstalledInv
<1>25. ASSUME NEW c \in Calls, ClosePeer(c) PROVE RetiredInv'
  BY <1>25, ClosePeerEffect, Fields DEF Others, Kept, Becomes, RetiredInv,
     InTurn, Stale, FreshInv, InstalledInv
<1>26. ASSUME NEW c \in Calls, NEW inTime \in BOOLEAN, DrainTurn(c, inTime)
       PROVE  RetiredInv'
  BY <1>26, DrainTurnEffect DEF Others, Kept, Goes, RetiredInv, InTurn, Stale,
     FreshInv, InstalledInv
<1>27. ASSUME NEW c \in Calls, TakeSession(c) PROVE RetiredInv'
  BY <1>27, TakeSessionEffect DEF Others, Kept, Goes, From, RetiredInv,
     InTurn, Stale, FreshInv, InstalledInv, FreshPhases
<1>28. ASSUME NEW c \in Calls, Shutdown(c) PROVE RetiredInv'
  BY <1>28, ShutdownEffect DEF Others, Kept, From, RetiredInv, InTurn, Stale,
     FreshInv, InstalledInv, FreshPhases
<1>29. ASSUME NEW c \in Calls, NEW inTime \in BOOLEAN, StartsDone(c, inTime)
       PROVE  RetiredInv'
  BY <1>29, StartsDoneEffect DEF Others, Kept, Goes, From, RetiredInv, InTurn,
     Stale, FreshInv, InstalledInv
<1>30. ASSUME NEW c \in Calls, Return(c) PROVE RetiredInv'
  BY <1>30, ReturnEffect DEF Others, Kept, From, RetiredInv, InTurn, Stale,
     FreshInv, InstalledInv
<1>31. ASSUME NEW n \in Peers \cup {Old}, LoseNative(n) PROVE RetiredInv'
  BY <1>31 DEF LoseNative, manager, InProgress, Phase, RetiredInv, InTurn,
     Stale, FreshInv, InstalledInv
<1>32. CASE UNCHANGED vars
  BY <1>32 DEF vars, InProgress, Phase, RetiredInv, InTurn, Stale, FreshInv,
     InstalledInv
<1> QED  BY <1>1, <1>2, <1>3, <1>4, <1>5, <1>6, <1>7, <1>8, <1>9, <1>10,
   <1>11, <1>12, <1>13, <1>14, <1>15, <1>16, <1>17, <1>18, <1>19, <1>20,
   <1>21, <1>22, <1>23, <1>24, <1>25, <1>26, <1>27, <1>28, <1>29, <1>30,
   <1>31, <1>32 DEF Next, Step

-----------------------------------------------------------------------------
(* The inductive invariant. *)
Inv ==
    /\ Shape
    /\ StartReserved
    /\ LaunchedInOrder
    /\ WaitInv
    /\ FreshInv
    /\ TodoInv
    /\ LockInv
    /\ InstalledInv
    /\ ClosingInv
    /\ OwnerInv
    /\ TurnInv
    /\ CoverInv
    /\ ShutInv
    /\ RetiredInv

(* The invariant holds at the start. *)
LEMMA InvInit == Init => Inv
<1> SUFFICES ASSUME Init PROVE Inv
  OBVIOUS
<1>1. Shape
  BY ShapeInit
<1>2. /\ start = None /\ installed = None /\ closed = FALSE /\ retired = {}
      /\ \A c \in Calls : ~InProgress(c) /\ call[c].kind = "none"
      /\ \A p \in Peers :
           /\ peer[p].state = "none" /\ peer[p].closing = FALSE
           /\ peer[p].turn = None /\ peer[p].lock = None
  BY DEF Init, InProgress, NoCall, NoPeer
<1>3. StartReserved
  BY <1>2, SessionsAssumption DEF StartReserved
<1>4. LaunchedInOrder
  BY <1>2, SessionsAssumption DEF LaunchedInOrder, Peers
<1>5. WaitInv /\ FreshInv /\ TodoInv
  BY <1>2, SessionsAssumption DEF WaitInv, FreshInv, TodoInv
<1>6. LockInv /\ InstalledInv /\ ClosingInv /\ OwnerInv /\ TurnInv
  BY <1>2 DEF LockInv, Holds, InstalledInv, Stale, ClosingInv, OwnerInv,
     TurnInv
<1>7. CoverInv /\ ShutInv /\ RetiredInv
  BY <1>2 DEF CoverInv, InTurn, ShutInv, RetiredInv
<1> QED  BY <1>1, <1>3, <1>4, <1>5, <1>6, <1>7 DEF Inv

(* Every step keeps the invariant. *)
LEMMA InvKept == Inv /\ [Next]_vars => Inv'
<1> SUFFICES ASSUME Inv, [Next]_vars PROVE Inv'
  OBVIOUS
<1> USE DEF Inv
<1>1. Shape'
  BY ShapeKept
<1>2. StartReserved' /\ LaunchedInOrder'
  BY <1>1, StartKept, LaunchedKept
<1>3. WaitInv'
  BY <1>1, WaitKept
<1>4. FreshInv'
  BY <1>1, FreshKept
<1>5. TodoInv'
  BY <1>1, TodoKept
<1>6. LockInv'
  BY <1>1, LockKept
<1>7. InstalledInv'
  BY <1>1, InstalledKept
<1>8. ClosingInv'
  BY <1>1, ClosingKept
<1>9. OwnerInv'
  BY <1>1, OwnerKept
<1>10. TurnInv'
  BY <1>1, TurnKept
<1>11. CoverInv'
  BY <1>1, CoverKept
<1>12. ShutInv'
  BY <1>1, ShutKept
<1>13. RetiredInv'
  BY <1>1, RetiredKept
<1> QED  BY <1>1, <1>2, <1>3, <1>4, <1>5, <1>6, <1>7, <1>8, <1>9, <1>10,
   <1>11, <1>12, <1>13

(* The invariant holds in every state. *)
LEMMA Invariant == Spec => []Inv
<1> QED  BY InvInit, InvKept, PTL DEF Spec

(* No adapter process is left behind, whatever starts, replacements,       *)
(* closes, failures and shutdowns run over each other, for any number of   *)
(* calls and processes.                                                    *)
THEOREM AdaptersOwned == Spec => []NoOrphanPeer
<1>1. Inv => NoOrphanPeer
  <2> SUFFICES ASSUME Inv, NEW p \in Peers, peer[p].state = "live"
               PROVE  \/ installed = p /\ ~closed
                      \/ \E c \in Calls :
                            /\ InProgress(c)
                            /\ p \in {call[c].p, call[c].fresh}
                                   \cup Range(call[c].todo)
    BY DEF NoOrphanPeer
  <2>1. CASE installed = p
    BY <2>1, SessionsAssumption DEF Inv, InstalledInv
  <2>2. ASSUME NEW c \in Calls, Owns(c, p)
        PROVE  InProgress(c)
                 /\ p \in {call[c].p, call[c].fresh} \cup Range(call[c].todo)
    BY <2>2 DEF Owns, ToClose, Stale
  <2> QED  BY <2>1, <2>2 DEF Inv, OwnerInv
<1> QED  BY <1>1, Invariant, PTL

(* Every wait of a call, for a start or for a turn lock, is for a call     *)
(* that is on its way to end it: the manager does not deadlock.            *)
THEOREM EveryWaitIsBacked == Spec => []WaitsAreBacked
<1>1. Inv => WaitsAreBacked
  <2> SUFFICES ASSUME Inv PROVE WaitsAreBacked
    OBVIOUS
  <2>1. start # None => Starting(start)
    BY Fields DEF Inv, StartReserved, StartPhases, Starting
  <2> QED  BY <2>1 DEF Inv, WaitInv, LockInv, Holds, WaitsAreBacked
<1> QED  BY <1>1, Invariant, PTL

(* After Shutdown returned without an error nothing starts, and a turn     *)
(* that is left is on a session that another call is closing or has        *)
(* closed: cancelled, on a process that has ended.                         *)
THEOREM NoTurnSurvivesShutdown == Spec => []ShutdownStopsTurns
<1>1. Inv => ShutdownStopsTurns
  <2> SUFFICES ASSUME Inv, NEW c \in Calls, At(c, "done"),
                      call[c].kind = "shutdown"
               PROVE  /\ start = None
                      /\ \A p \in Peers : peer[p].turn # None =>
                            \/ \E d \in Calls :
                                 InProgress(d) /\ p \in Range(call[d].todo)
                            \/ peer[p].state = "dead" /\ peer[p].cut
    BY DEF ShutdownStopsTurns
  <2>1. start = None /\ closed /\ installed = None
    BY DEF Inv, ShutInv, InstalledInv, At, InProgress
  <2>2. ASSUME NEW p \in Peers, peer[p].turn # None
        PROVE  \/ \E d \in Calls : InProgress(d) /\ p \in Range(call[d].todo)
               \/ peer[p].state = "dead" /\ peer[p].cut
    <3> DEFINE t == peer[p].turn
    <3>1. t \in Calls /\ InTurn(t) /\ call[t].p = p
      BY <2>2, Fields DEF Inv, TurnInv, InTurn
    <3>2. PICK d \in Calls : Covers(d, p)
      BY <3>1 DEF Inv, CoverInv
    <3>3. peer[p].closing => peer[p].cut
      BY <2>2 DEF Inv, ClosingInv
    <3> QED  BY <2>1, <3>2, <3>3, SessionsAssumption DEF Covers, ToClose
  <2> QED  BY <2>1, <2>2
<1> QED  BY <1>1, Invariant, PTL

(* No prompt reaches a session after its replacement is persisted.         *)
THEOREM SupersededStaysSilent == Spec => RetiredNeverPrompted
<1>1. ASSUME Inv, NEW c \in Calls, At(c, "prompt") PROVE call[c].p \notin retired
  <2>1. InProgress(c) /\ call[c].pc \notin ClosePcs
    BY <1>1 DEF At, InProgress, ClosePcs
  <2>2. InTurn(c)
    BY <1>1, <2>1, Before DEF Inv, From, InTurn, At
  <2> QED  BY <1>1, <2>2 DEF Inv, RetiredInv
<1>2. Inv /\ [Next]_vars =>
        [\A c \in Calls :
           At(c, "prompt") /\ call'[c].pc = "prompted" =>
             call[c].p \notin retired]_vars
  BY <1>1
<1> QED  BY <1>2, Invariant, PTL DEF Spec, RetiredNeverPrompted

=============================================================================
