---------------------- MODULE ExternalApprovals_proofs ----------------------
(***************************************************************************)
(* Safety of the permission requests of external agents for any number of  *)
(* requests, operator calls, grants, faults and restarts, for every offer  *)
(* of options and every configuration.                                     *)
(***************************************************************************)
EXTENDS ExternalApprovals, TLAPS

Decisions == {"approve", "deny", "none"}
ScopeNames == {"once", "session", "workspace_tool", "adapter_tool"}
OptionOrNone == Options \cup {"none"}
Responses == Options \cup {"cancelled"}

CallSet ==
    [pc : {"commit", "grant", "wake"}, q : Requests, decision : Decisions,
     option : OptionOrNone, scope : ScopeNames, at : Nat,
     status : {"approved", "denied", "cancelled"}]

GrantSet ==
    [q : Requests, scope : ScopeNames, tool : {ToolOf[q] : q \in Requests},
     session : {SessionOf[q] : q \in Requests},
     workspace : {WorkspaceOf[q] : q \in Requests}, decision : Decisions,
     at : Nat]

RowSet == [status : {"none", "pending"} \cup Ended, option : OptionOrNone]
Paths == {"none", "grant", "mode", "unread", "timeout", "request_cancelled"}
PlanSet == [status : {"none"} \cup Ended, option : OptionOrNone, via : Paths]
AnswerSet == [says : {"none", "empty"} \cup Responses,
              via : Paths \cup {"row", "waiter"}]

(* The type invariant. *)
TypeOK ==
    /\ row \in [Requests -> RowSet]
    /\ grants \subseteq GrantSet
    /\ pc \in [Requests -> {"idle", "lookup", "register", "refresh", "select",
                            "settle", "done", "lost"}]
    /\ plan \in [Requests -> PlanSet]
    /\ ctxDone \subseteq Requests
    /\ waiter \in [Requests -> {"none", "empty"} \cup Responses]
    /\ answer \in [Requests -> AnswerSet]
    /\ call \in [Calls -> {NoCall, CallEnded} \cup CallSet]
    /\ clock \in Nat
    /\ notices \in [Requests -> Nat]
    /\ authority \subseteq GrantSet
    /\ acked \subseteq Requests
    /\ faults \in Nat

Resolved(o) == call[o].pc \in {"grant", "wake"}
Approves(s, q) == \E a \in s : a.q = q
Auth(q) == Approves(authority, q)

(* A call knows what it decided; one that has resolved its approval is the *)
(* only one, and the row says what it decided.                             *)
CallsOwnTheirRows ==
    /\ \A o \in Calls : call[o].pc \in {"commit", "grant", "wake"} =>
          /\ call[o].status = "cancelled" => call[o].option = "none"
          /\ call[o].option \in Allow => call[o].decision = "approve"
          /\ call[o].decision = "none" => call[o].scope = "once"
          /\ call[o].decision # "none" => call[o].at < clock
    /\ \A o \in Calls : Resolved(o) =>
          /\ row[call[o].q].status = call[o].status
          /\ row[call[o].q].option = call[o].option
          /\ notices[call[o].q] = 0
    /\ \A o, p \in Calls :
          Resolved(o) /\ Resolved(p) /\ call[o].q = call[p].q => o = p

(* A plan is made at "settle" and nowhere else; a request has no row before *)
(* it is made; an announced approval is not pending and never will be.     *)
RequestsInOrder ==
    \A q \in Requests :
        /\ pc[q] = "settle" => plan[q].status \in Ended
        /\ pc[q] # "settle" => plan[q].option = "none"
        /\ row[q].status # "none" => pc[q] # "idle"
        /\ pc[q] \in {"refresh", "select"} => waiter[q] # "none"
        /\ notices[q] # 0 =>
              notices[q] = 1 /\ row[q].status # "pending" /\ pc[q] # "idle"

(* A response in a channel, or given from one, is that of a resolved row. *)
ResponsesFromRows ==
    \A q \in Requests :
        /\ waiter[q] \in Responses =>
              /\ row[q].status \in Ended
              /\ waiter[q] = responseForResolvedApproval(row[q])
        /\ answer[q].via \in {"waiter", "row"} =>
              /\ pc[q] = "done"
              /\ \/ row[q].status = "none"
                 \/ /\ row[q].status \in Ended
                    /\ answer[q].says = responseForResolvedApproval(row[q])

(* Grants that allow are backed by the operator, also the one a call is    *)
(* about to store, which nobody can have deleted.                          *)
GrantsAuthorized ==
    /\ \A g \in grants :
          /\ g.scope # "once" /\ g.at < clock
          /\ g.decision = "approve" => g \in authority
          /\ \A o \in Calls :
                call[o].pc \in {"commit", "grant"} /\ call[o].decision # "none" =>
                    g.at # call[o].at
    /\ \A o \in Calls :
          call[o].pc = "grant" /\ call[o].decision = "approve" =>
              GrantOf(call[o]) \in authority
    /\ \A o, p \in Calls :
          /\ call[o].pc \in {"commit", "grant"} /\ call[o].decision # "none"
          /\ call[p].pc \in {"commit", "grant"} /\ call[p].decision # "none"
          /\ call[o].at = call[p].at
          => o = p

(* An option that allows, in a row not written by the request itself or in *)
(* a channel, was approved by the operator.                                *)
AllowsAuthorized ==
    /\ \A q \in Requests :
          /\ waiter[q] \in Allow => Auth(q)
          /\ pc[q] \notin {"settle", "done", "lost"} /\ row[q].option \in Allow =>
                Auth(q)
    /\ \A o \in Calls :
          Resolved(o) /\ call[o].option \in Allow => Auth(call[o].q)

(* A resolution that returned to its caller has left a row to be read. *)
AcksLeaveRows ==
    \A q \in acked :
        /\ row[q].status \in Ended \/ pc[q] \in {"done", "lost"}
        /\ pc[q] # "idle"

(* The inductive invariant. *)
ApprovalsInv ==
    /\ TypeOK
    /\ CallsOwnTheirRows
    /\ RequestsInOrder
    /\ ResponsesFromRows
    /\ GrantsAuthorized
    /\ AllowsAuthorized
    /\ AcksLeaveRows
    /\ DecisionReachesWaiter

-----------------------------------------------------------------------------
(* Sets over which the definitions range. *)
LEMMA OptionSets ==
    /\ Allow \subseteq Options /\ Reject \subseteq Options
    /\ \A x \in Allow : x \notin Reject /\ x # "none"
    /\ "none" \notin Options /\ "cancelled" \notin Options /\ "empty" \notin Options
BY DEF Allow, Reject, Options

(* pickOption returns one of the two kinds it looks for, or none. *)
LEMMA PickOptionRange ==
    ASSUME NEW q, NEW first, NEW second
    PROVE  pickOption(q, first, second) \in {first, second, "none"}
BY DEF pickOption

(* What a decision is stored as, and that only an approval allows. *)
LEMMA ApplyDecisionRange ==
    ASSUME NEW q \in Requests, NEW decision \in Decisions, NEW fallback \in BOOLEAN
    PROVE  /\ applyDecision(q, decision, fallback).status \in
                  {"approved", "denied", "cancelled"}
           /\ applyDecision(q, decision, fallback).option \in OptionOrNone
           /\ applyDecision(q, decision, fallback).option \in Allow =>
                  decision = "approve"
<1>1. OptionsOf[q] # <<>> => Head(OptionsOf[q]) \in Options
  BY ApprovalsAssumption
<1>2. pickOption(q, "allow_once", "allow_always") \in {"allow_once", "allow_always", "none"}
  BY PickOptionRange
<1>3. pickOption(q, "reject_once", "reject_always") \in {"reject_once", "reject_always", "none"}
  BY PickOptionRange
<1> QED BY <1>1, <1>2, <1>3 DEF applyDecision, Cancelled, Decisions,
   OptionOrNone, Options, Allow, Reject

(* What the agent is sent for an option; it allows only if the option      *)
(* does.                                                                   *)
LEMMA ResponseRange ==
    ASSUME NEW option \in OptionOrNone
    PROVE  Response(option) \in Responses /\ (Response(option) \in Allow => option \in Allow)
BY DEF Response, Responses, OptionOrNone, Options, Allow, Reject

(* The response for a row is one an agent understands, and allows only     *)
(* what the row allows.                                                    *)
LEMMA RowResponseRange ==
    ASSUME NEW r, r.option \in OptionOrNone
    PROVE  /\ responseForResolvedApproval(r) \in Responses
           /\ responseForResolvedApproval(r) \in Allow => r.option \in Allow
BY ResponseRange, OptionSets DEF responseForResolvedApproval, Responses

(* The grant that Resolve builds from a call is a well-formed row. *)
LEMMA GrantOfRange ==
    ASSUME NEW c \in CallSet
    PROVE  GrantOf(c) \in GrantSet
BY DEF GrantOf, CallSet, GrantSet

(* A call in progress has a full record. *)
LEMMA CallInProgress ==
    ASSUME TypeOK, NEW o \in Calls, call[o].pc \in {"commit", "grant", "wake"}
    PROVE  call[o] \in CallSet
BY DEF TypeOK, NoCall, CallEnded

DecisionSet ==
    [status : {"approved", "denied", "cancelled"}, option : OptionOrNone]

(* What a permission request decides to store is a well-formed plan. *)
LEMMA DecisionType ==
    ASSUME NEW q \in Requests, NEW decision \in Decisions, NEW fallback \in BOOLEAN
    PROVE  applyDecision(q, decision, fallback) \in DecisionSet
<1>1. OptionsOf[q] # <<>> => Head(OptionsOf[q]) \in Options
  BY ApprovalsAssumption
<1>2. pickOption(q, "allow_once", "allow_always") \in {"allow_once", "allow_always", "none"}
  BY PickOptionRange
<1>3. pickOption(q, "reject_once", "reject_always") \in {"reject_once", "reject_always", "none"}
  BY PickOptionRange
<1> QED BY <1>1, <1>2, <1>3 DEF applyDecision, Cancelled, Decisions,
   OptionOrNone, Options, Allow, Reject, DecisionSet

(* RequestPermission: creating the row preserves the invariant. *)
LEMMA CreateApprovalKeeps ==
    ASSUME ApprovalsInv, NEW q \in Requests, CreateApproval(q)
    PROVE  ApprovalsInv'
<1> USE DEF ApprovalsInv
<1>0. /\ row' \in {row, [row EXCEPT ![q] = [status |-> "pending", option |-> "none"]]}
      /\ row[q].status = "none" /\ pc[q] = "idle" /\ faults' \in Nat
  BY DEF CreateApproval, RequestsInOrder, StoreFails, Fault, TypeOK
<1>a. \A o \in Calls : Resolved(o) => call[o].q # q /\ call[o].q \in Requests
  BY <1>0, CallInProgress DEF CallsOwnTheirRows, Resolved, CallSet
<1>1. TypeOK'
  <2>1. row' \in [Requests -> RowSet]
    BY <1>0 DEF TypeOK, RowSet, OptionOrNone
  <2> QED BY <1>0, <2>1 DEF TypeOK, CreateApproval, ghosts
<1>2. CallsOwnTheirRows'
  BY <1>0, <1>a DEF CallsOwnTheirRows, Resolved, TypeOK, CreateApproval,
     ghosts
<1>3. RequestsInOrder'
  BY DEF RequestsInOrder, TypeOK, CreateApproval, ghosts
<1>4. ResponsesFromRows'
  BY DEF ResponsesFromRows, TypeOK, CreateApproval, ghosts, RequestsInOrder,
     Ended
<1>5. GrantsAuthorized'
  BY DEF GrantsAuthorized, CreateApproval, ghosts
<1>6. AllowsAuthorized'
  BY OptionSets DEF AllowsAuthorized, Resolved, Auth, Approves, TypeOK,
     CreateApproval, ghosts
<1>7. AcksLeaveRows'
  BY DEF AcksLeaveRows, TypeOK, CreateApproval, ghosts
<1>8. DecisionReachesWaiter'
  BY DEF DecisionReachesWaiter, CreateApproval, ghosts
<1> QED BY <1>1, <1>2, <1>3, <1>4, <1>5, <1>6, <1>7, <1>8

(* RequestPermission: so does a stored grant that decides. *)
LEMMA ApplyGrantKeeps ==
    ASSUME ApprovalsInv, NEW q \in Requests, ApplyGrant(q)
    PROVE  ApprovalsInv'
<1> USE DEF ApprovalsInv
<1>0. PICK d \in DecisionSet : Settle(q, d, "grant")
  BY DecisionType DEF ApplyGrant, FindMatchingGrant, TypeOK, GrantSet
<1>1. TypeOK'
  BY <1>0 DEF TypeOK, RowSet, PlanSet, Paths, ApplyGrant, Settle, ghosts,
     DecisionSet, Ended
<1>2. CallsOwnTheirRows'
  BY DEF CallsOwnTheirRows, Resolved, ApplyGrant, ghosts
<1>3. RequestsInOrder'
  BY <1>0 DEF RequestsInOrder, TypeOK, ApplyGrant, Settle, ghosts,
     DecisionSet, Ended
<1>4. ResponsesFromRows'
  BY DEF ResponsesFromRows, ApplyGrant, Settle, ghosts
<1>5. GrantsAuthorized'
  BY DEF GrantsAuthorized, ApplyGrant, ghosts
<1>6. AllowsAuthorized'
  BY DEF AllowsAuthorized, Resolved, Auth, Approves, ApplyGrant, Settle,
     ghosts
<1>7. AcksLeaveRows'
  BY DEF AcksLeaveRows, ApplyGrant, Settle, ghosts
<1>8. DecisionReachesWaiter'
  BY DEF DecisionReachesWaiter, ApplyGrant, Settle, ghosts
<1> QED BY <1>1, <1>2, <1>3, <1>4, <1>5, <1>6, <1>7, <1>8

(* RequestPermission: so does the mode when it decides. *)
LEMMA ApplyModeKeeps ==
    ASSUME ApprovalsInv, NEW q \in Requests, ApplyMode(q)
    PROVE  ApprovalsInv'
<1> USE DEF ApprovalsInv
<1>a. faults' \in Nat
  BY DEF ApplyMode, StoreFails, Fault, TypeOK
<1>0. \/ plan' = plan /\ pc' = [pc EXCEPT ![q] = "register"]
      \/ \E d \in DecisionSet : Settle(q, d, "mode")
  <2>1. Cancelled \in DecisionSet
    BY DEF Cancelled, DecisionSet, OptionOrNone
  <2> QED BY <2>1, DecisionType DEF ApplyMode, Decisions
<1>1. TypeOK'
  <2>1. plan' \in [Requests -> PlanSet]
    <3>1. \A d \in DecisionSet :
             [status |-> d.status, option |-> d.option, via |-> "mode"] \in PlanSet
      BY DEF DecisionSet, PlanSet, Paths, Ended
    <3> QED BY <1>0, <3>1 DEF TypeOK, Settle
  <2>2. pc' \in [Requests -> {"idle", "lookup", "register", "refresh", "select",
                             "settle", "done", "lost"}]
    BY <1>0 DEF TypeOK, Settle
  <2> QED BY <1>a, <2>1, <2>2 DEF TypeOK, ApplyMode, ghosts
<1>2. CallsOwnTheirRows'
  BY DEF CallsOwnTheirRows, Resolved, ApplyMode, ghosts
<1>3. RequestsInOrder'
  BY <1>0 DEF RequestsInOrder, TypeOK, Settle, DecisionSet, Ended, ApplyMode,
     ghosts
<1>4. ResponsesFromRows'
  BY DEF ResponsesFromRows, TypeOK, ApplyMode, Settle, ghosts
<1>5. GrantsAuthorized'
  BY DEF GrantsAuthorized, ApplyMode, ghosts
<1>6. AllowsAuthorized'
  BY DEF AllowsAuthorized, Resolved, Auth, Approves, TypeOK, ApplyMode,
     Settle, ghosts
<1>7. AcksLeaveRows'
  BY DEF AcksLeaveRows, TypeOK, ApplyMode, Settle, ghosts
<1>8. DecisionReachesWaiter'
  BY DEF DecisionReachesWaiter, TypeOK, ApplyMode, Settle, ghosts
<1> QED BY <1>1, <1>2, <1>3, <1>4, <1>5, <1>6, <1>7, <1>8

(* RequestPermission: so does registering the waiter's channel. *)
LEMMA RegisterWaiterKeeps ==
    ASSUME ApprovalsInv, NEW q \in Requests, registerWaiter(q)
    PROVE  ApprovalsInv'
<1> USE DEF ApprovalsInv
<1>1. TypeOK'
  BY DEF TypeOK, registerWaiter, ghosts, NoPlan, NoCall, CallEnded,
     OptionOrNone, Responses, StoreFails, Fault
<1>2. CallsOwnTheirRows'
  BY DEF CallsOwnTheirRows, Resolved, registerWaiter, ghosts
<1>3. RequestsInOrder'
  BY DEF RequestsInOrder, TypeOK, registerWaiter, ghosts
<1>4. ResponsesFromRows'
  BY OptionSets DEF ResponsesFromRows, registerWaiter, ghosts, Responses
<1>5. GrantsAuthorized'
  BY DEF GrantsAuthorized, registerWaiter, ghosts
<1>6. AllowsAuthorized'
  BY OptionSets DEF AllowsAuthorized, Resolved, Auth, Approves,
     registerWaiter, ghosts
<1>7. AcksLeaveRows'
  BY DEF AcksLeaveRows, registerWaiter, ghosts
<1>8. DecisionReachesWaiter'
  BY DEF DecisionReachesWaiter, registerWaiter, ghosts
<1> QED BY <1>1, <1>2, <1>3, <1>4, <1>5, <1>6, <1>7, <1>8

(* RequestPermission: so does reading the row again. *)
LEMMA RefreshKeeps ==
    ASSUME ApprovalsInv, NEW q \in Requests, Refresh(q)
    PROVE  ApprovalsInv'
<1> USE DEF ApprovalsInv
<1>0. /\ pc[q] = "refresh" /\ faults' \in Nat
      /\ UNCHANGED <<row, grants, call, clock, notices, authority, acked>>
  BY DEF Refresh, StoreFails, Fault, TypeOK, ghosts
<1>a. \/ row[q].status \in Ended /\ Return(q, responseForResolvedApproval(row[q]), "row")
      \/ /\ pc' = [pc EXCEPT ![q] = "select"]
         /\ plan' \in {plan, [plan EXCEPT ![q].via = "unread"]}
         /\ UNCHANGED <<waiter, answer, ctxDone>>
  BY DEF Refresh
<1>b. responseForResolvedApproval(row[q]) \in Responses
  BY RowResponseRange DEF TypeOK, RowSet
<1>1. TypeOK'
  <2>1. plan' \in [Requests -> PlanSet]
    <3>1. NoPlan \in PlanSet
      BY DEF NoPlan, PlanSet, Paths, OptionOrNone
    <3>2. plan[q] \in PlanSet
      BY DEF TypeOK
    <3>3. [plan[q] EXCEPT !.via = "unread"] \in PlanSet
      BY <3>2 DEF PlanSet, Paths
    <3> QED BY <1>a, <3>1, <3>3 DEF TypeOK, Return
  <2>2. answer' \in [Requests -> AnswerSet]
    <3>1. [says |-> responseForResolvedApproval(row[q]), via |-> "row"] \in AnswerSet
      BY <1>b DEF AnswerSet
    <3> QED BY <1>a, <3>1 DEF TypeOK, Return
  <2>3. /\ pc' \in [Requests -> {"idle", "lookup", "register", "refresh", "select",
                                "settle", "done", "lost"}]
        /\ waiter' \in [Requests -> {"none", "empty"} \cup Responses]
        /\ ctxDone' \subseteq Requests
    BY <1>a DEF TypeOK, Return
  <2> QED BY <1>0, <2>1, <2>2, <2>3 DEF TypeOK
<1>2. CallsOwnTheirRows'
  BY <1>0 DEF CallsOwnTheirRows, Resolved
<1>3. RequestsInOrder'
  BY <1>0, <1>a DEF RequestsInOrder, TypeOK, RowSet, PlanSet, Return, NoPlan
<1>4. ResponsesFromRows'
  <2>1. CASE row[q].status \in Ended /\ Return(q, responseForResolvedApproval(row[q]), "row")
    BY <1>0, <2>1, OptionSets DEF ResponsesFromRows, TypeOK, Return, Responses
  <2>2. CASE pc' = [pc EXCEPT ![q] = "select"] /\ UNCHANGED <<waiter, answer>>
    BY <1>0, <2>2 DEF ResponsesFromRows
  <2> QED BY <1>a, <2>1, <2>2
<1>5. GrantsAuthorized'
  BY <1>0 DEF GrantsAuthorized
<1>6. AllowsAuthorized'
  BY <1>0, <1>a, OptionSets DEF AllowsAuthorized, Resolved, Auth, Approves,
     TypeOK, Return
<1>7. AcksLeaveRows'
  BY <1>0, <1>a DEF AcksLeaveRows, TypeOK, Return
<1>8. DecisionReachesWaiter'
  <2>1. ASSUME q \in acked, pc'[q] = "select", q \notin ctxDone', plan'[q].via # "unread"
        PROVE  FALSE
    <3>1. row[q].status \in Ended
      BY <1>0, <2>1 DEF AcksLeaveRows
    <3>2. q \notin ctxDone
      BY <2>1 DEF Refresh, Return, TypeOK
    <3> QED BY <2>1, <3>1, <3>2 DEF Refresh, Return, Reaches, TypeOK, RowSet,
       PlanSet
  <2> QED BY <1>0, <1>a, <2>1 DEF DecisionReachesWaiter, Return, TypeOK
<1> QED BY <1>1, <1>2, <1>3, <1>4, <1>5, <1>6, <1>7, <1>8

(* RequestPermission: so does a response taken from the channel. *)
LEMMA ReceiveKeeps ==
    ASSUME ApprovalsInv, NEW q \in Requests, Receive(q)
    PROVE  ApprovalsInv'
<1> USE DEF ApprovalsInv
<1>1. TypeOK'
  BY DEF TypeOK, RowSet, PlanSet, AnswerSet, Paths, Receive, Return, ghosts,
     NoPlan, NoCall, CallEnded, OptionOrNone, Responses, StoreFails, Fault
<1>2. CallsOwnTheirRows'
  BY DEF CallsOwnTheirRows, Resolved, Receive, Return, ghosts
<1>3. RequestsInOrder'
  BY DEF RequestsInOrder, TypeOK, Receive, Return, ghosts, NoPlan
<1>4. ResponsesFromRows'
  BY OptionSets DEF ResponsesFromRows, TypeOK, Receive, Return, ghosts,
     Responses, RequestsInOrder
<1>5. GrantsAuthorized'
  BY DEF GrantsAuthorized, Receive, Return, ghosts
<1>6. AllowsAuthorized'
  BY OptionSets DEF AllowsAuthorized, Resolved, Auth, Approves, Receive,
     Return, ghosts
<1>7. AcksLeaveRows'
  BY DEF AcksLeaveRows, Receive, Return, ghosts
<1>8. DecisionReachesWaiter'
  BY DEF DecisionReachesWaiter, Receive, Return, ghosts
<1> QED BY <1>1, <1>2, <1>3, <1>4, <1>5, <1>6, <1>7, <1>8

(* RequestPermission: so does giving up on the timer or the context. *)
LEMMA StopWaitingKeeps ==
    ASSUME ApprovalsInv, NEW q \in Requests, NEW status \in Ended,
           NEW via \in {"timeout", "request_cancelled"}, StopWaiting(q, status, via)
    PROVE  ApprovalsInv'
<1> USE DEF ApprovalsInv
<1>1. TypeOK'
  BY DEF TypeOK, RowSet, PlanSet, Paths, StopWaiting, Settle, ghosts, NoPlan,
     NoCall, CallEnded, OptionOrNone, Responses, StoreFails, Fault
<1>2. CallsOwnTheirRows'
  BY DEF CallsOwnTheirRows, Resolved, StopWaiting, ghosts
<1>3. RequestsInOrder'
  BY DEF RequestsInOrder, TypeOK, StopWaiting, Settle, ghosts
<1>4. ResponsesFromRows'
  BY DEF ResponsesFromRows, StopWaiting, Settle, ghosts
<1>5. GrantsAuthorized'
  BY DEF GrantsAuthorized, StopWaiting, ghosts
<1>6. AllowsAuthorized'
  BY DEF AllowsAuthorized, Resolved, Auth, Approves, StopWaiting, Settle,
     ghosts
<1>7. AcksLeaveRows'
  BY DEF AcksLeaveRows, StopWaiting, Settle, ghosts
<1>8. DecisionReachesWaiter'
  BY DEF DecisionReachesWaiter, TypeOK, StopWaiting, Settle, ghosts
<1> QED BY <1>1, <1>2, <1>3, <1>4, <1>5, <1>6, <1>7, <1>8

(* RequestPermission: so does resolving the row itself, first or too late. *)
LEMMA ResolveStoreKeeps ==
    ASSUME ApprovalsInv, NEW q \in Requests, resolveStore(q)
    PROVE  ApprovalsInv'
<1> USE DEF ApprovalsInv
<1>0. /\ \/ row' = row
         \/ /\ row[q].status = "pending"
            /\ row' = [row EXCEPT ![q] = [status |-> plan[q].status,
                                          option |-> plan[q].option]]
      /\ notices' \in {notices, [notices EXCEPT ![q] = @ + 1]}
      /\ notices' # notices => row[q].status = "pending" /\ row' # row
      /\ faults' \in Nat
  BY DEF resolveStore, StoreFails, Fault, TypeOK, RequestsInOrder, Ended
<1>a. /\ plan[q].status \in Ended /\ plan[q].option \in OptionOrNone
      /\ plan[q].via \notin {"waiter", "row"} /\ pc[q] = "settle"
  BY DEF resolveStore, RequestsInOrder, TypeOK, RowSet, PlanSet, Paths
<1>b. /\ Return(q, Response(plan[q].option), plan[q].via)
      /\ UNCHANGED <<grants, call, clock, authority, acked>>
  BY DEF resolveStore, ghosts
<1>c. \A o \in Calls : Resolved(o) => call[o].q \in Requests
                                   /\ row[call[o].q].status # "pending"
  BY CallInProgress DEF CallsOwnTheirRows, Resolved, CallSet
<1>1. TypeOK'
  <2>1. row' \in [Requests -> RowSet] /\ notices' \in [Requests -> Nat]
    <3>1. [status |-> plan[q].status, option |-> plan[q].option] \in RowSet
      BY <1>a DEF RowSet
    <3> QED BY <1>0, <3>1 DEF TypeOK
  <2>2. plan' \in [Requests -> PlanSet]
    BY <1>b DEF TypeOK, RowSet, PlanSet, Paths, Return, NoPlan, OptionOrNone
  <2>3. answer' \in [Requests -> AnswerSet]
    BY <1>a, <1>b, ResponseRange DEF TypeOK, RowSet, PlanSet, AnswerSet,
       Return
  <2> QED BY <1>0, <1>b, <2>1, <2>2, <2>3 DEF TypeOK, Return
<1>2. CallsOwnTheirRows'
  <2>1. \A o \in Calls : Resolved(o) => /\ row'[call[o].q] = row[call[o].q]
                                      /\ notices'[call[o].q] = notices[call[o].q]
    BY <1>0, <1>c DEF TypeOK
  <2> QED BY <1>b, <2>1 DEF CallsOwnTheirRows, Resolved
<1>3. RequestsInOrder'
  BY <1>0, <1>a, <1>b DEF RequestsInOrder, TypeOK, Return, NoPlan, Ended
<1>4. ResponsesFromRows'
  BY <1>0, <1>a, <1>b, OptionSets DEF ResponsesFromRows, TypeOK, Return,
     Responses
<1>5. GrantsAuthorized'
  BY <1>b DEF GrantsAuthorized
<1>6. AllowsAuthorized'
  BY <1>0, <1>a, <1>b, OptionSets DEF AllowsAuthorized, Resolved, Auth,
     Approves, TypeOK, Return
<1>7. AcksLeaveRows'
  BY <1>0, <1>a, <1>b DEF AcksLeaveRows, TypeOK, Return
<1>8. DecisionReachesWaiter'
  BY <1>a, <1>b DEF DecisionReachesWaiter, Return
<1> QED BY <1>1, <1>2, <1>3, <1>4, <1>5, <1>6, <1>7, <1>8

(* The agent's context may end at any time without breaking the invariant. *)
LEMMA EndContextKeeps ==
    ASSUME ApprovalsInv, NEW q \in Requests, EndContext(q)
    PROVE  ApprovalsInv'
<1> USE DEF ApprovalsInv
<1>1. TypeOK'
  BY DEF TypeOK, EndContext, ghosts, NoPlan, NoCall, CallEnded, OptionOrNone,
     Responses, StoreFails, Fault
<1>2. CallsOwnTheirRows'
  BY DEF CallsOwnTheirRows, Resolved, EndContext, ghosts
<1>3. RequestsInOrder'
  BY DEF RequestsInOrder, EndContext, ghosts
<1>4. ResponsesFromRows'
  BY DEF ResponsesFromRows, EndContext, ghosts
<1>5. GrantsAuthorized'
  BY DEF GrantsAuthorized, EndContext, ghosts
<1>6. AllowsAuthorized'
  BY DEF AllowsAuthorized, Resolved, Auth, Approves, EndContext, ghosts
<1>7. AcksLeaveRows'
  BY DEF AcksLeaveRows, EndContext, ghosts
<1>8. DecisionReachesWaiter'
  BY DEF DecisionReachesWaiter, EndContext, ghosts
<1> QED BY <1>1, <1>2, <1>3, <1>4, <1>5, <1>6, <1>7, <1>8

(* Resolve: reading the pending row preserves the invariant. *)
LEMMA ResolveReadKeeps ==
    ASSUME ApprovalsInv, NEW o \in Calls, NEW q \in Requests, NEW d \in {"approve", "deny"},
           NEW option \in Options, NEW s \in Scopes, ResolveRead(o, q, d, option, s)
    PROVE  ApprovalsInv'
<1> USE DEF ApprovalsInv
<1>1. TypeOK'
  BY ApprovalsAssumption DEF TypeOK, ResolveRead, ghosts, CallSet,
     OptionOrNone, Decisions, ScopeNames
<1>2. CallsOwnTheirRows'
  BY OptionSets, CallInProgress DEF CallsOwnTheirRows, Resolved, TypeOK,
     ResolveRead, ghosts, CallSet
<1>3. RequestsInOrder'
  BY DEF RequestsInOrder, ResolveRead, ghosts
<1>4. ResponsesFromRows'
  BY DEF ResponsesFromRows, ResolveRead, ghosts
<1>5. GrantsAuthorized'
  BY CallInProgress DEF GrantsAuthorized, TypeOK, ResolveRead, ghosts,
     CallsOwnTheirRows, CallSet, GrantSet, GrantOf
<1>6. AllowsAuthorized'
  BY DEF AllowsAuthorized, Resolved, Auth, Approves, ResolveRead, ghosts
<1>7. AcksLeaveRows'
  BY DEF AcksLeaveRows, ResolveRead, ghosts
<1>8. DecisionReachesWaiter'
  BY DEF DecisionReachesWaiter, ResolveRead, ghosts
<1> QED BY <1>1, <1>2, <1>3, <1>4, <1>5, <1>6, <1>7, <1>8

(* Cancel: so does reading the pending row. *)
LEMMA CancelReadKeeps ==
    ASSUME ApprovalsInv, NEW o \in Calls, NEW q \in Requests, CancelRead(o, q)
    PROVE  ApprovalsInv'
<1> USE DEF ApprovalsInv
<1>1. TypeOK'
  BY DEF TypeOK, CancelRead, ghosts, CallSet, OptionOrNone, Decisions,
     ScopeNames
<1>2. CallsOwnTheirRows'
  BY OptionSets DEF CallsOwnTheirRows, Resolved, CancelRead, ghosts
<1>3. RequestsInOrder'
  BY DEF RequestsInOrder, CancelRead, ghosts
<1>4. ResponsesFromRows'
  BY DEF ResponsesFromRows, CancelRead, ghosts
<1>5. GrantsAuthorized'
  BY DEF GrantsAuthorized, CancelRead, ghosts
<1>6. AllowsAuthorized'
  BY DEF AllowsAuthorized, Resolved, Auth, Approves, CancelRead, ghosts
<1>7. AcksLeaveRows'
  BY DEF AcksLeaveRows, CancelRead, ghosts
<1>8. DecisionReachesWaiter'
  BY DEF DecisionReachesWaiter, CancelRead, ghosts
<1> QED BY <1>1, <1>2, <1>3, <1>4, <1>5, <1>6, <1>7, <1>8

(* Both: so does the update of the row, which only the first call makes. *)
LEMMA ResolveApprovalKeeps ==
    ASSUME ApprovalsInv, NEW o \in Calls, ResolveApproval(o)
    PROVE  ApprovalsInv'
<1> USE DEF ApprovalsInv
<1> DEFINE k == call[o].q
           resolved == [row EXCEPT ![k] = [status |-> call[o].status,
                                           option |-> call[o].option]]
           approved == IF call[o].decision = "approve"
                         THEN authority \cup {GrantOf(call[o])} ELSE authority
<1>0. call[o] \in CallSet /\ call[o].pc = "commit" /\ k \in Requests
  BY CallInProgress DEF ResolveApproval, CallSet
<1>a. \/ /\ row[k].status = "pending" /\ row' = resolved /\ authority' = approved
         /\ call' \in {[call EXCEPT ![o].pc = "grant"], [call EXCEPT ![o] = CallEnded]}
      \/ /\ row' = row /\ authority' = authority
         /\ call' = [call EXCEPT ![o] = CallEnded]
  BY DEF ResolveApproval
<1>b. authority \subseteq authority' /\ authority' \subseteq GrantSet
  BY <1>0, <1>a, GrantOfRange DEF TypeOK
<1>c. /\ UNCHANGED <<grants, pc, plan, ctxDone, waiter, answer, clock, notices, acked>>
      /\ faults' \in Nat
  BY DEF ResolveApproval, StoreFails, Fault, TypeOK
<1>d. \A p \in Calls : p # o => call'[p] = call[p]
  BY <1>a DEF TypeOK
<1>e. \/ call'[o] = CallEnded
      \/ /\ call'[o] = [call[o] EXCEPT !.pc = "grant"]
         /\ row[k].status = "pending" /\ row' = resolved /\ authority' = approved
  BY <1>0, <1>a DEF TypeOK
<1>f. \A p \in Calls : p # o /\ Resolved(p) => call[p].q # k \/ row[k].status # "pending"
  BY CallInProgress DEF CallsOwnTheirRows, Resolved, CallSet
<1>g. row'[k] \in {row[k], [status |-> call[o].status, option |-> call[o].option]}
      /\ (row'[k] # row[k] => row[k].status = "pending")
      /\ \A q \in Requests \ {k} : row'[q] = row[q]
  BY <1>0, <1>a DEF TypeOK
<1> HIDE DEF k, resolved, approved
<1>1. TypeOK'
  <2>1. row' \in [Requests -> RowSet]
    <3>1. [status |-> call[o].status, option |-> call[o].option] \in RowSet
      BY <1>0 DEF CallSet, RowSet, Ended
    <3> QED BY <1>a, <3>1 DEF TypeOK, resolved
  <2>2. call' \in [Calls -> {NoCall, CallEnded} \cup CallSet]
    <3>1. [call[o] EXCEPT !.pc = "grant"] \in CallSet
      BY <1>0 DEF CallSet
    <3> QED BY <1>a, <3>1 DEF TypeOK
  <2> QED BY <1>b, <1>c, <2>1, <2>2 DEF TypeOK
<1>2. CallsOwnTheirRows'
  <2>1. \A p \in Calls : call'[p].pc \in {"commit", "grant", "wake"} =>
            call[p].pc \in {"commit", "grant", "wake"} /\ call[p] \in CallSet
    BY <1>0, <1>d, <1>e, CallInProgress DEF CallEnded
  <2>2. ASSUME NEW p \in Calls, call'[p].pc \in {"commit", "grant", "wake"}
        PROVE  /\ call'[p].status = "cancelled" => call'[p].option = "none"
               /\ call'[p].option \in Allow => call'[p].decision = "approve"
               /\ call'[p].decision = "none" => call'[p].scope = "once"
               /\ call'[p].decision # "none" => call'[p].at < clock'
    BY <1>0, <1>c, <1>d, <1>e, <2>1, <2>2 DEF CallsOwnTheirRows, CallEnded,
       CallSet
  <2>3. ASSUME NEW p \in Calls, Resolved(p)'
        PROVE  /\ row'[call'[p].q].status = call'[p].status
               /\ row'[call'[p].q].option = call'[p].option
               /\ notices'[call'[p].q] = 0
               /\ \A r \in Calls : Resolved(r)' /\ call'[r].q = call'[p].q => r = p
    <3>1. CASE p = o
      <4>1. /\ call'[o] = [call[o] EXCEPT !.pc = "grant"] /\ row[k].status = "pending"
            /\ row' = resolved
        BY <1>e, <2>3, <3>1 DEF Resolved, CallEnded
      <4>2. call'[o].q = k /\ call'[o].status = call[o].status /\ call'[o].option = call[o].option
        BY <1>0, <4>1 DEF CallSet, k
      <4>3. row'[k] = [status |-> call[o].status, option |-> call[o].option]
        BY <1>0, <4>1 DEF resolved, k, TypeOK
      <4>4. notices[k] = 0
        BY <1>0, <4>1 DEF RequestsInOrder
      <4>5. \A r \in Calls : r # o /\ Resolved(r) => call[r].q # k
        BY <1>f, <4>1
      <4> QED BY <1>c, <1>d, <3>1, <4>2, <4>3, <4>4, <4>5 DEF Resolved
    <3>2. CASE p # o
      <4>1. call'[p] = call[p] /\ Resolved(p) /\ call[p].q \in Requests
        BY <1>d, <2>3, <3>2, <2>1 DEF Resolved, CallSet
      <4>2. row'[call[p].q] = row[call[p].q]
        BY <1>f, <1>g, <3>2, <4>1
      <4>3. ASSUME Resolved(o)', call'[o].q = call[p].q PROVE FALSE
        BY <1>0, <1>e, <1>f, <3>2, <4>1, <4>3 DEF Resolved, CallEnded,
           CallSet, k
      <4> QED BY <1>c, <1>d, <3>2, <4>1, <4>2, <4>3 DEF CallsOwnTheirRows,
         Resolved
    <3> QED BY <3>1, <3>2
  <2> QED BY <2>2, <2>3 DEF CallsOwnTheirRows
<1>3. RequestsInOrder'
  <2>1. row'[k].status # "none" => row[k].status # "none"
    BY <1>g
  <2>2. row'[k].status = "pending" => row'[k] = row[k]
    BY <1>0, <1>g DEF CallSet
  <2> QED BY <1>0, <1>c, <1>g, <2>1, <2>2 DEF RequestsInOrder
<1>4. ResponsesFromRows'
  <2>1. ASSUME NEW q \in Requests, row[q].status \in Ended \cup {"none"}
        PROVE  row'[q] = row[q]
    BY <1>g, <2>1 DEF Ended
  <2> QED BY <1>c, <2>1 DEF ResponsesFromRows
<1>5. GrantsAuthorized'
  <2>1. \A p \in Calls : call'[p].pc \in {"commit", "grant"} =>
            /\ call[p].pc \in {"commit", "grant"} /\ call'[p].decision = call[p].decision
            /\ call'[p].at = call[p].at
    BY <1>0, <1>d, <1>e DEF CallEnded, CallSet
  <2>2. ASSUME NEW p \in Calls, call'[p].pc = "grant", call'[p].decision = "approve"
        PROVE  GrantOf(call'[p]) \in authority'
    <3>1. CASE p = o
      <4>1. call'[o] = [call[o] EXCEPT !.pc = "grant"] /\ authority' = approved
        BY <1>e, <2>2, <3>1 DEF CallEnded
      <4>2. GrantOf(call'[o]) = GrantOf(call[o]) /\ call[o].decision = "approve"
        BY <1>0, <2>2, <3>1, <4>1 DEF GrantOf, CallSet
      <4> QED BY <3>1, <4>1, <4>2 DEF approved
    <3>2. CASE p # o
      BY <1>b, <1>d, <2>2, <3>2 DEF GrantsAuthorized
    <3> QED BY <3>1, <3>2
  <2> QED BY <1>b, <1>c, <2>1, <2>2 DEF GrantsAuthorized
<1>6. AllowsAuthorized'
  <2>1. \A x : Approves(authority, x) => Approves(authority', x)
    BY <1>b DEF Approves
  <2>2. call[o].option \in Allow /\ authority' = approved => Approves(authority', k)
    <3>1. GrantOf(call[o]).q = k
      BY DEF GrantOf, k
    <3> QED BY <1>0, <3>1 DEF CallsOwnTheirRows, approved, Approves
  <2>3. row'[k] # row[k] => authority' = approved
    BY <1>a DEF resolved
  <2>4. ASSUME NEW p \in Calls, Resolved(p)', call'[p].option \in Allow
        PROVE  Approves(authority', call'[p].q)
    <3>1. CASE p = o
      BY <1>0, <1>e, <2>2, <2>4, <3>1 DEF CallEnded, Resolved, CallSet, k
    <3>2. CASE p # o
      BY <1>d, <2>1, <2>4, <3>2 DEF AllowsAuthorized, Auth, Resolved
    <3> QED BY <3>1, <3>2
  <2>5. ASSUME NEW q \in Requests, pc[q] \notin {"settle", "done", "lost"},
               row'[q].option \in Allow
        PROVE  Approves(authority', q)
    <3>1. CASE row'[q] = row[q]
      BY <2>1, <2>5, <3>1 DEF AllowsAuthorized, Auth
    <3>2. CASE row'[q] # row[q]
      BY <1>0, <1>g, <2>2, <2>3, <2>5, <3>2
    <3> QED BY <3>1, <3>2
  <2> QED BY <1>c, <2>1, <2>4, <2>5 DEF AllowsAuthorized, Auth
<1>7. AcksLeaveRows'
  BY <1>0, <1>c, <1>g DEF AcksLeaveRows, TypeOK, CallSet, Ended
<1>8. DecisionReachesWaiter'
  BY <1>c DEF DecisionReachesWaiter
<1> QED BY <1>1, <1>2, <1>3, <1>4, <1>5, <1>6, <1>7, <1>8

(* Resolve: so does storing the grant. *)
LEMMA CreateGrantKeeps ==
    ASSUME ApprovalsInv, NEW o \in Calls, CreateGrant(o)
    PROVE  ApprovalsInv'
<1> USE DEF ApprovalsInv
<1>0. call[o] \in CallSet /\ call[o].pc = "grant"
  BY CallInProgress DEF CreateGrant
<1>a. /\ grants' \in {grants, grants \cup {GrantOf(call[o])}}
      /\ grants' # grants => call[o].scope # "once"
      /\ call' = [call EXCEPT ![o].pc = "wake"] /\ faults' \in Nat
      /\ UNCHANGED <<row, pc, plan, ctxDone, waiter, answer, clock, notices,
                     authority, acked>>
  BY DEF CreateGrant, StoreFails, Fault, TypeOK, ghosts
<1>b. GrantOf(call[o]) \in GrantSet
  BY <1>0, GrantOfRange
<1>c. \A p \in Calls : /\ p # o => call'[p] = call[p]
                       /\ call'[o] = [call[o] EXCEPT !.pc = "wake"]
  BY <1>a DEF TypeOK
<1>1. TypeOK'
  BY <1>0, <1>a, <1>b DEF TypeOK, CallSet
<1>2. CallsOwnTheirRows'
  BY DEF CallsOwnTheirRows, Resolved, CreateGrant, ghosts
<1>3. RequestsInOrder'
  BY DEF RequestsInOrder, CreateGrant, ghosts
<1>4. ResponsesFromRows'
  BY DEF ResponsesFromRows, CreateGrant, ghosts
<1>5. GrantsAuthorized'
  <2>1. \A p \in Calls : call'[p].pc \in {"commit", "grant"} =>
            p # o /\ call'[p] = call[p]
    BY <1>0, <1>c DEF CallSet
  <2>2. ASSUME NEW g \in grants'
        PROVE  /\ g.scope # "once" /\ g.at < clock
               /\ g.decision = "approve" => g \in authority
               /\ \A p \in Calls :
                     call'[p].pc \in {"commit", "grant"} /\ call'[p].decision # "none" =>
                         g.at # call'[p].at
    <3>1. CASE g \in grants
      BY <2>1, <3>1 DEF GrantsAuthorized
    <3>2. CASE g \notin grants
      <4>1. g = GrantOf(call[o]) /\ call[o].scope # "once"
        BY <1>a, <2>2, <3>2
      <4>2. g.scope = call[o].scope /\ g.at = call[o].at /\ g.decision = call[o].decision
        BY <4>1 DEF GrantOf
      <4>3. call[o].decision # "none" /\ call[o].at < clock
        BY <1>0, <4>1 DEF CallsOwnTheirRows
      <4> QED BY <1>0, <2>1, <4>1, <4>2, <4>3 DEF GrantsAuthorized
    <3> QED BY <3>1, <3>2
  <2> QED BY <1>a, <2>1, <2>2 DEF GrantsAuthorized
<1>6. AllowsAuthorized'
  BY DEF AllowsAuthorized, Resolved, Auth, Approves, CreateGrant, ghosts
<1>7. AcksLeaveRows'
  BY DEF AcksLeaveRows, CreateGrant, ghosts
<1>8. DecisionReachesWaiter'
  BY DEF DecisionReachesWaiter, CreateGrant, ghosts
<1> QED BY <1>1, <1>2, <1>3, <1>4, <1>5, <1>6, <1>7, <1>8

(* Both: so does waking the waiter and announcing the resolution. *)
LEMMA WakeWaiterKeeps ==
    ASSUME ApprovalsInv, NEW o \in Calls, wakeWaiter(o)
    PROVE  ApprovalsInv'
<1> USE DEF ApprovalsInv
<1>0. call[o] \in CallSet /\ call[o].pc = "wake"
  BY CallInProgress DEF wakeWaiter
<1>a. \A p \in Calls : call'[p].pc \in {"commit", "grant", "wake"} =>
         p # o /\ call'[p] = call[p] /\ call[p] \in CallSet
  BY CallInProgress DEF wakeWaiter, CallEnded, TypeOK
<1>b. /\ row[call[o].q].status = call[o].status /\ row[call[o].q].option = call[o].option
      /\ notices[call[o].q] = 0
      /\ Response(call[o].option) = responseForResolvedApproval(row[call[o].q])
      /\ Response(call[o].option) \in Responses
  BY <1>0, ResponseRange DEF CallsOwnTheirRows, Resolved, CallSet,
     responseForResolvedApproval, Response
<1>1. TypeOK'
  BY <1>0, <1>b DEF TypeOK, wakeWaiter, CallSet, CallEnded
<1>2. CallsOwnTheirRows'
  BY <1>0, <1>a, <1>b DEF CallsOwnTheirRows, Resolved, wakeWaiter, CallSet
<1>3. RequestsInOrder'
  BY <1>0, <1>a, <1>b, OptionSets DEF RequestsInOrder, wakeWaiter, CallSet,
     Responses
<1>4. ResponsesFromRows'
  BY <1>0, <1>b DEF ResponsesFromRows, wakeWaiter, CallSet, Responses, Ended
<1>5. GrantsAuthorized'
  BY <1>a DEF GrantsAuthorized, wakeWaiter
<1>6. AllowsAuthorized'
  BY <1>0, <1>a, <1>b, ResponseRange DEF AllowsAuthorized, Resolved, Auth,
     Approves, wakeWaiter, CallSet, Responses
<1>7. AcksLeaveRows'
  BY <1>0, <1>b DEF AcksLeaveRows, wakeWaiter, CallSet, Ended, RequestsInOrder
<1>8. DecisionReachesWaiter'
  BY <1>0, <1>b, OptionSets DEF DecisionReachesWaiter, TypeOK, wakeWaiter,
     CallSet, Responses
<1> QED BY <1>1, <1>2, <1>3, <1>4, <1>5, <1>6, <1>7, <1>8

(* The operator withdraws a grant, and its authority with it. *)
LEMMA DeleteGrantKeeps ==
    ASSUME ApprovalsInv, NEW g \in grants, DeleteGrant(g)
    PROVE  ApprovalsInv'
<1> USE DEF ApprovalsInv
<1> DEFINE revoked(a) == IF a = g THEN [a EXCEPT !.scope = "once"] ELSE a
<1>0. /\ g \in GrantSet /\ grants' = grants \ {g}
      /\ authority' = {revoked(a) : a \in authority}
      /\ UNCHANGED <<row, pc, plan, ctxDone, waiter, answer, call, clock, notices,
                     acked, faults>>
  BY DEF DeleteGrant, TypeOK
<1>a. \A a \in authority : revoked(a) \in GrantSet /\ revoked(a).q = a.q
  BY <1>0 DEF TypeOK, GrantSet, ScopeNames
<1>b. \A q \in Requests : Auth(q) => Auth(q)'
  BY <1>0, <1>a DEF Auth, Approves
<1>c. \A a \in authority : a # g => a \in authority'
  BY <1>0
<1>1. TypeOK'
  BY <1>0, <1>a DEF TypeOK
<1>2. CallsOwnTheirRows'
  BY <1>0 DEF CallsOwnTheirRows, Resolved
<1>3. RequestsInOrder'
  BY <1>0 DEF RequestsInOrder
<1>4. ResponsesFromRows'
  BY <1>0 DEF ResponsesFromRows
<1>5. GrantsAuthorized'
  <2>1. ASSUME NEW o \in Calls, call[o].pc = "grant", call[o].decision = "approve"
        PROVE  GrantOf(call[o]) \in authority'
    <3>1. GrantOf(call[o]).at = call[o].at
      BY DEF GrantOf
    <3>2. GrantOf(call[o]) # g
      BY <2>1, <3>1 DEF GrantsAuthorized
    <3> QED BY <1>c, <2>1, <3>2 DEF GrantsAuthorized
  <2> QED BY <1>0, <1>c, <2>1 DEF GrantsAuthorized
<1>6. AllowsAuthorized'
  BY <1>0, <1>b, CallInProgress DEF AllowsAuthorized, Resolved, Auth,
     Approves, CallSet
<1>7. AcksLeaveRows'
  BY <1>0 DEF AcksLeaveRows
<1>8. DecisionReachesWaiter'
  BY <1>0 DEF DecisionReachesWaiter
<1> QED BY <1>1, <1>2, <1>3, <1>4, <1>5, <1>6, <1>7, <1>8

(* A restart loses the waiters and calls and cancels the rows left         *)
(* pending.                                                                *)
LEMMA RestartKeeps ==
    ASSUME ApprovalsInv, Restart
    PROVE  ApprovalsInv'
<1> USE DEF ApprovalsInv
<1>0. \A o \in Calls : call'[o] \in {NoCall, CallEnded}
                         /\ call'[o].pc \notin {"commit", "grant", "wake"}
  BY DEF Restart, NoCall, CallEnded
<1>a. \A q \in Requests :
         /\ row'[q] \in [status : {"none"} \cup Ended, option : OptionOrNone]
         /\ row[q].status = "none" => row'[q].status = "none"
         /\ row'[q].option \in {row[q].option, "none"}
         /\ row[q].status \in Ended => row'[q] = row[q] \/ row'[q].status = "none"
         /\ pc'[q] \in {"idle", "done", "lost"}
         /\ pc'[q] = "idle" <=> pc[q] = "idle"
         /\ pc[q] = "done" => pc'[q] = "done"
  BY DEF Restart, NoRow, TypeOK, RowSet, Ended, OptionOrNone
<1>b. /\ waiter' = [q \in Requests |-> "none"] /\ plan' = [q \in Requests |-> NoPlan]
      /\ grants' \subseteq grants
      /\ UNCHANGED <<answer, clock, notices, authority, acked>>
  BY DEF Restart, ghosts
<1>1. TypeOK'
  BY <1>0, <1>a, <1>b DEF TypeOK, RowSet, PlanSet, Paths, Restart, NoPlan,
     NoRow, OptionOrNone, Fault
<1>2. CallsOwnTheirRows'
  BY <1>0 DEF CallsOwnTheirRows, Resolved
<1>3. RequestsInOrder'
  BY <1>a, <1>b DEF RequestsInOrder, NoPlan, Ended
<1>4. ResponsesFromRows'
  BY <1>a, <1>b, OptionSets DEF ResponsesFromRows, Responses
<1>5. GrantsAuthorized'
  BY <1>0, <1>b DEF GrantsAuthorized
<1>6. AllowsAuthorized'
  BY <1>0, <1>a, <1>b DEF AllowsAuthorized, Resolved, Auth, Approves, Allow
<1>7. AcksLeaveRows'
  BY <1>a, <1>b DEF AcksLeaveRows, TypeOK
<1>8. DecisionReachesWaiter'
  BY <1>a, <1>b DEF DecisionReachesWaiter, TypeOK
<1> QED BY <1>1, <1>2, <1>3, <1>4, <1>5, <1>6, <1>7, <1>8

-----------------------------------------------------------------------------
(* With no row, grant, waiter or call, the invariant holds. *)
LEMMA InitEstablishes == Init => ApprovalsInv
<1> SUFFICES ASSUME Init PROVE ApprovalsInv
  OBVIOUS
<1> USE DEF Init, ApprovalsInv, NoRow, NoPlan, NoAnswer, NoCall
<1>1. TypeOK
  BY DEF TypeOK, RowSet, PlanSet, AnswerSet, Paths, OptionOrNone
<1>2. CallsOwnTheirRows /\ GrantsAuthorized
  BY DEF CallsOwnTheirRows, Resolved, GrantsAuthorized
<1>3. RequestsInOrder /\ ResponsesFromRows
  BY OptionSets DEF RequestsInOrder, ResponsesFromRows, Responses
<1>4. AllowsAuthorized /\ AcksLeaveRows /\ DecisionReachesWaiter
  BY DEF AllowsAuthorized, Resolved, AcksLeaveRows, DecisionReachesWaiter,
     Allow
<1> QED BY <1>1, <1>2, <1>3, <1>4

(* Every step preserves the invariant, action by action. *)
LEMMA NextKeeps ==
    ASSUME ApprovalsInv, [Next]_vars
    PROVE  ApprovalsInv'
<1>1. ASSUME NEW q \in Requests, TimeOut(q) \/ RequestCancelled(q)
      PROVE  ApprovalsInv'
  <2>1. "timed_out" \in Ended /\ "cancelled" \in Ended
    BY DEF Ended
  <2> QED BY <1>1, <2>1, StopWaitingKeeps DEF TimeOut, RequestCancelled
<1>2. CASE UNCHANGED vars
  BY <1>2 DEF vars, ghosts, ApprovalsInv, TypeOK, CallsOwnTheirRows, Resolved,
     RequestsInOrder, ResponsesFromRows, GrantsAuthorized, AllowsAuthorized,
     Auth, Approves, AcksLeaveRows, DecisionReachesWaiter
<1> QED BY <1>1, <1>2, CreateApprovalKeeps, ApplyGrantKeeps, ApplyModeKeeps,
   RegisterWaiterKeeps, RefreshKeeps, ReceiveKeeps, ResolveStoreKeeps,
   EndContextKeeps, ResolveReadKeeps, CancelReadKeeps, ResolveApprovalKeeps,
   CreateGrantKeeps, WakeWaiterKeeps, DeleteGrantKeeps, RestartKeeps DEF Next

(* In every reachable state of the approval store, the waiting requests    *)
(* and the operators' calls, rows, channels, grants and acknowledgements   *)
(* agree as ApprovalsInv says, through RequestPermission, Resolve, Cancel, *)
(* DeleteGrant, store failures and restarts.                               *)
THEOREM InvariantHolds == Spec => []ApprovalsInv
BY InitEstablishes, NextKeeps, PTL DEF Spec

(* The resolution of an approval is announced at most once, whoever wins:  *)
(* the operators' calls, the timer, the request's context or a grant.      *)
THEOREM AnnouncedOnce == Spec => []OneTerminalNotice
<1>1. ApprovalsInv => OneTerminalNotice
  BY DEF ApprovalsInv, RequestsInOrder, OneTerminalNotice
<1> QED BY <1>1, InvariantHolds, PTL

(* What an agent is told from its channel, or from the row it reads again, *)
(* is what the store records, with any number of operators at once.        *)
THEOREM AgentHearsTheRow == Spec => []AnswerMatchesRow
<1>1. ApprovalsInv => AnswerMatchesRow
  BY DEF ApprovalsInv, ResponsesFromRows, AnswerMatchesRow
<1> QED BY <1>1, InvariantHolds, PTL

(* A decision that was acknowledged to the operator is in the channel of   *)
(* the request that waits for it, also when it was made before the waiter  *)
(* was registered.                                                         *)
THEOREM DecisionsAreDelivered == Spec => []DecisionReachesWaiter
<1>1. ApprovalsInv => DecisionReachesWaiter
  BY DEF ApprovalsInv
<1> QED BY <1>1, InvariantHolds, PTL

(* A grant that matches a request covers it. *)
LEMMA MatchingGrantCovers ==
    ASSUME ApprovalsInv, NEW q \in Requests, NEW g \in grants, Matches(g, q)
    PROVE  Covers(g, q)
BY DEF ApprovalsInv, TypeOK, GrantsAuthorized, GrantSet, ScopeNames, Matches,
   Covers

(* In prompt mode nothing is decided in favour of an agent that the        *)
(* operator has not approved for it, with any number of grants, made and   *)
(* deleted at any time.                                                    *)
THEOREM NothingAllowedUnasked == Spec => AllowIsAuthorized
<1> DEFINE Step(q) ==
        /\ mode = "prompt"
        /\ \/ plan'[q] # plan[q] /\ plan'[q].option \in Allow
           \/ answer'[q] # answer[q] /\ answer'[q].says \in Allow /\ pc[q] # "settle"
        => \E a \in authority : Covers(a, q)
<1>1. ASSUME ApprovalsInv, [Next]_vars, NEW q \in Requests PROVE Step(q)
  <2>1. SUFFICES ASSUME mode = "prompt",
                        \/ plan'[q] # plan[q] /\ plan'[q].option \in Allow
                        \/ answer'[q] # answer[q] /\ answer'[q].says \in Allow
                                                 /\ pc[q] # "settle"
                 PROVE  \E a \in authority : Covers(a, q)
    OBVIOUS
  <2>2. Auth(q) => \E a \in authority : Covers(a, q)
    BY DEF Auth, Approves, Covers
  <2>3. UNCHANGED <<plan, answer>> => FALSE
    BY <2>1
  <2>4. ASSUME NEW r \in Requests, r # q,
               \/ ApplyGrant(r) \/ ApplyMode(r) \/ Refresh(r) \/ Receive(r)
               \/ TimeOut(r) \/ RequestCancelled(r) \/ resolveStore(r)
        PROVE  FALSE
    BY <1>1, <2>1, <2>4 DEF ApplyGrant, ApplyMode, Refresh, Receive, TimeOut,
       RequestCancelled, StopWaiting, resolveStore, Settle, Return,
       ApprovalsInv, TypeOK
  <2>5. CASE ApplyGrant(q)
    <3>1. PICK g \in grants : Matches(g, q)
                             /\ Settle(q, applyDecision(q, g.decision, FALSE), "grant")
      BY <2>5 DEF ApplyGrant, FindMatchingGrant
    <3>2. g.decision \in Decisions
      BY <1>1 DEF ApprovalsInv, TypeOK, GrantSet
    <3>3. plan'[q].option = applyDecision(q, g.decision, FALSE).option
      BY <1>1, <3>1 DEF Settle, ApprovalsInv, TypeOK
    <3>4. answer' = answer
      BY <2>5 DEF ApplyGrant
    <3>5. g.decision = "approve"
      BY <2>1, <3>2, <3>3, <3>4, ApplyDecisionRange
    <3> QED BY <1>1, <3>1, <3>5, MatchingGrantCovers DEF ApprovalsInv,
       GrantsAuthorized
  <2>6. CASE ApplyMode(q)
    BY <2>1, <2>6 DEF ApplyMode
  <2>7. CASE Refresh(q)
    <3>1. plan[q].option = "none" /\ plan'[q].option = "none"
      BY <1>1, <2>7 DEF Refresh, Return, NoPlan, ApprovalsInv,
         RequestsInOrder, TypeOK, RowSet, PlanSet
    <3>2. answer'[q].says = responseForResolvedApproval(row[q]) /\ pc[q] = "refresh"
      BY <1>1, <2>1, <2>7, <3>1 DEF Refresh, Return, ApprovalsInv, TypeOK,
         Allow
    <3>3. row[q].option \in Allow
      BY <1>1, <2>1, <3>1, <3>2, RowResponseRange DEF ApprovalsInv, TypeOK,
         RowSet, Allow
    <3> QED BY <1>1, <2>2, <3>2, <3>3 DEF ApprovalsInv, AllowsAuthorized
  <2>8. CASE Receive(q)
    <3>1. plan'[q].option = "none" /\ answer'[q].says = waiter[q]
      BY <1>1, <2>8 DEF Receive, Return, NoPlan, ApprovalsInv, TypeOK
    <3> QED BY <1>1, <2>1, <2>2, <3>1 DEF ApprovalsInv, AllowsAuthorized,
       Allow
  <2>9. CASE TimeOut(q) \/ RequestCancelled(q)
    BY <1>1, <2>1, <2>9 DEF TimeOut, RequestCancelled, StopWaiting, Settle,
       Allow, ApprovalsInv, TypeOK
  <2>10. CASE resolveStore(q)
    BY <1>1, <2>1, <2>10 DEF resolveStore, Return, NoPlan, Allow, ApprovalsInv
  <2>11. CASE Restart
    BY <2>1, <2>11 DEF Restart, NoPlan, Allow
  <2>12. ASSUME NEW r \in Requests,
                CreateApproval(r) \/ registerWaiter(r) \/ EndContext(r)
         PROVE  FALSE
    BY <2>3, <2>12 DEF CreateApproval, registerWaiter, EndContext
  <2>13. ASSUME NEW o \in Calls,
                \/ \E r \in Requests :
                     \/ \E d \in {"approve", "deny"}, option \in Options, s \in Scopes :
                           ResolveRead(o, r, d, option, s)
                     \/ CancelRead(o, r)
                \/ ResolveApproval(o) \/ CreateGrant(o) \/ wakeWaiter(o)
         PROVE  FALSE
    BY <2>3, <2>13 DEF ResolveRead, CancelRead, ResolveApproval, CreateGrant,
       wakeWaiter
  <2>14. ASSUME NEW g \in grants, DeleteGrant(g) PROVE FALSE
    BY <2>3, <2>14 DEF DeleteGrant
  <2>15. CASE UNCHANGED vars
    BY <2>3, <2>15 DEF vars
  <2> QED
    BY <1>1, <2>4, <2>5, <2>6, <2>7, <2>8, <2>9, <2>10, <2>11, <2>12, <2>13,
       <2>14, <2>15 DEF Next
<1>2. ASSUME ApprovalsInv, [Next]_vars PROVE \A q \in Requests : Step(q)
  BY <1>1, <1>2
<1>3. ApprovalsInv /\ [Next]_vars => [\A q \in Requests : Step(q)]_vars
  BY <1>2
<1> QED BY <1>3, InvariantHolds, PTL DEF Spec, AllowIsAuthorized

=============================================================================
