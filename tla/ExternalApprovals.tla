-------------------------- MODULE ExternalApprovals --------------------------
(***************************************************************************)
(* Permission requests of external agents (agentadapters/approvals*.go).   *)
(* An agent asks for permission and blocks; the request is stored, looked  *)
(* up among the operator's grants, answered by the configured mode, or     *)
(* (mode "prompt") held until the operator resolves or cancels it over     *)
(* HTTP, its timer fires, or its context ends.                             *)
(*                                                                         *)
(* A request's options are named by their ACP kind.  A coordinator step is *)
(* one store call or one use of the waiter map.                            *)
(***************************************************************************)
EXTENDS Naturals, Sequences, FiniteSets, Functions

CONSTANTS
    Requests,      \* RequestPermission calls, and the ids of their approvals
    Calls,         \* HTTP calls of the operator
    OptionsOf,     \* the options an agent offers with a request, in order
    SessionOf, WorkspaceOf, ToolOf,   \* ToolOf: adapter and tool kind
    Scopes,        \* the scopes the operator chooses from
    Configurations,   \* of a mode ("other": not a known one) and a backend
    MaxFaults      \* bound: store calls that fail, and crashes of the process

Allow == {"allow_once", "allow_always"}
Reject == {"reject_once", "reject_always"}
Options == Allow \cup Reject \cup {"custom"}

ASSUME ApprovalsAssumption ==
    /\ OptionsOf \in [Requests -> Seq(Options)]
    /\ Scopes \subseteq {"once", "session", "workspace_tool", "adapter_tool"}
    /\ Configurations \subseteq
          {"auto", "deny", "prompt", "other"} \X {"memory", "sql"}
    /\ MaxFaults \in Nat

VARIABLES
    mode, backend,   \* configuration
    row,             \* stored approvals
    grants,          \* stored grants
    pc, plan,        \* where a request is, and how it is about to resolve
    ctxDone,         \* requests in progress whose context has ended
    waiter,          \* waiters: "none", "empty", or the response sent
    answer,          \* what the agent was told, and by which path
    call,            \* the operator's calls in progress
    clock,           \* NowFunc, as read by Resolve
    notices,         \* OnResolved and OnTimedOut hooks run for an approval
    authority,       \* ghost: what the operator has approved and not revoked
    acked,           \* ghost: approvals whose resolution returned to a caller
    faults           \* bound: faults and crashes so far

vars == <<mode, backend, row, grants, pc, plan, ctxDone, waiter, answer, call,
          clock, notices, authority, acked, faults>>
config == <<mode, backend>>
ghosts == <<authority, acked>>

NoRow == [status |-> "none", option |-> "none"]
NoAnswer == [says |-> "none", via |-> "none"]
NoPlan == [status |-> "none", option |-> "none", via |-> "none"]
NoCall == [pc |-> "idle"]
CallEnded == [pc |-> "done"]
Ended == {"approved", "denied", "timed_out", "cancelled"}

(***************************************************************************)
(* Choice of an option.                                                    *)
(***************************************************************************)
pickOption(q, first, second) ==
    IF first \in Range(OptionsOf[q]) THEN first
    ELSE IF second \in Range(OptionsOf[q]) THEN second ELSE "none"

Cancelled == [status |-> "cancelled", option |-> "none"]

(* The stored status and option of a decision; without a fitting option    *)
(* the request is cancelled, except that mode "auto" takes any first one.  *)
applyDecision(q, decision, allowCustomFallback) ==
    LET allow == pickOption(q, "allow_once", "allow_always")
        reject == pickOption(q, "reject_once", "reject_always")
    IN  IF decision = "approve" /\ allow # "none"
          THEN [status |-> "approved", option |-> allow]
        ELSE IF decision = "approve" /\ allowCustomFallback /\ OptionsOf[q] # <<>>
          THEN [status |-> "approved", option |-> Head(OptionsOf[q])]
        ELSE IF decision = "deny" /\ reject # "none"
          THEN [status |-> "denied", option |-> reject]
        ELSE Cancelled

(* The answer to the agent: a selected option, or Cancelled. *)
Response(option) == IF option = "none" THEN "cancelled" ELSE option

responseForResolvedApproval(r) ==
    IF r.status \in {"approved", "denied"} THEN Response(r.option)
    ELSE "cancelled"

(***************************************************************************)
(* Grants.                                                                 *)
(***************************************************************************)
(* Defect: a grant for one session serves every session. *)
MatchesAnySession(g, q) ==
    /\ g.tool = ToolOf[q]
    /\ g.scope = "workspace_tool" => g.workspace = WorkspaceOf[q]

(* The reach of a stored grant. *)
Matches(g, q) ==
    /\ g.tool = ToolOf[q]
    /\ g.scope = "session" => g.session = SessionOf[q]
    /\ g.scope = "workspace_tool" => g.workspace = WorkspaceOf[q]

Rank(g) == CASE g.scope = "session" -> 0
             [] g.scope = "workspace_tool" -> 1
             [] OTHER -> 2

(* Most specific first, then the latest. *)
FindMatchingGrant(q) ==
    {g \in grants :
        /\ Matches(g, q)
        /\ \A h \in grants : Matches(h, q) =>
              \/ Rank(g) < Rank(h)
              \/ Rank(g) = Rank(h) /\ g.at >= h.at}

Init ==
    /\ \E c \in Configurations : mode = c[1] /\ backend = c[2]
    /\ row = [q \in Requests |-> NoRow]
    /\ grants = {}
    /\ pc = [q \in Requests |-> "idle"]
    /\ plan = [q \in Requests |-> NoPlan]
    /\ ctxDone = {}
    /\ waiter = [q \in Requests |-> "none"]
    /\ answer = [q \in Requests |-> NoAnswer]
    /\ call = [o \in Calls |-> NoCall]
    /\ clock = 0
    /\ notices = [q \in Requests |-> 0]
    /\ authority = {}
    /\ acked = {}
    /\ faults = 0

(* A statement on a SQL store fails once its context has ended. *)
Reaches(q) == backend = "memory" \/ q \notin ctxDone

Fault == faults < MaxFaults /\ faults' = faults + 1

StoreFails == backend = "sql" /\ Fault

(***************************************************************************)
(* RequestPermission.                                                      *)
(***************************************************************************)
(* CreateApproval; a failure, before or after the row is there, does not   *)
(* stop the request.                                                       *)
CreateApproval(q) ==
    /\ pc[q] = "idle"
    /\ \/ /\ Reaches(q)
          /\ row' = [row EXCEPT ![q] = [status |-> "pending", option |-> "none"]]
          /\ UNCHANGED faults
       \/ /\ ~Reaches(q)
          /\ UNCHANGED <<row, faults>>
       \/ /\ StoreFails
          /\ row' \in {row, [row EXCEPT ![q] = [status |-> "pending", option |-> "none"]]}
    /\ pc' = [pc EXCEPT ![q] = "lookup"]
    /\ UNCHANGED <<config, grants, plan, ctxDone, waiter, answer, call, clock,
                   notices, ghosts>>

Settle(q, decision, via) ==
    /\ pc' = [pc EXCEPT ![q] = "settle"]
    /\ plan' = [plan EXCEPT ![q] = [status |-> decision.status,
                                   option |-> decision.option, via |-> via]]

(* A matching grant decides before the mode does. *)
ApplyGrant(q) ==
    /\ pc[q] = "lookup"
    /\ Reaches(q)
    /\ \E g \in FindMatchingGrant(q) :
          Settle(q, applyDecision(q, g.decision, FALSE), "grant")
    /\ UNCHANGED <<config, row, grants, ctxDone, waiter, answer, call, clock,
                   notices, ghosts, faults>>

(* No grant, or the lookup failed: the mode decides. *)
ApplyMode(q) ==
    /\ pc[q] = "lookup"
    /\ IF Reaches(q) /\ FindMatchingGrant(q) # {} THEN StoreFails ELSE UNCHANGED faults
    /\ \/ /\ mode = "prompt"
          /\ pc' = [pc EXCEPT ![q] = "register"]
          /\ UNCHANGED plan
       \/ mode = "auto" /\ Settle(q, applyDecision(q, "approve", TRUE), "mode")
       \/ mode = "deny" /\ Settle(q, applyDecision(q, "deny", FALSE), "mode")
       \/ mode = "other" /\ Settle(q, Cancelled, "mode")
    /\ UNCHANGED <<config, row, grants, ctxDone, waiter, answer, call, clock,
                   notices, ghosts>>

registerWaiter(q) ==
    /\ pc[q] = "register"
    /\ waiter' = [waiter EXCEPT ![q] = "empty"]
    /\ pc' = [pc EXCEPT ![q] = "refresh"]
    /\ UNCHANGED <<config, row, grants, plan, ctxDone, answer, call, clock,
                   notices, ghosts, faults>>

(* The agent is answered; the deferred unregisterWaiter runs. *)
Return(q, says, via) ==
    /\ answer' = [answer EXCEPT ![q] = [says |-> says, via |-> via]]
    /\ waiter' = [waiter EXCEPT ![q] = "none"]
    /\ pc' = [pc EXCEPT ![q] = "done"]
    /\ plan' = [plan EXCEPT ![q] = NoPlan]
    /\ ctxDone' = ctxDone \ {q}

(* Defect: the row is not read again once the waiter is registered. *)
RefreshSkipped(q) ==
    /\ pc[q] = "refresh"
    /\ pc' = [pc EXCEPT ![q] = "select"]
    /\ UNCHANGED <<config, row, grants, plan, ctxDone, waiter, answer, call,
                   clock, notices, ghosts, faults>>

(* The row may have been resolved before the waiter was registered.  A     *)
(* read that fails is passed over.                                         *)
Refresh(q) ==
    /\ pc[q] = "refresh"
    /\ \/ /\ Reaches(q) /\ row[q].status \in Ended
          /\ Return(q, responseForResolvedApproval(row[q]), "row")
          /\ UNCHANGED faults
       \/ /\ ~(Reaches(q) /\ row[q].status \in Ended)
          /\ pc' = [pc EXCEPT ![q] = "select"]
          /\ UNCHANGED <<waiter, answer, plan, ctxDone, faults>>
       \/ /\ StoreFails
          /\ pc' = [pc EXCEPT ![q] = "select"]
          /\ plan' = [plan EXCEPT ![q].via = "unread"]
          /\ UNCHANGED <<waiter, answer, ctxDone>>
    /\ UNCHANGED <<config, row, grants, call, clock, notices, ghosts>>

Receive(q) ==
    /\ pc[q] = "select"
    /\ waiter[q] # "empty"
    /\ Return(q, waiter[q], "waiter")
    /\ UNCHANGED <<config, row, grants, call, clock, notices, ghosts, faults>>

(* The timer fires, or the context has ended: both answer Cancelled. *)
StopWaiting(q, status, via) ==
    /\ pc[q] = "select"
    /\ Settle(q, [status |-> status, option |-> "none"], via)
    /\ UNCHANGED <<config, row, grants, ctxDone, waiter, answer, call, clock,
                   notices, ghosts, faults>>

TimeOut(q) == StopWaiting(q, "timed_out", "timeout")

RequestCancelled(q) ==
    q \in ctxDone /\ StopWaiting(q, "cancelled", "request_cancelled")

(* Defect: the hook runs although another resolution came first. *)
ResolveAndAlwaysNotify(q) ==
    /\ pc[q] = "settle"
    /\ Return(q, Response(plan[q].option), plan[q].via)
    /\ row' = IF Reaches(q) /\ row[q].status = "pending"
                THEN [row EXCEPT ![q] = [status |-> plan[q].status,
                                         option |-> plan[q].option]]
                ELSE row
    /\ notices' = [notices EXCEPT ![q] = @ + 1]
    /\ UNCHANGED <<config, grants, call, clock, ghosts, faults>>

(* resolveStore, the hook if this resolution won, and the answer, which    *)
(* does not depend on who won.                                             *)
resolveStore(q) ==
    /\ pc[q] = "settle"
    /\ Return(q, Response(plan[q].option), plan[q].via)
    /\ LET resolved == [row EXCEPT ![q] = [status |-> plan[q].status,
                                           option |-> plan[q].option]]
           wins == Reaches(q) /\ row[q].status = "pending"
       IN  \/ /\ row' = IF wins THEN resolved ELSE row
              /\ notices' = [notices EXCEPT ![q] = @ + (IF wins THEN 1 ELSE 0)]
              /\ UNCHANGED faults
           \/ /\ StoreFails     \* the update or the read after it fails
              /\ row' \in {row, IF wins THEN resolved ELSE row}
              /\ UNCHANGED notices
    /\ UNCHANGED <<config, grants, call, clock, ghosts>>

(* The turn or the session of the request ends. *)
EndContext(q) ==
    /\ pc[q] \notin {"idle", "done", "lost"}
    /\ q \notin ctxDone
    /\ ctxDone' = ctxDone \cup {q}
    /\ UNCHANGED <<config, row, grants, pc, plan, waiter, answer, call, clock,
                   notices, ghosts, faults>>

(***************************************************************************)
(* The operator: Resolve, Cancel, DeleteGrant.                             *)
(***************************************************************************)
(* GetApproval and pickOperatorOption; with selected_option any option of  *)
(* the decision's family can be chosen.  Each of Calls is made once.       *)
ResolveRead(o, q, decision, option, scope) ==
    /\ call[o].pc = "idle"
    /\ row[q].status = "pending"
    /\ option \in Range(OptionsOf[q])
    /\ option \in (IF decision = "approve" THEN Allow ELSE Reject)
    /\ call' = [call EXCEPT ![o] =
         [pc |-> "commit", q |-> q, decision |-> decision, option |-> option,
          scope |-> scope, at |-> clock,
          status |-> IF decision = "approve" THEN "approved" ELSE "denied"]]
    /\ clock' = clock + 1
    /\ UNCHANGED <<config, row, grants, pc, plan, ctxDone, waiter, answer,
                   notices, ghosts, faults>>

CancelRead(o, q) ==
    /\ call[o].pc = "idle"
    /\ row[q].status = "pending"
    /\ call' = [call EXCEPT ![o] =
         [pc |-> "commit", q |-> q, decision |-> "none", option |-> "none",
          scope |-> "once", at |-> clock, status |-> "cancelled"]]
    /\ UNCHANGED <<config, row, grants, pc, plan, ctxDone, waiter, answer,
                   clock, notices, ghosts, faults>>

(* The grant of a call; the call that made it identifies it. *)
GrantOf(c) ==
    [q |-> c.q, scope |-> c.scope, tool |-> ToolOf[c.q], session |-> SessionOf[c.q],
     workspace |-> WorkspaceOf[c.q], decision |-> c.decision, at |-> c.at]

(* Defect: the last resolution wins. *)
ResolveApprovalAnyway(o) ==
    /\ call[o].pc = "commit"
    /\ row' = [row EXCEPT ![call[o].q] = [status |-> call[o].status,
                                          option |-> call[o].option]]
    /\ call' = [call EXCEPT ![o].pc = "grant"]
    /\ authority' = IF call[o].decision = "approve"
                      THEN authority \cup {GrantOf(call[o])} ELSE authority
    /\ UNCHANGED <<config, grants, pc, plan, ctxDone, waiter, answer, clock,
                   notices, acked, faults>>

(* The conditional update.  The call ends with an error if it finds the    *)
(* row resolved, or (a fault) before or after the update.                  *)
ResolveApproval(o) ==
    LET q == call[o].q
        resolved == [row EXCEPT ![q] = [status |-> call[o].status,
                                        option |-> call[o].option]]
        approved == IF call[o].decision = "approve"
                      THEN authority \cup {GrantOf(call[o])} ELSE authority
    IN  /\ call[o].pc = "commit"
        /\ \/ /\ row[q].status = "pending"
              /\ row' = resolved
              /\ authority' = approved
              /\ call' = [call EXCEPT ![o].pc = "grant"]
              /\ UNCHANGED faults
           \/ /\ row[q].status # "pending"
              /\ call' = [call EXCEPT ![o] = CallEnded]
              /\ UNCHANGED <<row, authority, faults>>
           \/ /\ StoreFails
              /\ row[q].status = "pending"
              /\ \/ row' = resolved /\ authority' = approved
                 \/ UNCHANGED <<row, authority>>
              /\ call' = [call EXCEPT ![o] = CallEnded]
        /\ UNCHANGED <<config, grants, pc, plan, ctxDone, waiter, answer,
                       clock, notices, acked>>

(* A grant for a scope beyond this request; a failure is only logged. *)
CreateGrant(o) ==
    /\ call[o].pc = "grant"
    /\ \/ /\ grants' = IF call[o].scope = "once" THEN grants
                       ELSE grants \cup {GrantOf(call[o])}
          /\ UNCHANGED faults
       \/ StoreFails /\ UNCHANGED grants
    /\ call' = [call EXCEPT ![o].pc = "wake"]
    /\ UNCHANGED <<config, row, pc, plan, ctxDone, waiter, answer, clock,
                   notices, ghosts>>

(* The response goes to the waiter, if one is registered and empty; the    *)
(* hook runs; the operator's call returns.                                 *)
wakeWaiter(o) ==
    LET q == call[o].q IN
    /\ call[o].pc = "wake"
    /\ waiter' = [waiter EXCEPT ![q] =
                    IF @ = "empty" THEN Response(call[o].option) ELSE @]
    /\ notices' = [notices EXCEPT ![q] = @ + 1]
    /\ acked' = acked \cup {q}
    /\ call' = [call EXCEPT ![o] = CallEnded]
    /\ UNCHANGED <<config, row, grants, pc, plan, ctxDone, answer, clock,
                   authority, faults>>

(* The request the grant was given for stays approved. *)
DeleteGrant(g) ==
    /\ g \in grants
    /\ grants' = grants \ {g}
    /\ authority' = {IF a = g THEN [a EXCEPT !.scope = "once"] ELSE a : a \in authority}
    /\ UNCHANGED <<config, row, pc, plan, ctxDone, waiter, answer, call, clock,
                   notices, acked, faults>>

(* The process stops with its waiters and calls; ReconcilePending runs     *)
(* before the next one serves.  The memory store starts empty.             *)
Restart ==
    /\ Fault
    /\ row' = [q \in Requests |->
                 IF backend = "memory" THEN NoRow
                 ELSE IF row[q].status = "pending"
                   THEN [row[q] EXCEPT !.status = "timed_out"] ELSE row[q]]
    /\ grants' = IF backend = "memory" THEN {} ELSE grants
    /\ pc' = [q \in Requests |->
                IF pc[q] \in {"idle", "done"} THEN pc[q] ELSE "lost"]
    /\ waiter' = [q \in Requests |-> "none"]
    /\ call' = [o \in Calls |-> IF call[o].pc = "idle" THEN NoCall ELSE CallEnded]
    /\ plan' = [q \in Requests |-> NoPlan]
    /\ ctxDone' = {}
    /\ UNCHANGED <<config, answer, clock, notices, ghosts>>

Next ==
    \/ \E q \in Requests :
        \/ CreateApproval(q)
        \/ ApplyGrant(q)
        \/ ApplyMode(q)
        \/ registerWaiter(q)
        \/ Refresh(q)
        \/ Receive(q)
        \/ TimeOut(q)
        \/ RequestCancelled(q)
        \/ resolveStore(q)
        \/ EndContext(q)
    \/ \E o \in Calls :
        \/ \E q \in Requests :
            \/ \E d \in {"approve", "deny"}, option \in Options, s \in Scopes :
                  ResolveRead(o, q, d, option, s)
            \/ CancelRead(o, q)
        \/ ResolveApproval(o)
        \/ CreateGrant(o)
        \/ wakeWaiter(o)
    \/ \E g \in grants : DeleteGrant(g)
    \/ Restart

Spec == Init /\ [][Next]_vars

-----------------------------------------------------------------------------
(* Properties. *)

Covers(a, q) ==
    \/ a.q = q
    \/ /\ a.tool = ToolOf[q]
       /\ \/ a.scope = "session" /\ a.session = SessionOf[q]
          \/ a.scope = "workspace_tool" /\ a.workspace = WorkspaceOf[q]
          \/ a.scope = "adapter_tool"

(* In prompt mode a request is decided in favour of the agent only if the  *)
(* operator has approved that request, or has approved another one with a  *)
(* scope that covers it and has not deleted that grant: whatever is looked *)
(* up, woken, timed out or restarted in between.                           *)
AllowIsAuthorized ==
    [][\A q \in Requests :
         /\ mode = "prompt"
         /\ \/ plan'[q] # plan[q] /\ plan'[q].option \in Allow
            \/ answer'[q] # answer[q] /\ answer'[q].says \in Allow
                                    /\ pc[q] # "settle"
         => \E a \in authority : Covers(a, q)]_vars

(* Once the call that resolves an approval has returned to the operator,   *)
(* the request that still waits for it has the response in its channel: a  *)
(* decision made before the waiter was registered is not lost until the    *)
(* timeout.  (A request that could not read its row again may miss it.)    *)
DecisionReachesWaiter ==
    \A q \in acked :
        pc[q] = "select" /\ q \notin ctxDone /\ plan[q].via # "unread" =>
            waiter[q] # "empty"

(* What a waiting agent is told is what the store records, also when       *)
(* several operators resolve one approval at once; the timeout answers     *)
(* Cancelled without asking the store and is not covered.                  *)
AnswerMatchesRow ==
    \A q \in Requests :
        answer[q].via \in {"waiter", "row"} /\ row[q].status # "none" =>
            answer[q].says = responseForResolvedApproval(row[q])

(* The resolution of an approval is announced at most once, whoever wins   *)
(* ("frontends see exactly one approval.resolved event for this row").     *)
OneTerminalNotice == \A q \in Requests : notices[q] <= 1

=============================================================================
