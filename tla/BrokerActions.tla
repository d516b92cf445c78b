--------------------------- MODULE BrokerActions ---------------------------
(***************************************************************************)
(* The life of an action in the ops broker: request_action, execute_action *)
(* and decide_approval of broker/src/ops_broker/service.py, the part of    *)
(* recover_after_restart (mission_control.py) that concerns actions, and   *)
(* the SQLite rows they share.                                             *)
(*                                                                         *)
(* A member of Procs is one thread of control inside a broker process: the *)
(* HTTP API service or an MCP stdio server.  All of them open the same     *)
(* database.  A step is one transaction or one read, the points where the  *)
(* code really lets another process in; the clock is sampled where the     *)
(* code samples it, before the transaction that uses it.                   *)
(*                                                                         *)
(* request_id is UNIQUE in the actions table, so an action is named by its *)
(* request id.  Parameters, argv and reasons are part of the runbook value *)
(* ("what was asked"); event payloads are left out.                        *)
(***************************************************************************)
EXTENDS Naturals, Sequences, FiniteSets

CONSTANTS Procs,         \* threads of control of the broker processes
          Supervised,    \* those of the systemd service (Restart=on-failure)
          Requests,      \* caller-generated request ids
          Actors,        \* agents and humans known to the broker
          Approvers,     \* approval_actor_ids of the action policy
          Runbooks,      \* runbook plus parameters: what can be asked
          ClassOf,       \* action class of a runbook
          Granted,       \* RBAC: pairs <<actor, runbook>>
          DecisionIds,   \* request ids and source event ids of decisions
          Nobody,        \* no actor, no request, no runbook
          ApprovalTTL,   \* approval_ttl_seconds of class C
          MaxAttempts,   \* budget.max_attempts of a class B runbook
          Window,        \* budget.window_seconds
          MaxTime,       \* bound: the last instant of the clock
          MaxRefusals    \* bound: audited refusals

ASSUME ConstantsAssumption ==
  /\ Supervised \subseteq Procs
  /\ Approvers \subseteq Actors
  /\ ClassOf \in [Runbooks -> {"A", "B", "C"}]
  /\ Granted \subseteq Actors \X Runbooks
  /\ Nobody \notin Actors \cup Requests \cup Runbooks \cup DecisionIds
  /\ ApprovalTTL \in Nat \ {0}
  /\ MaxAttempts \in Nat
  /\ Window \in Nat
  /\ MaxTime \in Nat
  /\ MaxRefusals \in Nat

VARIABLES now,        \* the wall clock
          actions,    \* actions table: row of each request id
          approvals,  \* approvals table
          usage,      \* budget_usage table
          log,        \* events table: status-changing events of each action
          refusals,   \* events table: number of refusal events
          launches,   \* instants at which the helper of an action was run
          pc,         \* where each thread is in its call
          call        \* the local variables it carries between two steps

db   == <<actions, approvals, usage, log, refusals>>
vars == <<now, actions, approvals, usage, log, refusals, launches, pc, call>>

Statuses == {"authorized", "pending_approval", "approved", "rejected",
             "approval_expired", "budget_exhausted", "running", "succeeded",
             "failed"}

EventTypes == {"action.requested", "action.budget_reserved", "action.denied",
               "action.approval_expired", "action.started", "action.succeeded",
               "action.failed", "action.interrupted", "approval.approved",
               "approval.rejected", "approval.expired"}

Sites == {"down", "idle", "insert", "read", "expire_pending", "approval",
          "expire", "claim", "run", "finish", "decide"}

NoRow  == [status |-> "none", runbook |-> Nobody, by |-> Nobody, deadline |-> 0]
NoCall == [req |-> Nobody, by |-> Nobody, runbook |-> Nobody, at |-> 0]

Exists(r) == actions[r].status # "none"
IsClass(r, c) == Exists(r) /\ ClassOf[actions[r].runbook] = c

\* The thread goes on at site s with locals c, or is done with its call.
Goto(p, s, c) == pc' = [pc EXCEPT ![p] = s] /\ call' = [call EXCEPT ![p] = c]
Done(p)       == Goto(p, "idle", NoCall)

\* The row of r takes status s and event e joins the audit log, in one
\* transaction.
Record(r, s, e) ==
  /\ actions' = [actions EXCEPT ![r].status = s]
  /\ log' = [log EXCEPT ![r] = Append(@, e)]

\* A refusal is audited and no row changes.  The count saturates.
Refuse ==
  /\ refusals' = IF refusals < MaxRefusals THEN refusals + 1 ELSE refusals
  /\ UNCHANGED <<actions, approvals, usage, log>>

Init ==
  /\ now = 0
  /\ actions   = [r \in Requests |-> NoRow]
  /\ approvals = {}
  /\ usage     = {}
  /\ log       = [r \in Requests |-> << >>]
  /\ refusals  = 0
  /\ launches  = [r \in Requests |-> << >>]
  /\ pc        = [p \in Procs |-> "down"]
  /\ call      = [p \in Procs |-> NoCall]

Tick == now < MaxTime /\ now' = now + 1
        /\ UNCHANGED <<db, launches, pc, call>>

-----------------------------------------------------------------------------
(* Processes                                                               *)

\* Mutant: the recovery of interrupted actions is forgotten.
NoneInterrupted == {}

\* BrokerService.__init__ calls recover_after_restart: every running row is
\* failed, whichever process is running it.
Interrupted == {r \in Requests : actions[r].status = "running"}

InterruptedStatus == "failed"

\* Mutant: recovery does not audit what it did.
InterruptedLogSilent(r) == log[r]

InterruptedLog(r) == Append(log[r], "action.interrupted")

StartProcess(p) ==
  /\ pc[p] = "down"
  /\ actions' = [r \in Requests |->
                   IF r \in Interrupted
                   THEN [actions[r] EXCEPT !.status = InterruptedStatus]
                   ELSE actions[r]]
  /\ log' = [r \in Requests |->
               IF r \in Interrupted THEN InterruptedLog(r) ELSE log[r]]
  /\ Done(p)
  /\ UNCHANGED <<now, approvals, usage, refusals, launches>>

\* A process dies: the call of its thread is lost where it stands.
Crash(p) ==
  /\ pc[p] # "down"
  /\ Goto(p, "down", NoCall)
  /\ UNCHANGED <<now, db, launches>>

-----------------------------------------------------------------------------
(* request_action                                                          *)

\* RBAC and parameter validation fail: audited, then raised.
RequestDenied(p) ==
  /\ pc[p] = "idle"
  /\ \E a \in Actors, k \in Runbooks : <<a, k>> \notin Granted
  /\ Refuse
  /\ UNCHANGED <<now, launches, pc, call>>

\* The request id is unknown when it is looked up, outside any transaction.
\* When it is known the caller gets the stored row, a conflict or a budget
\* error, and nothing changes.
RequestLookup(p, r, a, k) ==
  /\ pc[p] = "idle"
  /\ <<a, k>> \in Granted
  /\ ~Exists(r)
  /\ Goto(p, "insert", [req |-> r, by |-> a, runbook |-> k, at |-> now])
  /\ UNCHANGED <<now, db, launches>>

\* The UNIQUE constraint fires: another process inserted the id meanwhile.
RequestRaced(p) ==
  /\ pc[p] = "insert"
  /\ Exists(call[p].req)
  /\ Done(p)
  /\ UNCHANGED <<now, db, launches>>

\* Mutant: an attempt exactly as old as the window is no longer counted.
UsedShort(k, t) == {u \in usage : u.key = k /\ u.at + Window > t}

\* Attempts of this budget key that the window ending at instant t counts.
Used(k, t) == {u \in usage : u.key = k /\ u.at + Window >= t}

\* One transaction: the row, its budget reservation and its events.
RequestInsert(p) ==
  LET r == call[p].req
      k == call[p].runbook
      t == call[p].at
      row(s, d) == [status |-> s, runbook |-> k, by |-> call[p].by, deadline |-> d]
      put(s, d, es) == /\ actions' = [actions EXCEPT ![r] = row(s, d)]
                       /\ log' = [log EXCEPT ![r] = es]
  IN /\ pc[p] = "insert"
     /\ ~Exists(r)
     /\ \/ /\ ClassOf[k] = "A"
           /\ put("authorized", 0, <<"action.requested">>)
           /\ Goto(p, "read", [NoCall EXCEPT !.req = r, !.by = call[p].by])
           /\ UNCHANGED usage
        \/ /\ ClassOf[k] = "B"
           /\ Cardinality(Used(k, t)) >= MaxAttempts
           /\ put("budget_exhausted", 0, <<"action.requested", "action.denied">>)
           /\ Done(p)
           /\ UNCHANGED usage
        \/ /\ ClassOf[k] = "B"
           /\ Cardinality(Used(k, t)) < MaxAttempts
           /\ put("authorized", 0, <<"action.requested", "action.budget_reserved">>)
           /\ usage' = usage \cup {[key |-> k, action |-> r, at |-> t]}
           /\ Goto(p, "read", [NoCall EXCEPT !.req = r, !.by = call[p].by])
        \/ /\ ClassOf[k] = "C"
           /\ put("pending_approval", t + ApprovalTTL, <<"action.requested">>)
           /\ Done(p)
           /\ UNCHANGED usage
     /\ UNCHANGED <<now, approvals, refusals, launches>>

-----------------------------------------------------------------------------
(* execute_action                                                          *)

\* A caller asks for an existing action by its id.
ExecuteCall(p, r, a) ==
  /\ pc[p] = "idle"
  /\ Exists(r)
  /\ Goto(p, "read", [NoCall EXCEPT !.req = r, !.by = a])
  /\ UNCHANGED <<now, db, launches>>

\* Another actor than the requester, an RBAC grant that is gone, or a runbook
\* that no longer matches the stored action (both are reloaded at each start).
ExecuteDenied(p) ==
  /\ pc[p] = "read"
  /\ Refuse
  /\ Done(p)
  /\ UNCHANGED <<now, launches>>

\* The row is read; what happens next is decided from this copy.
ExecuteRead(p) ==
  LET r == call[p].req
      row == actions[r]
      next == [NoCall EXCEPT !.req = r]
  IN /\ pc[p] = "read"
     /\ call[p].by = row.by
     /\ \/ /\ row.status = "pending_approval"
           /\ row.deadline <= now
           /\ Goto(p, "expire_pending", next)
        \/ /\ row.status \in {"authorized", "approved"}
           /\ Goto(p, IF IsClass(r, "C") THEN "approval" ELSE "claim", next)
        \/ /\ row.status \notin {"authorized", "approved"}
           /\ row.status = "pending_approval" => row.deadline > now
           /\ Done(p)
     /\ UNCHANGED <<now, db, launches>>

\* Mutant: the expiry of a request is not conditional on its status.
AlwaysPending(r) == TRUE

\* WHERE id = ? AND status = 'pending_approval'
StillPending(r) == actions[r].status = "pending_approval"

\* A request nobody decided in time is expired, if it is still pending.
ExecuteExpirePending(p) ==
  /\ pc[p] = "expire_pending"
  /\ IF StillPending(call[p].req)
     THEN Record(call[p].req, "approval_expired", "action.approval_expired")
     ELSE UNCHANGED <<actions, log>>
  /\ Done(p)
  /\ UNCHANGED <<now, approvals, usage, refusals, launches>>

Approved(r) == {d \in approvals : d.action = r /\ d.decision = "approve"}

\* Class C: the approval is read and compared with the clock.
ExecuteApproval(p) ==
  LET r == call[p].req
  IN /\ pc[p] = "approval"
     /\ \/ Approved(r) = {} /\ Done(p)
        \/ \E d \in Approved(r) : /\ d.expires <= now
                                  /\ Goto(p, "expire", call[p])
        \/ \E d \in Approved(r) : /\ d.expires > now
                                  /\ Goto(p, "claim", call[p])
     /\ UNCHANGED <<now, db, launches>>

\* The approval had expired: the row is updated by id alone, whatever its
\* status has become since it was read.
ExecuteExpire(p) ==
  /\ pc[p] = "expire"
  /\ Record(call[p].req, "approval_expired", "action.approval_expired")
  /\ Done(p)
  /\ UNCHANGED <<now, approvals, usage, refusals, launches>>

\* Mutant: the claim forgets that somebody else may hold the action.
ClaimableTwice(r) == actions[r].status \in {"authorized", "approved", "running"}

\* WHERE id = ? AND status IN ('authorized', 'approved')
Claimable(r) == actions[r].status \in {"authorized", "approved"}

\* The claim is conditional on the status: only one caller gets through.
ExecuteClaim(p) ==
  LET r == call[p].req
  IN /\ pc[p] = "claim"
     /\ \/ /\ Claimable(r)
           /\ Record(r, "running", "action.started")
           /\ Goto(p, "run", call[p])
        \/ /\ ~Claimable(r)
           /\ Done(p)
           /\ UNCHANGED <<actions, log>>
     /\ UNCHANGED <<now, approvals, usage, refusals, launches>>

\* executor.execute: the helper runs; this is the effect on the outside world.
ExecuteRun(p) ==
  /\ pc[p] = "run"
  /\ launches' = [launches EXCEPT ![call[p].req] = Append(@, now)]
  /\ Goto(p, "finish", call[p])
  /\ UNCHANGED <<now, db>>

\* The result is stored by id alone.  An exception of the executor, a timeout
\* and a non-zero exit all read as failed.
ExecuteFinish(p) ==
  /\ pc[p] = "finish"
  /\ \/ Record(call[p].req, "succeeded", "action.succeeded")
     \/ Record(call[p].req, "failed", "action.failed")
  /\ Done(p)
  /\ UNCHANGED <<now, approvals, usage, refusals, launches>>

-----------------------------------------------------------------------------
(* decide_approval                                                         *)

\* The clock is read before the transaction begins.
DecideCall(p) ==
  /\ pc[p] = "idle"
  /\ Goto(p, "decide", [NoCall EXCEPT !.at = now])
  /\ UNCHANGED <<now, db, launches>>

\* Decisions already recorded under this request id or this source event.
Prior(q, e) == {d \in approvals : d.request = q \/ (e # Nobody /\ d.source = e)}

\* Mutant: the requester may decide on its own action.
MayDecideOwn(r, a) ==
  /\ a \in Approvers
  /\ IsClass(r, "C")
  /\ actions[r].status = "pending_approval"

\* Mutant: the allowlist of approvers is not consulted.
MayDecideAnyone(r, a) ==
  /\ a # actions[r].by
  /\ IsClass(r, "C")
  /\ actions[r].status = "pending_approval"

\* Mutant: an action that was already decided is decided again.
MayDecideAgain(r, a) ==
  /\ a \in Approvers
  /\ a # actions[r].by
  /\ IsClass(r, "C")
  /\ actions[r].status \in {"pending_approval", "rejected", "approved"}

\* An allowlisted human other than the requester, on a pending class C action.
MayDecide(r, a) ==
  /\ a \in Approvers
  /\ a # actions[r].by
  /\ IsClass(r, "C")
  /\ actions[r].status = "pending_approval"

\* A replay of a recorded decision, or a conflict with it: nothing changes.
DecideReplayed(p, r, q, e) ==
  /\ pc[p] = "decide"
  /\ Exists(r)
  /\ Prior(q, e) # {}
  /\ Done(p)
  /\ UNCHANGED <<now, db, launches>>

DecideDenied(p, r, a, q, e) ==
  /\ pc[p] = "decide"
  /\ Exists(r)
  /\ Prior(q, e) = {}
  /\ ~MayDecide(r, a)
  /\ Refuse
  /\ Done(p)
  /\ UNCHANGED <<now, launches>>

\* The decision is recorded under deadline, or the pending request expires.
DecideCommit(p, r, a, q, e, v) ==
  /\ pc[p] = "decide"
  /\ Exists(r)
  /\ Prior(q, e) = {}
  /\ MayDecide(r, a)
  /\ \/ /\ actions[r].deadline <= call[p].at
        /\ Record(r, "approval_expired", "approval.expired")
        /\ UNCHANGED approvals
     \/ /\ actions[r].deadline > call[p].at
        /\ approvals' = approvals \cup
             {[request |-> q, source |-> e, action |-> r, actor |-> a,
               decision |-> v, created |-> call[p].at,
               expires |-> actions[r].deadline]}
        /\ IF v = "approve" THEN Record(r, "approved", "approval.approved")
                            ELSE Record(r, "rejected", "approval.rejected")
  /\ Done(p)
  /\ UNCHANGED <<now, usage, refusals, launches>>

-----------------------------------------------------------------------------
Decide(p) ==
  \/ DecideCall(p)
  \/ \E r \in Requests, q \in DecisionIds, e \in DecisionIds \cup {Nobody} :
       \/ DecideReplayed(p, r, q, e)
       \/ \E a \in Actors :
            \/ DecideDenied(p, r, a, q, e)
            \/ \E v \in {"approve", "reject"} : DecideCommit(p, r, a, q, e, v)

Execute(p) ==
  \/ \E r \in Requests, a \in Actors : ExecuteCall(p, r, a)
  \/ ExecuteDenied(p) \/ ExecuteRead(p) \/ ExecuteExpirePending(p)
  \/ ExecuteApproval(p) \/ ExecuteExpire(p) \/ ExecuteClaim(p)
  \/ ExecuteRun(p) \/ ExecuteFinish(p)

Request(p) ==
  \/ RequestDenied(p)
  \/ \E r \in Requests, a \in Actors, k \in Runbooks : RequestLookup(p, r, a, k)
  \/ RequestRaced(p) \/ RequestInsert(p)

Next ==
  \/ Tick
  \/ \E p \in Procs :
       \/ StartProcess(p) \/ Crash(p)
       \/ Request(p) \/ Execute(p) \/ Decide(p)

Spec == Init /\ [][Next]_vars

\* A call in progress is carried on by its thread, and systemd starts the
\* supervised service again after it died.  Nothing else is fair: clients may
\* stop asking, humans may never decide, an MCP server may not come back.
Continue(p) == pc[p] \notin {"down", "idle"} /\ (Request(p) \/ Execute(p) \/ Decide(p))

Fairness ==
  \A p \in Supervised : WF_vars(Continue(p)) /\ WF_vars(StartProcess(p))

FairSpec == Spec /\ Fairness

-----------------------------------------------------------------------------
(* Properties                                                              *)

Row == [status : Statuses, runbook : Runbooks, by : Actors, deadline : Nat]

Decision == [request : DecisionIds, source : DecisionIds \cup {Nobody},
             action : Requests, actor : Actors,
             decision : {"approve", "reject"}, created : Nat, expires : Nat]

Call == [req : Requests \cup {Nobody}, by : Actors \cup {Nobody},
         runbook : Runbooks \cup {Nobody}, at : Nat]

\* Type invariant: rows have the columns and the status values of the schema
\* (database.py), threads stand at a site of their handler.
TypeOK ==
  /\ now \in Nat
  /\ actions \in [Requests -> Row \cup {NoRow}]
  /\ approvals \subseteq Decision
  /\ usage \subseteq [key : Runbooks, action : Requests, at : Nat]
  /\ log \in [Requests -> Seq(EventTypes)]
  /\ refusals \in Nat
  /\ launches \in [Requests -> Seq(Nat)]
  /\ pc \in [Procs -> Sites]
  /\ call \in [Procs -> Call]

\* The audit log says that the action of r was started.
Claimed(r) == \E i \in 1 .. Len(log[r]) : log[r][i] = "action.started"

\* A class C action is started only if an allowlisted human other than its
\* requester approved it before the deadline (decide_approval 1173-1201,
\* execute_action 1011-1060).
ClassCNeedsHuman ==
  \A r \in Requests :
    Claimed(r) /\ IsClass(r, "C") =>
      \E d \in Approved(r) : /\ d.actor \in Approvers
                             /\ d.actor # actions[r].by
                             /\ d.created < d.expires

\* Whatever the retries, the concurrent callers, the crashes and the restarts,
\* the helper of an action runs at most once, and never unless the audit log
\* has an action.started event for it (execute_action 1041-1064).
HelperRunsAtMostOnce ==
  \A r \in Requests : /\ Len(launches[r]) <= 1
                      /\ Len(launches[r]) > 0 => Claimed(r)

\* An action receives one decision, and a source event or a decision request
\* id is consumed by one decision (decide_approval 1152-1180).
OneDecision ==
  \A d1, d2 \in approvals :
    \/ d1.action = d2.action
    \/ d1.request = d2.request
    \/ d1.source = d2.source /\ d1.source # Nobody
    => d1 = d2

\* No window of Window seconds holds more than MaxAttempts reservations of one
\* budget key, although each request samples the clock before its transaction
\* and may commit after later ones (request_action 778, 834-862).
BudgetHolds ==
  \A k \in Runbooks, t \in 0 .. MaxTime :
    Cardinality({u \in usage : u.key = k /\ t <= u.at /\ u.at <= t + Window})
      <= MaxAttempts

\* The status an audit event leaves the row in.
StatusAfter(r) ==
  LET e == log[r][Len(log[r])]
  IN CASE e = "action.requested" /\ IsClass(r, "C") -> "pending_approval"
       [] e = "action.requested" /\ ~IsClass(r, "C") -> "authorized"
       [] e = "action.budget_reserved" -> "authorized"
       [] e = "action.denied" -> "budget_exhausted"
       [] e \in {"action.approval_expired", "approval.expired"} -> "approval_expired"
       [] e = "action.started" -> "running"
       [] e = "action.succeeded" -> "succeeded"
       [] e \in {"action.failed", "action.interrupted"} -> "failed"
       [] e = "approval.approved" -> "approved"
       [] e = "approval.rejected" -> "rejected"

\* The audit log is complete: the last event of an action tells the status of
\* its row, at every point where another process or a crash may come in
\* (Database.transaction, append_event).
AuditTellsStatus ==
  \A r \in Requests :
    /\ Exists(r) <=> log[r] # << >>
    /\ Exists(r) => actions[r].status = StatusAfter(r)

\* A refusal is final: a rejected action and one whose budget was exhausted
\* keep their status, even when a thread that read the row earlier is about to
\* write to it.
RefusalsAreFinal ==
  [][\A r \in Requests :
       actions[r].status \in {"rejected", "budget_exhausted"} =>
         actions'[r] = actions[r]]_vars

\* An action claimed by a supervised process does not stay running for ever:
\* the process stores a result, or it dies, is started again by systemd and
\* recover_after_restart fails what it finds running.
RunningEnds ==
  \A p \in Supervised, r \in Requests :
    (pc[p] \in {"run", "finish"} /\ call[p].req = r)
      ~> (actions[r].status # "running")

-----------------------------------------------------------------------------
(* A statement of the repository that the code does not keep.              *)

\* mission_control.py:1304 speaks of interrupted actions.  The recovery runs in
\* every process that starts and fails actions another process is running.
RecoveryFailsOnlyInterrupted ==
  [][\A p, q \in Procs :
       pc[p] = "down" /\ pc'[p] = "idle" /\ pc[q] = "finish" =>
         actions'[call[q].req] = actions[call[q].req]]_vars

-----------------------------------------------------------------------------
(* Refinement: what the audit log and the tables say of each action is a   *)
(* behaviour of ActionGate.                                                *)

PhaseOf(r) ==
  IF Claimed(r) THEN "passed"
  ELSE CASE actions[r].status = "none" -> "none"
         [] actions[r].status = "pending_approval" -> "waiting"
         [] actions[r].status \in {"authorized", "approved"} -> "granted"
         [] OTHER -> "closed"

ApproverOf(r) ==
  IF Approved(r) = {} THEN Nobody
  ELSE (CHOOSE d \in Approved(r) : TRUE).actor

Gate == INSTANCE ActionGate WITH
  phase    <- [r \in Requests |-> PhaseOf(r)],
  human    <- [r \in Requests |-> IsClass(r, "C")],
  owner    <- [r \in Requests |-> actions[r].by],
  approver <- [r \in Requests |-> ApproverOf(r)]

\* The broker implements the gate: whatever interleaves, an action is let
\* through at most once, only from a grant, and a class C grant comes from an
\* allowlisted person who did not ask for it.
ImplementsGate == Gate!GateSpec
=============================================================================
