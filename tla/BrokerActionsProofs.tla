------------------------ MODULE BrokerActionsProofs ------------------------
(***************************************************************************)
(* Proofs about BrokerActions, for every value of the constants: types;    *)
(* the safety properties, from one inductive invariant; that it implements *)
(* ActionGate; and two properties of what is recorded, that the budget of  *)
(* a window is never exceeded and that the audit log tells the status of   *)
(* every row.                                                              *)
(***************************************************************************)
EXTENDS BrokerActions, FiniteSetTheorems, TLAPS

\* Sites of a thread that is inside execute_action.
ExecSites == {"read", "expire_pending", "approval", "expire", "claim", "run",
              "finish"}

\* The locals a thread carries are meaningful at its site.
CallOK ==
  \A p \in Procs :
    /\ pc[p] = "insert" => /\ call[p].req \in Requests
                           /\ call[p].by \in Actors
                           /\ call[p].runbook \in Runbooks
    /\ pc[p] \in ExecSites => /\ call[p].req \in Requests
                              /\ Exists(call[p].req)

TInv == TypeOK /\ CallOK

\* A row that exists has all its columns.
LEMMA RowExists ==
  ASSUME TypeOK, NEW r \in Requests, Exists(r)
  PROVE  actions[r] \in Row
BY DEF TypeOK, Exists, NoRow

\* A row that takes a status of the schema stays a row, and no row disappears.
LEMMA RecordType ==
  ASSUME TypeOK, NEW r \in Requests, Exists(r),
         NEW s \in Statuses, NEW e \in EventTypes, Record(r, s, e)
  PROVE  /\ actions' \in [Requests -> Row \cup {NoRow}]
         /\ log' \in [Requests -> Seq(EventTypes)]
         /\ \A q \in Requests : Exists(q) => Exists(q)'
<1>1. actions[r] \in Row
  BY RowExists
<1>2. actions' = [actions EXCEPT ![r] = [actions[r] EXCEPT !.status = s]]
  BY <1>1 DEF Record, TypeOK
<1>3. [actions[r] EXCEPT !.status = s] \in Row
  BY <1>1 DEF Row
<1>4. actions' \in [Requests -> Row \cup {NoRow}]
  BY <1>2, <1>3 DEF TypeOK
<1>5. log' \in [Requests -> Seq(EventTypes)]
  BY DEF Record, TypeOK
<1>6. s # "none"
  BY DEF Statuses
<1>7. \A q \in Requests : Exists(q) => Exists(q)'
  BY <1>1, <1>2, <1>6 DEF Exists, TypeOK, Row
<1> QED
  BY <1>4, <1>5, <1>7

\* A thread that moves keeps the locals of every thread meaningful.
LEMMA GotoType ==
  ASSUME TInv, NEW p \in Procs, NEW s \in Sites, NEW c \in Call, Goto(p, s, c),
         \A q \in Requests : Exists(q) => Exists(q)',
         s = "insert" => c.req \in Requests /\ c.by \in Actors /\ c.runbook \in Runbooks,
         s \in ExecSites => c.req \in Requests /\ Exists(c.req)'
  PROVE  /\ pc' \in [Procs -> Sites]
         /\ call' \in [Procs -> Call]
         /\ CallOK'
<1>1. /\ pc' = [pc EXCEPT ![p] = s]
      /\ call' = [call EXCEPT ![p] = c]
  BY DEF Goto
<1>2. pc \in [Procs -> Sites] /\ call \in [Procs -> Call]
  BY DEF TInv, TypeOK
<1>3. ASSUME NEW q \in Procs
      PROVE  /\ pc'[q] = "insert" => /\ call'[q].req \in Requests
                                     /\ call'[q].by \in Actors
                                     /\ call'[q].runbook \in Runbooks
             /\ pc'[q] \in ExecSites => /\ call'[q].req \in Requests
                                        /\ Exists(call[q].req)'
  <2>1. CASE q = p
    BY <1>1, <1>2, <2>1 DEF Exists
  <2>2. CASE q # p
    <3>1. pc'[q] = pc[q] /\ call'[q] = call[q]
      BY <1>1, <1>2, <2>2
    <3> QED
      BY <3>1 DEF TInv, CallOK, Exists
  <2> QED
    BY <2>1, <2>2
<1> QED
  BY <1>1, <1>2, <1>3 DEF CallOK

LEMMA DoneType ==
  ASSUME TInv, NEW p \in Procs, Done(p),
         \A q \in Requests : Exists(q) => Exists(q)'
  PROVE  /\ pc' \in [Procs -> Sites]
         /\ call' \in [Procs -> Call]
         /\ CallOK'
<1>1. "idle" \in Sites /\ NoCall \in Call
  BY DEF Sites, NoCall, Call
<1>2. Goto(p, "idle", NoCall)
  BY DEF Done
<1> QED
  BY <1>1, <1>2, GotoType DEF ExecSites

\* The locals of execute_action: an existing action and nothing else.
LEMMA ReqCall ==
  ASSUME NEW r \in Requests
  PROVE  /\ [NoCall EXCEPT !.req = r] \in Call
         /\ [NoCall EXCEPT !.req = r].req = r
         /\ \A a \in Actors : /\ [NoCall EXCEPT !.req = r, !.by = a] \in Call
                              /\ [NoCall EXCEPT !.req = r, !.by = a].req = r
BY DEF NoCall, Call

LEMMA InitTInv == Init => TInv
BY ConstantsAssumption
   DEF Init, TInv, TypeOK, CallOK, NoRow, NoCall, Call, Sites, ExecSites

\* A step that leaves the tables and the world alone and moves one thread.
LEMMA MoveOnly ==
  ASSUME TInv, UNCHANGED <<now, db, launches>>,
         pc' \in [Procs -> Sites], call' \in [Procs -> Call], CallOK'
  PROVE  TInv'
BY DEF TInv, TypeOK, db

\* A step that gives the action of r a new status and ends a call.
LEMMA RecordDone ==
  ASSUME TInv, NEW p \in Procs, NEW r \in Requests, Exists(r),
         NEW s \in Statuses, NEW e \in EventTypes, Record(r, s, e), Done(p),
         UNCHANGED <<now, usage, refusals, launches>>, approvals' \subseteq Decision
  PROVE  TInv'
<1>1. TypeOK
  BY DEF TInv
<1>2. /\ actions' \in [Requests -> Row \cup {NoRow}]
      /\ log' \in [Requests -> Seq(EventTypes)]
      /\ \A q \in Requests : Exists(q) => Exists(q)'
  BY <1>1, RecordType
<1>3. pc' \in [Procs -> Sites] /\ call' \in [Procs -> Call] /\ CallOK'
  BY <1>2, DoneType
<1> QED
  BY <1>1, <1>2, <1>3 DEF TInv, TypeOK

LEMMA NextTInv == ASSUME TInv, [Next]_vars PROVE TInv'
<1> USE DEF TInv
<1>s. Sites = {"down", "idle", "insert", "read", "expire_pending", "approval",
               "expire", "claim", "run", "finish", "decide"}
  BY DEF Sites
<1>n. NoCall \in Call
  BY DEF NoCall, Call
<1>e. UNCHANGED actions => \A q \in Requests : Exists(q) => Exists(q)'
  BY DEF Exists
<1>1. CASE UNCHANGED vars
  BY <1>1 DEF TypeOK, CallOK, vars, Exists
<1>2. CASE Tick
  BY <1>2 DEF Tick, TypeOK, CallOK, db, Exists
<1>3. ASSUME NEW p \in Procs, StartProcess(p) PROVE TInv'
  <2>1. \A r \in Interrupted : actions[r] \in Row
    BY RowExists DEF Interrupted, Exists
  <2>2. \A r \in Interrupted : [actions[r] EXCEPT !.status = InterruptedStatus] \in Row
    BY <2>1 DEF InterruptedStatus, Statuses, Row
  <2>3. actions' \in [Requests -> Row \cup {NoRow}]
    BY <1>3, <2>2 DEF StartProcess, TypeOK
  <2>4. log' \in [Requests -> Seq(EventTypes)]
    BY <1>3 DEF StartProcess, InterruptedLog, TypeOK, EventTypes
  <2>5. \A q \in Requests : Exists(q) => Exists(q)'
    BY <1>3, <2>1 DEF StartProcess, Exists, InterruptedStatus, Row
  <2>6. pc' \in [Procs -> Sites] /\ call' \in [Procs -> Call] /\ CallOK'
    BY <1>3, <2>5, DoneType DEF StartProcess
  <2> QED
    BY <1>3, <2>3, <2>4, <2>6 DEF StartProcess, TypeOK
<1>4. ASSUME NEW p \in Procs, Crash(p) PROVE TInv'
  <2>1. pc' \in [Procs -> Sites] /\ call' \in [Procs -> Call] /\ CallOK'
    BY <1>4, <1>s, <1>n, <1>e, GotoType DEF Crash, db, ExecSites
  <2> QED
    BY <1>4, <2>1, MoveOnly DEF Crash
<1>5. ASSUME NEW p \in Procs, Request(p) PROVE TInv'
  <2>1. CASE RequestDenied(p)
    BY <2>1 DEF RequestDenied, Refuse, TypeOK, CallOK, Exists
  <2>2. ASSUME NEW r \in Requests, NEW a \in Actors, NEW k \in Runbooks,
               RequestLookup(p, r, a, k)
        PROVE  TInv'
    <3>1. [req |-> r, by |-> a, runbook |-> k, at |-> now] \in Call
      BY DEF Call, TypeOK
    <3>2. pc' \in [Procs -> Sites] /\ call' \in [Procs -> Call] /\ CallOK'
      BY <2>2, <3>1, <1>s, <1>e, GotoType DEF RequestLookup, db, ExecSites
    <3> QED
      BY <2>2, <3>2, MoveOnly DEF RequestLookup
  <2>3. CASE RequestRaced(p)
    BY <2>3, <1>e, DoneType, MoveOnly DEF RequestRaced, db
  <2>4. CASE RequestInsert(p)
    <3>1. PICK r \in Requests, k \in Runbooks, a \in Actors, t \in Nat :
            r = call[p].req /\ k = call[p].runbook /\ a = call[p].by /\ t = call[p].at
      BY <2>4 DEF RequestInsert, CallOK, TypeOK, Call
    <3>2. ASSUME NEW s \in Statuses, NEW d \in Nat, NEW es \in Seq(EventTypes),
                 actions' = [actions EXCEPT ![r] = [status |-> s, runbook |-> k,
                                                    by |-> a, deadline |-> d]],
                 log' = [log EXCEPT ![r] = es]
          PROVE  /\ actions' \in [Requests -> Row \cup {NoRow}]
                 /\ log' \in [Requests -> Seq(EventTypes)]
                 /\ \A q \in Requests : Exists(q) => Exists(q)'
                 /\ Exists(r)'
      <4>1. [status |-> s, runbook |-> k, by |-> a, deadline |-> d] \in Row
        BY <3>1 DEF Row
      <4>2. s # "none"
        BY DEF Statuses
      <4>3. actions' \in [Requests -> Row \cup {NoRow}]
        BY <3>2, <4>1 DEF TypeOK
      <4>4. log' \in [Requests -> Seq(EventTypes)]
        BY <3>2 DEF TypeOK
      <4>5. \A q \in Requests : (q = r \/ Exists(q)) => Exists(q)'
        BY <3>1, <3>2, <4>2 DEF Exists, TypeOK
      <4>6. Exists(r)'
        BY <3>1, <3>2, <4>2 DEF Exists, TypeOK
      <4> QED
        BY <4>3, <4>4, <4>5, <4>6
    <3>3. /\ {"authorized", "budget_exhausted", "pending_approval"} \subseteq Statuses
          /\ {<<"action.requested">>, <<"action.requested", "action.denied">>,
              <<"action.requested", "action.budget_reserved">>} \subseteq Seq(EventTypes)
          /\ 0 \in Nat /\ t + ApprovalTTL \in Nat
      BY ConstantsAssumption DEF Statuses, EventTypes
    <3>4. /\ actions' \in [Requests -> Row \cup {NoRow}]
          /\ log' \in [Requests -> Seq(EventTypes)]
          /\ \A q \in Requests : Exists(q) => Exists(q)'
          /\ Exists(r)'
      BY <2>4, <3>1, <3>2, <3>3 DEF RequestInsert
    <3>5. usage' \subseteq [key : Runbooks, action : Requests, at : Nat]
      BY <2>4, <3>1 DEF RequestInsert, TypeOK
    <3>6. Done(p) \/ Goto(p, "read", [NoCall EXCEPT !.req = r, !.by = a])
      BY <2>4, <3>1 DEF RequestInsert
    <3>8. pc' \in [Procs -> Sites] /\ call' \in [Procs -> Call] /\ CallOK'
      <4>1. CASE Done(p)
        BY <3>4, <4>1, DoneType
      <4>2. CASE Goto(p, "read", [NoCall EXCEPT !.req = r, !.by = a])
        <5>1. /\ [NoCall EXCEPT !.req = r, !.by = a] \in Call
              /\ [NoCall EXCEPT !.req = r, !.by = a].req = r
          BY ReqCall
        <5> QED
          BY <3>4, <4>2, <5>1, <1>s, GotoType
      <4> QED
        BY <3>6, <4>1, <4>2
    <3> QED
      BY <2>4, <3>4, <3>5, <3>8 DEF RequestInsert, TypeOK
  <2> QED
    BY <1>5, <2>1, <2>2, <2>3, <2>4 DEF Request
<1>6. ASSUME NEW p \in Procs, Execute(p) PROVE TInv'
  <2>1. ASSUME NEW r \in Requests, NEW a \in Actors, ExecuteCall(p, r, a) PROVE TInv'
    <3>1. pc' \in [Procs -> Sites] /\ call' \in [Procs -> Call] /\ CallOK'
      BY <2>1, <1>s, <1>e, ReqCall, GotoType DEF ExecuteCall, db
    <3> QED
      BY <2>1, <3>1, MoveOnly DEF ExecuteCall
  <2>2. CASE ExecuteDenied(p)
    <3>1. pc' \in [Procs -> Sites] /\ call' \in [Procs -> Call] /\ CallOK'
      BY <2>2, <1>e, DoneType DEF ExecuteDenied, Refuse
    <3> QED
      BY <2>2, <3>1 DEF ExecuteDenied, Refuse, TypeOK
  <2>3. SUFFICES ASSUME pc[p] \in ExecSites,
                        NEW r \in Requests, r = call[p].req, Exists(r), call[p] \in Call,
                        \/ ExecuteRead(p) \/ ExecuteExpirePending(p)
                        \/ ExecuteApproval(p) \/ ExecuteExpire(p) \/ ExecuteClaim(p)
                        \/ ExecuteRun(p) \/ ExecuteFinish(p)
                 PROVE  TInv'
    <3>1. CASE \/ ExecuteRead(p) \/ ExecuteExpirePending(p)
               \/ ExecuteApproval(p) \/ ExecuteExpire(p) \/ ExecuteClaim(p)
               \/ ExecuteRun(p) \/ ExecuteFinish(p)
      <4>1. pc[p] \in ExecSites
        BY <3>1 DEF ExecuteRead, ExecuteExpirePending, ExecuteApproval, ExecuteExpire,
                    ExecuteClaim, ExecuteRun, ExecuteFinish, ExecSites
      <4>2. call[p].req \in Requests /\ Exists(call[p].req) /\ call[p] \in Call
        BY <4>1 DEF CallOK, TypeOK
      <4> QED
        BY <2>3, <3>1, <4>1, <4>2
    <3> QED
      BY <1>6, <2>1, <2>2, <3>1 DEF Execute
  <2>4. CASE ExecuteRead(p)
    <3>1. pc' \in [Procs -> Sites] /\ call' \in [Procs -> Call] /\ CallOK'
      BY <2>3, <2>4, <1>s, <1>e, ReqCall, GotoType, DoneType DEF ExecuteRead, db, ExecSites
    <3> QED
      BY <2>4, <3>1, MoveOnly DEF ExecuteRead
  <2>5. CASE ExecuteExpirePending(p)
    <3>1. CASE StillPending(r)
      <4>1. Record(r, "approval_expired", "action.approval_expired")
        BY <2>3, <2>5, <3>1 DEF ExecuteExpirePending
      <4> QED
        BY <2>3, <2>5, <4>1, RecordDone DEF ExecuteExpirePending, Statuses, EventTypes, TypeOK
    <3>2. CASE ~StillPending(r)
      BY <2>3, <2>5, <3>2, <1>e, DoneType, MoveOnly DEF ExecuteExpirePending, db
    <3> QED
      BY <3>1, <3>2
  <2>6. CASE ExecuteApproval(p)
    <3>1. pc' \in [Procs -> Sites] /\ call' \in [Procs -> Call] /\ CallOK'
      BY <2>3, <2>6, <1>s, <1>e, GotoType, DoneType DEF ExecuteApproval, db, ExecSites
    <3> QED
      BY <2>6, <3>1, MoveOnly DEF ExecuteApproval
  <2>7. CASE ExecuteExpire(p)
    BY <2>3, <2>7, RecordDone DEF ExecuteExpire, Statuses, EventTypes, TypeOK
  <2>8. CASE ExecuteClaim(p)
    <3>1. CASE Claimable(r)
      <4>1. Record(r, "running", "action.started") /\ Goto(p, "run", call[p])
        BY <2>3, <2>8, <3>1 DEF ExecuteClaim
      <4>2. /\ actions' \in [Requests -> Row \cup {NoRow}]
            /\ log' \in [Requests -> Seq(EventTypes)]
            /\ \A q \in Requests : Exists(q) => Exists(q)'
        BY <2>3, <4>1, RecordType DEF Statuses, EventTypes
      <4>3. pc' \in [Procs -> Sites] /\ call' \in [Procs -> Call] /\ CallOK'
        BY <2>3, <4>1, <4>2, <1>s, GotoType DEF ExecSites
      <4> QED
        BY <2>8, <4>2, <4>3 DEF ExecuteClaim, TypeOK
    <3>2. CASE ~Claimable(r)
      BY <2>3, <2>8, <3>2, <1>e, DoneType, MoveOnly DEF ExecuteClaim, db
    <3> QED
      BY <3>1, <3>2
  <2>9. CASE ExecuteRun(p)
    <3>1. pc' \in [Procs -> Sites] /\ call' \in [Procs -> Call] /\ CallOK'
      BY <2>3, <2>9, <1>s, <1>e, GotoType DEF ExecuteRun, db, ExecSites
    <3>2. launches' \in [Requests -> Seq(Nat)]
      BY <2>3, <2>9 DEF ExecuteRun, TypeOK
    <3> QED
      BY <2>9, <3>1, <3>2 DEF ExecuteRun, TypeOK, db
  <2>10. CASE ExecuteFinish(p)
    BY <2>3, <2>10, RecordDone DEF ExecuteFinish, Statuses, EventTypes, TypeOK
  <2> QED
    BY <2>3, <2>4, <2>5, <2>6, <2>7, <2>8, <2>9, <2>10
<1>7. ASSUME NEW p \in Procs, Decide(p) PROVE TInv'
  <2>1. CASE DecideCall(p)
    <3>1. [NoCall EXCEPT !.at = now] \in Call
      BY DEF NoCall, Call, TypeOK
    <3>2. pc' \in [Procs -> Sites] /\ call' \in [Procs -> Call] /\ CallOK'
      BY <2>1, <3>1, <1>s, <1>e, GotoType DEF DecideCall, db, ExecSites
    <3> QED
      BY <2>1, <3>2, MoveOnly DEF DecideCall
  <2>2. ASSUME NEW r \in Requests, NEW q \in DecisionIds,
               NEW e \in DecisionIds \cup {Nobody}, DecideReplayed(p, r, q, e)
        PROVE  TInv'
    BY <2>2, <1>e, DoneType, MoveOnly DEF DecideReplayed, db
  <2>3. ASSUME NEW r \in Requests, NEW a \in Actors, NEW q \in DecisionIds,
               NEW e \in DecisionIds \cup {Nobody}, DecideDenied(p, r, a, q, e)
        PROVE  TInv'
    <3>1. pc' \in [Procs -> Sites] /\ call' \in [Procs -> Call] /\ CallOK'
      BY <2>3, <1>e, DoneType DEF DecideDenied, Refuse
    <3> QED
      BY <2>3, <3>1 DEF DecideDenied, Refuse, TypeOK
  <2>4. ASSUME NEW r \in Requests, NEW a \in Actors, NEW q \in DecisionIds,
               NEW e \in DecisionIds \cup {Nobody}, NEW v \in {"approve", "reject"},
               DecideCommit(p, r, a, q, e, v)
        PROVE  TInv'
    <3>1. actions[r] \in Row /\ call[p].at \in Nat
      BY <2>4, RowExists DEF DecideCommit, TypeOK, Call
    <3>2. [request |-> q, source |-> e, action |-> r, actor |-> a, decision |-> v,
           created |-> call[p].at, expires |-> actions[r].deadline] \in Decision
      BY <3>1 DEF Decision, Row
    <3>3. approvals' \subseteq Decision
      BY <2>4, <3>2 DEF DecideCommit, TypeOK
    <3>4. \E s \in Statuses, ev \in EventTypes : Record(r, s, ev)
      BY <2>4 DEF DecideCommit, Statuses, EventTypes
    <3> QED
      BY <2>4, <3>3, <3>4, RecordDone DEF DecideCommit
  <2> QED
    BY <1>7, <2>1, <2>2, <2>3, <2>4 DEF Decide
<1> QED
  BY <1>1, <1>2, <1>3, <1>4, <1>5, <1>6, <1>7 DEF Next

\* Rows, tables and threads keep the shape the schema and the handlers give
\* them, in every interleaving.
THEOREM TypeCorrect == Spec => []TypeOK
<1>1. TInv /\ [Next]_vars => TInv'
  BY NextTInv
<1>2. TInv => TypeOK
  BY DEF TInv
<1> QED
  BY InitTInv, <1>1, <1>2, PTL DEF Spec

-----------------------------------------------------------------------------
(* The inductive invariant                                                 *)

HasApproval(r) == Approved(r) # {}

\* Thread p is between the claim of r and the record of its result.
Inside(p, r) == pc[p] \in {"run", "finish"} /\ call[p].req = r

\* A start in the audit log and the status of the row agree, a thread that is
\* inside an action owns the start of that action, and nobody else does.
StartInv ==
  /\ \A r \in Requests : Claimed(r) =>
       actions[r].status \in {"running", "succeeded", "failed", "approval_expired"}
  /\ \A r \in Requests : actions[r].status = "running" => Claimed(r)
  /\ \A p \in Procs, r \in Requests : Inside(p, r) => Claimed(r)
  /\ \A p, q \in Procs, r \in Requests : Inside(p, r) /\ Inside(q, r) => p = q
  /\ \A p \in Procs, r \in Requests :
       pc[p] = "run" /\ call[p].req = r => launches[r] = << >>
  /\ \A r \in Requests : /\ Len(launches[r]) <= 1
                         /\ launches[r] = << >> \/ Claimed(r)

\* Decisions are made once, by people entitled to, on class C actions, and the
\* status of a class C action follows from its decision.
ApprovalInv ==
  /\ OneDecision
  /\ \A d \in approvals, r \in Requests : d.action = r =>
       /\ IsClass(r, "C")
       /\ actions[r].status # "pending_approval"
       /\ d.actor \in Approvers
       /\ d.actor # actions[r].by
       /\ d.created < d.expires
  /\ \A r \in Requests : IsClass(r, "C") =>
       actions[r].status \notin {"authorized", "budget_exhausted"}
  /\ \A r \in Requests :
       IsClass(r, "C") /\ (actions[r].status = "approved" \/ Claimed(r)) =>
         HasApproval(r)
  /\ \A r \in Requests : actions[r].status = "rejected" =>
       \E d \in approvals : d.action = r /\ d.decision = "reject"
  /\ \A p \in Procs, r \in Requests :
       pc[p] = "expire" /\ call[p].req = r => HasApproval(r)

IInv == TInv /\ StartInv /\ ApprovalInv

-----------------------------------------------------------------------------
(* What a step can do.                                                     *)

\* Nothing the properties look at changes, and nobody enters a helper.
Quiet ==
  /\ UNCHANGED <<actions, approvals, usage, log, launches>>
  /\ \A q \in Procs :
       /\ pc'[q] \in {"run", "finish"} => pc'[q] = pc[q] /\ call'[q] = call[q]
       /\ pc'[q] = "expire" => \/ pc[q] = "expire" /\ call'[q] = call[q]
                               \/ HasApproval(call'[q].req)

\* Thread p is at site s and nobody else moves.
MovesTo(p, s) ==
  /\ pc'[p] = s
  /\ \A q \in Procs : q # p => pc'[q] = pc[q] /\ call'[q] = call[q]

\* Thread p changes the row of r, or runs its helper.
Effect(p, r) ==
  \/ RequestInsert(p) /\ r = call[p].req /\ pc'[p] \in {"idle", "read"} /\ MovesTo(p, pc'[p])
  \/ /\ Exists(r) /\ r = call[p].req /\ MovesTo(p, "idle")
     /\ \/ ExecuteExpirePending(p) /\ StillPending(r)
        \/ ExecuteExpire(p)
        \/ ExecuteFinish(p)
  \/ /\ Exists(r) /\ r = call[p].req /\ MovesTo(p, "run") /\ call'[p] = call[p]
     /\ ExecuteClaim(p) /\ Claimable(r)
  \/ /\ Exists(r) /\ r = call[p].req /\ MovesTo(p, "finish") /\ call'[p] = call[p]
     /\ ExecuteRun(p)
  \/ /\ MovesTo(p, "idle")
     /\ \E a \in Actors, q \in DecisionIds, e \in DecisionIds \cup {Nobody},
           v \in {"approve", "reject"} : DecideCommit(p, r, a, q, e, v)

LEMMA GotoMoves ==
  ASSUME TypeOK, NEW p \in Procs, NEW s, NEW c, Goto(p, s, c)
  PROVE  MovesTo(p, s) /\ call'[p] = c
BY DEF Goto, MovesTo, TypeOK

LEMMA GotoQuiet ==
  ASSUME TypeOK, NEW p \in Procs, NEW s, NEW c, Goto(p, s, c),
         s \notin {"run", "finish"},
         s = "expire" => HasApproval(c.req),
         UNCHANGED <<actions, approvals, usage, log, launches>>
  PROVE  Quiet
BY GotoMoves DEF MovesTo, Quiet

\* Every step is quiet, a restart or one of the effects.
LEMMA StepCases ==
  ASSUME TInv, [Next]_vars
  PROVE  \/ Quiet
         \/ \E p \in Procs : StartProcess(p) /\ MovesTo(p, "idle")
         \/ \E p \in Procs, r \in Requests : Effect(p, r)
<1>t. TypeOK /\ CallOK
  BY DEF TInv
<1>1. CASE UNCHANGED vars
  BY <1>1 DEF vars, Quiet
<1>2. CASE Tick
  BY <1>2 DEF Tick, db, Quiet
<1>3. ASSUME NEW p \in Procs, StartProcess(p) PROVE MovesTo(p, "idle")
  BY <1>3, <1>t, GotoMoves DEF StartProcess, Done
<1>4. ASSUME NEW p \in Procs, Crash(p) PROVE Quiet
  BY <1>4, <1>t, GotoQuiet DEF Crash, db
<1>5. ASSUME NEW p \in Procs, Request(p)
      PROVE  Quiet \/ \E r \in Requests : Effect(p, r)
  <2>1. CASE RequestDenied(p)
    BY <2>1 DEF RequestDenied, Refuse, Quiet
  <2>2. ASSUME NEW r \in Requests, NEW a \in Actors, NEW k \in Runbooks,
               RequestLookup(p, r, a, k)
        PROVE  Quiet
    BY <2>2, <1>t, GotoQuiet DEF RequestLookup, db
  <2>3. CASE RequestRaced(p)
    BY <2>3, <1>t, GotoQuiet DEF RequestRaced, Done, db
  <2>4. CASE RequestInsert(p)
    <3>1. PICK r \in Requests : r = call[p].req
      BY <2>4, <1>t DEF RequestInsert, CallOK
    <3>2. \/ Goto(p, "idle", NoCall)
          \/ Goto(p, "read", [NoCall EXCEPT !.req = r, !.by = call[p].by])
      BY <2>4, <3>1 DEF RequestInsert, Done
    <3>3. \E s \in {"idle", "read"} : MovesTo(p, s)
      BY <3>2, <1>t, GotoMoves
    <3>4. pc'[p] \in {"idle", "read"} /\ MovesTo(p, pc'[p])
      BY <3>3 DEF MovesTo
    <3> QED
      BY <2>4, <3>1, <3>4 DEF Effect
  <2> QED
    BY <1>5, <2>1, <2>2, <2>3, <2>4 DEF Request
<1>6. ASSUME NEW p \in Procs, Execute(p)
      PROVE  Quiet \/ \E r \in Requests : Effect(p, r)
  <2>1. ASSUME NEW r \in Requests, NEW a \in Actors, ExecuteCall(p, r, a) PROVE Quiet
    BY <2>1, <1>t, GotoQuiet DEF ExecuteCall, db
  <2>2. CASE ExecuteDenied(p)
    BY <2>2, <1>t, GotoQuiet DEF ExecuteDenied, Refuse, Done
  <2>3. CASE ExecuteRead(p)
    BY <2>3, <1>t, GotoQuiet DEF ExecuteRead, Done, db
  <2>4. CASE ExecuteApproval(p)
    BY <2>4, <1>t, GotoQuiet DEF ExecuteApproval, Done, db, HasApproval
  <2>5. CASE ExecuteExpirePending(p) \/ ExecuteExpire(p) \/ ExecuteClaim(p)
             \/ ExecuteRun(p) \/ ExecuteFinish(p)
    <3>1. PICK r \in Requests : r = call[p].req /\ Exists(r)
      BY <2>5, <1>t DEF CallOK, ExecSites, ExecuteExpirePending, ExecuteExpire,
                        ExecuteClaim, ExecuteRun, ExecuteFinish
    <3>2. CASE ExecuteExpirePending(p) \/ ExecuteExpire(p) \/ ExecuteFinish(p)
      <4>1. Goto(p, "idle", NoCall)
        BY <3>2 DEF ExecuteExpirePending, ExecuteExpire, ExecuteFinish, Done
      <4>2. MovesTo(p, "idle")
        BY <4>1, <1>t, GotoMoves
      <4>3. CASE ExecuteExpirePending(p) /\ ~StillPending(r)
        BY <3>1, <4>1, <4>3, <1>t, GotoQuiet DEF ExecuteExpirePending
      <4> QED
        BY <3>1, <3>2, <4>2, <4>3 DEF Effect
    <3>3. CASE ExecuteClaim(p) /\ Claimable(r)
      <4>1. Goto(p, "run", call[p])
        BY <3>1, <3>3 DEF ExecuteClaim
      <4>2. MovesTo(p, "run") /\ call'[p] = call[p]
        BY <4>1, <1>t, GotoMoves
      <4> QED
        BY <3>1, <3>3, <4>2 DEF Effect
    <3>4. CASE ExecuteClaim(p) /\ ~Claimable(r)
      BY <3>1, <3>4, <1>t, GotoQuiet DEF ExecuteClaim, Done
    <3>5. CASE ExecuteRun(p)
      <4>1. MovesTo(p, "finish") /\ call'[p] = call[p]
        BY <3>5, <1>t, GotoMoves DEF ExecuteRun
      <4> QED
        BY <3>1, <3>5, <4>1 DEF Effect
    <3> QED
      BY <2>5, <3>2, <3>3, <3>4, <3>5
  <2> QED
    BY <1>6, <2>1, <2>2, <2>3, <2>4, <2>5 DEF Execute
<1>7. ASSUME NEW p \in Procs, Decide(p)
      PROVE  Quiet \/ \E r \in Requests : Effect(p, r)
  <2>1. CASE DecideCall(p)
    BY <2>1, <1>t, GotoQuiet DEF DecideCall, db
  <2>2. ASSUME NEW r \in Requests, NEW q \in DecisionIds,
               NEW e \in DecisionIds \cup {Nobody}, DecideReplayed(p, r, q, e)
        PROVE  Quiet
    BY <2>2, <1>t, GotoQuiet DEF DecideReplayed, Done, db
  <2>3. ASSUME NEW r \in Requests, NEW a \in Actors, NEW q \in DecisionIds,
               NEW e \in DecisionIds \cup {Nobody}, DecideDenied(p, r, a, q, e)
        PROVE  Quiet
    BY <2>3, <1>t, GotoQuiet DEF DecideDenied, Refuse, Done
  <2>4. ASSUME NEW r \in Requests, NEW a \in Actors, NEW q \in DecisionIds,
               NEW e \in DecisionIds \cup {Nobody}, NEW v \in {"approve", "reject"},
               DecideCommit(p, r, a, q, e, v)
        PROVE  Effect(p, r)
    <3>1. MovesTo(p, "idle")
      BY <2>4, <1>t, GotoMoves DEF DecideCommit, Done
    <3> QED
      BY <2>4, <3>1 DEF Effect
  <2> QED
    BY <1>7, <2>1, <2>2, <2>3, <2>4 DEF Decide
<1> QED
  BY <1>1, <1>2, <1>3, <1>4, <1>5, <1>6, <1>7 DEF Next

-----------------------------------------------------------------------------
(* What the steps do to a row and to the audit log.                        *)

\* The rows keep what was asked and by whom, only r takes a status, only an
\* action.started event makes an action started.
Changes(r, s, e) ==
  \A q \in Requests :
    /\ actions'[q].status = IF q = r THEN s ELSE actions[q].status
    /\ actions'[q].by = actions[q].by
    /\ IsClass(q, "C")' <=> IsClass(q, "C")
    /\ Claimed(q)' <=> Claimed(q) \/ (q = r /\ e = "action.started")

LEMMA AppendHas ==
  ASSUME NEW s \in Seq(EventTypes), NEW e \in EventTypes, NEW x
  PROVE  (\E i \in 1 .. Len(Append(s, e)) : Append(s, e)[i] = x)
           <=> (\E i \in 1 .. Len(s) : s[i] = x) \/ e = x
<1>1. Len(Append(s, e)) = Len(s) + 1 /\ Len(s) \in Nat
  OBVIOUS
<1>2. \A i \in 1 .. Len(s) : Append(s, e)[i] = s[i]
  OBVIOUS
<1>3. Append(s, e)[Len(s) + 1] = e
  OBVIOUS
<1> QED
  BY <1>1, <1>2, <1>3

LEMMA RecordChanges ==
  ASSUME TypeOK, NEW r \in Requests, Exists(r),
         NEW s \in Statuses, NEW e \in EventTypes, Record(r, s, e)
  PROVE  Changes(r, s, e)
<1>1. actions[r] \in Row
  BY RowExists
<1>2. actions' = [actions EXCEPT ![r] = [actions[r] EXCEPT !.status = s]]
  BY <1>1 DEF Record, TypeOK
<1>3. s # "none"
  BY DEF Statuses
<1>4. ASSUME NEW q \in Requests
      PROVE  /\ actions'[q].status = IF q = r THEN s ELSE actions[q].status
             /\ actions'[q].by = actions[q].by
             /\ actions'[q].runbook = actions[q].runbook
  BY <1>1, <1>2 DEF TypeOK, Row
<1>5. ASSUME NEW q \in Requests PROVE IsClass(q, "C")' <=> IsClass(q, "C")
  BY <1>3, <1>4 DEF IsClass, Exists
<1>6. ASSUME NEW q \in Requests
      PROVE  Claimed(q)' <=> Claimed(q) \/ (q = r /\ e = "action.started")
  <2>1. CASE q = r
    <3>1. log'[q] = Append(log[q], e) /\ log[q] \in Seq(EventTypes)
      BY <2>1 DEF Record, TypeOK
    <3> QED
      BY <2>1, <3>1, AppendHas DEF Claimed
  <2>2. CASE q # r
    <3>1. log'[q] = log[q]
      BY <2>2 DEF Record, TypeOK
    <3> QED
      BY <2>2, <3>1 DEF Claimed
  <2> QED
    BY <2>1, <2>2
<1> QED
  BY <1>4, <1>5, <1>6 DEF Changes

\* request_action creates a row and touches no other.
LEMMA InsertChanges ==
  ASSUME TInv, NEW p \in Procs, RequestInsert(p), NEW r \in Requests, r = call[p].req
  PROVE  /\ ~Exists(r)
         /\ \A q \in Requests \ {r} : actions'[q] = actions[q] /\ log'[q] = log[q]
         /\ actions'[r].status \in {"authorized", "budget_exhausted", "pending_approval"}
         /\ actions'[r].by \in Actors
         /\ IsClass(r, "C")' <=> actions'[r].status = "pending_approval"
         /\ ~Claimed(r)'
<1>1. PICK k \in Runbooks, a \in Actors, t \in Nat :
        k = call[p].runbook /\ a = call[p].by /\ t = call[p].at
  BY DEF RequestInsert, TInv, CallOK, TypeOK, Call
<1>2. actions \in [Requests -> Row \cup {NoRow}] /\ log \in [Requests -> Seq(EventTypes)]
  BY DEF TInv, TypeOK
<1>3. \E s \in {"authorized", "budget_exhausted", "pending_approval"}, d \in Nat,
         es \in {<<"action.requested">>, <<"action.requested", "action.denied">>,
                 <<"action.requested", "action.budget_reserved">>} :
        /\ actions' = [actions EXCEPT ![r] = [status |-> s, runbook |-> k,
                                              by |-> a, deadline |-> d]]
        /\ log' = [log EXCEPT ![r] = es]
        /\ ClassOf[k] = "C" <=> s = "pending_approval"
  <2>1. 0 \in Nat /\ t + ApprovalTTL \in Nat
    BY ConstantsAssumption
  <2> QED
    BY <1>1, <2>1 DEF RequestInsert
<1>4. PICK s \in {"authorized", "budget_exhausted", "pending_approval"}, d \in Nat,
           es \in {<<"action.requested">>, <<"action.requested", "action.denied">>,
                 <<"action.requested", "action.budget_reserved">>} :
        /\ actions' = [actions EXCEPT ![r] = [status |-> s, runbook |-> k,
                                              by |-> a, deadline |-> d]]
        /\ log' = [log EXCEPT ![r] = es]
        /\ ClassOf[k] = "C" <=> s = "pending_approval"
  BY <1>3
<1>5. actions'[r] = [status |-> s, runbook |-> k, by |-> a, deadline |-> d] /\ log'[r] = es
  BY <1>2, <1>4
<1>6. ~\E i \in 1 .. Len(es) : es[i] = "action.started"
  OBVIOUS
<1>7. ~Claimed(r)'
  BY <1>5, <1>6 DEF Claimed
<1>8. /\ IsClass(r, "C")' <=> actions'[r].status = "pending_approval"
      /\ actions'[r].by \in Actors
  BY <1>4, <1>5 DEF IsClass, Exists
<1>9. ~Exists(r)
  BY DEF RequestInsert
<1>10. \A q \in Requests \ {r} : actions'[q] = actions[q] /\ log'[q] = log[q]
  BY <1>2, <1>4
<1> QED
  BY <1>5, <1>7, <1>8, <1>9, <1>10

\* Recovery fails the running actions and starts none.
LEMMA RestartChanges ==
  ASSUME TInv, NEW p \in Procs, StartProcess(p), NEW q \in Requests
  PROVE  /\ actions'[q].status = IF actions[q].status = "running" THEN "failed"
                                 ELSE actions[q].status
         /\ actions'[q].by = actions[q].by
         /\ actions[q].status # "running" => actions'[q] = actions[q]
         /\ IsClass(q, "C")' <=> IsClass(q, "C")
         /\ Claimed(q)' <=> Claimed(q)
<1>1. CASE actions[q].status = "running"
  <2>1. actions[q] \in Row
    BY <1>1, RowExists DEF TInv, Exists
  <2>2. /\ actions'[q] = [actions[q] EXCEPT !.status = "failed"]
        /\ log'[q] = Append(log[q], "action.interrupted")
    BY <1>1 DEF StartProcess, Interrupted, InterruptedStatus, InterruptedLog
  <2>3. /\ actions'[q].status = "failed"
        /\ actions'[q].by = actions[q].by
        /\ actions'[q].runbook = actions[q].runbook
    BY <2>1, <2>2 DEF Row
  <2>4. IsClass(q, "C")' <=> IsClass(q, "C")
    BY <1>1, <2>3 DEF IsClass, Exists
  <2>5. log[q] \in Seq(EventTypes) /\ "action.interrupted" \in EventTypes
    BY DEF TInv, TypeOK, EventTypes
  <2>6. Claimed(q)' <=> Claimed(q)
    BY <2>2, <2>5, AppendHas DEF Claimed
  <2> QED
    BY <1>1, <2>3, <2>4, <2>6
<1>2. CASE actions[q].status # "running"
  <2>1. actions'[q] = actions[q] /\ log'[q] = log[q]
    BY <1>2 DEF StartProcess, Interrupted
  <2> QED
    BY <1>2, <2>1 DEF IsClass, Exists, Claimed
<1> QED
  BY <1>1, <1>2

\* A thread that moved to a site outside the helper is inside no action; the
\* others are where they were.
LEMMA MovesInside ==
  ASSUME NEW p \in Procs, NEW s, MovesTo(p, s), NEW q \in Procs, NEW r \in Requests
  PROVE  /\ q # p => /\ Inside(q, r)' <=> Inside(q, r)
                     /\ pc'[q] = pc[q] /\ call'[q] = call[q]
         /\ s \notin {"run", "finish"} => ~Inside(p, r)'
BY DEF MovesTo, Inside

-----------------------------------------------------------------------------
(* The invariant is inductive.                                             *)

LEMMA InitIInv == Init => IInv
<1> SUFFICES ASSUME Init PROVE IInv
  OBVIOUS
<1>1. \A r \in Requests : ~Claimed(r) /\ launches[r] = << >> /\ actions[r].status = "none"
  BY DEF Init, Claimed, NoRow
<1>2. \A p \in Procs : pc[p] = "down"
  BY DEF Init
<1>3. StartInv
  BY <1>1, <1>2 DEF StartInv, Inside
<1>4. ApprovalInv
  BY <1>1, <1>2 DEF Init, ApprovalInv, OneDecision, IsClass, Exists
<1> QED
  BY <1>3, <1>4, InitTInv DEF IInv

\* A step that starts no action, runs no helper and leaves helpers alone.
LEMMA StartKept ==
  ASSUME StartInv, UNCHANGED launches,
         \A q \in Procs, r \in Requests : Inside(q, r)' => /\ Inside(q, r)
                                                           /\ pc'[q] = pc[q],
         \A r \in Requests :
           /\ Claimed(r)' <=> Claimed(r)
           /\ Claimed(r) => actions'[r].status \in
                              {"running", "succeeded", "failed", "approval_expired"}
           /\ actions'[r].status = "running" => Claimed(r)
  PROVE  StartInv'
<1>1. \A r \in Requests : Claimed(r)' =>
        actions'[r].status \in {"running", "succeeded", "failed", "approval_expired"}
  OBVIOUS
<1>2. \A p \in Procs, r \in Requests : Inside(p, r)' => Claimed(r)'
  BY DEF StartInv
<1>3. \A p, q \in Procs, r \in Requests : Inside(p, r)' /\ Inside(q, r)' => p = q
  BY DEF StartInv
<1>4. \A p \in Procs, r \in Requests :
        pc'[p] = "run" /\ call'[p].req = r => launches'[r] = << >>
  BY DEF StartInv, Inside
<1>5. \A r \in Requests : /\ Len(launches'[r]) <= 1
                          /\ launches'[r] = << >> \/ Claimed(r)'
  BY DEF StartInv
<1> QED
  BY <1>1, <1>2, <1>3, <1>4, <1>5 DEF StartInv

LEMMA NextStartInv == ASSUME IInv, [Next]_vars PROVE StartInv'
<1>t. TInv /\ TypeOK /\ StartInv
  BY DEF IInv, TInv
<1>1. CASE Quiet
  <2>1. \A r \in Requests : Claimed(r)' <=> Claimed(r)
    BY <1>1 DEF Quiet, Claimed
  <2>2. \A q \in Procs, r \in Requests : Inside(q, r)' => Inside(q, r) /\ pc'[q] = pc[q]
    BY <1>1 DEF Quiet, Inside
  <2>3. UNCHANGED <<actions, launches>>
    BY <1>1 DEF Quiet
  <2> QED
    BY <1>t, <2>1, <2>2, <2>3, StartKept DEF StartInv
<1>2. ASSUME NEW p \in Procs, StartProcess(p), MovesTo(p, "idle") PROVE StartInv'
  <2>1. \A q \in Procs, r \in Requests : Inside(q, r)' => Inside(q, r) /\ pc'[q] = pc[q]
    BY <1>2, MovesInside
  <2>2. UNCHANGED launches
    BY <1>2 DEF StartProcess
  <2>3. \A r \in Requests :
          /\ actions'[r].status = IF actions[r].status = "running" THEN "failed"
                                  ELSE actions[r].status
          /\ Claimed(r)' <=> Claimed(r)
    BY <1>2, <1>t, RestartChanges
  <2> QED
    BY <1>t, <2>1, <2>2, <2>3, StartKept DEF StartInv
<1>3. ASSUME NEW p \in Procs, NEW r \in Requests, Effect(p, r) PROVE StartInv'
  <2>1. CASE RequestInsert(p) /\ r = call[p].req /\ MovesTo(p, pc'[p])
             /\ pc'[p] \in {"idle", "read"}
    <3>1. \A q \in Procs, x \in Requests : Inside(q, x)' => Inside(q, x) /\ pc'[q] = pc[q]
      BY <2>1, MovesInside
    <3>2. UNCHANGED launches
      BY <2>1 DEF RequestInsert
    <3>3. /\ ~Exists(r)
          /\ \A q \in Requests \ {r} : actions'[q] = actions[q] /\ log'[q] = log[q]
          /\ actions'[r].status \in {"authorized", "budget_exhausted", "pending_approval"}
          /\ ~Claimed(r)'
      BY <2>1, <1>t, InsertChanges
    <3>4. ~Claimed(r)
      BY <1>t, <3>3 DEF StartInv, Exists
    <3>5. \A q \in Requests \ {r} : Claimed(q)' <=> Claimed(q)
      BY <3>3 DEF Claimed
    <3> QED
      BY <1>t, <3>1, <3>2, <3>3, <3>4, <3>5, StartKept DEF StartInv
  <2>2. ASSUME Exists(r), MovesTo(p, "idle"), UNCHANGED launches,
               NEW s \in Statuses \ {"running"}, NEW e \in EventTypes \ {"action.started"},
               Record(r, s, e),
               Claimed(r) => s \in {"succeeded", "failed", "approval_expired"}
        PROVE  StartInv'
    <3>1. Changes(r, s, e)
      BY <2>2, <1>t, RecordChanges
    <3>2. \A q \in Procs, x \in Requests : Inside(q, x)' => Inside(q, x) /\ pc'[q] = pc[q]
      BY <2>2, MovesInside
    <3> QED
      BY <1>t, <2>2, <3>1, <3>2, StartKept DEF StartInv, Changes
  <2>s. /\ {"approval_expired", "succeeded", "failed", "approved", "rejected"}
             \subseteq Statuses \ {"running"}
        /\ {"action.approval_expired", "action.succeeded", "action.failed",
            "approval.approved", "approval.rejected", "approval.expired"}
             \subseteq EventTypes \ {"action.started"}
    BY DEF Statuses, EventTypes
  <2>3. CASE Exists(r) /\ r = call[p].req /\ MovesTo(p, "idle")
             /\ (\/ ExecuteExpirePending(p) /\ StillPending(r)
                 \/ ExecuteExpire(p) \/ ExecuteFinish(p))
    <3>1. \/ Record(r, "approval_expired", "action.approval_expired")
          \/ Record(r, "succeeded", "action.succeeded")
          \/ Record(r, "failed", "action.failed")
      BY <2>3 DEF ExecuteExpirePending, ExecuteExpire, ExecuteFinish
    <3>2. UNCHANGED launches
      BY <2>3 DEF ExecuteExpirePending, ExecuteExpire, ExecuteFinish
    <3> QED
      BY <2>2, <2>3, <2>s, <3>1, <3>2
  <2>4. CASE \E a \in Actors, q \in DecisionIds, e \in DecisionIds \cup {Nobody},
               v \in {"approve", "reject"} :
               MovesTo(p, "idle") /\ DecideCommit(p, r, a, q, e, v)
    <3>1. \/ Record(r, "approval_expired", "approval.expired")
          \/ Record(r, "approved", "approval.approved")
          \/ Record(r, "rejected", "approval.rejected")
      BY <2>4 DEF DecideCommit
    <3>2. Exists(r) /\ actions[r].status = "pending_approval" /\ UNCHANGED launches
      BY <2>4 DEF DecideCommit, MayDecide
    <3>3. ~Claimed(r)
      BY <1>t, <3>2 DEF StartInv
    <3> QED
      BY <2>2, <2>4, <2>s, <3>1, <3>2, <3>3
  <2>5. CASE /\ Exists(r) /\ r = call[p].req /\ MovesTo(p, "run") /\ call'[p] = call[p]
             /\ ExecuteClaim(p) /\ Claimable(r)
    <3>1. Record(r, "running", "action.started") /\ UNCHANGED launches
      BY <2>5 DEF ExecuteClaim
    <3>2. Changes(r, "running", "action.started")
      BY <2>5, <3>1, <1>t, RecordChanges DEF Statuses, EventTypes
    <3>3. ~Claimed(r)
      BY <1>t, <2>5 DEF StartInv, Claimable
    <3>4. launches[r] = << >> /\ \A q \in Procs : ~Inside(q, r)
      BY <1>t, <3>3 DEF StartInv
    <3>5. \A q \in Procs, x \in Requests :
            Inside(q, x)' <=> IF q = p THEN x = r ELSE Inside(q, x)
      BY <2>5 DEF MovesTo, Inside
    <3>6. \A q \in Procs, x \in Requests :
            pc'[q] = "run" /\ call'[q].req = x =>
              IF q = p THEN x = r ELSE pc[q] = "run" /\ call[q].req = x
      BY <2>5 DEF MovesTo
    <3>7. \A x \in Requests : Claimed(x)' <=> Claimed(x) \/ x = r
      BY <3>2 DEF Changes
    <3>8. \A x \in Requests :
            actions'[x].status = IF x = r THEN "running" ELSE actions[x].status
      BY <3>2 DEF Changes
    <3> QED
      BY <1>t, <3>1, <3>4, <3>5, <3>6, <3>7, <3>8 DEF StartInv
  <2>6. CASE /\ Exists(r) /\ r = call[p].req /\ MovesTo(p, "finish") /\ call'[p] = call[p]
             /\ ExecuteRun(p)
    <3>1. /\ pc[p] = "run"
          /\ launches' = [launches EXCEPT ![r] = Append(@, now)]
          /\ UNCHANGED <<actions, log>>
      BY <2>6 DEF ExecuteRun, db
    <3>2. launches[r] = << >> /\ Claimed(r) /\ Inside(p, r)
      BY <1>t, <2>6, <3>1 DEF StartInv, Inside
    <3>3. /\ Len(launches'[r]) = 1
          /\ \A x \in Requests \ {r} : launches'[x] = launches[x]
      BY <1>t, <3>1, <3>2 DEF TypeOK
    <3>4. \A q \in Procs, x \in Requests : Inside(q, x)' <=> Inside(q, x)
      BY <2>6, <3>1 DEF MovesTo, Inside
    <3>5. \A q \in Procs, x \in Requests :
            pc'[q] = "run" /\ call'[q].req = x => q # p /\ pc[q] = "run" /\ call[q].req = x
      BY <2>6 DEF MovesTo
    <3>6. \A q \in Procs, x \in Requests : pc'[q] = "run" /\ call'[q].req = x => x # r
      BY <1>t, <3>2, <3>5 DEF StartInv, Inside
    <3>7. \A x \in Requests : Claimed(x)' <=> Claimed(x)
      BY <3>1 DEF Claimed
    <3>8. \A q \in Procs, x \in Requests :
            pc'[q] = "run" /\ call'[q].req = x => launches'[x] = << >>
      BY <1>t, <3>3, <3>5, <3>6 DEF StartInv
    <3>9. ASSUME NEW x \in Requests
          PROVE  Len(launches'[x]) <= 1 /\ (launches'[x] = << >> \/ Claimed(x)')
      <4>1. CASE x = r
        <5>1. Claimed(x)'
          BY <3>2, <3>7, <4>1
        <5>2. Len(launches'[x]) = 1
          BY <3>3, <4>1
        <5> QED
          BY <5>1, <5>2
      <4>2. CASE x # r
        <5>1. launches'[x] = launches[x]
          BY <3>3, <4>2
        <5> QED
          BY <1>t, <3>7, <5>1 DEF StartInv
      <4> QED
        BY <4>1, <4>2
    <3> QED
      BY <1>t, <3>1, <3>4, <3>7, <3>8, <3>9 DEF StartInv
  <2> QED
    BY <1>3, <2>1, <2>3, <2>4, <2>5, <2>6 DEF Effect
<1> QED
  BY <1>t, <1>1, <1>2, <1>3, StepCases

\* A step that records no decision and approves nothing.
LEMMA ApprovalKept ==
  ASSUME ApprovalInv, UNCHANGED approvals,
         \A q \in Procs, r \in Requests :
           pc'[q] = "expire" /\ call'[q].req = r => HasApproval(r),
         \A r \in Requests : Exists(r) =>
           /\ IsClass(r, "C")' <=> IsClass(r, "C")
           /\ actions'[r].by = actions[r].by
           /\ actions'[r].status = "pending_approval" => actions[r].status = "pending_approval",
         \A r \in Requests :
           /\ IsClass(r, "C")' => actions'[r].status \notin {"authorized", "budget_exhausted"}
           /\ IsClass(r, "C")' /\ (actions'[r].status = "approved" \/ Claimed(r)') =>
                HasApproval(r)
           /\ actions'[r].status = "rejected" => actions[r].status = "rejected"
  PROVE  ApprovalInv'
<1>1. \A r \in Requests : HasApproval(r)' <=> HasApproval(r)
  BY DEF Approved, HasApproval
<1>2. OneDecision'
  BY DEF ApprovalInv, OneDecision
<1>3. ASSUME NEW d \in approvals', NEW r \in Requests, d.action = r
      PROVE  /\ IsClass(r, "C")'
             /\ actions'[r].status # "pending_approval"
             /\ d.actor \in Approvers
             /\ d.actor # actions'[r].by
             /\ d.created < d.expires
  <2>1. /\ IsClass(r, "C")
        /\ actions[r].status # "pending_approval"
        /\ d.actor \in Approvers
        /\ d.actor # actions[r].by
        /\ d.created < d.expires
    BY <1>3 DEF ApprovalInv
  <2>2. Exists(r)
    BY <2>1 DEF IsClass
  <2> QED
    BY <2>1, <2>2
<1>4. \A r \in Requests : actions'[r].status = "rejected" =>
        \E d \in approvals' : d.action = r /\ d.decision = "reject"
  BY DEF ApprovalInv
<1> QED
  BY <1>1, <1>2, <1>3, <1>4 DEF ApprovalInv

\* A thread that moves elsewhere than to the expiry of an approval.
LEMMA MovesExpire ==
  ASSUME ApprovalInv, NEW p \in Procs, NEW s, MovesTo(p, s), s # "expire"
  PROVE  \A q \in Procs, r \in Requests :
           pc'[q] = "expire" /\ call'[q].req = r => HasApproval(r)
BY DEF MovesTo, ApprovalInv

LEMMA NextApprovalInv == ASSUME IInv, [Next]_vars PROVE ApprovalInv'
<1>t. TInv /\ TypeOK /\ StartInv /\ ApprovalInv
  BY DEF IInv, TInv
<1>1. CASE Quiet
  <2>1. actions' = actions /\ log' = log /\ approvals' = approvals
    BY <1>1 DEF Quiet
  <2>2. \A r \in Requests : /\ Claimed(r)' <=> Claimed(r)
                            /\ IsClass(r, "C")' <=> IsClass(r, "C")
    BY <2>1 DEF Claimed, IsClass, Exists
  <2>3. \A q \in Procs, r \in Requests :
          pc'[q] = "expire" /\ call'[q].req = r => HasApproval(r)
    BY <1>t, <1>1 DEF Quiet, ApprovalInv
  <2> QED
    BY <1>t, <2>1, <2>2, <2>3, ApprovalKept DEF ApprovalInv
<1>2. ASSUME NEW p \in Procs, StartProcess(p), MovesTo(p, "idle") PROVE ApprovalInv'
  <2>1. UNCHANGED approvals
    BY <1>2 DEF StartProcess
  <2>2. \A r \in Requests :
         /\ actions'[r].status = IF actions[r].status = "running" THEN "failed"
                                 ELSE actions[r].status
         /\ actions'[r].by = actions[r].by
         /\ IsClass(r, "C")' <=> IsClass(r, "C")
         /\ Claimed(r)' <=> Claimed(r)
    BY <1>2, <1>t, RestartChanges
  <2>3. \A q \in Procs, r \in Requests :
          pc'[q] = "expire" /\ call'[q].req = r => HasApproval(r)
    BY <1>t, <1>2, MovesExpire
  <2> QED
    BY <1>t, <2>1, <2>2, <2>3, ApprovalKept DEF ApprovalInv
<1>3. ASSUME NEW p \in Procs, NEW r \in Requests, Effect(p, r) PROVE ApprovalInv'
  <2>1. CASE RequestInsert(p) /\ r = call[p].req /\ MovesTo(p, pc'[p])
             /\ pc'[p] \in {"idle", "read"}
    <3>1. \A q \in Procs, x \in Requests :
            pc'[q] = "expire" /\ call'[q].req = x => HasApproval(x)
      BY <1>t, <2>1, MovesExpire
    <3>2. UNCHANGED approvals
      BY <2>1 DEF RequestInsert
    <3>3. /\ ~Exists(r)
          /\ \A q \in Requests \ {r} : actions'[q] = actions[q] /\ log'[q] = log[q]
          /\ actions'[r].status \in {"authorized", "budget_exhausted", "pending_approval"}
          /\ IsClass(r, "C")' => actions'[r].status = "pending_approval"
          /\ ~Claimed(r)'
      BY <2>1, <1>t, InsertChanges
    <3>4. \A q \in Requests \ {r} : /\ Claimed(q)' <=> Claimed(q)
                                    /\ IsClass(q, "C")' <=> IsClass(q, "C")
      BY <3>3 DEF Claimed, IsClass, Exists
    <3> QED
      BY <1>t, <3>1, <3>2, <3>3, <3>4, ApprovalKept DEF ApprovalInv
  <2>2. ASSUME Exists(r), UNCHANGED approvals,
               NEW s \in Statuses, NEW e \in EventTypes, Record(r, s, e),
               NEW site, site # "expire", MovesTo(p, site),
               s \in {"approval_expired", "succeeded", "failed", "running"},
               e = "action.started" => Claimable(r)
        PROVE  ApprovalInv'
    <3>1. Changes(r, s, e)
      BY <2>2, <1>t, RecordChanges
    <3>2. \A q \in Procs, x \in Requests :
            pc'[q] = "expire" /\ call'[q].req = x => HasApproval(x)
      BY <1>t, <2>2, MovesExpire
    <3>3. IsClass(r, "C") /\ Claimable(r) => HasApproval(r)
      BY <1>t DEF ApprovalInv, Claimable
    <3> QED
      BY <1>t, <2>2, <3>1, <3>2, <3>3, ApprovalKept DEF ApprovalInv, Changes
  <2>s. /\ {"approval_expired", "succeeded", "failed", "running", "approved", "rejected"}
             \subseteq Statuses
        /\ {"action.approval_expired", "action.succeeded", "action.failed", "action.started",
            "approval.approved", "approval.rejected", "approval.expired"}
             \subseteq EventTypes
    BY DEF Statuses, EventTypes
  <2>3. CASE Exists(r) /\ r = call[p].req /\ MovesTo(p, "idle")
             /\ (\/ ExecuteExpirePending(p) /\ StillPending(r)
                 \/ ExecuteExpire(p) \/ ExecuteFinish(p))
    <3>1. \/ Record(r, "approval_expired", "action.approval_expired")
          \/ Record(r, "succeeded", "action.succeeded")
          \/ Record(r, "failed", "action.failed")
      BY <2>3 DEF ExecuteExpirePending, ExecuteExpire, ExecuteFinish
    <3>2. UNCHANGED approvals
      BY <2>3 DEF ExecuteExpirePending, ExecuteExpire, ExecuteFinish
    <3> QED
      BY <2>2, <2>3, <2>s, <3>1, <3>2
  <2>4. CASE /\ Exists(r) /\ r = call[p].req /\ MovesTo(p, "run") /\ call'[p] = call[p]
             /\ ExecuteClaim(p) /\ Claimable(r)
    <3>1. Record(r, "running", "action.started") /\ UNCHANGED approvals
      BY <2>4 DEF ExecuteClaim
    <3> QED
      BY <2>2, <2>4, <2>s, <3>1
  <2>5. CASE /\ Exists(r) /\ r = call[p].req /\ MovesTo(p, "finish") /\ call'[p] = call[p]
             /\ ExecuteRun(p)
    <3>1. actions' = actions /\ log' = log /\ approvals' = approvals
      BY <2>5 DEF ExecuteRun, db
    <3>2. \A x \in Requests : /\ Claimed(x)' <=> Claimed(x)
                              /\ IsClass(x, "C")' <=> IsClass(x, "C")
      BY <3>1 DEF Claimed, IsClass, Exists
    <3>3. \A q \in Procs, x \in Requests :
            pc'[q] = "expire" /\ call'[q].req = x => HasApproval(x)
      BY <1>t, <2>5, MovesExpire
    <3> QED
      BY <1>t, <3>1, <3>2, <3>3, ApprovalKept DEF ApprovalInv
  <2>6. ASSUME NEW a \in Actors, NEW q \in DecisionIds, NEW e \in DecisionIds \cup {Nobody},
               NEW v \in {"approve", "reject"}, MovesTo(p, "idle"),
               DecideCommit(p, r, a, q, e, v)
        PROVE  ApprovalInv'
    <3>1. /\ Exists(r) /\ IsClass(r, "C") /\ actions[r].status = "pending_approval"
          /\ a \in Approvers /\ a # actions[r].by /\ Prior(q, e) = {}
      BY <2>6 DEF DecideCommit, MayDecide
    <3>2. CASE UNCHANGED approvals /\ Record(r, "approval_expired", "approval.expired")
      BY <2>2, <2>6, <2>s, <3>1, <3>2
    <3>3. CASE /\ actions[r].deadline > call[p].at
               /\ approvals' = approvals \cup
                    {[request |-> q, source |-> e, action |-> r, actor |-> a,
                      decision |-> v, created |-> call[p].at,
                      expires |-> actions[r].deadline]}
               /\ IF v = "approve" THEN Record(r, "approved", "approval.approved")
                                   ELSE Record(r, "rejected", "approval.rejected")
      <4> DEFINE new == [request |-> q, source |-> e, action |-> r, actor |-> a,
                         decision |-> v, created |-> call[p].at,
                         expires |-> actions[r].deadline]
      <4>1. /\ new.request = q /\ new.source = e /\ new.action = r /\ new.actor = a
            /\ new.decision = v /\ new.created < new.expires
        <5>1. call[p].at \in Nat /\ actions[r].deadline \in Nat
          BY <1>t, <3>1, RowExists DEF TypeOK, Call, Row
        <5> QED
          BY <3>3, <5>1
      <4>2. PICK n : n = new
        OBVIOUS
      <4>3. /\ n.request = q /\ n.source = e /\ n.action = r /\ n.actor = a
            /\ n.decision = v /\ n.created < n.expires
            /\ approvals' = approvals \cup {n}
        BY <3>3, <4>1, <4>2
      <4> HIDE DEF new
      <4>4. \A d \in approvals : /\ d.action # r
                                 /\ d.request # q
                                 /\ e # Nobody => d.source # e
        <5>1. \A d \in approvals : d.action # r
          BY <1>t, <3>1 DEF ApprovalInv
        <5> QED
          BY <3>1, <5>1 DEF Prior
      <4>5. OneDecision'
        <5>1. OneDecision
          BY <1>t DEF ApprovalInv
        <5>2. ASSUME NEW d \in approvals
              PROVE  /\ d.action # n.action
                     /\ d.request # n.request
                     /\ ~(d.source = n.source /\ n.source # Nobody)
          <6>1. /\ d.action # r
                /\ d.request # q
                /\ e # Nobody => d.source # e
            BY <4>4
          <6>2. n.request = q /\ n.source = e /\ n.action = r
            BY <4>3
          <6> QED
            BY <6>1, <6>2
        <5>3. ASSUME NEW d1 \in approvals', NEW d2 \in approvals',
                     \/ d1.action = d2.action
                     \/ d1.request = d2.request
                     \/ d1.source = d2.source /\ d1.source # Nobody
              PROVE  d1 = d2
          <6>1. CASE d1 \in approvals /\ d2 \in approvals
            BY <5>1, <5>3, <6>1 DEF OneDecision
          <6>2. CASE d1 = n \/ d2 = n
            BY <4>3, <5>2, <5>3, <6>2
          <6> QED
            BY <4>3, <6>1, <6>2
        <5> QED
          BY <5>3 DEF OneDecision
      <4>6. PICK s \in {"approved", "rejected"} :
              /\ s = IF v = "approve" THEN "approved" ELSE "rejected"
              /\ \E ev \in EventTypes \ {"action.started"} : Changes(r, s, ev)
        BY <1>t, <3>1, <3>3, <2>s, RecordChanges
      <4>7. \A x \in Requests :
              /\ actions'[x].status = IF x = r THEN s ELSE actions[x].status
              /\ actions'[x].by = actions[x].by
              /\ IsClass(x, "C")' <=> IsClass(x, "C")
              /\ Claimed(x)' <=> Claimed(x)
        BY <4>6 DEF Changes
      <4>8. \A d \in approvals', x \in Requests : d.action = x =>
              /\ IsClass(x, "C")'
              /\ actions'[x].status # "pending_approval"
              /\ d.actor \in Approvers
              /\ d.actor # actions'[x].by
              /\ d.created < d.expires
        BY <1>t, <3>1, <4>3, <4>6, <4>7 DEF ApprovalInv
      <4>9. \A x \in Requests : /\ HasApproval(x) => HasApproval(x)'
                                /\ v = "approve" /\ x = r => HasApproval(x)'
        BY <4>3 DEF Approved, HasApproval
      <4>10. ~Claimed(r)
        BY <1>t, <3>1 DEF StartInv
      <4>11. ASSUME NEW x \in Requests, IsClass(x, "C")',
                    actions'[x].status = "approved" \/ Claimed(x)'
             PROVE  HasApproval(x)'
        <5>1. CASE x = r
          <6>1. s = "approved"
            BY <4>7, <4>10, <4>11, <5>1
          <6> QED
            BY <4>6, <4>9, <5>1, <6>1
        <5>2. CASE x # r
          <6>1. IsClass(x, "C") /\ (actions[x].status = "approved" \/ Claimed(x))
            BY <4>7, <4>11, <5>2
          <6>2. HasApproval(x)
            BY <1>t, <6>1 DEF ApprovalInv
          <6> QED
            BY <4>9, <6>2
        <5> QED
          BY <5>1, <5>2
      <4>12. \A x \in Requests : actions'[x].status = "rejected" =>
               \E d \in approvals' : d.action = x /\ d.decision = "reject"
        BY <1>t, <4>3, <4>6, <4>7 DEF ApprovalInv
      <4>13. \A x \in Requests : IsClass(x, "C")' =>
               actions'[x].status \notin {"authorized", "budget_exhausted"}
        BY <1>t, <4>6, <4>7 DEF ApprovalInv
      <4>14. \A y \in Procs, x \in Requests :
               pc'[y] = "expire" /\ call'[y].req = x => HasApproval(x)'
        <5>1. \A y \in Procs, x \in Requests :
                pc'[y] = "expire" /\ call'[y].req = x => HasApproval(x)
          BY <1>t, <2>6, MovesExpire
        <5> QED
          BY <4>9, <5>1
      <4> QED
        BY <4>5, <4>8, <4>11, <4>12, <4>13, <4>14 DEF ApprovalInv
    <3> QED
      BY <2>6, <3>2, <3>3 DEF DecideCommit
  <2> QED
    BY <1>3, <2>1, <2>3, <2>4, <2>5, <2>6 DEF Effect
<1> QED
  BY <1>t, <1>1, <1>2, <1>3, StepCases

LEMMA NextIInv == ASSUME IInv, [Next]_vars PROVE IInv'
<1>1. TInv'
  BY NextTInv DEF IInv
<1> QED
  BY <1>1, NextStartInv, NextApprovalInv DEF IInv

-----------------------------------------------------------------------------
(* The safety properties.                                                  *)

\* However many callers, retries, crashes and restarts there are, the helper
\* of an action runs at most once and only after the claim was audited.
THEOREM AtMostOnce == Spec => []HelperRunsAtMostOnce
<1>1. IInv => HelperRunsAtMostOnce
  <2> SUFFICES ASSUME IInv, NEW r \in Requests
               PROVE  Len(launches[r]) <= 1 /\ (Len(launches[r]) > 0 => Claimed(r))
    BY DEF HelperRunsAtMostOnce
  <2>1. Len(launches[r]) <= 1 /\ (launches[r] = << >> \/ Claimed(r))
    BY DEF IInv, StartInv
  <2> QED
    BY <2>1
<1>2. IInv /\ [Next]_vars => IInv'
  BY NextIInv
<1> QED
  BY InitIInv, <1>1, <1>2, PTL DEF Spec

\* A class C action starts only with the approval of an allowlisted person who
\* is not its requester, given before the deadline of the request.
THEOREM HumanApproval == Spec => []ClassCNeedsHuman
<1>1. IInv => ClassCNeedsHuman
  <2> SUFFICES ASSUME IInv, NEW r \in Requests, Claimed(r), IsClass(r, "C")
               PROVE  \E d \in Approved(r) : /\ d.actor \in Approvers
                                             /\ d.actor # actions[r].by
                                             /\ d.created < d.expires
    BY DEF ClassCNeedsHuman
  <2>1. PICK d \in Approved(r) : TRUE
    BY DEF IInv, ApprovalInv, HasApproval
  <2>2. d \in approvals /\ d.action = r
    BY DEF Approved
  <2> QED
    BY <2>1, <2>2 DEF IInv, ApprovalInv
<1>2. IInv /\ [Next]_vars => IInv'
  BY NextIInv
<1> QED
  BY InitIInv, <1>1, <1>2, PTL DEF Spec

\* Decisions are not duplicated: one for an action, one for a source event,
\* one for a decision request id.
THEOREM DecidedOnce == Spec => []OneDecision
<1>1. IInv => OneDecision
  BY DEF IInv, ApprovalInv
<1>2. IInv /\ [Next]_vars => IInv'
  BY NextIInv
<1> QED
  BY InitIInv, <1>1, <1>2, PTL DEF Spec

\* A rejection and an exhausted budget are final: no thread that read the row
\* before, no late caller and no restart writes the row again.
LEMMA RefusedStays ==
  ASSUME IInv, [Next]_vars, NEW x \in Requests,
         actions[x].status \in {"rejected", "budget_exhausted"}
  PROVE  actions'[x] = actions[x]
<1>t. TInv /\ TypeOK /\ StartInv /\ ApprovalInv
  BY DEF IInv, TInv
<1>1. CASE Quiet
  BY <1>1 DEF Quiet
<1>2. ASSUME NEW p \in Procs, StartProcess(p) PROVE actions'[x] = actions[x]
  BY <1>t, <1>2, RestartChanges
<1>3. ASSUME NEW p \in Procs, NEW r \in Requests, Effect(p, r)
      PROVE  actions'[x] = actions[x]
  <2>1. ASSUME NEW s, NEW e, Record(r, s, e), x # r PROVE actions'[x] = actions[x]
    BY <2>1, <1>t DEF Record, TypeOK
  <2>2. CASE RequestInsert(p) /\ r = call[p].req
    <3>1. ~Exists(r) /\ \A q \in Requests \ {r} : actions'[q] = actions[q]
      BY <1>t, <2>2, InsertChanges
    <3>2. x # r
      BY <3>1 DEF Exists
    <3> QED
      BY <3>1, <3>2
  <2>3. CASE ExecuteExpirePending(p) /\ StillPending(r) /\ r = call[p].req
    BY <2>1, <2>3 DEF ExecuteExpirePending, StillPending
  <2>4. CASE ExecuteExpire(p) /\ r = call[p].req
    <3>1. PICK d \in approvals : d.action = r /\ d.decision = "approve"
      BY <1>t, <2>4 DEF ExecuteExpire, ApprovalInv, HasApproval, Approved
    <3>2. IsClass(r, "C")
      BY <1>t, <3>1 DEF ApprovalInv
    <3>3. actions[r].status # "budget_exhausted"
      BY <1>t, <3>2 DEF ApprovalInv
    <3>4. actions[r].status # "rejected"
      <4>1. ~\E c \in approvals : c.action = r /\ c.decision = "reject"
        BY <1>t, <3>1 DEF ApprovalInv, OneDecision
      <4> QED
        BY <1>t, <4>1 DEF ApprovalInv
    <3>5. x # r
      BY <3>3, <3>4
    <3> QED
      BY <2>1, <2>4, <3>5 DEF ExecuteExpire
  <2>5. CASE ExecuteFinish(p) /\ r = call[p].req
    <3>1. Claimed(r)
      BY <1>t, <2>5 DEF ExecuteFinish, StartInv, Inside
    <3>2. x # r
      BY <1>t, <3>1 DEF StartInv
    <3> QED
      BY <2>1, <2>5, <3>2 DEF ExecuteFinish
  <2>6. CASE ExecuteClaim(p) /\ Claimable(r) /\ r = call[p].req
    BY <2>1, <2>6 DEF ExecuteClaim, Claimable
  <2>7. CASE ExecuteRun(p)
    BY <2>7 DEF ExecuteRun, db
  <2>8. ASSUME NEW a \in Actors, NEW q \in DecisionIds, NEW e \in DecisionIds \cup {Nobody},
               NEW v \in {"approve", "reject"}, DecideCommit(p, r, a, q, e, v)
        PROVE  actions'[x] = actions[x]
    BY <2>1, <2>8 DEF DecideCommit, MayDecide
  <2> QED
    BY <1>3, <2>2, <2>3, <2>4, <2>5, <2>6, <2>7, <2>8 DEF Effect
<1> QED
  BY <1>t, <1>1, <1>2, <1>3, StepCases

\* A refused action keeps its row for ever: the action property of the runs.
THEOREM RefusalIsFinal == Spec => RefusalsAreFinal
<1>1. IInv /\ [Next]_vars =>
        [\A r \in Requests :
           actions[r].status \in {"rejected", "budget_exhausted"} =>
             actions'[r] = actions[r]]_vars
  BY RefusedStays
<1>2. IInv /\ [Next]_vars => IInv'
  BY NextIInv
<1> QED
  BY InitIInv, <1>1, <1>2, PTL DEF Spec, RefusalsAreFinal

-----------------------------------------------------------------------------
(* The broker implements ActionGate: every step maps to a step of the gate  *)
(* on the request it is about, or changes nothing the gate sees.            *)

\* What the gate sees of request r changes from one state to the next as its
\* phase becomes f, its human flag h, its owner o and its approver a.
Becomes(r, f, h, o, a) ==
  /\ PhaseOf(r)' = f
  /\ IsClass(r, "C")' = h
  /\ actions'[r].by = o
  /\ ApproverOf(r)' = a

Unseen(r) == Becomes(r, PhaseOf(r), IsClass(r, "C"), actions[r].by, ApproverOf(r))

LEMMA UnseenStutters ==
  ASSUME \A q \in Requests : Unseen(q)
  PROVE  UNCHANGED Gate!gateVars
BY DEF Unseen, Becomes, Gate!gateVars

\* The steps of the gate, told by what the request they are about becomes.
LEMMA ClosesIt ==
  ASSUME NEW r \in Requests, PhaseOf(r) \in {"waiting", "granted"},
         Becomes(r, "closed", IsClass(r, "C"), actions[r].by, ApproverOf(r)),
         \A q \in Requests \ {r} : Unseen(q)
  PROVE  Gate!GateNext
<1>1. [q \in Requests |-> PhaseOf(q)]' =
        [[q \in Requests |-> PhaseOf(q)] EXCEPT ![r] = "closed"]
  BY DEF Becomes, Unseen
<1>2. [q \in Requests |-> IsClass(q, "C")]' = [q \in Requests |-> IsClass(q, "C")]
  BY DEF Becomes, Unseen
<1>3. [q \in Requests |-> actions[q].by]' = [q \in Requests |-> actions[q].by]
  BY DEF Becomes, Unseen
<1>4. [q \in Requests |-> ApproverOf(q)]' = [q \in Requests |-> ApproverOf(q)]
  BY DEF Becomes, Unseen
<1>5. Gate!Close(r)
  BY <1>1, <1>2, <1>3, <1>4 DEF Gate!Close
<1> QED
  BY <1>5 DEF Gate!GateNext

LEMMA PassesIt ==
  ASSUME NEW r \in Requests, PhaseOf(r) = "granted",
         Becomes(r, "passed", IsClass(r, "C"), actions[r].by, ApproverOf(r)),
         \A q \in Requests \ {r} : Unseen(q)
  PROVE  Gate!GateNext
<1>1. [q \in Requests |-> PhaseOf(q)]' =
        [[q \in Requests |-> PhaseOf(q)] EXCEPT ![r] = "passed"]
  BY DEF Becomes, Unseen
<1>2. [q \in Requests |-> IsClass(q, "C")]' = [q \in Requests |-> IsClass(q, "C")]
  BY DEF Becomes, Unseen
<1>3. [q \in Requests |-> actions[q].by]' = [q \in Requests |-> actions[q].by]
  BY DEF Becomes, Unseen
<1>4. [q \in Requests |-> ApproverOf(q)]' = [q \in Requests |-> ApproverOf(q)]
  BY DEF Becomes, Unseen
<1>5. Gate!Pass(r)
  BY <1>1, <1>2, <1>3, <1>4 DEF Gate!Pass
<1> QED
  BY <1>5 DEF Gate!GateNext

LEMMA GrantsIt ==
  ASSUME NEW r \in Requests, NEW a \in Approvers, PhaseOf(r) = "waiting",
         a # actions[r].by,
         Becomes(r, "granted", IsClass(r, "C"), actions[r].by, a),
         \A q \in Requests \ {r} : Unseen(q)
  PROVE  Gate!GateNext
<1>1. [q \in Requests |-> PhaseOf(q)]' =
        [[q \in Requests |-> PhaseOf(q)] EXCEPT ![r] = "granted"]
  BY DEF Becomes, Unseen
<1>2. [q \in Requests |-> ApproverOf(q)]' =
        [[q \in Requests |-> ApproverOf(q)] EXCEPT ![r] = a]
  BY DEF Becomes, Unseen
<1>3. [q \in Requests |-> IsClass(q, "C")]' = [q \in Requests |-> IsClass(q, "C")]
  BY DEF Becomes, Unseen
<1>4. [q \in Requests |-> actions[q].by]' = [q \in Requests |-> actions[q].by]
  BY DEF Becomes, Unseen
<1>5. Gate!Grant(r, a)
  BY <1>1, <1>2, <1>3, <1>4 DEF Gate!Grant
<1> QED
  BY <1>5 DEF Gate!GateNext

LEMMA AsksIt ==
  ASSUME NEW r \in Requests, NEW o \in Actors, NEW h \in BOOLEAN, PhaseOf(r) = "none",
         NEW f \in (IF h THEN {"waiting"} ELSE {"granted", "closed"}),
         Becomes(r, f, h, o, ApproverOf(r)),
         \A q \in Requests \ {r} : Unseen(q)
  PROVE  Gate!GateNext
<1>1. [q \in Requests |-> PhaseOf(q)]' =
        [[q \in Requests |-> PhaseOf(q)] EXCEPT ![r] = f]
  BY DEF Becomes, Unseen
<1>2. [q \in Requests |-> IsClass(q, "C")]' =
        [[q \in Requests |-> IsClass(q, "C")] EXCEPT ![r] = h]
  BY DEF Becomes, Unseen
<1>3. [q \in Requests |-> actions[q].by]' =
        [[q \in Requests |-> actions[q].by] EXCEPT ![r] = o]
  BY DEF Becomes, Unseen
<1>4. [q \in Requests |-> ApproverOf(q)]' = [q \in Requests |-> ApproverOf(q)]
  BY DEF Becomes, Unseen
<1>5. Gate!Ask(r, o, h)
  BY <1>1, <1>2, <1>3, <1>4 DEF Gate!Ask
<1> QED
  BY <1>5 DEF Gate!GateNext

LEMMA ApproverSame ==
  ASSUME NEW q \in Requests, Approved(q)' = Approved(q)
  PROVE  ApproverOf(q)' = ApproverOf(q)
BY DEF ApproverOf

\* What the gate sees of a request follows from its status, its start and its
\* approval.
LEMMA SeenSame ==
  ASSUME NEW q \in Requests, actions'[q].status = actions[q].status \/ Claimed(q),
         actions'[q].by = actions[q].by, IsClass(q, "C")' <=> IsClass(q, "C"),
         Claimed(q)' <=> Claimed(q), Approved(q)' = Approved(q)
  PROVE  Unseen(q)
<1>1. PhaseOf(q)' = PhaseOf(q)
  BY DEF PhaseOf
<1>2. IsClass(q, "C")' = IsClass(q, "C")
  BY DEF IsClass
<1> QED
  BY <1>1, <1>2, ApproverSame DEF Unseen, Becomes

LEMMA OthersUnseen ==
  ASSUME NEW r \in Requests, NEW s, NEW e, Changes(r, s, e),
         \A q \in Requests \ {r} : Approved(q)' = Approved(q)
  PROVE  \A q \in Requests \ {r} : Unseen(q)
BY SeenSame DEF Changes

\* The row of an existing action takes status s under the gate's phase f.
LEMMA RowBecomes ==
  ASSUME NEW r \in Requests, NEW s, NEW e, Changes(r, s, e), ~Claimed(r),
         NEW f,
         \/ e = "action.started" /\ f = "passed"
         \/ e # "action.started" /\ s \in {"authorized", "approved"} /\ f = "granted"
         \/ e # "action.started" /\ f = "closed"
            /\ s \in {"approval_expired", "rejected", "succeeded", "failed"}
  PROVE  Becomes(r, f, IsClass(r, "C"), actions[r].by, ApproverOf(r)')
<1>1. PhaseOf(r)' = f
  BY DEF Changes, PhaseOf
<1>2. IsClass(r, "C")' = IsClass(r, "C")
  BY DEF IsClass, Changes
<1> QED
  BY <1>1, <1>2 DEF Changes, Becomes

\* A record of an expiry, a refusal or a result closes the request, unless its
\* action was let through before.
LEMMA RecordMaps ==
  ASSUME TypeOK, NEW r \in Requests, Exists(r), NEW s \in Statuses, NEW e \in EventTypes,
         Record(r, s, e), e # "action.started",
         s \in {"approval_expired", "rejected", "succeeded", "failed"},
         \A q \in Requests : Approved(q)' = Approved(q)
  PROVE  Gate!GateNext \/ UNCHANGED Gate!gateVars
<1>1. Changes(r, s, e)
  BY RecordChanges
<1>2. \A q \in Requests \ {r} : Unseen(q)
  BY <1>1, OthersUnseen
<1>3. ApproverOf(r)' = ApproverOf(r)
  BY ApproverSame
<1>4. CASE Claimed(r)
  <2>1. Unseen(r)
    BY <1>1, <1>4, SeenSame DEF Changes
  <2> QED
    BY <1>2, <2>1, UnseenStutters
<1>5. CASE ~Claimed(r)
  <2>1. Becomes(r, "closed", IsClass(r, "C"), actions[r].by, ApproverOf(r))
    BY <1>1, <1>3, <1>5, RowBecomes
  <2>2. PhaseOf(r) \in {"waiting", "granted", "closed"}
    BY <1>5 DEF PhaseOf, Exists
  <2>3. CASE PhaseOf(r) \in {"waiting", "granted"}
    BY <1>2, <2>1, <2>3, ClosesIt
  <2>4. CASE PhaseOf(r) = "closed"
    <3>1. Unseen(r)
      BY <2>1, <2>4 DEF Unseen
    <3> QED
      BY <1>2, <3>1, UnseenStutters
  <2> QED
    BY <2>2, <2>3, <2>4
<1> QED
  BY <1>4, <1>5

\* A decision grants or closes a waiting request.
LEMMA DecideMaps ==
  ASSUME IInv, NEW p \in Procs, NEW r \in Requests, NEW a \in Actors, NEW q \in DecisionIds,
         NEW e \in DecisionIds \cup {Nobody}, NEW v \in {"approve", "reject"},
         DecideCommit(p, r, a, q, e, v)
  PROVE  Gate!GateNext \/ UNCHANGED Gate!gateVars
<1>t. TypeOK /\ StartInv /\ ApprovalInv
  BY DEF IInv, TInv
<1>1. /\ Exists(r) /\ actions[r].status = "pending_approval"
      /\ a \in Approvers /\ a # actions[r].by
  BY DEF DecideCommit, MayDecide
<1>2. ~Claimed(r) /\ \A d \in approvals : d.action # r
  BY <1>t, <1>1 DEF StartInv, ApprovalInv
<1>3. /\ {"approval_expired", "approved", "rejected"} \subseteq Statuses
      /\ {"approval.expired", "approval.approved", "approval.rejected"} \subseteq EventTypes
  BY DEF Statuses, EventTypes
<1>4. CASE UNCHANGED approvals /\ Record(r, "approval_expired", "approval.expired")
  <2>1. \A x \in Requests : Approved(x)' = Approved(x)
    BY <1>4 DEF Approved
  <2> QED
    BY <1>t, <1>1, <1>3, <1>4, <2>1, RecordMaps
<1>5. CASE /\ approvals' = approvals \cup
                {[request |-> q, source |-> e, action |-> r, actor |-> a,
                  decision |-> v, created |-> call[p].at,
                  expires |-> actions[r].deadline]}
           /\ IF v = "approve" THEN Record(r, "approved", "approval.approved")
                               ELSE Record(r, "rejected", "approval.rejected")
  <2>1. PICK n : /\ n.action = r /\ n.actor = a /\ n.decision = v
                 /\ approvals' = approvals \cup {n}
    BY <1>5
  <2>2. \A x \in Requests \ {r} : Approved(x)' = Approved(x)
    BY <2>1 DEF Approved
  <2>3. CASE v = "approve"
    <3>1. Changes(r, "approved", "approval.approved")
      BY <1>t, <1>1, <1>3, <1>5, <2>3, RecordChanges
    <3>2. Approved(r)' = {n}
      BY <1>2, <2>1, <2>3 DEF Approved
    <3>3. ApproverOf(r)' = a
      BY <2>1, <3>2 DEF ApproverOf
    <3>4. Becomes(r, "granted", IsClass(r, "C"), actions[r].by, a)
      BY <1>2, <3>1, <3>3, RowBecomes
    <3>5. \A x \in Requests \ {r} : Unseen(x)
      BY <2>2, <3>1, OthersUnseen
    <3>6. PhaseOf(r) = "waiting"
      BY <1>1, <1>2 DEF PhaseOf
    <3> QED
      BY <1>1, <3>4, <3>5, <3>6, GrantsIt
  <2>4. CASE v # "approve"
    <3>1. Approved(r)' = Approved(r)
      BY <2>1, <2>4 DEF Approved
    <3>2. Record(r, "rejected", "approval.rejected")
      BY <1>5, <2>4
    <3> QED
      BY <1>t, <1>1, <1>3, <2>2, <3>1, <3>2, RecordMaps
  <2> QED
    BY <2>3, <2>4
<1> QED
  BY <1>4, <1>5 DEF DecideCommit

\* Every step of the broker is a step of the gate or nothing it sees.
LEMMA NextMaps ==
  ASSUME IInv, [Next]_vars
  PROVE  Gate!GateNext \/ UNCHANGED Gate!gateVars
<1>t. TInv /\ TypeOK /\ StartInv /\ ApprovalInv
  BY DEF IInv, TInv
<1>a. UNCHANGED approvals => \A q \in Requests : Approved(q)' = Approved(q)
  BY DEF Approved
<1>1. CASE UNCHANGED <<actions, approvals, log>>
  <2>1. \A q \in Requests : Unseen(q)
    BY <1>a, <1>1, SeenSame DEF Claimed, IsClass, Exists
  <2> QED
    BY <2>1, UnseenStutters
<1>2. ASSUME NEW p \in Procs, StartProcess(p) PROVE UNCHANGED Gate!gateVars
  <2>1. UNCHANGED approvals
    BY <1>2 DEF StartProcess
  <2>2. ASSUME NEW q \in Requests PROVE Unseen(q)
    <3>1. actions'[q].status = actions[q].status \/ Claimed(q)
      BY <1>2, <1>t, RestartChanges DEF StartInv
    <3> QED
      BY <1>2, <1>a, <1>t, <2>1, <3>1, RestartChanges, SeenSame
  <2> QED
    BY <2>2, UnseenStutters
<1>3. ASSUME NEW p \in Procs, NEW r \in Requests, Effect(p, r)
      PROVE  Gate!GateNext \/ UNCHANGED Gate!gateVars
  <2>s. /\ {"approval_expired", "succeeded", "failed", "running"} \subseteq Statuses
        /\ {"action.approval_expired", "action.succeeded", "action.failed", "action.started"}
             \subseteq EventTypes
    BY DEF Statuses, EventTypes
  <2>1. CASE RequestInsert(p) /\ r = call[p].req
    <3>1. UNCHANGED approvals
      BY <2>1 DEF RequestInsert
    <3>2. /\ ~Exists(r)
          /\ \A q \in Requests \ {r} : actions'[q] = actions[q] /\ log'[q] = log[q]
          /\ actions'[r].status \in {"authorized", "budget_exhausted", "pending_approval"}
          /\ actions'[r].by \in Actors
          /\ IsClass(r, "C")' <=> actions'[r].status = "pending_approval"
          /\ ~Claimed(r)'
      BY <1>t, <2>1, InsertChanges
    <3>3. \A q \in Requests \ {r} : Unseen(q)
      BY <1>a, <3>1, <3>2, SeenSame DEF Claimed, IsClass, Exists
    <3>4. ApproverOf(r)' = ApproverOf(r)
      BY <1>a, <3>1, ApproverSame
    <3>5. PhaseOf(r) = "none"
      BY <1>t, <3>2 DEF PhaseOf, Exists, StartInv
    <3>6. PICK h \in BOOLEAN : h = IsClass(r, "C")'
      BY DEF IsClass
    <3>7. PhaseOf(r)' \in (IF h THEN {"waiting"} ELSE {"granted", "closed"})
      BY <3>2, <3>6 DEF PhaseOf
    <3>8. Becomes(r, PhaseOf(r)', h, actions'[r].by, ApproverOf(r))
      BY <3>4, <3>6 DEF Becomes
    <3> QED
      BY <3>2, <3>3, <3>5, <3>7, <3>8, AsksIt
  <2>2. CASE Exists(r) /\ r = call[p].req
             /\ (\/ ExecuteExpirePending(p) /\ StillPending(r)
                 \/ ExecuteExpire(p) \/ ExecuteFinish(p))
    <3>1. UNCHANGED approvals
      BY <2>2 DEF ExecuteExpirePending, ExecuteExpire, ExecuteFinish
    <3>2. \/ Record(r, "approval_expired", "action.approval_expired")
          \/ Record(r, "succeeded", "action.succeeded")
          \/ Record(r, "failed", "action.failed")
      BY <2>2 DEF ExecuteExpirePending, ExecuteExpire, ExecuteFinish
    <3> QED
      BY <1>a, <1>t, <2>2, <2>s, <3>1, <3>2, RecordMaps
  <2>3. CASE Exists(r) /\ r = call[p].req /\ ExecuteClaim(p) /\ Claimable(r)
    <3>1. UNCHANGED approvals /\ Record(r, "running", "action.started")
      BY <2>3 DEF ExecuteClaim
    <3>2. Changes(r, "running", "action.started")
      BY <1>t, <2>3, <2>s, <3>1, RecordChanges
    <3>3. ~Claimed(r)
      BY <1>t, <2>3 DEF StartInv, Claimable
    <3>4. PhaseOf(r) = "granted"
      BY <2>3, <3>3 DEF PhaseOf, Claimable
    <3>5. ApproverOf(r)' = ApproverOf(r)
      BY <1>a, <3>1, ApproverSame
    <3>6. Becomes(r, "passed", IsClass(r, "C"), actions[r].by, ApproverOf(r))
      BY <3>2, <3>3, <3>5, RowBecomes
    <3>7. \A q \in Requests \ {r} : Unseen(q)
      BY <1>a, <3>1, <3>2, OthersUnseen
    <3> QED
      BY <3>4, <3>6, <3>7, PassesIt
  <2>4. CASE ExecuteRun(p)
    BY <1>1, <2>4 DEF ExecuteRun, db
  <2> QED
    BY <1>3, <2>1, <2>2, <2>3, <2>4, DecideMaps DEF Effect
<1> QED
  BY <1>t, <1>1, <1>2, <1>3, StepCases DEF Quiet

\* The broker implements the gate, for every set of processes, requests and
\* people: an action is let through at most once and only from a grant, and a
\* class C grant is an allowlisted person's who did not ask for it.
THEOREM BrokerImplementsGate == Spec => ImplementsGate
<1>1. Init => Gate!GateInit
  <2> SUFFICES ASSUME Init PROVE Gate!GateInit
    OBVIOUS
  <2>1. ASSUME NEW r \in Requests
        PROVE  /\ PhaseOf(r) = "none"
               /\ IsClass(r, "C") = FALSE
               /\ actions[r].by = Nobody
               /\ ApproverOf(r) = Nobody
    <3>1. actions[r] = NoRow /\ log[r] = << >> /\ approvals = {}
      BY DEF Init
    <3>2. ~Claimed(r) /\ Approved(r) = {}
      BY <3>1 DEF Claimed, Approved
    <3> QED
      BY <3>1, <3>2 DEF PhaseOf, ApproverOf, IsClass, Exists, NoRow
  <2> QED
    BY <2>1 DEF Gate!GateInit
<1>2. IInv /\ [Next]_vars => [Gate!GateNext]_(Gate!gateVars)
  BY NextMaps
<1>3. IInv /\ [Next]_vars => IInv'
  BY NextIInv
<1> QED
  BY InitIInv, <1>1, <1>2, <1>3, PTL DEF Spec, ImplementsGate, Gate!GateSpec

-----------------------------------------------------------------------------
(* The budget                                                              *)

\* The reservations of k whose instants are in the window that starts at t.
InWindow(k, t) == {u \in usage : u.key = k /\ t <= u.at /\ u.at <= t + Window}

BudgetInv == TInv /\ IsFiniteSet(usage) /\ BudgetHolds

\* A step leaves the reservations alone, or adds one where the window that ends
\* at its instant has room.
LEMMA UsageStep ==
  ASSUME TInv, [Next]_vars
  PROVE  \/ usage' = usage
         \/ \E k \in Runbooks, r \in Requests, t \in Nat :
              /\ Cardinality(Used(k, t)) < MaxAttempts
              /\ usage' = usage \cup {[key |-> k, action |-> r, at |-> t]}
<1>1. CASE Quiet
  BY <1>1 DEF Quiet
<1>2. CASE \E p \in Procs : StartProcess(p)
  BY <1>2 DEF StartProcess
<1>3. ASSUME NEW p \in Procs, NEW r \in Requests, Effect(p, r), ~RequestInsert(p)
      PROVE  usage' = usage
  BY <1>3 DEF Effect, ExecuteExpirePending, ExecuteExpire, ExecuteFinish, ExecuteClaim,
              ExecuteRun, DecideCommit, db
<1>4. ASSUME NEW p \in Procs, RequestInsert(p)
      PROVE  \/ usage' = usage
             \/ \E k \in Runbooks, r \in Requests, t \in Nat :
                  /\ Cardinality(Used(k, t)) < MaxAttempts
                  /\ usage' = usage \cup {[key |-> k, action |-> r, at |-> t]}
  <2>1. call[p].runbook \in Runbooks /\ call[p].req \in Requests /\ call[p].at \in Nat
    BY <1>4 DEF RequestInsert, TInv, CallOK, TypeOK, Call
  <2>2. \/ usage' = usage
        \/ /\ Cardinality(Used(call[p].runbook, call[p].at)) < MaxAttempts
           /\ usage' = usage \cup {[key |-> call[p].runbook, action |-> call[p].req,
                                    at |-> call[p].at]}
    BY <1>4 DEF RequestInsert
  <2> QED
    BY <2>1, <2>2
<1> QED
  BY <1>1, <1>2, <1>3, <1>4, StepCases

\* One element more, at most.
LEMMA OneMore ==
  ASSUME NEW S, IsFiniteSet(S), NEW e
  PROVE  /\ Cardinality(S \cup {e}) \in Nat
         /\ Cardinality(S \cup {e}) <= Cardinality(S) + 1
<1>1. IsFiniteSet(S \cup {e}) /\ Cardinality(S) \in Nat
  BY FS_AddElement, FS_CardinalityType
<1>2. Cardinality(S \cup {e}) \in Nat
  BY <1>1, FS_CardinalityType
<1>3. Cardinality(S \cup {e}) = IF e \in S THEN Cardinality(S) ELSE Cardinality(S) + 1
  BY FS_AddElement
<1> QED
  BY <1>1, <1>2, <1>3

\* A window that takes the new reservation lies in the window that was counted:
\* what it held before is less than the budget.
LEMMA BudgetStep ==
  ASSUME BudgetInv, [Next]_vars
  PROVE  IsFiniteSet(usage)' /\ BudgetHolds'
<1>t. /\ TInv /\ IsFiniteSet(usage) /\ BudgetHolds
      /\ usage \subseteq [key : Runbooks, action : Requests, at : Nat]
  BY DEF BudgetInv, TInv, TypeOK
<1>1. CASE usage' = usage
  BY <1>1, <1>t DEF BudgetHolds
<1>2. ASSUME NEW k \in Runbooks, NEW r \in Requests, NEW t \in Nat,
             Cardinality(Used(k, t)) < MaxAttempts,
             usage' = usage \cup {[key |-> k, action |-> r, at |-> t]}
      PROVE  IsFiniteSet(usage)' /\ BudgetHolds'
  <2> DEFINE u == [key |-> k, action |-> r, at |-> t]
  <2>1. IsFiniteSet(usage')
    BY <1>2, <1>t, FS_AddElement
  <2>2. ASSUME NEW j \in Runbooks, NEW x \in 0 .. MaxTime
        PROVE  Cardinality(InWindow(j, x)') <= MaxAttempts
    <3>1. InWindow(j, x) \subseteq usage /\ IsFiniteSet(InWindow(j, x))
      BY <1>t, FS_Subset DEF InWindow
    <3>2. Cardinality(InWindow(j, x)) <= MaxAttempts
      BY <1>t DEF BudgetHolds, InWindow
    <3>3. CASE ~(j = k /\ x <= t /\ t <= x + Window)
      <4>1. InWindow(j, x)' = InWindow(j, x)
        BY <1>2, <3>3 DEF InWindow
      <4> QED
        BY <3>2, <4>1
    <3>4. CASE j = k /\ x <= t /\ t <= x + Window
      <4>1. InWindow(j, x)' = InWindow(j, x) \cup {u}
        BY <1>2, <3>4 DEF InWindow
      <4>2. InWindow(j, x) \subseteq Used(k, t)
        BY <1>t, <3>4, ConstantsAssumption DEF InWindow, Used
      <4>3. IsFiniteSet(Used(k, t))
        BY <1>t, FS_Subset DEF Used
      <4>4. Cardinality(InWindow(j, x)) <= Cardinality(Used(k, t))
        BY <4>2, <4>3, FS_Subset
      <4>5. /\ Cardinality(InWindow(j, x)') \in Nat
            /\ Cardinality(InWindow(j, x)') <= Cardinality(InWindow(j, x)) + 1
        BY <3>1, <4>1, OneMore
      <4>6. Cardinality(InWindow(j, x)) \in Nat /\ Cardinality(Used(k, t)) \in Nat
        BY <3>1, <4>3, FS_CardinalityType
      <4> QED
        BY <1>2, <4>4, <4>5, <4>6, ConstantsAssumption
    <3> QED
      BY <3>3, <3>4
  <2> QED
    BY <2>1, <2>2 DEF BudgetHolds, InWindow
<1> QED
  BY <1>t, <1>1, <1>2, UsageStep

\* No window of any length and any budget is ever exceeded, however late the
\* transactions of concurrent requests commit after their clock samples.
THEOREM WindowsKeepTheirBudget == Spec => []BudgetHolds
<1>1. Init => BudgetInv
  <2> SUFFICES ASSUME Init PROVE IsFiniteSet(usage) /\ BudgetHolds
    BY InitTInv DEF BudgetInv
  <2>1. usage = {}
    BY DEF Init
  <2>2. \A k \in Runbooks, t \in 0 .. MaxTime :
          {u \in usage : u.key = k /\ t <= u.at /\ u.at <= t + Window} = {}
    BY <2>1
  <2> QED
    BY <2>1, <2>2, FS_EmptySet, ConstantsAssumption DEF BudgetHolds
<1>2. BudgetInv /\ [Next]_vars => BudgetInv'
  BY BudgetStep, NextTInv DEF BudgetInv
<1>3. BudgetInv => BudgetHolds
  BY DEF BudgetInv
<1> QED
  BY <1>1, <1>2, <1>3, PTL DEF Spec

-----------------------------------------------------------------------------
(* The audit log                                                           *)

\* The log of r tells the status of its row.
Tells(r) ==
  /\ Exists(r) <=> log[r] # << >>
  /\ Exists(r) => actions[r].status = StatusAfter(r)

\* The status an event leaves a row in, once the row exists.
EventStatus == {<<"approval_expired", "action.approval_expired">>,
                <<"approval_expired", "approval.expired">>,
                <<"running", "action.started">>,
                <<"succeeded", "action.succeeded">>,
                <<"failed", "action.failed">>,
                <<"failed", "action.interrupted">>,
                <<"approved", "approval.approved">>,
                <<"rejected", "approval.rejected">>}

\* A row and its log that stay as they are.
LEMMA SameTells ==
  ASSUME NEW r \in Requests, Tells(r), actions'[r] = actions[r], log'[r] = log[r]
  PROVE  Tells(r)'
BY DEF Tells, Exists, StatusAfter, IsClass

\* A row that takes the status of the event its log is given.
LEMMA AppendTells ==
  ASSUME TypeOK, NEW r \in Requests, NEW s, NEW e, <<s, e>> \in EventStatus,
         actions'[r].status = s, log'[r] = Append(log[r], e)
  PROVE  Tells(r)'
<1>1. log[r] \in Seq(EventTypes) /\ e \in EventTypes
  BY DEF TypeOK, EventStatus, EventTypes
<1>2. /\ Len(log'[r]) = Len(log[r]) + 1 /\ log'[r] # << >>
      /\ log'[r][Len(log'[r])] = e
  BY <1>1
<1>3. StatusAfter(r)' = s
  BY <1>2 DEF StatusAfter, EventStatus
<1>4. s # "none"
  BY DEF EventStatus
<1> QED
  BY <1>2, <1>3, <1>4 DEF Tells, Exists

\* A transaction that writes a status and its event.
LEMMA RecordTells ==
  ASSUME TypeOK, NEW r \in Requests, NEW s, NEW e, <<s, e>> \in EventStatus,
         Record(r, s, e), \A q \in Requests : Tells(q)
  PROVE  \A q \in Requests : Tells(q)'
<1>1. /\ \A q \in Requests \ {r} : actions'[q] = actions[q] /\ log'[q] = log[q]
      /\ actions'[r].status = s /\ log'[r] = Append(log[r], e)
  BY DEF Record, TypeOK, Row, NoRow
<1> QED
  BY <1>1, SameTells, AppendTells

\* The events of a new row.
LEMMA InsertTells ==
  ASSUME TInv, NEW p \in Procs, RequestInsert(p), \A q \in Requests : Tells(q)
  PROVE  \A q \in Requests : Tells(q)'
<1>0. call[p].req \in Requests /\ call[p].runbook \in Runbooks
  BY DEF RequestInsert, TInv, CallOK, TypeOK, Call
<1>1. PICK r \in Requests : r = call[p].req
  BY <1>0
<1>2. \A q \in Requests \ {r} : actions'[q] = actions[q] /\ log'[q] = log[q]
  BY <1>0, <1>1, InsertChanges
<1>3. Tells(r)'
  <2>1. /\ actions \in [Requests -> Row \cup {NoRow}] /\ log \in [Requests -> Seq(EventTypes)]
        /\ ClassOf[call[p].runbook] \in {"A", "B", "C"}
    BY <1>0, ConstantsAssumption DEF TInv, TypeOK
  <2>2. /\ actions'[r].runbook = call[p].runbook
        /\ \/ /\ ClassOf[call[p].runbook] # "C" /\ actions'[r].status = "authorized"
              /\ \/ log'[r] = <<"action.requested">>
                 \/ log'[r] = <<"action.requested", "action.budget_reserved">>
           \/ /\ actions'[r].status = "budget_exhausted"
              /\ log'[r] = <<"action.requested", "action.denied">>
           \/ /\ ClassOf[call[p].runbook] = "C" /\ actions'[r].status = "pending_approval"
              /\ log'[r] = <<"action.requested">>
    BY <1>1, <2>1 DEF RequestInsert
  <2>3. Exists(r)' /\ (IsClass(r, "C")' <=> ClassOf[call[p].runbook] = "C")
    BY <2>2 DEF Exists, IsClass
  <2>4. CASE log'[r] = <<"action.requested">>
    <3>1. log'[r] # << >> /\ log'[r][Len(log'[r])] = "action.requested"
      BY <2>4
    <3> QED
      BY <2>2, <2>3, <2>4, <3>1 DEF Tells, StatusAfter
  <2>5. CASE log'[r] = <<"action.requested", "action.budget_reserved">>
    <3>1. log'[r] # << >> /\ log'[r][Len(log'[r])] = "action.budget_reserved"
      BY <2>5
    <3> QED
      BY <2>2, <2>3, <2>5, <3>1 DEF Tells, StatusAfter
  <2>6. CASE log'[r] = <<"action.requested", "action.denied">>
    <3>1. log'[r] # << >> /\ log'[r][Len(log'[r])] = "action.denied"
      BY <2>6
    <3> QED
      BY <2>2, <2>3, <2>6, <3>1 DEF Tells, StatusAfter
  <2> QED
    BY <2>2, <2>4, <2>5, <2>6
<1> QED
  <2> SUFFICES ASSUME NEW q \in Requests, q # r PROVE Tells(q)'
    BY <1>3
  <2>1. actions'[q] = actions[q] /\ log'[q] = log[q]
    BY <1>2
  <2> QED
    BY <2>1, SameTells

\* No step parts a row from its log.
LEMMA TellsStep ==
  ASSUME TInv, [Next]_vars, \A r \in Requests : Tells(r)
  PROVE  \A r \in Requests : Tells(r)'
<1>t. TypeOK /\ CallOK
  BY DEF TInv
<1>1. CASE Quiet
  BY <1>1, SameTells DEF Quiet
<1>2. ASSUME NEW p \in Procs, StartProcess(p) PROVE \A r \in Requests : Tells(r)'
  <2> SUFFICES ASSUME NEW r \in Requests PROVE Tells(r)'
    OBVIOUS
  <2>1. CASE r \in Interrupted
    <3>1. actions'[r].status = "failed" /\ log'[r] = Append(log[r], "action.interrupted")
      <4>1. /\ actions'[r] = [actions[r] EXCEPT !.status = "failed"]
            /\ log'[r] = Append(log[r], "action.interrupted")
        BY <1>2, <2>1 DEF StartProcess, InterruptedStatus, InterruptedLog
      <4>2. actions[r] \in Row \cup {NoRow}
        BY <1>t DEF TypeOK
      <4> QED
        BY <4>1, <4>2 DEF Row, NoRow
    <3>2. <<"failed", "action.interrupted">> \in EventStatus
      BY DEF EventStatus
    <3> QED
      BY <1>t, <3>1, <3>2, AppendTells
  <2>2. CASE r \notin Interrupted
    <3>1. actions'[r] = actions[r] /\ log'[r] = log[r]
      BY <1>2, <2>2 DEF StartProcess
    <3> QED
      BY <3>1, SameTells
  <2> QED
    BY <2>1, <2>2
<1>3. ASSUME NEW p \in Procs, NEW r \in Requests, Effect(p, r)
      PROVE  \A q \in Requests : Tells(q)'
  <2>1. CASE RequestInsert(p)
    BY <2>1, InsertTells
  <2>2. CASE ExecuteRun(p)
    BY <2>2, SameTells DEF ExecuteRun, db
  <2>3. CASE \E s, e : <<s, e>> \in EventStatus /\ Record(r, s, e)
    BY <1>t, <2>3, RecordTells
  <2>4. RequestInsert(p) \/ ExecuteRun(p) \/ \E s, e : <<s, e>> \in EventStatus /\ Record(r, s, e)
    <3>1. CASE ExecuteExpirePending(p) /\ StillPending(r) /\ r = call[p].req
      BY <3>1 DEF ExecuteExpirePending, EventStatus
    <3>2. CASE ExecuteExpire(p) /\ r = call[p].req
      BY <3>2 DEF ExecuteExpire, EventStatus
    <3>3. CASE ExecuteFinish(p) /\ r = call[p].req
      BY <3>3 DEF ExecuteFinish, EventStatus
    <3>4. CASE ExecuteClaim(p) /\ Claimable(r) /\ r = call[p].req
      BY <3>4 DEF ExecuteClaim, EventStatus
    <3>5. ASSUME NEW a \in Actors, NEW q \in DecisionIds, NEW e \in DecisionIds \cup {Nobody},
                 NEW v \in {"approve", "reject"}, DecideCommit(p, r, a, q, e, v)
          PROVE  \E s, f : <<s, f>> \in EventStatus /\ Record(r, s, f)
      BY <3>5 DEF DecideCommit, EventStatus
    <3> QED
      BY <1>3, <3>1, <3>2, <3>3, <3>4, <3>5 DEF Effect
  <2> QED
    BY <2>1, <2>2, <2>3, <2>4
<1> QED
  BY <1>1, <1>2, <1>3, StepCases

\* The last event of an action tells the status of its row, for any number of
\* processes, callers, crashes and restarts: no transaction changes the one
\* without the other.
THEOREM LogTellsStatus == Spec => []AuditTellsStatus
<1> DEFINE Inv == TInv /\ \A r \in Requests : Tells(r)
<1>1. Init => Inv
  <2> SUFFICES ASSUME Init PROVE \A r \in Requests : Tells(r)
    BY InitTInv
  <2> QED
    BY DEF Init, Tells, Exists, NoRow
<1>2. Inv /\ [Next]_vars => Inv'
  <2> SUFFICES ASSUME Inv, [Next]_vars PROVE Inv'
    OBVIOUS
  <2>1. TInv'
    BY NextTInv
  <2>2. \A r \in Requests : Tells(r)'
    BY TellsStep
  <2> QED
    BY <2>1, <2>2
<1>3. Inv => AuditTellsStatus
  BY DEF Tells, AuditTellsStatus
<1> QED
  BY <1>1, <1>2, <1>3, PTL DEF Spec
=============================================================================
