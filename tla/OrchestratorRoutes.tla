-------------------------- MODULE OrchestratorRoutes --------------------------
(***************************************************************************)
(* The routes of the orchestrator daemon (service.py).  A route tries the  *)
(* roles of its plan in order and the providers of a role one by one,      *)
(* until one gives a result that is good enough; the result of an          *)
(* important task is then shown to an independent provider.  Each call is  *)
(* reserved in the budget ledger first and settled there afterwards.       *)
(*                                                                         *)
(* Every HTTP request of the daemon is a thread of its own: the steps of   *)
(* the routes interleave at their database transactions and at the calls   *)
(* of the providers, and only one call of a local model runs at a time.    *)
(* The order of the candidates of a role depends on the history of all     *)
(* routes (AdaptiveCost of RoutingPolicy); any order is possible here.     *)
(***************************************************************************)
EXTENDS BudgetLedger, RoutingPolicy

CONSTANTS RoleOf,        \* the role of a provider
          FamilyOf,      \* its chat family, or NoAccount
          Profile,       \* the scores of its capability profile
          Local,         \* the providers that run on this machine
          PriceOf,       \* [input, output] price of a provider
          Requests,      \* requests: those of RoutingPolicy with mission,
                         \* project, remote and maxCost
          Reports,       \* [input, output] usage a provider may report
          MaxOutput,     \* limits.max_output_tokens
          MaxIterations, \* limits.max_iterations
          MaxProviderCalls, \* limits.max_provider_calls
          Nobody,        \* nothing chosen yet
          MaxFaults      \* bound: database failures and crashes

ASSUME RouteAssumption ==
  /\ Calls = Routes \X (1..MaxProviderCalls)
  /\ MaxProviderCalls \in Nat /\ IsFiniteSet(Providers)
  /\ Local \subseteq Providers
  /\ Nobody \notin Providers \cup Routes
  /\ \A q \in Requests : q.mission \in Missions

VARIABLES run,       \* the thread and the mission_runs row of each route
          lock,      \* local_model_lock: the route that holds it
          faults     \* failures so far

vars == <<ledger, run, lock, faults>>

\* pc: where the thread is; phase: "run" while it looks for a result, "check"
\* while it looks for a verifier; provider: the candidate being tried; result:
\* the provider whose result was taken; verdict: what its verifier said.
Idle == [pc |-> "new", req |-> Nobody, phase |-> "run", roles |-> <<>>,
         iterations |-> 0, calls |-> 0, attempts |-> 0, todo |-> {},
         provider |-> Nobody, asOf |-> 0, result |-> Nobody,
         verdict |-> "none", status |-> "none"]

Init ==
  /\ LedgerInit
  /\ run = [r \in Routes |-> Idle]
  /\ lock = Nobody
  /\ faults = 0

Ended == {"new", "done", "raised"}
Active(r) == run[r].pc \notin Ended
Remote(p) == p \notin Local
At(r, pc) == run[r].pc = pc
Goto(r, pc) == run' = [run EXCEPT ![r].pc = pc]
Set(r, rec) == run' = [run EXCEPT ![r] = rec]

\* The lock is given back, if the route holds it.
Release(r) == lock' = IF lock = r THEN Nobody ELSE lock

\* Mutant: a candidate that failed is looked at again.
GiveUpKeeping(r) == [run[r] EXCEPT !.pc = "candidate", !.provider = Nobody, !.asOf = 0]

\* The candidate is given up; the next one is looked at.
GiveUp(r) == [run[r] EXCEPT !.pc = "candidate", !.todo = @ \ {run[r].provider},
                            !.provider = Nobody, !.asOf = 0]

\* What is left of a thread that ends: its locals are gone.
Closed(u, pc) == [u EXCEPT !.pc = pc, !.roles = <<>>, !.todo = {},
                           !.provider = Nobody, !.asOf = 0]

\* The row of the call that the route is making.
Call(r) == <<r, run[r].calls + run[r].attempts>>

-----------------------------------------------------------------------------
(* Starting, and choosing a candidate                                      *)

\* start_run refuses a mission that another project has used.
BoundElsewhere(q) ==
  \E s \in Routes : /\ run[s].req # Nobody
                    /\ run[s].req.mission = q.mission
                    /\ run[s].req.project # q.project

\* route_request: a deterministic path ends the route without a model call.
StartRun(r, q) ==
  /\ At(r, "new")
  /\ ~BoundElsewhere(q)
  /\ Set(r, [Idle EXCEPT !.req = q, !.roles = Plan(q),
                         !.pc = IF q.deterministic THEN "accept" ELSE "role",
                         !.status = "running"])
  /\ UNCHANGED <<ledger, lock, faults>>

\* _providers_by_estimated_cost: the providers of the role that are capable.
CandidatesFor(role, q) ==
  {p \in Providers : RoleOf[p] = role /\ Capable(Profile[p], RequirementsFor(q))}

\* The head of the loop over the roles; a route without roles left, or with
\* its iterations used up, is left to a human.
NextRole(r) ==
  LET u == run[r]
  IN /\ At(r, "role")
     /\ IF u.roles = <<>> \/ u.iterations >= MaxIterations
        THEN Goto(r, "escalate")
        ELSE Set(r, [u EXCEPT !.roles = Tail(@), !.iterations = @ + 1,
                              !.todo = CandidatesFor(Head(u.roles), u.req),
                              !.pc = "candidate"])
     /\ UNCHANGED <<ledger, lock, faults>>

\* The candidates of the role are exhausted.
RoleExhausted(r) ==
  /\ At(r, "candidate") /\ run[r].phase = "run"
  /\ run[r].todo = {}
  /\ Goto(r, "role")
  /\ UNCHANGED <<ledger, lock, faults>>

\* A candidate that may not or cannot be called is passed over: the request
\* forbids egress, no credentials or endpoint, no model or price configured.
Skip(r, p) ==
  /\ At(r, "candidate")
  /\ p \in run[r].todo
  /\ run' = [run EXCEPT ![r].todo = @ \ {p}]
  /\ UNCHANGED <<ledger, lock, faults>>

\* remote_allowed
MayCall(r, p) == Remote(p) => run[r].req.remote

\* The limits on calls and, for a verifier, on iterations.
CallsLeft(r) ==
  /\ run[r].calls + run[r].attempts < MaxProviderCalls
  /\ run[r].phase = "check" =>
       run[r].iterations + run[r].attempts < MaxIterations

\* A callable candidate when the limits are used up: the loop is left.
LimitReached(r, p) ==
  /\ At(r, "candidate")
  /\ p \in run[r].todo /\ MayCall(r, p) /\ ~CallsLeft(r)
  /\ Set(r, [run[r] EXCEPT !.todo = {},
                           !.pc = IF run[r].phase = "check" THEN "escalate" ELSE @])
  /\ UNCHANGED <<ledger, lock, faults>>

\* The candidate is chosen; a local model needs the lock first, for a remote
\* one reserve takes its clock sample.
Choose(r, p) ==
  /\ At(r, "candidate")
  /\ p \in run[r].todo /\ MayCall(r, p) /\ CallsLeft(r)
  /\ Set(r, [run[r] EXCEPT !.pc = IF p \in Local THEN "lock" ELSE "reserve",
                           !.provider = p,
                           !.asOf = IF p \in Local THEN 0 ELSE day])
  /\ UNCHANGED <<ledger, lock, faults>>

AcquireLock(r) ==
  /\ At(r, "lock") /\ lock = Nobody
  /\ lock' = r
  /\ Set(r, [run[r] EXCEPT !.pc = "reserve", !.asOf = day])
  /\ UNCHANGED <<ledger, faults>>

\* Mutant: the lock is waited for without a timeout.
LockTimeoutNever(r) == FALSE /\ UNCHANGED vars

\* local_model_lock.acquire timed out.
LockTimeout(r) ==
  /\ At(r, "lock") /\ lock # Nobody
  /\ Set(r, GiveUp(r))
  /\ UNCHANGED <<ledger, lock, faults>>

-----------------------------------------------------------------------------
(* One call                                                                *)

Asked(r) == Priced([input |-> run[r].req.size, output |-> MaxOutput],
                   PriceOf[run[r].provider])

\* BudgetLedger.reserve; the row is numbered by the calls of the route.
ReserveCall(r) ==
  LET u == run[r]
      new == [u EXCEPT !.pc = "reserved", !.asOf = 0,
                       !.calls = IF u.phase = "run" THEN @ + 1 ELSE @,
                       !.attempts = IF u.phase = "check" THEN @ + 1 ELSE @]
  IN /\ At(r, "reserve")
     /\ RequestAllows(r, Asked(r), u.req.maxCost)
     /\ Reserve(<<r, new.calls + new.attempts>>, r, u.req.mission, u.provider,
                Asked(r), u.asOf)
     /\ Set(r, new)
     /\ UNCHANGED <<lock, faults>>

\* BudgetExceeded: the lock is given back and the next candidate tried.
BudgetBlock(r) ==
  LET u == run[r]
  IN /\ At(r, "reserve")
     /\ ~(/\ RequestAllows(r, Asked(r), u.req.maxCost)
          /\ BudgetAllows(r, u.req.mission, u.provider, Asked(r), u.asOf))
     /\ Release(r)
     /\ Set(r, GiveUp(r))
     /\ UNCHANGED <<ledger, faults>>

\* MODEL_START or VERIFICATION_START is on the trace; the request goes out.
StartCall(r) ==
  /\ At(r, "reserved")
  /\ Goto(r, "calling")
  /\ UNCHANGED <<ledger, lock, faults>>

\* The provider reported no more than was reserved.
WithinBound(r, use) == AtMost(use, rows[Call(r)].reserved)

\* The call failed: an error, an answer that breaks the protocol, or usage
\* beyond the reservation.  use is what was reported, if anything was.
CallFails(r, use) ==
  /\ At(r, "calling")
  /\ MarkUncertain(Call(r), use, PriceOf[run[r].provider])
  /\ Release(r)
  /\ Set(r, GiveUp(r))
  /\ UNCHANGED faults

\* The result of a provider is booked.  A refusal ends the route; a request to
\* escalate or a low confidence leads to the next candidate.
Result(r, use, answer) ==
  LET u == run[r]
  IN /\ At(r, "calling") /\ u.phase = "run"
     /\ WithinBound(r, use)
     /\ Complete(Call(r), Priced(use, PriceOf[u.provider]))
     /\ Release(r)
     /\ Set(r, CASE answer = "refuse"   -> [u EXCEPT !.pc = "escalate"]
                 [] answer = "escalate" -> GiveUp(r)
                 [] answer = "ok" ->
                      [u EXCEPT !.result = u.provider,
                                !.pc = IF Important(u.req) THEN "verify" ELSE "accept"])
     /\ UNCHANGED faults

-----------------------------------------------------------------------------
(* Verification                                                            *)

\* _verification_candidates: another account and another model family.
Independent(p, e) ==
  /\ Remote(p)
  /\ AccountOf[p] # NoAccount /\ FamilyOf[p] # NoAccount
  /\ AccountOf[p] # AccountOf[e] /\ FamilyOf[p] # FamilyOf[e]

VerifiersFor(e, q) ==
  {p \in Providers : Independent(p, e) /\ Capable(Profile[p], RequirementsFor(q))}

\* _verify_executor_result up to its loop: an executor whose account or family
\* is unknown, or a context without room, leaves no verifier to ask.
BeginVerify(r) ==
  LET u == run[r]
      e == u.result
  IN /\ At(r, "verify")
     /\ \/ /\ AccountOf[e] # NoAccount /\ FamilyOf[e] # NoAccount
           /\ u.iterations < MaxIterations /\ u.calls < MaxProviderCalls
           /\ Set(r, [u EXCEPT !.phase = "check", !.pc = "candidate",
                               !.provider = Nobody, !.todo = VerifiersFor(e, u.req)])
        \/ Goto(r, "escalate")
     /\ UNCHANGED <<ledger, lock, faults>>

\* No verifier gave an answer: the result is left to a human.
NoVerifier(r) ==
  /\ At(r, "candidate") /\ run[r].phase = "check"
  /\ run[r].todo = {}
  /\ Goto(r, "escalate")
  /\ UNCHANGED <<ledger, lock, faults>>

\* Mutant: a verifier that is unsure does not stand in the way.
AfterVerdictLenient(r, verdict) ==
  [run[r] EXCEPT !.verdict = verdict,
                 !.pc = IF verdict = "disagree" THEN "escalate" ELSE "accept"]

\* Agreement is the only answer that accepts the result; any other is final.
AfterVerdict(r, verdict) ==
  [run[r] EXCEPT !.verdict = verdict,
                 !.pc = IF verdict = "agree" THEN "accept" ELSE "escalate"]

\* The verifier answered: agree (with enough confidence), disagree or uncertain.
Verdict(r, use, verdict) ==
  /\ At(r, "calling") /\ run[r].phase = "check"
  /\ WithinBound(r, use)
  /\ Complete(Call(r), Priced(use, PriceOf[run[r].provider]))
  /\ Set(r, AfterVerdict(r, verdict))
  /\ UNCHANGED <<lock, faults>>

-----------------------------------------------------------------------------
(* The end of a route, and what goes wrong                                 *)

\* finish_run: the run is 'running' until then.
FinishRun(u, status, result) ==
  [Closed(u, "done") EXCEPT !.status = status, !.result = result]

SuccessfulDecision(r) ==
  /\ At(r, "accept")
  /\ Set(r, FinishRun(run[r], "routed", run[r].result))
  /\ UNCHANGED <<ledger, lock, faults>>

HumanEscalation(r) ==
  /\ At(r, "escalate")
  /\ Set(r, FinishRun(run[r], "escalated", Nobody))
  /\ UNCHANGED <<ledger, lock, faults>>

\* A transaction of the route finds the database busy: the request ends in an
\* error, its run stays 'running' and the reservation of a call in progress
\* stays 'reserved'.  The lock is given back while the call is reserved and
\* while it runs, but not between the two.
DatabaseFails(r) ==
  /\ Active(r) /\ faults < MaxFaults
  /\ faults' = faults + 1
  /\ Set(r, Closed(run[r], "raised"))
  /\ IF At(r, "reserved") THEN UNCHANGED lock ELSE Release(r)
  /\ UNCHANGED ledger

\* The daemon dies: the requests in progress with it.
Crash ==
  /\ faults < MaxFaults
  /\ faults' = faults + 1
  /\ run' = [r \in Routes |-> IF Active(r) THEN Closed(run[r], "raised")
                                           ELSE run[r]]
  /\ lock' = Nobody
  /\ UNCHANGED ledger

\* One step of the thread of a route.
Step(r) ==
  \/ NextRole(r) \/ RoleExhausted(r) \/ NoVerifier(r)
  \/ \E p \in Providers : Skip(r, p) \/ LimitReached(r, p) \/ Choose(r, p)
  \/ AcquireLock(r) \/ LockTimeout(r)
  \/ ReserveCall(r) \/ BudgetBlock(r) \/ StartCall(r)
  \/ \E use \in Reports : \/ CallFails(r, use)
                          \/ \E a \in {"ok", "escalate", "refuse"} : Result(r, use, a)
                          \/ \E v \in {"agree", "disagree", "uncertain"} : Verdict(r, use, v)
  \/ BeginVerify(r) \/ SuccessfulDecision(r) \/ HumanEscalation(r)

Next ==
  \/ \E r \in Routes : \/ Step(r) \/ DatabaseFails(r)
                       \/ \E q \in Requests : StartRun(r, q)
  \/ Crash
  \/ NextDay /\ UNCHANGED <<run, lock, faults>>

Spec == Init /\ [][Next]_vars

-----------------------------------------------------------------------------
(* Properties                                                              *)

TypeOK ==
  /\ day \in 0..MaxDay
  /\ \A c \in Recorded : /\ rows[c].provider \in Providers
                         /\ rows[c].route \in Routes
                         /\ rows[c].asOf \in 0..rows[c].day /\ rows[c].day \in 0..day
  /\ \A r \in Routes :
       /\ run[r].calls + run[r].attempts \in 0..MaxProviderCalls
       /\ run[r].provider \in Providers \cup {Nobody}
       /\ run[r].asOf \in 0..day
       /\ run[r].req \in Requests \cup {Nobody}
  /\ lock \in Routes \cup {Nobody}

\* A result of an important task is accepted only when a provider of another
\* account and another model family was asked about it and agreed; one that
\* disagreed or was unsure is never outvoted by another.
AcceptedIsVerified ==
  \A r \in Routes :
    run[r].status = "routed" /\ Important(run[r].req) /\ ~run[r].req.deterministic =>
      /\ run[r].verdict = "agree"
      /\ \E c, v \in OfRoute(r) :
           /\ rows[c].status = "completed" /\ rows[v].status = "completed"
           /\ rows[c].provider = run[r].result
           /\ AccountOf[rows[v].provider] # AccountOf[rows[c].provider]
           /\ FamilyOf[rows[v].provider] # FamilyOf[rows[c].provider]

\* A decision leaves nothing open: every call of the route is completed or
\* uncertain, whatever failed on the way.
DecidedIsSettled ==
  \A r \in Routes : At(r, "done") => \A c \in OfRoute(r) : ~Open(c)

\* Nothing of a request that forbids egress reaches a remote provider.
EgressAllowed ==
  \A c \in Recorded : Remote(rows[c].provider) => run[rows[c].route].req.remote

\* One local model works at a time.
OneLocalCall ==
  LET working == {r \in Routes : At(r, "calling") /\ run[r].provider \in Local}
  IN Cardinality(working) <= 1

\* How much a thread has left to do at most: roles, then candidates of the
\* role, then verifiers.
Stage == [candidate |-> 4, lock |-> 3, reserve |-> 2, reserved |-> 1, calling |-> 0]
WorkLeft(u) ==
  LET n == Cardinality(Providers)
      before == IF u.phase = "run" THEN 5 * n + 10 + Len(u.roles) * (5 * n + 6) ELSE 0
  IN CASE u.pc \in {"new", "done", "raised"} -> 0
       [] u.pc \in {"accept", "escalate"} -> 1
       [] u.pc = "verify" -> 5 * n + 10
       [] u.pc = "role"   -> before
       [] OTHER           -> before + 5 * Cardinality(u.todo) + Stage[u.pc] + 1

\* A route never gets stuck: whatever budgets, limits, the lock and failing
\* providers do, the thread of an active route has a step to take.
NeverStuck == \A r \in Routes : Active(r) => ENABLED Step(r)

\* What route() decides was verified, is accounted for and has not left the
\* machine unless it might; the one local model serves one route at a time.
RoutesHold ==
  /\ TypeOK
  /\ AcceptedIsVerified
  /\ DecidedIsSettled
  /\ EgressAllowed
  /\ OneLocalCall

\* Every step of a route leaves it less to do: with NeverStuck, every route that
\* is not interrupted ends.
RoutesEnd ==
  [][\A r \in Routes : Active(r) /\ run'[r] # run[r]
                        => WorkLeft(run'[r]) < WorkLeft(run[r])]_vars
=============================================================================
