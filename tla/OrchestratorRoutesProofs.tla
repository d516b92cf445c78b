---------------------- MODULE OrchestratorRoutesProofs ----------------------
(***************************************************************************)
(* What the routes and their calls obey, and what is learnt from them,     *)
(* proved for every set of routes, providers, accounts, requests and caps, *)
(* and any number of failures and deaths.                                  *)
(***************************************************************************)
EXTENDS OrchestratorRoutes, ModelOutcomes, FiniteSetTheorems, WellFoundedInduction,
        NaturalsInduction, TLAPS

ActivePcs == {"role", "candidate", "lock", "reserve", "reserved", "calling",
              "verify", "accept", "escalate"}
Roles == {"TINY", "LOCAL_OPS", "REASONING", "PREMIUM", "CODER", "EMBEDDING", "RERANKER"}
RoleSeqs == Seq(Roles)
Threads ==
  [pc : ActivePcs \cup Ended, req : Requests \cup {Nobody}, phase : {"run", "check"},
   roles : RoleSeqs, iterations : Nat, calls : Nat, attempts : Nat,
   todo : SUBSET Providers, provider : Providers \cup {Nobody}, asOf : Nat,
   result : Providers \cup {Nobody},
   verdict : {"none", "agree", "disagree", "uncertain"},
   status : {"none", "running", "routed", "escalated"}]

\* A row has the columns of NoRow.
IsRow(x) ==
  x = [status |-> x.status, asOf |-> x.asOf, route |-> x.route,
       mission |-> x.mission, provider |-> x.provider, day |-> x.day,
       granted |-> x.granted, reserved |-> x.reserved, actual |-> x.actual]

Shape ==
  /\ rows = [c \in Calls |-> rows[c]]
  /\ \A c \in Calls : IsRow(rows[c])
  /\ run \in [Routes -> Threads]
  /\ TypeOK

-----------------------------------------------------------------------------
(* What holds of the thread of one route                                   *)

\* Only a call in progress is open, unless its thread was cut off; a route that
\* has not started has no call.
OpenInv(r) ==
  /\ At(r, "new") => OfRoute(r) = {}
  /\ \A c \in OfRoute(r) :
       Open(c) => \/ At(r, "raised")
                  \/ run[r].pc \in {"reserved", "calling"} /\ c = Call(r)

\* The call in progress is that of the candidate.
CallInv(r) ==
  run[r].pc \in {"reserved", "calling"} =>
    /\ Call(r) \in Calls /\ Open(Call(r))
    /\ rows[Call(r)].route = r /\ rows[Call(r)].provider = run[r].provider

\* The candidate is still on the list and may be called.
TryInv(r) ==
  /\ run[r].pc \in {"lock", "reserve", "reserved", "calling"} =>
       run[r].provider \in run[r].todo /\ MayCall(r, run[r].provider)
  /\ run[r].pc \in {"lock", "reserve"} =>
       run[r].calls + run[r].attempts < MaxProviderCalls

\* Nothing of a request that forbids egress was reserved with a remote provider.
EgressInv(r) ==
  \A c \in OfRoute(r) : Remote(rows[c].provider) => run[r].req.remote

\* A thread that tries a local model holds the lock.
LockInv(r) ==
  run[r].pc \in {"reserve", "reserved", "calling"} /\ run[r].provider \in Local
    => lock = r

\* The result was given by a call that is completed.
Executed(r) ==
  \E c \in OfRoute(r) : rows[c].status = "completed" /\ rows[c].provider = run[r].result

\* Another call, of an independent provider, is completed too.
Verified(r) ==
  \E c, v \in OfRoute(r) :
    /\ rows[c].status = "completed" /\ rows[v].status = "completed"
    /\ rows[c].provider = run[r].result
    /\ AccountOf[rows[v].provider] # AccountOf[rows[c].provider]
    /\ FamilyOf[rows[v].provider] # FamilyOf[rows[c].provider]

\* While verifiers are asked there is a result, and all of them are independent.
PhaseInv(r) ==
  /\ run[r].pc \in {"role", "verify"} => run[r].phase = "run"
  /\ Active(r) /\ (At(r, "verify") \/ run[r].phase = "check") => Executed(r)
  /\ Active(r) /\ run[r].phase = "check" =>
       run[r].todo \subseteq VerifiersFor(run[r].result, run[r].req)

\* A result that is or will be accepted needed no verification or has it.
AcceptInv(r) ==
  /\ run[r].status = "routed" => At(r, "done")
  /\ At(r, "accept") \/ run[r].status = "routed" =>
       (Important(run[r].req) /\ ~run[r].req.deterministic =>
          run[r].verdict = "agree" /\ Verified(r))

RouteInv(r) ==
  /\ OpenInv(r) /\ CallInv(r) /\ TryInv(r) /\ EgressInv(r)
  /\ LockInv(r) /\ PhaseInv(r) /\ AcceptInv(r)

IInv == Shape /\ \A r \in Routes : RouteInv(r)

-----------------------------------------------------------------------------
(* The rows of the ledger                                                  *)

\* The row c is added, the others stay.
Adds(c, r, p, d) ==
  /\ rows[c].status = "none" /\ rows'[c].status = "reserved"
  /\ rows'[c].route = r /\ rows'[c].provider = p
  /\ rows'[c].asOf = d /\ rows'[c].day = day
  /\ \A e \in Calls \ {c} : rows'[e] = rows[e]

\* The row c is settled, the others stay.
Settles(c, s) ==
  /\ Open(c) /\ rows'[c].status = s
  /\ rows'[c].route = rows[c].route /\ rows'[c].provider = rows[c].provider
  /\ rows'[c].asOf = rows[c].asOf /\ rows'[c].day = rows[c].day
  /\ \A e \in Calls \ {c} : rows'[e] = rows[e]

RowsShape == rows = [c \in Calls |-> rows[c]] /\ \A c \in Calls : IsRow(rows[c])

LEMMA ReserveAdds ==
  ASSUME RowsShape, NEW c \in Calls, NEW r, NEW m, NEW p, NEW use, NEW d,
         Reserve(c, r, m, p, use, d)
  PROVE  Adds(c, r, p, d) /\ RowsShape'
<1>1. rows'[c] = NewRow(r, m, p, use, d) /\ \A e \in Calls \ {c} : rows'[e] = rows[e]
  BY DEF RowsShape, Reserve
<1>2. rows' = [e \in Calls |-> rows'[e]]
  BY DEF RowsShape, Reserve
<1>3. \A e \in Calls : IsRow(rows'[e])
  BY <1>1 DEF RowsShape, IsRow, NewRow
<1> QED
  BY <1>1, <1>2, <1>3 DEF RowsShape, Adds, NewRow, Reserve, NoRow

LEMMA CompleteSettles ==
  ASSUME RowsShape, NEW c \in Calls, NEW use, Complete(c, use)
  PROVE  Settles(c, "completed") /\ RowsShape'
<1>1. /\ rows'[c] = [rows[c] EXCEPT !.status = "completed", !.actual = use]
      /\ \A e \in Calls \ {c} : rows'[e] = rows[e]
  BY DEF RowsShape, Complete
<1>2. rows' = [e \in Calls |-> rows'[e]]
  BY DEF RowsShape, Complete
<1>3. IsRow(rows[c])
  BY DEF RowsShape
<1>4. /\ rows'[c].status = "completed" /\ rows'[c].route = rows[c].route
      /\ rows'[c].provider = rows[c].provider /\ rows'[c].asOf = rows[c].asOf
      /\ rows'[c].day = rows[c].day /\ IsRow(rows'[c])
  BY <1>1, <1>3 DEF IsRow
<1> QED
  BY <1>1, <1>2, <1>4 DEF RowsShape, Settles, Complete

LEMMA UncertainSettles ==
  ASSUME RowsShape, NEW c \in Calls, NEW use, NEW price, MarkUncertain(c, use, price)
  PROVE  Settles(c, "uncertain") /\ RowsShape'
<1>1. PICK kept : /\ rows'[c] = [rows[c] EXCEPT !.status = "uncertain", !.reserved = kept]
                  /\ \A e \in Calls \ {c} : rows'[e] = rows[e]
  BY DEF RowsShape, MarkUncertain
<1>2. rows' = [e \in Calls |-> rows'[e]]
  BY DEF RowsShape, MarkUncertain
<1>3. IsRow(rows[c])
  BY DEF RowsShape
<1>4. /\ rows'[c].status = "uncertain" /\ rows'[c].route = rows[c].route
      /\ rows'[c].provider = rows[c].provider /\ rows'[c].asOf = rows[c].asOf
      /\ rows'[c].day = rows[c].day /\ IsRow(rows'[c])
  BY <1>1, <1>3 DEF IsRow
<1> QED
  BY <1>1, <1>2, <1>4 DEF RowsShape, Settles, MarkUncertain

-----------------------------------------------------------------------------
(* The caps on calls                                                       *)

LEMMA UsageCalls ==
  ASSUME NEW C PROVE Usage(C).calls = Cardinality(C)
BY DEF Usage

\* Where one more call fits, there may be one more call.
LEMMA OneMoreFits ==
  ASSUME NEW C, IsFiniteSet(C), NEW D, NEW c, NEW use, NEW cap, cap.calls \in Nat,
         Room(Usage(C), use, cap), D \subseteq C \cup {c}
  PROVE  Cardinality(D) <= cap.calls
<1>1. Cardinality(C) + 1 <= cap.calls
  BY UsageCalls DEF Room
<1>2. /\ IsFiniteSet(C \cup {c}) /\ Cardinality(C) \in Nat
      /\ Cardinality(C \cup {c}) <= Cardinality(C) + 1
  BY FS_AddElement, FS_CardinalityType
<1>3. Cardinality(D) <= Cardinality(C \cup {c}) /\ IsFiniteSet(D)
  BY <1>2, FS_Subset
<1>4. Cardinality(D) \in Nat /\ Cardinality(C \cup {c}) \in Nat
  BY <1>2, <1>3, FS_CardinalityType
<1> QED
  BY <1>1, <1>2, <1>3, <1>4

LEMMA FewerFit ==
  ASSUME NEW C, IsFiniteSet(C), NEW D, D \subseteq C, NEW n \in Nat, Cardinality(C) <= n
  PROVE  Cardinality(D) <= n
<1>1. Cardinality(D) <= Cardinality(C) /\ IsFiniteSet(D)
  BY FS_Subset
<1>2. Cardinality(D) \in Nat /\ Cardinality(C) \in Nat
  BY <1>1, FS_CardinalityType
<1> QED
  BY <1>1, <1>2

LEMMA RowsFinite == ASSUME NEW C, C \subseteq Recorded PROVE IsFiniteSet(C)
BY FS_Subset, LedgerAssumption DEF Recorded

\* A cap holds after a row was added if the row is not counted, or was compared
\* with a set that counted every row which the cap counts.
LEMMA CapAfterAdd ==
  ASSUME NEW old, old \subseteq Recorded, NEW now, NEW held, held \subseteq Recorded,
         NEW c, NEW use, NEW cap, cap.calls \in Nat, Cardinality(old) <= cap.calls,
         \/ now \subseteq old
         \/ now \subseteq held \cup {c} /\ Room(Usage(held), use, cap)
  PROVE  Cardinality(now) <= cap.calls
<1>1. IsFiniteSet(old) /\ IsFiniteSet(held)
  BY RowsFinite
<1>2. CASE now \subseteq old
  BY <1>1, <1>2, FewerFit
<1>3. CASE now \subseteq held \cup {c} /\ Room(Usage(held), use, cap)
  BY <1>1, <1>3, OneMoreFits
<1> QED
  BY <1>2, <1>3

\* reserve keeps the caps: it compares the rows of the day it sampled first, which
\* for a row that counts is the day the row is stamped with.
LEMMA ReserveKeepsCaps ==
  ASSUME CallCapsHold, NEW c \in Calls, NEW r \in Routes, NEW m, NEW p \in Providers,
         NEW use, NEW d, BudgetAllows(r, m, p, use, d), Adds(c, r, p, d)
  PROVE  CallCapsHold'
<1>r. \A e : e \in Recorded' => e = c \/ (e \in Recorded /\ rows'[e] = rows[e])
  BY DEF Recorded, Adds
<1>1. ASSUME NEW q \in Providers, NEW b \in 0..MaxDay
      PROVE  /\ Cardinality(InDay(OfProvider(q), b) \cap SameDay)' <= ProviderBudget[q].day.calls
             /\ Cardinality(InMonth(OfProvider(q), b) \cap SameMonth)'
                  <= ProviderBudget[q].month.calls
  <2>1. /\ ProviderBudget[q].day.calls \in Nat /\ ProviderBudget[q].month.calls \in Nat
        /\ Cardinality(InDay(OfProvider(q), b) \cap SameDay) <= ProviderBudget[q].day.calls
        /\ Cardinality(InMonth(OfProvider(q), b) \cap SameMonth)
             <= ProviderBudget[q].month.calls
    BY LedgerAssumption DEF CallCapsHold, IsCap
  <2>2. /\ InDay(OfProvider(q), b) \cap SameDay \subseteq Recorded
        /\ InMonth(OfProvider(q), b) \cap SameMonth \subseteq Recorded
        /\ InDay(OfProvider(p), d) \subseteq Recorded /\ InMonth(OfProvider(p), d) \subseteq Recorded
    BY DEF InDay, InMonth, OfProvider
  <2>3. \/ (InDay(OfProvider(q), b) \cap SameDay)' \subseteq InDay(OfProvider(q), b) \cap SameDay
        \/ q = p /\ (InDay(OfProvider(q), b) \cap SameDay)' \subseteq InDay(OfProvider(p), d) \cup {c}
    BY <1>r DEF InDay, OfProvider, SameDay, Adds
  <2>4. \/ (InMonth(OfProvider(q), b) \cap SameMonth)'
             \subseteq InMonth(OfProvider(q), b) \cap SameMonth
        \/ q = p /\ (InMonth(OfProvider(q), b) \cap SameMonth)'
                      \subseteq InMonth(OfProvider(p), d) \cup {c}
    BY <1>r DEF InMonth, OfProvider, SameMonth, Adds
  <2>5. /\ Room(Usage(InDay(OfProvider(p), d)), use, ProviderBudget[p].day)
        /\ Room(Usage(InMonth(OfProvider(p), d)), use, ProviderBudget[p].month)
    BY DEF BudgetAllows, ProviderAllows
  <2>6. Cardinality(InDay(OfProvider(q), b) \cap SameDay)' <= ProviderBudget[q].day.calls
    BY <2>1, <2>2, <2>3, <2>5, CapAfterAdd
  <2>7. Cardinality(InMonth(OfProvider(q), b) \cap SameMonth)' <= ProviderBudget[q].month.calls
    BY <2>1, <2>2, <2>4, <2>5, CapAfterAdd
  <2> QED
    BY <2>6, <2>7
<1>2. ASSUME NEW a \in DOMAIN AccountBudget, AccountOf[p] = a
      PROVE  /\ Room(Usage(InDay(OfAccount(a), d)), use, AccountBudget[a].day)
             /\ Room(Usage(InMonth(OfAccount(a), d)), use, AccountBudget[a].month)
             /\ Room(Usage(OfAccount(a) \cap OfRoute(r)), use, AccountBudget[a].task)
  BY <1>2, LedgerAssumption DEF BudgetAllows, AccountAllows
<1>3. ASSUME NEW a \in DOMAIN AccountBudget, NEW b \in 0..MaxDay
      PROVE  /\ Cardinality(InDay(OfAccount(a), b) \cap SameDay)' <= AccountBudget[a].day.calls
             /\ Cardinality(InMonth(OfAccount(a), b) \cap SameMonth)'
                  <= AccountBudget[a].month.calls
  <2>1. /\ AccountBudget[a].day.calls \in Nat /\ AccountBudget[a].month.calls \in Nat
        /\ Cardinality(InDay(OfAccount(a), b) \cap SameDay) <= AccountBudget[a].day.calls
        /\ Cardinality(InMonth(OfAccount(a), b) \cap SameMonth) <= AccountBudget[a].month.calls
    BY LedgerAssumption DEF CallCapsHold, IsCap
  <2>2. /\ InDay(OfAccount(a), b) \cap SameDay \subseteq Recorded
        /\ InMonth(OfAccount(a), b) \cap SameMonth \subseteq Recorded
        /\ InDay(OfAccount(a), d) \subseteq Recorded /\ InMonth(OfAccount(a), d) \subseteq Recorded
    BY DEF InDay, InMonth, OfAccount
  <2>3. \/ (InDay(OfAccount(a), b) \cap SameDay)' \subseteq InDay(OfAccount(a), b) \cap SameDay
        \/ AccountOf[p] = a
           /\ (InDay(OfAccount(a), b) \cap SameDay)' \subseteq InDay(OfAccount(a), d) \cup {c}
    BY <1>r DEF InDay, OfAccount, SameDay, Adds
  <2>4. \/ (InMonth(OfAccount(a), b) \cap SameMonth)'
             \subseteq InMonth(OfAccount(a), b) \cap SameMonth
        \/ AccountOf[p] = a
           /\ (InMonth(OfAccount(a), b) \cap SameMonth)' \subseteq InMonth(OfAccount(a), d) \cup {c}
    BY <1>r DEF InMonth, OfAccount, SameMonth, Adds
  <2>5. Cardinality(InDay(OfAccount(a), b) \cap SameDay)' <= AccountBudget[a].day.calls
    BY <1>2, <2>1, <2>2, <2>3, CapAfterAdd
  <2>6. Cardinality(InMonth(OfAccount(a), b) \cap SameMonth)' <= AccountBudget[a].month.calls
    BY <1>2, <2>1, <2>2, <2>4, CapAfterAdd
  <2> QED
    BY <2>5, <2>6
<1>4. ASSUME NEW a \in DOMAIN AccountBudget, NEW s \in Routes
      PROVE  Cardinality(OfAccount(a) \cap OfRoute(s))' <= AccountBudget[a].task.calls
  <2>1. /\ AccountBudget[a].task.calls \in Nat
        /\ Cardinality(OfAccount(a) \cap OfRoute(s)) <= AccountBudget[a].task.calls
        /\ OfAccount(a) \cap OfRoute(s) \subseteq Recorded
        /\ OfAccount(a) \cap OfRoute(r) \subseteq Recorded
    BY LedgerAssumption DEF CallCapsHold, IsCap, OfAccount
  <2>2. \/ (OfAccount(a) \cap OfRoute(s))' \subseteq OfAccount(a) \cap OfRoute(s)
        \/ AccountOf[p] = a /\ s = r
           /\ (OfAccount(a) \cap OfRoute(s))' \subseteq (OfAccount(a) \cap OfRoute(r)) \cup {c}
    BY <1>r DEF OfAccount, OfRoute, Adds
  <2> QED
    BY <1>2, <2>1, <2>2, CapAfterAdd
<1> QED
  BY <1>1, <1>3, <1>4 DEF CallCapsHold

\* Settling a row does not change what it counts for.
LEMMA SettleKeepsCaps ==
  ASSUME CallCapsHold, NEW c \in Calls, NEW s, s # "none", Settles(c, s)
  PROVE  CallCapsHold'
<1>1. /\ Recorded' = Recorded
      /\ \A e \in Recorded : /\ rows'[e].route = rows[e].route
                             /\ rows'[e].provider = rows[e].provider
                             /\ rows'[e].asOf = rows[e].asOf /\ rows'[e].day = rows[e].day
  BY DEF Recorded, Settles, Open
<1>2. SameDay' = SameDay /\ SameMonth' = SameMonth
  BY <1>1 DEF SameDay, SameMonth
<1>3. /\ \A q : OfProvider(q)' = OfProvider(q) /\ OfAccount(q)' = OfAccount(q)
      /\ \A q : OfRoute(q)' = OfRoute(q)
  BY <1>1 DEF OfProvider, OfAccount, OfRoute
<1>4. /\ \A q, d : InDay(OfProvider(q), d)' = InDay(OfProvider(q), d)
      /\ \A q, d : InMonth(OfProvider(q), d)' = InMonth(OfProvider(q), d)
      /\ \A q, d : InDay(OfAccount(q), d)' = InDay(OfAccount(q), d)
      /\ \A q, d : InMonth(OfAccount(q), d)' = InMonth(OfAccount(q), d)
  BY <1>1, <1>3 DEF InDay, InMonth, OfProvider, OfAccount
<1> QED
  BY <1>2, <1>3, <1>4 DEF CallCapsHold

-----------------------------------------------------------------------------
(* What a step leaves alone                                                *)

\* Neither the thread of s, nor its rows, nor its hold on the lock changes.
Untouched(s) ==
  /\ run'[s] = run[s] /\ (lock = s => lock' = s)
  /\ OfRoute(s)' = OfRoute(s) /\ \A c \in OfRoute(s) : rows'[c] = rows[c]

LEMMA UntouchedKeeps ==
  ASSUME NEW s \in Routes, RouteInv(s), Untouched(s)
  PROVE  RouteInv(s)'
<1>1. /\ run'[s] = run[s] /\ (lock = s => lock' = s) /\ OfRoute(s)' = OfRoute(s)
      /\ \A c \in OfRoute(s) : rows'[c] = rows[c]
  BY DEF Untouched
<1>2. Call(s)' = Call(s)
  BY <1>1 DEF Call
<1>3. OpenInv(s)'
  BY <1>1, <1>2 DEF RouteInv, OpenInv, At, Open
<1>4. CallInv(s)'
  <2>1. CASE run[s].pc \in {"reserved", "calling"}
    <3>1. Call(s) \in OfRoute(s)
      BY <2>1 DEF RouteInv, CallInv, OfRoute, Recorded, Open
    <3> QED
      BY <1>1, <1>2, <3>1 DEF RouteInv, CallInv, Open
  <2> QED
    BY <1>1, <2>1 DEF CallInv
<1>5. TryInv(s)' /\ LockInv(s)'
  BY <1>1 DEF RouteInv, TryInv, LockInv, MayCall
<1>6. EgressInv(s)'
  BY <1>1 DEF RouteInv, EgressInv
<1>7. PhaseInv(s)'
  BY <1>1 DEF RouteInv, PhaseInv, Executed, At, Active
<1>8. AcceptInv(s)'
  BY <1>1 DEF RouteInv, AcceptInv, Verified, At
<1> QED
  BY <1>3, <1>4, <1>5, <1>6, <1>7, <1>8 DEF RouteInv

LEMMA SameRowsOf ==
  ASSUME UNCHANGED rows, NEW s
  PROVE  /\ OfRoute(s)' = OfRoute(s) /\ Recorded' = Recorded
         /\ \A c : rows'[c] = rows[c] /\ (Open(c)' <=> Open(c))
BY DEF OfRoute, Recorded, Open

LEMMA ShapeTypes ==
  ASSUME Shape
  PROVE  /\ RowsShape /\ run \in [Routes -> Threads] /\ day \in 0..MaxDay /\ day \in Nat
         /\ lock \in Routes \cup {Nobody} /\ MaxProviderCalls \in Nat
         /\ \A r \in Routes : /\ run[r] \in Threads /\ run[r].asOf \in 0..day
                              /\ run[r].calls + run[r].attempts \in 0..MaxProviderCalls
BY LedgerAssumption, RouteAssumption DEF Shape, RowsShape, TypeOK

\* The thread r goes on as w; the ledger stays.
LEMMA ThreadStep ==
  ASSUME IInv, NEW r \in Routes, NEW w \in Threads, run' = [run EXCEPT ![r] = w],
         UNCHANGED ledger, w.asOf \in 0..day, w.calls + w.attempts \in 0..MaxProviderCalls,
         lock' \in Routes \cup {Nobody}, \A s \in Routes \ {r} : lock = s => lock' = s,
         RouteInv(r)'
  PROVE  IInv'
<1>t. RowsShape /\ run \in [Routes -> Threads] /\ TypeOK /\ \A s \in Routes : RouteInv(s)
  BY ShapeTypes DEF IInv, Shape
<1>1. /\ rows' = rows /\ day' = day
      /\ run'[r] = w /\ \A s \in Routes \ {r} : run'[s] = run[s]
      /\ run' \in [Routes -> Threads]
  BY <1>t DEF ledger
<1>2. \A s \in Routes \ {r} : RouteInv(s)'
  BY <1>t, <1>1, SameRowsOf, UntouchedKeeps DEF Untouched
<1>3. TypeOK'
  BY <1>t, <1>1, SameRowsOf DEF TypeOK, Threads
<1>4. RowsShape'
  BY <1>t, <1>1 DEF RowsShape
<1> QED
  BY <1>1, <1>2, <1>3, <1>4 DEF IInv, Shape, RowsShape

-----------------------------------------------------------------------------
(* Steps that leave the ledger alone                                       *)

\* The thread of r may go on as w with the calls and the request it has.
Carries(r, w) ==
  LET u == run[r]
  IN /\ Active(r) /\ w.pc # "new"
     /\ w.req = u.req /\ w.calls = u.calls /\ w.attempts = u.attempts
     /\ u.pc \in {"reserved", "calling"} => w.pc \in {"calling", "raised"}
     /\ w.pc \in {"reserved", "calling"} =>
          u.pc \in {"reserved", "calling"} /\ w.provider = u.provider

LEMMA CallsCarried ==
  ASSUME IInv, NEW r \in Routes, NEW w, run'[r] = w, Carries(r, w), UNCHANGED rows
  PROVE  OpenInv(r)' /\ CallInv(r)' /\ EgressInv(r)'
<1>1. OpenInv(r) /\ CallInv(r) /\ EgressInv(r)
  BY DEF IInv, RouteInv
<1>2. Call(r)' = Call(r)
  BY DEF Call, Carries
<1>3. OfRoute(r)' = OfRoute(r) /\ \A c : rows'[c] = rows[c] /\ (Open(c)' <=> Open(c))
  BY SameRowsOf
<1>4. OpenInv(r)'
  BY <1>1, <1>2, <1>3 DEF OpenInv, Carries, At, Active, Ended
<1>5. CallInv(r)'
  BY <1>1, <1>2, <1>3 DEF CallInv, Carries
<1>6. EgressInv(r)'
  BY <1>1, <1>3 DEF EgressInv, Carries
<1> QED
  BY <1>4, <1>5, <1>6

\* The result keeps what supports it.
LEMMA ResultCarried ==
  ASSUME NEW r \in Routes, UNCHANGED rows, run'[r].result = run[r].result
  PROVE  (Executed(r)' <=> Executed(r)) /\ (Verified(r)' <=> Verified(r))
BY SameRowsOf DEF Executed, Verified

\* The thread r goes on as w, and the ledger stays; the lock stays, is taken by
\* r or given back by r.
Quiet(r, w) ==
  /\ run' = [run EXCEPT ![r] = w] /\ UNCHANGED ledger
  /\ \/ UNCHANGED lock
     \/ Release(r)
     \/ lock = Nobody /\ lock' = r

LEMMA QuietStep ==
  ASSUME IInv, NEW r \in Routes, NEW w \in Threads, Carries(r, w), Quiet(r, w),
         w.asOf \in 0..day,
         TryInv(r)', LockInv(r)', PhaseInv(r)', AcceptInv(r)'
  PROVE  IInv'
<1>1. /\ w.calls + w.attempts \in 0..MaxProviderCalls
      /\ run \in [Routes -> Threads] /\ lock \in Routes \cup {Nobody}
  BY ShapeTypes DEF IInv, Carries
<1>2. run'[r] = w /\ UNCHANGED rows
  BY <1>1 DEF Quiet, ledger
<1>3. OpenInv(r)' /\ CallInv(r)' /\ EgressInv(r)'
  BY <1>2, CallsCarried
<1>4. lock' \in Routes \cup {Nobody} /\ \A s \in Routes \ {r} : lock = s => lock' = s
  BY <1>1, RouteAssumption DEF Quiet, Release
<1> QED
  BY <1>1, <1>3, <1>4, ThreadStep DEF Quiet, RouteInv

LEMMA ThreadOf ==
  ASSUME IInv, NEW r \in Routes
  PROVE  /\ run[r] \in Threads /\ run[r].asOf \in 0..day /\ 0 \in 0..day /\ day \in Nat
         /\ run \in [Routes -> Threads] /\ RouteInv(r)
BY ShapeTypes DEF IInv

LEMMA TailIsRoles ==
  ASSUME NEW s \in RoleSeqs, s # <<>>
  PROVE  Tail(s) \in RoleSeqs /\ Len(s) \in Nat \ {0} /\ Len(Tail(s)) = Len(s) - 1
BY DEF RoleSeqs

LEMMA NextRoleStep == ASSUME IInv, NEW r \in Routes, NextRole(r) PROVE IInv'
<1> DEFINE u == run[r]
<1>t. u \in Threads /\ u.pc = "role" /\ RouteInv(r) /\ u.asOf \in 0..day
  BY ThreadOf DEF NextRole, At
<1>1. CASE u.roles = <<>> \/ u.iterations >= MaxIterations
  <2>1. PICK w : w = [u EXCEPT !.pc = "escalate"]
    OBVIOUS
  <2>2. w \in Threads /\ Carries(r, w) /\ w.asOf \in 0..day
    BY <1>t, <2>1 DEF Threads, Carries, ActivePcs, Active, Ended
  <2>3. Quiet(r, w) /\ run'[r] = w /\ UNCHANGED rows
    BY <1>1, <2>1, ThreadOf DEF NextRole, Goto, Quiet, ledger
  <2>4. TryInv(r)' /\ LockInv(r)' /\ PhaseInv(r)' /\ AcceptInv(r)'
    BY <1>t, <2>1, <2>3, ResultCarried
       DEF RouteInv, TryInv, LockInv, PhaseInv, AcceptInv, At, Threads, Active, Ended
  <2> QED
    BY <2>2, <2>3, <2>4, QuietStep
<1>2. CASE ~(u.roles = <<>> \/ u.iterations >= MaxIterations)
  <2>1. PICK w : w = [u EXCEPT !.roles = Tail(@), !.iterations = @ + 1,
                               !.todo = CandidatesFor(Head(u.roles), u.req),
                               !.pc = "candidate"]
    OBVIOUS
  <2>r. u.roles \in RoleSeqs /\ u.iterations \in Nat /\ u.roles # <<>>
    BY <1>t, <1>2 DEF Threads
  <2>t. /\ Tail(u.roles) \in RoleSeqs /\ u.iterations + 1 \in Nat
        /\ CandidatesFor(Head(u.roles), u.req) \subseteq Providers
    BY <2>r, TailIsRoles DEF CandidatesFor
  <2>s. PICK t \in RoleSeqs, n \in Nat, C \in SUBSET Providers :
          /\ t = Tail(u.roles) /\ n = u.iterations + 1
          /\ C = CandidatesFor(Head(u.roles), u.req)
    BY <2>t
  <2>2. w \in Threads
    BY <1>t, <2>s, <2>1 DEF Threads, ActivePcs
  <2>c. Carries(r, w) /\ w.asOf \in 0..day
    BY <1>t, <2>s, <2>1 DEF Threads, Carries, Active, Ended
  <2>3. Quiet(r, w) /\ run'[r] = w /\ UNCHANGED rows
    BY <1>2, <2>1, ThreadOf DEF NextRole, Set, Quiet, ledger
  <2>4. TryInv(r)' /\ LockInv(r)' /\ PhaseInv(r)' /\ AcceptInv(r)'
    BY <1>t, <2>1, <2>3, ResultCarried
       DEF RouteInv, TryInv, LockInv, PhaseInv, AcceptInv, At, Threads, Active, Ended
  <2> QED
    BY <2>2, <2>3, <2>4, <2>c, QuietStep
<1> QED
  BY <1>1, <1>2

\* The locals of a thread that gives up its candidate, and of one that ends.
LEMMA GivenUp ==
  ASSUME IInv, NEW r \in Routes, NEW w, w = GiveUp(r)
  PROVE  /\ w \in Threads /\ w.pc = "candidate" /\ w.asOf = 0 /\ w.provider = Nobody
         /\ w.todo = run[r].todo \ {run[r].provider} /\ w.todo \subseteq run[r].todo
         /\ w.req = run[r].req /\ w.phase = run[r].phase /\ w.roles = run[r].roles
         /\ w.calls = run[r].calls /\ w.attempts = run[r].attempts
         /\ w.result = run[r].result /\ w.verdict = run[r].verdict
         /\ w.status = run[r].status
<1>1. run[r] \in Threads
  BY ThreadOf
<1> QED
  BY <1>1 DEF GiveUp, Threads, ActivePcs

LEMMA ClosedFields ==
  ASSUME NEW u \in Threads, NEW pc \in {"done", "raised"}, NEW w, w = Closed(u, pc)
  PROVE  /\ w \in Threads /\ w.pc = pc /\ w.asOf = 0 /\ w.provider = Nobody /\ w.todo = {}
         /\ w.req = u.req /\ w.phase = u.phase
         /\ w.calls = u.calls /\ w.attempts = u.attempts
         /\ w.result = u.result /\ w.verdict = u.verdict /\ w.status = u.status
<1>1. <<>> \in RoleSeqs
  BY DEF RoleSeqs
<1>2. PICK none \in RoleSeqs : none = <<>>
  BY <1>1
<1>3. w = [u EXCEPT !.pc = pc, !.roles = none, !.todo = {}, !.provider = Nobody, !.asOf = 0]
  BY <1>2 DEF Closed
<1>4. /\ w.pc = pc /\ w.asOf = 0 /\ w.provider = Nobody /\ w.todo = {} /\ w.roles = none
      /\ w.req = u.req /\ w.phase = u.phase /\ w.iterations = u.iterations
      /\ w.calls = u.calls /\ w.attempts = u.attempts
      /\ w.result = u.result /\ w.verdict = u.verdict /\ w.status = u.status
  BY <1>3 DEF Threads
<1>5. PICK v : v = [u EXCEPT !.pc = pc, !.todo = {}, !.provider = Nobody, !.asOf = 0]
  OBVIOUS
<1>v. v \in Threads
  BY <1>5 DEF Threads, Ended
<1>6. w = [v EXCEPT !.roles = none]
  BY <1>3, <1>5, <1>v DEF Threads
<1>7. none \in RoleSeqs
  BY <1>2
<1>8. w \in Threads
  BY <1>v, <1>6, <1>7 DEF Threads
<1> QED
  BY <1>4, <1>8

LEMMA FinishedFields ==
  ASSUME NEW u \in Threads, NEW status \in {"routed", "escalated"},
         NEW result \in Providers \cup {Nobody}, NEW w, w = FinishRun(u, status, result)
  PROVE  /\ w \in Threads /\ w.pc = "done" /\ w.asOf = 0 /\ w.provider = Nobody
         /\ w.todo = {} /\ w.req = u.req /\ w.phase = u.phase
         /\ w.calls = u.calls /\ w.attempts = u.attempts
         /\ w.result = result /\ w.verdict = u.verdict /\ w.status = status
<1>1. PICK c : c = Closed(u, "done")
  OBVIOUS
<1>2. w = [c EXCEPT !.status = status, !.result = result]
  BY <1>1 DEF FinishRun
<1>3. c \in Threads
  BY <1>1, ClosedFields
<1>4. /\ w \in Threads /\ w.status = status /\ w.result = result
      /\ w.pc = c.pc /\ w.asOf = c.asOf /\ w.provider = c.provider /\ w.todo = c.todo
      /\ w.req = c.req /\ w.phase = c.phase /\ w.calls = c.calls
      /\ w.attempts = c.attempts /\ w.verdict = c.verdict
  BY <1>2, <1>3 DEF Threads
<1> QED
  BY <1>1, <1>4, ClosedFields

LEMMA CandidateSteps ==
  ASSUME IInv, NEW r \in Routes,
         \/ RoleExhausted(r)
         \/ NoVerifier(r)
         \/ \E p \in Providers : Skip(r, p)
         \/ \E p \in Providers : LimitReached(r, p)
         \/ \E p \in Providers : Choose(r, p)
  PROVE  IInv'
<1> DEFINE u == run[r]
<1>t. /\ u \in Threads /\ RouteInv(r) /\ u.asOf \in 0..day /\ 0 \in 0..day /\ day \in Nat
      /\ run \in [Routes -> Threads]
  BY ThreadOf
<1>1. ASSUME RoleExhausted(r) PROVE IInv'
  <2>1. PICK w : w = [u EXCEPT !.pc = "role"]
    OBVIOUS
  <2>2. w \in Threads /\ w.asOf \in 0..day /\ Carries(r, w)
    BY <1>t, <1>1, <2>1 DEF Threads, ActivePcs, Carries, Active, Ended, RoleExhausted, At
  <2>3. Quiet(r, w) /\ run'[r] = w /\ UNCHANGED rows
    BY <1>t, <1>1, <2>1 DEF Quiet, ledger, RoleExhausted, Goto
  <2>4. TryInv(r)' /\ LockInv(r)'
    BY <1>t, <1>1, <2>1, <2>3 DEF RouteInv, TryInv, LockInv, MayCall, At, Threads, RoleExhausted
  <2>5. PhaseInv(r)'
    BY <1>t, <1>1, <2>1, <2>3, ResultCarried
       DEF RouteInv, PhaseInv, At, Threads, Active, Ended, RoleExhausted
  <2>6. AcceptInv(r)'
    BY <1>t, <1>1, <2>1, <2>3, ResultCarried
       DEF RouteInv, AcceptInv, At, Threads, Active, Ended, RoleExhausted
  <2> QED
    BY <2>2, <2>3, <2>4, <2>5, <2>6, QuietStep
<1>2. ASSUME NoVerifier(r) PROVE IInv'
  <2>1. PICK w : w = [u EXCEPT !.pc = "escalate"]
    OBVIOUS
  <2>2. w \in Threads /\ w.asOf \in 0..day /\ Carries(r, w)
    BY <1>t, <1>2, <2>1 DEF Threads, ActivePcs, Carries, Active, Ended, NoVerifier, At
  <2>3. Quiet(r, w) /\ run'[r] = w /\ UNCHANGED rows
    BY <1>t, <1>2, <2>1 DEF Quiet, ledger, NoVerifier, Goto
  <2>4. TryInv(r)' /\ LockInv(r)'
    BY <1>t, <1>2, <2>1, <2>3 DEF RouteInv, TryInv, LockInv, MayCall, At, Threads, NoVerifier
  <2>5. PhaseInv(r)'
    BY <1>t, <1>2, <2>1, <2>3, ResultCarried
       DEF RouteInv, PhaseInv, At, Threads, Active, Ended, NoVerifier
  <2>6. AcceptInv(r)'
    BY <1>t, <1>2, <2>1, <2>3, ResultCarried
       DEF RouteInv, AcceptInv, At, Threads, Active, Ended, NoVerifier
  <2> QED
    BY <2>2, <2>3, <2>4, <2>5, <2>6, QuietStep
<1>3. ASSUME NEW p \in Providers, Skip(r, p) PROVE IInv'
  <2>1. PICK w : w = [u EXCEPT !.todo = @ \ {p}]
    OBVIOUS
  <2>2. w \in Threads /\ w.asOf \in 0..day /\ Carries(r, w)
    BY <1>t, <1>3, <2>1 DEF Threads, ActivePcs, Carries, Active, Ended, Skip, At
  <2>3. Quiet(r, w) /\ run'[r] = w /\ UNCHANGED rows
    BY <1>t, <1>3, <2>1 DEF Quiet, ledger, Skip
  <2>4. TryInv(r)' /\ LockInv(r)'
    BY <1>t, <1>3, <2>1, <2>3 DEF RouteInv, TryInv, LockInv, MayCall, At, Threads, Skip
  <2>5. PhaseInv(r)'
    BY <1>t, <1>3, <2>1, <2>3, ResultCarried
       DEF RouteInv, PhaseInv, At, Threads, Active, Ended, Skip
  <2>6. AcceptInv(r)'
    BY <1>t, <1>3, <2>1, <2>3, ResultCarried
       DEF RouteInv, AcceptInv, At, Threads, Active, Ended, Skip
  <2> QED
    BY <2>2, <2>3, <2>4, <2>5, <2>6, QuietStep
<1>4. ASSUME NEW p \in Providers, LimitReached(r, p) PROVE IInv'
  <2>1. PICK w : w = [u EXCEPT !.todo = {},
                               !.pc = IF u.phase = "check" THEN "escalate" ELSE @]
    OBVIOUS
  <2>2. w \in Threads /\ w.asOf \in 0..day /\ Carries(r, w)
    BY <1>t, <1>4, <2>1 DEF Threads, ActivePcs, Carries, Active, Ended, LimitReached, At
  <2>3. Quiet(r, w) /\ run'[r] = w /\ UNCHANGED rows
    BY <1>t, <1>4, <2>1 DEF Quiet, ledger, LimitReached, Set
  <2>4. TryInv(r)' /\ LockInv(r)'
    BY <1>t, <1>4, <2>1, <2>3 DEF RouteInv, TryInv, LockInv, MayCall, At, Threads, LimitReached
  <2>5. PhaseInv(r)'
    BY <1>t, <1>4, <2>1, <2>3, ResultCarried
       DEF RouteInv, PhaseInv, At, Threads, Active, Ended, LimitReached
  <2>6. AcceptInv(r)'
    BY <1>t, <1>4, <2>1, <2>3, ResultCarried
       DEF RouteInv, AcceptInv, At, Threads, Active, Ended, LimitReached
  <2> QED
    BY <2>2, <2>3, <2>4, <2>5, <2>6, QuietStep
<1>5. ASSUME NEW p \in Providers, Choose(r, p) PROVE IInv'
  <2>1. PICK k \in {"lock", "reserve"}, d \in {0, day} :
           k = (IF p \in Local THEN "lock" ELSE "reserve")
           /\ d = (IF p \in Local THEN 0 ELSE day)
    OBVIOUS
  <2>w. PICK w : w = [u EXCEPT !.pc = k, !.provider = p, !.asOf = d]
    OBVIOUS
  <2>d. d \in Nat /\ d \in 0..day
    BY <1>t, <2>1
  <2>2. w \in Threads /\ w.asOf = d
    BY <1>t, <2>d, <2>w DEF Threads, ActivePcs
  <2>3. Quiet(r, w) /\ run'[r] = w /\ UNCHANGED rows
    BY <1>t, <1>5, <2>1, <2>w DEF Quiet, ledger, Choose, Set
  <2>f. /\ w.pc = k /\ w.provider = p /\ w.req = u.req /\ w.todo = u.todo
        /\ w.phase = u.phase /\ w.calls = u.calls /\ w.attempts = u.attempts
        /\ w.result = u.result /\ w.status = u.status /\ u.pc = "candidate" /\ p \in u.todo
    BY <1>t, <1>5, <2>w DEF Threads, Choose, At
  <2>c. Carries(r, w)
    BY <2>f DEF Carries, Active, Ended
  <2>4. TryInv(r)' /\ LockInv(r)'
    BY <1>t, <1>5, <2>1, <2>f, <2>3 DEF TryInv, LockInv, MayCall, Choose, CallsLeft
  <2>5. PhaseInv(r)'
    BY <1>t, <2>f, <2>3, ResultCarried DEF RouteInv, PhaseInv, At, Active, Ended
  <2>6. AcceptInv(r)'
    BY <1>t, <2>f, <2>3 DEF RouteInv, AcceptInv, At
  <2> QED
    BY <2>d, <2>2, <2>3, <2>4, <2>5, <2>6, <2>c, QuietStep
<1> QED
  BY <1>1, <1>2, <1>3, <1>4, <1>5

LEMMA WaitSteps ==
  ASSUME IInv, NEW r \in Routes,
         \/ AcquireLock(r)
         \/ LockTimeout(r)
         \/ BudgetBlock(r)
         \/ StartCall(r)
  PROVE  IInv'
<1> DEFINE u == run[r]
<1>t. /\ u \in Threads /\ RouteInv(r) /\ u.asOf \in 0..day /\ 0 \in 0..day /\ day \in Nat
      /\ run \in [Routes -> Threads]
  BY ThreadOf
<1>1. ASSUME AcquireLock(r) PROVE IInv'
  <2>1. PICK w : w = [u EXCEPT !.pc = "reserve", !.asOf = day]
    OBVIOUS
  <2>d. PICK d \in Nat : d = day
    BY <1>t
  <2>e. w = [u EXCEPT !.pc = "reserve", !.asOf = d] /\ d \in Nat
    BY <2>d, <2>1
  <2>2. w \in Threads /\ w.asOf = d
    BY <1>t, <2>e DEF Threads, ActivePcs
  <2>i. w.asOf \in 0..day
    BY <1>t, <2>d, <2>2
  <2>c. Carries(r, w)
    BY <1>t, <1>1, <2>1 DEF Threads, Carries, Active, Ended, AcquireLock, At
  <2>3. Quiet(r, w) /\ run'[r] = w /\ UNCHANGED rows
    BY <1>t, <1>1, <2>1 DEF Quiet, ledger, AcquireLock, Set
  <2>4. TryInv(r)' /\ LockInv(r)'
    BY <1>t, <1>1, <2>1, <2>3 DEF RouteInv, TryInv, LockInv, MayCall, At, Threads, AcquireLock
  <2>5. PhaseInv(r)'
    BY <1>t, <1>1, <2>1, <2>3, ResultCarried
       DEF RouteInv, PhaseInv, At, Threads, Active, Ended, AcquireLock
  <2>6. AcceptInv(r)'
    BY <1>t, <1>1, <2>1, <2>3, ResultCarried
       DEF RouteInv, AcceptInv, At, Threads, Active, Ended, AcquireLock
  <2> QED
    BY <2>2, <2>3, <2>4, <2>5, <2>6, <2>c, <2>i, QuietStep
<1>2. ASSUME LockTimeout(r) PROVE IInv'
  <2>1. PICK w : w = GiveUp(r)
    OBVIOUS
  <2>2. w \in Threads /\ w.asOf \in 0..day /\ Carries(r, w)
    BY <1>t, <1>2, <2>1, GivenUp DEF Threads, ActivePcs, Carries, Active, Ended, LockTimeout, At
  <2>3. Quiet(r, w) /\ run'[r] = w /\ UNCHANGED rows
    BY <1>t, <1>2, <2>1 DEF Quiet, ledger, LockTimeout, Set
  <2>4. TryInv(r)' /\ LockInv(r)'
    BY <1>t, <1>2, <2>1, GivenUp, <2>3 DEF RouteInv, TryInv, LockInv, MayCall, At, Threads, LockTimeout
  <2>5. PhaseInv(r)'
    BY <1>t, <1>2, <2>1, GivenUp, <2>3, ResultCarried
       DEF RouteInv, PhaseInv, At, Threads, Active, Ended, LockTimeout
  <2>6. AcceptInv(r)'
    BY <1>t, <1>2, <2>1, GivenUp, <2>3, ResultCarried
       DEF RouteInv, AcceptInv, At, Threads, Active, Ended, LockTimeout
  <2> QED
    BY <2>2, <2>3, <2>4, <2>5, <2>6, QuietStep
<1>3. ASSUME BudgetBlock(r) PROVE IInv'
  <2>1. PICK w : w = GiveUp(r)
    OBVIOUS
  <2>2. w \in Threads /\ w.asOf \in 0..day /\ Carries(r, w)
    BY <1>t, <1>3, <2>1, GivenUp DEF Threads, ActivePcs, Carries, Active, Ended, BudgetBlock, At
  <2>3. Quiet(r, w) /\ run'[r] = w /\ UNCHANGED rows
    BY <1>t, <1>3, <2>1 DEF Quiet, ledger, BudgetBlock, Set
  <2>4. TryInv(r)' /\ LockInv(r)'
    BY <1>t, <1>3, <2>1, GivenUp, <2>3 DEF RouteInv, TryInv, LockInv, MayCall, At, Threads, BudgetBlock
  <2>5. PhaseInv(r)'
    BY <1>t, <1>3, <2>1, GivenUp, <2>3, ResultCarried
       DEF RouteInv, PhaseInv, At, Threads, Active, Ended, BudgetBlock
  <2>6. AcceptInv(r)'
    BY <1>t, <1>3, <2>1, GivenUp, <2>3, ResultCarried
       DEF RouteInv, AcceptInv, At, Threads, Active, Ended, BudgetBlock
  <2> QED
    BY <2>2, <2>3, <2>4, <2>5, <2>6, QuietStep
<1>4. ASSUME StartCall(r) PROVE IInv'
  <2>1. PICK w : w = [u EXCEPT !.pc = "calling"]
    OBVIOUS
  <2>2. w \in Threads /\ w.asOf \in 0..day /\ Carries(r, w)
    BY <1>t, <1>4, <2>1 DEF Threads, ActivePcs, Carries, Active, Ended, StartCall, At
  <2>3. Quiet(r, w) /\ run'[r] = w /\ UNCHANGED rows
    BY <1>t, <1>4, <2>1 DEF Quiet, ledger, StartCall, Goto
  <2>4. TryInv(r)' /\ LockInv(r)'
    BY <1>t, <1>4, <2>1, <2>3 DEF RouteInv, TryInv, LockInv, MayCall, At, Threads, StartCall
  <2>5. PhaseInv(r)'
    BY <1>t, <1>4, <2>1, <2>3, ResultCarried
       DEF RouteInv, PhaseInv, At, Threads, Active, Ended, StartCall
  <2>6. AcceptInv(r)'
    BY <1>t, <1>4, <2>1, <2>3, ResultCarried
       DEF RouteInv, AcceptInv, At, Threads, Active, Ended, StartCall
  <2> QED
    BY <2>2, <2>3, <2>4, <2>5, <2>6, QuietStep
<1> QED
  BY <1>1, <1>2, <1>3, <1>4

LEMMA EndSteps ==
  ASSUME IInv, NEW r \in Routes,
         \/ SuccessfulDecision(r)
         \/ HumanEscalation(r)
         \/ DatabaseFails(r)
  PROVE  IInv'
<1> DEFINE u == run[r]
<1>t. /\ u \in Threads /\ RouteInv(r) /\ u.asOf \in 0..day /\ 0 \in 0..day /\ day \in Nat
      /\ run \in [Routes -> Threads]
  BY ThreadOf
<1>1. ASSUME SuccessfulDecision(r) PROVE IInv'
  <2>1. PICK w : w = FinishRun(u, "routed", u.result)
    OBVIOUS
  <2>f. w.pc = "done"
    BY <1>t, <2>1, FinishedFields DEF Threads
  <2>2. w \in Threads /\ w.asOf \in 0..day /\ Carries(r, w)
    BY <1>t, <1>1, <2>1, FinishedFields DEF Threads, ActivePcs, Carries, Active, Ended, SuccessfulDecision, At
  <2>3. Quiet(r, w) /\ run'[r] = w /\ UNCHANGED rows
    BY <1>t, <1>1, <2>1 DEF Quiet, ledger, SuccessfulDecision, Set
  <2>4. TryInv(r)' /\ LockInv(r)'
    BY <1>t, <1>1, <2>1, FinishedFields, <2>3 DEF RouteInv, TryInv, LockInv, MayCall, At, Threads, SuccessfulDecision
  <2>5. PhaseInv(r)'
    BY <2>f, <2>3 DEF PhaseInv, At, Active, Ended
  <2>6. AcceptInv(r)'
    BY <1>t, <1>1, <2>1, FinishedFields, <2>3, ResultCarried
       DEF RouteInv, AcceptInv, At, Threads, Active, Ended, SuccessfulDecision
  <2> QED
    BY <2>2, <2>3, <2>4, <2>5, <2>6, QuietStep
<1>2. ASSUME HumanEscalation(r) PROVE IInv'
  <2>1. PICK w : w = FinishRun(u, "escalated", Nobody)
    OBVIOUS
  <2>2. w \in Threads /\ w.asOf \in 0..day /\ Carries(r, w)
    BY <1>t, <1>2, <2>1, FinishedFields DEF Threads, ActivePcs, Carries, Active, Ended, HumanEscalation, At
  <2>3. Quiet(r, w) /\ run'[r] = w /\ UNCHANGED rows
    BY <1>t, <1>2, <2>1 DEF Quiet, ledger, HumanEscalation, Set
  <2>4. TryInv(r)' /\ LockInv(r)'
    BY <1>t, <1>2, <2>1, FinishedFields, <2>3 DEF RouteInv, TryInv, LockInv, MayCall, At, Threads, HumanEscalation
  <2>5. PhaseInv(r)'
    BY <1>t, <1>2, <2>1, FinishedFields, <2>3, ResultCarried
       DEF RouteInv, PhaseInv, At, Threads, Active, Ended, HumanEscalation
  <2>6. AcceptInv(r)'
    BY <1>t, <1>2, <2>1, FinishedFields, <2>3, ResultCarried
       DEF RouteInv, AcceptInv, At, Threads, Active, Ended, HumanEscalation
  <2> QED
    BY <2>2, <2>3, <2>4, <2>5, <2>6, QuietStep
<1>3. ASSUME DatabaseFails(r) PROVE IInv'
  <2>1. PICK w : w = Closed(u, "raised")
    OBVIOUS
  <2>2. w \in Threads /\ w.asOf \in 0..day /\ Carries(r, w)
    BY <1>t, <1>3, <2>1, ClosedFields DEF Threads, ActivePcs, Carries, Active, Ended, DatabaseFails, At
  <2>3. Quiet(r, w) /\ run'[r] = w /\ UNCHANGED rows
    BY <1>t, <1>3, <2>1 DEF Quiet, ledger, DatabaseFails, Set
  <2>4. TryInv(r)' /\ LockInv(r)'
    BY <1>t, <1>3, <2>1, ClosedFields, <2>3 DEF RouteInv, TryInv, LockInv, MayCall, At, Threads, DatabaseFails
  <2>5. PhaseInv(r)'
    BY <1>t, <1>3, <2>1, ClosedFields, <2>3, ResultCarried
       DEF RouteInv, PhaseInv, At, Threads, Active, Ended, DatabaseFails
  <2>6. AcceptInv(r)'
    BY <1>t, <1>3, <2>1, ClosedFields, <2>3, ResultCarried
       DEF RouteInv, AcceptInv, At, Threads, Active, Ended, DatabaseFails
  <2> QED
    BY <2>2, <2>3, <2>4, <2>5, <2>6, QuietStep
<1> QED
  BY <1>1, <1>2, <1>3

LEMMA BeginVerifyStep == ASSUME IInv, NEW r \in Routes, BeginVerify(r) PROVE IInv'
<1> DEFINE u == run[r]
<1>t. /\ u \in Threads /\ RouteInv(r) /\ u.asOf \in 0..day /\ 0 \in 0..day /\ day \in Nat
      /\ run \in [Routes -> Threads] /\ u.pc = "verify" /\ u.phase = "run"
  BY ThreadOf DEF BeginVerify, At, RouteInv, PhaseInv
<1>1. CASE Goto(r, "escalate")
  <2>1. PICK w : w = [u EXCEPT !.pc = "escalate"]
    OBVIOUS
  <2>2. w \in Threads /\ Carries(r, w) /\ w.asOf \in 0..day
    BY <1>t, <2>1 DEF Threads, Carries, ActivePcs, Active, Ended
  <2>3. Quiet(r, w) /\ run'[r] = w /\ UNCHANGED rows
    BY <1>t, <1>1, <2>1 DEF Quiet, ledger, BeginVerify, Goto
  <2>4. TryInv(r)' /\ LockInv(r)' /\ PhaseInv(r)' /\ AcceptInv(r)'
    BY <1>t, <2>1, <2>3, ResultCarried
       DEF RouteInv, TryInv, LockInv, PhaseInv, AcceptInv, At, Threads, Active, Ended
  <2> QED
    BY <2>2, <2>3, <2>4, QuietStep
<1>2. CASE Set(r, [u EXCEPT !.phase = "check", !.pc = "candidate", !.provider = Nobody,
                            !.todo = VerifiersFor(u.result, u.req)])
  <2>1. PICK C \in SUBSET Providers : C = VerifiersFor(u.result, u.req)
    BY DEF VerifiersFor
  <2>w. PICK w : w = [u EXCEPT !.phase = "check", !.pc = "candidate", !.provider = Nobody,
                              !.todo = C]
    OBVIOUS
  <2>c. C \in SUBSET Providers
    BY <2>1
  <2>2. w \in Threads
    BY <1>t, <2>c, <2>w DEF Threads, ActivePcs
  <2>3. Quiet(r, w) /\ run'[r] = w /\ UNCHANGED rows
    BY <1>t, <1>2, <2>1, <2>w DEF Quiet, ledger, BeginVerify, Set
  <2>f. /\ w.pc = "candidate" /\ w.phase = "check" /\ w.todo = C /\ w.req = u.req
        /\ w.calls = u.calls /\ w.attempts = u.attempts /\ w.result = u.result
        /\ w.status = u.status /\ w.asOf = u.asOf
    BY <1>t, <2>w DEF Threads
  <2>4. Carries(r, w) /\ w.asOf \in 0..day
    BY <1>t, <2>f DEF Carries, Active, Ended
  <2>5. TryInv(r)' /\ LockInv(r)'
    BY <2>f, <2>3 DEF TryInv, LockInv
  <2>6. PhaseInv(r)'
    BY <1>t, <2>1, <2>f, <2>3, ResultCarried DEF RouteInv, PhaseInv, At, Active, Ended
  <2>7. AcceptInv(r)'
    BY <1>t, <2>f, <2>3 DEF RouteInv, AcceptInv, At
  <2> QED
    BY <2>2, <2>3, <2>4, <2>5, <2>6, <2>7, QuietStep
<1> QED
  BY <1>1, <1>2 DEF BeginVerify

-----------------------------------------------------------------------------
(* Starting, and the death of the daemon                                   *)

LEMMA Tuples ==
  ASSUME NEW S, NEW a \in S, NEW b \in S, NEW c \in S, NEW d \in S
  PROVE  /\ <<a>> \in Seq(S) /\ <<a, b>> \in Seq(S)
         /\ <<a, b, c>> \in Seq(S) /\ <<a, b, c, d>> \in Seq(S)
OBVIOUS

LEMMA PlanIsRoles == ASSUME NEW q PROVE Plan(q) \in RoleSeqs
<1>1. /\ "TINY" \in Roles /\ "LOCAL_OPS" \in Roles /\ "REASONING" \in Roles
      /\ "PREMIUM" \in Roles /\ "CODER" \in Roles /\ "EMBEDDING" \in Roles
      /\ "RERANKER" \in Roles
  BY DEF Roles
<1>2. <<>> \in RoleSeqs
  BY DEF RoleSeqs
<1>3. <<"EMBEDDING">> \in RoleSeqs /\ <<"RERANKER">> \in RoleSeqs
  BY <1>1, Tuples DEF RoleSeqs
<1>4. <<"CODER", "PREMIUM">> \in RoleSeqs
  BY <1>1, Tuples DEF RoleSeqs
<1>5. <<"PREMIUM">> \in RoleSeqs /\ <<"REASONING", "PREMIUM">> \in RoleSeqs
  BY <1>1, Tuples DEF RoleSeqs
<1>6. /\ <<"TINY", "LOCAL_OPS", "REASONING", "PREMIUM">> \in RoleSeqs
      /\ <<"LOCAL_OPS", "REASONING", "PREMIUM">> \in RoleSeqs
  BY <1>1, Tuples DEF RoleSeqs
<1>7. TiersFor(q) \in RoleSeqs
  BY <1>5, <1>6 DEF TiersFor, Tiers
<1> QED
  BY <1>2, <1>3, <1>4, <1>7 DEF Plan

LEMMA StartRunStep ==
  ASSUME IInv, NEW r \in Routes, NEW q \in Requests, StartRun(r, q) PROVE IInv'
<1>t. /\ RouteInv(r) /\ 0 \in 0..day /\ run \in [Routes -> Threads] /\ run[r].pc = "new"
      /\ MaxProviderCalls \in Nat /\ lock \in Routes \cup {Nobody}
  BY ThreadOf, ShapeTypes DEF StartRun, At, IInv
<1>1. PICK k \in {"accept", "role"}, plan \in RoleSeqs :
        k = (IF q.deterministic THEN "accept" ELSE "role") /\ plan = Plan(q)
  BY PlanIsRoles
<1>2. PICK w : w = [Idle EXCEPT !.req = q, !.roles = plan, !.pc = k, !.status = "running"]
  OBVIOUS
<1>p. plan \in RoleSeqs /\ k \in {"accept", "role"}
  BY <1>1
<1>3. w = [pc |-> k, req |-> q, phase |-> "run", roles |-> plan,
           iterations |-> 0, calls |-> 0, attempts |-> 0, todo |-> {},
           provider |-> Nobody, asOf |-> 0, result |-> Nobody,
           verdict |-> "none", status |-> "running"]
  BY <1>2 DEF Idle
<1>4. w \in Threads
  BY <1>p, <1>3 DEF Threads, ActivePcs
<1>5. run' = [run EXCEPT ![r] = w] /\ run'[r] = w /\ UNCHANGED <<ledger, lock, rows>>
  BY <1>1, <1>2, <1>t DEF StartRun, Set, ledger
<1>6. OfRoute(r)' = {}
  BY <1>t, <1>5, SameRowsOf DEF RouteInv, OpenInv, At
<1>7. /\ w.pc = k /\ w.req = q /\ w.phase = "run" /\ w.status = "running"
      /\ w.calls = 0 /\ w.attempts = 0 /\ w.asOf = 0
  BY <1>3
<1>8. OpenInv(r)' /\ CallInv(r)' /\ TryInv(r)' /\ EgressInv(r)' /\ LockInv(r)'
  BY <1>p, <1>5, <1>6, <1>7 DEF OpenInv, CallInv, TryInv, EgressInv, LockInv, At
<1>9. PhaseInv(r)'
  BY <1>p, <1>5, <1>7 DEF PhaseInv, At
<1>10. AcceptInv(r)'
  BY <1>1, <1>5, <1>7 DEF AcceptInv, At
<1>11. w.calls + w.attempts \in 0..MaxProviderCalls
  BY <1>t, <1>7
<1> QED
  BY <1>t, <1>4, <1>5, <1>7, <1>8, <1>9, <1>10, <1>11, ThreadStep DEF RouteInv

LEMMA CrashStep == ASSUME IInv, Crash PROVE IInv'
<1>t. /\ RowsShape /\ run \in [Routes -> Threads] /\ TypeOK /\ day \in Nat
      /\ \A r \in Routes : RouteInv(r)
  BY ShapeTypes DEF IInv, Shape
<1>1. /\ rows' = rows /\ day' = day /\ lock' = Nobody
      /\ run' = [r \in Routes |-> IF Active(r) THEN Closed(run[r], "raised") ELSE run[r]]
  BY DEF Crash, ledger
<1>2. ASSUME NEW r \in Routes
      PROVE  /\ RouteInv(r)' /\ run'[r] \in Threads /\ run'[r].req = run[r].req
             /\ run'[r].asOf \in 0..day
             /\ run'[r].calls + run'[r].attempts = run[r].calls + run[r].attempts
  <2>t. run[r] \in Threads /\ run[r].asOf \in 0..day
    BY <1>t DEF TypeOK
  <2>1. CASE ~Active(r)
    <3>1. run'[r] = run[r] /\ run[r].pc \in Ended
      BY <1>1, <2>1 DEF Active
    <3>3. OfRoute(r)' = OfRoute(r) /\ \A c : rows'[c] = rows[c] /\ (Open(c)' <=> Open(c))
      BY <1>1, SameRowsOf
    <3>4. OpenInv(r)' /\ EgressInv(r)'
      BY <1>t, <3>1, <3>3 DEF RouteInv, OpenInv, EgressInv, At, Ended
    <3>5. CallInv(r)' /\ TryInv(r)' /\ LockInv(r)'
      BY <3>1 DEF CallInv, TryInv, LockInv, Ended
    <3>6. PhaseInv(r)' /\ AcceptInv(r)'
      BY <1>t, <1>1, <3>1, ResultCarried DEF RouteInv, PhaseInv, AcceptInv, At, Active, Ended
    <3> QED
      BY <2>t, <3>1, <3>4, <3>5, <3>6 DEF RouteInv
  <2>2. CASE Active(r)
    <3>1. PICK w : w = Closed(run[r], "raised")
      OBVIOUS
    <3>2. run'[r] = w
      BY <1>1, <2>2, <3>1
    <3>3. /\ w \in Threads /\ w.pc = "raised" /\ w.asOf = 0 /\ w.req = run[r].req
          /\ w.calls = run[r].calls /\ w.attempts = run[r].attempts
          /\ w.status = run[r].status
      BY <2>t, <3>1, ClosedFields
    <3>4. Carries(r, w)
      BY <2>2, <3>3 DEF Carries
    <3>5. OpenInv(r)' /\ CallInv(r)' /\ EgressInv(r)'
      BY <1>1, <3>2, <3>4, CallsCarried
    <3>6. TryInv(r)' /\ LockInv(r)' /\ PhaseInv(r)' /\ AcceptInv(r)'
      BY <1>t, <2>2, <3>2, <3>3
         DEF RouteInv, TryInv, LockInv, PhaseInv, AcceptInv, At, Active, Ended
    <3> QED
      BY <1>t, <3>2, <3>3, <3>5, <3>6 DEF RouteInv
  <2> QED
    BY <2>1, <2>2
<1>3. run' \in [Routes -> Threads]
  BY <1>1, <1>2
<1>4. TypeOK'
  BY <1>t, <1>1, <1>2, SameRowsOf DEF TypeOK, Threads
<1>5. RowsShape'
  BY <1>t, <1>1 DEF RowsShape
<1> QED
  BY <1>2, <1>3, <1>4, <1>5 DEF IInv, Shape, RowsShape

LEMMA NextDayStep ==
  ASSUME IInv, NextDay, UNCHANGED <<run, lock>> PROVE IInv'
<1>t. /\ RowsShape /\ run \in [Routes -> Threads] /\ TypeOK /\ day \in Nat /\ MaxDay \in Nat
      /\ \A r \in Routes : RouteInv(r)
  BY ShapeTypes, LedgerAssumption DEF IInv, Shape
<1>1. rows' = rows /\ day' = day + 1 /\ day' \in 0..MaxDay /\ run' = run /\ lock' = lock
  BY <1>t DEF NextDay
<1>2. \A r \in Routes : RouteInv(r)'
  BY <1>t, <1>1, SameRowsOf, UntouchedKeeps DEF Untouched
<1>3. TypeOK'
  BY <1>t, <1>1, SameRowsOf DEF TypeOK
<1> QED
  BY <1>t, <1>1, <1>2, <1>3 DEF IInv, Shape, RowsShape

-----------------------------------------------------------------------------
(* Steps that reserve a call or settle it                                  *)

\* The thread r goes on as w, while only rows of r change.
LEMMA LedgerStep ==
  ASSUME IInv, NEW r \in Routes, NEW w \in Threads, run' = [run EXCEPT ![r] = w],
         UNCHANGED day, w.asOf \in 0..day, w.calls + w.attempts \in 0..MaxProviderCalls,
         lock' \in Routes \cup {Nobody}, \A s \in Routes \ {r} : lock = s => lock' = s,
         NEW c \in Calls, \A e \in Calls \ {c} : rows'[e] = rows[e],
         rows[c].status = "none" \/ rows[c].route = r,
         rows'[c].route = r, rows'[c].provider \in Providers,
         rows'[c].asOf \in 0..rows'[c].day, rows'[c].day \in 0..day,
         RowsShape', RouteInv(r)'
  PROVE  IInv'
<1>t. run \in [Routes -> Threads] /\ TypeOK /\ \A s \in Routes : RouteInv(s)
  BY DEF IInv, Shape
<1>1. /\ run'[r] = w /\ \A s \in Routes \ {r} : run'[s] = run[s]
      /\ run' \in [Routes -> Threads]
  BY <1>t
<1>2. \A s \in Routes \ {r} : RouteInv(s)'
  <2>1. ASSUME NEW s \in Routes \ {r}
        PROVE  OfRoute(s)' = OfRoute(s) /\ \A e \in OfRoute(s) : rows'[e] = rows[e]
    BY DEF OfRoute, Recorded
  <2> QED
    BY <1>t, <1>1, <2>1, UntouchedKeeps DEF Untouched
<1>3. TypeOK'
  <2>1. \A e \in Recorded' : /\ rows'[e].provider \in Providers
                             /\ rows'[e].route \in Routes
                             /\ rows'[e].asOf \in 0..rows'[e].day /\ rows'[e].day \in 0..day
    BY <1>t DEF TypeOK, Recorded
  <2> QED
    BY <1>t, <1>1, <2>1 DEF TypeOK, Threads
<1> QED
  BY <1>1, <1>2, <1>3 DEF IInv, Shape, RowsShape

LEMMA ReserveCallStep == ASSUME IInv, NEW r \in Routes, ReserveCall(r) PROVE IInv'
<1> DEFINE u == run[r]
<1>t. /\ u \in Threads /\ RouteInv(r) /\ u.asOf \in 0..day /\ 0 \in 0..day /\ day \in Nat
      /\ run \in [Routes -> Threads] /\ u.pc = "reserve" /\ RowsShape
      /\ lock \in Routes \cup {Nobody} /\ MaxProviderCalls \in Nat
  BY ThreadOf, ShapeTypes DEF ReserveCall, At, IInv
<1>f. /\ u.calls \in Nat /\ u.attempts \in Nat /\ u.phase \in {"run", "check"}
      /\ u.calls + u.attempts < MaxProviderCalls
      /\ u.provider \in u.todo /\ MayCall(r, u.provider) /\ u.todo \subseteq Providers
  BY <1>t DEF Threads, RouteInv, TryInv
<1>1. PICK n \in Nat, m \in Nat : n = (IF u.phase = "run" THEN u.calls + 1 ELSE u.calls)
                       /\ m = (IF u.phase = "check" THEN u.attempts + 1 ELSE u.attempts)
  BY <1>f
<1>2. n + m = u.calls + u.attempts + 1 /\ n + m \in 1..MaxProviderCalls
  BY <1>f, <1>1, <1>t
<1>w. PICK w : w = [u EXCEPT !.pc = "reserved", !.asOf = 0, !.calls = n, !.attempts = m]
  OBVIOUS
<1>n. n \in Nat /\ m \in Nat
  BY <1>1
<1>3. w \in Threads
  BY <1>t, <1>n, <1>w DEF Threads, ActivePcs
<1>4. /\ w.pc = "reserved" /\ w.asOf = 0 /\ w.calls = n /\ w.attempts = m /\ w.req = u.req
      /\ w.provider = u.provider /\ w.todo = u.todo /\ w.phase = u.phase
      /\ w.result = u.result /\ w.status = u.status
  BY <1>t, <1>w DEF Threads
<1>5. PICK c : c = <<r, n + m>>
  OBVIOUS
<1>6. c \in Calls
  BY <1>2, <1>5, RouteAssumption
<1>7. /\ Reserve(c, r, u.req.mission, u.provider, Asked(r), u.asOf)
      /\ run' = [run EXCEPT ![r] = w] /\ UNCHANGED lock /\ run'[r] = w
  <2>1. w = [u EXCEPT !.pc = "reserved", !.asOf = 0,
                      !.calls = IF u.phase = "run" THEN @ + 1 ELSE @,
                      !.attempts = IF u.phase = "check" THEN @ + 1 ELSE @]
    BY <1>t, <1>1, <1>w DEF Threads
  <2> QED
    BY <1>t, <1>4, <1>5, <2>1 DEF ReserveCall, Set
<1>8. Adds(c, r, u.provider, u.asOf) /\ RowsShape' /\ UNCHANGED day
  BY <1>t, <1>6, <1>7, ReserveAdds DEF Reserve
<1>9. Call(r)' = c
  BY <1>4, <1>5, <1>7 DEF Call
<1>10. /\ OfRoute(r)' = OfRoute(r) \cup {c} /\ c \notin OfRoute(r)
       /\ \A e \in OfRoute(r) : e \in Calls /\ rows'[e] = rows[e]
  BY <1>6, <1>8 DEF Adds, OfRoute, Recorded
<1>11. OpenInv(r)'
  BY <1>t, <1>4, <1>7, <1>9, <1>10 DEF RouteInv, OpenInv, At, Open
<1>12. CallInv(r)' /\ TryInv(r)'
  BY <1>4, <1>6, <1>7, <1>8, <1>9, <1>f DEF CallInv, TryInv, Open, Adds, MayCall
<1>13. EgressInv(r)'
  BY <1>t, <1>4, <1>7, <1>8, <1>10, <1>f DEF RouteInv, EgressInv, Adds, MayCall
<1>14. LockInv(r)'
  BY <1>t, <1>4, <1>7 DEF RouteInv, LockInv
<1>15. PhaseInv(r)'
  <2>1. Executed(r) => Executed(r)'
    BY <1>4, <1>7, <1>10 DEF Executed
  <2> QED
    BY <1>t, <1>4, <1>7, <2>1 DEF RouteInv, PhaseInv, At, Active, Ended
<1>16. AcceptInv(r)'
  BY <1>t, <1>4, <1>7 DEF RouteInv, AcceptInv, At
<1>17. RouteInv(r)'
  BY <1>11, <1>12, <1>13, <1>14, <1>15, <1>16 DEF RouteInv
<1>18. /\ w.asOf \in 0..day /\ w.calls + w.attempts \in 0..MaxProviderCalls
       /\ u.provider \in Providers /\ u.asOf \in 0..day /\ day \in 0..day
  BY <1>t, <1>f, <1>2, <1>4
<1> QED
  BY <1>t, <1>3, <1>6, <1>7, <1>8, <1>17, <1>18, LedgerStep DEF Adds

\* The call in progress is settled: whatever was completed stays so, and nothing of
\* the route is open any more.
LEMMA CallSettled ==
  ASSUME IInv, NEW r \in Routes, At(r, "calling"), NEW s \in {"completed", "uncertain"},
         Settles(Call(r), s)
  PROVE  /\ OfRoute(r)' = OfRoute(r) /\ Call(r) \in OfRoute(r) /\ Call(r) \in Calls
         /\ \A e \in OfRoute(r) : /\ rows'[e].provider = rows[e].provider
                                  /\ rows'[e].status # "reserved"
                                  /\ rows[e].status = "completed" => rows'[e].status = "completed"
         /\ rows[Call(r)].provider = run[r].provider /\ rows[Call(r)].route = r
         /\ rows'[Call(r)].status = s
<1>1. /\ Call(r) \in Calls /\ Open(Call(r)) /\ rows[Call(r)].route = r
      /\ rows[Call(r)].provider = run[r].provider
      /\ \A e \in OfRoute(r) : Open(e) => e = Call(r)
  BY DEF IInv, RouteInv, CallInv, OpenInv, At
<1>2. PICK c : c = Call(r)
  OBVIOUS
<1>3. Settles(c, s)
  BY <1>2
<1>4. OfRoute(r)' = OfRoute(r) /\ c \in OfRoute(r)
  BY <1>1, <1>2, <1>3 DEF Settles, OfRoute, Recorded, Open
<1>5. \A e \in OfRoute(r) : /\ rows'[e].provider = rows[e].provider
                            /\ rows'[e].status # "reserved"
                            /\ rows[e].status = "completed" => rows'[e].status = "completed"
  BY <1>1, <1>2, <1>3 DEF Settles, OfRoute, Recorded, Open
<1> QED
  BY <1>1, <1>2, <1>3, <1>4, <1>5 DEF Settles

LEMMA SettleStep ==
  ASSUME IInv, NEW r \in Routes, At(r, "calling"), NEW s \in {"completed", "uncertain"},
         Settles(Call(r), s), RowsShape', UNCHANGED day,
         NEW w \in Threads, run' = [run EXCEPT ![r] = w],
         w.pc \in {"candidate", "verify", "accept", "escalate"},
         w.req = run[r].req, w.calls = run[r].calls, w.attempts = run[r].attempts,
         w.asOf \in 0..day, UNCHANGED lock \/ Release(r),
         PhaseInv(r)', AcceptInv(r)'
  PROVE  IInv'
<1>t. /\ run \in [Routes -> Threads] /\ lock \in Routes \cup {Nobody}
      /\ RouteInv(r) /\ TypeOK /\ run[r].calls + run[r].attempts \in 0..MaxProviderCalls
  BY ShapeTypes DEF IInv, Shape
<1>1. run'[r] = w
  BY <1>t
<1>2. PICK c \in Calls : c = Call(r)
  BY CallSettled
<1>3. OpenInv(r)' /\ EgressInv(r)'
  BY <1>t, <1>1, CallSettled DEF RouteInv, OpenInv, EgressInv, Open, At
<1>4. CallInv(r)' /\ TryInv(r)' /\ LockInv(r)'
  BY <1>1 DEF CallInv, TryInv, LockInv
<1>5. RouteInv(r)'
  BY <1>3, <1>4 DEF RouteInv
<1>6. lock' \in Routes \cup {Nobody} /\ \A x \in Routes \ {r} : lock = x => lock' = x
  BY <1>t, RouteAssumption DEF Release
<1>7. Settles(c, s) /\ rows[c].route = r /\ c \in Recorded
  BY <1>2, CallSettled DEF OfRoute
<1>8. /\ \A e \in Calls \ {c} : rows'[e] = rows[e]
      /\ rows'[c].route = r /\ rows'[c].provider \in Providers
      /\ rows'[c].asOf \in 0..rows'[c].day /\ rows'[c].day \in 0..day
  BY <1>t, <1>7 DEF Settles, TypeOK
<1> QED
  BY <1>t, <1>2, <1>5, <1>6, <1>7, <1>8, LedgerStep

LEMMA CallFailsStep ==
  ASSUME IInv, NEW r \in Routes, NEW use, CallFails(r, use) PROVE IInv'
<1> DEFINE u == run[r]
<1>t. /\ u \in Threads /\ RouteInv(r) /\ run \in [Routes -> Threads] /\ RowsShape
      /\ At(r, "calling") /\ u.pc = "calling" /\ 0 \in 0..day
  BY ThreadOf, ShapeTypes DEF CallFails, At, IInv
<1>1. Call(r) \in Calls
  BY <1>t DEF RouteInv, CallInv
<1>2. Settles(Call(r), "uncertain") /\ RowsShape' /\ UNCHANGED day
  BY <1>t, <1>1, UncertainSettles DEF CallFails, MarkUncertain
<1>3. PICK w : w = GiveUp(r)
  OBVIOUS
<1>4. /\ w \in Threads /\ w.pc = "candidate" /\ w.asOf = 0 /\ w.todo \subseteq u.todo
      /\ w.req = u.req /\ w.phase = u.phase /\ w.calls = u.calls /\ w.attempts = u.attempts
      /\ w.result = u.result /\ w.status = u.status
  BY <1>3, GivenUp
<1>5. run' = [run EXCEPT ![r] = w] /\ run'[r] = w /\ Release(r)
  BY <1>t, <1>3 DEF CallFails, Set
<1>6. PhaseInv(r)'
  <2>1. Executed(r) => Executed(r)'
    BY <1>t, <1>2, <1>4, <1>5, CallSettled DEF Executed
  <2> QED
    BY <1>t, <1>4, <1>5, <2>1 DEF RouteInv, PhaseInv, At, Active, Ended
<1>7. AcceptInv(r)'
  BY <1>t, <1>4, <1>5 DEF RouteInv, AcceptInv, At
<1> QED
  BY <1>t, <1>2, <1>4, <1>5, <1>6, <1>7, SettleStep

LEMMA ResultStep ==
  ASSUME IInv, NEW r \in Routes, NEW use, NEW answer \in {"ok", "escalate", "refuse"},
         Result(r, use, answer)
  PROVE  IInv'
<1> DEFINE u == run[r]
<1>t. /\ u \in Threads /\ RouteInv(r) /\ run \in [Routes -> Threads] /\ RowsShape
      /\ At(r, "calling") /\ u.pc = "calling" /\ u.phase = "run" /\ 0 \in 0..day
      /\ u.asOf \in 0..day
  BY ThreadOf, ShapeTypes DEF Result, At, IInv
<1>f. u.provider \in Providers /\ u.status # "routed"
  BY <1>t DEF RouteInv, TryInv, AcceptInv, Threads, At
<1>1. Call(r) \in Calls
  BY <1>t DEF RouteInv, CallInv
<1>2. Settles(Call(r), "completed") /\ RowsShape' /\ UNCHANGED day
  BY <1>t, <1>1, CompleteSettles DEF Result, Complete
<1>3. CASE answer = "refuse"
  <2>1. PICK w : w = [u EXCEPT !.pc = "escalate"]
    OBVIOUS
  <2>2. w \in Threads
    BY <1>t, <2>1 DEF Threads, ActivePcs
  <2>3. /\ w.pc = "escalate" /\ w.asOf = u.asOf /\ w.req = u.req /\ w.phase = u.phase
        /\ w.calls = u.calls /\ w.attempts = u.attempts /\ w.status = u.status
    BY <1>t, <2>1 DEF Threads
  <2>4. run' = [run EXCEPT ![r] = w] /\ run'[r] = w /\ Release(r)
    BY <1>t, <1>3, <2>1 DEF Result, Set
  <2>5. PhaseInv(r)' /\ AcceptInv(r)'
    BY <1>t, <1>f, <2>3, <2>4 DEF PhaseInv, AcceptInv, At
  <2> QED
    BY <1>t, <1>2, <2>2, <2>3, <2>4, <2>5, SettleStep
<1>4. CASE answer = "escalate"
  <2>1. PICK w : w = GiveUp(r)
    OBVIOUS
  <2>2. /\ w \in Threads /\ w.pc = "candidate" /\ w.asOf = 0 /\ w.req = u.req
        /\ w.phase = u.phase /\ w.calls = u.calls /\ w.attempts = u.attempts
        /\ w.status = u.status
    BY <2>1, GivenUp
  <2>3. run' = [run EXCEPT ![r] = w] /\ run'[r] = w /\ Release(r)
    BY <1>t, <1>4, <2>1 DEF Result, Set
  <2>4. PhaseInv(r)' /\ AcceptInv(r)'
    BY <1>t, <1>f, <2>2, <2>3 DEF PhaseInv, AcceptInv, At
  <2> QED
    BY <1>t, <1>2, <2>2, <2>3, <2>4, SettleStep
<1>5. CASE answer = "ok"
  <2>1. PICK k \in {"verify", "accept"} : k = (IF Important(u.req) THEN "verify" ELSE "accept")
    OBVIOUS
  <2>w. PICK w : w = [u EXCEPT !.result = u.provider, !.pc = k]
    OBVIOUS
  <2>2. w \in Threads
    BY <1>t, <1>f, <2>1, <2>w DEF Threads, ActivePcs
  <2>3. /\ w.pc = k /\ w.asOf = u.asOf /\ w.req = u.req /\ w.phase = u.phase
        /\ w.calls = u.calls /\ w.attempts = u.attempts /\ w.status = u.status
        /\ w.result = u.provider
    BY <1>t, <2>w DEF Threads
  <2>4. run' = [run EXCEPT ![r] = w] /\ run'[r] = w /\ Release(r)
    BY <1>t, <1>5, <2>1, <2>w DEF Result, Set
  <2>5. Executed(r)'
    BY <1>t, <1>2, <2>3, <2>4, CallSettled DEF Executed
  <2>6. PhaseInv(r)'
    BY <1>t, <2>1, <2>3, <2>4, <2>5 DEF PhaseInv, At
  <2>7. AcceptInv(r)'
    BY <1>f, <2>1, <2>3, <2>4 DEF AcceptInv, At
  <2> QED
    BY <1>t, <1>2, <2>1, <2>2, <2>3, <2>4, <2>6, <2>7, SettleStep
<1> QED
  BY <1>3, <1>4, <1>5

\* A verifier that agrees is independent of the executor, and its call and that of
\* the executor are both completed.
LEMMA VerdictStep ==
  ASSUME IInv, NEW r \in Routes, NEW use, NEW verdict \in {"agree", "disagree", "uncertain"},
         Verdict(r, use, verdict)
  PROVE  IInv'
<1> DEFINE u == run[r]
<1>t. /\ u \in Threads /\ RouteInv(r) /\ run \in [Routes -> Threads] /\ RowsShape
      /\ At(r, "calling") /\ u.pc = "calling" /\ u.phase = "check" /\ u.asOf \in 0..day
  BY ThreadOf, ShapeTypes DEF Verdict, At, IInv
<1>f. /\ Independent(u.provider, u.result) /\ Executed(r) /\ u.status # "routed"
      /\ u.todo \subseteq VerifiersFor(u.result, u.req)
  BY <1>t DEF RouteInv, TryInv, AcceptInv, PhaseInv, VerifiersFor, At, Active, Ended
<1>1. Call(r) \in Calls
  BY <1>t DEF RouteInv, CallInv
<1>2. Settles(Call(r), "completed") /\ RowsShape' /\ UNCHANGED day
  BY <1>t, <1>1, CompleteSettles DEF Verdict, Complete
<1>3. PICK k \in {"accept", "escalate"} : k = (IF verdict = "agree" THEN "accept" ELSE "escalate")
  OBVIOUS
<1>w. PICK w : w = [u EXCEPT !.verdict = verdict, !.pc = k]
  OBVIOUS
<1>k. k \in {"accept", "escalate"}
  BY <1>3
<1>4. w \in Threads
  BY <1>t, <1>k, <1>w DEF Threads, ActivePcs
<1>5. /\ w.pc = k /\ w.asOf = u.asOf /\ w.req = u.req /\ w.phase = u.phase
      /\ w.calls = u.calls /\ w.attempts = u.attempts /\ w.status = u.status
      /\ w.result = u.result /\ w.verdict = verdict /\ w.todo = u.todo
  BY <1>t, <1>w DEF Threads
<1>6. run' = [run EXCEPT ![r] = w] /\ run'[r] = w /\ UNCHANGED lock
  BY <1>t, <1>3, <1>w DEF Verdict, Set, AfterVerdict
<1>7. Executed(r)' /\ Verified(r)'
  <2>1. PICK c \in OfRoute(r) : rows[c].status = "completed" /\ rows[c].provider = u.result
    BY <1>f DEF Executed
  <2>2. PICK v : v = Call(r)
    OBVIOUS
  <2>3. /\ c \in OfRoute(r)' /\ v \in OfRoute(r)'
        /\ rows'[c].status = "completed" /\ rows'[v].status = "completed"
        /\ rows'[c].provider = u.result /\ rows'[v].provider = u.provider
    BY <1>t, <1>2, <2>1, <2>2, CallSettled
  <2>4. AccountOf[u.provider] # AccountOf[u.result] /\ FamilyOf[u.provider] # FamilyOf[u.result]
    BY <1>f DEF Independent
  <2> QED
    BY <1>5, <1>6, <2>3, <2>4 DEF Executed, Verified
<1>8. PhaseInv(r)'
  BY <1>t, <1>f, <1>3, <1>5, <1>6, <1>7 DEF PhaseInv, At
<1>9. AcceptInv(r)'
  BY <1>t, <1>f, <1>3, <1>5, <1>6, <1>7 DEF AcceptInv, At
<1> QED
  BY <1>t, <1>2, <1>3, <1>4, <1>5, <1>6, <1>8, <1>9, SettleStep

-----------------------------------------------------------------------------
LEMMA StepStep == ASSUME IInv, NEW r \in Routes, Step(r) PROVE IInv'
BY NextRoleStep, CandidateSteps, WaitSteps, EndSteps, BeginVerifyStep, ReserveCallStep,
   CallFailsStep, ResultStep, VerdictStep DEF Step

LEMMA InitIInv == Init => IInv
<1> SUFFICES ASSUME Init PROVE IInv
  OBVIOUS
<1>1. /\ day = 0 /\ rows = [c \in Calls |-> NoRow] /\ run = [r \in Routes |-> Idle]
      /\ lock = Nobody
  BY DEF Init, LedgerInit
<1>2. Recorded = {} /\ \A r : OfRoute(r) = {}
  BY <1>1 DEF Recorded, OfRoute, NoRow
<1>e. <<>> \in RoleSeqs
  BY DEF RoleSeqs
<1>3. PICK none \in RoleSeqs : none = <<>>
  BY <1>e
<1>n. none \in RoleSeqs
  BY <1>3
<1>4. Idle = [pc |-> "new", req |-> Nobody, phase |-> "run", roles |-> none,
              iterations |-> 0, calls |-> 0, attempts |-> 0, todo |-> {},
              provider |-> Nobody, asOf |-> 0, result |-> Nobody,
              verdict |-> "none", status |-> "none"]
  BY <1>3 DEF Idle
<1>5. Idle \in Threads
  BY <1>n, <1>4 DEF Threads, Ended
<1>6. run \in [Routes -> Threads]
  BY <1>1, <1>5
<1>7. /\ Idle.calls = 0 /\ Idle.attempts = 0 /\ Idle.provider = Nobody /\ Idle.asOf = 0
      /\ Idle.req = Nobody /\ Idle.pc = "new" /\ Idle.status = "none"
  BY DEF Idle
<1>8. TypeOK
  BY <1>1, <1>2, <1>7, LedgerAssumption, RouteAssumption DEF TypeOK
<1>9. \A r \in Routes : RouteInv(r)
  BY <1>1, <1>2, <1>7 DEF RouteInv, OpenInv, CallInv, TryInv, EgressInv, LockInv, PhaseInv,
                          AcceptInv, At, Active, Ended
<1>10. \A c \in Calls : IsRow(rows[c])
  BY <1>1 DEF IsRow, NoRow
<1> QED
  BY <1>1, <1>6, <1>8, <1>9, <1>10 DEF IInv, Shape

LEMMA NextIInv == ASSUME IInv, [Next]_vars PROVE IInv'
<1>1. CASE UNCHANGED vars
  <2>1. UNCHANGED <<day, rows, run, lock>>
    BY <1>1 DEF vars, ledger
  <2>2. \A r \in Routes : RouteInv(r)'
    BY <2>1, SameRowsOf, UntouchedKeeps DEF Untouched, IInv
  <2>3. TypeOK' /\ run' \in [Routes -> Threads] /\ RowsShape'
    BY <2>1, SameRowsOf DEF IInv, Shape, TypeOK, RowsShape
  <2> QED
    BY <2>2, <2>3 DEF IInv, Shape, RowsShape
<1>2. ASSUME NEW r \in Routes, DatabaseFails(r) PROVE IInv'
  BY <1>2, EndSteps
<1>3. CASE NextDay /\ UNCHANGED <<run, lock, faults>>
  BY <1>3, NextDayStep
<1> QED
  BY <1>1, <1>2, <1>3, StepStep, StartRunStep, CrashStep DEF Next

-----------------------------------------------------------------------------
(* The caps: what each step does to the rows                               *)

LEMMA InitCaps == Init => CallCapsHold
<1> SUFFICES ASSUME Init PROVE CallCapsHold
  OBVIOUS
<1>1. Recorded = {}
  BY DEF Init, LedgerInit, Recorded, NoRow
<1>2. /\ \A p, d : InDay(OfProvider(p), d) \cap SameDay = {}
      /\ \A p, d : InMonth(OfProvider(p), d) \cap SameMonth = {}
      /\ \A a, d : InDay(OfAccount(a), d) \cap SameDay = {}
      /\ \A a, d : InMonth(OfAccount(a), d) \cap SameMonth = {}
      /\ \A a, r : OfAccount(a) \cap OfRoute(r) = {}
  BY <1>1 DEF SameDay, SameMonth, OfAccount
<1>3. Cardinality({}) = 0
  BY FS_EmptySet
<1>4. ASSUME NEW p \in Providers, NEW d
      PROVE  /\ Cardinality(InDay(OfProvider(p), d) \cap SameDay) <= ProviderBudget[p].day.calls
             /\ Cardinality(InMonth(OfProvider(p), d) \cap SameMonth)
                  <= ProviderBudget[p].month.calls
  <2>1. ProviderBudget[p].day.calls \in Nat /\ ProviderBudget[p].month.calls \in Nat
    BY LedgerAssumption DEF IsCap
  <2>2. 0 <= ProviderBudget[p].day.calls /\ 0 <= ProviderBudget[p].month.calls
    BY <2>1
  <2> QED
    BY <1>2, <1>3, <2>2
<1>5. ASSUME NEW a \in DOMAIN AccountBudget, NEW d, NEW r
      PROVE  /\ Cardinality(InDay(OfAccount(a), d) \cap SameDay) <= AccountBudget[a].day.calls
             /\ Cardinality(InMonth(OfAccount(a), d) \cap SameMonth)
                  <= AccountBudget[a].month.calls
             /\ Cardinality(OfAccount(a) \cap OfRoute(r)) <= AccountBudget[a].task.calls
  <2>1. /\ AccountBudget[a].day.calls \in Nat /\ AccountBudget[a].month.calls \in Nat
        /\ AccountBudget[a].task.calls \in Nat
    BY LedgerAssumption DEF IsCap
  <2>2. /\ 0 <= AccountBudget[a].day.calls /\ 0 <= AccountBudget[a].month.calls
        /\ 0 <= AccountBudget[a].task.calls
    BY <2>1
  <2> QED
    BY <1>2, <1>3, <2>2
<1> QED
  BY <1>4, <1>5 DEF CallCapsHold

LEMMA SameRowsKeepCaps == ASSUME CallCapsHold, UNCHANGED rows PROVE CallCapsHold'
BY DEF CallCapsHold, InDay, InMonth, OfProvider, OfAccount, OfRoute, SameDay, SameMonth, Recorded

\* Only reserve, complete and mark_uncertain touch the rows.
LEMMA CapsStep == ASSUME IInv, CallCapsHold, [Next]_vars PROVE CallCapsHold'
<1>1. ASSUME NEW r \in Routes, ReserveCall(r) PROVE CallCapsHold'
  <2> DEFINE u == run[r]
  <2>t. /\ u \in Threads /\ RouteInv(r) /\ RowsShape /\ u.pc = "reserve"
        /\ MaxProviderCalls \in Nat
    BY <1>1, ThreadOf, ShapeTypes DEF ReserveCall, At, IInv
  <2>1. /\ u.calls \in Nat /\ u.attempts \in Nat /\ u.phase \in {"run", "check"}
        /\ u.calls + u.attempts < MaxProviderCalls /\ u.provider \in Providers
    BY <2>t DEF Threads, RouteInv, TryInv
  <2>2. PICK c : c = <<r, u.calls + u.attempts + 1>>
    OBVIOUS
  <2>3. c \in Calls
    BY <2>t, <2>1, <2>2, RouteAssumption
  <2>4. PICK new : /\ new = [u EXCEPT !.pc = "reserved", !.asOf = 0,
                                      !.calls = IF u.phase = "run" THEN @ + 1 ELSE @,
                                      !.attempts = IF u.phase = "check" THEN @ + 1 ELSE @]
    OBVIOUS
  <2>5. new.calls + new.attempts = u.calls + u.attempts + 1
    BY <2>t, <2>1, <2>4 DEF Threads
  <2>6. Reserve(c, r, u.req.mission, u.provider, Asked(r), u.asOf)
    BY <1>1, <2>2, <2>4, <2>5 DEF ReserveCall
  <2>7. /\ Adds(c, r, u.provider, u.asOf)
        /\ BudgetAllows(r, u.req.mission, u.provider, Asked(r), u.asOf)
    BY <2>t, <2>3, <2>6, ReserveAdds DEF Reserve
  <2> QED
    BY <2>1, <2>3, <2>7, ReserveKeepsCaps
<1>2. ASSUME NEW r \in Routes, NEW s \in {"completed", "uncertain"}, At(r, "calling"),
             Settles(Call(r), s)
      PROVE  CallCapsHold'
  <2>1. PICK c \in Calls : c = Call(r)
    BY <1>2 DEF IInv, RouteInv, CallInv, At
  <2> QED
    BY <1>2, <2>1, SettleKeepsCaps
<1>3. ASSUME NEW r \in Routes, NEW use,
             \/ CallFails(r, use)
             \/ \E a \in {"ok", "escalate", "refuse"} : Result(r, use, a)
             \/ \E v \in {"agree", "disagree", "uncertain"} : Verdict(r, use, v)
      PROVE  CallCapsHold'
  <2>1. At(r, "calling") /\ RowsShape
    BY <1>3, ShapeTypes DEF IInv, CallFails, Result, Verdict
  <2>2. Call(r) \in Calls
    BY <2>1 DEF IInv, RouteInv, CallInv, At
  <2>3. Settles(Call(r), "completed") \/ Settles(Call(r), "uncertain")
    BY <1>3, <2>1, <2>2, CompleteSettles, UncertainSettles DEF CallFails, Result, Verdict
  <2> QED
    BY <1>2, <2>1, <2>3
<1>4. ASSUME NEW r \in Routes, Step(r) PROVE CallCapsHold'
  BY <1>1, <1>3, <1>4, SameRowsKeepCaps
     DEF Step, NextRole, RoleExhausted, NoVerifier, Skip, LimitReached, Choose, AcquireLock,
         LockTimeout, BudgetBlock, StartCall, BeginVerify, SuccessfulDecision,
         HumanEscalation, ledger
<1> QED
  BY <1>4, SameRowsKeepCaps DEF Next, DatabaseFails, StartRun, Crash, NextDay, vars, ledger

-----------------------------------------------------------------------------
\* What a route decides was verified by an independent provider, leaves no call
\* open, sent nothing out that had to stay, and never ran two local models at
\* once, for any routes, providers, requests, limits and failures: route,
\* _verify_executor_result, local_model_lock.
THEOREM RoutesAreSound == Spec => []RoutesHold
<1>1. IInv /\ [Next]_vars => IInv'
  BY NextIInv
<1>2. ASSUME IInv PROVE RoutesHold
  <2>t. TypeOK /\ \A r \in Routes : RouteInv(r)
    BY <1>2 DEF IInv, Shape
  <2>1. AcceptedIsVerified
    BY <2>t DEF RouteInv, AcceptInv, AcceptedIsVerified, Verified
  <2>2. DecidedIsSettled
    BY <2>t DEF RouteInv, OpenInv, DecidedIsSettled, At
  <2>3. EgressAllowed
    BY <2>t DEF RouteInv, EgressInv, EgressAllowed, TypeOK, OfRoute
  <2>4. OneLocalCall
    <3> DEFINE working == {r \in Routes : At(r, "calling") /\ run[r].provider \in Local}
    <3>1. working \subseteq {lock}
      BY <2>t DEF RouteInv, LockInv, At
    <3>2. IsFiniteSet({lock}) /\ Cardinality({lock}) = 1
      BY FS_Singleton
    <3>3. Cardinality(working) <= 1
      BY <3>1, <3>2, FewerFit
    <3> QED
      BY <3>3 DEF OneLocalCall
  <2> QED
    BY <2>t, <2>1, <2>2, <2>3, <2>4 DEF RoutesHold
<1> QED
  BY InitIInv, <1>1, <1>2, PTL DEF Spec

\* However many routes reserve at once, the caps on calls hold, for any caps,
\* accounts, months and clock: reserve, _aggregate.
THEOREM CallsStayUnderCaps == Spec => []CallCapsHold
<1>1. IInv /\ CallCapsHold /\ [Next]_vars => IInv' /\ CallCapsHold'
  BY NextIInv, CapsStep
<1> QED
  BY InitIInv, InitCaps, <1>1, PTL DEF Spec

-----------------------------------------------------------------------------
(* Every step of a thread leaves it less to do                             *)

N == Cardinality(Providers)
Before(u) == IF u.phase = "run" THEN 5 * N + 10 + Len(u.roles) * (5 * N + 6) ELSE 0
Trying == {"candidate", "lock", "reserve", "reserved", "calling"}

LEMMA ProvidersCount ==
  N \in Nat /\ \A C \in SUBSET Providers :
                 /\ IsFiniteSet(C) /\ Cardinality(C) \in Nat /\ Cardinality(C) <= N
                 /\ \A p \in C : Cardinality(C) >= 1
<1>1. IsFiniteSet(Providers)
  BY RouteAssumption
<1>2. ASSUME NEW C \in SUBSET Providers
      PROVE  /\ IsFiniteSet(C) /\ Cardinality(C) \in Nat /\ Cardinality(C) <= N
             /\ \A p \in C : Cardinality(C) >= 1
  <2>1. IsFiniteSet(C) /\ Cardinality(C) <= N
    BY <1>1, FS_Subset DEF N
  <2>2. Cardinality(C) \in Nat
    BY <2>1, FS_CardinalityType
  <2>3. ASSUME NEW p \in C PROVE Cardinality(C) >= 1
    <3>1. Cardinality(C) # 0
      BY <2>1, <2>3, FS_EmptySet
    <3> QED
      BY <2>2, <3>1
  <2> QED
    BY <2>1, <2>2, <2>3
<1> QED
  BY <1>1, <1>2, FS_CardinalityType DEF N

LEMMA RolesCount == ASSUME NEW s \in RoleSeqs PROVE Len(s) \in Nat
BY DEF RoleSeqs

LEMMA BeforeType ==
  ASSUME NEW u \in Threads
  PROVE  /\ Before(u) \in Nat
         /\ u.phase = "run" => Before(u) >= 5 * N + 10
<1>1. PICK l \in Nat, k \in Nat : l = Len(u.roles) /\ k = 5 * N + 6
  <2>1. Len(u.roles) \in Nat
    BY RolesCount DEF Threads
  <2> QED
    BY <2>1, ProvidersCount
<1>2. PICK m \in Nat : m = l * k
  BY <1>1
<1>3. Before(u) = IF u.phase = "run" THEN 5 * N + 10 + m ELSE 0
  BY <1>1, <1>2 DEF Before
<1> QED
  BY <1>2, <1>3, ProvidersCount

LEMMA WorkOf ==
  ASSUME NEW u \in Threads
  PROVE  /\ u.pc \in {"new", "done", "raised"} => WorkLeft(u) = 0
         /\ u.pc \in {"accept", "escalate"} => WorkLeft(u) = 1
         /\ u.pc = "verify" => WorkLeft(u) = 5 * N + 10
         /\ u.pc = "role" => WorkLeft(u) = Before(u)
         /\ u.pc \in Trying =>
              WorkLeft(u) = Before(u) + 5 * Cardinality(u.todo) + Stage[u.pc] + 1
BY DEF WorkLeft, Before, N, Trying

LEMMA StageType ==
  /\ Stage["candidate"] = 4 /\ Stage["lock"] = 3 /\ Stage["reserve"] = 2
  /\ Stage["reserved"] = 1 /\ Stage["calling"] = 0
BY DEF Stage

\* The ways a thread u goes on as w.
Moves(u, w) ==
  \/ u.pc \in ActivePcs /\ w.pc \in {"done", "raised"} /\ (u.pc = "role" => u.phase = "run")
  \/ /\ w.pc \in {"accept", "escalate"}
     /\ \/ u.pc \in {"role", "candidate", "verify"}
        \/ u.pc \in Trying /\ u.todo # {}
     /\ u.pc = "role" => u.phase = "run"
  \/ u.pc \in Trying /\ u.todo # {} /\ u.phase = "run" /\ w.pc = "verify"
  \/ u.pc = "verify" /\ w.pc = "candidate" /\ w.phase = "check"
  \/ /\ u.pc = "role" /\ w.pc = "candidate" /\ u.phase = "run" /\ w.phase = "run"
     /\ u.roles # <<>> /\ w.roles = Tail(u.roles)
  \/ /\ u.pc = "candidate" /\ w.pc = "role"
     /\ w.phase = u.phase /\ w.roles = u.roles
  \/ /\ u.pc \in Trying /\ w.pc \in Trying /\ w.phase = u.phase /\ w.roles = u.roles
     /\ \/ w.todo \subseteq u.todo /\ w.todo # u.todo
        \/ w.todo = u.todo /\ Stage[w.pc] < Stage[u.pc]

LEMMA MovesShrink ==
  ASSUME NEW u \in Threads, NEW w \in Threads, Moves(u, w)
  PROVE  WorkLeft(w) < WorkLeft(u)
<1>t. /\ u.todo \subseteq Providers /\ w.todo \subseteq Providers
      /\ u.roles \in RoleSeqs /\ N \in Nat
      /\ Before(u) \in Nat /\ Before(w) \in Nat
      /\ (u.phase = "run" => Before(u) >= 5 * N + 10)
  BY ProvidersCount, BeforeType DEF Threads
<1>c. PICK a \in Nat, b \in Nat :
        /\ a = Cardinality(u.todo) /\ b = Cardinality(w.todo) /\ a <= N /\ b <= N
        /\ (u.todo # {} => a >= 1)
  BY <1>t, ProvidersCount
<1>s. /\ (u.pc \in Trying => Stage[u.pc] \in 0..4) /\ (w.pc \in Trying => Stage[w.pc] \in 0..4)
      /\ Stage["candidate"] = 4
  BY StageType DEF Trying
<1>1. CASE u.pc \in ActivePcs /\ w.pc \in {"done", "raised"} /\ (u.pc = "role" => u.phase = "run")
  <2>1. WorkLeft(w) = 0
    BY <1>1, WorkOf
  <2>2. u.pc \in {"accept", "escalate", "verify", "role"} \/ u.pc \in Trying
    BY <1>1 DEF ActivePcs, Trying
  <2>3. CASE u.pc \in Trying
    BY <1>t, <1>c, <1>s, <2>1, <2>3, WorkOf
  <2>4. CASE u.pc \in {"accept", "escalate", "verify", "role"}
    BY <1>t, <1>1, <2>1, <2>4, WorkOf
  <2> QED
    BY <2>2, <2>3, <2>4
<1>2. CASE /\ w.pc \in {"accept", "escalate"}
           /\ \/ u.pc \in {"role", "candidate", "verify"}
              \/ u.pc \in Trying /\ u.todo # {}
           /\ u.pc = "role" => u.phase = "run"
  <2>1. WorkLeft(w) = 1
    BY <1>2, WorkOf
  <2>2. CASE u.pc \in {"role", "verify"}
    BY <1>t, <1>2, <2>1, <2>2, WorkOf
  <2>3. CASE u.pc \in Trying /\ u.todo # {}
    BY <1>t, <1>c, <1>s, <2>1, <2>3, WorkOf
  <2>4. CASE u.pc = "candidate"
    BY <1>t, <1>c, <1>s, <2>1, <2>4, WorkOf DEF Trying
  <2> QED
    BY <1>2, <2>2, <2>3, <2>4
<1>3. CASE u.pc \in Trying /\ u.todo # {} /\ u.phase = "run" /\ w.pc = "verify"
  BY <1>t, <1>c, <1>s, <1>3, WorkOf
<1>4. CASE u.pc = "verify" /\ w.pc = "candidate" /\ w.phase = "check"
  <2>1. Before(w) = 0
    BY <1>4 DEF Before
  <2>2. WorkLeft(w) = 0 + 5 * b + 4 + 1
    BY <1>c, <1>s, <1>4, <2>1, WorkOf DEF Trying
  <2> QED
    BY <1>t, <1>c, <1>4, <2>2, WorkOf
<1>5. CASE /\ u.pc = "role" /\ w.pc = "candidate" /\ u.phase = "run" /\ w.phase = "run"
           /\ u.roles # <<>> /\ w.roles = Tail(u.roles)
  <2>1. PICK l \in Nat, k \in Nat : l + 1 = Len(u.roles) /\ l = Len(w.roles) /\ k = 5 * N + 6
    <3>1. Len(u.roles) \in Nat \ {0} /\ Len(w.roles) = Len(u.roles) - 1
      BY <1>t, <1>5, TailIsRoles
    <3>2. Len(w.roles) \in Nat /\ Len(w.roles) + 1 = Len(u.roles)
      BY <3>1
    <3> QED
      BY <1>t, <3>2
  <2>2. (l + 1) * k = l * k + k
    BY <2>1
  <2>3. PICK m \in Nat : m = l * k
    BY <2>1
  <2>4. Before(u) = 5 * N + 10 + (m + k)
    BY <1>5, <2>1, <2>2, <2>3 DEF Before
  <2>5. Before(w) = 5 * N + 10 + m
    BY <1>5, <2>1, <2>3 DEF Before
  <2>6. WorkLeft(w) = Before(w) + 5 * b + 4 + 1 /\ WorkLeft(u) = Before(u)
    BY <1>c, <1>s, <1>5, WorkOf DEF Trying
  <2>7. k = 5 * N + 6 /\ m \in Nat /\ N \in Nat /\ b \in Nat /\ b <= N
    BY <1>t, <1>c, <2>1, <2>3
  <2> QED
    BY <2>4, <2>5, <2>6, <2>7
<1>6. CASE /\ u.pc = "candidate" /\ w.pc = "role"
           /\ w.phase = u.phase /\ w.roles = u.roles
  <2>1. Before(w) = Before(u)
    BY <1>6 DEF Before
  <2> QED
    BY <1>t, <1>c, <1>s, <1>6, <2>1, WorkOf DEF Trying
<1>7. CASE /\ u.pc \in Trying /\ w.pc \in Trying /\ w.phase = u.phase /\ w.roles = u.roles
           /\ \/ w.todo \subseteq u.todo /\ w.todo # u.todo
              \/ w.todo = u.todo /\ Stage[w.pc] < Stage[u.pc]
  <2>1. Before(w) = Before(u)
    BY <1>7 DEF Before
  <2>2. CASE w.todo = u.todo /\ Stage[w.pc] < Stage[u.pc]
    BY <1>t, <1>c, <1>s, <1>7, <2>1, <2>2, WorkOf
  <2>3. CASE w.todo \subseteq u.todo /\ w.todo # u.todo
    <3>1. b <= a /\ b # a
      BY <1>t, <1>c, <2>3, ProvidersCount, FS_Subset
    <3> QED
      BY <1>t, <1>c, <1>s, <1>7, <2>1, <3>1, WorkOf
  <2> QED
    BY <1>7, <2>2, <2>3
<1> QED
  BY <1>1, <1>2, <1>3, <1>4, <1>5, <1>6, <1>7 DEF Moves

\* The fields of the thread that the measure looks at.
LEMMA FieldsOf ==
  ASSUME IInv, [Next]_vars, NEW r \in Routes
  PROVE  /\ run[r] \in Threads /\ run'[r] \in Threads /\ run \in [Routes -> Threads]
         /\ RouteInv(r)
BY NextIInv, ThreadOf DEF IInv, Shape

LEMMA TryMoves ==
  ASSUME IInv, NEW r \in Routes, run[r].pc \in {"lock", "reserve", "calling"},
         run'[r] = GiveUp(r)
  PROVE  Moves(run[r], run'[r])
<1>1. run[r].provider \in run[r].todo
  BY DEF IInv, RouteInv, TryInv
<1>2. PICK w : w = GiveUp(r)
  OBVIOUS
<1>3. /\ w.pc = "candidate" /\ w.phase = run[r].phase /\ w.roles = run[r].roles
      /\ w.todo = run[r].todo \ {run[r].provider}
  BY <1>2, GivenUp
<1> QED
  BY <1>1, <1>2, <1>3 DEF Moves, Trying

\* The step of a route is one of its moves.
LEMMA StepMoves ==
  ASSUME IInv, NEW r \in Routes, Step(r)
  PROVE  /\ \A s \in Routes \ {r} : run'[s] = run[s]
         /\ run'[r] = run[r] \/ Moves(run[r], run'[r])
<1> DEFINE u == run[r]
<1>t. u \in Threads /\ RouteInv(r) /\ run \in [Routes -> Threads]
  BY ThreadOf
<1>i. /\ (u.pc \in {"lock", "reserve", "reserved", "calling"} => u.provider \in u.todo)
      /\ (u.pc = "role" => u.phase = "run")
  BY <1>t DEF RouteInv, TryInv, PhaseInv
<1>1. CASE NextRole(r)
  <2>1. CASE u.roles = <<>> \/ u.iterations >= MaxIterations
    BY <1>t, <1>1, <1>i, <2>1 DEF NextRole, Goto, At, Moves, Threads
  <2>2. CASE ~(u.roles = <<>> \/ u.iterations >= MaxIterations)
    <3>1. /\ \A s \in Routes \ {r} : run'[s] = run[s]
          /\ run'[r] = [u EXCEPT !.roles = Tail(@), !.iterations = @ + 1,
                                 !.todo = CandidatesFor(Head(u.roles), u.req),
                                 !.pc = "candidate"]
      BY <1>t, <1>1, <2>2 DEF NextRole, Set
    <3>2. /\ run'[r].pc = "candidate" /\ run'[r].phase = u.phase
          /\ run'[r].roles = Tail(u.roles) /\ u.pc = "role"
      BY <1>t, <1>1, <3>1 DEF Threads, NextRole, At
    <3> QED
      BY <1>i, <2>2, <3>1, <3>2 DEF Moves
  <2> QED
    BY <2>1, <2>2
<1>v. CASE BeginVerify(r)
  <2>1. /\ u.pc = "verify" /\ \A s \in Routes \ {r} : run'[s] = run[s]
        /\ \/ run'[r] = [u EXCEPT !.pc = "escalate"]
           \/ run'[r] = [u EXCEPT !.phase = "check", !.pc = "candidate", !.provider = Nobody,
                                  !.todo = VerifiersFor(u.result, u.req)]
    BY <1>t, <1>v DEF BeginVerify, Goto, Set, At
  <2>2. \/ run'[r].pc = "escalate"
        \/ run'[r].pc = "candidate" /\ run'[r].phase = "check"
    BY <1>t, <2>1 DEF Threads
  <2> QED
    BY <2>1, <2>2 DEF Moves
<1>2. CASE RoleExhausted(r) \/ NoVerifier(r)
  BY <1>t, <1>2 DEF RoleExhausted, NoVerifier, Goto, At, Moves, Trying, Threads
<1>3. ASSUME NEW p \in Providers, Skip(r, p)
      PROVE  /\ \A s \in Routes \ {r} : run'[s] = run[s]
             /\ Moves(run[r], run'[r])
  BY <1>t, <1>3 DEF Skip, At, Moves, Trying, Threads
<1>4. ASSUME NEW p \in Providers, LimitReached(r, p)
      PROVE  /\ \A s \in Routes \ {r} : run'[s] = run[s]
             /\ Moves(run[r], run'[r])
  BY <1>t, <1>4 DEF LimitReached, Set, At, Moves, Trying, Threads
<1>5. ASSUME NEW p \in Providers, Choose(r, p)
      PROVE  /\ \A s \in Routes \ {r} : run'[s] = run[s]
             /\ Moves(run[r], run'[r])
  BY <1>t, <1>5, StageType DEF Choose, Set, At, Moves, Trying, Threads
<1>6. CASE AcquireLock(r)
  BY <1>t, <1>6, StageType DEF AcquireLock, Set, At, Moves, Trying, Threads
<1>s. CASE StartCall(r)
  BY <1>t, <1>s, StageType DEF StartCall, Goto, At, Moves, Trying, Threads
<1>7. CASE ReserveCall(r)
  BY <1>t, <1>7, StageType DEF ReserveCall, Set, At, Moves, Trying, Threads
<1>8. CASE LockTimeout(r) \/ BudgetBlock(r)
  BY <1>t, <1>8, TryMoves DEF LockTimeout, BudgetBlock, Set, At
<1>9. ASSUME NEW use, CallFails(r, use)
      PROVE  /\ \A s \in Routes \ {r} : run'[s] = run[s]
             /\ Moves(run[r], run'[r])
  BY <1>t, <1>9, TryMoves DEF CallFails, Set, At
<1>10. ASSUME NEW use, NEW a \in {"ok", "escalate", "refuse"}, Result(r, use, a)
       PROVE  /\ \A s \in Routes \ {r} : run'[s] = run[s]
              /\ Moves(run[r], run'[r])
  <2>1. CASE a = "escalate"
    BY <1>t, <1>10, <2>1, TryMoves DEF Result, Set, At
  <2>2. CASE a = "refuse"
    BY <1>t, <1>i, <1>10, <2>2 DEF Result, Set, At, Moves, Trying, Threads
  <2>3. CASE a = "ok"
    BY <1>t, <1>i, <1>10, <2>3 DEF Result, Set, At, Moves, Trying, Threads
  <2> QED
    BY <2>1, <2>2, <2>3
<1>11. ASSUME NEW use, NEW v \in {"agree", "disagree", "uncertain"}, Verdict(r, use, v)
       PROVE  /\ \A s \in Routes \ {r} : run'[s] = run[s]
              /\ Moves(run[r], run'[r])
  BY <1>t, <1>i, <1>11 DEF Verdict, AfterVerdict, Set, At, Moves, Trying, Threads
<1>12. CASE SuccessfulDecision(r) \/ HumanEscalation(r)
  <2>1. /\ u.pc \in {"accept", "escalate"} /\ \A s \in Routes \ {r} : run'[s] = run[s]
        /\ \/ run'[r] = FinishRun(u, "routed", u.result)
           \/ run'[r] = FinishRun(u, "escalated", Nobody)
    BY <1>t, <1>12 DEF SuccessfulDecision, HumanEscalation, Set, At
  <2>2. run'[r].pc = "done"
    BY <1>t, <2>1, FinishedFields DEF Threads
  <2> QED
    BY <2>1, <2>2 DEF Moves, ActivePcs
<1> QED
  BY <1>1, <1>2, <1>3, <1>4, <1>5, <1>6, <1>7, <1>8, <1>9, <1>10, <1>11, <1>12,
     <1>s, <1>v DEF Step

\* Every step of a route leaves it less to do, for any number of providers, roles
\* and calls: the loops of route and _verify_executor_result end.
THEOREM RoutesShrink == Spec => RoutesEnd
<1>1. IInv /\ [Next]_vars => IInv'
  BY NextIInv
<1>2. ASSUME IInv, [Next]_vars
      PROVE  \A r \in Routes : Active(r) /\ run'[r] # run[r]
                                 => WorkLeft(run'[r]) < WorkLeft(run[r])
  <2> SUFFICES ASSUME NEW r \in Routes, Active(r), run'[r] # run[r]
               PROVE  WorkLeft(run'[r]) < WorkLeft(run[r])
    OBVIOUS
  <2>t. run[r] \in Threads /\ run'[r] \in Threads /\ run \in [Routes -> Threads] /\ RouteInv(r)
    BY <1>2, FieldsOf
  <2>a. run[r].pc \in ActivePcs /\ (run[r].pc = "role" => run[r].phase = "run")
    BY <2>t DEF Active, Ended, Threads, ActivePcs, RouteInv, PhaseInv
  <2>c. PICK w : w = Closed(run[r], "raised")
    OBVIOUS
  <2>d. w.pc = "raised"
    BY <2>t, <2>c, ClosedFields
  <2>m. run'[r] = w => Moves(run[r], run'[r])
    BY <2>a, <2>d DEF Moves
  <2>1. ASSUME NEW s \in Routes, Step(s) PROVE Moves(run[r], run'[r])
    BY <1>2, <2>1, StepMoves
  <2>2. ASSUME NEW s \in Routes, DatabaseFails(s) PROVE Moves(run[r], run'[r])
    <3>1. s = r /\ run'[r] = w
      BY <2>2, <2>t, <2>c DEF DatabaseFails, Set
    <3> QED
      BY <2>m, <3>1
  <2>3. ASSUME NEW s \in Routes, NEW q \in Requests, StartRun(s, q) PROVE FALSE
    BY <2>3, <2>t DEF StartRun, Set, At, Active, Ended
  <2>4. ASSUME Crash PROVE Moves(run[r], run'[r])
    <3>1. run'[r] = w
      BY <2>4, <2>c DEF Crash
    <3> QED
      BY <2>m, <3>1
  <2>5. ~(UNCHANGED run)
    OBVIOUS
  <2>6. ~(UNCHANGED vars) /\ ~(NextDay /\ UNCHANGED <<run, lock, faults>>)
    BY <2>5 DEF vars
  <2>7. Moves(run[r], run'[r])
    BY <1>2, <2>1, <2>2, <2>3, <2>4, <2>6 DEF Next
  <2> QED
    BY <2>t, <2>7, MovesShrink
<1> QED
  BY InitIInv, <1>1, <1>2, PTL DEF Spec, RoutesEnd
-----------------------------------------------------------------------------
(* THE OUTCOMES OF THE MODELS                                              *)
-----------------------------------------------------------------------------
(* The latest rows of a table                                              *)

Table(s) == DOMAIN s = 1 .. Len(s) /\ Len(s) \in Nat

LEMMA PlacesAreFinite ==
  ASSUME NEW s, Table(s), NEW A, A \subseteq DOMAIN s
  PROVE  IsFiniteSet(A) /\ Cardinality(A) \in Nat /\ Cardinality(A) <= Len(s)
<1>0. PICK n \in Nat : n = Len(s)
  BY DEF Table
<1>1. PICK lo \in Int : n = Len(s) /\ lo = 1
  BY <1>0
<1>2. IsFiniteSet(lo .. n) /\ Cardinality(lo .. n) = n
  <2>1. IsFiniteSet(lo .. n) /\ Cardinality(lo .. n) = IF lo > n THEN 0 ELSE n - lo + 1
    BY FS_Interval
  <2> QED BY <1>1, <2>1
<1>3. A \subseteq lo .. n
  BY <1>1 DEF Table
<1>4. IsFiniteSet(A) /\ Cardinality(A) <= Cardinality(lo .. n)
  BY <1>2, <1>3, FS_Subset
<1> QED BY <1>1, <1>2, <1>4, FS_CardinalityType

\* Of two rows of a candidate, the earlier one has more later ones.
LEMMA LaterShrinks ==
  ASSUME NEW s, Table(s), NEW c, NEW i \in DOMAIN s, NEW j \in DOMAIN s, i < j, About(s[j]) = c
  PROVE  /\ Cardinality(Later(s, c, j)) \in Nat /\ Cardinality(Later(s, c, i)) \in Nat
         /\ Cardinality(Later(s, c, j)) < Cardinality(Later(s, c, i))
<1>1. PICK A, B : A = Later(s, c, i) /\ B = Later(s, c, j)
  OBVIOUS
<1>2. A \subseteq DOMAIN s /\ B \subseteq DOMAIN s
  BY <1>1 DEF Later
<1>3. /\ IsFiniteSet(A) /\ Cardinality(A) \in Nat
      /\ IsFiniteSet(B) /\ Cardinality(B) \in Nat
  BY <1>2, PlacesAreFinite
<1>4. B \subseteq A /\ j \in A /\ j \notin B
  <2>1. i \in Int /\ j \in Int /\ \A k \in DOMAIN s : k \in Int
    BY DEF Table
  <2> QED BY <1>1, <2>1 DEF Later
<1>5. Cardinality(A \ {j}) = Cardinality(A) - 1 /\ IsFiniteSet(A \ {j})
  BY <1>3, <1>4, FS_RemoveElement
<1>6. Cardinality(B) <= Cardinality(A \ {j})
  <2>1. B \subseteq A \ {j}
    BY <1>4
  <2> QED BY <1>5, <2>1, FS_Subset
<1> QED BY <1>1, <1>3, <1>5, <1>6

LEMMA LatestAreFew ==
  ASSUME NEW s, Table(s), NEW c
  PROVE  /\ IsFiniteSet(Latest(s, c)) /\ Cardinality(Latest(s, c)) \in Nat
         /\ Cardinality(Latest(s, c)) <= MaxRows
<1>1. PICK S : S = Latest(s, c)
  OBVIOUS
<1>2. S \subseteq DOMAIN s
  BY <1>1 DEF Latest
<1>3. IsFiniteSet(S) /\ Cardinality(S) \in Nat
  BY <1>2, PlacesAreFinite
<1>4. PICK lo, hi \in Int : lo = 0 /\ hi = MaxRows - 1 /\ MaxRows \in Nat /\ MaxRows # 0
  BY OutcomesAssumption DEF OutcomesAssumption
<1>5. PICK f : f = [i \in S |-> Cardinality(Later(s, c, i))]
  OBVIOUS
<1>6. f \in Injection(S, lo .. hi)
  <2>1. ASSUME NEW i \in S PROVE f[i] \in lo .. hi
    <3>1. Later(s, c, i) \subseteq DOMAIN s /\ f[i] = Cardinality(Later(s, c, i)) /\ f[i] < MaxRows
      BY <1>1, <1>5 DEF Later, Latest
    <3>2. f[i] \in Nat
      BY <3>1, PlacesAreFinite
    <3> QED BY <1>4, <3>1, <3>2
  <2>2. ASSUME NEW i \in S, NEW j \in S, f[i] = f[j] PROVE i = j
    <3>1. i \in Int /\ j \in Int /\ i \in DOMAIN s /\ j \in DOMAIN s /\ About(s[i]) = c /\ About(s[j]) = c
      BY <1>1 DEF Latest, Table
    <3>2. ~ (i < j) /\ ~ (j < i)
      BY <1>5, <2>2, <3>1, LaterShrinks
    <3> QED BY <3>1, <3>2
  <2>3. f \in [S -> lo .. hi]
    BY <1>5, <2>1
  <2> QED BY <2>2, <2>3 DEF Injection, IsInjective
<1>7. IsFiniteSet(lo .. hi) /\ Cardinality(lo .. hi) = hi - lo + 1
  BY <1>4, FS_Interval
<1>8. Cardinality(S) <= Cardinality(lo .. hi)
  BY <1>6, <1>7, FS_Injection
<1> QED BY <1>1, <1>3, <1>4, <1>7, <1>8

\* A row that is added takes the place of one row at most.
LEMMA LatestGrows ==
  ASSUME NEW s, Table(s), NEW e, NEW c, NEW t, Table(t), Len(t) = Len(s) + 1,
         t[Len(t)] = e, \A i \in DOMAIN s : t[i] = s[i]
  PROVE  Cardinality(Latest(s, c)) <= Cardinality(Latest(t, c))
<1>1. PICK n \in Nat : n = Len(s) /\ DOMAIN s = 1 .. n /\ DOMAIN t = 1 .. n + 1 /\ Len(t) = n + 1
  BY DEF Table
<1>2. PICK S, T : S = Latest(s, c) /\ T = Latest(t, c)
  OBVIOUS
<1>3. /\ IsFiniteSet(S) /\ Cardinality(S) \in Nat /\ IsFiniteSet(T) /\ Cardinality(T) \in Nat
      /\ S \subseteq 1 .. n
  BY <1>1, <1>2, LatestAreFew DEF Latest
<1>4. \A i \in 1 .. n : /\ IsFiniteSet(Later(s, c, i)) /\ Cardinality(Later(s, c, i)) \in Nat
                        /\ n + 1 \notin Later(s, c, i)
  <2>1. \A i \in 1 .. n : Later(s, c, i) \subseteq DOMAIN s
    BY DEF Later
  <2>2. n + 1 \notin DOMAIN s
    BY <1>1
  <2> QED BY <2>1, <2>2, PlacesAreFinite
<1>5. CASE About(e) # c
  <2>1. \A i \in 1 .. n : Later(t, c, i) = Later(s, c, i)
    BY <1>1, <1>5 DEF Later
  <2>2. S \subseteq T
    <3>1. ASSUME NEW i \in S PROVE i \in T
      <4>1. i \in 1 .. n /\ About(s[i]) = c /\ Cardinality(Later(s, c, i)) < MaxRows
        BY <1>1, <1>2 DEF Latest
      <4>2. i \in DOMAIN t /\ About(t[i]) = c /\ Cardinality(Later(t, c, i)) < MaxRows
        BY <1>1, <2>1, <4>1
      <4> QED BY <1>2, <4>2 DEF Latest
    <3> QED BY <3>1
  <2> QED BY <1>2, <1>3, <2>2, FS_Subset
<1>6. CASE About(e) = c
  <2>1. \A i \in 1 .. n : Later(t, c, i) = Later(s, c, i) \union {n + 1}
    BY <1>1, <1>6 DEF Later
  <2>2. \A i \in 1 .. n : Cardinality(Later(t, c, i)) = Cardinality(Later(s, c, i)) + 1
    BY <1>4, <2>1, FS_AddElement
  <2>3. MaxRows \in Nat /\ MaxRows # 0
    BY OutcomesAssumption DEF OutcomesAssumption
  <2>4. n + 1 \in T
    <3>1. Later(t, c, n + 1) = {}
      BY <1>1 DEF Later
    <3>2. Cardinality(Later(t, c, n + 1)) = 0
      BY <3>1, FS_EmptySet
    <3> QED BY <1>1, <1>2, <1>6, <2>3, <3>2 DEF Latest
  <2>5. \A i \in S : /\ i \in 1 .. n /\ About(s[i]) = c /\ Cardinality(Later(s, c, i)) < MaxRows
                     /\ Cardinality(Later(s, c, i)) \in Nat
    BY <1>1, <1>2, <1>4 DEF Latest
  <2>6. ASSUME NEW i \in S, i \notin T PROVE Cardinality(Later(s, c, i)) = MaxRows - 1
    <3>1. i \in DOMAIN t /\ About(t[i]) = c
      BY <1>1, <2>5
    <3>2. ~ (Cardinality(Later(t, c, i)) < MaxRows)
      BY <1>2, <2>6, <3>1 DEF Latest
    <3> QED BY <2>2, <2>3, <2>5, <3>2
  <2>7. ASSUME NEW i \in S, NEW j \in S, i \notin T, j \notin T PROVE i = j
    <3>1. Cardinality(Later(s, c, i)) = Cardinality(Later(s, c, j))
      BY <2>6, <2>7
    <3>2. ~ (i < j) /\ ~ (j < i)
      BY <1>1, <2>5, <3>1, LaterShrinks
    <3>3. i \in Int /\ j \in Int
      BY <2>5
    <3> QED BY <3>2, <3>3
  <2>8. n + 1 \notin S
    BY <1>3
  <2>9. IsFiniteSet(T \ {n + 1}) /\ Cardinality(T \ {n + 1}) = Cardinality(T) - 1
    BY <1>3, <2>4, FS_RemoveElement
  <2>10. CASE S \subseteq T
    BY <1>2, <1>3, <2>10, FS_Subset
  <2>11. CASE ~ (S \subseteq T)
    <3>1. PICK d \in S : d \notin T
      BY <2>11
    <3>2. S \ {d} \subseteq T \ {n + 1}
      BY <2>7, <2>8, <3>1
    <3>3. Cardinality(S \ {d}) = Cardinality(S) - 1
      BY <1>3, FS_RemoveElement
    <3>4. Cardinality(S \ {d}) <= Cardinality(T \ {n + 1})
      BY <2>9, <3>2, FS_Subset
    <3> QED BY <1>2, <1>3, <2>9, <3>3, <3>4
  <2> QED BY <2>10, <2>11
<1> QED BY <1>5, <1>6
-----------------------------------------------------------------------------
(* The invariant                                                           *)

KnownTypes == TaskTypes \cup {NoModel}
Halves == [by : Ranked, attempts : Nat, completed : Nat]
Scores ==
  [task : Runs, type : KnownTypes, by : Ranked,
   found : [attempts : Nat, completed : Nat, validations : Nat, succeeded : Nat]]
RunRecords ==
  [at : {"new", "scoring", "reading", "ranked", "calling", "over"}, type : KnownTypes,
   mission : TaskMissions \cup {NoModel}, project : Projects \cup {NoModel},
   status : {"none", "running", "routed", "escalated"}, final : Ranked \cup {NoModel},
   half : SUBSET Halves, drafts : SUBSET Scores, since : Nat]
AccountNames == Accounts \cup {Unbound}
CallRows ==
  [task : Runs, type : KnownTypes, by : Ranked, status : {"reserved", "completed", "uncertain"},
   account : AccountNames]
OutcomeRows ==
  [task : Runs, type : TaskTypes, mission : TaskMissions, project : Projects, verdict : Verdicts,
   by : Ranked, account : AccountNames]
Daemons ==
  [phase : {"down", "opening", "up"}, version : Versions, account : [Ranked -> AccountNames]]
Labels == Projects \X TaskTypes \X Verdicts

OutcomesTypeOK ==
  /\ runs \in [Runs -> RunRecords] /\ calls \in Seq(CallRows) /\ outcomes \in Seq(OutcomeRows)
  /\ counted \in [Labels -> Nat] /\ scores \subseteq Scores /\ daemon \in Daemons

\* How many of the outcomes up to k rank a candidate in tasks of a type.
Evident(k, kc) == Cardinality(Latest(SubSeq(outcomes, 1, k), kc))

\* A score rests on the outcomes of a moment between k and now.
ScoreInv(s, k) ==
  /\ Evident(k, About(s)) <= s.found.validations
  /\ s.found.validations <= Evident(Len(outcomes), About(s))
  /\ s.found.succeeded <= s.found.validations
  /\ s.found.completed <= s.found.attempts /\ s.found.attempts <= MaxRows

RunInv(t, q) ==
  /\ q.status = "none" <=> q.at = "new"
  /\ q.status # "none" => q.type \in TaskTypes
  /\ q.at \in {"scoring", "reading", "ranked", "calling"} => q.status = "running"
  /\ q.at # "reading" => q.half = {}
  /\ q.at \notin {"scoring", "reading"} => q.drafts = {}
  /\ q.since <= Len(outcomes)
  /\ \A kc \in KnownTypes \X Ranked : Evident(q.since, kc) <= Evident(Len(outcomes), kc)
  /\ \A h \in q.half : /\ h.completed <= h.attempts /\ h.attempts <= MaxRows
                       /\ \A s \in q.drafts : s.by # h.by
  /\ \A s \in q.drafts : s.task = t /\ s.type = q.type /\ ScoreInv(s, q.since)
  /\ \A s, r \in q.drafts : s.by = r.by => s = r

RunsInv == \A t \in Runs : RunInv(t, runs[t])

ScoresInv ==
  /\ \A s \in scores : /\ runs[s.task].at \in {"ranked", "calling", "over"}
                       /\ s.type = runs[s.task].type /\ ScoreInv(s, runs[s.task].since)
  /\ \A s \in scores, c \in Ranked : \E r \in scores : r.task = s.task /\ r.by = c
  /\ \A s, r \in scores : s.task = r.task /\ s.by = r.by => s = r

Labelled(p, k, v) ==
  {i \in DOMAIN outcomes : /\ outcomes[i].project = p /\ outcomes[i].type = k
                           /\ outcomes[i].verdict = v}

CountInv ==
  \A p \in Projects, k \in TaskTypes, v \in Verdicts :
    counted[<<p, k, v>>] = Cardinality(Labelled(p, k, v))

OutcomesInv ==
  /\ OutcomesTypeOK /\ OneProjectPerMission /\ AccountsAreBound
  /\ RunsInv /\ ScoresInv /\ OutcomesAreFacts /\ CountInv
-----------------------------------------------------------------------------
(* What a step leaves as it is                                             *)

LEMMA OutcomesAreATable ==
  ASSUME OutcomesTypeOK
  PROVE  /\ Table(outcomes) /\ Table(calls)
         /\ \A k \in 0 .. Len(outcomes) : Table(SubSeq(outcomes, 1, k))
         /\ SubSeq(outcomes, 1, Len(outcomes)) = outcomes
<1>1. outcomes \in Seq(OutcomeRows) /\ calls \in Seq(CallRows)
  BY DEF OutcomesTypeOK
<1>2. PICK R, o : R = OutcomeRows /\ o = outcomes /\ o \in Seq(R)
  BY <1>1
<1>3. ASSUME NEW k \in 0 .. Len(o) PROVE SubSeq(o, 1, k) \in Seq(R)
  BY <1>2
<1>4. SubSeq(o, 1, Len(o)) = o
  BY <1>2
<1>5. \A S, s : s \in Seq(S) => Table(s)
  BY DEF Table
<1> QED BY <1>1, <1>2, <1>3, <1>4, <1>5

LEMMA EvidentIsSmall ==
  ASSUME OutcomesTypeOK, NEW k \in 0 .. Len(outcomes), NEW c
  PROVE  Evident(k, c) \in Nat /\ Evident(k, c) <= MaxRows
BY OutcomesAreATable, LatestAreFew DEF Evident

\* The runs of the routes, where only that of t moves.
LEMMA OneRunMoves ==
  ASSUME RunsInv, OutcomesTypeOK, NEW t \in Runs, NEW rec \in RunRecords, Put(t, rec),
         RunInv(t, rec), UNCHANGED outcomes
  PROVE  /\ runs' \in [Runs -> RunRecords] /\ RunsInv'
         /\ runs'[t] = rec /\ \A u \in Runs : u # t => runs'[u] = runs[u]
<1>1. runs \in [Runs -> RunRecords]
  BY DEF OutcomesTypeOK
<1>2. runs' = [runs EXCEPT ![t] = rec]
  BY DEF Put
<1>3. runs' \in [Runs -> RunRecords] /\ runs'[t] = rec /\ \A u \in Runs : u # t => runs'[u] = runs[u]
  BY <1>1, <1>2
<1>4. ASSUME NEW u \in Runs PROVE RunInv(u, runs[u])'
  <2>1. RunInv(u, runs'[u])
    BY <1>3 DEF RunsInv
  <2>2. RunInv(u, runs'[u]) = RunInv(u, runs[u])'
    BY DEF RunInv, ScoreInv, Evident
  <2> QED BY <2>1, <2>2
<1> QED BY <1>3, <1>4 DEF RunsInv

\* Of the calls, those that are completed stay so; an account is at most filled in.
CallsKeep ==
  \A j \in DOMAIN calls : calls[j].status = "completed" =>
    /\ j \in DOMAIN calls' /\ calls'[j].task = calls[j].task /\ calls'[j].by = calls[j].by
    /\ calls'[j].status = "completed" /\ calls[j].account \in {Unbound, calls'[j].account}

LEMMA SameCalls ==
  ASSUME UNCHANGED calls
  PROVE  CallsKeep
BY DEF CallsKeep

LEMMA FactsStay ==
  ASSUME OutcomesAreFacts, OutcomesTypeOK, UNCHANGED outcomes, CallsKeep,
         \A t \in Runs : runs[t].status = "routed" =>
           /\ runs'[t].status = "routed" /\ runs'[t].final = runs[t].final
           /\ runs'[t].type = runs[t].type
           /\ runs'[t].mission = runs[t].mission /\ runs'[t].project = runs[t].project
  PROVE  OutcomesAreFacts'
<1> SUFFICES ASSUME NEW i \in DOMAIN outcomes
             PROVE  (LET o == outcomes[i] q == runs[o.task] IN
                     /\ q.status = "routed" /\ q.final = o.by
                     /\ <<q.type, q.mission, q.project>> = <<o.type, o.mission, o.project>>
                     /\ Vouched(o)
                     /\ \A j \in DOMAIN outcomes : outcomes[j].task = o.task => j = i)'
  BY DEF OutcomesAreFacts
<1>1. PICK o : o = outcomes[i] /\ o \in OutcomeRows
  BY DEF OutcomesTypeOK
<1>2. o.task \in Runs /\ o.by \in Ranked
  BY <1>1 DEF OutcomeRows
<1>3. /\ runs[o.task].status = "routed" /\ runs[o.task].final = o.by /\ Vouched(o)
      /\ <<runs[o.task].type, runs[o.task].mission, runs[o.task].project>>
           = <<o.type, o.mission, o.project>>
      /\ \A j \in DOMAIN outcomes : outcomes[j].task = o.task => j = i
  BY <1>1 DEF OutcomesAreFacts
<1>4. /\ runs'[o.task].status = "routed" /\ runs'[o.task].final = o.by
      /\ <<runs'[o.task].type, runs'[o.task].mission, runs'[o.task].project>>
           = <<o.type, o.mission, o.project>>
  BY <1>2, <1>3
<1>5. Vouched(o)'
  <2>1. PICK j \in DOMAIN calls : /\ IsCompleted(calls[j], o.task, o.by)
                                 /\ o.account \in {Unbound, calls[j].account}
    BY <1>3 DEF Vouched
  <2>2. /\ j \in DOMAIN calls' /\ IsCompleted(calls'[j], o.task, o.by)
        /\ calls[j].account \in {Unbound, calls'[j].account}
    BY <2>1 DEF CallsKeep, IsCompleted
  <2>3. o.account \in {Unbound, calls'[j].account}
    BY <2>1, <2>2
  <2> QED BY <2>2, <2>3 DEF Vouched, IsCompleted
<1> QED BY <1>1, <1>3, <1>4, <1>5

LEMMA CountsStay ==
  ASSUME CountInv, UNCHANGED <<outcomes, counted>>
  PROVE  CountInv'
<1>1. outcomes' = outcomes /\ counted' = counted
  OBVIOUS
<1>2. \A p, k, v : Labelled(p, k, v)' = Labelled(p, k, v)
  BY <1>1 DEF Labelled
<1> QED BY <1>1, <1>2 DEF CountInv

\* The scores, where those that are stored stay and no run starts anew.
LEMMA ScoresStay ==
  ASSUME ScoresInv, UNCHANGED <<outcomes, scores>>,
         \A s \in scores : runs'[s.task].at \in {"ranked", "calling", "over"}
                             /\ runs'[s.task].since = runs[s.task].since
                             /\ runs'[s.task].type = runs[s.task].type
  PROVE  ScoresInv'
BY DEF ScoresInv, ScoreInv, Evident

LEMMA ProjectsStay ==
  ASSUME OneProjectPerMission, daemon'.phase # "down" => daemon.phase # "down",
         \A t \in Runs : /\ runs'[t].mission = runs[t].mission /\ runs'[t].project = runs[t].project
                         /\ runs'[t].status = "none" <=> runs[t].status = "none"
  PROVE  OneProjectPerMission'
<1> SUFFICES ASSUME daemon'.phase # "down" PROVE ~ Conflicting'
  BY DEF OneProjectPerMission
<1>1. ~ Conflicting
  BY DEF OneProjectPerMission
<1> QED BY <1>1 DEF Conflicting, RunRecorded
-----------------------------------------------------------------------------
(* The steps                                                               *)

\* A step of the run of t that records no outcome and no score.
LEMMA RunMoves ==
  ASSUME OutcomesInv, NEW t \in Runs, NEW rec \in RunRecords, Put(t, rec), RunInv(t, rec),
         UNCHANGED <<outcomes, counted, scores, daemon>>, calls' \in Seq(CallRows),
         CallsKeep, AccountsAreBound',
         runs[t].at \in {"scoring", "reading", "ranked", "calling"}, rec.at # "new",
         runs[t].at \in {"ranked", "calling"} => rec.at \in {"ranked", "calling", "over"},
         rec.since = runs[t].since, rec.status # "none", rec.type = runs[t].type,
         rec.mission = runs[t].mission, rec.project = runs[t].project
  PROVE  OutcomesInv'
<1>1. /\ OutcomesTypeOK /\ OneProjectPerMission /\ AccountsAreBound
      /\ RunsInv /\ ScoresInv /\ OutcomesAreFacts /\ CountInv
  BY DEF OutcomesInv
<1>2. /\ runs' \in [Runs -> RunRecords] /\ RunsInv'
      /\ runs'[t] = rec /\ \A u \in Runs : u # t => runs'[u] = runs[u]
  BY <1>1, OneRunMoves
<1>3. runs[t].status = "running"
  BY <1>1 DEF RunsInv, RunInv
<1>4. OutcomesTypeOK'
  BY <1>1, <1>2 DEF OutcomesTypeOK
<1>5. OutcomesAreFacts'
  BY <1>1, <1>2, <1>3, FactsStay
<1>6. CountInv'
  BY <1>1, CountsStay
<1>7. ScoresInv'
  <2>1. ASSUME NEW s \in scores
        PROVE  runs'[s.task].at \in {"ranked", "calling", "over"}
                 /\ runs'[s.task].since = runs[s.task].since
                 /\ runs'[s.task].type = runs[s.task].type
    <3>1. s.task \in Runs /\ runs[s.task].at \in {"ranked", "calling", "over"}
      BY <1>1 DEF OutcomesTypeOK, Scores, ScoresInv
    <3>2. CASE s.task = t
      BY <1>2, <3>1, <3>2
    <3>3. CASE s.task # t
      BY <1>2, <3>1, <3>3
    <3> QED BY <3>2, <3>3
  <2> QED BY <1>1, <2>1, ScoresStay
<1>8. OneProjectPerMission'
  <2>1. \A u \in Runs : /\ runs'[u].mission = runs[u].mission /\ runs'[u].project = runs[u].project
                        /\ runs'[u].status = "none" <=> runs[u].status = "none"
    BY <1>2, <1>3
  <2> QED BY <1>1, <2>1, ProjectsStay
<1> QED BY <1>2, <1>4, <1>5, <1>6, <1>7, <1>8 DEF OutcomesInv

\* The calls of a daemon that goes on.
LEMMA BoundStays ==
  ASSUME AccountsAreBound, UNCHANGED <<calls, daemon>>
  PROVE  AccountsAreBound'
BY DEF AccountsAreBound

LEMMA OpenKeeps ==
  ASSUME OutcomesInv, NEW t \in Runs, NEW k \in TaskTypes, NEW m \in TaskMissions, NEW p \in Projects,
         OpenRun(t, k, m, p)
  PROVE  OutcomesInv'
<1>1. /\ OutcomesTypeOK /\ OneProjectPerMission /\ AccountsAreBound
      /\ RunsInv /\ ScoresInv /\ OutcomesAreFacts /\ CountInv
  BY DEF OutcomesInv
<1>2. /\ daemon.phase = "up" /\ runs[t].at = "new" /\ UNCHANGED <<calls, outcomes, counted, scores, daemon>>
      /\ ~\E s \in Runs : RunRecorded(s) /\ runs[s].mission = m /\ runs[s].project # p
  BY DEF OpenRun, Stands
<1>3. PICK n \in Nat : n = Len(outcomes)
  BY <1>1, OutcomesAreATable DEF Table
<1>4. PICK simple \in BOOLEAN :
        Put(t, [NewRun EXCEPT !.at = IF simple THEN "over" ELSE "scoring",
                               !.status = IF simple THEN "routed" ELSE "running",
                               !.type = k, !.mission = m, !.project = p,
                               !.since = Len(outcomes)])
  BY DEF OpenRun
<1>5. PICK rec : rec = [NewRun EXCEPT !.at = IF simple THEN "over" ELSE "scoring",
                                      !.status = IF simple THEN "routed" ELSE "running",
                                      !.type = k, !.mission = m, !.project = p, !.since = n]
  OBVIOUS
<1>6. /\ rec.at \in {"over", "scoring"} /\ rec.status = (IF rec.at = "over" THEN "routed" ELSE "running")
      /\ rec.mission = m /\ rec.project = p /\ rec.type = k /\ rec.since = n /\ rec.half = {}
      /\ rec.drafts = {} /\ rec.final = NoModel
      /\ rec \in RunRecords
  BY <1>5 DEF NewRun, RunRecords, KnownTypes
<1>7. Put(t, rec)
  BY <1>3, <1>4, <1>5
<1>8. RunInv(t, rec)
  <2>1. \A kc : Evident(n, kc) \in Nat
    BY <1>1, <1>3, EvidentIsSmall
  <2> QED BY <1>3, <1>6, <2>1 DEF RunInv
<1>9. /\ runs' \in [Runs -> RunRecords] /\ RunsInv'
      /\ runs'[t] = rec /\ \A u \in Runs : u # t => runs'[u] = runs[u]
  BY <1>1, <1>2, <1>6, <1>7, <1>8, OneRunMoves
<1>10. runs[t].status = "none"
  BY <1>1, <1>2 DEF RunsInv, RunInv
<1>11. OutcomesTypeOK'
  BY <1>1, <1>2, <1>9 DEF OutcomesTypeOK
<1>12. OutcomesAreFacts'
  <2>1. CallsKeep
    BY <1>2, SameCalls
  <2>2. \A u \in Runs : runs[u].status = "routed" => runs'[u] = runs[u]
    BY <1>9, <1>10
  <2> QED BY <1>1, <1>2, <2>1, <2>2, FactsStay
<1>13. CountInv'
  BY <1>1, <1>2, CountsStay
<1>14. ScoresInv'
  <2>1. ASSUME NEW s \in scores
        PROVE  runs'[s.task].at \in {"ranked", "calling", "over"}
                 /\ runs'[s.task].since = runs[s.task].since
                 /\ runs'[s.task].type = runs[s.task].type
    <3>1. s.task \in Runs /\ runs[s.task].at \in {"ranked", "calling", "over"}
      BY <1>1 DEF OutcomesTypeOK, Scores, ScoresInv
    <3>2. s.task # t
      BY <1>2, <3>1
    <3> QED BY <1>9, <3>1, <3>2
  <2> QED BY <1>1, <1>2, <2>1, ScoresStay
<1>15. OneProjectPerMission'
  <2>1. ~ Conflicting
    BY <1>1, <1>2 DEF OneProjectPerMission
  <2>2. ASSUME NEW u \in Runs, NEW w \in Runs, RunRecorded(u)', RunRecorded(w)',
               runs'[u].mission = runs'[w].mission
        PROVE  runs'[u].project = runs'[w].project
    <3>1. \A x \in Runs : x # t => (RunRecorded(x)' => RunRecorded(x))
      BY <1>9 DEF RunRecorded
    <3>2. CASE u = t /\ w = t
      BY <3>2
    <3>3. CASE u = t /\ w # t
      BY <1>2, <1>6, <1>9, <2>2, <3>1, <3>3
    <3>4. CASE u # t /\ w = t
      BY <1>2, <1>6, <1>9, <2>2, <3>1, <3>4
    <3>5. CASE u # t /\ w # t
      BY <1>9, <2>1, <2>2, <3>1, <3>5 DEF Conflicting
    <3> QED BY <3>2, <3>3, <3>4, <3>5
  <2> QED BY <2>2 DEF OneProjectPerMission, Conflicting
<1> QED BY <1>1, <1>2, <1>9, <1>11, <1>12, <1>13, <1>14, <1>15, BoundStays DEF OutcomesInv

LEMMA DieKeeps ==
  ASSUME OutcomesInv, Die
  PROVE  OutcomesInv'
<1>1. /\ OutcomesTypeOK /\ OneProjectPerMission /\ AccountsAreBound
      /\ RunsInv /\ ScoresInv /\ OutcomesAreFacts /\ CountInv
  BY DEF OutcomesInv
<1>2. /\ UNCHANGED <<calls, outcomes, counted, scores>>
      /\ runs' = [t \in Runs |-> IF runs[t].at = "new" THEN runs[t]
                                 ELSE [runs[t] EXCEPT !.at = "over", !.half = {}, !.drafts = {}]]
  BY DEF Die
<1>3. daemon' \in Daemons /\ daemon'.phase = "down"
  <2>1. daemon' = [daemon EXCEPT !.phase = "down"] /\ daemon \in Daemons
    BY <1>1 DEF Die, OutcomesTypeOK
  <2> QED BY <2>1 DEF Daemons
<1>4. ASSUME NEW t \in Runs
      PROVE  /\ runs'[t] \in RunRecords /\ runs'[t].since = runs[t].since
             /\ runs'[t].at = (IF runs[t].at = "new" THEN "new" ELSE "over")
             /\ runs'[t].half = {} /\ runs'[t].drafts = {} /\ runs'[t].type = runs[t].type
             /\ runs'[t].status = runs[t].status /\ runs'[t].final = runs[t].final
             /\ runs'[t].mission = runs[t].mission /\ runs'[t].project = runs[t].project
  <2>1. runs[t] \in RunRecords
    BY <1>1 DEF OutcomesTypeOK
  <2>2. CASE runs[t].at = "new"
    <3>1. runs[t].drafts = {} /\ runs[t].half = {}
      BY <1>1, <2>2 DEF RunsInv, RunInv
    <3> QED BY <1>2, <2>1, <2>2, <3>1
  <2>3. CASE runs[t].at # "new"
    <3>1. runs'[t] = [runs[t] EXCEPT !.at = "over", !.half = {}, !.drafts = {}]
      BY <1>2, <2>3
    <3> QED BY <2>1, <2>3, <3>1 DEF RunRecords
  <2> QED BY <2>2, <2>3
<1>5. OutcomesTypeOK'
  <2>1. runs' \in [Runs -> RunRecords]
    BY <1>2, <1>4
  <2> QED BY <1>1, <1>2, <1>3, <2>1 DEF OutcomesTypeOK
<1>6. RunsInv'
  <2> SUFFICES ASSUME NEW t \in Runs PROVE RunInv(t, runs[t])'
    BY DEF RunsInv
  <2>1. RunInv(t, runs[t])
    BY <1>1 DEF RunsInv
  <2>2. Len(outcomes') = Len(outcomes) /\ \A k, c : Evident(k, c)' = Evident(k, c)
    BY <1>2 DEF Evident
  <2> QED BY <1>4, <2>1, <2>2 DEF RunInv
<1>7. OutcomesAreFacts'
  <2>1. CallsKeep
    BY <1>2, SameCalls
  <2> QED BY <1>1, <1>2, <1>4, <2>1, FactsStay
<1>8. CountInv'
  BY <1>1, <1>2, CountsStay
<1>9. ScoresInv'
  <2>1. ASSUME NEW s \in scores
        PROVE  runs'[s.task].at \in {"ranked", "calling", "over"}
                 /\ runs'[s.task].since = runs[s.task].since
                 /\ runs'[s.task].type = runs[s.task].type
    <3>1. s.task \in Runs /\ runs[s.task].at \in {"ranked", "calling", "over"}
      BY <1>1 DEF OutcomesTypeOK, Scores, ScoresInv
    <3> QED BY <1>4, <3>1
  <2> QED BY <1>1, <1>2, <2>1, ScoresStay
<1> QED BY <1>3, <1>5, <1>6, <1>7, <1>8, <1>9
        DEF OutcomesInv, OneProjectPerMission, AccountsAreBound

\* What the two SELECTs of a history find.
LEMMA CallsFoundAreFew ==
  ASSUME OutcomesTypeOK, NEW k, NEW c \in Ranked, NEW h, h = CallsFound(k, c)
  PROVE  h \in Halves /\ h.by = c /\ h.completed <= h.attempts /\ h.attempts <= MaxRows
<1>1. PICK a, x : a = Latest(calls, <<k, c>>) /\ x = {i \in a : calls[i].status = "completed"}
  OBVIOUS
<1>2. IsFiniteSet(a) /\ Cardinality(a) \in Nat /\ Cardinality(a) <= MaxRows
  BY <1>1, OutcomesAreATable, LatestAreFew
<1>3. x \subseteq a
  BY <1>1
<1>4. Cardinality(x) \in Nat /\ Cardinality(x) <= Cardinality(a)
  BY <1>2, <1>3, FS_Subset, FS_CardinalityType
<1>5. h = [by |-> c, attempts |-> Cardinality(a), completed |-> Cardinality(x)]
  BY <1>1 DEF CallsFound
<1> QED BY <1>2, <1>4, <1>5 DEF Halves

LEMMA HistoryIsEvident ==
  ASSUME OutcomesTypeOK, NEW k, NEW h \in Halves, NEW f, f = HistoryFound(k, h)
  PROVE  /\ f \in [attempts : Nat, completed : Nat, validations : Nat, succeeded : Nat]
         /\ f.validations = Evident(Len(outcomes), <<k, h.by>>) /\ f.succeeded <= f.validations
         /\ f.completed = h.completed /\ f.attempts = h.attempts
<1>1. PICK v, y : v = Latest(outcomes, <<k, h.by>>) /\ y = {i \in v : outcomes[i].verdict = "succeeded"}
  OBVIOUS
<1>2. IsFiniteSet(v) /\ Cardinality(v) \in Nat
  BY <1>1, OutcomesAreATable, LatestAreFew
<1>3. y \subseteq v
  BY <1>1
<1>4. Cardinality(y) \in Nat /\ Cardinality(y) <= Cardinality(v)
  BY <1>2, <1>3, FS_Subset, FS_CardinalityType
<1>5. f = [attempts |-> h.attempts, completed |-> h.completed,
           validations |-> Cardinality(v), succeeded |-> Cardinality(y)]
  BY <1>1 DEF HistoryFound
<1>6. Cardinality(v) = Evident(Len(outcomes), <<k, h.by>>)
  BY <1>1, OutcomesAreATable DEF Evident
<1>7. h.attempts \in Nat /\ h.completed \in Nat
  BY DEF Halves
<1> QED BY <1>2, <1>4, <1>5, <1>6, <1>7

LEMMA ReadCallsKeeps ==
  ASSUME OutcomesInv, NEW t \in Runs, NEW c \in Ranked, ReadCalls(t, c)
  PROVE  OutcomesInv'
<1>1. OutcomesTypeOK /\ RunsInv /\ AccountsAreBound
  BY DEF OutcomesInv
<1>2. /\ runs[t].at = "scoring" /\ UNCHANGED <<calls, outcomes, counted, scores, daemon>>
      /\ \A s \in runs[t].drafts : s.by # c
  BY DEF ReadCalls, Stands
<1>3. PICK h : h = CallsFound(runs[t].type, c)
  OBVIOUS
<1>4. h \in Halves /\ h.by = c /\ h.completed <= h.attempts /\ h.attempts <= MaxRows
  BY <1>1, <1>3, CallsFoundAreFew
<1>5. PICK rec : rec = [runs[t] EXCEPT !.at = "reading", !.half = {h}]
  OBVIOUS
<1>6. Put(t, rec)
  BY <1>3, <1>5 DEF ReadCalls
<1>7. runs[t] \in RunRecords /\ RunInv(t, runs[t])
  BY <1>1 DEF OutcomesTypeOK, RunsInv
<1>8. /\ rec \in RunRecords /\ rec.drafts = runs[t].drafts /\ rec.at = "reading"
      /\ rec.half = {h} /\ rec.type = runs[t].type /\ rec.status = runs[t].status
      /\ rec.since = runs[t].since /\ rec.mission = runs[t].mission
      /\ rec.project = runs[t].project
  BY <1>4, <1>5, <1>7 DEF RunRecords
<1>9. RunInv(t, rec) /\ rec.status # "none"
  BY <1>2, <1>4, <1>7, <1>8 DEF RunInv
<1>10. calls' \in Seq(CallRows) /\ CallsKeep /\ AccountsAreBound'
  BY <1>1, <1>2, SameCalls, BoundStays DEF OutcomesTypeOK
<1> QED BY <1>2, <1>6, <1>8, <1>9, <1>10, RunMoves

LEMMA ReadOutcomesKeeps ==
  ASSUME OutcomesInv, NEW t \in Runs, ReadOutcomes(t)
  PROVE  OutcomesInv'
<1>1. OutcomesTypeOK /\ RunsInv /\ AccountsAreBound
  BY DEF OutcomesInv
<1>2. runs[t].at = "reading" /\ UNCHANGED <<calls, outcomes, counted, scores, daemon>>
  BY DEF ReadOutcomes, Stands
<1>3. runs[t] \in RunRecords /\ RunInv(t, runs[t])
  BY <1>1 DEF OutcomesTypeOK, RunsInv
<1>4. PICK h \in runs[t].half :
        Put(t, [runs[t] EXCEPT !.at = "scoring", !.half = {},
                  !.drafts = @ \cup {[task |-> t, type |-> runs[t].type, by |-> h.by,
                                     found |-> HistoryFound(runs[t].type, h)]}])
  BY DEF ReadOutcomes
<1>5. PICK k, f : k = runs[t].type /\ f = HistoryFound(k, h)
  OBVIOUS
<1>6. PICK s : s = [task |-> t, type |-> k, by |-> h.by, found |-> f]
  OBVIOUS
<1>7. PICK rec : rec = [runs[t] EXCEPT !.at = "scoring", !.half = {}, !.drafts = @ \cup {s}]
  OBVIOUS
<1>8. Put(t, rec)
  BY <1>4, <1>5, <1>6, <1>7
<1>9. /\ h \in Halves /\ h.by \in Ranked /\ k \in KnownTypes
      /\ h.completed <= h.attempts /\ h.attempts <= MaxRows
      /\ \A r \in runs[t].drafts : r.by # h.by
  BY <1>3, <1>4, <1>5 DEF RunRecords, Halves, RunInv
<1>10. /\ f \in [attempts : Nat, completed : Nat, validations : Nat, succeeded : Nat]
       /\ f.validations = Evident(Len(outcomes), <<k, h.by>>) /\ f.succeeded <= f.validations
       /\ f.completed = h.completed /\ f.attempts = h.attempts
  BY <1>1, <1>5, <1>9, HistoryIsEvident
<1>11. /\ s \in Scores /\ s.task = t /\ s.type = k /\ s.by = h.by /\ s.found = f
       /\ About(s) = <<k, h.by>>
  BY <1>6, <1>9, <1>10 DEF Scores, About
<1>12. /\ rec \in RunRecords /\ rec.drafts = runs[t].drafts \cup {s} /\ rec.at = "scoring"
       /\ rec.half = {} /\ rec.type = k /\ rec.status = runs[t].status
       /\ rec.since = runs[t].since /\ rec.mission = runs[t].mission
       /\ rec.project = runs[t].project
  BY <1>3, <1>5, <1>7, <1>11 DEF RunRecords
<1>13. ScoreInv(s, rec.since)
  <2>1. PICK kc \in KnownTypes \X Ranked : kc = <<k, h.by>>
    BY <1>9
  <2>2. Evident(rec.since, kc) <= Evident(Len(outcomes), kc)
    BY <1>3, <1>12 DEF RunInv
  <2>3. Evident(Len(outcomes), kc) <= Evident(Len(outcomes), kc)
    <3>1. Len(outcomes) \in 0 .. Len(outcomes)
      BY <1>1, OutcomesAreATable DEF Table
    <3> QED BY <1>1, <3>1, EvidentIsSmall
  <2>4. About(s) = kc /\ f.validations = Evident(Len(outcomes), kc)
    BY <1>10, <1>11, <2>1
  <2> QED BY <1>9, <1>10, <1>11, <2>2, <2>3, <2>4 DEF ScoreInv
<1>14. RunInv(t, rec)
  <2>1. /\ rec.status = "running" /\ rec.since <= Len(outcomes) /\ rec.type \in TaskTypes
        /\ \A kc \in KnownTypes \X Ranked : Evident(rec.since, kc) <= Evident(Len(outcomes), kc)
    BY <1>2, <1>3, <1>5, <1>12 DEF RunInv
  <2>2. \A r \in rec.drafts : r.task = t /\ r.type = rec.type /\ ScoreInv(r, rec.since)
    BY <1>3, <1>5, <1>11, <1>12, <1>13 DEF RunInv
  <2>3. \A q, r \in rec.drafts : q.by = r.by => q = r
    BY <1>3, <1>9, <1>11, <1>12 DEF RunInv
  <2> QED BY <1>12, <2>1, <2>2, <2>3 DEF RunInv
<1>15. calls' \in Seq(CallRows) /\ CallsKeep /\ AccountsAreBound'
  BY <1>1, <1>2, SameCalls, BoundStays DEF OutcomesTypeOK
<1>16. rec.status # "none" /\ rec.type = runs[t].type
  BY <1>5, <1>12, <1>14 DEF RunInv
<1> QED BY <1>2, <1>8, <1>12, <1>14, <1>15, <1>16, RunMoves

\* A run that goes on without histories.
LEMMA PlainRun ==
  ASSUME OutcomesInv, NEW t \in Runs, NEW at \in {"ranked", "calling"}, NEW rec,
         rec = [runs[t] EXCEPT !.at = at], runs[t].at \in {"ranked", "calling"}
  PROVE  /\ rec \in RunRecords /\ RunInv(t, rec) /\ rec.at = at /\ rec.since = runs[t].since
         /\ rec.type = runs[t].type /\ rec.status # "none" /\ rec.mission = runs[t].mission /\ rec.project = runs[t].project
<1>1. runs[t] \in RunRecords /\ RunInv(t, runs[t])
  BY DEF OutcomesInv, OutcomesTypeOK, RunsInv
<1>2. /\ rec \in RunRecords /\ rec.at = at /\ rec.since = runs[t].since
      /\ rec.status = runs[t].status /\ rec.mission = runs[t].mission
      /\ rec.project = runs[t].project /\ rec.drafts = runs[t].drafts
      /\ rec.half = runs[t].half /\ rec.type = runs[t].type
  BY <1>1 DEF RunRecords
<1> QED BY <1>1, <1>2 DEF RunInv

LEMMA CallKeeps ==
  ASSUME OutcomesInv, NEW t \in Runs, NEW c \in Ranked, CallModel(t, c)
  PROVE  OutcomesInv'
<1>1. PICK R, old : R = CallRows /\ old = calls /\ old \in Seq(R)
  BY DEF OutcomesInv, OutcomesTypeOK
<1>2. PICK a, row : a = daemon.account[c] /\ row = CallOf(t, c, "reserved", a)
  OBVIOUS
<1>3. /\ runs[t].at = "ranked" /\ UNCHANGED <<outcomes, counted, scores, daemon>>
      /\ calls' = Append(old, row) /\ daemon.phase = "up"
  BY <1>1, <1>2 DEF CallModel, Stands
<1>4. row \in R /\ row.account = a /\ row.by = c
  <2>1. a \in AccountNames /\ runs[t].type \in KnownTypes
    BY <1>2 DEF OutcomesInv, OutcomesTypeOK, Daemons, RunRecords
  <2>2. row = [task |-> t, type |-> runs[t].type, by |-> c, status |-> "reserved", account |-> a]
    BY <1>2 DEF CallOf
  <2> QED BY <1>1, <2>1, <2>2 DEF CallRows
<1>5. /\ calls' \in Seq(R) /\ DOMAIN calls' = 1 .. Len(old) + 1 /\ DOMAIN old = 1 .. Len(old)
      /\ Len(old) \in Nat /\ calls'[Len(old) + 1] = row
      /\ \A i \in 1 .. Len(old) : calls'[i] = old[i]
  BY <1>1, <1>3, <1>4
<1>6. CallsKeep
  <2>1. \A i \in DOMAIN old : i \in DOMAIN calls' /\ calls'[i] = old[i]
    BY <1>1, <1>5
  <2> QED BY <1>1, <2>1 DEF CallsKeep
<1>7. AccountsAreBound'
  <2>1. \A i \in DOMAIN old : old[i].account = daemon.account[old[i].by]
    BY <1>1, <1>3 DEF OutcomesInv, AccountsAreBound
  <2>2. ASSUME NEW i \in DOMAIN calls' PROVE calls'[i].account = daemon'.account[calls'[i].by]
    <3>1. i \in DOMAIN old \/ i = Len(old) + 1
      BY <1>5
    <3>2. CASE i \in DOMAIN old
      BY <1>3, <1>5, <2>1, <3>2
    <3>3. CASE i = Len(old) + 1
      BY <1>2, <1>3, <1>4, <1>5, <3>3
    <3> QED BY <3>1, <3>2, <3>3
  <2> QED BY <2>2 DEF AccountsAreBound
<1>8. PICK at, rec : at = "calling" /\ rec = [runs[t] EXCEPT !.at = at]
  OBVIOUS
<1>9. Put(t, rec)
  BY <1>8 DEF CallModel
<1>10. /\ rec \in RunRecords /\ RunInv(t, rec) /\ rec.at = "calling" /\ rec.since = runs[t].since
       /\ rec.type = runs[t].type /\ rec.status # "none"
       /\ rec.mission = runs[t].mission /\ rec.project = runs[t].project
  BY <1>3, <1>8, PlainRun
<1> QED BY <1>1, <1>3, <1>5, <1>6, <1>7, <1>9, <1>10, RunMoves

LEMMA AnswerKeeps ==
  ASSUME OutcomesInv, NEW t \in Runs, NEW status \in {"completed", "uncertain"},
         AnswerCall(t, status)
  PROVE  OutcomesInv'
<1>1. PICK R, old : R = CallRows /\ old = calls /\ old \in Seq(R)
  BY DEF OutcomesInv, OutcomesTypeOK
<1>2. /\ runs[t].at = "calling" /\ UNCHANGED <<outcomes, counted, scores, daemon>>
  BY DEF AnswerCall, Stands
<1>3. PICK i \in DOMAIN old : old[i].status = "reserved" /\ calls' = [old EXCEPT ![i].status = status]
  BY <1>1 DEF AnswerCall
<1>4. PICK row : row = [old[i] EXCEPT !.status = status]
  OBVIOUS
<1>5. row \in R /\ row.account = old[i].account /\ row.by = old[i].by
  <2>1. old[i] \in CallRows
    BY <1>1, <1>3
  <2> QED BY <1>1, <1>4, <2>1 DEF CallRows
<1>6. calls' = [old EXCEPT ![i] = row]
  BY <1>3, <1>4
<1>7. /\ calls' \in Seq(R) /\ DOMAIN calls' = DOMAIN old
      /\ calls'[i] = row /\ \A j \in DOMAIN old : j # i => calls'[j] = old[j]
  BY <1>1, <1>3, <1>5, <1>6
<1>8. CallsKeep
  <2>1. \A j \in DOMAIN old : old[j].status = "completed" => j # i
    BY <1>3
  <2> QED BY <1>1, <1>7, <2>1 DEF CallsKeep
<1>9. AccountsAreBound'
  <2>1. daemon.phase = "up" => \A j \in DOMAIN old : old[j].account = daemon.account[old[j].by]
    BY <1>1 DEF OutcomesInv, AccountsAreBound
  <2>2. \A j \in DOMAIN old : calls'[j].account = old[j].account /\ calls'[j].by = old[j].by
    BY <1>5, <1>7
  <2> QED BY <1>2, <1>7, <2>1, <2>2 DEF AccountsAreBound
<1>10. PICK at, rec : at = "ranked" /\ rec = [runs[t] EXCEPT !.at = at]
  OBVIOUS
<1>11. Put(t, rec)
  BY <1>10 DEF AnswerCall
<1>12. /\ rec \in RunRecords /\ RunInv(t, rec) /\ rec.at = "ranked" /\ rec.since = runs[t].since
       /\ rec.type = runs[t].type /\ rec.status # "none"
       /\ rec.mission = runs[t].mission /\ rec.project = runs[t].project
  BY <1>2, <1>10, PlainRun
<1> QED BY <1>1, <1>2, <1>7, <1>8, <1>9, <1>11, <1>12, RunMoves

LEMMA EndKeeps ==
  ASSUME OutcomesInv, NEW t \in Runs, EndRun(t)
  PROVE  OutcomesInv'
<1>1. OutcomesTypeOK /\ RunsInv /\ AccountsAreBound
  BY DEF OutcomesInv
<1>2. runs[t].at = "ranked" /\ UNCHANGED <<calls, outcomes, counted, scores, daemon>>
  BY DEF EndRun, Stands
<1>3. runs[t] \in RunRecords /\ RunInv(t, runs[t])
  BY <1>1 DEF OutcomesTypeOK, RunsInv
<1>4. calls' \in Seq(CallRows)
  BY <1>1, <1>2 DEF OutcomesTypeOK
<1>5. CallsKeep /\ AccountsAreBound'
  BY <1>1, <1>2, SameCalls, BoundStays
<1>6. ASSUME NEW status \in {"routed", "escalated"}, NEW final \in Ranked \cup {NoModel}, NEW rec,
             rec = [runs[t] EXCEPT !.at = "over", !.status = status, !.final = final], Put(t, rec)
      PROVE  OutcomesInv'
  <2>1. /\ rec \in RunRecords /\ rec.at = "over" /\ rec.since = runs[t].since
        /\ rec.status = status /\ rec.mission = runs[t].mission
        /\ rec.project = runs[t].project /\ rec.drafts = runs[t].drafts
        /\ rec.half = runs[t].half /\ rec.type = runs[t].type
    BY <1>3, <1>6 DEF RunRecords
  <2>2. RunInv(t, rec)
    BY <1>2, <1>3, <2>1 DEF RunInv
  <2> QED BY <1>2, <1>4, <1>5, <1>6, <2>1, <2>2, RunMoves
<1>7. CASE \E c \in Ranked : Put(t, [runs[t] EXCEPT !.at = "over", !.status = "routed", !.final = c])
  <2>1. PICK c \in Ranked : Put(t, [runs[t] EXCEPT !.at = "over", !.status = "routed", !.final = c])
    BY <1>7
  <2>2. PICK status, rec : status = "routed"
                           /\ rec = [runs[t] EXCEPT !.at = "over", !.status = status, !.final = c]
    OBVIOUS
  <2> QED BY <1>6, <2>1, <2>2
<1>8. CASE Put(t, [runs[t] EXCEPT !.at = "over", !.status = "escalated"])
  <2>1. PICK status, final, rec :
          /\ status = "escalated" /\ final = runs[t].final
          /\ rec = [runs[t] EXCEPT !.at = "over", !.status = status, !.final = final]
    OBVIOUS
  <2>2. rec = [runs[t] EXCEPT !.at = "over", !.status = "escalated"]
    BY <1>3, <2>1 DEF RunRecords
  <2>3. final \in Ranked \cup {NoModel}
    BY <1>3, <2>1 DEF RunRecords
  <2> QED BY <1>6, <1>8, <2>1, <2>2, <2>3
<1> QED BY <1>7, <1>8 DEF EndRun

LEMMA StoreKeeps ==
  ASSUME OutcomesInv, NEW t \in Runs, RecordScores(t)
  PROVE  OutcomesInv'
<1>1. /\ OutcomesTypeOK /\ OneProjectPerMission /\ AccountsAreBound
      /\ RunsInv /\ ScoresInv /\ OutcomesAreFacts /\ CountInv
  BY DEF OutcomesInv
<1>2. /\ runs[t].at = "scoring" /\ UNCHANGED <<calls, outcomes, counted, daemon>>
      /\ \A c \in Ranked : \E s \in runs[t].drafts : s.by = c
      /\ scores' = scores \cup runs[t].drafts
  BY DEF RecordScores, Stands
<1>3. PICK rec : rec = [runs[t] EXCEPT !.at = "ranked", !.drafts = {}]
  OBVIOUS
<1>4. Put(t, rec)
  BY <1>3 DEF RecordScores
<1>5. runs[t] \in RunRecords /\ RunInv(t, runs[t])
  BY <1>1 DEF OutcomesTypeOK, RunsInv
<1>6. /\ rec \in RunRecords /\ rec.at = "ranked" /\ rec.since = runs[t].since
      /\ rec.status = runs[t].status /\ rec.mission = runs[t].mission /\ rec.final = runs[t].final
      /\ rec.project = runs[t].project /\ rec.drafts = {} /\ rec.half = runs[t].half
      /\ rec.type = runs[t].type
  BY <1>3, <1>5 DEF RunRecords
<1>7. RunInv(t, rec) /\ runs[t].status = "running"
  BY <1>2, <1>5, <1>6 DEF RunInv
<1>8. /\ runs' \in [Runs -> RunRecords] /\ RunsInv'
      /\ runs'[t] = rec /\ \A u \in Runs : u # t => runs'[u] = runs[u]
  BY <1>1, <1>2, <1>4, <1>6, <1>7, OneRunMoves
<1>9. OutcomesTypeOK'
  <2>1. runs[t].drafts \subseteq Scores
    BY <1>5 DEF RunRecords
  <2> QED BY <1>1, <1>2, <1>8, <2>1 DEF OutcomesTypeOK
<1>10. OutcomesAreFacts'
  <2>1. CallsKeep
    BY <1>2, SameCalls
  <2> QED BY <1>1, <1>2, <1>7, <1>8, <2>1, FactsStay
<1>11. CountInv'
  BY <1>1, <1>2, CountsStay
<1>12. OneProjectPerMission'
  <2>1. \A u \in Runs : /\ runs'[u].mission = runs[u].mission /\ runs'[u].project = runs[u].project
                        /\ runs'[u].status = "none" <=> runs[u].status = "none"
    BY <1>6, <1>8
  <2> QED BY <1>1, <1>2, <2>1, ProjectsStay
<1>13. /\ \A s \in scores : s.task \in Runs /\ s.task # t
       /\ \A s \in runs[t].drafts : s.task = t
  BY <1>1, <1>2, <1>5 DEF OutcomesTypeOK, Scores, ScoresInv, RunInv
<1>14. ScoresInv'
  <2>1. ASSUME NEW s \in scores'
        PROVE  /\ runs'[s.task].at \in {"ranked", "calling", "over"}
               /\ s.type = runs'[s.task].type /\ ScoreInv(s, runs'[s.task].since)
    <3>1. CASE s \in scores
      BY <1>1, <1>8, <1>13, <3>1 DEF ScoresInv
    <3>2. CASE s \in runs[t].drafts
      BY <1>5, <1>6, <1>8, <1>13, <3>2 DEF RunInv
    <3> QED BY <1>2, <3>1, <3>2
  <2>2. \A s, k : ScoreInv(s, k)' = ScoreInv(s, k)
    BY <1>2 DEF ScoreInv, Evident
  <2>3. ASSUME NEW s \in scores', NEW c \in Ranked
        PROVE  \E r \in scores' : r.task = s.task /\ r.by = c
    <3>1. CASE s \in scores
      BY <1>1, <1>2, <3>1 DEF ScoresInv
    <3>2. CASE s \in runs[t].drafts
      BY <1>2, <1>13, <3>2
    <3> QED BY <1>2, <3>1, <3>2
  <2>4. ASSUME NEW s \in scores', NEW r \in scores', s.task = r.task, s.by = r.by
        PROVE  s = r
    <3>1. CASE s \in scores /\ r \in scores
      BY <1>1, <2>4, <3>1 DEF ScoresInv
    <3>2. CASE s \in runs[t].drafts /\ r \in runs[t].drafts
      BY <1>5, <2>4, <3>2 DEF RunInv
    <3> QED BY <1>2, <1>13, <2>4, <3>1, <3>2
  <2>5. \A s \in scores' : ScoreInv(s, runs'[s.task].since) = ScoreInv(s, runs[s.task].since)'
    BY <1>2 DEF ScoreInv, Evident
  <2> QED BY <2>1, <2>3, <2>4, <2>5 DEF ScoresInv
<1> QED BY <1>1, <1>2, <1>8, <1>9, <1>10, <1>11, <1>12, <1>14, BoundStays DEF OutcomesInv

LEMMA OutcomeKeeps ==
  ASSUME OutcomesInv, NEW t \in Runs, NEW m \in TaskMissions, NEW p \in Projects, NEW v \in Verdicts,
         RecordOutcome(t, m, p, v)
  PROVE  OutcomesInv'
<1>1. /\ OutcomesTypeOK /\ OneProjectPerMission /\ AccountsAreBound
      /\ RunsInv /\ ScoresInv /\ OutcomesAreFacts /\ CountInv
  BY DEF OutcomesInv
<1>2. UNCHANGED <<runs, calls, scores, daemon>> /\ Validatable(t, m, p)
  BY DEF RecordOutcome
<1>3. PICK c, a, k : c = runs[t].final /\ a = daemon.account[c] /\ k = runs[t].type
  OBVIOUS
<1>4. PICK e : e = [task |-> t, type |-> k, mission |-> m, project |-> p, verdict |-> v,
                    by |-> c, account |-> a]
  OBVIOUS
<1>5. /\ e.task = t /\ e.mission = m /\ e.project = p /\ e.verdict = v /\ e.by = c /\ e.account = a
      /\ e.type = k /\ k \in TaskTypes /\ c \in Ranked /\ e \in OutcomeRows
  <2>1. c \in Ranked
    BY <1>1, <1>2, <1>3 DEF Validatable, OutcomesTypeOK, RunRecords
  <2>2. daemon.account \in [Ranked -> AccountNames]
    BY <1>1 DEF OutcomesTypeOK, Daemons
  <2>3. k \in TaskTypes
    <3>1. RunInv(t, runs[t]) /\ runs[t].status = "routed"
      BY <1>1, <1>2 DEF RunsInv, Validatable
    <3> QED BY <1>3, <3>1 DEF RunInv
  <2> QED BY <1>3, <1>4, <2>1, <2>2, <2>3 DEF OutcomeRows
<1>6. PICK R, o, q : R = OutcomeRows /\ o = outcomes /\ q = outcomes' /\ o \in Seq(R)
  BY <1>1 DEF OutcomesTypeOK
<1>7. q = Append(o, e)
  BY <1>3, <1>4, <1>6 DEF RecordOutcome
<1>8. PICK n \in Nat : n = Len(o) /\ DOMAIN o = 1 .. n
  BY <1>6
<1>9. /\ q \in Seq(R) /\ Len(q) = n + 1 /\ DOMAIN q = 1 .. n + 1 /\ q[n + 1] = e
      /\ \A i \in 1 .. n : q[i] = o[i]
  BY <1>5, <1>6, <1>7, <1>8
<1>10. counted' = [counted EXCEPT ![<<p, k, v>>] = counted[<<p, k, v>>] + 1]
  BY <1>3 DEF RecordOutcome
<1>11. OutcomesTypeOK'
  <2>1. <<p, k, v>> \in Labels /\ counted \in [Labels -> Nat]
    BY <1>1, <1>5 DEF OutcomesTypeOK, Labels
  <2>2. counted' \in [Labels -> Nat]
    BY <1>10, <2>1
  <2> QED BY <1>1, <1>2, <1>6, <1>9, <2>2 DEF OutcomesTypeOK
<1>12. OneProjectPerMission'
  BY <1>1, <1>2, ProjectsStay
\* The histories grow.
<1>13. ASSUME NEW d
       PROVE  /\ \A z \in 0 .. n : Evident(z, d)' = Evident(z, d) /\ Evident(z, d) \in Nat
              /\ Evident(n, d) <= Evident(n + 1, d)' /\ Evident(n + 1, d)' \in Nat
  <2>1. ASSUME NEW z \in 0 .. n PROVE SubSeq(q, 1, z) = SubSeq(o, 1, z)
    <3>1. SubSeq(q, 1, z) \in Seq(R) /\ SubSeq(o, 1, z) \in Seq(R)
      BY <1>6, <1>8, <1>9
    <3>2. Len(SubSeq(q, 1, z)) = z /\ Len(SubSeq(o, 1, z)) = z
      BY <1>6, <1>8, <1>9
    <3>3. \A i \in 1 .. z : SubSeq(q, 1, z)[i] = q[i] /\ SubSeq(o, 1, z)[i] = o[i] /\ q[i] = o[i]
      BY <1>6, <1>8, <1>9
    <3> QED BY <3>1, <3>2, <3>3
  <2>2. SubSeq(q, 1, n + 1) = q /\ SubSeq(o, 1, n) = o
    BY <1>6, <1>8, <1>9
  <2>3. Table(o) /\ Table(q)
    BY <1>6, <1>8, <1>9 DEF Table
  <2>4. Cardinality(Latest(o, d)) <= Cardinality(Latest(q, d)) /\ Cardinality(Latest(q, d)) \in Nat
    BY <1>8, <1>9, <2>3, LatestGrows, LatestAreFew
  <2>5. \A z \in 0 .. n : Evident(z, d) \in Nat
    BY <1>1, <1>6, <1>8, EvidentIsSmall
  <2> QED BY <1>6, <2>1, <2>2, <2>4, <2>5 DEF Evident
<1>14. ASSUME NEW s, NEW z \in 0 .. n, ScoreInv(s, z), s.found.validations \in Nat
       PROVE  ScoreInv(s, z)'
  <2>1. /\ Evident(z, About(s))' = Evident(z, About(s))
        /\ Evident(n, About(s)) <= Evident(n + 1, About(s))' /\ Evident(n, About(s)) \in Nat
        /\ Evident(n + 1, About(s))' \in Nat
    BY <1>13
  <2>2. Evident(Len(outcomes), About(s)) = Evident(n, About(s))
        /\ Evident(Len(outcomes), About(s))' = Evident(n + 1, About(s))'
    BY <1>6, <1>8, <1>9 DEF Evident
  <2> QED BY <1>14, <2>1, <2>2 DEF ScoreInv
<1>15. \A u \in Runs : runs[u].since \in 0 .. n
  BY <1>1, <1>6, <1>8 DEF OutcomesTypeOK, RunRecords, RunsInv, RunInv
<1>16. \A s \in Scores : s.found.validations \in Nat /\ s.task \in Runs
  BY DEF Scores
<1>17. RunsInv'
  <2> SUFFICES ASSUME NEW u \in Runs PROVE RunInv(u, runs[u])'
    BY DEF RunsInv
  <2>1. RunInv(u, runs[u]) /\ runs[u].drafts \subseteq Scores
    BY <1>1 DEF RunsInv, OutcomesTypeOK, RunRecords
  <2>2. PICK z \in 0 .. n : z = runs[u].since
    BY <1>15
  <2>3. \A s \in runs[u].drafts : s.task = u /\ ScoreInv(s, z)'
    BY <1>14, <1>16, <2>1, <2>2 DEF RunInv
  <2>4. ASSUME NEW d \in KnownTypes \X Ranked PROVE Evident(z, d)' <= Evident(Len(outcomes), d)'
    <3>1. Evident(z, d) <= Evident(n, d)
      BY <1>6, <1>8, <2>1, <2>2 DEF RunInv
    <3>2. n \in 0 .. n
      OBVIOUS
    <3>3. /\ Evident(z, d)' = Evident(z, d) /\ Evident(z, d) \in Nat /\ Evident(n, d) \in Nat
          /\ Evident(n, d) <= Evident(n + 1, d)' /\ Evident(n + 1, d)' \in Nat
      BY <1>13, <3>2
    <3>4. Evident(Len(outcomes), d)' = Evident(n + 1, d)'
      BY <1>6, <1>9 DEF Evident
    <3> QED BY <3>1, <3>3, <3>4
  <2>5. z <= Len(outcomes)'
    BY <1>6, <1>9
  <2>6. runs'[u] = runs[u] /\ runs'[u].since = z
    BY <1>2, <2>2
  <2>7. \A s : ScoreInv(s, runs[u].since)' <=> ScoreInv(s, z)'
    BY <2>6 DEF ScoreInv, Evident
  <2>8. \A d : Evident(runs[u].since, d)' = Evident(z, d)'
    BY <2>6 DEF Evident
  <2> QED BY <2>1, <2>3, <2>4, <2>5, <2>6, <2>7, <2>8 DEF RunInv
<1>18. ScoresInv'
  <2>1. ASSUME NEW s \in scores
        PROVE  /\ runs'[s.task].at \in {"ranked", "calling", "over"} /\ s.type = runs'[s.task].type
               /\ ScoreInv(s, runs[s.task].since)'
    <3>1. s \in Scores /\ s.task \in Runs /\ s.found.validations \in Nat
      BY <1>1, <1>16 DEF OutcomesTypeOK
    <3>2. PICK z \in 0 .. n : z = runs[s.task].since
      BY <1>15, <3>1
    <3>3. /\ ScoreInv(s, z) /\ runs[s.task].at \in {"ranked", "calling", "over"}
          /\ s.type = runs[s.task].type
      BY <1>1, <3>2 DEF ScoresInv
    <3>4. ScoreInv(s, z)'
      BY <1>14, <3>1, <3>3
    <3>5. ScoreInv(s, runs[s.task].since)' <=> ScoreInv(s, z)'
      BY <1>2, <3>2 DEF ScoreInv, Evident
    <3> QED BY <1>2, <3>3, <3>4, <3>5
  <2> QED BY <1>1, <1>2, <2>1 DEF ScoresInv
<1>19. OutcomesAreFacts'
  <2>1. \A i \in 1 .. n : o[i].task # t
    BY <1>2, <1>6, <1>8 DEF Validatable
  <2>2. \A x : Vouched(x)' = Vouched(x)
    BY <1>2 DEF Vouched
  <2> SUFFICES ASSUME NEW i \in 1 .. n + 1, NEW x, x = q[i]
               PROVE  /\ runs[x.task].status = "routed" /\ runs[x.task].final = x.by
                      /\ <<runs[x.task].type, runs[x.task].mission, runs[x.task].project>>
                           = <<x.type, x.mission, x.project>>
                      /\ Vouched(x)
                      /\ \A j \in 1 .. n + 1 : q[j].task = x.task => j = i
    BY <1>2, <1>6, <1>9, <2>2 DEF OutcomesAreFacts
  <2>3. CASE i = n + 1
    <3>1. x = e
      BY <1>9, <2>3
    <3>2. Vouched(e)
      <4>1. PICK j \in DOMAIN calls : IsCompleted(calls[j], t, c)
        BY <1>2, <1>3 DEF Validatable, CompletedCall
      <4>2. daemon.phase = "up"
        BY DEF RecordOutcome
      <4>3. calls[j].account = daemon.account[calls[j].by] /\ calls[j].by = c
        BY <1>1, <4>1, <4>2 DEF AccountsAreBound, IsCompleted
      <4>4. e.account = calls[j].account
        BY <1>3, <1>5, <4>3
      <4> QED BY <1>5, <4>1, <4>4 DEF Vouched
    <3>3. /\ runs[t].status = "routed" /\ runs[t].final = c /\ runs[t].type = k
          /\ runs[t].mission = m /\ runs[t].project = p
      BY <1>2, <1>3 DEF Validatable
    <3>4. \A j \in 1 .. n + 1 : q[j].task = t => j = i
      BY <1>9, <2>1, <2>3
    <3> QED BY <1>5, <3>1, <3>2, <3>3, <3>4
  <2>4. CASE i # n + 1
    <3>1. i \in 1 .. n /\ x = o[i]
      BY <1>9, <2>4
    <3>2. /\ runs[x.task].status = "routed" /\ runs[x.task].final = x.by
          /\ <<runs[x.task].type, runs[x.task].mission, runs[x.task].project>>
               = <<x.type, x.mission, x.project>>
          /\ Vouched(x)
          /\ \A j \in 1 .. n : o[j].task = x.task => j = i
      BY <1>1, <1>6, <1>8, <3>1 DEF OutcomesAreFacts
    <3>3. q[n + 1].task # x.task
      BY <1>5, <1>9, <2>1, <3>1
    <3> QED BY <1>9, <3>2, <3>3
  <2> QED BY <2>3, <2>4
<1>20. CountInv'
  <2>1. IsFiniteSet(1 .. n) /\ n + 1 \notin 1 .. n
    BY FS_Interval
  <2>2. ASSUME NEW x \in Projects, NEW z \in TaskTypes, NEW y \in Verdicts
        PROVE  counted'[<<x, z, y>>] = Cardinality(Labelled(x, z, y)')
    <3>1. PICK A, B : A = Labelled(x, z, y) /\ B = Labelled(x, z, y)'
      OBVIOUS
    <3>2. A = {i \in 1 .. n : o[i].project = x /\ o[i].type = z /\ o[i].verdict = y}
          /\ B = {i \in 1 .. n + 1 : q[i].project = x /\ q[i].type = z /\ q[i].verdict = y}
      BY <1>6, <1>8, <1>9, <3>1 DEF Labelled
    <3>3. counted[<<x, z, y>>] = Cardinality(A)
      BY <1>1, <3>1 DEF CountInv
    <3>4. IsFiniteSet(A) /\ n + 1 \notin A
      BY <2>1, <3>2, FS_Subset
    <3>5. <<x, z, y>> \in Labels /\ counted \in [Labels -> Nat]
      BY <1>1 DEF OutcomesTypeOK, Labels
    <3>6. CASE x = p /\ z = k /\ y = v
      <4>1. B = A \cup {n + 1}
        BY <1>5, <1>9, <3>2, <3>6
      <4>2. Cardinality(B) = Cardinality(A) + 1
        BY <3>4, <4>1, FS_AddElement
      <4>3. counted'[<<x, z, y>>] = counted[<<x, z, y>>] + 1
        BY <1>10, <3>5, <3>6
      <4> QED BY <3>1, <3>3, <4>2, <4>3
    <3>7. CASE ~ (x = p /\ z = k /\ y = v)
      <4>1. B = A
        BY <1>5, <1>9, <3>2, <3>7
      <4>2. counted'[<<x, z, y>>] = counted[<<x, z, y>>]
        <5>1. <<x, z, y>> # <<p, k, v>>
          BY <3>7
        <5> QED BY <1>10, <3>5, <5>1
      <4> QED BY <3>1, <3>3, <4>1, <4>2
    <3> QED BY <3>6, <3>7
  <2> QED BY <2>2 DEF CountInv
<1> QED BY <1>1, <1>2, <1>11, <1>12, <1>17, <1>18, <1>19, <1>20, BoundStays DEF OutcomesInv

\* A step that moves neither a run nor the outcomes.
LEMMA TablesStay ==
  ASSUME RunsInv, ScoresInv, CountInv, UNCHANGED <<runs, outcomes, counted, scores>>
  PROVE  RunsInv' /\ ScoresInv' /\ CountInv'
<1>1. Len(outcomes)' = Len(outcomes) /\ \A k, c : Evident(k, c)' = Evident(k, c)
  BY DEF Evident
<1>2. \A s, k : ScoreInv(s, k)' = ScoreInv(s, k)
  BY <1>1 DEF ScoreInv
<1>3. ASSUME NEW t \in Runs PROVE RunInv(t, runs[t])'
  <2>1. RunInv(t, runs[t])
    BY DEF RunsInv
  <2> QED BY <1>1, <1>2, <2>1 DEF RunInv
<1>4. ScoresInv'
  BY <1>2 DEF ScoresInv
<1> QED BY <1>3, <1>4, CountsStay DEF RunsInv

\* A step of the start of the daemon.
LEMMA StartKeeps ==
  ASSUME OutcomesInv, UNCHANGED <<runs, outcomes, counted, scores>>, daemon' \in Daemons,
         calls' \in Seq(CallRows), CallsKeep, AccountsAreBound',
         daemon'.phase # "down" => ~ Conflicting
  PROVE  OutcomesInv'
<1>1. OutcomesTypeOK /\ RunsInv /\ ScoresInv /\ OutcomesAreFacts /\ CountInv
  BY DEF OutcomesInv
<1>2. OutcomesTypeOK'
  BY <1>1 DEF OutcomesTypeOK
<1>3. RunsInv' /\ ScoresInv' /\ CountInv'
  BY <1>1, TablesStay
<1>4. OutcomesAreFacts'
  BY <1>1, FactsStay
<1>5. OneProjectPerMission'
  BY DEF OneProjectPerMission, Conflicting, RunRecorded
<1> QED BY <1>2, <1>3, <1>4, <1>5 DEF OutcomesInv

LEMMA InitializeKeeps ==
  ASSUME OutcomesInv, NEW a \in AccountConfigs, Initialize(a)
  PROVE  OutcomesInv'
<1>1. UNCHANGED <<runs, calls, outcomes, counted, scores>> /\ ~ Conflicting
  BY DEF Initialize
<1>2. a \in [Ranked -> AccountNames]
  BY OutcomesAssumption DEF OutcomesAssumption, AccountNames
<1>3. daemon' = [phase |-> "opening", version |-> "4", account |-> a]
  BY DEF Initialize
<1>4. daemon' \in Daemons /\ daemon'.phase = "opening"
  BY <1>2, <1>3 DEF Daemons, Versions
<1>5. CallsKeep /\ calls' \in Seq(CallRows) /\ AccountsAreBound'
  BY <1>1, <1>4, SameCalls DEF OutcomesInv, OutcomesTypeOK, AccountsAreBound
<1> QED BY <1>1, <1>4, <1>5, StartKeeps

LEMMA BindKeeps ==
  ASSUME OutcomesInv, BindAccounts
  PROVE  OutcomesInv'
<1>1. /\ OutcomesTypeOK /\ daemon \in Daemons /\ daemon.phase = "opening" /\ ~ Conflicting
      /\ UNCHANGED <<runs, outcomes, counted, scores>>
      /\ daemon' = [daemon EXCEPT !.phase = "up"]
  BY DEF BindAccounts, OutcomesInv, OutcomesTypeOK, OneProjectPerMission
<1>2. daemon' \in Daemons /\ daemon'.account = daemon.account
  BY <1>1 DEF Daemons
<1>3. PICK R, old : R = CallRows /\ old = calls /\ old \in Seq(R)
  BY <1>1 DEF OutcomesTypeOK
<1>4. calls' = [i \in DOMAIN old |-> [old[i] EXCEPT !.account = daemon.account[old[i].by]]]
  BY <1>3 DEF BindAccounts
<1>5. ASSUME NEW i \in DOMAIN old
      PROVE  /\ calls'[i] \in R /\ calls'[i].task = old[i].task /\ calls'[i].by = old[i].by
             /\ calls'[i].status = old[i].status
             /\ calls'[i].account = daemon.account[old[i].by]
  <2>1. old[i] \in CallRows
    BY <1>3
  <2>2. old[i].by \in Ranked /\ daemon.account[old[i].by] \in AccountNames
    BY <1>1, <2>1 DEF CallRows, Daemons
  <2>3. PICK a, row : a = daemon.account[old[i].by] /\ row = [old[i] EXCEPT !.account = a]
    OBVIOUS
  <2>4. row \in CallRows /\ row.task = old[i].task /\ row.by = old[i].by
        /\ row.status = old[i].status /\ row.account = a
    BY <2>1, <2>2, <2>3 DEF CallRows
  <2>5. calls'[i] = row
    BY <1>4, <2>3
  <2> QED BY <1>3, <2>3, <2>4, <2>5
<1>6. PICK len \in Nat : DOMAIN old = 1 .. len
  BY <1>3
<1>7. calls' \in Seq(R) /\ DOMAIN calls' = DOMAIN old
  <2>1. calls' \in [1 .. len -> R]
    BY <1>4, <1>5, <1>6
  <2> QED BY <1>6, <2>1
<1>8. CallsKeep
  <2>1. \A i \in DOMAIN old : old[i].account \in {Unbound, daemon.account[old[i].by]}
    BY <1>3 DEF BindAccounts, Bindable
  <2> QED BY <1>3, <1>5, <1>7, <2>1 DEF CallsKeep
<1>9. AccountsAreBound'
  BY <1>2, <1>5, <1>7 DEF AccountsAreBound
<1> QED BY <1>1, <1>2, <1>3, <1>7, <1>8, <1>9, StartKeeps

LEMMA RefuseKeeps ==
  ASSUME OutcomesInv, RefuseBinding
  PROVE  OutcomesInv'
<1>1. /\ UNCHANGED <<runs, calls, outcomes, counted, scores>> /\ OutcomesTypeOK
      /\ daemon \in Daemons /\ daemon' = [daemon EXCEPT !.phase = "down"]
  BY DEF RefuseBinding, OutcomesInv, OutcomesTypeOK
<1>2. daemon' \in Daemons /\ daemon'.phase = "down"
  BY <1>1 DEF Daemons
<1>3. CallsKeep /\ calls' \in Seq(CallRows) /\ AccountsAreBound'
  BY <1>1, <1>2, SameCalls DEF OutcomesTypeOK, AccountsAreBound
<1> QED BY <1>1, <1>2, <1>3, StartKeeps

LEMMA NothingKeeps ==
  ASSUME OutcomesInv, UNCHANGED outcomeVars
  PROVE  OutcomesInv'
<1>1. /\ OutcomesTypeOK /\ OneProjectPerMission /\ AccountsAreBound
      /\ RunsInv /\ ScoresInv /\ OutcomesAreFacts /\ CountInv
  BY DEF OutcomesInv
<1>2. UNCHANGED <<runs, calls, outcomes, counted, scores, daemon>>
  BY DEF outcomeVars
<1>3. OutcomesTypeOK' /\ OneProjectPerMission'
  BY <1>1, <1>2 DEF OutcomesTypeOK, OneProjectPerMission, Conflicting, RunRecorded
<1>4. RunsInv' /\ ScoresInv' /\ CountInv'
  BY <1>1, <1>2, TablesStay
<1>5. OutcomesAreFacts'
  <2>1. CallsKeep
    BY <1>2, SameCalls
  <2> QED BY <1>1, <1>2, <2>1, FactsStay
<1> QED BY <1>1, <1>2, <1>3, <1>4, <1>5, BoundStays DEF OutcomesInv

LEMMA OutcomesStart ==
  ASSUME OutcomesInit
  PROVE  OutcomesInv
<1>1. /\ calls \in SetToSeqs(OldCalls) /\ outcomes = <<>> /\ scores = {}
      /\ counted = [l \in Labels |-> 0]
  BY DEF OutcomesInit, Labels
<1>2. NewRun \in RunRecords /\ NewRun.at = "new" /\ NewRun.status = "none"
      /\ NewRun.half = {} /\ NewRun.drafts = {} /\ NewRun.since = 0
  BY DEF NewRun, RunRecords, KnownTypes
<1>3. ASSUME NEW q \in OldRuns
      PROVE  /\ q \in RunRecords /\ q.at = "over" /\ q.status = "routed" /\ q.type \in TaskTypes
             /\ q.half = {} /\ q.drafts = {} /\ q.since = 0
  <2>1. PICK w \in TaskTypes \X TaskMissions \X Projects \X (Ranked \cup {NoModel}) :
          q = [NewRun EXCEPT !.at = "over", !.type = w[1], !.mission = w[2], !.project = w[3],
                             !.status = "routed", !.final = w[4]]
    BY DEF OldRuns
  <2>2. w[1] \in TaskTypes /\ w[2] \in TaskMissions /\ w[3] \in Projects
        /\ w[4] \in Ranked \cup {NoModel}
    OBVIOUS
  <2> QED BY <2>1, <2>2 DEF NewRun, RunRecords, KnownTypes
<1>4. /\ runs \in [Runs -> RunRecords]
      /\ \A t \in Runs : /\ runs[t].status = "none" <=> runs[t].at = "new"
                         /\ runs[t].status # "none" => runs[t].type \in TaskTypes
                         /\ runs[t].at \in {"new", "over"} /\ runs[t].half = {}
                         /\ runs[t].drafts = {} /\ runs[t].since = 0
  <2>1. CASE daemon.version = "1"
    <3>1. runs \in [Runs -> {NewRun} \cup OldRuns]
      BY <2>1 DEF OutcomesInit
    <3>2. ASSUME NEW t \in Runs
          PROVE  /\ runs[t] \in RunRecords /\ (runs[t].status = "none" <=> runs[t].at = "new")
                 /\ (runs[t].status # "none" => runs[t].type \in TaskTypes)
                 /\ runs[t].at \in {"new", "over"} /\ runs[t].half = {}
                 /\ runs[t].drafts = {} /\ runs[t].since = 0
      <4>1. runs[t] = NewRun \/ runs[t] \in OldRuns
        BY <3>1
      <4>2. CASE runs[t] = NewRun
        BY <1>2, <4>2
      <4>3. CASE runs[t] \in OldRuns
        BY <1>3, <4>3
      <4> QED BY <4>1, <4>2, <4>3
    <3> QED BY <3>1, <3>2
  <2>2. CASE daemon.version # "1"
    <3>1. runs = [t \in Runs |-> NewRun]
      BY <2>2 DEF OutcomesInit
    <3> QED BY <1>2, <3>1
  <2> QED BY <2>1, <2>2
<1>5. daemon \in Daemons /\ daemon.phase = "down"
  <2>1. PICK v \in Versions, a \in AccountConfigs :
          daemon = [phase |-> "down", version |-> v, account |-> a]
    BY DEF OutcomesInit
  <2>2. a \in [Ranked -> AccountNames]
    BY OutcomesAssumption DEF OutcomesAssumption, AccountNames
  <2> QED BY <2>1, <2>2 DEF Daemons
<1>6. OutcomesTypeOK
  <2>1. calls \in Seq(CallRows)
    <3>1. PICK U : U = {u \in Runs : runs[u].final # NoModel}
      OBVIOUS
    <3>2. IsFiniteSet(U)
      BY <3>1, OutcomesAssumption, FS_Subset DEF OutcomesAssumption
    <3>3. PICK f, Old : /\ Old = OldCalls
                        /\ f = [t \in U |-> CallOf(t, runs[t].final, "completed", Unbound)]
      OBVIOUS
    <3>4. Old = {f[t] : t \in U}
      BY <3>1, <3>3 DEF OldCalls
    <3>5. f \in Surjection(U, Old)
      BY <3>3, <3>4 DEF Surjection
    <3>6. IsFiniteSet(Old)
      BY <3>2, <3>5, FS_Surjection
    <3>7. ASSUME NEW t \in U PROVE f[t] \in CallRows
      <4>1. t \in Runs /\ runs[t].final \in Ranked /\ runs[t].type \in KnownTypes
        BY <1>4, <3>1 DEF RunRecords
      <4>2. f[t] = [task |-> t, type |-> runs[t].type, by |-> runs[t].final,
                    status |-> "completed", account |-> Unbound]
        BY <3>3 DEF CallOf
      <4> QED BY <4>1, <4>2 DEF CallRows, AccountNames
    <3>8. PICK n \in Nat : n = Cardinality(Old)
      BY <3>6, FS_CardinalityType
    <3>9. calls \in [1 .. n -> Old]
      BY <1>1, <3>3, <3>8 DEF SetToSeqs
    <3>10. PICK R : R = CallRows /\ Old \subseteq R
      BY <3>4, <3>7
    <3>11. calls \in [1 .. n -> R]
      BY <3>9, <3>10
    <3> QED BY <3>8, <3>10, <3>11
  <2>2. outcomes \in Seq(OutcomeRows)
    BY <1>1
  <2>3. counted \in [Labels -> Nat] /\ scores \subseteq Scores
    BY <1>1
  <2> QED BY <1>4, <1>5, <2>1, <2>2, <2>3 DEF OutcomesTypeOK
<1>7. Len(outcomes) = 0 /\ DOMAIN outcomes = {}
  BY <1>1
<1>8. RunsInv
  <2>1. ASSUME NEW t \in Runs PROVE RunInv(t, runs[t])
    <3>1. \A kc \in KnownTypes \X Ranked :
            Evident(runs[t].since, kc) <= Evident(Len(outcomes), kc)
      <4>1. \A kc : Evident(Len(outcomes), kc) \in Nat
        BY <1>6, <1>7, EvidentIsSmall
      <4>2. runs[t].since = Len(outcomes)
        BY <1>4, <1>7
      <4> QED BY <4>1, <4>2
    <3> QED BY <1>4, <1>7, <3>1 DEF RunInv
  <2> QED BY <2>1 DEF RunsInv
<1>9. ScoresInv /\ OutcomesAreFacts /\ OneProjectPerMission /\ AccountsAreBound
  BY <1>1, <1>5, <1>7 DEF ScoresInv, OutcomesAreFacts, OneProjectPerMission, AccountsAreBound
<1>10. CountInv
  <2>1. \A p, k, v : Labelled(p, k, v) = {}
    BY <1>7 DEF Labelled
  <2>2. Cardinality({}) = 0
    BY FS_EmptySet
  <2>3. ASSUME NEW p \in Projects, NEW k \in TaskTypes, NEW v \in Verdicts
        PROVE  counted[<<p, k, v>>] = 0
    <3>1. <<p, k, v>> \in Labels
      BY DEF Labels
    <3> QED BY <1>1, <3>1
  <2> QED BY <2>1, <2>2, <2>3 DEF CountInv
<1> QED BY <1>6, <1>8, <1>9, <1>10 DEF OutcomesInv

LEMMA OutcomesKept ==
  ASSUME OutcomesInv, [OutcomesNext]_outcomeVars
  PROVE  OutcomesInv'
<1>1. CASE (\E a \in AccountConfigs : Initialize(a)) \/ BindAccounts \/ RefuseBinding
  BY <1>1, InitializeKeeps, BindKeeps, RefuseKeeps
<1>2. CASE RefuseDatabase \/ ReadSummary \/ UNCHANGED outcomeVars
  BY <1>2, NothingKeeps DEF RefuseDatabase, ReadSummary
<1>3. CASE Die
  BY <1>3, DieKeeps
<1>4. ASSUME NEW t \in Runs, NEW m \in TaskMissions, NEW p \in Projects,
             \/ \E k \in TaskTypes : OpenRun(t, k, m, p)
             \/ \E v \in Verdicts : RecordOutcome(t, m, p, v)
      PROVE  OutcomesInv'
  BY <1>4, OpenKeeps, OutcomeKeeps
<1>5. ASSUME NEW t \in Runs, NEW c \in Ranked, ReadCalls(t, c) \/ CallModel(t, c)
      PROVE  OutcomesInv'
  BY <1>5, ReadCallsKeeps, CallKeeps
<1>6. ASSUME NEW t \in Runs, ReadOutcomes(t) \/ RecordScores(t) \/ EndRun(t)
      PROVE  OutcomesInv'
  BY <1>6, ReadOutcomesKeeps, StoreKeeps, EndKeeps
<1>7. ASSUME NEW t \in Runs, NEW status \in {"completed", "uncertain"}, AnswerCall(t, status)
      PROVE  OutcomesInv'
  BY <1>7, AnswerKeeps
<1> QED BY <1>1, <1>2, <1>3, <1>4, <1>5, <1>6, <1>7 DEF OutcomesNext

LEMMA OutcomesInvIsEnough ==
  ASSUME OutcomesInv
  PROVE  OutcomesHold
<1>1. /\ OutcomesTypeOK /\ OneProjectPerMission /\ AccountsAreBound
      /\ RunsInv /\ ScoresInv /\ OutcomesAreFacts /\ CountInv
  BY DEF OutcomesInv
<1>2. ASSUME NEW g PROVE InGroup(g) = {i \in DOMAIN outcomes : Group(outcomes[i]) = g}
  <2>1. ASSUME NEW i \in DOMAIN outcomes
        PROVE  /\ RunRecorded(outcomes[i].task)
               /\ \E j \in DOMAIN calls : calls[j].task = outcomes[i].task
    <3>1. PICK o : o = outcomes[i]
      OBVIOUS
    <3>2. runs[o.task].status = "routed" /\ Vouched(o)
      BY <1>1, <3>1 DEF OutcomesAreFacts
    <3>3. PICK j \in DOMAIN calls : IsCompleted(calls[j], o.task, o.by)
      BY <3>2 DEF Vouched
    <3>4. calls[j].task = o.task
      BY <3>3 DEF IsCompleted
    <3> QED BY <3>1, <3>2, <3>4 DEF RunRecorded
  <2> QED BY <2>1 DEF InGroup
<1>3. NoOutcomeLost
  <2>1. ASSUME NEW listed \in Listings, Cardinality(listed) < MaxGroups, NEW i \in DOMAIN outcomes
        PROVE  Group(outcomes[i]) \in listed
    <3>1. MaxGroups \in Nat
      BY OutcomesAssumption DEF OutcomesAssumption
    <3>2. listed = FoundGroups
      BY <2>1, <3>1 DEF Listings
    <3>3. PICK o : o = outcomes[i] /\ o \in OutcomeRows
      BY <1>1 DEF OutcomesTypeOK
    <3>4. PICK g : g = Group(o) /\ g \in TaskTypes \X Ranked \X (Accounts \cup {Unbound})
      <4>1. o.type \in TaskTypes /\ o.by \in Ranked /\ o.account \in Accounts \cup {Unbound}
        BY <3>3 DEF OutcomeRows, AccountNames
      <4>2. PICK g : g = <<o.type, o.by, o.account>>
        OBVIOUS
      <4>3. g \in TaskTypes \X Ranked \X (Accounts \cup {Unbound})
        BY <4>1, <4>2
      <4> QED BY <4>2, <4>3 DEF Group
    <3>5. i \in InGroup(g)
      BY <1>2, <3>3, <3>4
    <3> QED BY <3>2, <3>3, <3>4, <3>5 DEF FoundGroups
  <2> QED BY <1>1, <1>2, <2>1 DEF NoOutcomeLost, CountInv, Labelled
<1>4. ScoresAreEvidence
  <2>1. ASSUME NEW s \in scores
        PROVE  /\ s.type = runs[s.task].type
               /\ s.found.validations
                     \in Evident(runs[s.task].since, About(s)) .. Evident(Len(outcomes), About(s))
               /\ s.found.succeeded <= s.found.validations
               /\ s.found.completed <= s.found.attempts /\ s.found.attempts <= MaxRows
    <3>1. ScoreInv(s, runs[s.task].since) /\ s \in Scores /\ s.type = runs[s.task].type
      BY <1>1 DEF ScoresInv, OutcomesTypeOK
    <3>2. s.found.validations \in Nat /\ s.task \in Runs
      BY <3>1 DEF Scores
    <3>3. runs[s.task].since \in Nat /\ runs[s.task].since <= Len(outcomes) /\ Len(outcomes) \in Nat
      BY <1>1, <3>2, OutcomesAreATable DEF RunsInv, RunInv, OutcomesTypeOK, RunRecords, Table
    <3>4. Evident(runs[s.task].since, About(s)) \in Nat /\ Evident(Len(outcomes), About(s)) \in Nat
      BY <1>1, <3>3, EvidentIsSmall
    <3> QED BY <3>1, <3>2, <3>4 DEF ScoreInv
  <2>2. /\ \A s \in scores, c \in Ranked : \E r \in scores : r.task = s.task /\ r.by = c
        /\ \A s, r \in scores : s.task = r.task /\ s.by = r.by => s = r
    BY <1>1 DEF ScoresInv
  <2> QED BY <2>1, <2>2 DEF ScoresAreEvidence, Evident
<1> QED BY <1>1, <1>3, <1>4 DEF OutcomesHold

\* What the orchestrator has learnt of its models is true: while the daemon runs
\* no mission is of two projects, and while it serves every call is on the account
\* that its model has now; an outcome is that of a recorded route which its model
\* answered, on no other account than its call; the counters are those of the table,
\* a summary counts the groups that it lists rightly and, when it is shorter than
\* its limit, lists them all; and a stored ranking is whole, each of its scores
\* resting on the outcomes of a moment between the start of its run and now
\* (initialize, bind_provider_accounts, start_run, candidate_score,
\* record_model_validation, model_performance_summary).
THEOREM OutcomesAreTrue == OutcomesSpec => []OutcomesHold
<1>1. OutcomesInit => OutcomesInv
  BY OutcomesStart
<1>2. OutcomesInv /\ [OutcomesNext]_outcomeVars => OutcomesInv'
  BY OutcomesKept
<1>3. OutcomesInv => OutcomesHold
  BY OutcomesInvIsEnough
<1> QED BY <1>1, <1>2, <1>3, PTL DEF OutcomesSpec
=============================================================================
