----------------------------- MODULE BudgetLedger -----------------------------
(***************************************************************************)
(* The ledger of model usage of the orchestrator (budget.py): the table    *)
(* usage_reservations, which the routes of the daemon and the chats of the *)
(* Hermes façade share.  A caller reserves the most a call may use,        *)
(* makes the call, and then completes the reservation with what was used   *)
(* or marks it uncertain, which keeps the whole reservation.               *)
(*                                                                         *)
(* reserve samples the clock, waits for the write lock, compares the caps  *)
(* with the rows of the sampled day, and stamps the new row with a second  *)
(* sample: the caller passes its first sample, which may be of an earlier  *)
(* day.                                                                    *)
(*                                                                         *)
(* The modules OrchestratorRoutes and HermesFacade are its two callers.    *)
(***************************************************************************)
EXTENDS Naturals, FiniteSetsExt, Functions

CONSTANTS Calls,           \* call ids
          Routes,          \* route ids; the façade uses one for every chat
          Missions,        \* mission ids
          Providers,       \* provider ids
          AccountOf,       \* the account of a provider, or NoAccount
          NoAccount,       \* the provider has no account
          PriceUnit,       \* 1_000_000 in the code
          ProviderBudget,  \* caps of a provider: day, month and mission
          AccountBudget,   \* caps of an account: day, month and task (route)
          DaysPerMonth,    \* bound: length of the months
          MaxDay           \* bound: the last day of the clock

IsCap(cap) == cap.calls \in Nat /\ cap.tokens \in Nat /\ cap.cost \in Nat

ASSUME LedgerAssumption ==
  /\ IsFiniteSet(Calls)
  /\ AccountOf \in [Providers -> DOMAIN AccountBudget \cup {NoAccount}]
  /\ NoAccount \notin DOMAIN AccountBudget
  /\ DaysPerMonth \in Nat \ {0} /\ MaxDay \in Nat /\ PriceUnit \in Nat \ {0}
  /\ \A p \in Providers : /\ IsCap(ProviderBudget[p].day)
                          /\ IsCap(ProviderBudget[p].month)
                          /\ ProviderBudget[p].mission \in Nat
  /\ \A a \in DOMAIN AccountBudget : /\ IsCap(AccountBudget[a].day)
                                     /\ IsCap(AccountBudget[a].month)
                                     /\ IsCap(AccountBudget[a].task)

VARIABLES day,   \* the wall clock, in days
          rows   \* usage_reservations by call id

ledger == <<day, rows>>

\* asOf is the day the caps were compared for and granted what was reserved
\* then: neither is stored, and mark_uncertain may raise the reserved usage.
NoUse == [input |-> 0, output |-> 0, cost |-> 0]
NoRow == [status |-> "none", asOf |-> 0, route |-> NoAccount,
          mission |-> NoAccount, provider |-> NoAccount, day |-> 0,
          granted |-> NoUse, reserved |-> NoUse, actual |-> NoUse]

Month(d) == d \div DaysPerMonth
Larger(a, b) == IF a > b THEN a ELSE b

\* estimated_cost_microusd: rounded up.
Cost(use, price) ==
  (use.input * price.input + use.output * price.output + PriceUnit - 1)
    \div PriceUnit
Priced(use, price) ==
  [input |-> use.input, output |-> use.output, cost |-> Cost(use, price)]

-----------------------------------------------------------------------------
(* Aggregates and caps                                                     *)

Recorded == {c \in Calls : rows[c].status # "none"}
Open(c) == rows[c].status = "reserved"

\* What a row counts for: the actual usage once it is known.
Charged(c) == IF rows[c].status = "completed" THEN rows[c].actual
                                              ELSE rows[c].reserved

\* _aggregate: the calls, tokens and cost of a set of rows.
Usage(C) ==
  [calls  |-> Cardinality(C),
   tokens |-> SumFunctionOnSet([c \in C |-> Charged(c).input + Charged(c).output], C),
   cost   |-> SumFunctionOnSet([c \in C |-> Charged(c).cost], C)]

\* Mutant: the calls are compared without the one that is asked for.
RoomBefore(used, use, cap) ==
  /\ used.calls <= cap.calls
  /\ used.tokens + use.input + use.output <= cap.tokens
  /\ used.cost + use.cost <= cap.cost

\* One more call that reserves use fits under the cap.
Room(used, use, cap) ==
  /\ used.calls + 1 <= cap.calls
  /\ used.tokens + use.input + use.output <= cap.tokens
  /\ used.cost + use.cost <= cap.cost

OfProvider(p) == {c \in Recorded : rows[c].provider = p}
OfAccount(a)  == {c \in Recorded : AccountOf[rows[c].provider] = a}
OfRoute(r)    == {c \in Recorded : rows[c].route = r}
OfMission(m)  == {c \in Recorded : rows[c].mission = m}
InDay(C, d)   == {c \in C : rows[c].day = d}
InMonth(C, d) == {c \in C : Month(rows[c].day) = Month(d)}

ProviderAllows(p, m, use, d) ==
  /\ Room(Usage(InDay(OfProvider(p), d)), use, ProviderBudget[p].day)
  /\ Room(Usage(InMonth(OfProvider(p), d)), use, ProviderBudget[p].month)
  /\ Usage(OfProvider(p) \cap OfMission(m)).cost + use.cost
       <= ProviderBudget[p].mission

\* Mutant: the caps of the account are those of the provider alone.
AccountAllowsOwn(p, r, use, d) ==
  LET a == AccountOf[p]
  IN a # NoAccount =>
       /\ Room(Usage(InDay(OfProvider(p), d)), use, AccountBudget[a].day)
       /\ Room(Usage(InMonth(OfProvider(p), d)), use, AccountBudget[a].month)
       /\ Room(Usage(OfProvider(p) \cap OfRoute(r)), use, AccountBudget[a].task)

AccountAllows(p, r, use, d) ==
  LET a == AccountOf[p]
  IN a # NoAccount =>
       /\ Room(Usage(InDay(OfAccount(a), d)), use, AccountBudget[a].day)
       /\ Room(Usage(InMonth(OfAccount(a), d)), use, AccountBudget[a].month)
       /\ Room(Usage(OfAccount(a) \cap OfRoute(r)), use, AccountBudget[a].task)

\* The request of the route sets a cap of its own (requested_max_cost).
RequestAllows(r, use, max) == Usage(OfRoute(r)).cost + use.cost <= max

-----------------------------------------------------------------------------
(* Operations                                                              *)

LedgerInit == day = 0 /\ rows = [c \in Calls |-> NoRow]

NextDay == day < MaxDay /\ day' = day + 1 /\ UNCHANGED rows

BudgetAllows(r, m, p, use, d) ==
  ProviderAllows(p, m, use, d) /\ AccountAllows(p, r, use, d)

\* The row that reserve inserts; d is the day it sampled first.
NewRow(r, m, p, use, d) ==
  [status |-> "reserved", asOf |-> d, route |-> r, mission |-> m, provider |-> p,
   day |-> day, granted |-> use, reserved |-> use, actual |-> NoUse]

\* reserve, when it does not raise BudgetExceeded.
Reserve(c, r, m, p, use, d) ==
  /\ rows[c] = NoRow
  /\ BudgetAllows(r, m, p, use, d)
  /\ rows' = [rows EXCEPT ![c] = NewRow(r, m, p, use, d)]
  /\ UNCHANGED day

\* complete, of a row that is still reserved.
Complete(c, use) ==
  /\ Open(c)
  /\ rows' = [rows EXCEPT ![c].status = "completed", ![c].actual = use]
  /\ UNCHANGED day

\* mark_uncertain keeps the larger of the reservation and the reported usage.
Retained(held, use, price) ==
  LET most == [input  |-> Larger(held.input, use.input),
               output |-> Larger(held.output, use.output)]
  IN [input |-> most.input, output |-> most.output,
      cost |-> Larger(held.cost, Cost(most, price))]

MarkUncertain(c, use, price) ==
  /\ Open(c)
  /\ rows' = [rows EXCEPT ![c].status = "uncertain",
                          ![c].reserved = Retained(@, use, price)]
  /\ UNCHANGED day

AtMost(u, v) == u.input <= v.input /\ u.output <= v.output

-----------------------------------------------------------------------------
(* Properties                                                              *)

\* The rows that were compared with the caps of the period they count in.
SameDay   == {c \in Recorded : rows[c].asOf = rows[c].day}
SameMonth == {c \in Recorded : Month(rows[c].asOf) = Month(rows[c].day)}

\* However many routes and chats reserve at once, no provider and no account
\* makes more calls in a day, in a month or for one route than it is allowed,
\* but for the calls whose reservation passed midnight between its two clock
\* samples.
CallCapsHold ==
  /\ \A p \in Providers, d \in 0..MaxDay :
       /\ Cardinality(InDay(OfProvider(p), d) \cap SameDay)
            <= ProviderBudget[p].day.calls
       /\ Cardinality(InMonth(OfProvider(p), d) \cap SameMonth)
            <= ProviderBudget[p].month.calls
  /\ \A a \in DOMAIN AccountBudget :
       /\ \A d \in 0..MaxDay :
            /\ Cardinality(InDay(OfAccount(a), d) \cap SameDay)
                 <= AccountBudget[a].day.calls
            /\ Cardinality(InMonth(OfAccount(a), d) \cap SameMonth)
                 <= AccountBudget[a].month.calls
       /\ \A r \in Routes :
            Cardinality(OfAccount(a) \cap OfRoute(r)) <= AccountBudget[a].task.calls

\* What a row counts for, without the use beyond the reservation that a
\* provider reported and mark_uncertain recorded.
Owed(c) == IF rows[c].status = "completed" THEN rows[c].actual ELSE rows[c].granted
Spent(C) ==
  [tokens |-> SumFunctionOnSet([c \in C |-> Owed(c).input + Owed(c).output], C),
   cost   |-> SumFunctionOnSet([c \in C |-> Owed(c).cost], C)]
Under(C, cap) == Spent(C).tokens <= cap.tokens /\ Spent(C).cost <= cap.cost

\* Tokens and costs stay under the caps of providers, accounts, missions and
\* routes, but for reservations that passed midnight and usage the provider
\* reported beyond what was reserved for the call.
SpendCapsHold ==
  \A c \in Recorded :
    LET p == rows[c].provider
        a == AccountOf[p]
        d == rows[c].day
    IN /\ Under(InDay(OfProvider(p), d) \cap SameDay, ProviderBudget[p].day)
       /\ Under(InMonth(OfProvider(p), d) \cap SameMonth, ProviderBudget[p].month)
       /\ Spent(OfProvider(p) \cap OfMission(rows[c].mission)).cost
            <= ProviderBudget[p].mission
       /\ a # NoAccount =>
            /\ Under(InDay(OfAccount(a), d) \cap SameDay, AccountBudget[a].day)
            /\ Under(InMonth(OfAccount(a), d) \cap SameMonth, AccountBudget[a].month)
            /\ Under(OfAccount(a) \cap OfRoute(rows[c].route), AccountBudget[a].task)
=============================================================================
