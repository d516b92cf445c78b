-------------------------- MODULE HermesFacadeProofs --------------------------
(***************************************************************************)
(* What the chats of the façade spend and what becomes of them, proved for *)
(* any chats, providers, prices, caps and bodies and any number of         *)
(* failures, crashes and days.                                             *)
(***************************************************************************)
EXTENDS HermesFacade, FiniteSetTheorems, WellFoundedInduction, NaturalsInduction, TLAPS

Uses == [input : Nat, output : Nat, cost : Nat]

RowSet ==
  [status : {"reserved", "completed", "uncertain"}, asOf : Nat, route : Calls,
   mission : Missions, provider : Providers, day : Nat,
   granted : Uses, reserved : Uses, actual : Uses]

ChatSet ==
  [pc : {"new", "next", "identified", "reserve", "sent", "document", "stream", "done", "lost"},
   body : Bodies \cup {NoUsage}, todo : SUBSET Providers, using : Providers \cup {NoUsage}, window : 0 .. MaxDay,
   asOf : 0 .. MaxDay, seen : Nat, usage : Reports \cup {NoUsage}, status : Nat, whole : BOOLEAN]

Shape ==
  /\ rows \in [Calls -> RowSet \cup {NoRow}]
  /\ chat \in [Chats -> ChatSet]
  /\ TypeOK

\* A row is of the call it is named for, and what was granted is priced; until
\* the call is settled, that is what is reserved, and afterwards no more.
RowInv(k) ==
  LET row == rows[k] IN
  /\ row.provider = k[2] /\ row.route = k
  /\ row.granted.cost = Cost(row.granted, PriceOf[k[2]])
  /\ row.status = "reserved" => row.reserved = row.granted
  /\ row.granted.input <= row.reserved.input /\ row.granted.output <= row.reserved.output
  /\ row.granted.cost <= row.reserved.cost

\* The caps, also of periods, missions and routes without a row.
SpendInv ==
  /\ \A p \in Providers, d \in 0 .. MaxDay :
       /\ Under(InDay(OfProvider(p), d) \cap SameDay, ProviderBudget[p].day)
       /\ Under(InMonth(OfProvider(p), d) \cap SameMonth, ProviderBudget[p].month)
  /\ \A p \in Providers, m \in Missions :
       Spent(OfProvider(p) \cap OfMission(m)).cost <= ProviderBudget[p].mission
  /\ \A a \in DOMAIN AccountBudget :
       /\ \A d \in 0 .. MaxDay :
            /\ Under(InDay(OfAccount(a), d) \cap SameDay, AccountBudget[a].day)
            /\ Under(InMonth(OfAccount(a), d) \cap SameMonth, AccountBudget[a].month)
       /\ \A r \in Routes : Under(OfAccount(a) \cap OfRoute(r), AccountBudget[a].task)

\* The candidate in use is one of the cheapest that are left.
UsingInv(c) ==
  Active(c) => /\ chat[c].body \in Bodies /\ Using(c) \in chat[c].todo
               /\ \A q \in chat[c].todo :
                    Asked(chat[c].body, Using(c)).cost <= Asked(chat[c].body, q).cost

\* A chat has no call before one is reserved, and then the call of the candidate
\* in use only.
CallInv(c) ==
  /\ chat[c].pc \in {"new", "next", "identified", "reserve"} => RowsOf(c) = {}
  /\ chat[c].pc \in {"sent", "document", "stream"} => RowsOf(c) \subseteq {Row(c)}
  /\ \A k, l \in RowsOf(c) : k = l

\* Only a chat that is over has an answer.
AnswerInv(c) ==
  /\ chat[c].pc # "done" => chat[c].status = 0 /\ chat[c].whole = FALSE
  /\ chat[c].status = 429 => RowsOf(c) = {}
  /\ chat[c].whole => \E k \in RowsOf(c) : rows[k].status \in {"completed", "uncertain"}

ChatInv(c) ==
  /\ UsingInv(c) /\ CallInv(c) /\ AnswerInv(c)
  /\ \A k \in RowsOf(c), q \in chat[c].todo :
       rows[k].granted.cost <= Asked(chat[c].body, q).cost

RowsInv == \A k \in Recorded : RowInv(k)

IInv ==
  /\ Shape /\ SpendInv /\ RowsInv
  /\ \A c \in Chats : ChatInv(c)

-----------------------------------------------------------------------------
(* Sums over sets                                                          *)

\* What SumFunctionOnSet computes for the subsets of S.
Taken(s) == CHOOSE x \in s : TRUE
Sums(w, S, g) ==
  [s \in SUBSET S |-> IF s = {} THEN 0 ELSE w[Taken(s)] + g[s \ {Taken(s)}]]

LEMMA SumUnfolds ==
  ASSUME NEW w, NEW S
  PROVE  SumFunctionOnSet(w, S) = (CHOOSE g : g = Sums(w, S, g))[S]
BY Zenon DEF SumFunctionOnSet, FoldFunctionOnSet, MapThenFoldSet, Sums, Taken

\* Induction over the subsets of a finite set: one of the smallest that
\* are in B.
LEMMA SmallestSubset ==
  ASSUME NEW U, IsFiniteSet(U), NEW B \in SUBSET (SUBSET U), B # {}
  PROVE  \E s \in B : /\ \A x \in s : s \ {x} \notin B
                      /\ \A x \in s : Cardinality(s \ {x}) = Cardinality(s) - 1
<1>1. \A s \in SUBSET U : IsFiniteSet(s) /\ Cardinality(s) \in Nat
  BY FS_Subset, FS_CardinalityType
<1>2. PICK N : N = {n \in Nat : \E s \in B : Cardinality(s) = n}
  OBVIOUS
<1>3. N # {} /\ N \subseteq Nat
  BY <1>1, <1>2
<1>4. PICK R : R = {p \in Nat \X Nat : p[1] < p[2]}
  OBVIOUS
<1>5. IsWellFoundedOn(R, Nat)
  BY <1>4, NatLessThanWellFounded DEF OpToRel
<1>6. PICK n \in N : \A m \in N : <<m, n>> \notin R
  BY <1>3, <1>5, WFMin
<1>7. PICK s \in B : Cardinality(s) = n
  BY <1>2
<1>8. ASSUME NEW x \in s PROVE Cardinality(s \ {x}) = Cardinality(s) - 1
  BY <1>1, FS_RemoveElement
<1>9. ASSUME NEW x \in s, s \ {x} \in B PROVE FALSE
  <2>1. PICK m \in N : m = Cardinality(s \ {x}) /\ m = n - 1
    BY <1>1, <1>2, <1>3, <1>7, <1>8, <1>9
  <2>2. PICK p \in Nat \X Nat : p = <<m, n>>
    BY <1>3
  <2>3. p[1] = m /\ p[2] = n
    BY <2>2
  <2>4. p \in R
    BY <1>3, <1>4, <2>1, <2>3
  <2> QED BY <1>6, <2>2, <2>4
<1> QED BY <1>8, <1>9

\* There is a function that satisfies the recursion.
LEMMA SumsExist ==
  ASSUME NEW w, NEW U, IsFiniteSet(U)
  PROVE  \E g : g = Sums(w, U, g)
<1> DEFINE Good(g, s) == g[s] = IF s = {} THEN 0 ELSE w[Taken(s)] + g[s \ {Taken(s)}]
           Upto(g, V) == \A s \in SUBSET V : Good(g, s)
<1>0. \A s \in SUBSET U : s # {} => Taken(s) \in s
  BY DEF Taken
<1>1. PICK B \in SUBSET (SUBSET U) :
        \A s \in SUBSET U : s \in B <=>
          ~ \E g : \A t \in SUBSET U : Cardinality(t) <= Cardinality(s) => Good(g, t)
  <2>1. {s \in SUBSET U : ~ \E g : \A t \in SUBSET U : Cardinality(t) <= Cardinality(s) => Good(g, t)}
          \in SUBSET (SUBSET U)
    OBVIOUS
  <2> QED BY <2>1
<1>2. \A s \in SUBSET U : IsFiniteSet(s) /\ Cardinality(s) \in Nat /\ (Cardinality(s) = 0 <=> s = {})
                          /\ Cardinality(s) <= Cardinality(U)
  BY FS_Subset, FS_CardinalityType, FS_EmptySet
<1>3. ASSUME B # {} PROVE FALSE
  <2>1. PICK s \in B : /\ \A x \in s : s \ {x} \notin B
                       /\ \A x \in s : Cardinality(s \ {x}) = Cardinality(s) - 1
    BY <1>3, SmallestSubset
  <2>2. CASE s = {}
    <3>1. PICK g : g = [t \in SUBSET U |-> 0]
      OBVIOUS
    <3>2. \A t \in SUBSET U : Cardinality(t) <= Cardinality(s) => Good(g, t)
      BY <2>2, <3>1, <1>2
    <3> QED BY <3>2, <1>1
  <2>3. CASE s # {}
    <3>1. PICK x \in s : TRUE
      BY <2>3
    <3>2. s \ {x} \in SUBSET U /\ s \ {x} \notin B /\ Cardinality(s \ {x}) = Cardinality(s) - 1
      BY <2>1
    <3>3. PICK g : \A t \in SUBSET U : Cardinality(t) <= Cardinality(s \ {x}) => Good(g, t)
      BY <3>2, <1>1
    <3>4. PICK h : h = [t \in SUBSET U |-> IF Cardinality(t) < Cardinality(s) THEN g[t]
                                           ELSE w[Taken(t)] + g[t \ {Taken(t)}]]
      OBVIOUS
    <3>5. ASSUME NEW t \in SUBSET U, Cardinality(t) <= Cardinality(s) PROVE Good(h, t)
      <4>1. t # {} => /\ Taken(t) \in t /\ t \ {Taken(t)} \in SUBSET U
                      /\ Cardinality(t \ {Taken(t)}) = Cardinality(t) - 1
        BY <1>0, <1>2, FS_RemoveElement
      <4>2. t # {} => h[t \ {Taken(t)}] = g[t \ {Taken(t)}]
        BY <4>1, <3>4, <3>5, <1>2
      <4>3. CASE Cardinality(t) < Cardinality(s)
        <5>0. Cardinality(t) <= Cardinality(s \ {x})
          BY <4>3, <3>2, <1>1, <1>2
        <5>1. h[t] = g[t] /\ Good(g, t)
          BY <5>0, <4>3, <3>3, <3>4
        <5> QED BY <5>1, <4>2
      <4>4. CASE ~ (Cardinality(t) < Cardinality(s))
        <5>1. t # {}
          BY <4>4, <2>3, <3>5, <1>2
        <5>2. h[t] = w[Taken(t)] + g[t \ {Taken(t)}]
          BY <4>4, <3>4
        <5> QED BY <5>1, <5>2, <4>2
      <4> QED BY <4>3, <4>4
    <3> QED BY <3>5, <1>1
  <2> QED BY <2>2, <2>3
<1>4. PICK g : \A t \in SUBSET U : Cardinality(t) <= Cardinality(U) => Good(g, t)
  BY <1>1, <1>3
<1>5. PICK h : h = [t \in SUBSET U |-> g[t]]
  OBVIOUS
<1>6. ASSUME NEW t \in SUBSET U
      PROVE  h[t] = IF t = {} THEN 0 ELSE w[Taken(t)] + h[t \ {Taken(t)}]
  <2>1. Good(g, t) /\ h[t] = g[t] /\ (t # {} => h[t \ {Taken(t)}] = g[t \ {Taken(t)}])
    BY <1>2, <1>4, <1>5
  <2> QED BY <2>1
<1>7. h = Sums(w, U, h)
  BY <1>5, <1>6 DEF Sums
<1> QED BY <1>7

\* Any two of them agree.
LEMMA SumsAgree ==
  ASSUME NEW w, NEW U, IsFiniteSet(U), NEW V \in SUBSET U,
         NEW g, g = Sums(w, U, g), NEW h, h = Sums(w, V, h)
  PROVE  \A s \in SUBSET V : g[s] = h[s]
<1>1. PICK B \in SUBSET (SUBSET U) : B = {s \in SUBSET V : g[s] # h[s]}
  OBVIOUS
<1>2. ASSUME B # {} PROVE FALSE
  <2>1. PICK s \in B : \A x \in s : s \ {x} \notin B
    BY <1>2, SmallestSubset
  <2>2. s \in SUBSET V /\ g[s] # h[s] /\ s \in SUBSET U
    BY <1>1
  <2>3. /\ g[s] = IF s = {} THEN 0 ELSE w[Taken(s)] + g[s \ {Taken(s)}]
        /\ h[s] = IF s = {} THEN 0 ELSE w[Taken(s)] + h[s \ {Taken(s)}]
    BY <2>2 DEF Sums
  <2>4. s # {}
    BY <2>2, <2>3
  <2>5. Taken(s) \in s
    BY <2>4 DEF Taken
  <2>6. s \ {Taken(s)} \in SUBSET V /\ s \ {Taken(s)} \notin B
    BY <2>1, <2>2, <2>5
  <2>7. g[s \ {Taken(s)}] = h[s \ {Taken(s)}]
    BY <1>1, <2>6
  <2> QED BY <2>2, <2>3, <2>4, <2>7
<1> QED BY <1>1, <1>2

\* SumFunctionOnSet is one function on the subsets of a finite set.
LEMMA SumsOf ==
  ASSUME NEW w, NEW U, IsFiniteSet(U)
  PROVE  \E g : /\ g = Sums(w, U, g)
                /\ \A s \in SUBSET U : SumFunctionOnSet(w, s) = g[s]
<1>1. PICK g : g = Sums(w, U, g)
  BY SumsExist
<1>2. ASSUME NEW s \in SUBSET U PROVE SumFunctionOnSet(w, s) = g[s]
  <2>1. IsFiniteSet(s)
    BY FS_Subset
  <2>2. PICK h : h = CHOOSE k : k = Sums(w, s, k)
    OBVIOUS
  <2>3. h = Sums(w, s, h)
    <3>1. \E k : k = Sums(w, s, k)
      BY <2>1, SumsExist
    <3> QED BY <2>2, <3>1
  <2>4. SumFunctionOnSet(w, s) = h[s]
    BY <2>2, SumUnfolds
  <2>5. s \in SUBSET s
    OBVIOUS
  <2> QED BY <2>3, <2>4, <2>5, <1>1, SumsAgree
<1> QED BY <1>1, <1>2

\* The sum of natural numbers, and of one more.
LEMMA SumFacts ==
  ASSUME NEW w, NEW U, IsFiniteSet(U), \A x \in U : w[x] \in Nat
  PROVE  /\ SumFunctionOnSet(w, {}) = 0
         /\ SumFunctionOnSet(w, U) \in Nat
         /\ \A x \in U : SumFunctionOnSet(w, U) = w[x] + SumFunctionOnSet(w, U \ {x})
<1>1. PICK g : g = Sums(w, U, g) /\ \A s \in SUBSET U : SumFunctionOnSet(w, s) = g[s]
  BY SumsOf
<1>2. ASSUME NEW s \in SUBSET U
      PROVE  g[s] = IF s = {} THEN 0 ELSE w[Taken(s)] + g[s \ {Taken(s)}]
  BY <1>1 DEF Sums
<1>3. {} \in SUBSET U /\ U \in SUBSET U
  OBVIOUS
<1>4. g[{}] = 0
  BY <1>2, <1>3
<1>5. \A s \in SUBSET U : s # {} => Taken(s) \in s /\ s \ {Taken(s)} \in SUBSET U
  BY DEF Taken
<1>6. \A s \in SUBSET U : g[s] \in Nat
  <2>1. PICK B \in SUBSET (SUBSET U) : B = {s \in SUBSET U : g[s] \notin Nat}
    OBVIOUS
  <2>2. ASSUME B # {} PROVE FALSE
    <3>1. PICK s \in B : \A x \in s : s \ {x} \notin B
      BY <2>2, SmallestSubset
    <3>2. s \in SUBSET U /\ g[s] \notin Nat /\ s # {}
      BY <2>1, <1>4
    <3>3. g[s \ {Taken(s)}] \in Nat /\ w[Taken(s)] \in Nat
      BY <2>1, <3>1, <3>2, <1>5
    <3> QED BY <3>2, <3>3, <1>2
  <2> QED BY <2>1, <2>2
<1>7. \A s \in SUBSET U : \A x \in s : g[s] = w[x] + g[s \ {x}]
  <2>1. PICK B \in SUBSET (SUBSET U) :
          B = {s \in SUBSET U : \E x \in s : g[s] # w[x] + g[s \ {x}]}
    OBVIOUS
  <2>2. ASSUME B # {} PROVE FALSE
    <3>1. PICK s \in B : \A x \in s : s \ {x} \notin B
      BY <2>2, SmallestSubset
    <3>2. PICK x \in s : g[s] # w[x] + g[s \ {x}]
      BY <2>1
    <3>3. PICK y \in s : y = Taken(s)
      BY <1>5, <2>1
    <3>4. s \in SUBSET U /\ g[s] = w[y] + g[s \ {y}] /\ x # y
      BY <1>2, <2>1, <3>2, <3>3
    <3>5. s \ {x} \in SUBSET U /\ s \ {y} \in SUBSET U /\ s \ {x} \notin B /\ s \ {y} \notin B
      BY <3>1, <3>4
    <3>6. g[s \ {x}] = w[y] + g[(s \ {x}) \ {y}] /\ g[s \ {y}] = w[x] + g[(s \ {y}) \ {x}]
      BY <2>1, <3>4, <3>5
    <3>7. (s \ {x}) \ {y} = (s \ {y}) \ {x} /\ (s \ {x}) \ {y} \in SUBSET U
      BY <3>4
    <3>8. PICK k \in Nat : k = g[(s \ {x}) \ {y}]
      BY <3>7, <1>6
    <3>9. g[s \ {x}] = w[y] + k /\ g[s \ {y}] = w[x] + k
      BY <3>6, <3>7, <3>8
    <3>10. w[x] \in Nat /\ w[y] \in Nat
      BY <3>4
    <3>11. g[s] = w[y] + (w[x] + k) /\ g[s] # w[x] + (w[y] + k)
      BY <3>2, <3>4, <3>9
    <3> QED BY <3>10, <3>11
  <2> QED BY <2>1, <2>2
<1>8. \A x \in U : U \ {x} \in SUBSET U
  OBVIOUS
<1> QED BY <1>1, <1>3, <1>4, <1>6, <1>7, <1>8

\* A part of the rows, each counting for no more, counts for no more.
LEMMA SumGrows ==
  ASSUME NEW w, NEW v, NEW U, IsFiniteSet(U), NEW V \in SUBSET U,
         \A x \in U : w[x] \in Nat, \A x \in V : v[x] \in Nat /\ v[x] <= w[x]
  PROVE  SumFunctionOnSet(v, V) <= SumFunctionOnSet(w, U)
<1> DEFINE Sv(s) == SumFunctionOnSet(v, s)
           Sw(s) == SumFunctionOnSet(w, s)
<1>1. PICK B \in SUBSET (SUBSET U) : B = {s \in SUBSET U : ~ (Sv(s \cap V) <= Sw(s))}
  OBVIOUS
<1>2. ASSUME B # {} PROVE FALSE
  <2>1. PICK s \in B : \A x \in s : s \ {x} \notin B
    BY <1>2, SmallestSubset
  <2>2. s \in SUBSET U /\ ~ (Sv(s \cap V) <= Sw(s)) /\ IsFiniteSet(s) /\ IsFiniteSet(s \cap V)
    BY <1>1, FS_Subset
  <2>3. /\ Sw({}) = 0 /\ Sw(s) \in Nat /\ \A x \in s : Sw(s) = w[x] + Sw(s \ {x})
    BY <2>2, SumFacts
  <2>4. /\ Sv({}) = 0 /\ Sv(s \cap V) \in Nat
        /\ \A x \in s \cap V : Sv(s \cap V) = v[x] + Sv((s \cap V) \ {x})
    BY <2>2, SumFacts
  <2>5. PICK a \in Nat : a = Sv(s \cap V)
    BY <2>4
  <2>5a. PICK b \in Nat : b = Sw(s)
    BY <2>3
  <2>5b. ~ (a <= b)
    BY <2>2, <2>5, <2>5a
  <2>5c. s # {}
    <3>1. s = {} => s \cap V = {}
      OBVIOUS
    <3>2. s = {} => a = 0
      BY <3>1, <2>4, <2>5
    <3> QED BY <3>2, <2>5a, <2>5b
  <2>6. PICK x \in s : TRUE
    BY <2>5c
  <2>7. s \ {x} \in SUBSET U /\ IsFiniteSet(s \ {x}) /\ IsFiniteSet((s \ {x}) \cap V)
    BY <2>2, FS_Subset
  <2>8. PICK c \in Nat : c = Sw(s \ {x})
    BY <2>7, SumFacts
  <2>8a. PICK d \in Nat : d = Sv((s \ {x}) \cap V)
    BY <2>7, SumFacts
  <2>9. d <= c
    BY <1>1, <2>1, <2>7, <2>8, <2>8a
  <2>9a. w[x] \in Nat /\ b = w[x] + c
    BY <2>2, <2>3, <2>5a, <2>8
  <2>10. CASE x \in V
    <3>1. (s \cap V) \ {x} = (s \ {x}) \cap V /\ x \in s \cap V
      BY <2>10
    <3>2. Sv(s \cap V) = v[x] + Sv((s \cap V) \ {x})
      BY <3>1, <2>4
    <3>3. a = v[x] + d /\ v[x] \in Nat /\ v[x] <= w[x]
      BY <3>1, <3>2, <2>5, <2>8a
    <3> QED BY <3>3, <2>5b, <2>9, <2>9a
  <2>11. CASE x \notin V
    <3>1. s \cap V = (s \ {x}) \cap V
      BY <2>11
    <3>2. a = d
      BY <3>1, <2>5, <2>8a
    <3> QED BY <3>2, <2>5b, <2>9, <2>9a
  <2> QED BY <2>10, <2>11
<1>3. U \in SUBSET U /\ U \cap V = V
  OBVIOUS
<1> QED BY <1>1, <1>2, <1>3

\* What a cap compares after a step: a part of the old rows, none of which counts
\* for more, or rows that were counted before one more was let in.
LEMMA SumAfter ==
  ASSUME NEW w, NEW v, NEW counted, IsFiniteSet(counted), NEW now, NEW k,
         \A x \in counted : w[x] \in Nat,
         now \subseteq counted \cup {k}, \A x \in now : v[x] \in Nat,
         \A x \in now \ {k} : v[x] <= w[x],
         NEW u \in Nat, k \in now => v[k] <= u
  PROVE  SumFunctionOnSet(v, now) <= SumFunctionOnSet(w, counted) + u
<1>1. PICK U : U = counted \cup {k}
  OBVIOUS
<1>2. PICK s : s = [x \in U |-> IF x = k THEN u ELSE w[x]]
  OBVIOUS
<1>3. /\ IsFiniteSet(U) /\ k \in U /\ s[k] = u
      /\ \A x \in U : s[x] \in Nat
      /\ \A x \in U \ {k} : s[x] = w[x]
  BY <1>1, <1>2, FS_AddElement
<1>4. \A x \in now : v[x] \in Nat /\ v[x] <= s[x]
  BY <1>1, <1>3
<1>5. SumFunctionOnSet(v, now) <= SumFunctionOnSet(s, U)
  BY <1>1, <1>3, <1>4, SumGrows
<1>6. IsFiniteSet(U \ {k}) /\ U \ {k} \in SUBSET counted
  BY <1>1, <1>3, FS_Subset
<1>7. \A x \in U \ {k} : s[x] \in Nat /\ s[x] <= w[x]
  BY <1>3
<1>8. SumFunctionOnSet(s, U \ {k}) <= SumFunctionOnSet(w, counted)
  BY <1>6, <1>7, SumGrows
<1>9. PICK a \in Nat : a = SumFunctionOnSet(s, U \ {k})
  BY <1>3, <1>6, SumFacts
<1>10. PICK b \in Nat : b = SumFunctionOnSet(w, counted)
  BY SumFacts
<1>11. IsFiniteSet(now)
  BY <1>1, <1>3, FS_Subset
<1>12. PICK c \in Nat : c = SumFunctionOnSet(v, now)
  BY <1>11, SumFacts
<1>13. SumFunctionOnSet(s, U) = u + a
  BY <1>3, <1>9, SumFacts
<1>14. c <= u + a /\ a <= b
  BY <1>5, <1>8, <1>9, <1>10, <1>12, <1>13
<1> QED BY <1>10, <1>12, <1>14

-----------------------------------------------------------------------------
(* Costs                                                                   *)

\* A product grows with its factor, a quotient with its dividend.
LEMMA ProductGrows ==
  ASSUME NEW a \in Nat, NEW b \in Nat, a <= b, NEW p \in Nat
  PROVE  a * p \in Nat /\ b * p \in Nat /\ a * p <= b * p
<1>1. PICK d \in Nat : b = a + d
  <2>1. b - a \in Nat /\ b = a + (b - a)
    OBVIOUS
  <2> QED BY <2>1
<1>2. b * p = a * p + d * p
  BY <1>1
<1>3. a * p \in Nat /\ d * p \in Nat
  OBVIOUS
<1> QED BY <1>2, <1>3

LEMMA QuotientGrows ==
  ASSUME NEW x \in Nat, NEW y \in Nat, x <= y, NEW n \in Nat \ {0}
  PROVE  x \div n \in Nat /\ y \div n \in Nat /\ x \div n <= y \div n
OBVIOUS

LEMMA CostGrows ==
  ASSUME NEW u, u.input \in Nat, u.output \in Nat, NEW v, v.input \in Nat, v.output \in Nat,
         AtMost(u, v), NEW price \in [input : Nat, output : Nat]
  PROVE  Cost(u, price) \in Nat /\ Cost(v, price) \in Nat /\ Cost(u, price) <= Cost(v, price)
<1>1. PICK a \in Nat, b \in Nat : a = u.input * price.input /\ b = v.input * price.input /\ a <= b
  BY ProductGrows DEF AtMost
<1>2. PICK c \in Nat, d \in Nat : c = u.output * price.output /\ d = v.output * price.output /\ c <= d
  BY ProductGrows DEF AtMost
<1>3. PriceUnit \in Nat \ {0}
  BY LedgerAssumption
<1>4. /\ a + c + PriceUnit - 1 \in Nat /\ b + d + PriceUnit - 1 \in Nat
      /\ a + c + PriceUnit - 1 <= b + d + PriceUnit - 1
  BY <1>1, <1>2, <1>3
<1> QED BY <1>1, <1>2, <1>3, <1>4, QuotientGrows DEF Cost

-----------------------------------------------------------------------------
(* What the rows count for                                                 *)

LEMMA RowFacts ==
  ASSUME Shape, NEW k \in Recorded
  PROVE  k \in Calls /\ rows[k] \in RowSet
BY DEF Shape, Recorded, NoRow

\* A row counts for no more than what its use was compared as.
LEMMA OwedFacts ==
  ASSUME Shape, RowsInv, NEW k \in Recorded
  PROVE  /\ Owed(k) \in Uses /\ Charged(k) \in Uses
         /\ Owed(k).input <= Charged(k).input /\ Owed(k).output <= Charged(k).output
         /\ Owed(k).cost <= Charged(k).cost
<1>1. rows[k] \in RowSet /\ RowInv(k)
  BY RowFacts DEF RowsInv
<1>2. rows[k].granted \in Uses /\ rows[k].reserved \in Uses /\ rows[k].actual \in Uses
  BY <1>1 DEF RowSet
<1>3. CASE rows[k].status = "completed"
  BY <1>2, <1>3 DEF Owed, Charged, Uses
<1>4. CASE rows[k].status # "completed"
  BY <1>1, <1>2, <1>4 DEF Owed, Charged, Uses, RowInv
<1> QED BY <1>3, <1>4

LEMMA RowsFinite ==
  ASSUME NEW C, C \subseteq Recorded
  PROVE  IsFiniteSet(C)
BY FS_Subset, LedgerAssumption DEF Recorded

\* What is spent on some of the rows.
LEMMA SpentIsNat ==
  ASSUME Shape, RowsInv, NEW C, C \subseteq Recorded
  PROVE  Spent(C).tokens \in Nat /\ Spent(C).cost \in Nat
<1>1. \A e \in C : Owed(e).input \in Nat /\ Owed(e).output \in Nat /\ Owed(e).cost \in Nat
  BY OwedFacts DEF Uses
<1>2. PICK w : w = [e \in C |-> Owed(e).input + Owed(e).output]
  OBVIOUS
<1>3. PICK v : v = [e \in C |-> Owed(e).cost]
  OBVIOUS
<1>4. SumFunctionOnSet(w, C) \in Nat
  <2>1. \A e \in C : w[e] \in Nat
    BY <1>1, <1>2
  <2> QED BY <2>1, RowsFinite, SumFacts
<1>5. SumFunctionOnSet(v, C) \in Nat
  <2>1. \A e \in C : v[e] \in Nat
    BY <1>1, <1>3
  <2> QED BY <2>1, RowsFinite, SumFacts
<1> QED BY <1>2, <1>3, <1>4, <1>5 DEF Spent

\* A part of the rows, none of which counts for more than before.
LEMMA SpentLess ==
  ASSUME Shape, RowsInv, NEW old, old \subseteq Recorded, NEW now, now \subseteq old,
         \A e \in now : /\ Owed(e)' \in Uses
                        /\ Owed(e)'.input <= Owed(e).input /\ Owed(e)'.output <= Owed(e).output
                        /\ Owed(e)'.cost <= Owed(e).cost
  PROVE  /\ Spent(now)'.tokens \in Nat /\ Spent(now)'.tokens <= Spent(old).tokens
         /\ Spent(now)'.cost \in Nat /\ Spent(now)'.cost <= Spent(old).cost
<1>0. IsFiniteSet(old) /\ IsFiniteSet(now)
  BY RowsFinite, FS_Subset
<1>1. \A e \in old : Owed(e).input \in Nat /\ Owed(e).output \in Nat /\ Owed(e).cost \in Nat
  BY OwedFacts DEF Uses
<1>1a. \A e \in now : Owed(e)'.input \in Nat /\ Owed(e)'.output \in Nat /\ Owed(e)'.cost \in Nat
  BY DEF Uses
<1>2. PICK w, v : /\ w = [e \in old |-> Owed(e).input + Owed(e).output]
                  /\ v = [e \in now |-> Owed(e)'.input + Owed(e)'.output]
  OBVIOUS
<1>3. PICK x, y : x = [e \in old |-> Owed(e).cost] /\ y = [e \in now |-> Owed(e)'.cost]
  OBVIOUS
<1>4. (\A e \in old : w[e] \in Nat) /\ (\A e \in now : v[e] \in Nat /\ v[e] <= w[e])
  BY <1>1, <1>1a, <1>2
<1>5. (\A e \in old : x[e] \in Nat) /\ (\A e \in now : y[e] \in Nat /\ y[e] <= x[e])
  BY <1>1, <1>1a, <1>3
<1>6. SumFunctionOnSet(v, now) \in Nat /\ SumFunctionOnSet(v, now) <= SumFunctionOnSet(w, old)
  BY <1>0, <1>4, SumGrows, SumFacts
<1>7. SumFunctionOnSet(y, now) \in Nat /\ SumFunctionOnSet(y, now) <= SumFunctionOnSet(x, old)
  BY <1>0, <1>5, SumGrows, SumFacts
<1> QED BY <1>2, <1>3, <1>6, <1>7 DEF Spent

\* Rows that were counted, and the one that was let in.
LEMMA SpentMore ==
  ASSUME Shape, RowsInv, NEW counted, counted \subseteq Recorded, NEW now, NEW c,
         now \subseteq counted \cup {c}, NEW use \in Uses, Owed(c)' = use,
         \A e \in counted : Owed(e)' = Owed(e)
  PROVE  /\ Spent(now)'.tokens \in Nat
         /\ Spent(now)'.tokens <= Usage(counted).tokens + use.input + use.output
         /\ Spent(now)'.cost \in Nat /\ Spent(now)'.cost <= Usage(counted).cost + use.cost
         /\ Usage(counted).tokens \in Nat /\ Usage(counted).cost \in Nat
<1>0. IsFiniteSet(counted) /\ IsFiniteSet(now)
  <2>1. IsFiniteSet(counted) /\ IsFiniteSet(counted \cup {c})
    BY RowsFinite, FS_AddElement
  <2> QED BY <2>1, FS_Subset
<1>1. /\ \A e \in counted :
           /\ Owed(e).input \in Nat /\ Owed(e).output \in Nat /\ Owed(e).cost \in Nat
           /\ Charged(e).input \in Nat /\ Charged(e).output \in Nat /\ Charged(e).cost \in Nat
           /\ Owed(e).input <= Charged(e).input /\ Owed(e).output <= Charged(e).output
           /\ Owed(e).cost <= Charged(e).cost
      /\ use.input \in Nat /\ use.output \in Nat /\ use.cost \in Nat
  BY OwedFacts DEF Uses
<1>2. PICK w, v : /\ w = [e \in counted |-> Charged(e).input + Charged(e).output]
                  /\ v = [e \in now |-> Owed(e)'.input + Owed(e)'.output]
  OBVIOUS
<1>3. PICK x, y : x = [e \in counted |-> Charged(e).cost] /\ y = [e \in now |-> Owed(e)'.cost]
  OBVIOUS
<1>4. PICK u \in Nat : u = use.input + use.output
  BY <1>1
<1>5. /\ \A e \in counted : w[e] \in Nat
      /\ \A e \in now : v[e] \in Nat
      /\ \A e \in now \ {c} : v[e] <= w[e]
      /\ c \in now => v[c] <= u
  BY <1>1, <1>2, <1>4
<1>6. /\ \A e \in counted : x[e] \in Nat
      /\ \A e \in now : y[e] \in Nat
      /\ \A e \in now \ {c} : y[e] <= x[e]
      /\ c \in now => y[c] <= use.cost
  BY <1>1, <1>3
<1>7. /\ SumFunctionOnSet(v, now) \in Nat /\ SumFunctionOnSet(w, counted) \in Nat
      /\ SumFunctionOnSet(v, now) <= SumFunctionOnSet(w, counted) + u
  BY <1>0, <1>5, SumAfter, SumFacts
<1>8. /\ SumFunctionOnSet(y, now) \in Nat /\ SumFunctionOnSet(x, counted) \in Nat
      /\ SumFunctionOnSet(y, now) <= SumFunctionOnSet(x, counted) + use.cost
  BY <1>0, <1>1, <1>6, SumAfter, SumFacts
<1>9. /\ Spent(now)'.tokens = SumFunctionOnSet(v, now)
      /\ Spent(now)'.cost = SumFunctionOnSet(y, now)
  BY <1>2, <1>3 DEF Spent
<1>10. /\ Usage(counted).tokens = SumFunctionOnSet(w, counted)
       /\ Usage(counted).cost = SumFunctionOnSet(x, counted)
  BY <1>2, <1>3 DEF Usage
<1>11. SumFunctionOnSet(w, counted) + use.input + use.output = SumFunctionOnSet(w, counted) + u
  BY <1>1, <1>4, <1>7
<1> QED BY <1>7, <1>8, <1>9, <1>10, <1>11

-----------------------------------------------------------------------------
(* The caps                                                                *)

\* The row c is added, the others stay.
Adds(c, m, p, use, d) ==
  /\ c \notin Recorded /\ Recorded' = Recorded \cup {c}
  /\ rows'[c].status = "reserved" /\ rows'[c].granted = use /\ rows'[c].reserved = use
  /\ rows'[c].route = c /\ rows'[c].mission = m /\ rows'[c].provider = p
  /\ rows'[c].asOf = d /\ rows'[c].day = day
  /\ \A e \in Recorded : rows'[e] = rows[e]

\* The row c is settled for no more than was granted, the others stay.
Settles(c) ==
  /\ Open(c) /\ Recorded' = Recorded
  /\ rows'[c].status \in {"completed", "uncertain"}
  /\ rows'[c].route = rows[c].route /\ rows'[c].mission = rows[c].mission
  /\ rows'[c].provider = rows[c].provider
  /\ rows'[c].asOf = rows[c].asOf /\ rows'[c].day = rows[c].day
  /\ rows'[c].granted = rows[c].granted
  /\ Owed(c)' \in Uses /\ Owed(c)'.input <= Owed(c).input /\ Owed(c)'.output <= Owed(c).output
  /\ Owed(c)'.cost <= Owed(c).cost
  /\ \A e \in Recorded \ {c} : rows'[e] = rows[e]

\* A cap holds after a row was added if the row is not counted, or was compared
\* with a set that counted every row which the cap counts.
LEMMA UnderAfterAdd ==
  ASSUME Shape, RowsInv, NEW c, NEW m, NEW p, NEW use \in Uses, NEW d, Adds(c, m, p, use, d),
         NEW cap, IsCap(cap), NEW old, old \subseteq Recorded, Under(old, cap),
         NEW counted, counted \subseteq Recorded, NEW now,
         \/ now \subseteq old
         \/ now \subseteq counted \cup {c} /\ Room(Usage(counted), use, cap)
  PROVE  Under(now, cap)'
<1>0. cap.tokens \in Nat /\ cap.cost \in Nat
  BY DEF IsCap
<1>1. \A e \in Recorded : Owed(e)' = Owed(e)
  BY DEF Adds, Owed
<1>2. Owed(c)' = use
  BY DEF Adds, Owed
<1>3. CASE now \subseteq old
  <2>1. \A e \in now : /\ Owed(e)' \in Uses
                       /\ Owed(e)'.input <= Owed(e).input /\ Owed(e)'.output <= Owed(e).output
                       /\ Owed(e)'.cost <= Owed(e).cost
    <3> TAKE e \in now
    <3>1. Owed(e) \in Uses /\ Owed(e)' = Owed(e)
      BY <1>1, <1>3, OwedFacts
    <3> QED BY <3>1 DEF Uses
  <2>2. /\ Spent(now)'.tokens \in Nat /\ Spent(now)'.tokens <= Spent(old).tokens
        /\ Spent(now)'.cost \in Nat /\ Spent(now)'.cost <= Spent(old).cost
    BY <1>3, <2>1, SpentLess
  <2>3. /\ Spent(old).tokens \in Nat /\ Spent(old).tokens <= cap.tokens
        /\ Spent(old).cost \in Nat /\ Spent(old).cost <= cap.cost
    BY SpentIsNat DEF Under
  <2>4. Spent(now)'.tokens <= cap.tokens /\ Spent(now)'.cost <= cap.cost
    BY <1>0, <2>2, <2>3
  <2> QED BY <2>4 DEF Under
<1>4. CASE now \subseteq counted \cup {c} /\ Room(Usage(counted), use, cap)
  <2>1. \A e \in counted : Owed(e)' = Owed(e)
    BY <1>1
  <2>2. /\ Spent(now)'.tokens \in Nat
        /\ Spent(now)'.tokens <= Usage(counted).tokens + use.input + use.output
        /\ Spent(now)'.cost \in Nat /\ Spent(now)'.cost <= Usage(counted).cost + use.cost
        /\ Usage(counted).tokens \in Nat /\ Usage(counted).cost \in Nat
    BY <1>2, <1>4, <2>1, SpentMore
  <2>3. /\ Usage(counted).tokens + use.input + use.output <= cap.tokens
        /\ Usage(counted).cost + use.cost <= cap.cost
    BY <1>4 DEF Room
  <2>4. use.input \in Nat /\ use.output \in Nat /\ use.cost \in Nat
    BY DEF Uses
  <2>5. Spent(now)'.tokens <= cap.tokens /\ Spent(now)'.cost <= cap.cost
    BY <1>0, <2>2, <2>3, <2>4
  <2> QED BY <2>5 DEF Under
<1> QED BY <1>3, <1>4

\* The same of the cap on the cost of a mission.
LEMMA CostAfterAdd ==
  ASSUME Shape, RowsInv, NEW c, NEW m, NEW p, NEW use \in Uses, NEW d, Adds(c, m, p, use, d),
         NEW n \in Nat, NEW old, old \subseteq Recorded, Spent(old).cost <= n,
         NEW counted, counted \subseteq Recorded, NEW now,
         \/ now \subseteq old
         \/ now \subseteq counted \cup {c} /\ Usage(counted).cost + use.cost <= n
  PROVE  Spent(now)'.cost <= n
<1>1. \A e \in Recorded : Owed(e)' = Owed(e)
  BY DEF Adds, Owed
<1>2. Owed(c)' = use
  BY DEF Adds, Owed
<1>3. CASE now \subseteq old
  <2>1. \A e \in now : /\ Owed(e)' \in Uses
                       /\ Owed(e)'.input <= Owed(e).input /\ Owed(e)'.output <= Owed(e).output
                       /\ Owed(e)'.cost <= Owed(e).cost
    <3> TAKE e \in now
    <3>1. Owed(e) \in Uses /\ Owed(e)' = Owed(e)
      BY <1>1, <1>3, OwedFacts
    <3> QED BY <3>1 DEF Uses
  <2>2. Spent(now)'.cost \in Nat /\ Spent(now)'.cost <= Spent(old).cost
    BY <1>3, <2>1, SpentLess
  <2>3. Spent(old).cost \in Nat
    BY SpentIsNat
  <2> QED BY <2>2, <2>3
<1>4. CASE now \subseteq counted \cup {c} /\ Usage(counted).cost + use.cost <= n
  <2>1. \A e \in counted : Owed(e)' = Owed(e)
    BY <1>1
  <2>2. /\ Spent(now)'.cost \in Nat /\ Spent(now)'.cost <= Usage(counted).cost + use.cost
        /\ Usage(counted).cost \in Nat
    BY <1>2, <1>4, <2>1, SpentMore
  <2>3. use.cost \in Nat
    BY DEF Uses
  <2> QED BY <1>4, <2>2, <2>3
<1> QED BY <1>3, <1>4

\* reserve keeps the caps: it compares the rows of the day it sampled first, which
\* for a row that counts is the day the row is stamped with.
LEMMA ReserveKeepsCaps ==
  ASSUME Shape, RowsInv, SpendInv, NEW c \in Calls, NEW m \in Missions, NEW p \in Providers,
         NEW use \in Uses, NEW d, BudgetAllows(c, m, p, use, d), Adds(c, m, p, use, d)
  PROVE  SpendInv'
<1>r. Recorded' = Recorded \cup {c} /\ \A e \in Recorded : rows'[e] = rows[e]
  BY DEF Adds
<1>1. ASSUME NEW q \in Providers, NEW b \in 0 .. MaxDay
      PROVE  /\ Under(InDay(OfProvider(q), b) \cap SameDay, ProviderBudget[q].day)'
             /\ Under(InMonth(OfProvider(q), b) \cap SameMonth, ProviderBudget[q].month)'
  <2>1. /\ IsCap(ProviderBudget[q].day) /\ IsCap(ProviderBudget[q].month)
        /\ Under(InDay(OfProvider(q), b) \cap SameDay, ProviderBudget[q].day)
        /\ Under(InMonth(OfProvider(q), b) \cap SameMonth, ProviderBudget[q].month)
    BY LedgerAssumption DEF SpendInv
  <2>2. /\ InDay(OfProvider(q), b) \cap SameDay \subseteq Recorded
        /\ InMonth(OfProvider(q), b) \cap SameMonth \subseteq Recorded
        /\ InDay(OfProvider(p), d) \subseteq Recorded /\ InMonth(OfProvider(p), d) \subseteq Recorded
    BY DEF InDay, InMonth, OfProvider
  <2>3. /\ Room(Usage(InDay(OfProvider(p), d)), use, ProviderBudget[p].day)
        /\ Room(Usage(InMonth(OfProvider(p), d)), use, ProviderBudget[p].month)
    BY DEF BudgetAllows, ProviderAllows
  <2>4. PICK today : today = (InDay(OfProvider(q), b) \cap SameDay)'
    OBVIOUS
  <2>5. PICK month : month = (InMonth(OfProvider(q), b) \cap SameMonth)'
    OBVIOUS
  <2>6. \/ today \subseteq InDay(OfProvider(q), b) \cap SameDay
        \/ q = p /\ today \subseteq InDay(OfProvider(p), d) \cup {c}
    BY <1>r, <2>4 DEF InDay, OfProvider, SameDay, Adds
  <2>7. \/ month \subseteq InMonth(OfProvider(q), b) \cap SameMonth
        \/ q = p /\ month \subseteq InMonth(OfProvider(p), d) \cup {c}
    BY <1>r, <2>5 DEF InMonth, OfProvider, SameMonth, Adds
  <2>8. Under(today, ProviderBudget[q].day)'
    BY <2>1, <2>2, <2>3, <2>6, UnderAfterAdd
  <2>9. Under(month, ProviderBudget[q].month)'
    BY <2>1, <2>2, <2>3, <2>7, UnderAfterAdd
  <2>10. Under(InDay(OfProvider(q), b) \cap SameDay, ProviderBudget[q].day)'
    BY <2>4, <2>8 DEF Under, Spent
  <2>11. Under(InMonth(OfProvider(q), b) \cap SameMonth, ProviderBudget[q].month)'
    BY <2>5, <2>9 DEF Under, Spent
  <2> QED BY <2>10, <2>11
<1>2. ASSUME NEW q \in Providers, NEW k \in Missions
      PROVE  (Spent(OfProvider(q) \cap OfMission(k)).cost <= ProviderBudget[q].mission)'
  <2>1. /\ ProviderBudget[q].mission \in Nat
        /\ Spent(OfProvider(q) \cap OfMission(k)).cost <= ProviderBudget[q].mission
        /\ Usage(OfProvider(p) \cap OfMission(m)).cost + use.cost <= ProviderBudget[p].mission
    BY LedgerAssumption DEF SpendInv, BudgetAllows, ProviderAllows
  <2>2. /\ OfProvider(q) \cap OfMission(k) \subseteq Recorded
        /\ OfProvider(p) \cap OfMission(m) \subseteq Recorded
    BY DEF OfProvider
  <2>3. PICK now : now = (OfProvider(q) \cap OfMission(k))'
    OBVIOUS
  <2>4. \/ now \subseteq OfProvider(q) \cap OfMission(k)
        \/ q = p /\ now \subseteq (OfProvider(p) \cap OfMission(m)) \cup {c}
    BY <1>r, <2>3 DEF OfProvider, OfMission, Adds
  <2>5. Spent(now)'.cost <= ProviderBudget[q].mission
    BY <2>1, <2>2, <2>4, CostAfterAdd
  <2> QED BY <2>3, <2>5 DEF Spent
<1>3. ASSUME NEW a \in DOMAIN AccountBudget, AccountOf[p] = a
      PROVE  /\ Room(Usage(InDay(OfAccount(a), d)), use, AccountBudget[a].day)
             /\ Room(Usage(InMonth(OfAccount(a), d)), use, AccountBudget[a].month)
             /\ Room(Usage(OfAccount(a) \cap OfRoute(c)), use, AccountBudget[a].task)
  BY <1>3, LedgerAssumption DEF BudgetAllows, AccountAllows
<1>4. ASSUME NEW a \in DOMAIN AccountBudget, NEW b \in 0 .. MaxDay
      PROVE  /\ Under(InDay(OfAccount(a), b) \cap SameDay, AccountBudget[a].day)'
             /\ Under(InMonth(OfAccount(a), b) \cap SameMonth, AccountBudget[a].month)'
  <2>1. /\ IsCap(AccountBudget[a].day) /\ IsCap(AccountBudget[a].month)
        /\ Under(InDay(OfAccount(a), b) \cap SameDay, AccountBudget[a].day)
        /\ Under(InMonth(OfAccount(a), b) \cap SameMonth, AccountBudget[a].month)
    BY LedgerAssumption DEF SpendInv
  <2>2. /\ InDay(OfAccount(a), b) \cap SameDay \subseteq Recorded
        /\ InMonth(OfAccount(a), b) \cap SameMonth \subseteq Recorded
        /\ InDay(OfAccount(a), d) \subseteq Recorded /\ InMonth(OfAccount(a), d) \subseteq Recorded
    BY DEF InDay, InMonth, OfAccount
  <2>4. PICK today : today = (InDay(OfAccount(a), b) \cap SameDay)'
    OBVIOUS
  <2>5. PICK month : month = (InMonth(OfAccount(a), b) \cap SameMonth)'
    OBVIOUS
  <2>6. \/ today \subseteq InDay(OfAccount(a), b) \cap SameDay
        \/ AccountOf[p] = a /\ today \subseteq InDay(OfAccount(a), d) \cup {c}
    BY <1>r, <2>4 DEF InDay, OfAccount, SameDay, Adds
  <2>7. \/ month \subseteq InMonth(OfAccount(a), b) \cap SameMonth
        \/ AccountOf[p] = a /\ month \subseteq InMonth(OfAccount(a), d) \cup {c}
    BY <1>r, <2>5 DEF InMonth, OfAccount, SameMonth, Adds
  <2>8. Under(today, AccountBudget[a].day)'
    BY <1>3, <2>1, <2>2, <2>6, UnderAfterAdd
  <2>9. Under(month, AccountBudget[a].month)'
    BY <1>3, <2>1, <2>2, <2>7, UnderAfterAdd
  <2>10. Under(InDay(OfAccount(a), b) \cap SameDay, AccountBudget[a].day)'
    BY <2>4, <2>8 DEF Under, Spent
  <2>11. Under(InMonth(OfAccount(a), b) \cap SameMonth, AccountBudget[a].month)'
    BY <2>5, <2>9 DEF Under, Spent
  <2> QED BY <2>10, <2>11
<1>5. ASSUME NEW a \in DOMAIN AccountBudget, NEW r \in Routes
      PROVE  Under(OfAccount(a) \cap OfRoute(r), AccountBudget[a].task)'
  <2>1. /\ IsCap(AccountBudget[a].task)
        /\ Under(OfAccount(a) \cap OfRoute(r), AccountBudget[a].task)
        /\ OfAccount(a) \cap OfRoute(r) \subseteq Recorded
        /\ OfAccount(a) \cap OfRoute(c) \subseteq Recorded
    BY LedgerAssumption DEF SpendInv, OfAccount
  <2>2. PICK now : now = (OfAccount(a) \cap OfRoute(r))'
    OBVIOUS
  <2>3. \/ now \subseteq OfAccount(a) \cap OfRoute(r)
        \/ AccountOf[p] = a /\ r = c /\ now \subseteq (OfAccount(a) \cap OfRoute(c)) \cup {c}
    BY <1>r, <2>2 DEF OfAccount, OfRoute, Adds
  <2>4. Under(now, AccountBudget[a].task)'
    BY <1>3, <2>1, <2>3, UnderAfterAdd
  <2> QED BY <2>2, <2>4 DEF Under, Spent
<1> QED BY <1>1, <1>2, <1>4, <1>5 DEF SpendInv

\* Settling a row keeps the caps: it counts for no more than was granted.
LEMMA SettleKeepsCaps ==
  ASSUME Shape, RowsInv, SpendInv, NEW c, Settles(c)
  PROVE  SpendInv'
<1>1. /\ Recorded' = Recorded
      /\ \A e \in Recorded : /\ rows'[e].route = rows[e].route
                             /\ rows'[e].provider = rows[e].provider
                             /\ rows'[e].mission = rows[e].mission
                             /\ rows'[e].asOf = rows[e].asOf /\ rows'[e].day = rows[e].day
  BY DEF Settles
<1>2. SameDay' = SameDay /\ SameMonth' = SameMonth
  BY <1>1 DEF SameDay, SameMonth
<1>3. /\ \A q : OfProvider(q)' = OfProvider(q) /\ OfAccount(q)' = OfAccount(q)
      /\ \A q : OfRoute(q)' = OfRoute(q) /\ OfMission(q)' = OfMission(q)
  BY <1>1 DEF OfProvider, OfAccount, OfRoute, OfMission
<1>4. /\ \A q, d : InDay(OfProvider(q), d)' = InDay(OfProvider(q), d)
      /\ \A q, d : InMonth(OfProvider(q), d)' = InMonth(OfProvider(q), d)
      /\ \A q, d : InDay(OfAccount(q), d)' = InDay(OfAccount(q), d)
      /\ \A q, d : InMonth(OfAccount(q), d)' = InMonth(OfAccount(q), d)
  BY <1>1, <1>3 DEF InDay, InMonth, OfProvider, OfAccount
<1>5. \A e \in Recorded :
        /\ Owed(e)' \in Uses
        /\ Owed(e)'.input <= Owed(e).input /\ Owed(e)'.output <= Owed(e).output
        /\ Owed(e)'.cost <= Owed(e).cost
  <2> TAKE e \in Recorded
  <2>1. CASE e = c
    BY <2>1 DEF Settles
  <2>2. CASE e # c
    <3>1. Owed(e)' = Owed(e) /\ Owed(e) \in Uses
      BY <2>2, OwedFacts DEF Settles, Owed
    <3> QED BY <3>1 DEF Uses
  <2> QED BY <2>1, <2>2
<1>6. ASSUME NEW C, C \subseteq Recorded
      PROVE  /\ Spent(C)'.tokens \in Nat /\ Spent(C)'.tokens <= Spent(C).tokens
             /\ Spent(C)'.cost \in Nat /\ Spent(C)'.cost <= Spent(C).cost
             /\ Spent(C).tokens \in Nat /\ Spent(C).cost \in Nat
  BY <1>5, <1>6, SpentLess, SpentIsNat
<1>7. ASSUME NEW C, C \subseteq Recorded, NEW cap, IsCap(cap), Under(C, cap)
      PROVE  Under(C, cap)'
  <2>1. cap.tokens \in Nat /\ cap.cost \in Nat
    BY <1>7 DEF IsCap
  <2>2. Spent(C).tokens <= cap.tokens /\ Spent(C).cost <= cap.cost
    BY <1>7 DEF Under
  <2>3. Spent(C)'.tokens <= cap.tokens /\ Spent(C)'.cost <= cap.cost
    BY <1>6, <1>7, <2>1, <2>2
  <2> QED BY <2>3 DEF Under
<1>8. ASSUME NEW q \in Providers, NEW b \in 0 .. MaxDay
      PROVE  /\ Under(InDay(OfProvider(q), b) \cap SameDay, ProviderBudget[q].day)'
             /\ Under(InMonth(OfProvider(q), b) \cap SameMonth, ProviderBudget[q].month)'
  <2>1. PICK today : today = InDay(OfProvider(q), b) \cap SameDay /\ today \subseteq Recorded
    BY DEF SameDay
  <2>2. PICK month : month = InMonth(OfProvider(q), b) \cap SameMonth /\ month \subseteq Recorded
    BY DEF SameMonth
  <2>3. /\ IsCap(ProviderBudget[q].day) /\ Under(today, ProviderBudget[q].day)
        /\ IsCap(ProviderBudget[q].month) /\ Under(month, ProviderBudget[q].month)
    BY <2>1, <2>2, LedgerAssumption DEF SpendInv
  <2>4. Under(today, ProviderBudget[q].day)' /\ Under(month, ProviderBudget[q].month)'
    BY <1>7, <2>1, <2>2, <2>3
  <2>5. /\ today = (InDay(OfProvider(q), b) \cap SameDay)'
        /\ month = (InMonth(OfProvider(q), b) \cap SameMonth)'
    BY <1>2, <1>4, <2>1, <2>2
  <2> QED BY <2>4, <2>5 DEF Under, Spent
<1>9. ASSUME NEW q \in Providers, NEW k \in Missions
      PROVE  (Spent(OfProvider(q) \cap OfMission(k)).cost <= ProviderBudget[q].mission)'
  <2>1. PICK now : now = OfProvider(q) \cap OfMission(k) /\ now \subseteq Recorded
    BY DEF OfProvider
  <2>2. ProviderBudget[q].mission \in Nat /\ Spent(now).cost <= ProviderBudget[q].mission
    BY <2>1, LedgerAssumption DEF SpendInv
  <2>3. Spent(now)'.cost <= ProviderBudget[q].mission
    BY <1>6, <2>1, <2>2
  <2>4. now = (OfProvider(q) \cap OfMission(k))'
    BY <1>3, <2>1
  <2> QED BY <2>3, <2>4 DEF Spent
<1>10. ASSUME NEW a \in DOMAIN AccountBudget, NEW b \in 0 .. MaxDay
      PROVE  /\ Under(InDay(OfAccount(a), b) \cap SameDay, AccountBudget[a].day)'
             /\ Under(InMonth(OfAccount(a), b) \cap SameMonth, AccountBudget[a].month)'
  <2>1. PICK today : today = InDay(OfAccount(a), b) \cap SameDay /\ today \subseteq Recorded
    BY DEF SameDay
  <2>2. PICK month : month = InMonth(OfAccount(a), b) \cap SameMonth /\ month \subseteq Recorded
    BY DEF SameMonth
  <2>3. /\ IsCap(AccountBudget[a].day) /\ Under(today, AccountBudget[a].day)
        /\ IsCap(AccountBudget[a].month) /\ Under(month, AccountBudget[a].month)
    BY <2>1, <2>2, LedgerAssumption DEF SpendInv
  <2>4. Under(today, AccountBudget[a].day)' /\ Under(month, AccountBudget[a].month)'
    BY <1>7, <2>1, <2>2, <2>3
  <2>5. /\ today = (InDay(OfAccount(a), b) \cap SameDay)'
        /\ month = (InMonth(OfAccount(a), b) \cap SameMonth)'
    BY <1>2, <1>4, <2>1, <2>2
  <2> QED BY <2>4, <2>5 DEF Under, Spent
<1>11. ASSUME NEW a \in DOMAIN AccountBudget, NEW r \in Routes
      PROVE  Under(OfAccount(a) \cap OfRoute(r), AccountBudget[a].task)'
  <2>1. PICK now : now = OfAccount(a) \cap OfRoute(r) /\ now \subseteq Recorded
    BY DEF OfAccount
  <2>2. IsCap(AccountBudget[a].task) /\ Under(now, AccountBudget[a].task)
    BY <2>1, LedgerAssumption DEF SpendInv
  <2>3. Under(now, AccountBudget[a].task)'
    BY <1>7, <2>1, <2>2
  <2>4. now = (OfAccount(a) \cap OfRoute(r))'
    BY <1>3, <2>1
  <2> QED BY <2>3, <2>4 DEF Under, Spent
<1> QED BY <1>8, <1>9, <1>10, <1>11 DEF SpendInv

-----------------------------------------------------------------------------
(* The transactions                                                        *)

RowsTyped == rows \in [Calls -> RowSet \cup {NoRow}]

LEMMA ReserveAdds ==
  ASSUME Shape, NEW c \in Calls, NEW m \in Missions, NEW p \in Providers, NEW use \in Uses,
         NEW d \in Nat, Reserve(c, c, m, p, use, d)
  PROVE  Adds(c, m, p, use, d) /\ RowsTyped' /\ day' = day
<1>1. PICK row : row = NewRow(c, m, p, use, d)
  OBVIOUS
<1>2. /\ rows[c] = NoRow /\ rows' = [rows EXCEPT ![c] = row] /\ day' = day
      /\ rows \in [Calls -> RowSet \cup {NoRow}] /\ day \in Nat
  BY <1>1, LedgerAssumption DEF Reserve, Shape, TypeOK
<1>3. /\ row.status = "reserved" /\ row.granted = use /\ row.reserved = use /\ row.route = c
      /\ row.mission = m /\ row.provider = p /\ row.asOf = d /\ row.day = day
  BY <1>1 DEF NewRow
<1>4. row \in RowSet
  BY <1>1, <1>2 DEF NewRow, RowSet, Uses, NoUse
<1>5. rows'[c] = row /\ \A e \in Calls \ {c} : rows'[e] = rows[e]
  BY <1>2
<1>6. RowsTyped'
  BY <1>2, <1>4 DEF RowsTyped
<1>7. c \notin Recorded /\ Recorded' = Recorded \cup {c}
  BY <1>2, <1>3, <1>5 DEF Recorded, NoRow
<1>8. \A e \in Recorded : rows'[e] = rows[e]
  BY <1>5, <1>7 DEF Recorded
<1> QED BY <1>2, <1>3, <1>5, <1>6, <1>7, <1>8 DEF Adds

\* A call that is settled has the columns it had.
LEMMA RowSettled ==
  ASSUME Shape, NEW k \in Calls, Open(k), NEW row \in RowSet,
         rows' = [rows EXCEPT ![k] = row], row.status \in {"completed", "uncertain"},
         row.route = rows[k].route, row.mission = rows[k].mission,
         row.provider = rows[k].provider, row.asOf = rows[k].asOf, row.day = rows[k].day,
         row.granted = rows[k].granted,
         Owed(k)' \in Uses, Owed(k)'.input <= Owed(k).input,
         Owed(k)'.output <= Owed(k).output, Owed(k)'.cost <= Owed(k).cost
  PROVE  Settles(k) /\ RowsTyped' /\ rows'[k] = row
<1>1. rows \in [Calls -> RowSet \cup {NoRow}]
  BY DEF Shape
<1>2. rows'[k] = row /\ \A e \in Calls \ {k} : rows'[e] = rows[e]
  BY <1>1
<1>3. RowsTyped'
  BY <1>1 DEF RowsTyped
<1>4. Recorded' = Recorded
  BY <1>2 DEF Recorded, Open
<1>5. \A e \in Recorded \ {k} : rows'[e] = rows[e]
  BY <1>2 DEF Recorded
<1> QED BY <1>2, <1>3, <1>4, <1>5 DEF Settles

LEMMA OpenRow ==
  ASSUME Shape, RowsInv, NEW k \in Calls, Open(k)
  PROVE  /\ k \in Recorded /\ rows[k] \in RowSet /\ RowInv(k)
         /\ rows[k].granted \in Uses /\ rows[k].reserved = rows[k].granted
         /\ Owed(k) = rows[k].granted
         /\ k[2] \in Providers /\ PriceOf[k[2]] \in [input : Nat, output : Nat]
<1>1. k \in Recorded
  BY DEF Open, Recorded
<1>2. rows[k] \in RowSet /\ RowInv(k)
  BY <1>1, RowFacts DEF RowsInv
<1>3. rows[k].reserved = rows[k].granted /\ Owed(k) = rows[k].granted
  BY <1>2 DEF RowInv, Open, Owed
<1>4. k[2] \in Providers
  BY FacadeAssumption
<1> QED BY <1>1, <1>2, <1>3, <1>4, FacadeAssumption DEF RowSet

\* complete, with usage that fits in the reservation.
LEMMA CompleteSettles ==
  ASSUME Shape, RowsInv, NEW k \in Calls, NEW use \in [input : Nat, output : Nat],
         AtMost(use, rows[k].reserved), Complete(k, Priced(use, PriceOf[k[2]]))
  PROVE  Settles(k) /\ RowsTyped' /\ RowInv(k)' /\ day' = day
<1>1. PICK price \in [input : Nat, output : Nat] : price = PriceOf[k[2]]
  BY OpenRow DEF Complete
<1>2. PICK actual : actual = Priced(use, price)
  OBVIOUS
<1>3. /\ Open(k) /\ day' = day
      /\ rows' = [rows EXCEPT ![k].status = "completed", ![k].actual = actual]
  BY <1>1, <1>2 DEF Complete
<1>4. /\ rows[k] \in RowSet /\ RowInv(k) /\ rows[k].granted \in Uses
      /\ rows[k].reserved = rows[k].granted /\ Owed(k) = rows[k].granted
  BY <1>3, OpenRow
<1>5. PICK g \in Uses : g = rows[k].granted
  BY <1>4
<1>6. g.input \in Nat /\ g.output \in Nat /\ AtMost(use, g) /\ g.cost = Cost(g, price)
  BY <1>1, <1>4, <1>5 DEF Uses, RowInv
<1>7. Cost(use, price) \in Nat /\ Cost(use, price) <= g.cost
  BY <1>6, CostGrows
<1>8. /\ actual \in Uses /\ actual.input <= g.input /\ actual.output <= g.output
      /\ actual.cost <= g.cost
  BY <1>2, <1>6, <1>7 DEF Priced, Uses, AtMost
<1>9. PICK row : row = [rows[k] EXCEPT !.status = "completed", !.actual = actual]
  OBVIOUS
<1>10. /\ row \in RowSet /\ row.status = "completed" /\ row.actual = actual
       /\ row.route = rows[k].route /\ row.mission = rows[k].mission
       /\ row.provider = rows[k].provider /\ row.asOf = rows[k].asOf /\ row.day = rows[k].day
       /\ row.granted = rows[k].granted /\ row.reserved = rows[k].reserved
  BY <1>4, <1>8, <1>9 DEF RowSet
<1>11. rows' = [rows EXCEPT ![k] = row]
  BY <1>3, <1>9 DEF Shape
<1>12. rows'[k] = row
  BY <1>11 DEF Shape
<1>13. Owed(k)' = actual
  BY <1>10, <1>12 DEF Owed
<1>14. Settles(k) /\ RowsTyped'
  <2>1. /\ Owed(k)' \in Uses /\ Owed(k)'.input <= Owed(k).input
        /\ Owed(k)'.output <= Owed(k).output /\ Owed(k)'.cost <= Owed(k).cost
    BY <1>4, <1>5, <1>8, <1>13
  <2>2. Open(k) /\ row \in RowSet /\ row.status \in {"completed", "uncertain"}
    BY <1>3, <1>10
  <2> QED BY <2>1, <2>2, <1>10, <1>11, RowSettled
<1>15. RowInv(k)'
  BY <1>4, <1>10, <1>12 DEF RowInv, Uses
<1> QED BY <1>3, <1>14, <1>15

\* mark_uncertain keeps what was granted or more.
LEMMA UncertainSettles ==
  ASSUME Shape, RowsInv, NEW k \in Calls, NEW use \in [input : Nat, output : Nat],
         MarkUncertain(k, use, PriceOf[k[2]])
  PROVE  Settles(k) /\ RowsTyped' /\ RowInv(k)' /\ day' = day
<1>1. PICK price \in [input : Nat, output : Nat] : price = PriceOf[k[2]]
  BY OpenRow DEF MarkUncertain
<1>2. /\ Open(k) /\ rows[k] \in RowSet /\ RowInv(k) /\ rows[k].granted \in Uses
      /\ rows[k].reserved = rows[k].granted /\ Owed(k) = rows[k].granted
  BY OpenRow DEF MarkUncertain
<1>3. PICK g \in Uses : g = rows[k].granted
  BY <1>2
<1>4. PICK kept : kept = Retained(g, use, price)
  OBVIOUS
<1>5. day' = day /\ rows' = [rows EXCEPT ![k].status = "uncertain", ![k].reserved = kept]
  <2>1. rows \in [Calls -> RowSet \cup {NoRow}]
    BY DEF Shape
  <2> QED BY <2>1, <1>1, <1>2, <1>3, <1>4 DEF MarkUncertain
<1>6. /\ g.input \in Nat /\ g.output \in Nat /\ g.cost \in Nat
      /\ use.input \in Nat /\ use.output \in Nat
  BY DEF Uses
<1>7. PICK most \in [input : Nat, output : Nat] :
        /\ most = [input |-> Larger(g.input, use.input), output |-> Larger(g.output, use.output)]
        /\ g.input <= most.input /\ g.output <= most.output
  <2>1. PICK i \in Nat : i = Larger(g.input, use.input) /\ g.input <= i
    BY <1>6 DEF Larger
  <2>2. PICK o \in Nat : o = Larger(g.output, use.output) /\ g.output <= o
    BY <1>6 DEF Larger
  <2>3. PICK most \in [input : Nat, output : Nat] : most = [input |-> i, output |-> o]
    OBVIOUS
  <2>4. most.input = i /\ most.output = o
    BY <2>3
  <2> QED BY <2>1, <2>2, <2>3, <2>4
<1>8. Cost(most, price) \in Nat
  BY CostGrows DEF AtMost
<1>9. /\ kept.input = most.input /\ kept.output = most.output
      /\ kept.cost = Larger(g.cost, Cost(most, price)) /\ kept \in Uses
  BY <1>4, <1>6, <1>7, <1>8 DEF Retained, Larger, Uses
<1>10. g.input <= kept.input /\ g.output <= kept.output /\ g.cost <= kept.cost
  BY <1>6, <1>7, <1>8, <1>9 DEF Larger
<1>11. PICK row : row = [rows[k] EXCEPT !.status = "uncertain", !.reserved = kept]
  OBVIOUS
<1>12. /\ row \in RowSet /\ row.status = "uncertain" /\ row.reserved = kept
       /\ row.route = rows[k].route /\ row.mission = rows[k].mission
       /\ row.provider = rows[k].provider /\ row.asOf = rows[k].asOf /\ row.day = rows[k].day
       /\ row.granted = rows[k].granted
  BY <1>2, <1>9, <1>11 DEF RowSet
<1>13. rows' = [rows EXCEPT ![k] = row]
  BY <1>5, <1>11 DEF Shape
<1>14. rows'[k] = row
  BY <1>13 DEF Shape
<1>15. Owed(k)' = g
  BY <1>3, <1>12, <1>14 DEF Owed
<1>16. Settles(k) /\ RowsTyped'
  <2>1. /\ Owed(k)' \in Uses /\ Owed(k)'.input <= Owed(k).input
        /\ Owed(k)'.output <= Owed(k).output /\ Owed(k)'.cost <= Owed(k).cost
    BY <1>2, <1>3, <1>6, <1>15
  <2>2. Open(k) /\ row \in RowSet /\ row.status \in {"completed", "uncertain"}
    BY <1>2, <1>12
  <2> QED BY <2>1, <2>2, <1>12, <1>13, RowSettled
<1>17. RowInv(k)'
  BY <1>2, <1>3, <1>10, <1>12, <1>14 DEF RowInv
<1> QED BY <1>5, <1>16, <1>17

-----------------------------------------------------------------------------
(* The candidates                                                          *)

\* Of the elements of a set that is not empty, one has the least number.
LEMMA Least ==
  ASSUME NEW S, S # {}, NEW f, \A x \in S : f[x] \in Nat
  PROVE  \E x \in S : \A y \in S : f[x] <= f[y]
<1>1. PICK R : R = {p \in Nat \X Nat : p[1] < p[2]}
  OBVIOUS
<1>2. IsWellFoundedOn(R, Nat)
  BY <1>1, NatLessThanWellFounded DEF OpToRel
<1>3. PICK N \in SUBSET Nat : N = {f[x] : x \in S}
  OBVIOUS
<1>3a. N # {}
  BY <1>3
<1>4. PICK n \in N : \A m \in N : <<m, n>> \notin R
  BY <1>2, <1>3a, WFMin
<1>5. PICK x \in S : f[x] = n
  BY <1>3
<1>6. ASSUME NEW y \in S, ~ (f[x] <= f[y]) PROVE FALSE
  <2>1. PICK m \in N : m = f[y] /\ m < n
    BY <1>3, <1>5, <1>6
  <2>2. PICK pair \in Nat \X Nat : pair = <<m, n>>
    BY <1>3
  <2>3. pair[1] = m /\ pair[2] = n
    BY <2>2
  <2>4. pair \in R
    BY <1>1, <2>1, <2>3
  <2> QED BY <1>4, <2>2, <2>4
<1> QED BY <1>6

\* The least element of a set of numbers.
LEMMA MinIsIn ==
  ASSUME NEW S \in SUBSET Nat, S # {}
  PROVE  Min(S) \in S
<1>1. PICK f : f = [x \in S |-> x]
  OBVIOUS
<1>2. PICK x \in S : \A y \in S : f[x] <= f[y]
  BY <1>1, Least
<1>3. \A y \in S : x <= y
  BY <1>1, <1>2
<1> QED BY <1>3 DEF Min

LEMMA AskedFacts ==
  ASSUME NEW b \in Bodies, NEW p \in Providers
  PROVE  /\ Asked(b, p) \in Uses /\ Asked(b, p).cost \in Nat
         /\ Asked(b, p).cost = Cost(Asked(b, p), PriceOf[p])
<1>1. b.size \in Nat /\ b.output \in Nat /\ Overhead \in Nat /\ MaxOutput \in Nat
  BY FacadeAssumption
<1>2. PICK price \in [input : Nat, output : Nat] : price = PriceOf[p]
  BY FacadeAssumption
<1>3. Min({b.output, MaxOutput}) \in Nat
  BY <1>1, MinIsIn
<1>4. PICK i \in Nat, o \in Nat : i = b.size + Overhead /\ o = Min({b.output, MaxOutput})
  BY <1>1, <1>3
<1>5. PICK u \in [input : Nat, output : Nat] : u = [input |-> i, output |-> o]
  OBVIOUS
<1>6. Asked(b, p) = [input |-> u.input, output |-> u.output, cost |-> Cost(u, price)]
  BY <1>2, <1>4, <1>5 DEF Asked, Priced
<1>7. Cost(u, price) \in Nat
  BY CostGrows DEF AtMost
<1>8. Cost(Asked(b, p), price) = Cost(u, price)
  BY <1>6 DEF Cost
<1> QED BY <1>2, <1>6, <1>7, <1>8 DEF Uses

\* The candidate that is tried is one of those that are left, and none is cheaper.
LEMMA FirstFacts ==
  ASSUME NEW b \in Bodies, NEW todo \in SUBSET Providers, todo # {}
  PROVE  /\ FirstOf(b, todo) \in todo
         /\ \A q \in todo : Asked(b, FirstOf(b, todo)).cost <= Asked(b, q).cost
<1>1. PICK f : f = [p \in todo |-> Asked(b, p).cost]
  OBVIOUS
<1>2. \A p \in todo : f[p] = Asked(b, p).cost /\ f[p] \in Nat
  BY <1>1, AskedFacts
<1>3. PICK p \in todo : \A q \in todo : f[p] <= f[q]
  BY <1>2, Least
<1>4. p \in Cheapest(b, todo)
  BY <1>2, <1>3 DEF Cheapest
<1>5. PICK i \in DOMAIN PoolOrder : PoolOrder[i] = p
  BY FacadeAssumption DEF Range
<1>6. PICK S \in SUBSET Nat : S = {j \in DOMAIN PoolOrder : PoolOrder[j] \in Cheapest(b, todo)}
  <2>1. PoolOrder \in Seq(Providers)
    BY FacadeAssumption
  <2>2. DOMAIN PoolOrder \subseteq Nat
    BY <2>1
  <2> QED BY <2>2
<1>7. Min(S) \in S
  BY <1>4, <1>5, <1>6, MinIsIn
<1>8. FirstOf(b, todo) \in Cheapest(b, todo)
  BY <1>6, <1>7 DEF FirstOf
<1> QED BY <1>8 DEF Cheapest

-----------------------------------------------------------------------------
(* What a step does to the chats                                           *)

\* A chat that neither moves nor sees its rows change.
LEMMA OthersKeep ==
  ASSUME NEW c \in Chats, ChatInv(c), chat'[c] = chat[c], RowsOf(c)' = RowsOf(c),
         \A k \in RowsOf(c) : rows'[k] = rows[k]
  PROVE  ChatInv(c)'
<1>1. Row(c)' = Row(c) /\ Using(c)' = Using(c) /\ Active(c)' = Active(c)
  BY DEF Row, Using, Active
<1>2. UsingInv(c)'
  BY <1>1 DEF ChatInv, UsingInv
<1>3. CallInv(c)'
  BY <1>1 DEF ChatInv, CallInv
<1>4. AnswerInv(c)'
  BY DEF ChatInv, AnswerInv
<1> QED BY <1>2, <1>3, <1>4 DEF ChatInv

LEMMA ChatFacts ==
  ASSUME IInv, NEW c \in Chats
  PROVE  /\ chat[c] \in ChatSet /\ ChatInv(c) /\ day \in 0 .. MaxDay
         /\ chat[c].asOf \in 0 .. day /\ chat[c].window \in 0 .. day
         /\ chat[c].todo \subseteq Providers /\ (Active(c) => chat[c].todo # {})
         /\ chat[c].body \in Bodies \cup {NoUsage}
         /\ chat[c].usage \in Reports \cup {NoUsage} /\ chat[c].seen \in Nat
         /\ chat[c].using \in Providers \cup {NoUsage}
BY DEF IInv, Shape, TypeOK, ChatSet

\* What was spent is a matter of the rows.
LEMMA SameRows ==
  ASSUME SpendInv, rows' = rows
  PROVE  SpendInv'
<1>1. Recorded' = Recorded /\ SameDay' = SameDay /\ SameMonth' = SameMonth
  BY DEF Recorded, SameDay, SameMonth
<1>2. /\ \A q : OfProvider(q)' = OfProvider(q) /\ OfAccount(q)' = OfAccount(q)
      /\ \A q : OfRoute(q)' = OfRoute(q) /\ OfMission(q)' = OfMission(q)
  BY <1>1 DEF OfProvider, OfAccount, OfRoute, OfMission
<1>3. \A C, d : InDay(C, d)' = InDay(C, d) /\ InMonth(C, d)' = InMonth(C, d)
  BY DEF InDay, InMonth
<1>4. \A C : Spent(C)' = Spent(C)
  BY DEF Spent, Owed
<1>5. \A C, cap : Under(C, cap)' <=> Under(C, cap)
  BY <1>4 DEF Under
<1> QED BY <1>1, <1>2, <1>3, <1>4, <1>5 DEF SpendInv

\* A thread moves and the ledger stays.
LEMMA ThreadKeeps ==
  ASSUME IInv, NEW c \in Chats, NEW n \in ChatSet, chat' = [chat EXCEPT ![c] = n],
         UNCHANGED ledger, n.asOf \in 0 .. day, n.window \in 0 .. day,
         Active(c)' => n.todo # {}, ChatInv(c)'
  PROVE  IInv'
<1>1. day' = day /\ rows' = rows
  BY DEF ledger
<1>2. chat \in [Chats -> ChatSet]
  BY DEF IInv, Shape
<1>3. chat'[c] = n /\ \A d \in Chats \ {c} : chat'[d] = chat[d]
  BY <1>2
<1>4. Recorded' = Recorded /\ \A d \in Chats : RowsOf(d)' = RowsOf(d)
  BY <1>1 DEF Recorded, RowsOf
<1>5. \A d \in Chats : ChatInv(d)'
  <2> TAKE d \in Chats
  <2>1. CASE d = c
    BY <2>1
  <2>2. CASE d # c
    <3>1. ChatInv(d) /\ chat'[d] = chat[d] /\ RowsOf(d)' = RowsOf(d)
      BY <1>3, <1>4, <2>2 DEF IInv
    <3> QED BY <3>1, <1>1, OthersKeep
  <2> QED BY <2>1, <2>2
<1>6. TypeOK'
  <2>1. /\ day' \in 0 .. MaxDay
        /\ \A k \in Recorded' : /\ rows'[k].provider \in Providers
                                /\ rows'[k].asOf \in 0 .. rows'[k].day /\ rows'[k].day \in 0 .. day'
    BY <1>1, <1>4 DEF IInv, Shape, TypeOK
  <2>2. ASSUME NEW d \in Chats
        PROVE  /\ chat'[d].asOf \in 0 .. day /\ chat'[d].window \in 0 .. day
               /\ chat'[d].todo \subseteq Providers /\ (Active(d)' => chat'[d].todo # {})
    <3>1. CASE d = c
      BY <3>1, <1>3 DEF ChatSet
    <3>2. CASE d # c
      BY <3>2, <1>3, ChatFacts DEF Active
    <3> QED BY <3>1, <3>2
  <2> QED BY <2>1, <2>2, <1>1 DEF TypeOK
<1>7. Shape'
  BY <1>1, <1>2, <1>6 DEF IInv, Shape
<1>8. RowsInv'
  BY <1>1, <1>4 DEF IInv, RowsInv, RowInv
<1>9. SpendInv'
  BY <1>1, SameRows DEF IInv
<1> QED BY <1>5, <1>7, <1>8, <1>9 DEF IInv

\* The record of a chat that was answered.
Closing(c, n, status, whole) ==
  /\ n \in ChatSet /\ n.pc = "done" /\ n.status = status /\ n.whole = whole
  /\ n.window = 0 /\ n.asOf = 0 /\ n.todo = chat[c].todo /\ n.body = chat[c].body
  /\ n.using = chat[c].using

LEMMA AnsweredFacts ==
  ASSUME IInv, NEW c \in Chats, NEW status \in Nat, NEW whole \in BOOLEAN,
         Answered(c, status, whole)
  PROVE  \E n : Closing(c, n, status, whole) /\ chat' = [chat EXCEPT ![c] = n]
<1>1. PICK n : n = [chat[c] EXCEPT !.pc = "done", !.status = status, !.whole = whole,
                                   !.window = 0, !.asOf = 0, !.seen = 0]
  OBVIOUS
<1>2. chat[c] \in ChatSet /\ MaxDay \in Nat
  BY ChatFacts, LedgerAssumption
<1>2a. 0 \in 0 .. MaxDay /\ 0 \in Nat
  BY <1>2
<1>2b. /\ chat[c].body \in Bodies \cup {NoUsage} /\ chat[c].todo \in SUBSET Providers
       /\ chat[c].using \in Providers \cup {NoUsage} /\ chat[c].usage \in Reports \cup {NoUsage}
  BY <1>2 DEF ChatSet
<1>2c. n = [pc |-> "done", body |-> chat[c].body, todo |-> chat[c].todo,
            using |-> chat[c].using, window |-> 0, asOf |-> 0, seen |-> 0,
            usage |-> chat[c].usage, status |-> status, whole |-> whole]
  BY <1>1, <1>2 DEF ChatSet
<1>3. n \in ChatSet
  BY <1>2a, <1>2b, <1>2c DEF ChatSet
<1>4. /\ n.pc = "done" /\ n.status = status /\ n.whole = whole /\ n.window = 0 /\ n.asOf = 0
      /\ n.todo = chat[c].todo /\ n.body = chat[c].body /\ n.using = chat[c].using
  BY <1>1, <1>2 DEF ChatSet
<1> QED BY <1>1, <1>3, <1>4 DEF Answered, Set, Closing

\* What is left to show of a chat that was answered.
LEMMA ClosedKeeps ==
  ASSUME IInv, NEW c \in Chats, NEW n, NEW status, NEW whole \in BOOLEAN,
         Closing(c, n, status, whole), chat'[c] = n,
         RowsOf(c)' = RowsOf(c), \A k \in RowsOf(c) : rows'[k].granted = rows[k].granted,
         status = 429 => RowsOf(c) = {},
         whole => \E k \in RowsOf(c) : rows'[k].status \in {"completed", "uncertain"}
  PROVE  ChatInv(c)'
<1>1. /\ chat'[c].pc = "done" /\ chat'[c].status = status /\ chat'[c].whole = whole
      /\ chat'[c].todo = chat[c].todo /\ chat'[c].body = chat[c].body
  BY DEF Closing
<1>2. ChatInv(c)
  BY ChatFacts
<1>3. UsingInv(c)'
  BY <1>1 DEF UsingInv, Active
<1>4. CallInv(c)'
  BY <1>1, <1>2 DEF ChatInv, CallInv
<1>5. AnswerInv(c)'
  BY <1>1 DEF AnswerInv
<1>6. \A k \in RowsOf(c), q \in chat[c].todo :
        rows'[k].granted.cost <= Asked(chat[c].body, q).cost
  BY <1>2 DEF ChatInv
<1> QED BY <1>1, <1>3, <1>4, <1>5, <1>6 DEF ChatInv

\* A chat is answered and the ledger stays.
LEMMA AnsweredKeeps ==
  ASSUME IInv, NEW c \in Chats, NEW status \in Nat, Answered(c, status, FALSE),
         UNCHANGED ledger, status = 429 => RowsOf(c) = {}
  PROVE  IInv'
<1>1. PICK n : Closing(c, n, status, FALSE) /\ chat' = [chat EXCEPT ![c] = n]
  BY AnsweredFacts
<1>2. chat \in [Chats -> ChatSet] /\ rows' = rows
  BY DEF IInv, Shape, ledger
<1>3. chat'[c] = n /\ RowsOf(c)' = RowsOf(c)
  BY <1>1, <1>2 DEF RowsOf, Recorded
<1>4. ChatInv(c)'
  BY <1>1, <1>2, <1>3, ClosedKeeps
<1>5. n \in ChatSet /\ n.asOf \in 0 .. day /\ n.window \in 0 .. day
  BY <1>1, ChatFacts, LedgerAssumption DEF Closing
<1>6. ~ Active(c)'
  BY <1>1, <1>3 DEF Closing, Active
<1> QED BY <1>1, <1>4, <1>5, <1>6, ThreadKeeps

\* The call of a chat is settled and the chat is answered.
LEMMA SettledKeeps ==
  ASSUME IInv, NEW c \in Chats, Row(c) \in Calls, Settles(Row(c)), RowsTyped', RowInv(Row(c))',
         day' = day, NEW status \in Nat, status # 429, NEW whole \in BOOLEAN,
         Answered(c, status, whole)
  PROVE  IInv'
<1>0. PICK r \in Calls : r = Row(c) /\ r[1] = c
  <2>1. Row(c)[1] = c
    BY DEF Row
  <2> QED BY <2>1
<1>1. PICK n : Closing(c, n, status, whole) /\ chat' = [chat EXCEPT ![c] = n]
  BY AnsweredFacts
<1>2. chat \in [Chats -> ChatSet] /\ Shape /\ RowsInv /\ SpendInv /\ TypeOK
  BY DEF IInv, Shape
<1>3. chat'[c] = n /\ \A d \in Chats \ {c} : chat'[d] = chat[d]
  BY <1>1, <1>2
<1>4. Settles(r) /\ RowInv(r)'
  <2>1. RowInv(Row(c))' <=> RowInv(r)'
    <3>1. Row(c)' = r
      BY <1>0, <1>1, <1>3 DEF Row, Using, Closing
    <3> QED BY <3>1 DEF RowInv
  <2> QED BY <2>1, <1>0
<1>5. /\ Recorded' = Recorded /\ r \in Recorded /\ rows'[r].status \in {"completed", "uncertain"}
      /\ rows'[r].granted = rows[r].granted /\ rows'[r].provider = rows[r].provider
      /\ rows'[r].asOf = rows[r].asOf /\ rows'[r].day = rows[r].day
      /\ \A e \in Recorded \ {r} : rows'[e] = rows[e]
  BY <1>4 DEF Settles, Recorded, Open
<1>6. \A d \in Chats : RowsOf(d)' = RowsOf(d)
  BY <1>5 DEF RowsOf
<1>7. r \in RowsOf(c) /\ \A k \in RowsOf(c) : rows'[k].granted = rows[k].granted
  BY <1>0, <1>5 DEF RowsOf
<1>8. ChatInv(c)'
  BY <1>1, <1>3, <1>5, <1>6, <1>7, ClosedKeeps
<1>9. \A d \in Chats : ChatInv(d)'
  <2> TAKE d \in Chats
  <2>1. CASE d = c
    BY <2>1, <1>8
  <2>2. CASE d # c
    <3>1. ChatInv(d) /\ chat'[d] = chat[d] /\ RowsOf(d)' = RowsOf(d)
      BY <2>2, <1>3, <1>6, ChatFacts
    <3>2. \A k \in RowsOf(d) : rows'[k] = rows[k]
      BY <2>2, <1>0, <1>5 DEF RowsOf
    <3> QED BY <3>1, <3>2, OthersKeep
  <2> QED BY <2>1, <2>2
<1>10. TypeOK'
  <2>1. ASSUME NEW k \in Recorded
        PROVE  /\ rows'[k].provider \in Providers
               /\ rows'[k].asOf \in 0 .. rows'[k].day /\ rows'[k].day \in 0 .. day
    <3>1. /\ rows'[k].provider = rows[k].provider /\ rows'[k].asOf = rows[k].asOf
          /\ rows'[k].day = rows[k].day
      BY <1>5
    <3> QED BY <3>1, <1>2 DEF TypeOK
  <2>2. ASSUME NEW d \in Chats
        PROVE  /\ chat'[d].asOf \in 0 .. day /\ chat'[d].window \in 0 .. day
               /\ chat'[d].todo \subseteq Providers /\ (Active(d)' => chat'[d].todo # {})
    <3>1. CASE d = c
      <4>1. /\ chat'[d].asOf = 0 /\ chat'[d].window = 0 /\ chat'[d].todo \subseteq Providers
            /\ ~ Active(d)' /\ day \in 0 .. MaxDay
        BY <3>1, <1>1, <1>3, ChatFacts DEF Closing, Active
      <4> QED BY <4>1, LedgerAssumption
    <3>2. CASE d # c
      BY <3>2, <1>3, ChatFacts DEF Active
    <3> QED BY <3>1, <3>2
  <2>3. day' \in 0 .. MaxDay
    BY <1>2 DEF TypeOK
  <2> QED BY <2>1, <2>2, <2>3, <1>5 DEF TypeOK
<1>11. Shape'
  <2>1. chat' \in [Chats -> ChatSet]
    BY <1>1, <1>2 DEF Closing
  <2> QED BY <2>1, <1>10 DEF Shape, RowsTyped
<1>12. RowsInv'
  <2>1. ASSUME NEW k \in Recorded PROVE RowInv(k)'
    <3>1. CASE k = r
      BY <3>1, <1>4
    <3>2. CASE k # r
      <4>1. rows'[k] = rows[k] /\ RowInv(k)
        BY <3>2, <1>2, <1>5 DEF RowsInv
      <4> QED BY <4>1 DEF RowInv
    <3> QED BY <3>1, <3>2
  <2> QED BY <2>1, <1>5 DEF RowsInv
<1>13. SpendInv'
  BY <1>2, <1>4, SettleKeepsCaps
<1> QED BY <1>9, <1>11, <1>12, <1>13 DEF IInv

\* A thread goes on with its candidate and the ledger stays.
LEMMA MoveKeeps ==
  ASSUME IInv, NEW c \in Chats, Active(c), NEW n \in ChatSet, chat' = [chat EXCEPT ![c] = n],
         UNCHANGED ledger, n.asOf \in 0 .. day, n.window \in 0 .. day,
         n.body = chat[c].body, n.todo = chat[c].todo, n.using = chat[c].using,
         n.status = chat[c].status, n.whole = chat[c].whole, n.pc # "done",
         n.pc \in {"new", "next", "identified", "reserve"} => RowsOf(c) = {},
         n.pc \in {"sent", "document", "stream"} => RowsOf(c) \subseteq {Row(c)}
  PROVE  IInv'
<1>1. ChatInv(c) /\ rows' = rows /\ chat \in [Chats -> ChatSet]
  BY ChatFacts DEF ledger, IInv, Shape
<1>2. chat'[c] = n /\ RowsOf(c)' = RowsOf(c)
  BY <1>1 DEF RowsOf, Recorded
<1>3. Row(c)' = Row(c) /\ Using(c)' = Using(c)
  BY <1>2 DEF Row, Using
<1>4. UsingInv(c)'
  BY <1>1, <1>2, <1>3 DEF ChatInv, UsingInv
<1>5. CallInv(c)'
  BY <1>1, <1>2, <1>3 DEF ChatInv, CallInv
<1>6. chat[c].status = 0 /\ chat[c].whole = FALSE
  BY <1>1 DEF ChatInv, AnswerInv, Active
<1>7. AnswerInv(c)'
  BY <1>2, <1>6 DEF AnswerInv
<1>8. ChatInv(c)'
  BY <1>1, <1>2, <1>4, <1>5, <1>7 DEF ChatInv
<1>9. n.todo # {}
  BY ChatFacts
<1> QED BY <1>8, <1>9, ThreadKeeps

\* A thread at work has a call to make.
LEMMA CallOf ==
  ASSUME IInv, NEW c \in Chats, Active(c)
  PROVE  /\ Row(c) \in Calls /\ Row(c)[1] = c /\ Row(c)[2] = Using(c)
         /\ Using(c) \in Providers /\ Using(c) \in chat[c].todo /\ chat[c].body \in Bodies
         /\ chat[c].todo \in SUBSET Providers /\ chat[c].todo # {}
<1>1. Using(c) \in chat[c].todo /\ chat[c].body \in Bodies /\ chat[c].todo \subseteq Providers
  BY ChatFacts DEF ChatInv, UsingInv
<1>2. Row(c) \in Chats \X Providers /\ Row(c)[1] = c /\ Row(c)[2] = Using(c)
  BY <1>1 DEF Row
<1> QED BY <1>1, <1>2, FacadeAssumption, ChatFacts

-----------------------------------------------------------------------------
(* The actions up to the reservation                                       *)

LEMMA TurnedKeeps ==
  ASSUME IInv, NEW c \in Chats, Turned(c)
  PROVE  IInv'
<1>0. PICK none \in Nat : none = 0
  OBVIOUS
<1>1. Answered(c, none, FALSE) /\ UNCHANGED ledger /\ none # 429
  BY <1>0 DEF Turned, Answered, Set
<1> QED BY <1>1, AnsweredKeeps

LEMMA PrepareKeeps ==
  ASSUME IInv, NEW c \in Chats, NEW b \in Bodies, NEW ready \in SUBSET Providers,
         Prepare(c, b, ready)
  PROVE  IInv'
<1>1. At(c, "new") /\ UNCHANGED ledger
  BY DEF Prepare
<1>2. ChatInv(c) /\ RowsOf(c) = {} /\ chat \in [Chats -> ChatSet] /\ rows' = rows
  BY <1>1, ChatFacts DEF ChatInv, CallInv, At, IInv, Shape, ledger
<1>3. CASE Acceptable(b) /\ ready # {}
  <2>1. PICK p \in Providers : /\ p = FirstOf(b, ready) /\ p \in ready
                               /\ \A q \in ready : Asked(b, p).cost <= Asked(b, q).cost
    BY <1>3, FirstFacts
  <2>2. PICK n : n = [Idle EXCEPT !.pc = "next", !.body = b, !.todo = ready, !.using = p]
    OBVIOUS
  <2>3. 0 \in 0 .. MaxDay /\ 0 \in 0 .. day
    BY ChatFacts, LedgerAssumption
  <2>4. n = [pc |-> "next", body |-> b, todo |-> ready, using |-> p, window |-> 0, asOf |-> 0,
             seen |-> 0, usage |-> NoUsage, status |-> 0, whole |-> FALSE]
    BY <2>2 DEF Idle
  <2>5. n \in ChatSet
    BY <2>3, <2>4 DEF ChatSet
  <2>6. chat' = [chat EXCEPT ![c] = n]
    BY <1>3, <2>1, <2>2 DEF Prepare, Set
  <2>7. chat'[c] = n /\ RowsOf(c)' = {}
    BY <1>2, <2>6 DEF RowsOf, Recorded
  <2>8. UsingInv(c)' /\ CallInv(c)' /\ AnswerInv(c)'
    BY <2>1, <2>4, <2>7 DEF UsingInv, Using, CallInv, AnswerInv
  <2>9. ChatInv(c)'
    BY <2>7, <2>8 DEF ChatInv
  <2>10. n.asOf \in 0 .. day /\ n.window \in 0 .. day /\ n.todo # {}
    BY <1>3, <2>3, <2>4
  <2> QED BY <1>1, <2>5, <2>6, <2>9, <2>10, ThreadKeeps
<1>4. CASE ~ (Acceptable(b) /\ ready # {})
  <2>1. PICK status \in Nat : status = IF Acceptable(b) THEN 503 ELSE 400
    <3>1. (IF Acceptable(b) THEN 503 ELSE 400) \in Nat
      OBVIOUS
    <3> QED BY <3>1
  <2>2. Answered(c, status, FALSE)
    BY <1>4, <2>1 DEF Prepare, Answered, Set
  <2>3. status # 429
    BY <2>1
  <2> QED BY <1>1, <2>2, <2>3, AnsweredKeeps
<1> QED BY <1>3, <1>4

LEMMA IdentifyKeeps ==
  ASSUME IInv, NEW c \in Chats, Identify(c)
  PROVE  IInv'
<1>1. PICK n : n = [chat[c] EXCEPT !.pc = "identified", !.window = day]
  OBVIOUS
<1>2. /\ chat[c] \in ChatSet /\ day \in 0 .. MaxDay /\ chat[c].asOf \in 0 .. day
      /\ ChatInv(c) /\ chat[c].pc = "next"
  BY ChatFacts DEF Identify, At
<1>3. n \in ChatSet
  BY <1>1, <1>2 DEF ChatSet
<1>4. /\ n.pc = "identified" /\ n.window = day /\ n.asOf = chat[c].asOf
      /\ n.body = chat[c].body /\ n.todo = chat[c].todo /\ n.using = chat[c].using
      /\ n.status = chat[c].status /\ n.whole = chat[c].whole
  BY <1>1, <1>2 DEF ChatSet
<1>5. RowsOf(c) = {} /\ Active(c)
  BY <1>2 DEF ChatInv, CallInv, Active
<1>6. chat' = [chat EXCEPT ![c] = n] /\ UNCHANGED ledger
  BY <1>1 DEF Identify, Set
<1>7. n.window \in 0 .. day /\ n.asOf \in 0 .. day
  BY <1>2, <1>4
<1> QED BY <1>3, <1>4, <1>5, <1>6, <1>7, MoveKeeps

LEMMA SampleKeeps ==
  ASSUME IInv, NEW c \in Chats, Sample(c)
  PROVE  IInv'
<1>1. PICK n : n = [chat[c] EXCEPT !.pc = "reserve", !.asOf = day]
  OBVIOUS
<1>2. /\ chat[c] \in ChatSet /\ day \in 0 .. MaxDay /\ chat[c].window \in 0 .. day
      /\ ChatInv(c) /\ chat[c].pc = "identified"
  BY ChatFacts DEF Sample, At
<1>3. n \in ChatSet
  BY <1>1, <1>2 DEF ChatSet
<1>4. /\ n.pc = "reserve" /\ n.asOf = day /\ n.window = chat[c].window
      /\ n.body = chat[c].body /\ n.todo = chat[c].todo /\ n.using = chat[c].using
      /\ n.status = chat[c].status /\ n.whole = chat[c].whole
  BY <1>1, <1>2 DEF ChatSet
<1>5. RowsOf(c) = {} /\ Active(c)
  BY <1>2 DEF ChatInv, CallInv, Active
<1>6. chat' = [chat EXCEPT ![c] = n] /\ UNCHANGED ledger
  BY <1>1 DEF Sample, Set
<1>7. n.window \in 0 .. day /\ n.asOf \in 0 .. day
  BY <1>2, <1>4
<1> QED BY <1>3, <1>4, <1>5, <1>6, <1>7, MoveKeeps

\* The next candidate is the first of those that are left.
LEMMA BudgetBlockKeeps ==
  ASSUME IInv, NEW c \in Chats, BudgetBlock(c)
  PROVE  IInv'
<1>1. chat[c].pc = "reserve" /\ UNCHANGED ledger /\ Active(c)
  BY DEF BudgetBlock, At, Active
<1>2. /\ ChatInv(c) /\ RowsOf(c) = {} /\ chat \in [Chats -> ChatSet] /\ rows' = rows
      /\ chat[c] \in ChatSet /\ chat[c].status = 0 /\ chat[c].whole = FALSE
  BY <1>1, ChatFacts DEF ChatInv, CallInv, AnswerInv, IInv, Shape, ledger
<1>3. CASE chat[c].todo = {Using(c)}
  <2>0. PICK status \in Nat : status = 429
    OBVIOUS
  <2>1. Answered(c, status, FALSE)
    BY <1>3, <2>0 DEF BudgetBlock, Answered, Set
  <2> QED BY <1>1, <1>2, <2>1, AnsweredKeeps
<1>4. CASE chat[c].todo # {Using(c)}
  <2>1. PICK b \in Bodies : b = chat[c].body
    BY <1>1, CallOf
  <2>2. PICK left \in SUBSET Providers : left = chat[c].todo \ {Using(c)} /\ left # {}
    <3>1. Using(c) \in chat[c].todo /\ chat[c].todo \in SUBSET Providers
      BY <1>1, CallOf
    <3>2. chat[c].todo \ {Using(c)} # {}
      BY <1>4, <3>1
    <3>3. chat[c].todo \ {Using(c)} \in SUBSET Providers
      BY <3>1
    <3> QED BY <3>2, <3>3
  <2>3. PICK p \in Providers : /\ p = FirstOf(b, left) /\ p \in left
                               /\ \A q \in left : Asked(b, p).cost <= Asked(b, q).cost
    BY <2>2, FirstFacts
  <2>4. PICK n : n = [chat[c] EXCEPT !.pc = "next", !.todo = left, !.using = p]
    OBVIOUS
  <2>5. n \in ChatSet
    BY <1>2, <2>4 DEF ChatSet
  <2>6. /\ n.pc = "next" /\ n.todo = left /\ n.using = p /\ n.body = b
        /\ n.window = chat[c].window /\ n.asOf = chat[c].asOf /\ n.status = 0 /\ n.whole = FALSE
    BY <1>2, <2>1, <2>4 DEF ChatSet
  <2>7. chat' = [chat EXCEPT ![c] = n]
    BY <1>4, <2>1, <2>2, <2>3, <2>4 DEF BudgetBlock, Set, NextCandidate
  <2>8. chat'[c] = n /\ RowsOf(c)' = {}
    BY <1>2, <2>7 DEF RowsOf, Recorded
  <2>9. UsingInv(c)' /\ CallInv(c)' /\ AnswerInv(c)'
    BY <2>3, <2>6, <2>8 DEF UsingInv, Using, CallInv, AnswerInv
  <2>10. ChatInv(c)'
    BY <2>8, <2>9 DEF ChatInv
  <2>11. n.asOf \in 0 .. day /\ n.window \in 0 .. day /\ n.todo # {}
    BY <2>2, <2>6, ChatFacts
  <2> QED BY <1>1, <2>5, <2>7, <2>10, <2>11, ThreadKeeps
<1> QED BY <1>3, <1>4

LEMMA LedgerDownKeeps ==
  ASSUME IInv, NEW c \in Chats, LedgerDown(c)
  PROVE  IInv'
<1>0. PICK status \in Nat : status = 503
  OBVIOUS
<1>1. Answered(c, status, FALSE) /\ UNCHANGED ledger /\ status # 429
  BY <1>0 DEF LedgerDown, Answered, Set
<1> QED BY <1>1, AnsweredKeeps

\* reserve: the chat has its one call, with the candidate in use.
LEMMA ReserveChatKeeps ==
  ASSUME IInv, NEW c \in Chats, ReserveChat(c)
  PROVE  IInv'
<1>1. chat[c].pc = "reserve" /\ Active(c)
  BY DEF ReserveChat, At, Active
<1>2. PICK p \in Providers : p = Using(c) /\ p \in chat[c].todo
  BY <1>1, CallOf
<1>3. PICK k \in Calls : k = Row(c) /\ k[1] = c /\ k[2] = p
  BY <1>1, <1>2, CallOf
<1>4. PICK b \in Bodies : b = chat[c].body
  BY <1>1, CallOf
<1>5. PICK use \in Uses : use = Asked(b, p) /\ use.cost = Cost(use, PriceOf[p])
  BY AskedFacts
<1>6. PICK m \in Missions : m = chat[c].window
  <2>1. chat[c].window \in 0 .. MaxDay
    BY ChatFacts DEF ChatSet
  <2> QED BY <2>1, FacadeAssumption
<1>7. PICK d \in Nat : d = chat[c].asOf /\ d \in 0 .. day
  BY ChatFacts
<1>8. Reserve(k, k, m, p, use, d)
  BY <1>2, <1>3, <1>4, <1>5, <1>6, <1>7 DEF ReserveChat
<1>9. Shape /\ RowsInv /\ SpendInv /\ TypeOK /\ chat \in [Chats -> ChatSet]
  BY DEF IInv, Shape
<1>10. Adds(k, m, p, use, d) /\ RowsTyped' /\ day' = day
  BY <1>8, <1>9, ReserveAdds
<1>11. BudgetAllows(k, m, p, use, d)
  BY <1>8 DEF Reserve
<1>12. SpendInv'
  BY <1>9, <1>10, <1>11, ReserveKeepsCaps
<1>13. PICK n : n = [chat[c] EXCEPT !.pc = "sent", !.window = 0, !.asOf = 0]
  OBVIOUS
<1>14. /\ chat[c] \in ChatSet /\ ChatInv(c) /\ day \in 0 .. MaxDay
       /\ 0 \in 0 .. MaxDay /\ 0 \in 0 .. day
  BY ChatFacts, LedgerAssumption
<1>15. n \in ChatSet
  BY <1>13, <1>14 DEF ChatSet
<1>16. /\ n.pc = "sent" /\ n.window = 0 /\ n.asOf = 0 /\ n.body = b
       /\ n.todo = chat[c].todo /\ n.using = p /\ n.status = chat[c].status
       /\ n.whole = chat[c].whole
  BY <1>2, <1>4, <1>13, <1>14 DEF ChatSet, Using
<1>17. chat' = [chat EXCEPT ![c] = n]
  BY <1>13 DEF ReserveChat, Set
<1>18. chat'[c] = n /\ \A e \in Chats \ {c} : chat'[e] = chat[e]
  BY <1>9, <1>17
<1>19. Recorded' = Recorded \cup {k} /\ \A e \in Recorded : rows'[e] = rows[e]
  BY <1>10 DEF Adds
<1>20. RowsOf(c) = {} /\ chat[c].status = 0 /\ chat[c].whole = FALSE
  BY <1>1, <1>14 DEF ChatInv, CallInv, AnswerInv
<1>21. RowsOf(c)' = {k}
  BY <1>3, <1>19, <1>20 DEF RowsOf
<1>22. ChatInv(c)'
  <2>1. Row(c)' = k /\ Using(c)' = p
    BY <1>2, <1>3, <1>16, <1>18 DEF Row, Using
  <2>2. \A q \in chat[c].todo : use.cost <= Asked(b, q).cost
    BY <1>1, <1>2, <1>4, <1>5, <1>14 DEF ChatInv, UsingInv
  <2>3. UsingInv(c)'
    BY <2>1, <2>2, <1>2, <1>5, <1>16, <1>18 DEF UsingInv
  <2>4. CallInv(c)'
    BY <2>1, <1>16, <1>18, <1>21 DEF CallInv
  <2>5. AnswerInv(c)'
    BY <1>16, <1>18, <1>20 DEF AnswerInv
  <2>6. rows'[k].granted = use
    BY <1>10 DEF Adds
  <2> QED BY <2>2, <2>3, <2>4, <2>5, <2>6, <1>16, <1>18, <1>21 DEF ChatInv
<1>23. \A e \in Chats : ChatInv(e)'
  <2> TAKE e \in Chats
  <2>1. CASE e = c
    BY <2>1, <1>22
  <2>2. CASE e # c
    <3>1. ChatInv(e) /\ chat'[e] = chat[e] /\ RowsOf(e)' = RowsOf(e)
      BY <2>2, <1>3, <1>18, <1>19, ChatFacts DEF RowsOf
    <3>2. \A l \in RowsOf(e) : rows'[l] = rows[l]
      BY <1>19 DEF RowsOf
    <3> QED BY <3>1, <3>2, OthersKeep
  <2> QED BY <2>1, <2>2
<1>24. TypeOK'
  <2>1. ASSUME NEW l \in Recorded'
        PROVE  /\ rows'[l].provider \in Providers
               /\ rows'[l].asOf \in 0 .. rows'[l].day /\ rows'[l].day \in 0 .. day
    <3>1. CASE l = k
      BY <3>1, <1>7, <1>10, <1>14 DEF Adds
    <3>2. CASE l # k
      BY <3>2, <1>9, <1>19 DEF TypeOK
    <3> QED BY <3>1, <3>2
  <2>2. ASSUME NEW e \in Chats
        PROVE  /\ chat'[e].asOf \in 0 .. day /\ chat'[e].window \in 0 .. day
               /\ chat'[e].todo \subseteq Providers /\ (Active(e)' => chat'[e].todo # {})
    <3>1. CASE e = c
      BY <3>1, <1>1, <1>14, <1>16, <1>18, ChatFacts
    <3>2. CASE e # c
      BY <3>2, <1>18, ChatFacts DEF Active
    <3> QED BY <3>1, <3>2
  <2> QED BY <2>1, <2>2, <1>10, <1>14 DEF TypeOK
<1>25. Shape'
  <2>1. chat' \in [Chats -> ChatSet]
    BY <1>9, <1>15, <1>17
  <2> QED BY <2>1, <1>10, <1>24 DEF Shape, RowsTyped
<1>26. RowsInv'
  <2>1. ASSUME NEW l \in Recorded' PROVE RowInv(l)'
    <3>1. CASE l = k
      <4>1. use.input \in Nat /\ use.output \in Nat /\ use.cost \in Nat
        BY DEF Uses
      <4> QED BY <3>1, <4>1, <1>3, <1>5, <1>10 DEF Adds, RowInv
    <3>2. CASE l # k
      <4>1. rows'[l] = rows[l] /\ RowInv(l)
        BY <3>2, <1>9, <1>19 DEF RowsInv
      <4> QED BY <4>1 DEF RowInv
    <3> QED BY <3>1, <3>2
  <2> QED BY <2>1 DEF RowsInv
<1> QED BY <1>12, <1>23, <1>25, <1>26 DEF IInv

-----------------------------------------------------------------------------
(* The actions from the answer of the provider on                          *)

LEMMA KnownUse ==
  ASSUME NEW use \in Reports \cup {NoUsage}
  PROVE  Known(use) \in [input : Nat, output : Nat]
BY FacadeAssumption DEF Known

\* The chat is over, with or without its whole answer.
Closed(c, status) == \E whole \in BOOLEAN : Answered(c, status, whole)

LEMMA ClosedFacts ==
  ASSUME NEW c, NEW status, Answered(c, status, TRUE) \/ Answered(c, status, FALSE)
  PROVE  Closed(c, status)
BY Zenon DEF Closed

LEMMA UncertainKeeps ==
  ASSUME IInv, NEW c \in Chats, Active(c), NEW use \in Reports \cup {NoUsage},
         MarkUncertain(Row(c), Known(use), PriceOf[Using(c)]),
         NEW status \in Nat, status # 429, Closed(c, status)
  PROVE  IInv'
<1>0. PICK whole \in BOOLEAN : Answered(c, status, whole)
  BY DEF Closed
<1>1. PICK k \in Calls : k = Row(c) /\ k[2] = Using(c)
  BY CallOf
<1>2. PICK known \in [input : Nat, output : Nat] : known = Known(use)
  BY KnownUse
<1>3. MarkUncertain(k, known, PriceOf[k[2]])
  BY <1>1, <1>2
<1>4. Shape /\ RowsInv
  BY DEF IInv
<1>5. Settles(k) /\ RowsTyped' /\ RowInv(k)' /\ day' = day
  BY <1>3, <1>4, UncertainSettles
<1>6. Row(c)' = k
  <2>1. PICK n : Closing(c, n, status, whole) /\ chat' = [chat EXCEPT ![c] = n]
    BY <1>0, AnsweredFacts
  <2>2. chat'[c] = n
    BY <2>1, <1>4 DEF Shape
  <2> QED BY <2>1, <2>2, <1>1 DEF Closing, Row, Using
<1>7. RowInv(Row(c))'
  BY <1>5, <1>6 DEF RowInv
<1>8. Settles(Row(c)) /\ Row(c) \in Calls
  BY <1>1, <1>5
<1> QED BY <1>0, <1>5, <1>7, <1>8, SettledKeeps

LEMMA KeepReservationKeeps ==
  ASSUME IInv, NEW c \in Chats, Active(c), NEW use \in Reports \cup {NoUsage},
         NEW status \in Nat, status # 429, KeepReservation(c, use, status)
  PROVE  IInv'
<1>1. CASE /\ MarkUncertain(Row(c), Known(use), PriceOf[Using(c)])
           /\ AfterFailure(c, status)
  <2>1. MarkUncertain(Row(c), Known(use), PriceOf[Using(c)])
    BY <1>1
  <2>2. Closed(c, status)
    BY <1>1, ClosedFacts DEF AfterFailure
  <2> QED BY <2>1, <2>2, UncertainKeeps
<1>2. CASE /\ AfterFailure(c, IF At(c, "stream") THEN status ELSE 503)
           /\ UNCHANGED ledger
  <2>0. UNCHANGED ledger
    BY <1>2
  <2>1. CASE At(c, "stream")
    <3>1. Answered(c, status, FALSE)
      BY <1>2, <2>1 DEF AfterFailure, Answered, Set
    <3> QED BY <2>0, <3>1, AnsweredKeeps
  <2>2. CASE ~ At(c, "stream")
    <3>1. PICK told \in Nat : told = 503 /\ told # 429
      OBVIOUS
    <3>2. Answered(c, told, FALSE)
      BY <1>2, <2>2, <3>1 DEF AfterFailure, Answered, Set
    <3>3. told # 429
      BY <3>1
    <3> QED BY <2>0, <3>2, <3>3, AnsweredKeeps
  <2> QED BY <2>1, <2>2
<1> QED BY <1>1, <1>2 DEF KeepReservation

LEMMA UpstreamFailsKeeps ==
  ASSUME IInv, NEW c \in Chats, UpstreamFails(c)
  PROVE  IInv'
<1>1. Active(c) /\ KeepReservation(c, NoUsage, 502)
  BY DEF UpstreamFails, Active, At
<1>2. PICK status \in Nat : status = 502 /\ status # 429
  OBVIOUS
<1>3. KeepReservation(c, NoUsage, status)
  BY <1>1, <1>2
<1> QED BY <1>1, <1>2, <1>3, KeepReservationKeeps

LEMMA UpstreamAnswersKeeps ==
  ASSUME IInv, NEW c \in Chats, UpstreamAnswers(c)
  PROVE  IInv'
<1>1. PICK pc \in {"stream", "document"} :
        pc = IF chat[c].body.stream THEN "stream" ELSE "document"
  OBVIOUS
<1>2. PICK n : n = [chat[c] EXCEPT !.pc = pc]
  OBVIOUS
<1>3. /\ chat[c] \in ChatSet /\ ChatInv(c) /\ chat[c].pc = "sent"
      /\ chat[c].asOf \in 0 .. day /\ chat[c].window \in 0 .. day
  BY ChatFacts DEF UpstreamAnswers, At
<1>4. n \in ChatSet
  BY <1>2, <1>3 DEF ChatSet
<1>5. /\ n.pc = pc /\ n.window = chat[c].window /\ n.asOf = chat[c].asOf
      /\ n.body = chat[c].body /\ n.todo = chat[c].todo /\ n.using = chat[c].using
      /\ n.status = chat[c].status /\ n.whole = chat[c].whole
  BY <1>2, <1>3 DEF ChatSet
<1>6. RowsOf(c) \subseteq {Row(c)} /\ Active(c)
  BY <1>3 DEF ChatInv, CallInv, Active
<1>7. chat' = [chat EXCEPT ![c] = n] /\ UNCHANGED ledger
  BY <1>1, <1>2 DEF UpstreamAnswers, Set
<1> QED BY <1>3, <1>4, <1>5, <1>6, <1>7, MoveKeeps

\* Usage that fits is recorded, and the client gets its answer.
LEMMA CompleteKeeps ==
  ASSUME IInv, NEW c \in Chats, Active(c), NEW use \in Reports, Fits(c, use),
         Complete(Row(c), Priced(use, PriceOf[Using(c)])),
         NEW status \in Nat, status # 429, Closed(c, status)
  PROVE  IInv'
<1>0. PICK whole \in BOOLEAN : Answered(c, status, whole)
  BY DEF Closed
<1>1. PICK k \in Calls : k = Row(c) /\ k[2] = Using(c)
  BY CallOf
<1>2. use \in [input : Nat, output : Nat]
  BY FacadeAssumption
<1>3. Complete(k, Priced(use, PriceOf[k[2]])) /\ AtMost(use, rows[k].reserved)
  BY <1>1 DEF Fits
<1>4. Shape /\ RowsInv
  BY DEF IInv
<1>5. Settles(k) /\ RowsTyped' /\ RowInv(k)' /\ day' = day
  BY <1>2, <1>3, <1>4, CompleteSettles
<1>6. Row(c)' = k
  <2>1. PICK n : Closing(c, n, status, whole) /\ chat' = [chat EXCEPT ![c] = n]
    BY <1>0, AnsweredFacts
  <2>2. chat'[c] = n
    BY <2>1, <1>4 DEF Shape
  <2> QED BY <2>1, <2>2, <1>1 DEF Closing, Row, Using
<1>7. RowInv(Row(c))'
  BY <1>5, <1>6 DEF RowInv
<1>8. Settles(Row(c)) /\ Row(c) \in Calls
  BY <1>1, <1>5
<1> QED BY <1>0, <1>5, <1>7, <1>8, SettledKeeps

LEMMA DocumentKeeps ==
  ASSUME IInv, NEW c \in Chats, NEW use \in Reports \cup {NoUsage}, Document(c, use)
  PROVE  IInv'
<1>0. Active(c)
  BY DEF Document, Active, At
<1>1. PICK ok \in Nat : ok = 200 /\ ok # 429
  OBVIOUS
<1>1a. PICK fail \in Nat : fail = 502 /\ fail # 429
  OBVIOUS
<1>2. CASE /\ use # NoUsage /\ Fits(c, use)
           /\ Complete(Row(c), Priced(use, PriceOf[Using(c)]))
           /\ Answered(c, 200, TRUE)
  <2>1. use \in Reports /\ Fits(c, use)
    BY <1>2
  <2>2. Complete(Row(c), Priced(use, PriceOf[Using(c)]))
    BY <1>2
  <2>3. Answered(c, ok, TRUE)
    BY <1>1, <1>2 DEF Answered, Set
  <2>4. Closed(c, ok)
    BY <2>3, Zenon DEF Closed
  <2>5. ok # 429
    BY <1>1
  <2> QED BY <1>0, <2>1, <2>2, <2>4, <2>5, CompleteKeeps
<1>3. CASE /\ MarkUncertain(Row(c), Known(use), PriceOf[Using(c)])
           /\ Answered(c, 200, TRUE)
  <2>1. MarkUncertain(Row(c), Known(use), PriceOf[Using(c)])
    BY <1>3
  <2>2. Answered(c, ok, TRUE)
    BY <1>1, <1>3 DEF Answered, Set
  <2>3. Closed(c, ok)
    BY <2>2, Zenon DEF Closed
  <2>4. ok # 429
    BY <1>1
  <2> QED BY <1>0, <2>1, <2>3, <2>4, UncertainKeeps
<1>4. CASE KeepReservation(c, use, 502)
  <2>1. KeepReservation(c, use, fail)
    BY <1>1a, <1>4
  <2> QED BY <1>0, <1>1a, <2>1, KeepReservationKeeps
<1> QED BY <1>2, <1>3, <1>4 DEF Document

LEMMA DocumentFailsKeeps ==
  ASSUME IInv, NEW c \in Chats, DocumentFails(c)
  PROVE  IInv'
<1>1. PICK status \in {502, 503} : KeepReservation(c, NoUsage, status)
  BY DEF DocumentFails
<1>2. Active(c) /\ status \in Nat /\ status # 429
  BY DEF DocumentFails, Active, At
<1> QED BY <1>1, <1>2, KeepReservationKeeps

LEMMA StreamEventKeeps ==
  ASSUME IInv, NEW c \in Chats, NEW use \in Reports \cup {NoUsage}, StreamEvent(c, use)
  PROVE  IInv'
<1>1. PICK seen \in Nat, usage \in Reports \cup {NoUsage} :
        /\ seen = chat[c].seen + 1
        /\ usage = IF use = NoUsage THEN chat[c].usage ELSE use
  <2>1. chat[c].seen \in Nat /\ chat[c].usage \in Reports \cup {NoUsage}
    BY ChatFacts
  <2>2. PICK seen \in Nat : seen = chat[c].seen + 1
    BY <2>1
  <2>3. PICK usage \in Reports \cup {NoUsage} :
          usage = IF use = NoUsage THEN chat[c].usage ELSE use
    BY <2>1
  <2> QED BY <2>2, <2>3
<1>2. PICK n : n = [chat[c] EXCEPT !.seen = seen, !.usage = usage]
  OBVIOUS
<1>3. /\ chat[c] \in ChatSet /\ ChatInv(c) /\ chat[c].pc = "stream"
      /\ chat[c].asOf \in 0 .. day /\ chat[c].window \in 0 .. day
  BY ChatFacts DEF StreamEvent, At
<1>4. n \in ChatSet
  BY <1>2, <1>3 DEF ChatSet
<1>5. /\ n.pc = "stream" /\ n.window = chat[c].window /\ n.asOf = chat[c].asOf
      /\ n.body = chat[c].body /\ n.todo = chat[c].todo /\ n.using = chat[c].using
      /\ n.status = chat[c].status /\ n.whole = chat[c].whole
  BY <1>2, <1>3 DEF ChatSet
<1>6. RowsOf(c) \subseteq {Row(c)} /\ Active(c)
  BY <1>3 DEF ChatInv, CallInv, Active
<1>7. chat' = [chat EXCEPT ![c] = n] /\ UNCHANGED ledger
  BY <1>1, <1>2 DEF StreamEvent, Set
<1> QED BY <1>3, <1>4, <1>5, <1>6, <1>7, MoveKeeps

LEMMA StreamDoneKeeps ==
  ASSUME IInv, NEW c \in Chats, StreamDone(c)
  PROVE  IInv'
<1>0. Active(c)
  BY DEF StreamDone, Active, At
<1>1. chat[c].usage \in Reports \cup {NoUsage}
  BY ChatFacts
<1>2. PICK ok \in Nat : ok = 200 /\ ok # 429
  OBVIOUS
<1>3. Closed(c, ok) /\ ok # 429
  <2>1. Answered(c, ok, TRUE)
    BY <1>2 DEF StreamDone, Answered, Set
  <2>2. Closed(c, ok)
    BY <2>1, Zenon DEF Closed
  <2> QED BY <1>2, <2>2
<1>4. CASE chat[c].usage = NoUsage
  <2>1. MarkUncertain(Row(c), Known(chat[c].usage), PriceOf[Using(c)])
    BY <1>4, Zenon DEF StreamDone
  <2> QED BY <1>0, <1>1, <1>3, <2>1, UncertainKeeps
<1>5. CASE chat[c].usage # NoUsage
  <2>1. /\ Fits(c, chat[c].usage)
        /\ Complete(Row(c), Priced(chat[c].usage, PriceOf[Using(c)]))
    BY <1>5, Zenon DEF StreamDone
  <2>2. chat[c].usage \in Reports
    BY <1>1, <1>5
  <2> QED BY <1>0, <1>3, <2>1, <2>2, CompleteKeeps
<1> QED BY <1>4, <1>5

LEMMA StreamFailsKeeps ==
  ASSUME IInv, NEW c \in Chats, StreamFails(c)
  PROVE  IInv'
<1>1. PICK use \in Reports \cup {NoUsage} : use = chat[c].usage
  BY ChatFacts
<1>2. PICK status \in Nat : status = 200 /\ status # 429
  OBVIOUS
<1>3. KeepReservation(c, use, status) /\ Active(c)
  BY <1>1, <1>2 DEF StreamFails, Active, At
<1> QED BY <1>2, <1>3, KeepReservationKeeps

\* The process dies: the ledger stays, and the threads are gone.
LEMMA CrashKeeps ==
  ASSUME IInv, Crash
  PROVE  IInv'
<1>1. /\ rows' = rows /\ day' = day /\ chat \in [Chats -> ChatSet] /\ SpendInv /\ RowsInv
      /\ chat' = [c \in Chats |-> IF Active(c) THEN [chat[c] EXCEPT !.pc = "lost"] ELSE chat[c]]
  BY DEF Crash, ledger, IInv, Shape
<1>2. Recorded' = Recorded /\ \A c \in Chats : RowsOf(c)' = RowsOf(c)
  BY <1>1 DEF Recorded, RowsOf
<1>3. ASSUME NEW c \in Chats, Active(c)
      PROVE  /\ chat'[c] \in ChatSet /\ chat'[c].pc = "lost" /\ chat'[c].asOf = chat[c].asOf
             /\ chat'[c].window = chat[c].window /\ chat'[c].todo = chat[c].todo
             /\ chat'[c].body = chat[c].body /\ chat'[c].status = chat[c].status
             /\ chat'[c].whole = chat[c].whole
  <2>1. PICK n : n = [chat[c] EXCEPT !.pc = "lost"]
    OBVIOUS
  <2>2. chat'[c] = n /\ chat[c] \in ChatSet
    BY <1>1, <1>3, <2>1
  <2> QED BY <2>1, <2>2 DEF ChatSet
<1>4. ASSUME NEW c \in Chats, ~ Active(c) PROVE chat'[c] = chat[c] /\ chat[c] \in ChatSet
  BY <1>1, <1>4
<1>5. \A c \in Chats : ChatInv(c)'
  <2> TAKE c \in Chats
  <2>1. CASE Active(c)
    <3>1. /\ chat'[c].pc = "lost" /\ chat'[c].todo = chat[c].todo
          /\ chat'[c].body = chat[c].body /\ chat'[c].status = chat[c].status
          /\ chat'[c].whole = chat[c].whole
      BY <1>3, <2>1
    <3>2. ChatInv(c)
      BY ChatFacts
    <3>3. chat[c].status = 0 /\ chat[c].whole = FALSE
      BY <2>1, <3>2 DEF ChatInv, AnswerInv, Active
    <3>4. UsingInv(c)' /\ CallInv(c)' /\ AnswerInv(c)'
      BY <3>1, <3>2, <3>3, <1>2 DEF UsingInv, Active, ChatInv, CallInv, AnswerInv
    <3> QED BY <3>1, <3>2, <3>4, <1>1, <1>2 DEF ChatInv
  <2>2. CASE ~ Active(c)
    <3>1. ChatInv(c) /\ chat'[c] = chat[c] /\ RowsOf(c)' = RowsOf(c)
      BY <1>2, <1>4, <2>2, ChatFacts
    <3> QED BY <3>1, <1>1, OthersKeep
  <2> QED BY <2>1, <2>2
<1>6. TypeOK'
  <2>1. ASSUME NEW c \in Chats
        PROVE  /\ chat'[c].asOf \in 0 .. day /\ chat'[c].window \in 0 .. day
               /\ chat'[c].todo \subseteq Providers /\ (Active(c)' => chat'[c].todo # {})
    <3>1. CASE Active(c)
      BY <3>1, <1>3, ChatFacts
    <3>2. CASE ~ Active(c)
      BY <3>2, <1>4, ChatFacts DEF Active
    <3> QED BY <3>1, <3>2
  <2>2. TypeOK
    BY DEF IInv, Shape
  <2> QED BY <2>1, <2>2, <1>1, <1>2 DEF TypeOK
<1>7. Shape'
  <2>1. \A c \in Chats : chat'[c] \in ChatSet
    BY <1>3, <1>4
  <2>2. chat' \in [Chats -> ChatSet]
    BY <2>1, <1>1
  <2> QED BY <2>2, <1>1, <1>6 DEF Shape, IInv
<1>8. RowsInv'
  BY <1>1, <1>2 DEF RowsInv, RowInv
<1> QED BY <1>1, <1>5, <1>7, <1>8, SameRows DEF IInv

\* Midnight.
LEMMA NextDayKeeps ==
  ASSUME IInv, NextDay, UNCHANGED <<chat, faults>>
  PROVE  IInv'
<1>1. /\ rows' = rows /\ chat' = chat /\ day' = day + 1 /\ day < MaxDay
      /\ SpendInv /\ RowsInv /\ Shape /\ TypeOK
  BY DEF NextDay, IInv, Shape
<1>2. Recorded' = Recorded /\ \A c \in Chats : RowsOf(c)' = RowsOf(c)
  BY <1>1 DEF Recorded, RowsOf
<1>3. \A c \in Chats : ChatInv(c)'
  BY <1>1, <1>2, OthersKeep, ChatFacts
<1>4. day \in Nat /\ MaxDay \in Nat
  BY <1>1, LedgerAssumption DEF TypeOK
<1>5. TypeOK'
  <2>1. day' \in 0 .. MaxDay /\ 0 .. day \subseteq 0 .. day'
    BY <1>1, <1>4
  <2>2. \A c \in Chats : Active(c)' = Active(c)
    BY <1>1 DEF Active
  <2> QED BY <1>1, <1>2, <2>1, <2>2 DEF TypeOK
<1>6. Shape'
  BY <1>1, <1>5 DEF Shape
<1>7. RowsInv'
  BY <1>1, <1>2 DEF RowsInv, RowInv
<1> QED BY <1>1, <1>3, <1>6, <1>7, SameRows DEF IInv

-----------------------------------------------------------------------------
(* The theorems                                                            *)

\* Nothing is spent in an empty ledger.
LEMMA NothingSpent ==
  ASSUME Recorded = {}, SameDay = {}, SameMonth = {}
  PROVE  SpendInv
<1>1. Spent({}).tokens = 0 /\ Spent({}).cost = 0
  <2>1. ASSUME NEW w PROVE SumFunctionOnSet(w, {}) = 0
    BY SumFacts, FS_EmptySet
  <2> QED BY <2>1 DEF Spent
<1>2. ASSUME NEW C, C = {}, NEW cap, IsCap(cap) PROVE Under(C, cap)
  BY <1>1, <1>2 DEF Under, IsCap
<1>3. \A q : OfProvider(q) = {} /\ OfAccount(q) = {}
  BY DEF OfProvider, OfAccount
<1>4. \A C, d : InDay(C, d) \cap SameDay = {} /\ InMonth(C, d) \cap SameMonth = {}
  OBVIOUS
<1>5. ASSUME NEW p \in Providers, NEW d \in 0 .. MaxDay
      PROVE  /\ Under(InDay(OfProvider(p), d) \cap SameDay, ProviderBudget[p].day)
             /\ Under(InMonth(OfProvider(p), d) \cap SameMonth, ProviderBudget[p].month)
  <2>1. IsCap(ProviderBudget[p].day) /\ IsCap(ProviderBudget[p].month)
    BY LedgerAssumption
  <2> QED BY <1>2, <1>4, <2>1
<1>6. ASSUME NEW p \in Providers, NEW m \in Missions
      PROVE  Spent(OfProvider(p) \cap OfMission(m)).cost <= ProviderBudget[p].mission
  <2>1. OfProvider(p) \cap OfMission(m) = {}
    BY <1>3
  <2>2. ProviderBudget[p].mission \in Nat
    BY LedgerAssumption
  <2> QED BY <1>1, <2>1, <2>2
<1>7. ASSUME NEW a \in DOMAIN AccountBudget, NEW d \in 0 .. MaxDay
      PROVE  /\ Under(InDay(OfAccount(a), d) \cap SameDay, AccountBudget[a].day)
             /\ Under(InMonth(OfAccount(a), d) \cap SameMonth, AccountBudget[a].month)
  <2>1. IsCap(AccountBudget[a].day) /\ IsCap(AccountBudget[a].month)
    BY LedgerAssumption
  <2> QED BY <1>2, <1>4, <2>1
<1>8. ASSUME NEW a \in DOMAIN AccountBudget, NEW r \in Routes
      PROVE  Under(OfAccount(a) \cap OfRoute(r), AccountBudget[a].task)
  <2>1. OfAccount(a) \cap OfRoute(r) = {}
    BY <1>3
  <2>2. IsCap(AccountBudget[a].task)
    BY LedgerAssumption
  <2> QED BY <1>2, <2>1, <2>2
<1> QED BY <1>5, <1>6, <1>7, <1>8 DEF SpendInv

LEMMA InitIInv == Init => IInv
<1> SUFFICES ASSUME Init PROVE IInv
  OBVIOUS
<1>1. day = 0 /\ rows = [c \in Calls |-> NoRow] /\ chat = [c \in Chats |-> Idle]
  BY DEF Init, LedgerInit
<1>2. Recorded = {}
  BY <1>1 DEF Recorded, NoRow
<1>3. SpendInv
  BY <1>2, NothingSpent DEF SameDay, SameMonth
<1>4. \A c \in Chats : RowsOf(c) = {}
  BY <1>2 DEF RowsOf
<1>5. MaxDay \in Nat
  BY LedgerAssumption
<1>6. Idle \in ChatSet
  BY <1>5 DEF Idle, ChatSet
<1>7. TypeOK
  BY <1>1, <1>2, <1>5 DEF TypeOK, Idle, Active
<1>8. Shape
  BY <1>1, <1>6, <1>7 DEF Shape
<1>9. ASSUME NEW c \in Chats PROVE ChatInv(c)
  <2>1. /\ ~ Active(c) /\ chat[c].pc = "new" /\ chat[c].status = 0
        /\ chat[c].whole = FALSE
    BY <1>1 DEF Idle, Active
  <2> QED BY <1>4, <2>1 DEF ChatInv, UsingInv, CallInv, AnswerInv
<1> QED BY <1>2, <1>3, <1>8, <1>9 DEF IInv, RowsInv

LEMMA StepKeeps ==
  ASSUME IInv, NEW c \in Chats, Step(c)
  PROVE  IInv'
<1>1. CASE Identify(c) \/ Sample(c) \/ ReserveChat(c)
  BY <1>1, IdentifyKeeps, SampleKeeps, ReserveChatKeeps
<1>2. CASE BudgetBlock(c) \/ LedgerDown(c)
  BY <1>2, BudgetBlockKeeps, LedgerDownKeeps
<1>3. CASE UpstreamFails(c) \/ UpstreamAnswers(c) \/ DocumentFails(c)
  BY <1>3, UpstreamFailsKeeps, UpstreamAnswersKeeps, DocumentFailsKeeps
<1>4. ASSUME NEW use \in Reports \cup {NoUsage}, Document(c, use) \/ StreamEvent(c, use)
      PROVE  IInv'
  BY <1>4, DocumentKeeps, StreamEventKeeps
<1>5. CASE StreamDone(c) \/ StreamFails(c)
  BY <1>5, StreamDoneKeeps, StreamFailsKeeps
<1> QED BY <1>1, <1>2, <1>3, <1>4, <1>5, Zenon DEF Step

LEMMA NextIInv == IInv /\ [Next]_vars => IInv'
<1> SUFFICES ASSUME IInv, [Next]_vars PROVE IInv'
  OBVIOUS
<1>1. ASSUME NEW c \in Chats, Step(c) PROVE IInv'
  BY <1>1, StepKeeps
<1>2. ASSUME NEW c \in Chats, Turned(c) PROVE IInv'
  BY <1>2, TurnedKeeps
<1>3. ASSUME NEW c \in Chats, NEW b \in Bodies, NEW ready \in SUBSET Providers,
             Prepare(c, b, ready)
      PROVE  IInv'
  BY <1>3, PrepareKeeps
<1>4. CASE Crash
  BY <1>4, CrashKeeps
<1>5. CASE NextDay /\ UNCHANGED <<chat, faults>>
  BY <1>5, NextDayKeeps
<1>6. CASE UNCHANGED vars
  <2>1. /\ rows' = rows /\ chat' = chat /\ day' = day
        /\ SpendInv /\ RowsInv /\ Shape /\ TypeOK
    BY <1>6 DEF vars, ledger, IInv, Shape
  <2>2. Recorded' = Recorded /\ \A c \in Chats : RowsOf(c)' = RowsOf(c)
    BY <2>1 DEF Recorded, RowsOf
  <2>3. \A c \in Chats : ChatInv(c)'
    BY <2>1, <2>2, OthersKeep, ChatFacts
  <2>4. \A c \in Chats : Active(c)' = Active(c)
    BY <2>1 DEF Active
  <2>5. TypeOK'
    BY <2>1, <2>2, <2>4 DEF TypeOK
  <2>6. Shape' /\ RowsInv'
    BY <2>1, <2>2, <2>5 DEF Shape, RowsInv, RowInv
  <2> QED BY <2>1, <2>3, <2>6, SameRows DEF IInv
<1> QED BY <1>1, <1>2, <1>3, <1>4, <1>5, <1>6, Zenon DEF Next

LEMMA IInvIsEnough == IInv => SpendCapsHold /\ ChatsHold
<1> SUFFICES ASSUME IInv PROVE SpendCapsHold /\ ChatsHold
  OBVIOUS
<1>1. Shape /\ SpendInv /\ TypeOK
  BY DEF IInv, Shape
<1>2. SpendCapsHold
  <2> SUFFICES ASSUME NEW k \in Recorded
               PROVE  LET p == rows[k].provider
                          a == AccountOf[p]
                          d == rows[k].day
                      IN /\ Under(InDay(OfProvider(p), d) \cap SameDay, ProviderBudget[p].day)
                         /\ Under(InMonth(OfProvider(p), d) \cap SameMonth, ProviderBudget[p].month)
                         /\ Spent(OfProvider(p) \cap OfMission(rows[k].mission)).cost
                              <= ProviderBudget[p].mission
                         /\ a # NoAccount =>
                              /\ Under(InDay(OfAccount(a), d) \cap SameDay, AccountBudget[a].day)
                              /\ Under(InMonth(OfAccount(a), d) \cap SameMonth, AccountBudget[a].month)
                              /\ Under(OfAccount(a) \cap OfRoute(rows[k].route), AccountBudget[a].task)
    BY DEF SpendCapsHold
  <2>1. rows[k] \in RowSet
    BY <1>1 DEF Shape, Recorded, NoRow
  <2>2. PICK p \in Providers : p = rows[k].provider
    BY <2>1 DEF RowSet
  <2>3. PICK d \in 0 .. MaxDay : d = rows[k].day
    BY <1>1, LedgerAssumption DEF TypeOK
  <2>4. PICK m \in Missions : m = rows[k].mission
    BY <2>1 DEF RowSet
  <2>5. PICK r \in Routes : r = rows[k].route
    BY <2>1, FacadeAssumption DEF RowSet
  <2>6. /\ Under(InDay(OfProvider(p), d) \cap SameDay, ProviderBudget[p].day)
        /\ Under(InMonth(OfProvider(p), d) \cap SameMonth, ProviderBudget[p].month)
        /\ Spent(OfProvider(p) \cap OfMission(m)).cost <= ProviderBudget[p].mission
    BY <1>1 DEF SpendInv
  <2>7. ASSUME NEW a, a = AccountOf[p], a # NoAccount
        PROVE  /\ Under(InDay(OfAccount(a), d) \cap SameDay, AccountBudget[a].day)
               /\ Under(InMonth(OfAccount(a), d) \cap SameMonth, AccountBudget[a].month)
               /\ Under(OfAccount(a) \cap OfRoute(r), AccountBudget[a].task)
    <3>1. a \in DOMAIN AccountBudget
      BY <2>7, LedgerAssumption
    <3> QED BY <1>1, <3>1 DEF SpendInv
  <2> QED BY <2>2, <2>3, <2>4, <2>5, <2>6, <2>7
<1>3. NeverSentTwice
  <2> SUFFICES ASSUME NEW c \in Chats
               PROVE  Cardinality(RowsOf(c)) <= 1 /\ (chat[c].status = 429 => RowsOf(c) = {})
    BY DEF NeverSentTwice
  <2>1. ChatInv(c)
    BY ChatFacts
  <2>2. chat[c].status = 429 => RowsOf(c) = {}
    BY <2>1 DEF ChatInv, AnswerInv
  <2>3. \A k, l \in RowsOf(c) : k = l
    BY <2>1 DEF ChatInv, CallInv
  <2>4. CASE RowsOf(c) = {}
    BY <2>2, <2>4, FS_EmptySet
  <2>5. CASE RowsOf(c) # {}
    <3>1. PICK k : RowsOf(c) = {k}
      BY <2>3, <2>5
    <3>2. Cardinality(RowsOf(c)) = 1
      BY <3>1, FS_Singleton
    <3> QED BY <2>2, <3>2
  <2> QED BY <2>4, <2>5
<1>4. DeliveredIsAccounted
  BY ChatFacts DEF DeliveredIsAccounted, ChatInv, AnswerInv
<1>5. CheapestAsked
  BY ChatFacts DEF CheapestAsked, ChatInv
<1> QED BY <1>1, <1>2, <1>3, <1>4, <1>5 DEF ChatsHold

\* Whatever the chats reserve at once, settle late or leave open, tokens and costs
\* stay under the caps of providers, accounts, missions and routes (reserve, complete
\* and mark_uncertain of budget.py as the façade calls them), but for reservations
\* that passed midnight and usage beyond what was reserved for a call.
THEOREM SpendingStaysUnderCaps == Spec => []SpendCapsHold
<1>1. Spec => []IInv
  BY InitIInv, NextIInv, PTL DEF Spec
<1> QED BY <1>1, IInvIsEnough, PTL

\* A chat is sent to one provider at most, the cheapest whose budget admits it, never
\* after a 429, and a client with the whole of its answer finds its chat in the ledger
\* (dispatch and the settling of documents and streams of hermes_facade.py).
THEOREM ChatsAreSound == Spec => []ChatsHold
<1>1. Spec => []IInv
  BY InitIInv, NextIInv, PTL DEF Spec
<1> QED BY <1>1, IInvIsEnough, PTL
=============================================================================
