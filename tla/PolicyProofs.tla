---------------------------- MODULE PolicyProofs ----------------------------
(***************************************************************************)
(* Proofs about LocalPromotion, for any models, scenarios, repetitions,    *)
(* temperatures, campaigns, interruptions and exchanged files; about       *)
(* ModelAdmission and ProviderFinance, for any files, edits, callers,      *)
(* accounts and answers; and about the pure rules: those of admission, and *)
(* the policies of the orchestrator, the broker and the memory.            *)
(***************************************************************************)
EXTENDS MCPolicies, FiniteSetTheorems, SequenceTheorems, WellFoundedInduction, NaturalsInduction, TLAPS

Places == DOMAIN Candidates

ResultRows ==
  [model : Models, eligible : BOOLEAN,
   status : {"not_installed", "disabled", "interrupted", "completed"}]

States == {"disabled", "missing", "installed", "large"}

\* A request that is judged: a repetition and a scenario.
Judged == (1 .. MeasuredRuns) \X Scenarios

Totals == {Cardinality(s) : s \in SUBSET Models}
Inventory == UNION {[s -> States] : s \in SUBSET Models}
Runs == UNION {[d -> Shown] : d \in SUBSET Judged}

\* The campaign between two candidates, and with one of them at work.
Between ==
  [at : {"next"}, left : SUBSET Places, total : Totals, found : Inventory,
   results : Seq(ResultRows), lost : BOOLEAN]

Measuring ==
  [at : {"cool", "ask", "unload"}, left : SUBSET Places, total : Totals, found : Inventory,
   results : Seq(ResultRows), lost : {FALSE}, calm : Nat, polls : Int, seen : Seq(Readings),
   calls : SUBSET Calls, runs : Runs, warm : BOOLEAN]

BenchTypeOK == bench = Idle \/ bench \in Between \cup Measuring

\* A model has its result or its turn is still to come, never both; one that is
\* called eligible is none of the spoiled models, sp.
ResultsInv(b, sp) ==
  \A i \in 1 .. Len(b.results) :
    /\ \A k \in b.left : Candidates[k] # b.results[i].model
    /\ b.results[i].eligible => b.results[i].model \notin sp

\* What went wrong with the model at work is on its record.
Noted(b) == b.warm = FALSE \/ \E c \in DOMAIN b.runs : b.runs[c] \notin {"pass", "blind"}

TurnInv(b, sp) ==
  /\ b.left # {} /\ b.found[Candidates[Turn(b)]] \in {"installed", "large"}
  /\ \A k \in b.left : Candidates[k] \in sp => k = Turn(b) /\ Noted(b)
  /\ DOMAIN b.runs \cap b.calls = {}

\* The wait remembers the readings it counts.
CoolInv(b) ==
  /\ b.at = "cool" =>
       /\ b.calm < StableSamples /\ b.calm <= Len(b.seen) /\ Len(b.seen) <= StableSamples
       /\ \A i \in 1 .. Len(b.seen) : i > Len(b.seen) - b.calm => b.seen[i] = "cool"
  /\ b.at = "ask" => Simulated \/ b.seen = [i \in 1 .. StableSamples |-> "cool"]

\* No model whose turn is to come is spoiled.
NextInv(b, sp) ==
  /\ b.lost => b.left = {}
  /\ \A k \in b.left : Candidates[k] \notin sp

BenchInv ==
  /\ bench.at # "idle" => /\ ResultsInv(bench, spoiled)
                          /\ started \in 1 .. MaxCampaigns /\ truth[started] = {}
  /\ bench.at = "next" => NextInv(bench, spoiled)
  /\ bench.at \in {"cool", "ask", "unload"} => TurnInv(bench, spoiled) /\ CoolInv(bench)

FilesInv ==
  /\ started \in 0 .. MaxCampaigns
  /\ simulations \subseteq 1 .. started
  /\ DOMAIN reports = Files /\ DOMAIN truth = 1 .. MaxCampaigns
  /\ \A i \in 1 .. MaxCampaigns : i > started => truth[i] = {}
  /\ \A i \in Files : reports[i].kind = "report" => reports[i].generated \in 1 .. started
  /\ registry # NoRecord => registry.report \in Files

\* What EligibleIsMeasured says of one report.
ReportHolds(r) ==
  /\ {q.model : q \in {p \in Range(r.models) : p.eligible}} \union r.eligible
       \subseteq truth[r.generated]
  /\ r.simulated <=> r.generated \in simulations

IInv == BenchTypeOK /\ BenchInv /\ FilesInv /\ EligibleIsMeasured

LEMMA EligibleByReport ==
  EligibleIsMeasured <=> \A i \in Files : reports[i].kind = "report" => ReportHolds(reports[i])
BY DEF EligibleIsMeasured, ReportHolds

-----------------------------------------------------------------------------
(* The operators                                                           *)

\* A set of positions that is not empty has a first one.
LEMMA MinIsIn ==
  ASSUME NEW S \in SUBSET Nat, S # {}
  PROVE  Min(S) \in S /\ \A y \in S : Min(S) <= y
<1> DEFINE R == {p \in Nat \X Nat : p[1] < p[2]}
<1>1. IsWellFoundedOn(R, Nat)
  BY NatLessThanWellFounded DEF OpToRel
<1>2. PICK x \in S : \A y \in S : <<y, x>> \notin R
  BY <1>1, WFMin
<1>3. ASSUME NEW y \in S, ~ (x <= y) PROVE FALSE
  <2>1. PICK pair \in Nat \X Nat : pair = <<y, x>>
    OBVIOUS
  <2>2. pair[1] = y /\ pair[2] = x
    BY <2>1
  <2>3. pair \in R
    BY <1>3, <2>2
  <2> QED BY <1>2, <2>1, <2>3
<1> QED BY <1>3 DEF Min

\* The larger and the smaller of two numbers.
LEMMA OfTwo ==
  ASSUME NEW a \in Int, NEW b \in Int
  PROVE  /\ a >= b => Max({a, b}) = a
         /\ b >= a => Max({a, b}) = b
         /\ Min({a, b}) \in Int
<1>1. \A x, y \in {a, b} : x >= y /\ y >= x => x = y
  OBVIOUS
<1>2. a >= b => Max({a, b}) = a
  BY DEF Max
<1>3. b >= a => Max({a, b}) = b
  BY DEF Max
<1>4. Min({a, b}) \in {a, b}
  BY DEF Min
<1> QED BY <1>2, <1>3, <1>4

LEMMA PlaceModels ==
  /\ Places = 1 .. Len(Candidates) /\ Places \subseteq Nat
  /\ \A k \in Places : Candidates[k] \in Models
  /\ \A j, k \in Places : Candidates[j] = Candidates[k] => j = k
BY CampaignAssumption DEF Places, Models, Range, IsInjective

\* The turn is that of a model that is left.
LEMMA TurnIsLeft ==
  ASSUME NEW b, b.left \subseteq Places, b.left # {}
  PROVE  Turn(b) \in b.left /\ Turn(b) \in Places /\ Candidates[Turn(b)] \in Models
BY PlaceModels, MinIsIn DEF Turn

-----------------------------------------------------------------------------
(* The result of a candidate                                               *)

\* What passes the gate had neither a bad run nor a bad warm-up.
LEMMA GateIsClean ==
  ASSUME NEW b, b.runs \in Runs, b.warm \in BOOLEAN, NEW size,
         GateModel("completed", size, b.runs), b.warm = TRUE
  PROVE  ~ Noted(b) /\ size # "large"
<1>1. PICK d \in SUBSET Judged : b.runs \in [d -> Shown]
  BY DEF Runs
<1>2. ASSUME NEW c \in DOMAIN b.runs PROVE b.runs[c] \in {"pass", "blind"}
  <2>1. c \in Judged /\ c[2] \in Scenarios
    BY <1>1 DEF Judged
  <2>2. b.runs[c] \in {"pass", "over", "blind"}
    BY <2>1 DEF GateModel, AllPassed
  <2> QED BY <2>2 DEF GateModel
<1> QED BY <1>2 DEF Noted, GateModel

\* Closed adds one result, and the model at work is no more among those left.
LEMMA ClosedKeeps ==
  ASSUME NEW b, b.left \in SUBSET Places, b.left # {}, b.total \in Totals, b.found \in Inventory,
         b.results \in Seq(ResultRows), b.lost \in BOOLEAN, b.warm \in BOOLEAN,
         NEW unloaded \in BOOLEAN, NEW sp, NEW sp2,
         ResultsInv(b, sp),
         \A k \in b.left : Candidates[k] \in sp => k = Turn(b),
         sp2 \subseteq sp \cup {Candidates[Turn(b)]},
         /\ b.lost = FALSE /\ unloaded = TRUE /\ b.warm = TRUE
         /\ GateModel("completed", b.found[Candidates[Turn(b)]], b.runs)
         => Candidates[Turn(b)] \notin sp2
  PROVE  /\ Closed(b, unloaded) \in Between
         /\ ResultsInv(Closed(b, unloaded), sp2)
         /\ NextInv(Closed(b, unloaded), sp2)
<1> DEFINE m == Candidates[Turn(b)]
           status == IF b.lost THEN "interrupted" ELSE "completed"
           gate == GateModel(status, b.found[m], b.runs) /\ b.warm /\ unloaded
           rest == IF b.lost THEN {} ELSE b.left \ {Turn(b)}
<1>0. Turn(b) \in b.left /\ m \in Models
  BY TurnIsLeft
<1>1. gate \in BOOLEAN
  BY DEF GateModel
<1>2. PICK e \in BOOLEAN : e = gate
  BY <1>1
<1>3. e => m \notin sp2
  <2>1. CASE b.lost
    BY <2>1, <1>2 DEF GateModel
  <2>2. CASE ~ b.lost
    BY <2>2, <1>2
  <2> QED BY <2>1, <2>2
<1>4. PICK r : r = [model |-> m, status |-> status, eligible |-> e]
  OBVIOUS
<1>5. r \in ResultRows /\ r.model = m /\ r.eligible = e
  BY <1>0, <1>4 DEF ResultRows
<1>6. PICK rs : rs = Append(b.results, r)
  OBVIOUS
<1>7. rs \in Seq(ResultRows) /\ Len(rs) = Len(b.results) + 1
  BY <1>5, <1>6
<1>7a. \A i \in 1 .. Len(rs) : rs[i] = IF i <= Len(b.results) THEN b.results[i] ELSE r
  BY <1>5, <1>6
<1>8. PICK left : left = rest
  OBVIOUS
<1>9. left \subseteq b.left /\ left \subseteq b.left \ {Turn(b)} /\ (b.lost => left = {})
  BY <1>8
<1>10. Closed(b, unloaded) = [at |-> "next", left |-> left, total |-> b.total,
         found |-> b.found, results |-> rs, lost |-> b.lost]
  BY <1>2, <1>4, <1>6, <1>8 DEF Closed
<1>11. PICK d : d = [at |-> "next", left |-> left, total |-> b.total,
         found |-> b.found, results |-> rs, lost |-> b.lost]
  OBVIOUS
<1>12. d \in Between
  BY <1>7, <1>9, <1>11 DEF Between
<1>13. d.left = left /\ d.results = rs /\ d.lost = b.lost
  BY <1>11
<1>14. \A k \in left : Candidates[k] # m
  BY <1>0, <1>9, PlaceModels
<1>15. NextInv(d, sp2)
  BY <1>9, <1>13, <1>14 DEF NextInv
<1>16. ResultsInv(d, sp2)
  <2> SUFFICES ASSUME NEW i \in 1 .. Len(rs)
               PROVE  /\ \A k \in left : Candidates[k] # rs[i].model
                      /\ rs[i].eligible => rs[i].model \notin sp2
    BY <1>13 DEF ResultsInv
  <2>1. CASE i <= Len(b.results)
    <3>1. i \in 1 .. Len(b.results) /\ rs[i] = b.results[i]
      BY <2>1, <1>7, <1>7a
    <3>2. rs[i].model # m
      BY <3>1, <1>0 DEF ResultsInv
    <3> QED BY <3>1, <3>2, <1>9 DEF ResultsInv
  <2>2. CASE i > Len(b.results)
    <3>1. rs[i] = r
      BY <2>2, <1>7, <1>7a
    <3> QED BY <3>1, <1>3, <1>5, <1>14
  <2> QED BY <2>1, <2>2, <1>7
<1> QED BY <1>10, <1>11, <1>12, <1>15, <1>16

-----------------------------------------------------------------------------
(* The steps of the campaign                                               *)

\* What every kind of step keeps of the files.
LEMMA FilesStay ==
  ASSUME IInv, UNCHANGED <<reports, registry, started, simulations, truth>>
  PROVE  FilesInv' /\ EligibleIsMeasured'
BY DEF IInv, FilesInv, EligibleIsMeasured

\* A step of the benchmark that leaves the files alone keeps the invariant when
\* it keeps the part about the benchmark.
LEMMA BenchStep ==
  ASSUME IInv, UNCHANGED <<reports, registry, started, simulations, truth>>, bench.at # "idle",
         BenchTypeOK', ResultsInv(bench', spoiled'),
         bench'.at = "next" => NextInv(bench', spoiled'),
         bench'.at \in {"cool", "ask", "unload"} => TurnInv(bench', spoiled') /\ CoolInv(bench')
  PROVE  IInv'
<1>1. started' \in 1 .. MaxCampaigns /\ truth'[started'] = {}
  BY DEF IInv, BenchInv
<1>2. BenchInv'
  BY <1>1 DEF BenchInv, ResultsInv, NextInv, TurnInv, CoolInv, Noted, Turn, Simulated
<1> QED BY <1>2, FilesStay DEF IInv

\* The field "at" tells the kinds of state apart.
LEMMA BenchKinds ==
  ASSUME BenchTypeOK
  PROVE  /\ bench.at = "idle" => bench = Idle
         /\ bench.at = "next" => bench \in Between
         /\ bench.at \in {"cool", "ask", "unload"} => bench \in Measuring
         /\ bench.at \in {"idle", "next", "cool", "ask", "unload"}
<1>1. Idle.at = "idle"
  BY DEF Idle
<1>2. \A b \in Between : b.at = "next"
  BY DEF Between
<1>3. \A b \in Measuring : b.at \in {"cool", "ask", "unload"}
  BY DEF Measuring
<1> QED BY <1>1, <1>2, <1>3 DEF BenchTypeOK

\* The fields of the campaign between two candidates.
LEMMA NextFields ==
  ASSUME IInv, bench.at = "next"
  PROVE  /\ bench \in Between
         /\ bench.left \subseteq Places /\ bench.total \in Totals /\ bench.found \in Inventory
         /\ bench.results \in Seq(ResultRows) /\ bench.lost \in BOOLEAN
         /\ ResultsInv(bench, spoiled) /\ NextInv(bench, spoiled)
<1>1. bench \in Between
  BY BenchKinds DEF IInv
<1> QED BY <1>1 DEF IInv, BenchInv, Between

\* The fields of the campaign while a candidate is measured.
LEMMA MeasuringFields ==
  ASSUME IInv, bench.at \in {"cool", "ask", "unload"}
  PROVE  /\ bench \in Measuring
         /\ bench.left \subseteq Places /\ bench.total \in Totals /\ bench.found \in Inventory
         /\ bench.results \in Seq(ResultRows) /\ bench.lost = FALSE
         /\ bench.calm \in Nat /\ bench.polls \in Int /\ bench.seen \in Seq(Readings)
         /\ bench.calls \subseteq Calls /\ bench.runs \in Runs /\ bench.warm \in BOOLEAN
         /\ ResultsInv(bench, spoiled) /\ TurnInv(bench, spoiled) /\ CoolInv(bench)
<1>1. bench \in Measuring
  BY BenchKinds DEF IInv
<1> QED BY <1>1 DEF IInv, BenchInv, Measuring

LEMMA SkipCandidateKeeps ==
  ASSUME IInv, SkipCandidate
  PROVE  IInv'
<1>0. Turn(bench) \in bench.left /\ Model \in Models /\ Model = Candidates[Turn(bench)]
  BY NextFields, TurnIsLeft DEF SkipCandidate, Model
<1>1. PICK status \in {"not_installed", "disabled"} :
        bench' = [bench EXCEPT !.left = @ \ {Turn(bench)},
                    !.results = Append(@, [model |-> Model, eligible |-> FALSE,
                                           status |-> status])]
  BY DEF SkipCandidate
<1>2. PICK r : r = [model |-> Model, eligible |-> FALSE, status |-> status]
  OBVIOUS
<1>3. r \in ResultRows /\ r.model = Model /\ r.eligible = FALSE
  BY <1>0, <1>2 DEF ResultRows
<1>4. PICK rs : rs = Append(bench.results, r)
  OBVIOUS
<1>5. /\ rs \in Seq(ResultRows) /\ Len(rs) = Len(bench.results) + 1
      /\ \A i \in 1 .. Len(rs) : rs[i] = IF i <= Len(bench.results) THEN bench.results[i] ELSE r
  BY <1>3, <1>4, NextFields DEF SkipCandidate
<1>6. PICK left : left = bench.left \ {Turn(bench)}
  OBVIOUS
<1>7. bench' = [bench EXCEPT !.left = left, !.results = rs]
  BY <1>1, <1>2, <1>4, <1>6
<1>8. bench' \in Between
  BY <1>5, <1>6, <1>7, NextFields DEF SkipCandidate, Between
<1>9. bench'.at = "next" /\ bench'.left = left /\ bench'.results = rs /\ bench'.lost = bench.lost
  BY <1>7, NextFields DEF SkipCandidate, Between
<1>10. spoiled' = spoiled \cup {Model}
  BY DEF SkipCandidate
<1>11. \A k \in left : Candidates[k] # Model
  BY <1>0, <1>6, PlaceModels, NextFields DEF SkipCandidate
<1>12. NextInv(bench', spoiled')
  BY <1>6, <1>9, <1>10, <1>11, NextFields DEF NextInv, SkipCandidate
<1>13. ResultsInv(bench', spoiled')
  <2> SUFFICES ASSUME NEW i \in 1 .. Len(rs)
               PROVE  /\ \A k \in left : Candidates[k] # rs[i].model
                      /\ rs[i].eligible => rs[i].model \notin spoiled'
    BY <1>9 DEF ResultsInv
  <2>1. CASE i <= Len(bench.results)
    <3>1. i \in 1 .. Len(bench.results) /\ rs[i] = bench.results[i]
      BY <2>1, <1>5, NextFields DEF SkipCandidate
    <3> QED BY <3>1, <1>0, <1>6, <1>10, NextFields DEF ResultsInv, SkipCandidate
  <2>2. CASE i > Len(bench.results)
    <3>1. rs[i] = r
      BY <2>2, <1>5, NextFields DEF SkipCandidate
    <3> QED BY <3>1, <1>3, <1>11
  <2> QED BY <2>1, <2>2, <1>5, NextFields DEF SkipCandidate
<1> QED BY <1>8, <1>9, <1>12, <1>13, BenchStep DEF SkipCandidate, BenchTypeOK

LEMMA StartCandidateKeeps ==
  ASSUME IInv, StartCandidate
  PROVE  IInv'
<1>0. Turn(bench) \in bench.left /\ Model = Candidates[Turn(bench)]
  BY NextFields, TurnIsLeft DEF StartCandidate, Model
<1>1. PICK runs : runs = [c \in {} |-> "none"]
  OBVIOUS
<1>2. runs \in [{} -> Shown] /\ DOMAIN runs = {} /\ runs \in Runs
  BY <1>1 DEF Runs
<1>3. bench.lost = FALSE
  BY NextFields DEF StartCandidate, NextInv
<1>3a. PICK at \in {"cool", "ask"} : at = BeforeCall
  BY DEF BeforeCall
<1>3b. at = "ask" => Simulated
  BY <1>3a DEF BeforeCall
<1>4. bench' = [at |-> at, left |-> bench.left, total |-> bench.total, found |-> bench.found,
               results |-> bench.results, lost |-> FALSE, calm |-> 0, polls |-> 0, seen |-> <<>>,
               calls |-> Calls, runs |-> runs, warm |-> TRUE]
  BY <1>1, <1>3, <1>3a DEF StartCandidate
<1>4a. /\ bench.left \in SUBSET Places /\ bench.total \in Totals /\ bench.found \in Inventory
       /\ bench.results \in Seq(ResultRows) /\ <<>> \in Seq(Readings) /\ Calls \in SUBSET Calls
  BY NextFields DEF StartCandidate
<1>5. bench' \in Measuring
  BY <1>2, <1>4, <1>4a DEF Measuring
<1>6. /\ bench'.at = at /\ bench'.left = bench.left /\ bench'.results = bench.results
      /\ bench'.found = bench.found /\ bench'.calm = 0 /\ bench'.seen = <<>> /\ bench'.runs = runs
  BY <1>4
<1>7. TurnInv(bench', spoiled')
  BY <1>0, <1>2, <1>6, NextFields DEF StartCandidate, TurnInv, Turn, NextInv
<1>8. CoolInv(bench')
  BY <1>3b, <1>6, CampaignAssumption DEF CoolInv
<1>9. ResultsInv(bench', spoiled')
  BY <1>6, NextFields DEF StartCandidate, ResultsInv
<1> QED BY <1>5, <1>6, <1>7, <1>8, <1>9, BenchStep DEF StartCandidate, BenchTypeOK

\* What is kept of the readings after one more.
LEMMA LastOfReadings ==
  ASSUME NEW seen \in Seq(Readings), Len(seen) <= StableSamples, NEW reading \in Readings
  PROVE  LET n == LastOf(Append(seen, reading)) IN
         /\ n \in Seq(Readings)
         /\ Len(n) = IF Len(seen) < StableSamples THEN Len(seen) + 1 ELSE StableSamples
         /\ \A i \in 1 .. Len(n) :
              LET j == i + Len(seen) + 1 - Len(n)
              IN n[i] = IF j <= Len(seen) THEN seen[j] ELSE reading
<1>0. StableSamples \in Nat /\ StableSamples > 0
  BY CampaignAssumption
<1>1. PICK r : r = Append(seen, reading)
  OBVIOUS
<1>2. /\ r \in Seq(Readings) /\ Len(r) = Len(seen) + 1
      /\ \A i \in 1 .. Len(r) : r[i] = IF i <= Len(seen) THEN seen[i] ELSE reading
  BY <1>1
<1>3. PICK from : from = Max({1, Len(r) - StableSamples + 1})
  OBVIOUS
<1>4. from = IF Len(seen) < StableSamples THEN 1 ELSE 2
  <2>1. PICK l \in Int : l = Len(r) - StableSamples + 1
    BY <1>0, <1>2
  <2>2. CASE Len(seen) < StableSamples
    <3>1. 1 >= l
      BY <2>1, <2>2, <1>0, <1>2
    <3>2. Max({1, l}) = 1
      BY <3>1, OfTwo
    <3> QED BY <3>2, <2>1, <2>2, <1>3
  <2>3. CASE ~ (Len(seen) < StableSamples)
    <3>1. l = 2
      BY <2>1, <2>3, <1>0, <1>2
    <3>2. Max({1, l}) = l
      BY <3>1, OfTwo
    <3> QED BY <3>1, <3>2, <2>1, <2>3, <1>3
  <2> QED BY <2>2, <2>3
<1>5. PICK n : n = SubSeq(r, from, Len(r))
  OBVIOUS
<1>5a. from \in 1 .. Len(r) + 1 /\ Len(r) \in Nat /\ Len(seen) \in Nat /\ from \in 1 .. 2
  BY <1>0, <1>2, <1>4
<1>6. /\ n \in Seq(Readings) /\ Len(n) = Len(r) - from + 1
      /\ \A i \in 1 .. Len(n) : n[i] = r[i + from - 1]
  BY <1>2, <1>5, <1>5a
<1>7. LastOf(Append(seen, reading)) = n
  BY <1>1, <1>3, <1>5 DEF LastOf
<1>8. Len(n) = IF Len(seen) < StableSamples THEN Len(seen) + 1 ELSE StableSamples
  BY <1>0, <1>2, <1>4, <1>6
<1>9. ASSUME NEW i \in 1 .. Len(n)
      PROVE  LET j == i + Len(seen) + 1 - Len(n)
             IN n[i] = IF j <= Len(seen) THEN seen[j] ELSE reading
  <2>1. i + Len(seen) + 1 - Len(n) = i + from - 1
    BY <1>2, <1>5a, <1>6
  <2>2. i + from - 1 \in 1 .. Len(r)
    BY <1>2, <1>5a, <1>6
  <2> QED BY <2>1, <2>2, <1>2, <1>6
<1> QED BY <1>6, <1>7, <1>8, <1>9

\* An interruption while b is measured.
LEMMA InterruptedKeeps ==
  ASSUME NEW b \in Measuring, b.left # {}, NEW sp, NEW sp2,
         ResultsInv(b, sp),
         \A k \in b.left : Candidates[k] \in sp => k = Turn(b),
         sp2 \subseteq sp \cup {Candidates[Turn(b)]}
  PROVE  /\ Interrupted(b) \in Between
         /\ ResultsInv(Interrupted(b), sp2)
         /\ NextInv(Interrupted(b), sp2)
<1>1. PICK d : d = [b EXCEPT !.lost = TRUE]
  OBVIOUS
<1>2. /\ d.left = b.left /\ d.total = b.total /\ d.found = b.found /\ d.results = b.results
      /\ d.lost = TRUE /\ d.warm = b.warm
  BY <1>1 DEF Measuring
<1>3. /\ b.left \in SUBSET Places /\ b.total \in Totals /\ b.found \in Inventory
      /\ b.results \in Seq(ResultRows) /\ b.warm \in BOOLEAN
  BY DEF Measuring
<1>4. Turn(d) = Turn(b)
  BY <1>2 DEF Turn
<1>5. ResultsInv(d, sp)
  BY <1>2 DEF ResultsInv
<1>6. Interrupted(b) = Closed(d, TRUE)
  BY <1>1 DEF Interrupted
<1>7. d.left \in SUBSET Places /\ d.left # {} /\ d.total \in Totals /\ d.found \in Inventory
  BY <1>2, <1>3
<1>8. d.results \in Seq(ResultRows) /\ d.lost \in BOOLEAN /\ d.warm \in BOOLEAN /\ d.lost # FALSE
  BY <1>2, <1>3
<1>9. \A k \in d.left : Candidates[k] \in sp => k = Turn(d)
  BY <1>2, <1>4
<1>10. sp2 \subseteq sp \cup {Candidates[Turn(d)]}
  BY <1>4
<1> QED BY <1>5, <1>6, <1>7, <1>8, <1>9, <1>10, ClosedKeeps

LEMMA CooldownKeeps ==
  ASSUME IInv, NEW reading \in Readings, Cooldown(reading)
  PROVE  IInv'
<1>0. /\ bench.at = "cool" /\ bench.at # "idle" /\ bench \in Measuring
      /\ UNCHANGED <<reports, registry, started, simulations, truth>>
  BY MeasuringFields DEF Cooldown
<1>1. bench.left # {} /\ Turn(bench) \in bench.left /\ Model = Candidates[Turn(bench)]
  BY <1>0, MeasuringFields, TurnIsLeft DEF TurnInv, Model
<1>2. DEFINE ready == reading = "cool" /\ Calm(reading) >= StableSamples
             fails == reading = "none" \/ (~ ready /\ Expired)
<1>3. CASE fails
  <2>1. bench' = Interrupted(bench) /\ spoiled' = spoiled \cup {Model}
    BY <1>3 DEF Cooldown
  <2>2. \A k \in bench.left : Candidates[k] \in spoiled => k = Turn(bench)
    BY <1>0, MeasuringFields DEF TurnInv
  <2>3. bench' \in Between /\ ResultsInv(bench', spoiled') /\ NextInv(bench', spoiled')
    BY <2>1, <2>2, <1>0, <1>1, MeasuringFields, InterruptedKeeps
  <2>4. bench'.at = "next"
    BY <2>3 DEF Between
  <2> QED BY <2>3, <2>4, <1>0, BenchStep DEF BenchTypeOK
<1>4. CASE ~ fails
  <2>1. PICK calm : calm = Calm(reading)
    OBVIOUS
  <2>2. PICK polls : polls = Min({bench.polls + 1, CooldownPolls})
    OBVIOUS
  <2>3. PICK seen : seen = LastOf(Append(bench.seen, reading))
    OBVIOUS
  <2>4. PICK at \in {"ask", "cool"} : at = IF ready THEN "ask" ELSE "cool"
    OBVIOUS
  <2>5. bench' = [bench EXCEPT !.at = at, !.calm = calm, !.polls = polls, !.seen = seen]
        /\ spoiled' = spoiled
    BY <2>1, <2>2, <2>3, <2>4, <1>4 DEF Cooldown
  <2>6. calm \in Nat /\ (reading = "cool" => calm = bench.calm + 1) /\ (reading # "cool" => calm = 0)
    BY <2>1, <1>0, MeasuringFields DEF Calm
  <2>7. polls \in Int
    <3>1. bench.polls + 1 \in Int /\ CooldownPolls \in Int
      BY <1>0, MeasuringFields, CampaignAssumption
    <3> QED BY <3>1, <2>2, OfTwo
  <2>8. /\ bench.calm < StableSamples /\ bench.calm <= Len(bench.seen)
        /\ Len(bench.seen) <= StableSamples
        /\ \A i \in 1 .. Len(bench.seen) :
             i > Len(bench.seen) - bench.calm => bench.seen[i] = "cool"
    BY <1>0, MeasuringFields DEF CoolInv
  <2>9. /\ seen \in Seq(Readings)
        /\ Len(seen) = IF Len(bench.seen) < StableSamples THEN Len(bench.seen) + 1
                       ELSE StableSamples
        /\ \A i \in 1 .. Len(seen) :
             LET j == i + Len(bench.seen) + 1 - Len(seen)
             IN seen[i] = IF j <= Len(bench.seen) THEN bench.seen[j] ELSE reading
    BY <2>3, <2>8, <1>0, MeasuringFields, LastOfReadings
  <2>10. bench' \in Measuring
    BY <2>4, <2>5, <2>6, <2>7, <2>9, <1>0 DEF Measuring
  <2>11. /\ bench'.at = at /\ bench'.calm = calm /\ bench'.seen = seen /\ bench'.left = bench.left
         /\ bench'.results = bench.results /\ bench'.found = bench.found
         /\ bench'.warm = bench.warm /\ bench'.runs = bench.runs /\ bench'.calls = bench.calls
    BY <2>5, <1>0 DEF Measuring
  <2>12. ResultsInv(bench', spoiled')
    BY <2>5, <2>11, <1>0, MeasuringFields DEF ResultsInv
  <2>13. TurnInv(bench', spoiled')
    BY <2>5, <2>11, <1>0, MeasuringFields DEF TurnInv, Turn, Noted
  <2>14. StableSamples \in Nat /\ StableSamples > 0 /\ bench.calm \in Nat /\ Len(bench.seen) \in Nat
    BY CampaignAssumption, <1>0, MeasuringFields
  <2>15. ASSUME NEW i \in 1 .. Len(seen), i > Len(seen) - calm PROVE seen[i] = "cool"
    <3>1. reading = "cool" /\ calm = bench.calm + 1
      BY <2>6, <2>15
    <3>1a. i \in Int /\ Len(seen) \in Int
      BY <2>9
    <3>2. PICK j \in Int : j = i + Len(bench.seen) + 1 - Len(seen)
      <4>1. i + Len(bench.seen) + 1 - Len(seen) \in Int
        BY <3>1a, <2>14
      <4> QED BY <4>1
    <3>3. CASE j <= Len(bench.seen)
      <4>0. bench.calm <= Len(bench.seen)
        BY <2>8
      <4>0a. j > Len(bench.seen) - bench.calm
        BY <3>1, <3>1a, <3>2, <2>15, <2>14
      <4>1. j \in 1 .. Len(bench.seen) /\ j > Len(bench.seen) - bench.calm
        BY <4>0, <4>0a, <3>2, <3>3, <2>14
      <4> QED BY <4>1, <3>2, <3>3, <2>8, <2>9
    <3>4. CASE j > Len(bench.seen)
      <4>1. ~ (j <= Len(bench.seen))
        BY <3>4, <2>14
      <4>2. seen[i] = IF j <= Len(bench.seen) THEN bench.seen[j] ELSE reading
        BY <3>2, <2>9
      <4> QED BY <3>1, <4>1, <4>2
    <3> QED BY <3>3, <3>4, <2>14
  <2>16. CoolInv(bench')
    <3>1. CASE at = "cool"
      <4>1. calm < StableSamples
        BY <3>1, <2>1, <2>4, <2>6, <2>14
      <4>2. calm <= Len(seen) /\ Len(seen) <= StableSamples
        BY <4>1, <2>6, <2>8, <2>9, <2>14
      <4> QED BY <4>1, <4>2, <3>1, <2>11, <2>15 DEF CoolInv
    <3>2. CASE at = "ask"
      <4>1. calm >= StableSamples /\ calm = bench.calm + 1 /\ calm = StableSamples
        BY <3>2, <2>1, <2>4, <2>6, <2>8, <2>14
      <4>2. Len(seen) = StableSamples
        BY <4>1, <2>8, <2>9, <2>14
      <4>3. \A i \in 1 .. StableSamples : seen[i] = "cool"
        BY <4>1, <4>2, <2>14, <2>15
      <4>4. seen = [i \in 1 .. StableSamples |-> "cool"]
        BY <4>2, <4>3, <2>9
      <4> QED BY <4>4, <3>2, <2>11 DEF CoolInv
    <3> QED BY <3>1, <3>2, <2>4
  <2> QED BY <2>4, <2>10, <2>11, <2>12, <2>13, <2>16, <1>0, BenchStep DEF BenchTypeOK
<1> QED BY <1>3, <1>4

\* A request is one of the warm-up or a judged one.
LEMMA CallKinds ==
  ASSUME NEW c \in Calls
  PROVE  c[1] = 0 \/ (c \in Judged /\ c[1] > 0)
<1>1. CASE c \in {<<0, w>> : w \in 1 .. WarmupRuns}
  BY <1>1
<1>2. CASE c \in Judged
  <2>1. c[1] \in 1 .. MeasuredRuns
    BY <1>2 DEF Judged
  <2> QED BY <1>2, <2>1, CampaignAssumption
<1> QED BY <1>1, <1>2 DEF Calls, Judged

\* What is left once a request showed something: what went wrong is noted.
LEMMA AnsweredFacts ==
  ASSUME IInv, NEW c \in Calls, NEW shown \in Shown, Chat(c, shown)
  PROVE  \E d \in Measuring :
           /\ d.at = "unload" /\ d.left = bench.left /\ d.found = bench.found
           /\ d.results = bench.results /\ DOMAIN d.runs \cap d.calls = {}
           /\ Noted(bench) => Noted(d)
           /\ shown \notin {"pass", "blind"} => Noted(d)
           /\ bench' = IF shown = "lost" THEN Interrupted(d)
                       ELSE IF d.calls = {} THEN d
                       ELSE [d EXCEPT !.at = BeforeCall, !.calm = 0, !.polls = 0, !.seen = <<>>]
<1>0. bench.at = "ask" /\ bench \in Measuring /\ c \in bench.calls
  BY MeasuringFields DEF Chat, NextCalls
<1>1. PICK dom \in SUBSET Judged : bench.runs \in [dom -> Shown]
  BY <1>0, MeasuringFields DEF Runs
<1>2. c \notin dom /\ dom \cap bench.calls = {}
  BY <1>0, <1>1, MeasuringFields DEF TurnInv
<1>3. PICK warm \in BOOLEAN : warm = (bench.warm /\ (c[1] = 0 => shown \notin {"error", "lost"}))
  <2>1. (bench.warm /\ (c[1] = 0 => shown \notin {"error", "lost"})) \in BOOLEAN
    OBVIOUS
  <2> QED BY <2>1
<1>4. PICK runs : runs = IF c[1] > 0
                         THEN [e \in DOMAIN bench.runs \union {c} |->
                                 IF e = c THEN shown ELSE bench.runs[e]]
                         ELSE bench.runs
  OBVIOUS
<1>5. /\ c[1] = 0 => runs = bench.runs
      /\ c[1] # 0 => /\ c \in Judged /\ DOMAIN runs = dom \cup {c} /\ runs[c] = shown
                     /\ runs \in [dom \cup {c} -> Shown]
                     /\ \A e \in dom : runs[e] = bench.runs[e]
  <2>1. CASE c[1] = 0
    BY <2>1, <1>4
  <2>2. CASE c[1] # 0
    <3>1. c \in Judged /\ c[1] > 0
      BY <2>2, CallKinds
    <3>2. runs = [e \in dom \cup {c} |-> IF e = c THEN shown ELSE bench.runs[e]]
      BY <3>1, <1>1, <1>4
    <3> QED BY <3>1, <3>2, <2>2, <1>1, <1>2
  <2> QED BY <2>1, <2>2
<1>6. runs \in Runs
  <2>1. CASE c[1] = 0
    BY <2>1, <1>0, <1>5, MeasuringFields
  <2>2. CASE c[1] # 0
    <3>1. dom \cup {c} \in SUBSET Judged
      BY <2>2, <1>5
    <3> QED BY <3>1, <2>2, <1>5 DEF Runs
  <2> QED BY <2>1, <2>2
<1>7. PICK calls : calls = bench.calls \ {c}
  OBVIOUS
<1>8. PICK d : d = [bench EXCEPT !.calls = calls, !.at = "unload", !.warm = warm, !.runs = runs]
  OBVIOUS
<1>9. d \in Measuring
  BY <1>0, <1>3, <1>6, <1>7, <1>8 DEF Measuring
<1>10. /\ d.at = "unload" /\ d.left = bench.left /\ d.found = bench.found
       /\ d.results = bench.results /\ d.calls = calls /\ d.warm = warm /\ d.runs = runs
  BY <1>0, <1>8 DEF Measuring
<1>11. DOMAIN runs \cap calls = {}
  BY <1>1, <1>2, <1>5, <1>7
<1>12. Noted(bench) => Noted(d)
  <2>1. CASE bench.warm = FALSE
    BY <2>1, <1>3, <1>10 DEF Noted
  <2>2. ASSUME NEW e \in dom, bench.runs[e] \notin {"pass", "blind"} PROVE Noted(d)
    <3>1. e \in DOMAIN runs /\ runs[e] = bench.runs[e]
      BY <1>1, <1>5
    <3> QED BY <3>1, <2>2, <1>10 DEF Noted
  <2> QED BY <2>1, <2>2, <1>1 DEF Noted
<1>13. shown \notin {"pass", "blind"} => Noted(d)
  <2>1. CASE c[1] = 0
    <3>1. shown \notin {"pass", "blind"} => warm = FALSE
      BY <2>1, <1>3 DEF Chat
    <3> QED BY <3>1, <1>10 DEF Noted
  <2>2. CASE c[1] # 0
    BY <2>2, <1>5, <1>10 DEF Noted
  <2> QED BY <2>1, <2>2
<1>14. bench' = IF shown = "lost" THEN Interrupted(d)
                ELSE IF d.calls = {} THEN d
                ELSE [d EXCEPT !.at = BeforeCall, !.calm = 0, !.polls = 0, !.seen = <<>>]
  <2>1. d = [bench EXCEPT
              !.calls = @ \ {c}, !.at = "unload",
              !.warm = @ /\ (c[1] = 0 => shown \notin {"error", "lost"}),
              !.runs = IF c[1] > 0 THEN [e \in DOMAIN @ \union {c} |-> IF e = c THEN shown ELSE @[e]]
                                   ELSE @]
    BY <1>3, <1>4, <1>7, <1>8
  <2> QED BY <2>1 DEF Chat, Answered
<1> QED BY <1>9, <1>10, <1>11, <1>12, <1>13, <1>14

LEMMA ChatKeeps ==
  ASSUME IInv, NEW c \in Calls, NEW shown \in Shown, Chat(c, shown)
  PROVE  IInv'
<1>0. /\ bench.at = "ask" /\ bench.at # "idle" /\ UNCHANGED <<reports, registry, started, simulations, truth>>
      /\ spoiled' = IF shown \in {"pass", "blind"} THEN spoiled ELSE spoiled \cup {Model}
  BY DEF Chat, Spoil
<1>1. bench.left # {} /\ Turn(bench) \in bench.left /\ Model = Candidates[Turn(bench)]
  BY <1>0, MeasuringFields, TurnIsLeft DEF TurnInv, Model
<1>2. PICK d \in Measuring :
        /\ d.at = "unload" /\ d.left = bench.left /\ d.found = bench.found
        /\ d.results = bench.results /\ DOMAIN d.runs \cap d.calls = {}
        /\ Noted(bench) => Noted(d)
        /\ shown \notin {"pass", "blind"} => Noted(d)
        /\ bench' = IF shown = "lost" THEN Interrupted(d)
                    ELSE IF d.calls = {} THEN d
                    ELSE [d EXCEPT !.at = BeforeCall, !.calm = 0, !.polls = 0, !.seen = <<>>]
  BY AnsweredFacts
<1>3. Turn(d) = Turn(bench)
  BY <1>2 DEF Turn
<1>4. ResultsInv(d, spoiled)
  BY <1>0, <1>2, MeasuringFields DEF ResultsInv
<1>5. spoiled' \subseteq spoiled \cup {Candidates[Turn(d)]}
  BY <1>0, <1>1, <1>3
<1>6. \A k \in d.left : Candidates[k] \in spoiled => k = Turn(d)
  BY <1>0, <1>2, <1>3, MeasuringFields DEF TurnInv
<1>7. CASE shown = "lost"
  <2>1. bench' = Interrupted(d)
    BY <1>2, <1>7
  <2>2. bench' \in Between /\ ResultsInv(bench', spoiled') /\ NextInv(bench', spoiled')
    BY <2>1, <1>1, <1>2, <1>4, <1>5, <1>6, InterruptedKeeps
  <2>3. bench'.at = "next"
    BY <2>2 DEF Between
  <2> QED BY <2>2, <2>3, <1>0, BenchStep DEF BenchTypeOK
<1>8. CASE shown # "lost"
  <2>1. /\ bench' \in Measuring /\ bench'.left = d.left /\ bench'.found = d.found
        /\ bench'.results = d.results /\ bench'.runs = d.runs /\ bench'.calls = d.calls
        /\ bench'.warm = d.warm
        /\ \/ bench'.at = "unload"
           \/ bench'.at = "ask" /\ Simulated
           \/ bench'.at = "cool" /\ bench'.calm = 0 /\ bench'.seen = <<>>
    <3>1. CASE d.calls = {}
      <4>1. bench' = d
        BY <3>1, <1>2, <1>8
      <4> QED BY <4>1, <1>2
    <3>2. CASE d.calls # {}
      <4>1. bench' = [d EXCEPT !.at = BeforeCall, !.calm = 0, !.polls = 0, !.seen = <<>>]
        BY <3>2, <1>2, <1>8
      <4>2. /\ d.left \in SUBSET Places /\ d.total \in Totals /\ d.found \in Inventory
            /\ d.results \in Seq(ResultRows) /\ d.lost = FALSE /\ d.calls \in SUBSET Calls
            /\ d.runs \in Runs /\ d.warm \in BOOLEAN
        BY DEF Measuring
      <4>2a. PICK at \in {"cool", "ask"} : at = BeforeCall
        BY DEF BeforeCall
      <4>2b. at = "ask" => Simulated
        BY <4>2a DEF BeforeCall
      <4>3. bench' = [at |-> at, left |-> d.left, total |-> d.total, found |-> d.found,
                      results |-> d.results, lost |-> FALSE, calm |-> 0, polls |-> 0,
                      seen |-> <<>>, calls |-> d.calls, runs |-> d.runs, warm |-> d.warm]
        BY <4>1, <4>2a DEF Measuring
      <4>4. <<>> \in Seq(Readings)
        OBVIOUS
      <4>5. bench' \in Measuring
        BY <4>2, <4>3, <4>4 DEF Measuring
      <4> QED BY <4>2b, <4>3, <4>5
    <3> QED BY <3>1, <3>2
  <2>2. Turn(bench') = Turn(bench) /\ Turn(d)' = Turn(bench)
    BY <2>1, <1>2 DEF Turn
  <2>3. ASSUME NEW k \in bench.left, Candidates[k] \in spoiled'
        PROVE  k = Turn(bench) /\ Noted(d)
    <3>1. CASE Candidates[k] \in spoiled
      BY <3>1, <1>0, <1>2, MeasuringFields DEF TurnInv
    <3>2. CASE Candidates[k] \notin spoiled
      <4>1. Candidates[k] = Candidates[Turn(bench)] /\ shown \notin {"pass", "blind"}
        BY <3>2, <2>3, <1>0, <1>1
      <4>2. k \in Places /\ Turn(bench) \in Places
        BY <1>0, <1>1, MeasuringFields
      <4> QED BY <4>1, <4>2, <1>2, PlaceModels
    <3> QED BY <3>1, <3>2
  <2>4. Noted(d) => Noted(bench')
    BY <2>1 DEF Noted
  <2>5. TurnInv(bench', spoiled')
    <3>1. bench'.left = bench.left /\ bench'.found = bench.found
      BY <2>1, <1>2
    <3>2. bench.found[Candidates[Turn(bench)]] \in {"installed", "large"}
      BY <1>0, MeasuringFields DEF TurnInv
    <3> QED BY <3>1, <3>2, <2>1, <2>2, <2>3, <2>4, <1>1, <1>2 DEF TurnInv
  <2>6. CoolInv(bench')
    BY <2>1, CampaignAssumption DEF CoolInv
  <2>7. ResultsInv(bench', spoiled')
    <3> SUFFICES ASSUME NEW i \in 1 .. Len(bench.results)
                 PROVE  /\ \A k \in bench.left : Candidates[k] # bench.results[i].model
                        /\ bench.results[i].eligible => bench.results[i].model \notin spoiled'
      BY <2>1, <1>2 DEF ResultsInv
    <3> QED BY <1>0, <1>1, MeasuringFields DEF ResultsInv
  <2>8. BenchTypeOK'
    BY <2>1 DEF BenchTypeOK
  <2>9. bench'.at # "next"
    BY <2>1
  <2> QED BY <2>5, <2>6, <2>7, <2>8, <2>9, <1>0, BenchStep
<1> QED BY <1>7, <1>8

LEMMA UnloadKeeps ==
  ASSUME IInv, NEW shown, Unload(shown)
  PROVE  IInv'
<1>0. /\ bench.at = "unload" /\ bench.at # "idle" /\ UNCHANGED <<reports, registry, started, simulations, truth>>
      /\ bench \in Measuring
  BY MeasuringFields DEF Unload
<1>1. bench.left # {} /\ Turn(bench) \in bench.left /\ Model = Candidates[Turn(bench)]
  BY <1>0, MeasuringFields, TurnIsLeft DEF TurnInv, Model
<1>2. \A k \in bench.left : Candidates[k] \in spoiled => k = Turn(bench)
  BY <1>0, MeasuringFields DEF TurnInv
<1>3. spoiled' = spoiled \/ spoiled' = spoiled \cup {Model}
  BY DEF Unload, Spoil
<1>3a. spoiled' \subseteq spoiled \cup {Candidates[Turn(bench)]}
  BY <1>1, <1>3
<1>4. bench' \in Between /\ ResultsInv(bench', spoiled') /\ NextInv(bench', spoiled')
  <2>1. CASE shown = "lost"
    <3>1. PICK d : d = [bench EXCEPT !.lost = TRUE]
      OBVIOUS
    <3>2. /\ d.left = bench.left /\ d.total = bench.total /\ d.found = bench.found
          /\ d.results = bench.results /\ d.lost = TRUE /\ d.warm = bench.warm
      BY <3>1, <1>0 DEF Measuring
    <3>3. bench' = Closed(d, FALSE)
      BY <2>1, <3>1 DEF Unload
    <3>4. Turn(d) = Turn(bench)
      BY <3>2 DEF Turn
    <3>5. ResultsInv(d, spoiled)
      BY <3>2, <1>0, MeasuringFields DEF ResultsInv
    <3>6. d.left \in SUBSET Places /\ d.left # {} /\ d.total \in Totals /\ d.found \in Inventory
      BY <3>2, <1>0, <1>1, MeasuringFields
    <3>7. /\ d.results \in Seq(ResultRows) /\ d.lost \in BOOLEAN /\ d.warm \in BOOLEAN
          /\ d.lost # FALSE
      BY <3>2, <1>0, MeasuringFields
    <3>8. \A k \in d.left : Candidates[k] \in spoiled => k = Turn(d)
      BY <3>2, <3>4, <1>2
    <3>9. spoiled' \subseteq spoiled \cup {Candidates[Turn(d)]}
      BY <3>4, <1>3a
    <3> QED BY <3>3, <3>5, <3>6, <3>7, <3>8, <3>9, ClosedKeeps
  <2>2. CASE shown # "lost"
    <3>1. PICK unloaded \in BOOLEAN : unloaded = (shown = "pass")
      OBVIOUS
    <3>2. bench' = Closed(bench, unloaded)
      BY <2>2, <3>1 DEF Unload
    <3>3. ASSUME unloaded = TRUE, bench.warm = TRUE,
                 GateModel("completed", bench.found[Candidates[Turn(bench)]], bench.runs)
          PROVE  Candidates[Turn(bench)] \notin spoiled'
      <4>1. ~ Noted(bench) /\ bench.found[Model] # "large"
        BY <3>3, <1>0, <1>1, MeasuringFields, GateIsClean
      <4>2. bench.found[Model] = "installed"
        BY <4>1, <1>0, <1>1, MeasuringFields DEF TurnInv
      <4>3. spoiled' = spoiled
        BY <4>2, <3>1, <3>3 DEF Unload
      <4> QED BY <4>1, <4>3, <1>0, <1>1, MeasuringFields DEF TurnInv
    <3>4. bench.left \in SUBSET Places /\ bench.lost \in BOOLEAN
      BY <1>0, MeasuringFields
    <3> QED BY <3>2, <3>3, <3>4, <1>0, <1>1, <1>2, <1>3a, MeasuringFields, ClosedKeeps
  <2> QED BY <2>1, <2>2
<1>5. bench'.at = "next"
  BY <1>4 DEF Between
<1> QED BY <1>4, <1>5, <1>0, BenchStep DEF BenchTypeOK

-----------------------------------------------------------------------------
(* The steps that write the files                                          *)

LEMMA StartCampaignKeeps ==
  ASSUME IInv, NEW chosen \in SUBSET Models, NEW found \in [chosen -> States],
         NEW fixture, StartCampaign(chosen, found, fixture)
  PROVE  IInv'
<1>1. /\ bench' = [at |-> "next", left |-> Selected(chosen), total |-> Cardinality(chosen),
                   found |-> found, results |-> <<>>, lost |-> FALSE]
      /\ started < MaxCampaigns /\ started' = started + 1 /\ spoiled' = {}
      /\ UNCHANGED <<reports, registry, truth>>
      /\ simulations' \subseteq simulations \union {started + 1} /\ simulations \subseteq simulations'
  BY DEF StartCampaign
<1>2. Selected(chosen) \in SUBSET Places
  BY DEF Selected, Places
<1>3. Cardinality(chosen) \in Totals /\ found \in Inventory /\ <<>> \in Seq(ResultRows)
  BY DEF Totals, Inventory
<1>4. bench' \in Between
  BY <1>1, <1>2, <1>3 DEF Between
<1>5. started' \in 1 .. MaxCampaigns /\ truth'[started'] = {} /\ started \in Nat
  BY <1>1, CampaignAssumption DEF IInv, FilesInv
<1>6. bench'.at = "next" /\ bench'.results = <<>> /\ bench'.lost = FALSE
  BY <1>1
<1>7. BenchInv'
  BY <1>1, <1>5, <1>6 DEF BenchInv, ResultsInv, NextInv
<1>8. FilesInv'
  <2>1. simulations' \subseteq 1 .. started'
    BY <1>1, <1>5 DEF IInv, FilesInv
  <2>2. \A i \in Files : reports'[i].kind = "report" => reports'[i].generated \in 1 .. started'
    BY <1>1, <1>5 DEF IInv, FilesInv
  <2>3. \A i \in 1 .. MaxCampaigns : i > started' => truth'[i] = {}
    BY <1>1, <1>5, CampaignAssumption DEF IInv, FilesInv
  <2> QED BY <1>1, <1>5, <2>1, <2>2, <2>3 DEF IInv, FilesInv
<1>9. EligibleIsMeasured'
  <2> SUFFICES ASSUME NEW i \in Files, reports'[i].kind = "report" PROVE ReportHolds(reports[i])'
    BY DEF EligibleIsMeasured, ReportHolds
  <2>1. reports[i] = reports'[i] /\ ReportHolds(reports[i]) /\ reports[i].generated \in 1 .. started
    BY <1>1, EligibleByReport DEF IInv, FilesInv
  <2>2. reports[i].generated # started + 1
    BY <2>1, <1>5
  <2>3. reports[i].generated \in simulations <=> reports[i].generated \in simulations'
    BY <1>1, <2>2
  <2> QED BY <1>1, <2>1, <2>3 DEF ReportHolds
<1> QED BY <1>4, <1>7, <1>8, <1>9 DEF IInv, BenchTypeOK

\* Steps that only move reports, and may add some that are none of a campaign.
LEMMA MovedReportsKeep ==
  ASSUME IInv, UNCHANGED <<started, simulations, truth>>, DOMAIN reports' = Files,
         \A k \in Files : reports'[k].kind = "report" =>
           \E j \in Files : reports'[k] = reports[j],
         registry' # NoRecord => registry'.report \in Files
  PROVE  FilesInv' /\ EligibleIsMeasured'
<1>1. ASSUME NEW k \in Files, reports'[k].kind = "report"
      PROVE  reports'[k].generated \in 1 .. started /\ ReportHolds(reports[k])'
  <2>1. PICK j \in Files : reports'[k] = reports[j]
    BY <1>1
  <2>2. reports[j].kind = "report" /\ reports[j].generated \in 1 .. started
        /\ ReportHolds(reports[j])
    BY <1>1, <2>1, EligibleByReport DEF IInv, FilesInv
  <2> QED BY <2>1, <2>2 DEF ReportHolds
<1>2. EligibleIsMeasured'
  BY <1>1 DEF EligibleIsMeasured, ReportHolds
<1>3. FilesInv'
  BY <1>1 DEF IInv, FilesInv
<1> QED BY <1>2, <1>3

\* A step that leaves the benchmark alone.
LEMMA BenchStays ==
  ASSUME IInv, UNCHANGED <<bench, started, simulations, spoiled, truth>>
  PROVE  BenchTypeOK' /\ BenchInv'
BY DEF IInv, BenchTypeOK, BenchInv, ResultsInv, NextInv, TurnInv, CoolInv, Noted, Turn, Simulated

LEMMA KillCampaignKeeps ==
  ASSUME IInv, KillCampaign
  PROVE  IInv'
<1>1. /\ bench' = Idle /\ bench'.at = "idle" /\ UNCHANGED <<registry, started, simulations, truth>>
      /\ \/ reports' = reports
         \/ reports' = [reports EXCEPT ![started] = [kind |-> "partial"]]
  BY DEF KillCampaign, Idle
<1>2. BenchTypeOK' /\ BenchInv'
  BY <1>1 DEF BenchTypeOK, BenchInv
<1>3. /\ DOMAIN reports' = Files
      /\ \A i \in Files : reports'[i].kind = "report" => reports'[i] = reports[i]
  <2>1. [kind |-> "partial"].kind # "report"
    OBVIOUS
  <2> QED BY <1>1, <2>1 DEF IInv, FilesInv
<1>4. registry' # NoRecord => registry'.report \in Files
  BY <1>1 DEF IInv, FilesInv
<1> QED BY <1>1, <1>2, <1>3, <1>4, MovedReportsKeep DEF IInv

LEMMA WriteFlatKeeps ==
  ASSUME IInv, NEW m, NEW ok, WriteFlat(m, ok)
  PROVE  IInv'
<1>1. PICK flat : flat = [kind |-> "flat", generated |-> 0, model |-> m, eligible |-> ok]
  OBVIOUS
<1>2. /\ reports' = [reports EXCEPT ![0] = flat] /\ flat.kind # "report"
      /\ UNCHANGED <<bench, registry, started, simulations, spoiled, truth>>
  BY <1>1 DEF WriteFlat
<1>3. /\ DOMAIN reports' = Files
      /\ \A k \in Files : reports'[k].kind = "report" => reports'[k] = reports[k]
  BY <1>2 DEF IInv, FilesInv
<1>4. registry' # NoRecord => registry'.report \in Files
  BY <1>2 DEF IInv, FilesInv
<1> QED BY <1>2, <1>3, <1>4, MovedReportsKeep, BenchStays DEF IInv

LEMMA DamageReportKeeps ==
  ASSUME IInv, NEW i \in Files,
         NEW content \in {NoReport} \union {reports[j] : j \in Files},
         DamageReport(i, content)
  PROVE  IInv'
<1>1. /\ reports' = [reports EXCEPT ![i] = content]
      /\ UNCHANGED <<bench, registry, started, simulations, spoiled, truth>>
  BY DEF DamageReport
<1>2. /\ DOMAIN reports' = Files
      /\ \A k \in Files :
           reports'[k].kind = "report" => \E j \in Files : reports'[k] = reports[j]
  <2>1. NoReport.kind # "report"
    BY DEF NoReport
  <2> QED BY <1>1, <2>1 DEF IInv, FilesInv
<1>3. registry' # NoRecord => registry'.report \in Files
  BY <1>1 DEF IInv, FilesInv
<1> QED BY <1>1, <1>2, <1>3, MovedReportsKeep, BenchStays DEF IInv

LEMMA ApproveKeeps ==
  ASSUME IInv, NEW m, NEW i \in Files, Approve(m, i)
  PROVE  IInv'
<1>1. registry'.report = i /\ UNCHANGED <<bench, reports, started, simulations, spoiled, truth>>
  BY DEF Approve
<1>2. DOMAIN reports' = Files
  BY <1>1 DEF IInv, FilesInv
<1> QED BY <1>1, <1>2, MovedReportsKeep, BenchStays DEF IInv

\* The report of a campaign calls eligible what its results say, and nothing of a
\* campaign that was interrupted.
LEMMA ReportIsTrue ==
  ASSUME NextInv(bench, spoiled), ResultsInv(bench, spoiled), bench.results \in Seq(ResultRows),
         NEW T, T = IF bench.lost THEN {} ELSE {r.model : r \in Range(bench.results)} \ spoiled
  PROVE  {q.model : q \in {p \in Range(FinalResults) : p.eligible}}
           \union {r.model : r \in {q \in Range(FinalResults) : ~ bench.lost /\ q.eligible}}
         \subseteq T
<1> DEFINE E == {p \in Range(FinalResults) : p.eligible}
<1>1. CASE bench.lost
  <2>1. ASSUME NEW i \in DOMAIN FinalResults PROVE FinalResults[i].eligible = FALSE
    <3>1. i \in DOMAIN bench.results
      BY <1>1, <2>1 DEF FinalResults
    <3>2. PICK r \in ResultRows : r = bench.results[i]
      BY <3>1
    <3>3. FinalResults[i] = [r EXCEPT !.eligible = FALSE]
      BY <1>1, <3>1, <3>2 DEF FinalResults
    <3> QED BY <3>3 DEF ResultRows
  <2>2. E = {}
    BY <2>1 DEF Range
  <2> QED BY <1>1, <2>2
<1>2. CASE ~ bench.lost
  <2>1. FinalResults = bench.results
    BY <1>2 DEF FinalResults
  <2>2. ASSUME NEW p \in Range(bench.results), p.eligible PROVE p.model \in T
    <3>1. PICK i \in 1 .. Len(bench.results) : p = bench.results[i]
      BY DEF Range
    <3>2. p.model \notin spoiled
      BY <3>1, <2>2 DEF ResultsInv
    <3> QED BY <3>2, <1>2
  <2> QED BY <1>2, <2>1, <2>2
<1> QED BY <1>1, <1>2

LEMMA FinishCampaignKeeps ==
  ASSUME IInv, FinishCampaign
  PROVE  IInv'
<1>0. PICK T : T = IF bench.lost THEN {} ELSE {r.model : r \in Range(bench.results)} \ spoiled
  OBVIOUS
<1>1. /\ bench' = Idle /\ bench'.at = "idle" /\ UNCHANGED <<registry, started, simulations>>
      /\ reports' = [reports EXCEPT ![started] = Report]
      /\ truth' = [truth EXCEPT ![started] = T]
  BY <1>0 DEF FinishCampaign, Idle
<1>2. BenchTypeOK' /\ BenchInv'
  BY <1>1 DEF BenchTypeOK, BenchInv
<1>3. started \in 1 .. MaxCampaigns /\ started \in Files /\ truth[started] = {}
  BY CampaignAssumption DEF IInv, BenchInv, FinishCampaign, Files
<1>4. PICK rep : rep = Report
  OBVIOUS
<1>5. /\ rep.kind = "report" /\ rep.generated = started /\ rep.models = FinalResults
      /\ rep.eligible = {r.model : r \in {q \in Range(FinalResults) : ~ bench.lost /\ q.eligible}}
      /\ rep.simulated = Simulated
  BY <1>4 DEF Report
<1>6. {q.model : q \in {p \in Range(rep.models) : p.eligible}} \union rep.eligible \subseteq T
  BY <1>0, <1>5, NextFields, ReportIsTrue DEF FinishCampaign
<1>7. /\ DOMAIN reports' = Files /\ DOMAIN truth' = 1 .. MaxCampaigns
      /\ reports'[started] = rep /\ truth'[started] = T
      /\ \A i \in Files : i # started => reports'[i] = reports[i]
      /\ \A i \in 1 .. MaxCampaigns : i # started => truth'[i] = truth[i]
  BY <1>1, <1>3, <1>4 DEF IInv, FilesInv
<1>8. \A i \in 1 .. MaxCampaigns : truth[i] \subseteq truth'[i]
  BY <1>3, <1>7
<1>9. FilesInv'
  <2>1. \A i \in 1 .. MaxCampaigns : i > started' => truth'[i] = {}
    BY <1>1, <1>3, <1>7 DEF IInv, FilesInv
  <2>2. ASSUME NEW i \in Files, reports'[i].kind = "report"
        PROVE  reports'[i].generated \in 1 .. started'
    BY <1>1, <1>3, <1>5, <1>7, <2>2 DEF IInv, FilesInv
  <2> QED BY <1>1, <1>7, <2>1, <2>2 DEF IInv, FilesInv
<1>10. EligibleIsMeasured'
  <2> SUFFICES ASSUME NEW i \in Files, reports'[i].kind = "report" PROVE ReportHolds(reports[i])'
    BY DEF EligibleIsMeasured, ReportHolds
  <2>1. CASE i = started
    <3>1. reports'[i] = rep /\ truth'[rep.generated] = T
      BY <2>1, <1>5, <1>7
    <3>2. rep.simulated <=> rep.generated \in simulations'
      BY <1>1, <1>5 DEF Simulated
    <3> QED BY <3>1, <3>2, <1>6 DEF ReportHolds
  <2>2. CASE i # started
    <3>1. reports'[i] = reports[i] /\ reports[i].kind = "report"
      BY <2>2, <1>7
    <3>2. reports[i].generated \in 1 .. MaxCampaigns
      BY <3>1, CampaignAssumption DEF IInv, FilesInv
    <3>3. ReportHolds(reports[i])
      BY <3>1, EligibleByReport DEF IInv
    <3>4. truth[reports[i].generated] \subseteq truth'[reports[i].generated]
      BY <3>2, <1>8
    <3> QED BY <1>1, <3>1, <3>3, <3>4 DEF ReportHolds
  <2> QED BY <2>1, <2>2
<1> QED BY <1>2, <1>9, <1>10 DEF IInv

-----------------------------------------------------------------------------
(* The theorem                                                             *)

LEMMA InitIInv == LocalInit => IInv
<1> SUFFICES ASSUME LocalInit PROVE IInv
  OBVIOUS
<1>1. bench.at = "idle" /\ bench = Idle
  BY DEF LocalInit, Idle
<1>2. NoReport.kind # "report"
  BY DEF NoReport
<1> QED BY <1>1, <1>2, CampaignAssumption
        DEF LocalInit, IInv, BenchTypeOK, BenchInv, FilesInv, EligibleIsMeasured

LEMMA NextIInv == IInv /\ [LocalNext]_localVars => IInv'
<1> SUFFICES ASSUME IInv, [LocalNext]_localVars PROVE IInv'
  OBVIOUS
<1>1. CASE LaunchNext
  <2>1. ASSUME NEW chosen \in SUBSET Models,
               NEW found \in [chosen -> {"disabled", "missing", "installed", "large"}],
               NEW fixture \in BOOLEAN, StartCampaign(chosen, found, fixture)
        PROVE  IInv'
    BY <2>1, StartCampaignKeeps DEF States
  <2> QED BY <1>1, <2>1, KillCampaignKeeps DEF LaunchNext
<1>2. CASE BenchNext
  BY <1>2, SkipCandidateKeeps, StartCandidateKeeps, FinishCampaignKeeps, CooldownKeeps,
     ChatKeeps, UnloadKeeps DEF BenchNext
<1>3. CASE FlatNext
  BY <1>3, WriteFlatKeeps DEF FlatNext
<1>4. CASE PromotionNext
  BY <1>4, ApproveKeeps, DamageReportKeeps DEF PromotionNext
<1>5. CASE UNCHANGED localVars
  <2>1. UNCHANGED <<bench, reports, registry, started, simulations, spoiled, truth>>
    BY <1>5 DEF localVars
  <2> QED BY <2>1, FilesStay, BenchStays DEF IInv
<1> QED BY <1>1, <1>2, <1>3, <1>4, <1>5 DEF LocalNext

LEMMA IInvIsEnough == IInv => PromotionHolds
<1> SUFFICES ASSUME IInv PROVE PromotionHolds
  OBVIOUS
<1>1. AskedWhenCool
  BY DEF IInv, BenchInv, CoolInv, AskedWhenCool
<1>2. ASSUME NEW m \in Models, NEW kind \in ProviderKinds, VerifyPromotion(m, kind),
             NEW r, r = registry.digest
      PROVE  /\ reports[registry.report] = r
             /\ \/ r.kind = "report" /\ m \in truth[r.generated]
                \/ r.kind = "flat" /\ kind = "vectors" /\ r.model = m /\ r.eligible
  <2>1. PICK i \in Files : i = registry.report
    BY <1>2 DEF VerifyPromotion, ApprovedReport, IInv, FilesInv
  <2>2. reports[i] = r /\ (EligibleByCampaign(r, m) \/ EligibleByItself(r, m, kind))
    BY <1>2, <2>1 DEF VerifyPromotion, ApprovedReport, DigestMatches
  <2>3. CASE EligibleByCampaign(r, m)
    <3>1. r.kind = "report" /\ m \in r.eligible
      BY <2>3 DEF EligibleByCampaign
    <3>2. r.eligible \subseteq truth[r.generated]
      BY <2>2, <3>1, EligibleByReport DEF IInv, ReportHolds
    <3> QED BY <2>1, <2>2, <3>1, <3>2
  <2>4. CASE EligibleByItself(r, m, kind)
    BY <2>1, <2>2, <2>4 DEF EligibleByItself, ProviderKinds
  <2> QED BY <2>2, <2>3, <2>4
<1>3. ServedIsApproved
  BY <1>2 DEF ServedIsApproved
<1> QED BY <1>1, <1>3 DEF PromotionHolds, IInv

\* Whatever the models and the scenarios are, however often they are repeated, and
\* whoever kills campaigns or exchanges reports: a local chat model answers only
\* for a whole campaign that it passed, on a cool machine or in a simulation that
\* its report owns to, and for the approval of that very report; and only an
\* embedding or rerank model is taken at the word of a flat report (run_benchmark
\* and verify_promotion).
THEOREM PromotionIsEarned == LocalSpec => []PromotionHolds
<1> QED BY InitIInv, NextIInv, IInvIsEnough, PTL DEF LocalSpec

-----------------------------------------------------------------------------
(* THE START OF THE ORCHESTRATOR                                           *)

AdmissionFiles ==
  part = "start" => conf \in Configurations /\ cat \in Catalogues /\ reg \in Registries

\* What the start has put together: every provider once, a budget for every account,
\* and the highest prices of the cards as they were read.
Prepared(p) ==
  /\ \A q, r \in p.conf.providers : q.id = r.id => q = r
  /\ AccountsOf(p.conf.providers) \subseteq p.conf.budgets
  /\ \A name \in p.plan.bindings : \A price \in p.read.cards[name].prices :
       \A i \in 1 .. 2 : p.plan.rates[name][i] >= price[i]

\* The process, by how far its start is.
ProcInv ==
  \/ proc = Down
  \/ proc = [at |-> "expand", conf |-> proc.conf] /\ proc.conf \in Configurations
  \/ /\ \E at \in {"bind", "load"} :
          proc = [at |-> at, conf |-> proc.conf, plan |-> proc.plan, read |-> proc.read]
     /\ Prepared(proc)
  \/ /\ \E at \in {"register", "up"} :
          proc = [at |-> at, conf |-> proc.conf, plan |-> proc.plan, read |-> proc.read,
                  served |-> proc.served]
     /\ Prepared(proc)
     /\ CatalogueAccepted(proc.served, proc.plan, Ids(proc.conf), proc.conf.aux)

OnAccount(providers, R) ==
  \A p \in providers : \A r \in R : r.provider = p.id => r.account = p.account

RowsInv ==
  /\ \A r \in rows : r = [provider |-> r.provider, account |-> r.account]
  /\ proc.at \in {"load", "register", "up"} => OnAccount(proc.conf.providers, rows)

AdmissionInv == AdmissionFiles /\ ProcInv /\ RowsInv

\* A set of numbers has a largest one: of those with no larger one inside a smallest set.
LEMMA LargestExists ==
  ASSUME NEW S, IsFiniteSet(S), S # {}, S \subseteq Nat
  PROVE  Max(S) \in S /\ \A x \in S : Max(S) >= x
<1>1. PICK N : N = {Cardinality(s) : s \in {t \in SUBSET S : t # {} /\ ~ \E m \in t : \A x \in t : m >= x}}
  OBVIOUS
<1>2. \A s \in SUBSET S : IsFiniteSet(s) /\ Cardinality(s) \in Nat
  BY FS_Subset, FS_CardinalityType
<1>3. N \subseteq Nat
  BY <1>1, <1>2
<1>4. ASSUME N # {} PROVE FALSE
  <2>1. PICK R : R = {p \in Nat \X Nat : p[1] < p[2]}
    OBVIOUS
  <2>2. IsWellFoundedOn(R, Nat)
    BY <2>1, NatLessThanWellFounded DEF OpToRel
  <2>3. PICK n \in N : \A m \in N : <<m, n>> \notin R
    BY <1>3, <1>4, <2>2, WFMin
  <2>4. PICK s \in SUBSET S : s # {} /\ (~ \E m \in s : \A x \in s : m >= x) /\ n = Cardinality(s)
    BY <1>1
  <2>5. PICK y \in s : TRUE
    BY <2>4
  <2>6. PICK t \in SUBSET S : t = s \ {y}
    OBVIOUS
  <2>7. Cardinality(t) = n - 1 /\ IsFiniteSet(t)
    BY <1>2, <2>4, <2>5, <2>6, FS_RemoveElement
  <2>8. CASE t = {}
    <3>1. s = {y} /\ y \in Nat
      BY <2>5, <2>6, <2>8
    <3> QED BY <3>1, <2>4
  <2>9. CASE t # {}
    <3>1. PICK c \in Nat : c = Cardinality(t) /\ c < n
      BY <1>2, <1>3, <2>7
    <3>2. <<c, n>> \in R
      BY <2>1, <1>3, <3>1
    <3>3. c \notin N
      BY <2>3, <3>2
    <3>4. PICK m \in t : \A x \in t : m >= x
      BY <1>1, <3>1, <3>3, <2>9
    <3>5. m \in Nat /\ y \in Nat /\ m \in s /\ \A x \in s : x \in t \/ x = y
      BY <2>5, <2>6
    <3>6. CASE m >= y
      <4>1. \A x \in s : m >= x
        BY <3>4, <3>5, <3>6
      <4> QED BY <4>1, <3>5, <2>4
    <3>7. CASE ~ (m >= y)
      <4>1. \A x \in s : y >= x
        <5> TAKE x \in s
        <5>1. x \in Nat
          OBVIOUS
        <5> QED BY <5>1, <3>4, <3>5, <3>7
      <4> QED BY <4>1, <2>5, <2>4
    <3> QED BY <3>6, <3>7
  <2> QED BY <2>8, <2>9
<1>5. \E m \in S : \A x \in S : m >= x
  BY <1>1, <1>4
<1> QED BY <1>5 DEF Max

\* What a plan reserves is as much as any price of the card.
LEMMA PeakIsHighest ==
  ASSUME NEW prices, IsFiniteSet(prices), prices \subseteq Nat \X Nat, NEW price \in prices
  PROVE  PeakRates(prices)[1] >= price[1] /\ PeakRates(prices)[2] >= price[2]
<1> DEFINE S == {p[1] : p \in prices}
           T == {p[2] : p \in prices}
<1>1. PeakRates(prices) = <<Max(S), Max(T)>>
  BY DEF PeakRates
<1>2. IsFiniteSet(S) /\ IsFiniteSet(T)
  <2>1. [p \in prices |-> p[1]] \in Surjection(prices, S)
    BY DEF Surjection
  <2>2. [p \in prices |-> p[2]] \in Surjection(prices, T)
    BY DEF Surjection
  <2> QED BY <2>1, <2>2, FS_Surjection
<1>3. price[1] \in S /\ price[2] \in T /\ S \subseteq Nat /\ T \subseteq Nat
  OBVIOUS
<1> HIDE DEF S, T
<1>4. Max(S) >= price[1] /\ Max(T) >= price[2]
  BY <1>2, <1>3, LargestExists
<1> QED BY <1>1, <1>4

LEMMA PlanIsPrepared ==
  ASSUME NEW c \in Configurations, NEW k \in Catalogues, NEW r,
         NEW plan, plan = PlanOf(k, r) \/ plan = NoPlan, ~ Collides(c, plan),
         NEW p, p.conf = Expanded(c, plan), p.plan = plan, p.read = k
  PROVE  Prepared(p)
<1>1. /\ p.conf.providers = c.providers \cup plan.providers
      /\ AccountsOf(p.conf.providers) \subseteq p.conf.budgets
  BY DEF Expanded
<1>2. ASSUME NEW q \in plan.providers, NEW s \in plan.providers, q.id = s.id PROVE q = s
  <2>1. plan = PlanOf(k, r)
    BY <1>2 DEF NoPlan
  <2>2. plan.providers = {GeneratedProvider(name, k.cards[name]) : name \in Bound(k, r)}
    BY <2>1 DEF PlanOf
  <2>3. PICK m \in Bound(k, r) : q = GeneratedProvider(m, k.cards[m])
    BY <2>2
  <2>4. PICK n \in Bound(k, r) : s = GeneratedProvider(n, k.cards[n])
    BY <2>2
  <2>5. m = n
    BY <1>2, <2>3, <2>4 DEF GeneratedProvider, Generated
  <2> QED BY <2>3, <2>4, <2>5
<1>3. ASSUME NEW q \in c.providers, NEW s \in plan.providers PROVE q.id # s.id
  BY DEF Collides
<1>4. \A q, s \in p.conf.providers : q.id = s.id => q = s
  BY <1>1, <1>2, <1>3, AdmissionAssumption
<1>5. ASSUME NEW name \in plan.bindings, NEW price \in k.cards[name].prices, NEW i \in 1 .. 2
      PROVE  plan.rates[name][i] >= price[i]
  <2>1. plan = PlanOf(k, r)
    BY <1>5 DEF NoPlan
  <2>2. name \in Bound(k, r) /\ plan.rates[name] = PeakRates(k.cards[name].prices)
    BY <2>1 DEF PlanOf
  <2>3. name \in DOMAIN k.cards
    BY <2>2 DEF Bound
  <2>4. IsFiniteSet(k.cards[name].prices) /\ k.cards[name].prices \subseteq Nat \X Nat
    BY <2>3, AdmissionAssumption
  <2>5. /\ PeakRates(k.cards[name].prices)[1] >= price[1]
        /\ PeakRates(k.cards[name].prices)[2] >= price[2]
    BY <2>4, PeakIsHighest
  <2>6. i = 1 \/ i = 2
    OBVIOUS
  <2> QED BY <2>2, <2>5, <2>6
<1> QED BY <1>1, <1>4, <1>5 DEF Prepared

\* What bind_provider_accounts does to the reservations it takes.
LEMMA BackfillFacts ==
  ASSUME NEW providers, \A p, q \in providers : p.id = q.id => p = q, ~ Conflict(providers),
         \A r \in rows : r = [provider |-> r.provider, account |-> r.account]
  PROVE  /\ \A r \in Backfilled(providers) : r = [provider |-> r.provider, account |-> r.account]
         /\ OnAccount(providers, Backfilled(providers))
<1> DEFINE owner(r) == {p \in providers : p.id = r.provider /\ p.account # Nobody}
           new(r) == IF r.account = Nobody /\ owner(r) # {}
                     THEN [r EXCEPT !.account = (CHOOSE p \in owner(r) : TRUE).account] ELSE r
<1>1. Backfilled(providers) = {new(r) : r \in rows}
  BY DEF Backfilled
<1>2. ASSUME NEW r \in rows
      PROVE  /\ new(r) = [provider |-> new(r).provider, account |-> new(r).account]
             /\ \A p \in providers : new(r).provider = p.id => new(r).account = p.account
  <2>1. r = [provider |-> r.provider, account |-> r.account]
    OBVIOUS
  <2>2. CASE r.account = Nobody /\ owner(r) # {}
    <3>1. PICK p \in owner(r) : p = CHOOSE q \in owner(r) : TRUE
      BY <2>2
    <3>2. new(r) = [r EXCEPT !.account = p.account]
      BY <2>2, <3>1
    <3>3. new(r) = [provider |-> r.provider, account |-> p.account]
      BY <2>1, <3>2
    <3>4. p \in providers /\ p.id = r.provider
      BY <3>1
    <3> HIDE DEF new
    <3> QED BY <3>3, <3>4
  <2>3. CASE ~ (r.account = Nobody /\ owner(r) # {})
    <3>1. new(r) = r
      BY <2>3
    <3>2. ASSUME NEW p \in providers, r.provider = p.id PROVE r.account = p.account
      <4>1. r.account = Nobody \/ r.account = p.account
        BY <3>2 DEF Conflict
      <4>2. r.account = Nobody => p.account = Nobody
        BY <2>3, <3>2
      <4> QED BY <4>1, <4>2
    <3> HIDE DEF new
    <3> QED BY <2>1, <3>1, <3>2
  <2> QED BY <2>2, <2>3
<1> HIDE DEF new
<1> QED BY <1>1, <1>2 DEF OnAccount

\* What an accepted catalogue says of the providers.
LEMMA AcceptedIsReviewed ==
  ASSUME NEW c, NEW plan, NEW ids, NEW aux, CatalogueAccepted(c, plan, ids, aux)
  PROVE  /\ \A id \in ids \ aux :
              Cardinality({name \in DOMAIN c.cards : id \in Claims(c, plan, name)}) = 1
         /\ \A name \in DOMAIN c.cards : c.cards[name].stage = "quarantined" =>
              Claims(c, plan, name) \cap ids = {}
<1>1. \A name \in DOMAIN c.cards : CardAccepted(c, plan, ids, aux, name)
  BY DEF CatalogueAccepted
<1>2. ASSUME NEW id \in ids \ aux
      PROVE  Cardinality({name \in DOMAIN c.cards : id \in Claims(c, plan, name)}) = 1
  <2>1. PICK name \in DOMAIN c.cards : id \in Claims(c, plan, name)
    BY DEF CatalogueAccepted
  <2>2. \A other \in DOMAIN c.cards \ {name} : id \notin Claims(c, plan, other)
    BY <1>1, <2>1 DEF CardAccepted
  <2>3. {n \in DOMAIN c.cards : id \in Claims(c, plan, n)} = {name}
    BY <2>1, <2>2
  <2> QED BY <2>3, FS_Singleton
<1>3. ASSUME NEW name \in DOMAIN c.cards, c.cards[name].stage = "quarantined"
      PROVE  Claims(c, plan, name) \cap ids = {}
  <2>1. name \notin plan.bindings
    BY <1>1, <1>3 DEF CardAccepted, BindingSafe
  <2>2. StageOf(c, plan, name) = "quarantined"
    BY <1>3, <2>1 DEF StageOf
  <2>3. Claims(c, plan, name) = {}
    BY <1>1, <2>2 DEF CardAccepted
  <2> QED BY <2>3
<1> QED BY <1>2, <1>3

LEMMA StartKeepsAdmission ==
  ASSUME AdmissionInv, part = "start", part' = part, Start
  PROVE  AdmissionInv'
<1>1. /\ proc' = [at |-> "expand", conf |-> conf] \/ proc' = Down
      /\ UNCHANGED <<conf, cat, reg, rows>>
  BY DEF Start, Proceed
<1>2. conf \in Configurations
  BY DEF AdmissionInv, AdmissionFiles
<1>3. ProcInv'
  BY <1>1, <1>2 DEF ProcInv
<1>4. RowsInv'
  BY <1>1 DEF AdmissionInv, RowsInv, Down
<1> QED BY <1>1, <1>3, <1>4 DEF AdmissionInv, AdmissionFiles

LEMMA ExpandKeepsAdmission ==
  ASSUME AdmissionInv, part = "start", part' = part, Expand
  PROVE  AdmissionInv'
<1>1. PICK plan : /\ plan = PlanOf(cat, reg) \/ plan = NoPlan
                  /\ Proceed(~ Collides(proc.conf, plan),
                             [at |-> "bind", conf |-> Expanded(proc.conf, plan), plan |-> plan,
                              read |-> cat])
  BY DEF Expand
<1>2. UNCHANGED <<conf, cat, reg, rows>> /\ proc.at = "expand"
  BY DEF Expand
<1>3. proc.conf \in Configurations /\ cat \in Catalogues
  BY <1>2 DEF AdmissionInv, AdmissionFiles, ProcInv, Down
<1>4. PICK p : p = [at |-> "bind", conf |-> Expanded(proc.conf, plan), plan |-> plan,
                    read |-> cat]
  OBVIOUS
<1>5. p.at = "bind" /\ p.conf = Expanded(proc.conf, plan) /\ p.plan = plan /\ p.read = cat
  BY <1>4
<1>6. ~ Collides(proc.conf, plan) => Prepared(p)
  BY <1>1, <1>3, <1>5, PlanIsPrepared
<1>7. proc' = Down \/ (~ Collides(proc.conf, plan) /\ proc' = p)
  BY <1>1, <1>4 DEF Proceed
<1>8. p = [at |-> p.at, conf |-> p.conf, plan |-> p.plan, read |-> p.read]
  BY <1>4
<1>9. ProcInv'
  <2>1. CASE proc' = Down
    BY <2>1 DEF ProcInv
  <2>2. CASE proc' = p /\ Prepared(p)
    <3>1. proc' = [at |-> "bind", conf |-> proc'.conf, plan |-> proc'.plan, read |-> proc'.read]
      BY <2>2, <1>5, <1>8
    <3> QED BY <2>2, <3>1 DEF ProcInv
  <2> QED BY <2>1, <2>2, <1>6, <1>7
<1>10. RowsInv'
  BY <1>2, <1>5, <1>7 DEF AdmissionInv, RowsInv, Down
<1> QED BY <1>2, <1>9, <1>10 DEF AdmissionInv, AdmissionFiles

\* From "bind" to "load", and from "register" to "up", only the place changes.
LEMMA AtOnly ==
  ASSUME NEW at, NEW to,
         NEW p, p = [at |-> at, conf |-> p.conf, plan |-> p.plan, read |-> p.read],
         NEW q, q = [p EXCEPT !.at = to]
  PROVE  /\ q = [at |-> to, conf |-> q.conf, plan |-> q.plan, read |-> q.read]
         /\ q.at = to /\ q.conf = p.conf /\ q.plan = p.plan /\ q.read = p.read
  OBVIOUS

LEMMA BindKeepsAdmission ==
  ASSUME AdmissionInv, part = "start", part' = part, Bind
  PROVE  AdmissionInv'
<1>1. /\ proc.at = "bind" /\ UNCHANGED <<conf, cat, reg>>
      /\ rows' = IF Conflict(proc.conf.providers) THEN rows ELSE Backfilled(proc.conf.providers)
      /\ proc' = IF ~ Conflict(proc.conf.providers) THEN [proc EXCEPT !.at = "load"] ELSE Down
  BY DEF Bind, Proceed
<1>2. /\ proc = [at |-> "bind", conf |-> proc.conf, plan |-> proc.plan, read |-> proc.read]
      /\ Prepared(proc)
  BY <1>1 DEF AdmissionInv, ProcInv, Down
<1>3. \A r \in rows : r = [provider |-> r.provider, account |-> r.account]
  BY DEF AdmissionInv, RowsInv
<1>4. CASE Conflict(proc.conf.providers)
  <2>1. proc' = Down /\ rows' = rows
    BY <1>1, <1>4
  <2> QED BY <1>1, <1>3, <2>1 DEF AdmissionInv, AdmissionFiles, ProcInv, RowsInv, Down
<1>5. CASE ~ Conflict(proc.conf.providers)
  <2>1. rows' = Backfilled(proc.conf.providers) /\ proc' = [proc EXCEPT !.at = "load"]
    BY <1>1, <1>5
  <2>2. PICK p : p = [proc EXCEPT !.at = "load"]
    OBVIOUS
  <2>3. /\ p = [at |-> "load", conf |-> p.conf, plan |-> p.plan, read |-> p.read]
        /\ p.conf = proc.conf /\ p.plan = proc.plan /\ p.read = proc.read
    BY <1>2, <2>2, AtOnly
  <2>4. Prepared(p)
    BY <1>2, <2>3 DEF Prepared
  <2>5. ProcInv'
    BY <2>1, <2>2, <2>3, <2>4 DEF ProcInv
  <2>6. \A q, r \in proc.conf.providers : q.id = r.id => q = r
    BY <1>2 DEF Prepared
  <2>7. /\ \A r \in rows' : r = [provider |-> r.provider, account |-> r.account]
        /\ OnAccount(proc.conf.providers, rows')
    BY <1>3, <1>5, <2>1, <2>6, BackfillFacts
  <2>8. RowsInv'
    BY <2>1, <2>2, <2>3, <2>7 DEF RowsInv
  <2> QED BY <1>1, <2>5, <2>8 DEF AdmissionInv, AdmissionFiles
<1> QED BY <1>4, <1>5

LEMMA LoadCatalogueKeepsAdmission ==
  ASSUME AdmissionInv, part = "start", part' = part, LoadCatalogue
  PROVE  AdmissionInv'
<1>1. PICK p : p = [at |-> "register", conf |-> proc.conf, plan |-> proc.plan,
                    read |-> proc.read, served |-> cat]
  OBVIOUS
<1>2. /\ proc.at = "load" /\ UNCHANGED <<conf, cat, reg, rows>>
      /\ \/ proc' = Down
         \/ proc' = p /\ CatalogueAccepted(cat, proc.plan, Ids(proc.conf), proc.conf.aux)
  BY <1>1 DEF LoadCatalogue, Proceed
<1>3. /\ p = [at |-> "register", conf |-> p.conf, plan |-> p.plan, read |-> p.read,
              served |-> p.served]
      /\ p.at = "register"
      /\ p.conf = proc.conf /\ p.plan = proc.plan /\ p.read = proc.read /\ p.served = cat
  BY <1>1
<1>4. Prepared(proc) /\ OnAccount(proc.conf.providers, rows)
  BY <1>2 DEF AdmissionInv, ProcInv, RowsInv, Down
<1>5. Prepared(p)
  BY <1>3, <1>4 DEF Prepared
<1>6. CASE proc' = Down
  BY <1>2, <1>6 DEF AdmissionInv, AdmissionFiles, ProcInv, RowsInv, Down
<1>7. CASE proc' = p /\ CatalogueAccepted(cat, proc.plan, Ids(proc.conf), proc.conf.aux)
  <2>1. CatalogueAccepted(p.served, p.plan, Ids(p.conf), p.conf.aux)
    BY <1>3, <1>7
  <2>2. ProcInv'
    BY <1>3, <1>5, <1>7, <2>1 DEF ProcInv
  <2>3. RowsInv'
    BY <1>2, <1>3, <1>4, <1>7 DEF AdmissionInv, RowsInv
  <2> QED BY <1>2, <2>2, <2>3 DEF AdmissionInv, AdmissionFiles
<1> QED BY <1>2, <1>6, <1>7

LEMMA LoadRegistryKeepsAdmission ==
  ASSUME AdmissionInv, part = "start", part' = part, LoadRegistry
  PROVE  AdmissionInv'
<1>1. PICK p : p = [proc EXCEPT !.at = "up"]
  OBVIOUS
<1>2. proc.at = "register" /\ UNCHANGED <<conf, cat, reg, rows>> /\ proc' \in {Down, p}
  BY <1>1 DEF LoadRegistry, Proceed
<1>3. /\ proc = [at |-> "register", conf |-> proc.conf, plan |-> proc.plan, read |-> proc.read,
                 served |-> proc.served]
      /\ Prepared(proc)
      /\ CatalogueAccepted(proc.served, proc.plan, Ids(proc.conf), proc.conf.aux)
      /\ OnAccount(proc.conf.providers, rows)
  BY <1>2 DEF AdmissionInv, ProcInv, RowsInv, Down
<1>4. p = [at |-> "up", conf |-> proc.conf, plan |-> proc.plan, read |-> proc.read,
           served |-> proc.served]
  BY <1>1, <1>3
<1>5. /\ p = [at |-> "up", conf |-> p.conf, plan |-> p.plan, read |-> p.read,
              served |-> p.served]
      /\ p.at = "up" /\ p.conf = proc.conf /\ p.plan = proc.plan /\ p.read = proc.read
      /\ p.served = proc.served
  BY <1>4
<1>6. Prepared(p) /\ CatalogueAccepted(p.served, p.plan, Ids(p.conf), p.conf.aux)
  BY <1>3, <1>5 DEF Prepared
<1>7. CASE proc' = Down
  BY <1>2, <1>7 DEF AdmissionInv, AdmissionFiles, ProcInv, RowsInv, Down
<1>8. CASE proc' = p
  <2>1. ProcInv'
    BY <1>5, <1>6, <1>8 DEF ProcInv
  <2>2. RowsInv'
    BY <1>2, <1>3, <1>5, <1>8 DEF AdmissionInv, RowsInv
  <2> QED BY <1>2, <2>1, <2>2 DEF AdmissionInv, AdmissionFiles
<1> QED BY <1>2, <1>7, <1>8

LEMMA ReserveKeepsAdmission ==
  ASSUME AdmissionInv, part = "start", part' = part, NEW p, Reserve(p)
  PROVE  AdmissionInv'
<1>1. /\ proc.at = "up" /\ p \in proc.conf.providers /\ UNCHANGED <<conf, cat, reg, proc>>
      /\ rows' = rows \cup {[provider |-> p.id, account |-> p.account]}
  BY DEF Reserve
<1>2. Prepared(proc) /\ OnAccount(proc.conf.providers, rows)
  BY <1>1 DEF AdmissionInv, ProcInv, RowsInv, Down
<1>3. PICK n : n = [provider |-> p.id, account |-> p.account]
  OBVIOUS
<1>4. n = [provider |-> n.provider, account |-> n.account] /\ n.provider = p.id /\ n.account = p.account
  BY <1>3
<1>5. \A q \in proc.conf.providers : n.provider = q.id => n.account = q.account
  BY <1>1, <1>2, <1>4 DEF Prepared
<1>6. rows' = rows \cup {n}
  BY <1>1, <1>3
<1>7. OnAccount(proc.conf.providers, rows')
  BY <1>2, <1>5, <1>6 DEF OnAccount
<1>8. RowsInv'
  BY <1>1, <1>4, <1>6, <1>7 DEF AdmissionInv, RowsInv
<1>9. ProcInv'
  BY <1>1 DEF AdmissionInv, ProcInv
<1> QED BY <1>1, <1>8, <1>9 DEF AdmissionInv, AdmissionFiles

LEMMA AdmissionKept ==
  ASSUME AdmissionInv, part = "start", part' = part, AdmissionNext
  PROVE  AdmissionInv'
<1>1. CASE Stop
  BY <1>1 DEF Stop, AdmissionInv, AdmissionFiles, ProcInv, RowsInv, Down
<1>2. CASE Edit
  <2>1. UNCHANGED <<proc, rows>> /\ AdmissionFiles'
    BY <1>2 DEF Edit, AdmissionInv, AdmissionFiles
  <2>2. ProcInv' /\ RowsInv'
    BY <2>1 DEF AdmissionInv, ProcInv, RowsInv
  <2> QED BY <2>1, <2>2 DEF AdmissionInv
<1>3. ASSUME NEW p, Reserve(p) PROVE AdmissionInv'
  BY <1>3, ReserveKeepsAdmission
<1> QED
  BY <1>1, <1>2, <1>3, StartKeepsAdmission, ExpandKeepsAdmission, BindKeepsAdmission,
     LoadCatalogueKeepsAdmission, LoadRegistryKeepsAdmission, Zenon DEF AdmissionNext

LEMMA AdmissionIdle ==
  ASSUME AdmissionInv, part' = part, UNCHANGED admissionVars
  PROVE  AdmissionInv'
<1>1. UNCHANGED <<conf, cat, reg, proc, rows>>
  BY DEF admissionVars
<1>2. ProcInv' /\ RowsInv'
  BY <1>1 DEF AdmissionInv, ProcInv, RowsInv
<1> QED BY <1>1, <1>2 DEF AdmissionInv, AdmissionFiles

LEMMA AdmissionInvIsEnough ==
  ASSUME AdmissionInv
  PROVE  RunningIsReviewed /\ ReservesThePeak /\ SpendingStaysOnAccount
<1>1. proc.at = "up" =>
        /\ Prepared(proc)
        /\ CatalogueAccepted(proc.served, proc.plan, Ids(proc.conf), proc.conf.aux)
        /\ OnAccount(proc.conf.providers, rows)
  BY DEF AdmissionInv, ProcInv, RowsInv, Down
<1>2. RunningIsReviewed
  BY <1>1, AcceptedIsReviewed DEF RunningIsReviewed, Prepared
<1>3. ReservesThePeak
  BY <1>1 DEF ReservesThePeak, Prepared
<1>4. SpendingStaysOnAccount
  BY <1>1 DEF SpendingStaysOnAccount, OnAccount
<1> QED BY <1>2, <1>3, <1>4

-----------------------------------------------------------------------------
(* THE PURE RULES OF ADMISSION                                             *)

\* Rates never fall from one accepted tier to a later one: of two tiers with falling
\* rates the later one has none before it.
LEMMA RatesGrow ==
  ASSUME NEW n \in Nat, NEW tiers \in [1 .. n -> [most : Nat, rates : Nat \X Nat]],
         TiersAccepted(tiers), NEW d \in 1 .. 2,
         NEW i \in 1 .. n, NEW j \in 1 .. n, i <= j
  PROVE  tiers[i].rates[d] <= tiers[j].rates[d]
<1>1. PICK F : F = {k \in 1 .. n : i <= k /\ ~ (tiers[i].rates[d] <= tiers[k].rates[d])}
  OBVIOUS
<1>2. ASSUME F # {} PROVE FALSE
  <2>1. PICK k \in F : \A m \in F : k <= m
    <3>1. F \in SUBSET Nat
      BY <1>1
    <3> QED BY <1>2, <3>1, MinIsIn
  <2>2. k \in 1 .. n /\ i <= k /\ ~ (tiers[i].rates[d] <= tiers[k].rates[d])
    BY <1>1, <2>1
  <2>3. \A m \in 1 .. n : tiers[m].rates \in Nat \X Nat
    OBVIOUS
  <2>4. \A m \in 1 .. n : tiers[m].rates[d] \in Nat
    BY <2>3
  <2>5. k # i
    BY <2>2, <2>4
  <2>6. PICK m \in 1 .. n : m = k - 1 /\ i <= m
    BY <2>2, <2>5
  <2>7. m \notin F
    BY <2>1, <2>2, <2>6
  <2>8. tiers[i].rates[d] <= tiers[m].rates[d]
    BY <1>1, <2>6, <2>7
  <2>9. DOMAIN tiers = 1 .. n /\ k > 1
    BY <2>2, <2>6
  <2>10. tiers[k].rates[d] >= tiers[m].rates[d]
    BY <2>2, <2>6, <2>9 DEF TiersAccepted
  <2>11. \A x, y, z \in Nat : x <= y /\ z >= y => x <= z
    OBVIOUS
  <2> QED BY <2>2, <2>4, <2>6, <2>8, <2>10, <2>11
<1> QED BY <1>1, <1>2

LEMMA ProductsGrow ==
  ASSUME NEW a \in Nat, NEW b \in Nat, NEW x \in Nat, NEW y \in Nat, a <= b, x <= y
  PROVE  a * x <= b * y /\ a * x \in Nat /\ b * y \in Nat
<1>1. PICK c \in Nat : b = a + c
  <2>1. b - a \in Nat /\ b = a + (b - a)
    OBVIOUS
  <2> QED BY <2>1
<1>2. PICK z \in Nat : y = x + z
  <2>1. y - x \in Nat /\ y = x + (y - x)
    OBVIOUS
  <2> QED BY <2>1
<1>3. \A p, q \in Nat : p * q \in Nat
  OBVIOUS
<1>4. b * y = a * x + a * z + c * x + c * z
  BY <1>1, <1>2
<1> QED BY <1>3, <1>4

LEMMA ReservationsCover ==
  ASSUME NEW n \in Nat, NEW tiers \in [1 .. n -> [most : Nat, rates : Nat \X Nat]],
         NEW e \in Nat \X Nat, NEW u \in Nat \X Nat
  PROVE  ReservationCovers(tiers, e, u)
<1> SUFFICES ASSUME TiersAccepted(tiers), Fitting(tiers, e[1]) # {}, u[1] <= e[1], u[2] <= e[2]
             PROVE  Bill(tiers, u) <= Bill(tiers, e)
  BY DEF ReservationCovers
<1>1. PICK E, U : E = Fitting(tiers, e[1]) /\ U = Fitting(tiers, u[1])
  OBVIOUS
<1>2. \A k \in 1 .. n : tiers[k].most \in Nat
  OBVIOUS
<1>3. E \subseteq U /\ U \subseteq 1 .. n /\ E # {}
  <2>1. DOMAIN tiers = 1 .. n /\ e[1] \in Nat /\ u[1] \in Nat
    OBVIOUS
  <2>2. \A k \in 1 .. n : e[1] <= tiers[k].most => u[1] <= tiers[k].most
    BY <1>2, <2>1
  <2> QED BY <1>1, <2>1, <2>2 DEF Fitting
<1>4. U \in SUBSET Nat /\ E \in SUBSET Nat /\ U # {}
  <2>1. 1 .. n \subseteq Nat
    OBVIOUS
  <2> QED BY <1>3, <2>1
<1>5. PICK i, j : i = Min(U) /\ j = Min(E)
  OBVIOUS
<1>6. i \in U /\ \A x \in U : i <= x
  BY <1>4, <1>5, MinIsIn
<1>7. j \in E
  BY <1>3, <1>4, <1>5, MinIsIn
<1>8. i \in 1 .. n /\ j \in 1 .. n /\ i <= j
  BY <1>3, <1>6, <1>7
<1>9. PICK p, q : p = tiers[i].rates /\ q = tiers[j].rates
  OBVIOUS
<1>10. p \in Nat \X Nat /\ q \in Nat \X Nat
  BY <1>8, <1>9
<1>11. p[1] <= q[1] /\ p[2] <= q[2]
  <2>1. \A d \in 1 .. 2 : p[d] <= q[d]
    BY <1>8, <1>9, RatesGrow
  <2> QED BY <2>1
<1>12. Bill(tiers, u) = u[1] * p[1] + u[2] * p[2] /\ Bill(tiers, e) = e[1] * q[1] + e[2] * q[2]
  BY <1>1, <1>5, <1>9 DEF Bill
<1>13. u[1] * p[1] <= e[1] * q[1] /\ u[1] * p[1] \in Nat /\ e[1] * q[1] \in Nat
  BY <1>10, <1>11, ProductsGrow
<1>14. u[2] * p[2] <= e[2] * q[2] /\ u[2] * p[2] \in Nat /\ e[2] * q[2] \in Nat
  BY <1>10, <1>11, ProductsGrow
<1>15. \A a, b, c, f \in Nat : a <= b /\ c <= f => a + c <= b + f
  OBVIOUS
<1> QED BY <1>12, <1>13, <1>14, <1>15

\* What the plan writes for each account of the table.
LEMMA AdaptersAreAccepted ==
  ASSUME NEW a \in DOMAIN Integrations, NEW card, NEW model
  PROVE  GeneratedIsAccepted(a, card, model)
<1>1. a \in {"alibaba", "moonshot", "openai", "xai", "anthropic"}
  BY DEF Integrations
<1>2. Integrations[a] = IF a = "anthropic" THEN [auth |-> "anthropic", path |-> "/v1/messages"]
                        ELSE [auth |-> "bearer", path |-> "/chat/completions"]
  BY <1>1 DEF Integrations
<1>3. PICK p : p = GeneratedAdapter(a, card, model)
  OBVIOUS
<1>4. /\ p.kind = GeneratedKind(a) /\ p.auth = Integrations[a].auth
      /\ p.path = IF a = "openai" THEN "/responses" ELSE Integrations[a].path
      /\ p.family = a /\ p.thinking = "none" /\ p.model = model
      /\ p.dialect = IF card = "kimi-k3" THEN "moonshot_k3" ELSE "generic"
  BY <1>3 DEF GeneratedAdapter
<1>5. AdapterAccepted(p) <=> (card = "kimi-k3" => a = "moonshot" /\ model = "kimi-k3")
  <2>1. DialectAccepted(p) <=> (card = "kimi-k3" => a = "moonshot" /\ model = "kimi-k3")
    BY <1>1, <1>4 DEF DialectAccepted
  <2> QED BY <1>1, <1>2, <1>4, <2>1 DEF AdapterAccepted, GeneratedKind
<1> QED BY <1>3, <1>5 DEF GeneratedIsAccepted

LEMMA CredentialsAreSeparate ==
  ASSUME NEW n \in Nat, NEW accounts, DOMAIN accounts = 1 .. n,
         \A i \in 1 .. n : \A e \in accounts[i].endpoints :
           e.capabilities \subseteq DOMAIN accounts[i].access
  PROVE  CredentialsServeOnePurpose(accounts)
<1> SUFFICES ASSUME RegistryAccepted(accounts)
             PROVE  /\ \A u, v \in Uses(accounts) : u[3] = v[3] /\ u[3] # NoReference => u = v
                    /\ \A i \in DOMAIN accounts : \A e \in accounts[i].endpoints :
                         \E u \in Uses(accounts) : u[1] = i /\ u[2] = e.scope /\ u[3] # NoReference
  BY DEF CredentialsServeOnePurpose
<1>1. \A i \in 1 .. n :
        /\ accounts[i].inference # NoReference /\ accounts[i].inference.prefix = "llm"
        /\ accounts[i].admin = NoReference \/ accounts[i].admin.prefix = "llm-admin"
  BY DEF RegistryAccepted, AccountAccepted, CredentialAccepted
<1>2. \A i \in 1 .. n : \A j \in 1 .. i - 1 :
        /\ accounts[j].inference # accounts[i].inference
        /\ accounts[j].admin = accounts[i].admin => accounts[i].admin = NoReference
  BY DEF RegistryAccepted
<1>3. \A i, j \in 1 .. n :
        /\ accounts[i].inference # accounts[j].admin
        /\ accounts[i].inference = accounts[j].inference => i = j
        /\ accounts[i].admin = accounts[j].admin /\ accounts[i].admin # NoReference => i = j
  <2> SUFFICES ASSUME NEW i \in 1 .. n, NEW j \in 1 .. n
               PROVE  /\ accounts[i].inference # accounts[j].admin
                      /\ accounts[i].inference = accounts[j].inference => i = j
                      /\ accounts[i].admin = accounts[j].admin /\ accounts[i].admin # NoReference => i = j
    OBVIOUS
  <2>1. i = j \/ i \in 1 .. j - 1 \/ j \in 1 .. i - 1
    OBVIOUS
  <2> QED BY <1>1, <1>2, <2>1
<1>4. \A u \in Uses(accounts) : \E i \in 1 .. n :
        u = <<i, "inference", accounts[i].inference>> \/ u = <<i, "admin_finance", accounts[i].admin>>
  BY DEF Uses
<1>5. ASSUME NEW u \in Uses(accounts), NEW v \in Uses(accounts), u[3] = v[3], u[3] # NoReference
      PROVE  u = v
  BY <1>3, <1>4, <1>5
<1>6. ASSUME NEW i \in 1 .. n, NEW e \in accounts[i].endpoints
      PROVE  \E u \in Uses(accounts) : u[1] = i /\ u[2] = e.scope /\ u[3] # NoReference
  <2>1. /\ EndpointAccepted(accounts[i], e)
        /\ (\E capability \in DOMAIN accounts[i].access :
              accounts[i].access[capability] \in {"admin_api", "cloud_billing_api"})
             => accounts[i].admin # NoReference
    BY <1>6 DEF RegistryAccepted, AccountAccepted
  <2>2. /\ <<i, "inference", accounts[i].inference>> \in Uses(accounts)
        /\ <<i, "admin_finance", accounts[i].admin>> \in Uses(accounts)
    BY DEF Uses
  <2>3. CASE e.access = "direct_api"
    <3>1. e.scope = "inference"
      BY <2>1, <2>3 DEF EndpointAccepted, ScopeOf
    <3>2. PICK u \in Uses(accounts) : u = <<i, "inference", accounts[i].inference>>
      BY <2>2
    <3>3. u[1] = i /\ u[2] = e.scope /\ u[3] # NoReference
      BY <1>1, <3>1, <3>2
    <3> QED BY <3>3
  <2>4. CASE e.access \in {"admin_api", "cloud_billing_api"}
    <3>1. e.scope = "admin_finance"
      BY <2>1, <2>4 DEF EndpointAccepted, ScopeOf
    <3>2. PICK capability \in e.capabilities : accounts[i].access[capability] = e.access
      BY <2>1 DEF EndpointAccepted
    <3>3. accounts[i].admin # NoReference
      BY <1>6, <2>1, <2>4, <3>2
    <3>4. PICK u \in Uses(accounts) : u = <<i, "admin_finance", accounts[i].admin>>
      BY <2>2
    <3>5. u[1] = i /\ u[2] = e.scope /\ u[3] # NoReference
      BY <3>1, <3>3, <3>4
    <3> QED BY <3>5
  <2> QED BY <2>1, <2>3, <2>4 DEF EndpointAccepted
<1> QED BY <1>5, <1>6

-----------------------------------------------------------------------------
(* THE BALANCES OF THE PROVIDERS                                           *)

Owners(results) == [i \in DOMAIN results |-> results[i].account]

Listed(s) == s \in Seq(ToSet(s))

\* What the worker may answer for one account under its registry.
Understood(g, r) ==
  /\ SameContract(g, r)
  /\ \/ /\ r.sight = 0
        /\ StaticValid(g, r) \/ (r.mode = "direct_api" /\ r.account \notin Parsers)
     \/ r.sight # 0 /\ (SnapshotValid(r) \/ r.balance.amount = "minus zero")

\* The results of a job and the accounts that are left make up what was asked for.
JobInv(g, job) ==
  job # NoJob =>
    /\ job = [caller |-> job.caller, asked |-> job.asked, left |-> job.left,
              results |-> job.results]
    /\ Listed(job.left) /\ Listed(job.results)
    /\ Owners(job.results) \o job.left = Expected(job.asked)
    /\ \A i \in DOMAIN job.results : Understood(g, job.results[i])

KeptIsStored(kept, t) == \A i \in DOMAIN kept : kept[i].sight # 0 => kept[i] \in ToSet(t)

\* A refresh that stores: what it has kept and what is to come make up what was asked
\* for, all of it observed under the registry k, and its balances are in the table t.
StoreInv(r, k, t) ==
  /\ r = [at |-> "store", asked |-> r.asked, results |-> r.results, kept |-> r.kept]
  /\ Listed(r.results) /\ Listed(r.kept)
  /\ Owners(r.kept) \o Owners(r.results) = Expected(r.asked)
  /\ \A i \in DOMAIN r.results : r.results[i].revision = k.revision
  /\ KeptIsStored(r.kept, t)

RefreshInv(r, k, t) ==
  /\ r.at \in {"idle", "wait", "failed", "store", "completed"}
  /\ r.at = "store" => StoreInv(r, k, t)
  /\ r.at = "completed" => Owners(r.kept) = Expected(r.asked) /\ KeptIsStored(r.kept, t)

FinanceInv ==
  /\ sights \in Nat
  /\ worker = [registry |-> worker.registry, job |-> worker.job]
  /\ JobInv(worker.registry, worker.job)
  /\ refreshes = [c \in Callers |-> refreshes[c]]
  /\ keeper = NotRunning => \A c \in Callers : refreshes[c].at = "idle"
  /\ \A c \in Callers : RefreshInv(refreshes[c], keeper, table)
  /\ Listed(table) /\ CapacityKept

\* A sequence is one of its own elements.
LEMMA SequencesAreListed ==
  ASSUME NEW S, NEW s \in Seq(S)
  PROVE  Listed(s) /\ DOMAIN s = 1 .. Len(s) /\ Len(s) \in Nat
<1>1. DOMAIN s = 1 .. Len(s) /\ Len(s) \in Nat /\ s = [i \in 1 .. Len(s) |-> s[i]]
  OBVIOUS
<1>2. \A i \in 1 .. Len(s) : s[i] \in ToSet(s)
  BY <1>1 DEF ToSet
<1>3. s \in [1 .. Len(s) -> ToSet(s)]
  BY <1>1, <1>2
<1>4. \A n \in Nat : \A f \in [1 .. n -> ToSet(s)] : f \in Seq(ToSet(s))
  OBVIOUS
<1> QED BY <1>1, <1>3, <1>4 DEF Listed

LEMMA ListedAppend ==
  ASSUME NEW s, NEW e, Listed(s)
  PROVE  /\ Listed(Append(s, e)) /\ ToSet(Append(s, e)) = ToSet(s) \cup {e}
         /\ Owners(Append(s, e)) = Append(Owners(s), e.account)
<1>1. PICK S : S = ToSet(s) \cup {e}
  OBVIOUS
<1>2. s \in Seq(S) /\ e \in S
  <2>1. s \in Seq(ToSet(s)) /\ ToSet(s) \subseteq S
    BY <1>1 DEF Listed
  <2> QED BY <1>1, <2>1
<1>3. PICK a : a = Append(s, e)
  OBVIOUS
<1>4. a \in Seq(S) /\ Len(a) = Len(s) + 1 /\ a[Len(s) + 1] = e /\ \A i \in 1 .. Len(s) : a[i] = s[i]
  BY <1>2, <1>3
<1>5. Listed(a)
  BY <1>4, SequencesAreListed
<1>6. DOMAIN s = 1 .. Len(s) /\ DOMAIN a = 1 .. Len(s) + 1 /\ Len(s) \in Nat
  BY <1>2, <1>4
<1>7. DOMAIN a = DOMAIN s \cup {Len(s) + 1}
  BY <1>6
<1>8. ToSet(a) = ToSet(s) \cup {e}
  BY <1>4, <1>6, <1>7 DEF ToSet
<1>9. Owners(a) = Append(Owners(s), e.account)
  <2>1. PICK o : o = Owners(s)
    OBVIOUS
  <2>2. o = [i \in 1 .. Len(s) |-> s[i].account]
    BY <1>6, <2>1 DEF Owners
  <2>3. PICK T : T = {s[i].account : i \in 1 .. Len(s)} \cup {e.account}
    OBVIOUS
  <2>4. o \in Seq(T) /\ Len(o) = Len(s) /\ e.account \in T
    BY <1>6, <2>2, <2>3
  <2>5. Append(o, e.account) = [i \in 1 .. Len(s) + 1 |-> IF i = Len(s) + 1 THEN e.account ELSE o[i]]
    BY <1>6, <2>4
  <2>6. Owners(a) = [i \in 1 .. Len(s) + 1 |-> a[i].account]
    BY <1>6 DEF Owners
  <2>7. \A i \in 1 .. Len(s) + 1 : a[i].account = IF i = Len(s) + 1 THEN e.account ELSE o[i]
    BY <1>4, <1>6, <2>2
  <2> QED BY <2>1, <2>5, <2>6, <2>7
<1> QED BY <1>3, <1>5, <1>8, <1>9

LEMMA ListedTail ==
  ASSUME NEW s, Listed(s), s # <<>>
  PROVE  /\ Listed(Tail(s)) /\ Owners(Tail(s)) = Tail(Owners(s))
         /\ Head(Owners(s)) = Head(s).account /\ Owners(s) # <<>>
         /\ DOMAIN Tail(s) = 1 .. Len(s) - 1
         /\ \A i \in DOMAIN Tail(s) : i + 1 \in DOMAIN s /\ Tail(s)[i] = s[i + 1]
<1>1. PICK S : S = ToSet(s)
  OBVIOUS
<1>2. s \in Seq(S) /\ Len(s) \in Nat /\ Len(s) # 0 /\ DOMAIN s = 1 .. Len(s)
  BY <1>1 DEF Listed
<1>3. PICK t : t = Tail(s)
  OBVIOUS
<1>4. /\ t \in Seq(S) /\ Len(t) = Len(s) - 1 /\ DOMAIN t = 1 .. Len(s) - 1
      /\ \A i \in 1 .. Len(s) - 1 : i + 1 \in 1 .. Len(s) /\ t[i] = s[i + 1]
  BY <1>2, <1>3
<1>5. Listed(t)
  BY <1>4, SequencesAreListed
<1>6. PICK o : o = Owners(s)
  OBVIOUS
<1>7. o = [i \in 1 .. Len(s) |-> s[i].account]
  BY <1>2, <1>6 DEF Owners
<1>8. PICK T : T = {s[i].account : i \in 1 .. Len(s)}
  OBVIOUS
<1>9. o \in Seq(T) /\ Len(o) = Len(s)
  BY <1>2, <1>7, <1>8
<1>10. o # <<>> /\ Head(o) = o[1] /\ Head(s) = s[1]
  BY <1>2, <1>9
<1>11. o[1] = s[1].account
  BY <1>2, <1>7
<1>12. PICK u : u = Tail(o)
  OBVIOUS
<1>13. u \in Seq(T) /\ Len(u) = Len(s) - 1 /\ \A i \in 1 .. Len(s) - 1 : u[i] = o[i + 1]
  BY <1>2, <1>9, <1>12
<1>14. PICK v : v = [i \in 1 .. Len(s) - 1 |-> t[i].account]
  OBVIOUS
<1>15. \A i \in 1 .. Len(s) - 1 : v[i] = o[i + 1] /\ v[i] \in T
  BY <1>2, <1>4, <1>7, <1>8, <1>14
<1>16. v \in Seq(T) /\ Len(v) = Len(s) - 1
  BY <1>2, <1>14, <1>15
<1>17. u = v
  BY <1>13, <1>15, <1>16, SeqEqual
<1>18. Owners(t) = Tail(o)
  BY <1>4, <1>12, <1>14, <1>17 DEF Owners
<1> QED BY <1>2, <1>3, <1>4, <1>5, <1>6, <1>10, <1>11, <1>18

LEMMA OwnersAreSequences ==
  ASSUME NEW s, Listed(s)
  PROVE  \E T : Owners(s) \in Seq(T)
<1>1. s \in Seq(ToSet(s)) /\ DOMAIN s = 1 .. Len(s) /\ Len(s) \in Nat
  BY DEF Listed
<1>2. PICK T : T = {s[i].account : i \in 1 .. Len(s)}
  OBVIOUS
<1>3. Owners(s) \in [1 .. Len(s) -> T]
  BY <1>1, <1>2 DEF Owners
<1>4. \A n \in Nat : \A f \in [1 .. n -> T] : f \in Seq(T)
  OBVIOUS
<1> QED BY <1>1, <1>3, <1>4

\* What is moved from the head of one sequence to the end of another leaves both
\* together as they were.
LEMMA MovedOver ==
  ASSUME NEW S, NEW s \in Seq(S), NEW T, NEW t \in Seq(T), t # <<>>
  PROVE  Append(s, Head(t)) \o Tail(t) = s \o t
<1>1. PICK R : R = S \cup T
  OBVIOUS
<1>2. s \in Seq(R) /\ t \in Seq(R) /\ Len(t) \in Nat /\ Len(t) # 0 /\ Len(s) \in Nat
  BY <1>1
<1>3. PICK a, b : a = Append(s, Head(t)) /\ b = Tail(t)
  OBVIOUS
<1>4. a \in Seq(R) /\ b \in Seq(R) /\ Len(a) = Len(s) + 1 /\ Len(b) = Len(t) - 1
  BY <1>2, <1>3
<1>5. /\ \A i \in 1 .. Len(s) : a[i] = s[i]
      /\ a[Len(s) + 1] = t[1]
      /\ \A i \in 1 .. Len(t) - 1 : b[i] = t[i + 1]
  BY <1>2, <1>3
<1>6. PICK x, y : x = a \o b /\ y = s \o t
  OBVIOUS
<1>7. /\ x \in Seq(R) /\ y \in Seq(R) /\ Len(x) = Len(s) + Len(t) /\ Len(y) = Len(s) + Len(t)
  <2>1. x \in Seq(R) /\ Len(x) = Len(a) + Len(b)
    BY <1>4, <1>6, ConcatProperties
  <2>2. y \in Seq(R) /\ Len(y) = Len(s) + Len(t)
    BY <1>2, <1>6, ConcatProperties
  <2> QED BY <1>2, <1>4, <2>1, <2>2
<1>8. ASSUME NEW i \in 1 .. Len(s) + Len(t) PROVE x[i] = y[i]
  <2>1. x[i] = IF i <= Len(a) THEN a[i] ELSE b[i - Len(a)]
    BY <1>2, <1>4, <1>6
  <2>2. y[i] = IF i <= Len(s) THEN s[i] ELSE t[i - Len(s)]
    BY <1>2, <1>6
  <2>3. CASE i <= Len(s)
    BY <1>2, <1>4, <1>5, <2>1, <2>2, <2>3
  <2>4. CASE i = Len(s) + 1
    BY <1>2, <1>4, <1>5, <2>1, <2>2, <2>4
  <2>5. CASE i > Len(s) + 1
    <3>1. PICK k \in 1 .. Len(t) - 1 : k = i - Len(a)
      <4>1. i - Len(a) \in 1 .. Len(t) - 1
        BY <1>2, <1>4, <2>5
      <4> QED BY <4>1
    <3>2. k + 1 = i - Len(s) /\ ~ (i <= Len(a)) /\ ~ (i <= Len(s))
      BY <1>2, <1>4, <2>5, <3>1
    <3> QED BY <1>5, <2>1, <2>2, <3>1, <3>2
  <2> QED BY <1>2, <2>3, <2>4, <2>5
<1>9. x = y
  BY <1>2, <1>7, <1>8, SeqEqual
<1> QED BY <1>3, <1>6, <1>9

LEMMA ExpectedIsListed ==
  ASSUME NEW a \in {"all"} \cup ToSet(Order)
  PROVE  Listed(Expected(a))
<1>1. Listed(Order)
  BY FinanceAssumption DEF FinanceAssumption, Listed
<1>2. PICK s : s = <<a>>
  OBVIOUS
<1>3. s \in Seq({a})
  BY <1>2
<1>4. Listed(s)
  BY <1>3, SequencesAreListed
<1> QED BY <1>1, <1>2, <1>4 DEF Expected

LEMMA RefreshLater ==
  ASSUME NEW r, NEW k, NEW s, NEW t, RefreshInv(r, k, s), ToSet(s) \subseteq ToSet(t)
  PROVE  RefreshInv(r, k, t)
BY DEF RefreshInv, StoreInv, KeptIsStored

\* A refresh that does not store depends on no registry.
LEMMA NotStoring ==
  ASSUME NEW r, NEW k, NEW l, NEW t, RefreshInv(r, k, t), r.at # "store"
  PROVE  RefreshInv(r, l, t)
BY DEF RefreshInv

LEMMA EndedKeeps ==
  ASSUME NEW c \in Callers, FinanceInv, NEW d \in Callers
  PROVE  /\ Ended(c, "failed")[d] = IF d = c THEN Ended(c, "failed")[c] ELSE refreshes[d]
         /\ Ended(c, "failed")[c].at = "failed"
         /\ Ended(c, "failed") = [e \in Callers |-> Ended(c, "failed")[e]]
<1>1. PICK x : x = [at |-> "failed", asked |-> refreshes[c].asked, kept |-> <<>>]
  OBVIOUS
<1>2. x.at = "failed"
  BY <1>1
<1>3. Ended(c, "failed") = [refreshes EXCEPT ![c] = x]
  BY <1>1 DEF Ended
<1>4. DOMAIN refreshes = Callers
  BY DEF FinanceInv
<1> QED BY <1>2, <1>3, <1>4

LEMMA FailedIsFine ==
  ASSUME NEW r, NEW k, NEW t, r.at \in {"idle", "wait", "failed"}
  PROVE  RefreshInv(r, k, t)
BY DEF RefreshInv

\* What the worker finds out about an account it could say to the orchestrator, but for
\* an amount of minus zero and for an account without a parser.
LEMMA ExaminedIsUnderstood ==
  ASSUME NEW g, NEW a, NEW reply \in Replies, reply # "uncaught", sights \in Nat,
         NEW r, r = Examined(g, a, reply)
  PROVE  Understood(g, r) /\ r.account = a
<1>1. PICK static : static = StaticStatus(g, a)
  OBVIOUS
<1>2. CASE static # "never_refreshed"
  <2>1. r = ResultOf(g, a, static, NoBalance, 0)
    BY <1>1, <1>2 DEF Examined
  <2>2. /\ r.account = a /\ r.revision = g.revision /\ r.mode = g.mode[a] /\ r.status = static
        /\ r.balance = NoBalance /\ r.sight = 0
    BY <2>1 DEF ResultOf
  <2>3. static = StatusOfMode(g.mode[a]) \/ (g.mode[a] = "direct_api" /\ a \notin Parsers)
    BY <1>1 DEF StaticStatus
  <2> QED BY <2>2, <2>3 DEF Understood, SameContract, StaticValid
<1>3. CASE static = "never_refreshed"
  <2>1. PICK n : n = sights + 1
    OBVIOUS
  <2>2. n # 0
    BY <2>1
  <2>3. PICK st, bal : st = StatusOfReply(reply) /\ bal = BalanceOf(a, reply)
    OBVIOUS
  <2>4. r = ResultOf(g, a, st, bal, n)
    BY <1>1, <1>3, <2>1, <2>3 DEF Examined
  <2>5. /\ r.account = a /\ r.revision = g.revision /\ r.mode = g.mode[a] /\ r.status = st
        /\ r.balance = bal /\ r.sight = n
    BY <2>4 DEF ResultOf
  <2>6. reply \in {"no credential", "error", "malformed", "plain", "limit", "minus zero"}
    BY FinanceAssumption DEF FinanceAssumption
  <2>7. \/ st = "ok" /\ bal = [schema |-> a, amount |-> reply]
           /\ reply \in {"plain", "limit", "minus zero"}
        \/ /\ st \in {"credential_unavailable", "provider_unavailable", "unsupported_schema"}
           /\ bal = NoBalance
    BY <2>3, <2>6 DEF StatusOfReply, BalanceOf
  <2>8. SnapshotValid(r) \/ r.balance.amount = "minus zero"
    <3>1. CASE /\ st = "ok" /\ bal = [schema |-> a, amount |-> reply]
               /\ reply \in {"plain", "limit", "minus zero"}
      <4>1. bal.schema = a /\ bal.amount = reply
        BY <3>1
      <4>2. r.balance.schema = a /\ r.balance.amount = reply
        BY <2>5, <4>1
      <4> QED BY <2>5, <3>1, <4>2 DEF SnapshotValid, BalanceValid, AmountValid
    <3>2. CASE /\ st \in {"credential_unavailable", "provider_unavailable", "unsupported_schema"}
               /\ bal = NoBalance
      BY <2>5, <3>2 DEF SnapshotValid
    <3> QED BY <2>7, <3>1, <3>2
  <2> QED BY <2>2, <2>5, <2>8 DEF Understood, SameContract
<1> QED BY <1>2, <1>3

\* The keeper, the table and the other threads stay as they are.
LEMMA WorkerStep ==
  ASSUME FinanceInv, UNCHANGED <<keeper, table>>, sights' \in Nat,
         NEW j, NEW g, worker' = [registry |-> g, job |-> j], JobInv(g, j),
         refreshes' = [c \in Callers |-> refreshes'[c]],
         \A c \in Callers : \/ refreshes'[c] = refreshes[c]
                            \/ keeper # NotRunning /\ RefreshInv(refreshes'[c], keeper, table)
  PROVE  FinanceInv'
<1>1. worker' = [registry |-> worker'.registry, job |-> worker'.job]
      /\ worker'.registry = g /\ worker'.job = j
  OBVIOUS
<1>2. JobInv(worker'.registry, worker'.job)
  BY <1>1
<1>3. \A c \in Callers : RefreshInv(refreshes'[c], keeper', table')
  BY DEF FinanceInv
<1>4. keeper' = NotRunning => \A c \in Callers : refreshes'[c].at = "idle"
  BY DEF FinanceInv
<1>5. Listed(table)' /\ CapacityKept'
  BY DEF FinanceInv, CapacityKept, RowsOf
<1> QED BY <1>1, <1>2, <1>3, <1>4, <1>5 DEF FinanceInv

LEMMA AskWorkerKeeps ==
  ASSUME FinanceInv, NEW c \in Callers, NEW a \in {"all"} \cup ToSet(Order), AskWorker(c, a)
  PROVE  FinanceInv'
<1>1. keeper # NotRunning /\ UNCHANGED <<keeper, table, sights>>
  BY DEF AskWorker
<1>2. DOMAIN refreshes = Callers /\ worker = [registry |-> worker.registry, job |-> worker.job]
      /\ JobInv(worker.registry, worker.job) /\ sights \in Nat
  BY DEF FinanceInv
<1>3. PICK w, f : w = [at |-> "wait", asked |-> a]
                  /\ f = [at |-> "failed", asked |-> a, kept |-> <<>>]
  OBVIOUS
<1>4. w.at = "wait" /\ f.at = "failed"
  BY <1>3
<1>5. PICK j : j = [caller |-> c, asked |-> a, left |-> Expected(a), results |-> <<>>]
  OBVIOUS
<1>6. CASE WorkerTakes
  <2>1. refreshes' = [refreshes EXCEPT ![c] = w] /\ worker' = [worker EXCEPT !.job = j]
    BY <1>3, <1>5, <1>6 DEF AskWorker
  <2>2. JobInv(worker.registry, j)
    <3>1. /\ j = [caller |-> j.caller, asked |-> j.asked, left |-> j.left, results |-> j.results]
          /\ j.left = Expected(a) /\ j.results = <<>> /\ j.asked = a
      BY <1>5
    <3>2. Listed(Expected(a)) /\ Expected(a) \in Seq(ToSet(Expected(a)))
      BY ExpectedIsListed DEF Listed
    <3>3. PICK e : e = <<>>
      OBVIOUS
    <3>4. e \in Seq({}) /\ DOMAIN e = {} /\ Listed(e)
      <4>1. e \in Seq({}) /\ DOMAIN e = {}
        BY <3>3
      <4> QED BY <4>1, SequencesAreListed
    <3>5. Owners(e) = <<>>
      BY <3>4 DEF Owners
    <3>6. Owners(e) \o Expected(a) = Expected(a)
      BY <3>2, <3>5, ConcatEmptySeq
    <3> QED BY <3>1, <3>2, <3>3, <3>4, <3>6 DEF JobInv
  <2>3. worker' = [registry |-> worker.registry, job |-> j]
    BY <1>2, <2>1
  <2>4. refreshes' = [d \in Callers |-> IF d = c THEN w ELSE refreshes[d]]
    BY <1>2, <2>1
  <2>5. refreshes' = [d \in Callers |-> refreshes'[d]]
    BY <2>4
  <2>6. \A d \in Callers : \/ refreshes'[d] = refreshes[d]
                           \/ keeper # NotRunning /\ RefreshInv(refreshes'[d], keeper, table)
    BY <1>1, <1>4, <2>4, FailedIsFine
  <2> QED BY <1>1, <1>2, <2>2, <2>3, <2>5, <2>6, WorkerStep
<1>7. CASE ~ WorkerTakes
  <2>1. refreshes' = [refreshes EXCEPT ![c] = f] /\ worker' = worker
    BY <1>3, <1>7 DEF AskWorker
  <2>2. refreshes' = [d \in Callers |-> IF d = c THEN f ELSE refreshes[d]]
    BY <1>2, <2>1
  <2>3. refreshes' = [d \in Callers |-> refreshes'[d]]
    BY <2>2
  <2>4. \A d \in Callers : \/ refreshes'[d] = refreshes[d]
                           \/ keeper # NotRunning /\ RefreshInv(refreshes'[d], keeper, table)
    BY <1>1, <1>4, <2>2, FailedIsFine
  <2> QED BY <1>1, <1>2, <2>1, <2>3, <2>4, WorkerStep
<1> QED BY <1>6, <1>7

\* The job of a caller that is gone is what it was.
LEMMA GoneJob ==
  ASSUME NEW g, NEW j, j # NoJob, JobInv(g, j), NEW h, h = [j EXCEPT !.caller = "gone"]
  PROVE  JobInv(g, h)
<1>1. j = [caller |-> j.caller, asked |-> j.asked, left |-> j.left, results |-> j.results]
  BY DEF JobInv
<1>2. h = [caller |-> "gone", asked |-> j.asked, left |-> j.left, results |-> j.results]
  BY <1>1
<1>3. /\ h = [caller |-> h.caller, asked |-> h.asked, left |-> h.left, results |-> h.results]
      /\ h.asked = j.asked /\ h.left = j.left /\ h.results = j.results
  BY <1>2
<1> QED BY <1>3 DEF JobInv

LEMMA AskTimeoutKeeps ==
  ASSUME FinanceInv, NEW c \in Callers, AskTimeout(c)
  PROVE  FinanceInv'
<1>1. /\ Waits(c) /\ refreshes' = Ended(c, "failed") /\ UNCHANGED <<keeper, table, sights>>
      /\ worker' = IF worker.job # NoJob /\ worker.job.caller = c
                   THEN [worker EXCEPT !.job.caller = "gone"] ELSE worker
  BY DEF AskTimeout
<1>2. /\ worker = [registry |-> worker.registry, job |-> worker.job]
      /\ JobInv(worker.registry, worker.job) /\ sights \in Nat
  BY DEF FinanceInv
<1>3. keeper # NotRunning
  BY <1>1 DEF FinanceInv, Waits
<1>4. refreshes' = [d \in Callers |-> refreshes'[d]]
  BY <1>1, EndedKeeps
<1>5. \A d \in Callers : \/ refreshes'[d] = refreshes[d]
                         \/ keeper # NotRunning /\ RefreshInv(refreshes'[d], keeper, table)
  BY <1>1, <1>3, EndedKeeps, FailedIsFine
<1>6. PICK h : h = [worker.job EXCEPT !.caller = "gone"]
  OBVIOUS
<1>7. \/ worker' = [registry |-> worker.registry, job |-> worker.job]
      \/ worker.job # NoJob /\ worker' = [registry |-> worker.registry, job |-> h]
  BY <1>1, <1>2, <1>6
<1>8. worker.job # NoJob => JobInv(worker.registry, h)
  BY <1>2, <1>6, GoneJob
<1> QED BY <1>1, <1>2, <1>4, <1>5, <1>7, <1>8, WorkerStep

LEMMA ExamineKeeps ==
  ASSUME FinanceInv, NEW reply \in Replies, Examine(reply)
  PROVE  FinanceInv'
<1>1. PICK g, j : g = worker.registry /\ j = worker.job
  OBVIOUS
<1>2. /\ worker = [registry |-> g, job |-> j] /\ JobInv(g, j) /\ sights \in Nat
      /\ refreshes = [d \in Callers |-> refreshes[d]]
  BY <1>1 DEF FinanceInv
<1>3. PICK a, r : a = Head(j.left) /\ r = Examined(g, a, reply)
  OBVIOUS
<1>4. /\ j # NoJob /\ j.left # <<>> /\ UNCHANGED <<keeper, refreshes, table>>
      /\ worker' = [worker EXCEPT !.job.left = Tail(@), !.job.results = Append(@, r)]
      /\ sights' = IF r.sight = 0 THEN sights ELSE sights + 1
  BY <1>1, <1>3 DEF Examine
<1>5. sights' \in Nat
  BY <1>2, <1>4
<1>6. Understood(g, r) /\ r.account = a
  BY <1>2, <1>3, ExaminedIsUnderstood DEF Examine
<1>7. /\ j = [caller |-> j.caller, asked |-> j.asked, left |-> j.left, results |-> j.results]
      /\ Listed(j.left) /\ Listed(j.results)
      /\ Owners(j.results) \o j.left = Expected(j.asked)
      /\ \A i \in DOMAIN j.results : Understood(g, j.results[i])
  BY <1>2, <1>4 DEF JobInv
<1>8. PICK h : h = [caller |-> j.caller, asked |-> j.asked, left |-> Tail(j.left),
                    results |-> Append(j.results, r)]
  OBVIOUS
<1>9. worker' = [registry |-> g, job |-> h]
  BY <1>2, <1>4, <1>7, <1>8
<1>10. /\ h = [caller |-> h.caller, asked |-> h.asked, left |-> h.left, results |-> h.results]
       /\ h.asked = j.asked /\ h.left = Tail(j.left) /\ h.results = Append(j.results, r)
  BY <1>8
<1>11. /\ Listed(Append(j.results, r)) /\ ToSet(Append(j.results, r)) = ToSet(j.results) \cup {r}
       /\ Owners(Append(j.results, r)) = Append(Owners(j.results), a)
  BY <1>6, <1>7, ListedAppend
<1>12. Listed(Tail(j.left))
  BY <1>4, <1>7, ListedTail
<1>13. Append(Owners(j.results), a) \o Tail(j.left) = Owners(j.results) \o j.left
  <2>1. PICK S : Owners(j.results) \in Seq(S)
    BY <1>7, OwnersAreSequences
  <2>2. j.left \in Seq(ToSet(j.left))
    BY <1>7 DEF Listed
  <2> QED BY <1>3, <1>4, <2>1, <2>2, MovedOver
<1>14. \A i \in DOMAIN h.results : Understood(g, h.results[i])
  <2>1. \A x \in ToSet(j.results) \cup {r} : Understood(g, x)
    BY <1>6, <1>7 DEF ToSet
  <2>2. \A i \in DOMAIN h.results : h.results[i] \in ToSet(h.results)
    BY DEF ToSet
  <2> QED BY <1>10, <1>11, <2>1, <2>2
<1>15. JobInv(g, h)
  BY <1>7, <1>10, <1>11, <1>12, <1>13, <1>14 DEF JobInv
<1> QED BY <1>2, <1>4, <1>5, <1>9, <1>15, WorkerStep

LEMMA ExamineRaisesKeeps ==
  ASSUME FinanceInv, ExamineRaises
  PROVE  FinanceInv'
<1>1. PICK g, j : g = worker.registry /\ j = worker.job
  OBVIOUS
<1>2. /\ worker = [registry |-> g, job |-> j] /\ sights \in Nat
      /\ refreshes = [d \in Callers |-> refreshes[d]]
  BY <1>1 DEF FinanceInv
<1>3. /\ UNCHANGED <<keeper, table, sights>> /\ worker' = [worker EXCEPT !.job = NoJob]
      /\ refreshes' = IF Heard(j) THEN Ended(j.caller, "failed") ELSE refreshes
  BY <1>1 DEF ExamineRaises
<1>4. PICK no : no = NoJob
  OBVIOUS
<1>5. worker' = [registry |-> g, job |-> no] /\ JobInv(g, no)
  BY <1>2, <1>3, <1>4 DEF JobInv
<1>6. CASE ~ Heard(j)
  BY <1>2, <1>3, <1>5, <1>6, WorkerStep
<1>7. CASE Heard(j)
  <2>1. PICK c \in Callers : c = j.caller
    BY <1>7 DEF Heard
  <2>2. keeper # NotRunning
    BY <1>7, <2>1 DEF FinanceInv, Waits, Heard
  <2>3. refreshes' = Ended(c, "failed")
    BY <1>3, <1>7, <2>1
  <2>4. refreshes' = [d \in Callers |-> refreshes'[d]]
    BY <2>3, EndedKeeps
  <2>5. \A d \in Callers : \/ refreshes'[d] = refreshes[d]
                           \/ keeper # NotRunning /\ RefreshInv(refreshes'[d], keeper, table)
    BY <2>2, <2>3, EndedKeeps, FailedIsFine
  <2> QED BY <1>2, <1>3, <1>5, <2>4, <2>5, WorkerStep
<1> QED BY <1>6, <1>7

LEMMA AnswerKeeps ==
  ASSUME FinanceInv, Answer
  PROVE  FinanceInv'
<1>1. PICK g, j : g = worker.registry /\ j = worker.job
  OBVIOUS
<1>2. /\ worker = [registry |-> g, job |-> j] /\ JobInv(g, j) /\ sights \in Nat
      /\ DOMAIN refreshes = Callers /\ refreshes = [d \in Callers |-> refreshes[d]]
  BY <1>1 DEF FinanceInv
<1>3. /\ j # NoJob /\ UNCHANGED <<keeper, table, sights>> /\ refreshes' = Delivered(j)
      /\ worker' = [worker EXCEPT !.job = NoJob]
  BY <1>1 DEF Answer
<1>4. PICK no : no = NoJob
  OBVIOUS
<1>5. worker' = [registry |-> g, job |-> no]
  BY <1>2, <1>3, <1>4
<1>6. JobInv(g, no)
  BY <1>4 DEF JobInv
<1>7. CASE ~ Heard(j)
  <2>1. refreshes' = refreshes
    BY <1>3, <1>7 DEF Delivered
  <2> QED BY <1>2, <1>3, <1>5, <1>6, <2>1, WorkerStep
<1>8. CASE Heard(j)
  <2>1. PICK c \in Callers : c = j.caller
    BY <1>8 DEF Heard
  <2>2. keeper # NotRunning
    BY <1>8, <2>1 DEF FinanceInv, Waits, Heard
  <2>3. CASE ~ ResponseValid(keeper, j.asked, j.results)
    <3>1. refreshes' = Ended(c, "failed")
      BY <1>3, <1>8, <2>1, <2>3 DEF Delivered
    <3>2. refreshes' = [d \in Callers |-> refreshes'[d]]
      BY <3>1, EndedKeeps
    <3>3. \A d \in Callers : \/ refreshes'[d] = refreshes[d]
                             \/ keeper # NotRunning /\ RefreshInv(refreshes'[d], keeper, table)
      BY <2>2, <3>1, EndedKeeps, FailedIsFine
    <3> QED BY <1>2, <1>3, <1>5, <1>6, <3>2, <3>3, WorkerStep
  <2>4. CASE ResponseValid(keeper, j.asked, j.results)
    <3>1. PICK e : e = <<>>
      OBVIOUS
    <3>2. e \in Seq({}) /\ DOMAIN e = {}
      BY <3>1
    <3>3. Listed(e) /\ Owners(e) = e
      <4>1. Owners(e) = <<>>
        BY <3>2 DEF Owners
      <4> QED BY <3>1, <3>2, <4>1, SequencesAreListed
    <3>4. PICK r : r = [at |-> "store", asked |-> j.asked, results |-> j.results, kept |-> e]
      OBVIOUS
    <3>5. r.at = "store" /\ r.asked = j.asked /\ r.results = j.results /\ r.kept = e
      BY <3>4
    <3>6. refreshes' = [refreshes EXCEPT ![c] = r]
      BY <1>3, <1>8, <2>1, <2>4, <3>1, <3>4 DEF Delivered
    <3>7. refreshes' = [d \in Callers |-> IF d = c THEN r ELSE refreshes[d]]
      BY <1>2, <3>6
    <3>8. /\ Listed(j.results) /\ Owners(j.results) = Expected(j.asked)
          /\ \A i \in DOMAIN j.results : j.results[i].revision = keeper.revision
      BY <1>2, <1>3, <2>4 DEF JobInv, ResponseValid, SameContract, Owners
    <3>9. Owners(e) \o Owners(j.results) = Expected(j.asked)
      <4>1. PICK T : Owners(j.results) \in Seq(T)
        BY <3>8, OwnersAreSequences
      <4> QED BY <3>1, <3>3, <3>8, <4>1, ConcatEmptySeq
    <3>10. KeptIsStored(e, table)
      BY <3>2 DEF KeptIsStored
    <3>11. RefreshInv(r, keeper, table)
      BY <3>3, <3>4, <3>5, <3>8, <3>9, <3>10 DEF RefreshInv, StoreInv
    <3>12. refreshes' = [d \in Callers |-> refreshes'[d]]
      BY <3>7
    <3>13. \A d \in Callers : \/ refreshes'[d] = refreshes[d]
                              \/ keeper # NotRunning /\ RefreshInv(refreshes'[d], keeper, table)
      BY <2>2, <3>7, <3>11
    <3> QED BY <1>2, <1>3, <1>5, <1>6, <3>12, <3>13, WorkerStep
  <2> QED BY <2>3, <2>4
<1> QED BY <1>7, <1>8

LEMMA StoreKeeps ==
  ASSUME FinanceInv, NEW c \in Callers, Store(c)
  PROVE  FinanceInv'
<1>1. PICK q, r : q = refreshes[c] /\ r = Head(q.results)
  OBVIOUS
<1>2. /\ q.at = "store" /\ q.results # <<>> /\ UNCHANGED <<keeper, worker, sights>>
      /\ refreshes' = IF Taken(r)
                      THEN [refreshes EXCEPT ![c].results = Tail(@), ![c].kept = Append(@, r)]
                      ELSE Ended(c, "failed")
      /\ table' = IF r.sight # 0 /\ Storable(r) /\ Room(r.account)
                  THEN Append(table, r) ELSE table
  BY <1>1 DEF Store
<1>3. /\ DOMAIN refreshes = Callers /\ refreshes = [d \in Callers |-> refreshes[d]]
      /\ Listed(table) /\ CapacityKept
      /\ \A d \in Callers : RefreshInv(refreshes[d], keeper, table)
      /\ keeper # NotRunning
  BY <1>1, <1>2 DEF FinanceInv
<1>4. StoreInv(q, keeper, table)
  BY <1>1, <1>2, <1>3 DEF RefreshInv
<1>5. Listed(table') /\ ToSet(table) \subseteq ToSet(table')
      /\ (r.sight # 0 /\ Taken(r) => r \in ToSet(table'))
  BY <1>2, <1>3, ListedAppend DEF Taken
<1>6. CapacityKept'
  <2>1. CASE table' = table
    BY <1>3, <2>1 DEF CapacityKept, RowsOf
  <2>2. CASE table' = Append(table, r) /\ Room(r.account)
    <3>1. PICK n \in Nat : n = Len(table)
      BY <1>3 DEF Listed
    <3>2. DOMAIN table = 1 .. n /\ DOMAIN table' = 1 .. n + 1
          /\ table'[n + 1] = r /\ \A i \in 1 .. n : table'[i] = table[i]
      <4>1. PICK S : S = ToSet(table) \cup {r}
        OBVIOUS
      <4>2. table \in Seq(S) /\ r \in S
        <5>1. table \in Seq(ToSet(table)) /\ ToSet(table) \subseteq S
          BY <1>3, <4>1 DEF Listed
        <5> QED BY <4>1, <5>1
      <4> QED BY <2>2, <3>1, <4>2
    <3>3. ASSUME NEW a \in Parsers PROVE Cardinality(RowsOf(a))' <= Capacity
      <4>1. PICK R : R = RowsOf(a)
        OBVIOUS
      <4>2. R \subseteq 1 .. n
        BY <3>2, <4>1 DEF RowsOf
      <4>3. IsFiniteSet(R) /\ Cardinality(R) \in Nat /\ Cardinality(R) <= Capacity /\ n + 1 \notin R
        BY <1>3, <3>1, <4>1, <4>2, FS_Interval, FS_Subset, FS_CardinalityType DEF CapacityKept
      <4>4. CASE r.account = a
        <5>1. RowsOf(a)' = R \cup {n + 1}
          BY <3>1, <3>2, <4>1, <4>4 DEF RowsOf
        <5>2. Cardinality(R \cup {n + 1}) = Cardinality(R) + 1
          BY <4>3, FS_AddElement
        <5>3. Cardinality(R) < Capacity
          BY <2>2, <4>1, <4>4 DEF Room
        <5>4. Cardinality(RowsOf(a))' = Cardinality(R) + 1
          BY <5>1, <5>2
        <5>5. Capacity \in Nat
          BY FinanceAssumption DEF FinanceAssumption
        <5> QED BY <4>3, <5>3, <5>4, <5>5
      <4>5. CASE r.account # a
        <5>1. RowsOf(a)' = R
          BY <3>1, <3>2, <4>1, <4>5 DEF RowsOf
        <5> QED BY <4>3, <5>1
      <4> QED BY <4>4, <4>5
    <3> QED BY <3>3 DEF CapacityKept
  <2> QED BY <1>2, <2>1, <2>2
<1>7. /\ refreshes' = [d \in Callers |-> refreshes'[d]]
      /\ \A d \in Callers : d # c => refreshes'[d] = refreshes[d]
      /\ RefreshInv(refreshes'[c], keeper, table')
  <2>1. CASE ~ Taken(r)
    <3>1. refreshes' = Ended(c, "failed")
      BY <1>2, <2>1
    <3> QED BY <3>1, EndedKeeps, FailedIsFine
  <2>2. CASE Taken(r)
    <3>1. /\ q = [at |-> "store", asked |-> q.asked, results |-> q.results, kept |-> q.kept]
          /\ Listed(q.results) /\ Listed(q.kept)
          /\ Owners(q.kept) \o Owners(q.results) = Expected(q.asked)
          /\ \A i \in DOMAIN q.results : q.results[i].revision = keeper.revision
          /\ KeptIsStored(q.kept, table)
      BY <1>4 DEF StoreInv
    <3>2. PICK s : s = [at |-> "store", asked |-> q.asked, results |-> Tail(q.results),
                        kept |-> Append(q.kept, r)]
      OBVIOUS
    <3>3. s.at = "store" /\ s.asked = q.asked /\ s.results = Tail(q.results)
          /\ s.kept = Append(q.kept, r)
      BY <3>2
    <3>4. s = [q EXCEPT !.results = Tail(@), !.kept = Append(@, r)]
      <4>1. PICK a, b, k : a = q.asked /\ b = q.results /\ k = q.kept
        OBVIOUS
      <4>2. q = [at |-> "store", asked |-> a, results |-> b, kept |-> k]
        BY <3>1, <4>1
      <4>3. q.results = b /\ q.kept = k
        BY <4>1
      <4>4. PICK x, y : x = Tail(b) /\ y = Append(k, r)
        OBVIOUS
      <4>5. PICK p : p = [q EXCEPT !.results = x]
        OBVIOUS
      <4>6. p = [at |-> "store", asked |-> a, results |-> x, kept |-> k]
        BY <4>2, <4>5
      <4>7. [p EXCEPT !.kept = y] = [at |-> "store", asked |-> a, results |-> x, kept |-> y]
        BY <4>6
      <4>8. [q EXCEPT !.results = Tail(@), !.kept = Append(@, r)] = [p EXCEPT !.kept = y]
        BY <4>3, <4>4, <4>5, Zenon
      <4> QED BY <3>2, <4>1, <4>4, <4>7, <4>8
    <3>5. refreshes' = [refreshes EXCEPT ![c] = s]
      BY <1>1, <1>2, <1>3, <2>2, <3>4
    <3>6. refreshes' = [d \in Callers |-> IF d = c THEN s ELSE refreshes[d]]
      BY <1>3, <3>5
    <3>7. /\ Listed(Append(q.kept, r)) /\ ToSet(Append(q.kept, r)) = ToSet(q.kept) \cup {r}
          /\ Owners(Append(q.kept, r)) = Append(Owners(q.kept), r.account)
      BY <3>1, ListedAppend
    <3>8. /\ Listed(Tail(q.results)) /\ Owners(Tail(q.results)) = Tail(Owners(q.results))
          /\ Head(Owners(q.results)) = r.account /\ Owners(q.results) # <<>>
          /\ \A i \in DOMAIN Tail(q.results) :
               i + 1 \in DOMAIN q.results /\ Tail(q.results)[i] = q.results[i + 1]
      BY <1>1, <1>2, <3>1, ListedTail
    <3>9. Owners(s.kept) \o Owners(s.results) = Expected(s.asked)
      <4>1. PICK S : Owners(q.kept) \in Seq(S)
        BY <3>1, OwnersAreSequences
      <4>2. PICK T : Owners(q.results) \in Seq(T)
        BY <3>1, OwnersAreSequences
      <4>3. Append(Owners(q.kept), r.account) \o Tail(Owners(q.results))
              = Owners(q.kept) \o Owners(q.results)
        BY <3>8, <4>1, <4>2, MovedOver
      <4> QED BY <3>1, <3>3, <3>7, <3>8, <4>3
    <3>10. \A i \in DOMAIN s.results : s.results[i].revision = keeper.revision
      BY <3>1, <3>3, <3>8
    <3>11. KeptIsStored(s.kept, table')
      <4>1. \A x \in ToSet(q.kept) \cup {r} : x.sight # 0 => x \in ToSet(table')
        BY <1>5, <2>2, <3>1 DEF KeptIsStored, ToSet
      <4>2. \A i \in DOMAIN s.kept : s.kept[i] \in ToSet(s.kept)
        BY DEF ToSet
      <4> QED BY <3>3, <3>7, <4>1, <4>2 DEF KeptIsStored
    <3>12. s = [at |-> "store", asked |-> s.asked, results |-> s.results, kept |-> s.kept]
      BY <3>2, <3>3
    <3>13. RefreshInv(s, keeper, table')
      BY <3>3, <3>7, <3>8, <3>9, <3>10, <3>11, <3>12 DEF RefreshInv, StoreInv
    <3> QED BY <3>6, <3>13
  <2> QED BY <2>1, <2>2
<1>8. \A d \in Callers : RefreshInv(refreshes'[d], keeper', table')
  BY <1>2, <1>3, <1>5, <1>7, RefreshLater
<1> QED BY <1>2, <1>3, <1>5, <1>6, <1>7, <1>8 DEF FinanceInv

\* The worker and the table stay as they are.
LEMMA KeeperStep ==
  ASSUME FinanceInv, UNCHANGED <<worker, table, sights>>,
         refreshes' = [c \in Callers |-> refreshes'[c]],
         keeper' = NotRunning => \A c \in Callers : refreshes'[c].at = "idle",
         \A c \in Callers : RefreshInv(refreshes'[c], keeper', table)
  PROVE  FinanceInv'
<1>1. \A c \in Callers : RefreshInv(refreshes'[c], keeper', table')
  OBVIOUS
<1>2. Listed(table)' /\ CapacityKept'
  BY DEF FinanceInv, CapacityKept, RowsOf
<1>3. JobInv(worker'.registry, worker'.job)
  BY DEF FinanceInv
<1> QED BY <1>1, <1>2, <1>3 DEF FinanceInv

LEMMA CompletedKeeps ==
  ASSUME FinanceInv, NEW c \in Callers, Completed(c)
  PROVE  FinanceInv'
<1>1. PICK q, r : q = refreshes[c] /\ r = [at |-> "completed", asked |-> q.asked, kept |-> q.kept]
  OBVIOUS
<1>2. /\ q.at = "store" /\ q.results = <<>> /\ UNCHANGED <<keeper, worker, table, sights>>
      /\ refreshes' = [refreshes EXCEPT ![c] = r]
  BY <1>1 DEF Completed
<1>3. /\ DOMAIN refreshes = Callers /\ keeper # NotRunning
      /\ \A d \in Callers : RefreshInv(refreshes[d], keeper, table)
  BY <1>1, <1>2 DEF FinanceInv
<1>4. refreshes' = [d \in Callers |-> IF d = c THEN r ELSE refreshes[d]]
  BY <1>2, <1>3
<1>5. /\ Listed(q.kept) /\ KeptIsStored(q.kept, table)
      /\ Owners(q.kept) \o Owners(q.results) = Expected(q.asked)
  BY <1>1, <1>2, <1>3 DEF RefreshInv, StoreInv
<1>6. Owners(q.results) = <<>>
  <2>1. DOMAIN q.results = {}
    BY <1>2
  <2> QED BY <2>1 DEF Owners
<1>7. Owners(q.kept) = Expected(q.asked)
  <2>1. PICK T : Owners(q.kept) \in Seq(T)
    BY <1>5, OwnersAreSequences
  <2> QED BY <1>5, <1>6, <2>1, ConcatEmptySeq
<1>8. r.at = "completed" /\ r.asked = q.asked /\ r.kept = q.kept
  BY <1>1
<1>9. RefreshInv(r, keeper, table)
  BY <1>5, <1>7, <1>8 DEF RefreshInv
<1>10. /\ refreshes' = [d \in Callers |-> refreshes'[d]]
       /\ \A d \in Callers : RefreshInv(refreshes'[d], keeper', table)
  BY <1>2, <1>3, <1>4, <1>9
<1> QED BY <1>2, <1>3, <1>10, KeeperStep

LEMMA StartKeeperKeeps ==
  ASSUME FinanceInv, StartKeeper
  PROVE  FinanceInv'
<1>1. keeper = NotRunning /\ UNCHANGED <<worker, refreshes, table, sights>>
  BY DEF StartKeeper
<1>2. \A c \in Callers : refreshes[c].at = "idle"
  BY <1>1 DEF FinanceInv
<1>3. \A c \in Callers : RefreshInv(refreshes'[c], keeper', table)
  BY <1>1, <1>2, FailedIsFine
<1> QED BY <1>1, <1>2, <1>3, KeeperStep DEF FinanceInv

LEMMA StartWorkerKeeps ==
  ASSUME FinanceInv, StartWorker
  PROVE  FinanceInv'
<1>1. PICK no : no = NoJob
  OBVIOUS
<1>2. worker' = [registry |-> file, job |-> no] /\ UNCHANGED <<keeper, refreshes, table, sights>>
  BY <1>1 DEF StartWorker
<1>3. JobInv(file, no)
  BY <1>1 DEF JobInv
<1>4. sights' \in Nat /\ refreshes' = [c \in Callers |-> refreshes'[c]]
  BY <1>2 DEF FinanceInv
<1> QED BY <1>2, <1>3, <1>4, WorkerStep

LEMMA KeeperDiesKeeps ==
  ASSUME FinanceInv, KeeperDies
  PROVE  FinanceInv'
<1>1. PICK quiet, h : quiet = Quiet /\ h = [worker.job EXCEPT !.caller = "gone"]
  OBVIOUS
<1>2. /\ UNCHANGED <<table, sights>> /\ keeper' = NotRunning
      /\ refreshes' = [c \in Callers |-> quiet]
      /\ worker' = IF worker.job = NoJob THEN worker ELSE [worker EXCEPT !.job.caller = "gone"]
  BY <1>1 DEF KeeperDies
<1>3. quiet.at = "idle"
  BY <1>1 DEF Quiet
<1>4. /\ worker = [registry |-> worker.registry, job |-> worker.job]
      /\ JobInv(worker.registry, worker.job) /\ sights \in Nat
  BY DEF FinanceInv
<1>5. PICK g, j : g = worker.registry /\ j = IF worker.job = NoJob THEN worker.job ELSE h
  OBVIOUS
<1>6. worker' = [registry |-> g, job |-> j]
  BY <1>1, <1>2, <1>4, <1>5
<1>7. JobInv(g, j)
  BY <1>1, <1>4, <1>5, GoneJob
<1>8. worker' = [registry |-> worker'.registry, job |-> worker'.job]
      /\ worker'.registry = g /\ worker'.job = j
  BY <1>6
<1>9. JobInv(worker'.registry, worker'.job)
  BY <1>7, <1>8
<1>10. \A c \in Callers : refreshes'[c].at = "idle" /\ RefreshInv(refreshes'[c], keeper', table')
  BY <1>2, <1>3, FailedIsFine
<1>11. refreshes' = [c \in Callers |-> refreshes'[c]]
  BY <1>2
<1>12. Listed(table)' /\ CapacityKept'
  BY <1>2 DEF FinanceInv, CapacityKept, RowsOf
<1>13. sights' \in Nat
  BY <1>2, <1>4
<1> QED BY <1>8, <1>9, <1>10, <1>11, <1>12, <1>13 DEF FinanceInv

LEMMA WorkerDiesKeeps ==
  ASSUME FinanceInv, WorkerDies
  PROVE  FinanceInv'
<1>1. PICK g, no : g = NotRunning /\ no = NoJob
  OBVIOUS
<1>2. /\ worker' = [registry |-> g, job |-> no] /\ UNCHANGED <<keeper, table, sights>>
      /\ refreshes' = [c \in Callers |-> IF Waits(c) THEN Ended(c, "failed")[c] ELSE refreshes[c]]
  BY <1>1 DEF WorkerDies
<1>3. JobInv(g, no)
  BY <1>1 DEF JobInv
<1>4. sights' \in Nat /\ refreshes' = [c \in Callers |-> refreshes'[c]]
  BY <1>2 DEF FinanceInv
<1>5. ASSUME NEW c \in Callers
      PROVE  \/ refreshes'[c] = refreshes[c]
             \/ keeper # NotRunning /\ RefreshInv(refreshes'[c], keeper, table)
  <2>1. CASE ~ Waits(c)
    BY <1>2, <2>1
  <2>2. CASE Waits(c)
    <3>1. keeper # NotRunning
      BY <2>2 DEF FinanceInv, Waits
    <3>2. refreshes'[c] = Ended(c, "failed")[c]
      BY <1>2, <2>2
    <3> QED BY <3>1, <3>2, EndedKeeps, FailedIsFine
  <2> QED BY <2>1, <2>2
<1> QED BY <1>2, <1>3, <1>4, <1>5, WorkerStep

LEMMA FinanceIdle ==
  ASSUME FinanceInv, UNCHANGED <<keeper, worker, refreshes, table, sights>>
  PROVE  FinanceInv'
<1>1. \A c \in Callers : RefreshInv(refreshes'[c], keeper', table)
  BY DEF FinanceInv
<1> QED BY <1>1, KeeperStep DEF FinanceInv

LEMMA FinanceKept ==
  ASSUME FinanceInv, FinanceNext
  PROVE  FinanceInv'
<1>1. ASSUME NEW c \in Callers, NEW a \in {"all"} \cup ToSet(Order), AskWorker(c, a)
      PROVE  FinanceInv'
  BY <1>1, AskWorkerKeeps
<1>2. ASSUME NEW c \in Callers, AskTimeout(c) \/ Store(c) \/ Completed(c) PROVE FinanceInv'
  BY <1>2, AskTimeoutKeeps, StoreKeeps, CompletedKeeps
<1>3. ASSUME NEW reply \in Replies, Examine(reply) PROVE FinanceInv'
  BY <1>3, ExamineKeeps
<1>4. CASE Look
  BY <1>4, FinanceIdle DEF Look, financeVars
<1>5. CASE EditRegistry
  BY <1>5, FinanceIdle DEF EditRegistry
<1>6. CASE Works
  BY <1>3, <1>6, ExamineRaisesKeeps DEF Works
<1> QED BY <1>1, <1>2, <1>4, <1>5, <1>6, AnswerKeeps, StartKeeperKeeps, StartWorkerKeeps,
           KeeperDiesKeeps, WorkerDiesKeeps, Zenon DEF FinanceNext

LEMMA FinanceStarts ==
  ASSUME FinanceInit
  PROVE  FinanceInv
<1>1. PICK quiet, no, g : quiet = Quiet /\ no = NoJob /\ g = NotRunning
  OBVIOUS
<1>2. /\ keeper = NotRunning /\ worker = [registry |-> g, job |-> no] /\ table = <<>> /\ sights = 0
      /\ refreshes = [c \in Callers |-> quiet]
  BY <1>1 DEF FinanceInit
<1>3. quiet.at = "idle"
  BY <1>1 DEF Quiet
<1>4. JobInv(g, no)
  BY <1>1 DEF JobInv
<1>5. worker = [registry |-> worker.registry, job |-> worker.job]
      /\ worker.registry = g /\ worker.job = no
  BY <1>2
<1>6. table \in Seq({}) /\ DOMAIN table = {}
  BY <1>2
<1>7. Listed(table)
  BY <1>6, SequencesAreListed
<1>8. CapacityKept
  <2>1. \A a \in Parsers : RowsOf(a) = {}
    BY <1>6 DEF RowsOf
  <2>2. Capacity \in Nat
    BY FinanceAssumption DEF FinanceAssumption
  <2> QED BY <2>1, <2>2, FS_EmptySet DEF CapacityKept
<1>9. \A c \in Callers : refreshes[c].at = "idle" /\ RefreshInv(refreshes[c], keeper, table)
  BY <1>2, <1>3, FailedIsFine
<1>10. JobInv(worker.registry, worker.job)
  BY <1>4, <1>5
<1>11. sights \in Nat /\ refreshes = [c \in Callers |-> refreshes[c]]
  BY <1>2
<1> QED BY <1>5, <1>7, <1>8, <1>9, <1>10, <1>11 DEF FinanceInv

LEMMA FinanceInvIsEnough ==
  ASSUME FinanceInv
  PROVE  RefreshesHold
<1>1. OneRegistry
  BY DEF FinanceInv, OneRegistry, RefreshInv, StoreInv
<1>2. CapacityKept
  BY DEF FinanceInv
<1>3. CompletedIsStored
  BY DEF FinanceInv, CompletedIsStored, RefreshInv, Owners, KeptIsStored
<1>4. WorkerUnderstood
  <2> SUFFICES ASSUME worker.job # NoJob, worker.job.left = <<>>, keeper = worker.registry,
                      \A i \in DOMAIN worker.job.results :
                        LET r == worker.job.results[i] IN
                        ~ (r.balance.amount = "minus zero"
                             \/ (r.mode = "direct_api" /\ r.account \notin Parsers))
               PROVE  ResponseValid(keeper, worker.job.asked, worker.job.results)
    BY DEF WorkerUnderstood
  <2>1. PICK j : j = worker.job
    OBVIOUS
  <2>2. /\ Listed(j.results) /\ Owners(j.results) \o j.left = Expected(j.asked)
        /\ \A i \in DOMAIN j.results : Understood(keeper, j.results[i])
    BY <2>1 DEF FinanceInv, JobInv
  <2>3. Owners(j.results) = Expected(j.asked)
    <3>1. PICK T : Owners(j.results) \in Seq(T)
      BY <2>2, OwnersAreSequences
    <3> QED BY <2>1, <2>2, <3>1, ConcatEmptySeq
  <2>4. \A i \in DOMAIN j.results :
          /\ SameContract(keeper, j.results[i])
          /\ j.results[i].sight = 0 => StaticValid(keeper, j.results[i])
          /\ j.results[i].sight # 0 => SnapshotValid(j.results[i])
    BY <2>1, <2>2 DEF Understood
  <2> QED BY <2>1, <2>3, <2>4 DEF ResponseValid, Owners
<1> QED BY <1>1, <1>2, <1>3, <1>4 DEF RefreshesHold

-----------------------------------------------------------------------------
(* THE ORCHESTRATOR'S RULES TOGETHER                                       *)

\* The questions that the rules of admission are asked.
AskInv ==
  /\ Asked("tiers") => \E n \in 1 .. 2 : asked.tiers \in [1 .. n -> Tier]
  /\ Asked("adapter") => asked.account \in DOMAIN Integrations
  /\ Asked("registry") =>
       /\ DOMAIN asked.accounts = 1 .. 2
       /\ \A i \in 1 .. 2 : \A e \in asked.accounts[i].endpoints :
            e.capabilities \subseteq DOMAIN asked.accounts[i].access

RulesInv == AdmissionInv /\ FinanceInv /\ AskInv

LEMMA RegistryQuestions ==
  ASSUME AskRegistry
  PROVE  /\ asked'.what = "registry" /\ DOMAIN asked'.accounts = 1 .. 2
         /\ \A i \in 1 .. 2 : \A e \in asked'.accounts[i].endpoints :
              e.capabilities \subseteq DOMAIN asked'.accounts[i].access
<1>1. PICK a \in Integrated, i \in References, j \in References :
        asked' = [what |-> "registry",
                  accounts |-> <<a, [Other EXCEPT !.inference = i, !.admin = j]>>]
  BY DEF AskRegistry
<1>2. PICK b : b = [Other EXCEPT !.inference = i, !.admin = j]
  OBVIOUS
<1>3. b.endpoints = {}
  BY <1>2 DEF Other
<1>4. \A e \in a.endpoints : e.capabilities \subseteq DOMAIN a.access
  BY DEF Integrated, Endpoints
<1>5. PICK s : s = <<a, b>>
  OBVIOUS
<1>6. DOMAIN s = 1 .. 2 /\ s[1] = a /\ s[2] = b
  BY <1>5
<1>7. asked'.what = "registry" /\ asked'.accounts = s
  BY <1>1, <1>2, <1>5
<1>8. \A i1 \in 1 .. 2 : i1 = 1 \/ i1 = 2
  OBVIOUS
<1> QED BY <1>3, <1>4, <1>6, <1>7, <1>8

LEMMA HistoriesSay ==
  ASSUME NEW h \in Histories
  PROVE  h.what = "history"
<1>1. PICK c \in {1, 1000}, urgency \in DOMAIN LatencyPolicy, a \in {0, 5, 8},
           all \in BOOLEAN, pace \in Paces, n \in {1, 5}, v \in Validations :
        h = History(c, urgency, a, IF all THEN a ELSE 0, pace, n, v)
  BY DEF Histories
<1>2. PICK k : k = IF all THEN a ELSE 0
  OBVIOUS
<1> QED BY <1>1, <1>2 DEF History

LEMMA AskKeeps ==
  ASSUME Ask
  PROVE  AskInv'
<1>1. CASE AskTiers
  <2>1. asked'.what = "tiers" /\ \E n \in 1 .. 2 : asked'.tiers \in [1 .. n -> Tier]
    BY <1>1 DEF AskTiers
  <2> QED BY <2>1 DEF AskInv, Asked
<1>2. CASE AskAdapter
  <2>1. asked'.what = "adapter" /\ asked'.account \in DOMAIN Integrations
    BY <1>2 DEF AskAdapter
  <2> QED BY <2>1 DEF AskInv, Asked
<1>3. CASE AskRegistry
  BY <1>3, RegistryQuestions DEF AskInv, Asked
<1>4. CASE AskRoute \/ AskHistory
  <2>1. AskRoute => asked'.what = "route"
    <3>1. \A q \in Requests : q.what = "route"
      BY Zenon DEF Requests
    <3> QED BY <3>1 DEF AskRoute
  <2>2. AskHistory => asked'.what = "history"
    BY HistoriesSay DEF AskHistory
  <2> QED BY <1>4, <2>1, <2>2 DEF AskInv, Asked
<1>5. CASE AskSummary \/ AskSearch \/ AskTrace
  <2>1. asked'.what \in {"summary", "search", "trace"}
    BY <1>5 DEF AskSummary, AskSearch, AskTrace
  <2> QED BY <2>1 DEF AskInv, Asked
<1>6. CASE AskBudget \/ AskGrant \/ AskRunbook
  <2>1. asked'.what \in {"budget", "grant", "runbook"}
    BY <1>6 DEF AskBudget, AskGrant, AskRunbook
  <2> QED BY <2>1 DEF AskInv, Asked
<1> QED BY <1>1, <1>2, <1>3, <1>4, <1>5, <1>6 DEF Ask

LEMMA RulesStart == Init => RulesInv
<1> SUFFICES ASSUME Init PROVE RulesInv
  OBVIOUS
<1>1. FinanceInv
  BY FinanceStarts DEF Init
<1>2. AskInv
  <2>1. asked.what = "nothing"
    BY DEF Init, Nothing
  <2> QED BY <2>1 DEF AskInv, Asked
<1>3. proc = Down /\ proc.at = "down"
  BY DEF Init, AdmissionInit, Down
<1>4. part = "start" => AdmissionInit
  BY DEF Init
<1>5. rows = {} \/ \E s : rows \in SUBSET {[provider |-> id, account |-> Nobody] : id \in s}
  BY DEF Init, AdmissionInit
<1>6. \A r \in rows : r = [provider |-> r.provider, account |-> r.account]
  BY <1>5
<1>7. AdmissionInv
  BY <1>3, <1>4, <1>6 DEF AdmissionInv, AdmissionFiles, ProcInv, RowsInv, AdmissionInit
<1> QED BY <1>1, <1>2, <1>7 DEF RulesInv

LEMMA RulesKept == RulesInv /\ [Next]_vars => RulesInv'
<1> SUFFICES ASSUME RulesInv, [Next]_vars PROVE RulesInv'
  OBVIOUS
<1>1. AdmissionInv /\ FinanceInv /\ AskInv
  BY DEF RulesInv
<1>2. UNCHANGED asked => AskInv'
  BY <1>1 DEF AskInv, Asked
<1>3. UNCHANGED financeVars => FinanceInv'
  BY <1>1, FinanceIdle DEF financeVars
<1>4. UNCHANGED <<admissionVars, part>> => AdmissionInv'
  BY <1>1, AdmissionIdle
<1>5. CASE UNCHANGED <<admissionVars, financeVars, asked, part>>
  BY <1>2, <1>3, <1>4, <1>5 DEF RulesInv
<1>6. CASE InStart(AdmissionNext)
  <2>1. part = "start" /\ AdmissionNext /\ UNCHANGED <<financeVars, asked, part>>
    BY <1>6 DEF InStart
  <2> QED BY <1>1, <1>2, <1>3, <2>1, AdmissionKept DEF RulesInv
<1>7. CASE InBalance(FinanceNext)
  <2>1. FinanceNext /\ UNCHANGED <<admissionVars, asked, part>>
    BY <1>7 DEF InBalance
  <2> QED BY <1>1, <1>2, <1>4, <2>1, FinanceKept DEF RulesInv
<1>8. CASE InAsk(Ask)
  <2>1. Ask /\ UNCHANGED <<admissionVars, financeVars, part>>
    BY <1>8 DEF InAsk
  <2> QED BY <1>3, <1>4, <2>1, AskKeeps DEF RulesInv
<1>9. CASE InAsk(Return)
  <2>1. asked' = Nothing /\ UNCHANGED <<admissionVars, financeVars, part>>
    BY <1>9 DEF InAsk, Return
  <2>2. asked'.what = "nothing"
    BY <2>1 DEF Nothing
  <2>3. AskInv'
    BY <2>2 DEF AskInv, Asked
  <2> QED BY <1>3, <1>4, <2>1, <2>3 DEF RulesInv
<1>10. CASE UNCHANGED vars
  BY <1>5, <1>10 DEF vars
<1>11. CASE InBench(Promoting)
  BY <1>5, <1>11 DEF InBench
<1> QED BY <1>6, <1>7, <1>8, <1>9, <1>10, <1>11 DEF Next

LEMMA RulesInvIsEnough == RulesInv => AdmissionHolds
<1> SUFFICES ASSUME RulesInv PROVE AdmissionHolds
  OBVIOUS
<1>1. AdmissionInv /\ FinanceInv /\ AskInv
  BY DEF RulesInv
<1>2. RunningIsReviewed /\ ReservesThePeak /\ SpendingStaysOnAccount
  BY <1>1, AdmissionInvIsEnough
<1>3. RefreshesHold
  BY <1>1, FinanceInvIsEnough
<1>4. TiersCover
  <2> SUFFICES ASSUME Asked("tiers"), NEW e \in Tokens, NEW u \in Tokens
               PROVE  ReservationCovers(asked.tiers, e, u)
    BY DEF TiersCover
  <2>1. PICK n \in 1 .. 2 : asked.tiers \in [1 .. n -> Tier]
    BY <1>1 DEF AskInv
  <2>2. Tier \subseteq [most : Nat, rates : Nat \X Nat] /\ e \in Nat \X Nat /\ u \in Nat \X Nat
    BY DEF Tier, Tokens
  <2>3. n \in Nat /\ asked.tiers \in [1 .. n -> [most : Nat, rates : Nat \X Nat]]
    BY <2>1, <2>2
  <2> QED BY <2>2, <2>3, ReservationsCover
<1>5. AdaptersFit
  BY <1>1, AdaptersAreAccepted DEF AskInv, AdaptersFit
<1>6. CredentialsSeparate
  <2> SUFFICES ASSUME Asked("registry") PROVE CredentialsServeOnePurpose(asked.accounts)
    BY DEF CredentialsSeparate
  <2>1. PICK n \in Nat : n = 2
    OBVIOUS
  <2>2. /\ DOMAIN asked.accounts = 1 .. n
        /\ \A i \in 1 .. n : \A e \in asked.accounts[i].endpoints :
             e.capabilities \subseteq DOMAIN asked.accounts[i].access
    BY <1>1, <2>1 DEF AskInv
  <2> QED BY <2>2, CredentialsAreSeparate
<1> QED BY <1>2, <1>3, <1>4, <1>5, <1>6 DEF AdmissionHolds

\* Whatever the configurations, the catalogues and the registries say, whoever edits
\* them between two readings, and whatever the providers answer, exceptions that the
\* worker does not catch included: an orchestrator that
\* runs calls only what was reviewed, reserves as much as it may cost on the account it
\* is called on, and stores no balance observed under another registry than its own
\* (OrchestratorService.__init__, build_catalogue_runtime_plan,
\* validate_refresh_response).  For the questions of AskTiers, AskAdapter and
\* AskRegistry it answers from ReservationsCover, AdaptersAreAccepted and
\* CredentialsAreSeparate, which stand for every list of tiers and every registry.
THEOREM AdmissionIsReviewed == Spec => []AdmissionHolds
<1> QED BY RulesStart, RulesKept, RulesInvIsEnough, PTL DEF Spec
-----------------------------------------------------------------------------
(* THE PURE POLICIES                                                       *)

LEMMA StakesMatter ==
  ASSUME NEW q
  PROVE  StakesReachExperts(q)
<1> SUFFICES ASSUME Important(q), NEW i \in DOMAIN Plan(q)
             PROVE  Plan(q)[i] \notin {"TINY", "LOCAL_OPS"}
  BY DEF StakesReachExperts
<1>1. TiersFor(q) \in {<<"PREMIUM">>, <<"REASONING", "PREMIUM">>}
  BY DEF Important, TiersFor, NeedsExpert
<1>2. Plan(q) \in {<<>>, <<"EMBEDDING">>, <<"RERANKER">>, <<"CODER", "PREMIUM">>,
                   <<"PREMIUM">>, <<"REASONING", "PREMIUM">>}
  BY <1>1 DEF Plan
<1>3. PICK p : p = Plan(q)
  OBVIOUS
<1>4. \A j \in DOMAIN p : p[j] \notin {"TINY", "LOCAL_OPS"}
  BY <1>2, <1>3
<1> QED BY <1>3, <1>4

LEMMA CeilingsHold ==
  ASSUME NEW b, NEW ceiling, NEW n \in Nat, NEW times \in [1 .. n -> Int],
         b.attempts \in Int, b.window \in Int, ceiling.attempts \in Int, ceiling.window \in Int
  PROVE  CeilingHolds(b, ceiling, times)
<1> SUFFICES ASSUME BudgetAccepted(b, ceiling), AllAdmitted(times, b), NEW i \in 1 .. n
             PROVE  Cardinality({j \in 1 .. i - 1 : times[j] >= times[i] - ceiling.window})
                      < ceiling.attempts
  BY DEF CeilingHolds, AllAdmitted
<1>1. PICK S, T : /\ S = {j \in 1 .. i - 1 : times[j] >= times[i] - ceiling.window}
                  /\ T = {j \in 1 .. i - 1 : times[j] >= times[i] - b.window}
  OBVIOUS
<1>2. \A j \in 1 .. i - 1 : times[j] \in Int
  OBVIOUS
<1>3. S \subseteq T /\ T \subseteq 1 .. i - 1
  BY <1>1, <1>2 DEF BudgetAccepted
<1>4. IsFiniteSet(T)
  <2>1. PICK lo \in Int, hi \in Int : lo = 1 /\ hi = i - 1
    OBVIOUS
  <2>2. IsFiniteSet(lo .. hi)
    BY FS_Interval
  <2> QED BY <1>3, <2>1, <2>2, FS_Subset
<1>5. Cardinality(S) <= Cardinality(T) /\ Cardinality(S) \in Int /\ Cardinality(T) \in Int
  <2>1. IsFiniteSet(S) /\ Cardinality(S) <= Cardinality(T)
    BY <1>3, <1>4, FS_Subset
  <2>2. Cardinality(S) \in Nat /\ Cardinality(T) \in Nat
    BY <1>4, <2>1, FS_CardinalityType
  <2> QED BY <2>1, <2>2
<1>6. Cardinality(T) < b.attempts
  BY <1>1 DEF AllAdmitted
<1> QED BY <1>1, <1>5, <1>6 DEF BudgetAccepted

LEMMA GrantsAreSeparate ==
  ASSUME NEW roles, NEW project, NEW runbook, NEW class
  PROVE  NoCombinedGrant(roles, project, runbook, class)
BY DEF NoCombinedGrant, MayRun, HasProject

LEMMA SearchesAgree ==
  ASSUME NEW a, NEW q, NEW ms, a.rank \in Int, q.rank \in Int, \A m \in ms : m.rank \in Int
  PROVE  SearchAgreesWithGet(a, q, ms)
<1> SUFFICES ASSUME NEW degraded \in BOOLEAN, NEW m \in Found(a, q, ms, degraded)
             PROVE  m.current /\ RecordVisible(a, m)
  BY DEF SearchAgreesWithGet
<1>1. MaySearch(a, q) /\ (m \in FallbackCandidates(a, q, ms) \/ m \in QdrantCandidates(a, q, ms))
  BY DEF Found
<1>2. CASE m \in QdrantCandidates(a, q, ms)
  BY <1>2 DEF QdrantCandidates
<1>3. CASE m \in FallbackCandidates(a, q, ms)
  <2>1. m \in ms /\ InScope(q, m) /\ m.current /\ m.roles \cap a.roles # {}
    BY <1>3 DEF FallbackCandidates
  <2>2. PermitsScope(a, m.project, m.rank)
    BY <1>1, <2>1 DEF MaySearch, InScope, PermitsScope
  <2> QED BY <2>1, <2>2 DEF RecordVisible
<1> QED BY <1>1, <1>2, <1>3

LEMMA AudiencesAreKept ==
  ASSUME NEW a, NEW b, NEW ms, IsFiniteSet(ms), \A m \in ms : m.rank \in Nat, b.rank \in Int
  PROVE  SummaryKeepsAudience(a, b, ms)
<1> SUFFICES ASSUME MaySummarize(a, ms), RecordVisible(b, Summary(a, ms)), NEW m \in ms
             PROVE  RecordVisible(b, m)
  BY DEF SummaryKeepsAudience, Summarized
<1> DEFINE P == {x.project : x \in ms}
           R == {x.rank : x \in ms}
<1>1. Scopes(ms) = P
  BY DEF Scopes
<1>2. PICK s : s = Summary(a, ms)
  OBVIOUS
<1>3. /\ s.project = (CHOOSE p \in Scopes(ms) : TRUE) /\ s.rank = Max(R)
      /\ s.roles = CommonRoles(ms) \cap a.grants
  BY <1>2 DEF Summary
<1>4. m.project \in P /\ m.rank \in R /\ R \subseteq Nat
  OBVIOUS
<1>5. IsFiniteSet(P) /\ IsFiniteSet(R)
  <2>1. [x \in ms |-> x.project] \in Surjection(ms, P)
    BY DEF Surjection
  <2>2. [x \in ms |-> x.rank] \in Surjection(ms, R)
    BY DEF Surjection
  <2> QED BY <2>1, <2>2, FS_Surjection
<1> HIDE DEF P, R
<1>6. Cardinality(P) = 1
  BY <1>1 DEF MaySummarize
<1>7. PICK only : P = {only}
  BY <1>5, <1>6, FS_Singleton
<1>8. s.project = m.project
  BY <1>1, <1>3, <1>4, <1>7
<1>9. Max(R) \in R /\ Max(R) >= m.rank
  BY <1>4, <1>5, LargestExists
<1>10. PermitsScope(b, s.project, s.rank) /\ s.roles \cap b.roles # {}
  BY <1>2 DEF RecordVisible
<1>11. PermitsScope(b, m.project, m.rank)
  <2>1. \A x, y, z \in Int : x >= y /\ x <= z => y <= z
    OBVIOUS
  <2>2. m.rank \in Int /\ s.rank \in Int
    <3>1. PICK x \in R : x = s.rank
      BY <1>3, <1>9
    <3>2. x \in Nat
      BY <1>4
    <3> QED BY <3>1, <3>2
  <2>3. {s.project, "*"} \cap b.projects # {} /\ s.rank <= b.rank
    BY <1>10 DEF PermitsScope
  <2>4. m.rank <= b.rank
    BY <1>3, <1>9, <2>1, <2>2, <2>3
  <2> QED BY <1>8, <2>3, <2>4 DEF PermitsScope
<1>12. CommonRoles(ms) \subseteq m.roles
  BY DEF CommonRoles
<1> QED BY <1>3, <1>10, <1>11, <1>12 DEF RecordVisible

LEMMA CommandsAreReviewed ==
  ASSUME NEW exe, NEW rb, NEW supplied,
         \A name \in DOMAIN rb.parameters :
           rb.parameters[name].kind \in {"enum", "uuid", "string", "integer", "boolean"},
         \A name \in DOMAIN supplied : "text" \in DOMAIN supplied[name],
         Listed(rb.argv)
  PROVE  RenderedIsReviewed(exe, rb, supplied)
<1> DEFINE values == Validated(rb, supplied)
           argv   == RenderArgv(rb, values)
<1> SUFFICES ASSUME PathsAccepted(exe), RunbookAccepted(exe, rb), rb.argv # <<>>,
                    ParametersAccepted(rb, supplied)
             PROVE  /\ argv[1] \in (exe.executables \cup {exe.sudo}) \ Shells
                    /\ argv[1] = exe.sudo => argv[3] \in exe.helpers \ Shells
                    /\ \A i \in DOMAIN argv :
                         \/ argv[i] = rb.argv[i].text /\ rb.argv[i].kind = "literal"
                         \/ argv[i] \in SafeValues
                         \/ supplied[rb.argv[i].text].type \in {"int", "bool"}
                         \/ argv[i] = supplied[rb.argv[i].text].uuid
  BY DEF RenderedIsReviewed
<1>1. DOMAIN argv = DOMAIN rb.argv
      /\ \A i \in DOMAIN rb.argv : rb.argv[i].kind = "literal" => argv[i] = rb.argv[i].text
  BY DEF RenderArgv
<1>2. /\ \A i \in DOMAIN rb.argv : WordAccepted(rb.argv[i], rb.parameters)
      /\ rb.argv[1].kind = "literal" /\ rb.argv[1].text \in Absolute
      /\ TemplateAccepted(exe, rb.argv)
      /\ \A name \in DOMAIN rb.parameters : SpecAccepted(rb.parameters[name])
  BY DEF RunbookAccepted
<1>3. DOMAIN rb.argv = 1 .. Len(rb.argv) /\ Len(rb.argv) \in Nat /\ Len(rb.argv) # 0
  BY DEF Listed
<1>4. argv[1] = rb.argv[1].text /\ argv[1] \notin Shells
  <2>1. 1 \in DOMAIN rb.argv
    BY <1>3
  <2> QED BY <1>1, <1>2, <2>1 DEF TemplateAccepted
<1>5. argv[1] \in (exe.executables \cup {exe.sudo}) \ Shells
  <2>1. rb.argv[1].text \in exe.executables \/ rb.argv[1].text = exe.sudo
    BY <1>2 DEF TemplateAccepted
  <2> QED BY <1>4, <2>1
<1>6. ASSUME argv[1] = exe.sudo PROVE argv[3] \in exe.helpers \ Shells
  <2>1. exe.sudo # "none" /\ rb.argv[1].text = exe.sudo
    BY <1>2, <1>4, <1>6, AbsoluteAssumption DEF AbsoluteAssumption
  <2>2. Len(rb.argv) > 2 /\ rb.argv[3].kind = "literal" /\ rb.argv[3].text \in exe.helpers
    BY <1>2, <2>1 DEF TemplateAccepted
  <2>3. 3 \in DOMAIN rb.argv
    BY <1>3, <2>2
  <2>4. argv[3] = rb.argv[3].text
    BY <1>1, <2>2, <2>3
  <2>5. exe.helpers \cap Shells = {}
    BY DEF PathsAccepted
  <2> QED BY <2>2, <2>4, <2>5
<1>7. ASSUME NEW i \in DOMAIN argv
      PROVE  \/ argv[i] = rb.argv[i].text /\ rb.argv[i].kind = "literal"
             \/ argv[i] \in SafeValues
             \/ supplied[rb.argv[i].text].type \in {"int", "bool"}
             \/ argv[i] = supplied[rb.argv[i].text].uuid
  <2>1. CASE rb.argv[i].kind = "literal"
    BY <1>1, <2>1
  <2>2. CASE rb.argv[i].kind # "literal"
    <3>1. PICK name : name = rb.argv[i].text
      OBVIOUS
    <3>2. PICK spec, v : spec = rb.parameters[name] /\ v = supplied[name]
      OBVIOUS
    <3>3. /\ rb.argv[i].kind = "parameter" /\ name \in DOMAIN rb.parameters /\ spec.kind # "string"
          /\ name \in DOMAIN supplied /\ ValueAccepted(spec, v) /\ SpecAccepted(spec)
      BY <1>1, <1>2, <2>2, <3>1, <3>2 DEF WordAccepted, ParametersAccepted
    <3>4. argv[i] = values[name].text /\ values[name] = Normalized(spec, v)
      BY <1>1, <3>1, <3>2, <3>3 DEF RenderArgv, Validated
    <3>5. CASE spec.kind = "uuid"
      <4>1. Normalized(spec, v).text = v.uuid
        BY <3>2, <3>3, <3>5 DEF Normalized
      <4> QED BY <3>1, <3>2, <3>4, <4>1
    <3>6. CASE spec.kind = "enum"
      <4>1. Normalized(spec, v) = v
        BY <3>6 DEF Normalized
      <4>2. v.text \in SafeValues
        BY <3>3, <3>6 DEF ValueAccepted, SpecAccepted
      <4> QED BY <3>4, <4>1, <4>2
    <3>7. CASE spec.kind \in {"integer", "boolean"}
      <4>1. v.type \in {"int", "bool"}
        BY <3>3, <3>7 DEF ValueAccepted
      <4> QED BY <3>1, <3>2, <4>1
    <3> QED BY <3>2, <3>3, <3>5, <3>6, <3>7
  <2> QED BY <2>1, <2>2
<1> QED BY <1>5, <1>6, <1>7

LEMMA SpellingsAgree ==
  ASSUME NEW rb, NEW supplied, NEW other,
         \A name \in DOMAIN supplied : "text" \in DOMAIN supplied[name],
         \A name \in DOMAIN other : "text" \in DOMAIN other[name]
  PROVE  SpellingsShareBudget(rb, supplied, other)
<1> SUFFICES ASSUME ParametersAccepted(rb, supplied), ParametersAccepted(rb, other),
                    \A name \in rb.key : name \in DOMAIN rb.parameters
                                           /\ rb.parameters[name].kind = "uuid",
                    \A name \in DOMAIN rb.parameters : supplied[name].uuid = other[name].uuid
             PROVE  BudgetKey(rb, Validated(rb, supplied)) = BudgetKey(rb, Validated(rb, other))
  BY DEF SpellingsShareBudget
<1>1. ASSUME NEW name \in rb.key
      PROVE  Validated(rb, supplied)[name].text = Validated(rb, other)[name].text
  <2>1. /\ name \in DOMAIN supplied /\ name \in DOMAIN other /\ name \in DOMAIN rb.parameters
        /\ rb.parameters[name].kind = "uuid"
    BY DEF ParametersAccepted
  <2>2. PICK spec, v, w : spec = rb.parameters[name] /\ v = supplied[name] /\ w = other[name]
    OBVIOUS
  <2>3. Validated(rb, supplied)[name] = Normalized(spec, v)
        /\ Validated(rb, other)[name] = Normalized(spec, w)
    BY <2>1, <2>2 DEF Validated
  <2>4. Normalized(spec, v).text = v.uuid /\ Normalized(spec, w).text = w.uuid
    BY <2>1, <2>2 DEF Normalized
  <2>5. v.uuid = w.uuid
    BY <2>1, <2>2
  <2> QED BY <2>3, <2>4, <2>5
<1> QED BY <1>1 DEF BudgetKey
-----------------------------------------------------------------------------
(* The requirements                                                        *)

\* g asks for as much as f in every dimension.
Below(f, g) == \A dim \in DOMAIN f : dim \in DOMAIN g /\ g[dim] >= f[dim]

LEMMA JoinedGrows ==
  ASSUME NEW f, NEW g, NEW f2, NEW g2, DOMAIN f = DOMAIN f2, Below(f, f2), Below(g, g2)
  PROVE  Below(Joined(f, g), Joined(f2, g2))
<1>1. PICK j, k : j = Joined(f, g) /\ k = Joined(f2, g2)
  OBVIOUS
<1>2. /\ DOMAIN j = DOMAIN f \cup DOMAIN g /\ DOMAIN k = DOMAIN f2 \cup DOMAIN g2
      /\ \A dim \in DOMAIN j : j[dim] = IF dim \in DOMAIN f THEN f[dim] ELSE g[dim]
      /\ \A dim \in DOMAIN k : k[dim] = IF dim \in DOMAIN f2 THEN f2[dim] ELSE g2[dim]
  BY <1>1 DEF Joined
<1>3. ASSUME NEW dim \in DOMAIN j PROVE dim \in DOMAIN k /\ k[dim] >= j[dim]
  BY <1>2 DEF Below
<1> QED BY <1>1, <1>3 DEF Below

LEMMA JoinedDomain ==
  ASSUME NEW f, NEW g
  PROVE  DOMAIN Joined(f, g) = DOMAIN f \cup DOMAIN g
BY DEF Joined

\* The smaller of two numbers.
LEMMA LeastOfTwo ==
  ASSUME NEW a \in Int, NEW b \in Int
  PROVE  Min({a, b}) = IF a <= b THEN a ELSE b
<1>1. \A x, y \in {a, b} : x <= y /\ y <= x => x = y
  OBVIOUS
<1>2. a <= b => Min({a, b}) = a
  BY DEF Min
<1>3. b <= a => Min({a, b}) = b
  BY DEF Min
<1> QED BY <1>2, <1>3

LEMMA LeastGrows ==
  ASSUME NEW c \in Int, NEW x \in Int, NEW y \in Int, x <= y
  PROVE  Min({c, x}) <= Min({c, y})
BY LeastOfTwo

LEMMA DoubtMatters ==
  ASSUME NEW q, NEW h, q.complexity \in Int, h.complexity \in Int,
         q.confidence \in Int, h.confidence \in Int,
         q.risk \in DOMAIN Reliability, h.risk \in DOMAIN Reliability
  PROVE  DoubtRaisesTheBar(q, h)
<1> SUFFICES ASSUME q.task = h.task, q.urgency = h.urgency,
                    Reliability[q.risk] <= Reliability[h.risk],
                    q.complexity <= h.complexity, q.confidence >= h.confidence
             PROVE  Below(RequirementsFor(q), RequirementsFor(h))
  BY DEF DoubtRaisesTheBar, Below
<1>1. PICK c, d, u, w, r, s :
        /\ c = (q.complexity * 3 + 50) \div 100 /\ d = (h.complexity * 3 + 50) \div 100
        /\ u = Uncertainty(q) /\ w = Uncertainty(h)
        /\ r = Reliability[q.risk] /\ s = Reliability[h.risk]
  OBVIOUS
<1>2. c \in Int /\ d \in Int /\ c <= d
  BY <1>1
<1>3. u \in Int /\ w \in Int /\ u <= w
  BY <1>1 DEF Uncertainty
<1>4. r \in Int /\ s \in Int /\ r <= s
  BY <1>1 DEF Reliability
<1>5. PICK f, f2 : f = [instructions |-> Min({9, 5 + c \div 2}), reliability |-> r]
                   /\ f2 = [instructions |-> Min({9, 5 + d \div 2}), reliability |-> s]
  OBVIOUS
<1>6. PICK t, t2 : /\ t = IF q.urgency = "EMERGENCY" THEN [speed |-> 4] ELSE <<>>
                   /\ t2 = IF h.urgency = "EMERGENCY" THEN [speed |-> 4] ELSE <<>>
  OBVIOUS
<1>7. Below(t, t2)
  BY <1>6 DEF Below
<1>8. \A x, y \in Int : x <= y => Min({9, x}) <= Min({9, y}) /\ Min({10, x}) <= Min({10, y})
  <2>1. PICK nine \in Int, ten \in Int : nine = 9 /\ ten = 10
    OBVIOUS
  <2> QED BY <2>1, LeastGrows
<1>9. DOMAIN f = DOMAIN f2 /\ Below(f, f2)
  <2>1. 5 + c \div 2 \in Int /\ 5 + d \div 2 \in Int /\ 5 + c \div 2 <= 5 + d \div 2
    BY <1>2
  <2>2. Min({9, 5 + c \div 2}) <= Min({9, 5 + d \div 2})
    BY <1>8, <2>1
  <2> QED BY <1>4, <1>5, <2>2 DEF Below
<1> DEFINE Of(own) == Joined(Joined(f, own), t)
           Of2(own) == Joined(Joined(f2, own), t2)
<1>10. ASSUME NEW own, NEW own2, DOMAIN own = DOMAIN own2, Below(own, own2)
       PROVE  Below(Of(own), Of2(own2))
  <2>1. PICK j, k : j = Joined(f, own) /\ k = Joined(f2, own2)
    OBVIOUS
  <2>2. Below(j, k)
    BY <1>9, <1>10, <2>1, JoinedGrows
  <2>3. DOMAIN j = DOMAIN k
    <3>1. DOMAIN j = DOMAIN f \union DOMAIN own /\ DOMAIN k = DOMAIN f2 \union DOMAIN own2
      BY <2>1, JoinedDomain
    <3> QED BY <1>9, <1>10, <3>1
  <2> QED BY <1>7, <2>1, <2>2, <2>3, JoinedGrows
<1>11. CASE q.task \in {"EMBED", "RERANK"}
  <2>1. RequirementsFor(q) = <<>>
    BY <1>11 DEF RequirementsFor
  <2> QED BY <2>1 DEF Below
<1>12. CASE q.task = "OBSERVE"
  <2>1. PICK o, o2 : o = [general |-> 4 + c, factuality |-> r]
                     /\ o2 = [general |-> 4 + d, factuality |-> s]
    OBVIOUS
  <2>2. DOMAIN o = DOMAIN o2 /\ Below(o, o2)
    BY <1>2, <1>4, <2>1 DEF Below
  <2>3. RequirementsFor(q) = Of(o) /\ RequirementsFor(h) = Of2(o2)
    BY <1>1, <1>5, <1>6, <1>12, <2>1 DEF RequirementsFor
  <2> QED BY <1>10, <2>2, <2>3
<1>13. CASE q.task = "SUMMARIZE"
  <2>1. PICK o, o2 : o = [general |-> 5 + c, factuality |-> r, multilingual |-> 6]
                     /\ o2 = [general |-> 5 + d, factuality |-> s, multilingual |-> 6]
    OBVIOUS
  <2>2. DOMAIN o = DOMAIN o2 /\ Below(o, o2)
    BY <1>2, <1>4, <2>1 DEF Below
  <2>3. RequirementsFor(q) = Of(o) /\ RequirementsFor(h) = Of2(o2)
    BY <1>1, <1>5, <1>6, <1>13, <2>1 DEF RequirementsFor
  <2> QED BY <1>10, <2>2, <2>3
<1>17. /\ 5 + c + u \in Int /\ 5 + d + w \in Int /\ 5 + c + u <= 5 + d + w
       /\ 4 + c + u \in Int /\ 4 + d + w \in Int /\ 4 + c + u <= 4 + d + w
       /\ 7 + c \in Int /\ 7 + d \in Int /\ 7 + c <= 7 + d
       /\ 6 + c \in Int /\ 6 + d \in Int /\ 6 + c <= 6 + d
       /\ 4 + c \in Int /\ 4 + d \in Int /\ 4 + c <= 4 + d
  BY <1>2, <1>3
<1>14. CASE q.task = "CODE"
  <2>1. PICK o, o2 :
          /\ o = [reasoning |-> Min({9, 5 + c + u}), code |-> Min({10, 7 + c}), tools |-> 7,
                  agentic |-> Min({9, 6 + c})]
          /\ o2 = [reasoning |-> Min({9, 5 + d + w}), code |-> Min({10, 7 + d}), tools |-> 7,
                   agentic |-> Min({9, 6 + d})]
    OBVIOUS
  <2>2. /\ Min({9, 5 + c + u}) <= Min({9, 5 + d + w}) /\ Min({10, 7 + c}) <= Min({10, 7 + d})
        /\ Min({9, 6 + c}) <= Min({9, 6 + d})
    BY <1>8, <1>17
  <2>3. DOMAIN o = DOMAIN o2 /\ Below(o, o2)
    BY <2>1, <2>2 DEF Below
  <2>4. RequirementsFor(q) = Of(o) /\ RequirementsFor(h) = Of2(o2)
    BY <1>1, <1>5, <1>6, <1>14, <2>1 DEF RequirementsFor
  <2> QED BY <1>10, <2>3, <2>4
<1>15. CASE q.task = "PLAN"
  <2>1. PICK o, o2 :
          /\ o = [reasoning |-> Min({10, 5 + c + u}), tools |-> Min({9, 6 + c}),
                  agentic |-> Min({9, 6 + c}), factuality |-> r]
          /\ o2 = [reasoning |-> Min({10, 5 + d + w}), tools |-> Min({9, 6 + d}),
                   agentic |-> Min({9, 6 + d}), factuality |-> s]
    OBVIOUS
  <2>2. /\ Min({10, 5 + c + u}) <= Min({10, 5 + d + w}) /\ Min({9, 6 + c}) <= Min({9, 6 + d})
    BY <1>8, <1>17
  <2>3. DOMAIN o = DOMAIN o2 /\ Below(o, o2)
    BY <1>4, <2>1, <2>2 DEF Below
  <2>4. RequirementsFor(q) = Of(o) /\ RequirementsFor(h) = Of2(o2)
    BY <1>1, <1>5, <1>6, <1>15, <2>1 DEF RequirementsFor
  <2> QED BY <1>10, <2>3, <2>4
<1>16. CASE q.task \notin {"EMBED", "RERANK", "OBSERVE", "SUMMARIZE", "CODE", "PLAN"}
  <2>1. PICK o, o2 :
          /\ o = [reasoning |-> Min({10, 4 + c + u}), factuality |-> r, general |-> Min({9, 4 + c})]
          /\ o2 = [reasoning |-> Min({10, 4 + d + w}), factuality |-> s, general |-> Min({9, 4 + d})]
    OBVIOUS
  <2>2. /\ Min({10, 4 + c + u}) <= Min({10, 4 + d + w}) /\ Min({9, 4 + c}) <= Min({9, 4 + d})
    BY <1>8, <1>17
  <2>3. DOMAIN o = DOMAIN o2 /\ Below(o, o2)
    BY <1>4, <2>1, <2>2 DEF Below
  <2>4. RequirementsFor(q) = Of(o)
    BY <1>1, <1>5, <1>6, <1>16, <2>1 DEF RequirementsFor
  <2>5. RequirementsFor(h) = Of2(o2)
    <3>1. h.task \notin {"EMBED", "RERANK", "OBSERVE", "SUMMARIZE", "CODE", "PLAN"}
      BY <1>16
    <3> QED BY <1>1, <1>5, <1>6, <3>1, <2>1 DEF RequirementsFor
  <2> QED BY <1>10, <2>3, <2>4, <2>5
<1> QED BY <1>11, <1>12, <1>13, <1>14, <1>15, <1>16
-----------------------------------------------------------------------------
(* The record of failures                                                  *)

\* What SumFunctionOnSet computes for the subsets of S.
Drawn(s) == CHOOSE x \in s : TRUE
Sums(w, S, g) ==
  [s \in SUBSET S |-> IF s = {} THEN 0 ELSE w[Drawn(s)] + g[s \ {Drawn(s)}]]

LEMMA SumUnfolds ==
  ASSUME NEW w, NEW S
  PROVE  SumFunctionOnSet(w, S) = (CHOOSE g : g = Sums(w, S, g))[S]
BY Zenon DEF SumFunctionOnSet, FoldFunctionOnSet, MapThenFoldSet, Sums, Drawn

\* Induction over the subsets of a finite set: one of the smallest that
\* are in B.
LEMMA SmallestSubset ==
  ASSUME NEW U, IsFiniteSet(U), NEW B \in SUBSET (SUBSET U), B # {}
  PROVE  \E s \in B : /\ \A x \in s : s \ {x} \notin B
                      /\ \A x \in s : Cardinality(s \ {x}) = Cardinality(s) - 1
<1>1. \A s \in SUBSET U : IsFiniteSet(s) /\ Cardinality(s) \in Nat
  BY FS_Subset, FS_CardinalityType
<1>2. PICK N : N = {n \in Nat : \E s \in B : Cardinality(s) = n}
  OBVIOUS
<1>3. N # {} /\ N \subseteq Nat
  BY <1>1, <1>2
<1>4. PICK R : R = {p \in Nat \X Nat : p[1] < p[2]}
  OBVIOUS
<1>5. IsWellFoundedOn(R, Nat)
  BY <1>4, NatLessThanWellFounded DEF OpToRel
<1>6. PICK n \in N : \A m \in N : <<m, n>> \notin R
  BY <1>3, <1>5, WFMin
<1>7. PICK s \in B : Cardinality(s) = n
  BY <1>2
<1>8. ASSUME NEW x \in s PROVE Cardinality(s \ {x}) = Cardinality(s) - 1
  BY <1>1, FS_RemoveElement
<1>9. ASSUME NEW x \in s, s \ {x} \in B PROVE FALSE
  <2>1. PICK m \in N : m = Cardinality(s \ {x}) /\ m = n - 1
    BY <1>1, <1>2, <1>3, <1>7, <1>8, <1>9
  <2>2. PICK p \in Nat \X Nat : p = <<m, n>>
    BY <1>3
  <2>3. p[1] = m /\ p[2] = n
    BY <2>2
  <2>4. p \in R
    BY <1>3, <1>4, <2>1, <2>3
  <2> QED BY <1>6, <2>2, <2>4
<1> QED BY <1>8, <1>9

\* There is a function that satisfies the recursion.
LEMMA SumsExist ==
  ASSUME NEW w, NEW U, IsFiniteSet(U)
  PROVE  \E g : g = Sums(w, U, g)
<1> DEFINE Good(g, s) == g[s] = IF s = {} THEN 0 ELSE w[Drawn(s)] + g[s \ {Drawn(s)}]
           Upto(g, V) == \A s \in SUBSET V : Good(g, s)
<1>0. \A s \in SUBSET U : s # {} => Drawn(s) \in s
  BY DEF Drawn
<1>1. PICK B \in SUBSET (SUBSET U) :
        \A s \in SUBSET U : s \in B <=>
          ~ \E g : \A t \in SUBSET U : Cardinality(t) <= Cardinality(s) => Good(g, t)
  <2>1. {s \in SUBSET U : ~ \E g : \A t \in SUBSET U : Cardinality(t) <= Cardinality(s) => Good(g, t)}
          \in SUBSET (SUBSET U)
    OBVIOUS
  <2> QED BY <2>1
<1>2. \A s \in SUBSET U : IsFiniteSet(s) /\ Cardinality(s) \in Nat /\ (Cardinality(s) = 0 <=> s = {})
                          /\ Cardinality(s) <= Cardinality(U)
  BY FS_Subset, FS_CardinalityType, FS_EmptySet
<1>3. ASSUME B # {} PROVE FALSE
  <2>1. PICK s \in B : /\ \A x \in s : s \ {x} \notin B
                       /\ \A x \in s : Cardinality(s \ {x}) = Cardinality(s) - 1
    BY <1>3, SmallestSubset
  <2>2. CASE s = {}
    <3>1. PICK g : g = [t \in SUBSET U |-> 0]
      OBVIOUS
    <3>2. \A t \in SUBSET U : Cardinality(t) <= Cardinality(s) => Good(g, t)
      BY <2>2, <3>1, <1>2
    <3> QED BY <3>2, <1>1
  <2>3. CASE s # {}
    <3>1. PICK x \in s : TRUE
      BY <2>3
    <3>2. s \ {x} \in SUBSET U /\ s \ {x} \notin B /\ Cardinality(s \ {x}) = Cardinality(s) - 1
      BY <2>1
    <3>3. PICK g : \A t \in SUBSET U : Cardinality(t) <= Cardinality(s \ {x}) => Good(g, t)
      BY <3>2, <1>1
    <3>4. PICK h : h = [t \in SUBSET U |-> IF Cardinality(t) < Cardinality(s) THEN g[t]
                                           ELSE w[Drawn(t)] + g[t \ {Drawn(t)}]]
      OBVIOUS
    <3>5. ASSUME NEW t \in SUBSET U, Cardinality(t) <= Cardinality(s) PROVE Good(h, t)
      <4>1. t # {} => /\ Drawn(t) \in t /\ t \ {Drawn(t)} \in SUBSET U
                      /\ Cardinality(t \ {Drawn(t)}) = Cardinality(t) - 1
        BY <1>0, <1>2, FS_RemoveElement
      <4>2. t # {} => h[t \ {Drawn(t)}] = g[t \ {Drawn(t)}]
        BY <4>1, <3>4, <3>5, <1>2
      <4>3. CASE Cardinality(t) < Cardinality(s)
        <5>0. Cardinality(t) <= Cardinality(s \ {x})
          BY <4>3, <3>2, <1>1, <1>2
        <5>1. h[t] = g[t] /\ Good(g, t)
          BY <5>0, <4>3, <3>3, <3>4
        <5> QED BY <5>1, <4>2
      <4>4. CASE ~ (Cardinality(t) < Cardinality(s))
        <5>1. t # {}
          BY <4>4, <2>3, <3>5, <1>2
        <5>2. h[t] = w[Drawn(t)] + g[t \ {Drawn(t)}]
          BY <4>4, <3>4
        <5> QED BY <5>1, <5>2, <4>2
      <4> QED BY <4>3, <4>4
    <3> QED BY <3>5, <1>1
  <2> QED BY <2>2, <2>3
<1>4. PICK g : \A t \in SUBSET U : Cardinality(t) <= Cardinality(U) => Good(g, t)
  BY <1>1, <1>3
<1>5. PICK h : h = [t \in SUBSET U |-> g[t]]
  OBVIOUS
<1>6. ASSUME NEW t \in SUBSET U
      PROVE  h[t] = IF t = {} THEN 0 ELSE w[Drawn(t)] + h[t \ {Drawn(t)}]
  <2>1. Good(g, t) /\ h[t] = g[t] /\ (t # {} => h[t \ {Drawn(t)}] = g[t \ {Drawn(t)}])
    BY <1>2, <1>4, <1>5
  <2> QED BY <2>1
<1>7. h = Sums(w, U, h)
  BY <1>5, <1>6 DEF Sums
<1> QED BY <1>7

\* A sum of numbers that are each at most k.
LEMMA SumBounded ==
  ASSUME NEW w, NEW U, IsFiniteSet(U), NEW k \in Nat, \A x \in U : w[x] \in 0 .. k
  PROVE  SumFunctionOnSet(w, U) \in 0 .. k * Cardinality(U)
<1>1. PICK g : g = Sums(w, U, g) /\ SumFunctionOnSet(w, U) = g[U]
  BY SumUnfolds, SumsExist
<1>2. \A s \in SUBSET U : IsFiniteSet(s) /\ Cardinality(s) \in Nat
  BY FS_Subset, FS_CardinalityType
<1>3. PICK B \in SUBSET (SUBSET U) : B = {s \in SUBSET U : g[s] \notin 0 .. k * Cardinality(s)}
  OBVIOUS
<1>4. ASSUME B # {} PROVE FALSE
  <2>1. PICK s \in B : /\ \A x \in s : s \ {x} \notin B
                       /\ \A x \in s : Cardinality(s \ {x}) = Cardinality(s) - 1
    BY <1>4, SmallestSubset
  <2>2. /\ s \in SUBSET U /\ g[s] \notin 0 .. k * Cardinality(s)
        /\ g[s] = IF s = {} THEN 0 ELSE w[Drawn(s)] + g[s \ {Drawn(s)}]
    BY <1>1, <1>3 DEF Sums
  <2>3. CASE s = {}
    <3>1. k * Cardinality(s) = 0
      BY <2>3, FS_EmptySet
    <3> QED BY <2>2, <2>3, <3>1
  <2>4. CASE s # {}
    <3>1. PICK x : x = Drawn(s) /\ x \in s
      BY <2>4 DEF Drawn
    <3>2. PICK c \in Nat : c = Cardinality(s) /\ Cardinality(s \ {x}) = c - 1
      BY <1>2, <2>1, <2>2, <3>1
    <3>3. s \ {x} \in SUBSET U /\ g[s \ {x}] \in 0 .. k * (c - 1) /\ w[x] \in 0 .. k
      BY <1>3, <2>1, <2>2, <3>1, <3>2
    <3>4. k * (c - 1) + k = k * c
      OBVIOUS
    <3> QED BY <2>2, <2>4, <3>1, <3>2, <3>3, <3>4
  <2> QED BY <2>3, <2>4
<1> QED BY <1>1, <1>3, <1>4

\* The larger of two numbers.
LEMMA MostOfTwo ==
  ASSUME NEW a \in Int, NEW b \in Int
  PROVE  Max({a, b}) = IF a >= b THEN a ELSE b
<1>1. \A x, y \in {a, b} : x <= y /\ y <= x => x = y
  OBVIOUS
<1>2. a >= b => Max({a, b}) = a
  BY DEF Max
<1>3. b >= a => Max({a, b}) = b
  BY DEF Max
<1> QED BY <1>2, <1>3

LEMMA QuotientBelow ==
  ASSUME NEW a \in Int, NEW d \in Nat, d > 0, NEW k \in Int, a < (k + 1) * d
  PROVE  a \div d \in Int /\ a \div d <= k
<1>1. PICK q, r \in Int : q = a \div d /\ r = a % d /\ a = d * q + r /\ r >= 0
  OBVIOUS
<1>2. ASSUME q >= k + 1 PROVE FALSE
  <2>1. d * q >= d * (k + 1)
    BY <1>2
  <2> QED BY <1>1, <2>1
<1> QED BY <1>1, <1>2

LEMMA QuotientRange ==
  ASSUME NEW a \in Int, NEW d \in Nat, d > 0
  PROVE  a \div d \in Int /\ (a >= 0 => a \div d >= 0)
<1>1. PICK q, r \in Int : q = a \div d /\ r = a % d /\ a = d * q + r /\ r >= 0 /\ r < d
  OBVIOUS
<1>2. ASSUME a >= 0, q <= -1 PROVE FALSE
  <2>1. d * q <= d * (-1)
    BY <1>2
  <2> QED BY <1>1, <1>2, <2>1
<1> QED BY <1>1, <1>2

LEMMA ProductRange ==
  ASSUME NEW c \in Int, NEW m \in Nat, c >= -1000000
  PROVE  c * m \in Int /\ c * m >= -1000000 * m /\ (c >= 0 => c * m >= 0)
<1>1. PICK k \in Nat : k = c + 1000000
  OBVIOUS
<1>2. k * m >= 0 /\ k * m = c * m + 1000000 * m
  BY <1>1
<1>3. c >= 0 => c * m >= 0
  OBVIOUS
<1> QED BY <1>2, <1>3

\* The k-th of n numbers is one of them.
LEMMA KthIsOne ==
  ASSUME NEW n \in Nat, NEW s \in [1 .. n -> Nat], NEW k \in 1 .. n
  PROVE  Kth(s, k) \in Nat
<1>1. PICK T : T = ToSet(s)
  OBVIOUS
<1>2. DOMAIN s = 1 .. n /\ T \subseteq Nat /\ \A i \in 1 .. n : s[i] \in T
  BY <1>1 DEF ToSet
<1>3. IsFiniteSet(1 .. n) /\ Cardinality(1 .. n) = n
  BY FS_Interval
<1>4. IsFiniteSet(T)
  <2>1. s \in Surjection(1 .. n, T)
    BY <1>1, <1>2 DEF Surjection, ToSet
  <2> QED BY <1>3, <2>1, FS_Surjection
<1>5. T # {}
  BY <1>2
<1>6. PICK most : most = Max(T) /\ most \in T /\ \A x \in T : most >= x
  BY <1>2, <1>4, <1>5, LargestExists
<1>7. PICK S : S = {x \in T : Cardinality({i \in 1 .. n : s[i] <= x}) >= k}
  OBVIOUS
<1>8. most \in S
  <2>1. PICK R : R = {i \in 1 .. n : s[i] <= most}
    OBVIOUS
  <2>2. R = 1 .. n
    BY <1>2, <1>6, <2>1
  <2>3. Cardinality(R) = n
    BY <1>3, <2>2
  <2>4. Cardinality(R) >= k
    BY <2>3
  <2> QED BY <1>6, <1>7, <2>1, <2>4
<1>9. S \in SUBSET Nat /\ S # {}
  BY <1>2, <1>7, <1>8
<1>10. Min(S) \in Nat
  BY <1>9, MinIsIn
<1>11. Kth(s, k) = Min(S)
  BY <1>1, <1>2, <1>7 DEF Kth
<1> QED BY <1>10, <1>11

LEMMA MedianIsNumber ==
  ASSUME NEW n \in Nat, n > 0, NEW s \in [1 .. n -> Nat], Len(s) = n
  PROVE  Median(s) \in Int
<1>1. PICK k \in Nat : k = n \div 2 /\ k + 1 <= n /\ (n % 2 # 1 => k >= 1)
  BY SMTT(30)
<1>2. k + 1 \in 1 .. n /\ (n % 2 # 1 => k \in 1 .. n)
  BY <1>1
<1>3. Kth(s, k + 1) \in Nat /\ (n % 2 # 1 => Kth(s, k) \in Nat)
  BY <1>2, KthIsOne
<1>4. ASSUME NEW x \in Nat, NEW y \in Nat PROVE (x + y) \div 2 \in Int
  OBVIOUS
<1> QED BY <1>1, <1>3, <1>4 DEF Median

\* The adjustment for speed stays within what the urgency allows for, and lowers no
\* price of a model that takes its time.
LEMMA SpeedIsLimited ==
  ASSUME NEW h, NEW urgency \in DOMAIN LatencyPolicy,
         NEW n \in Nat, h.times \in [1 .. n -> Nat], Len(h.times) = n
  PROVE  \E l \in Int :
           /\ l = LatencyAdjustment(h, urgency)
           /\ l >= - LatencyPolicy[urgency].most
           /\ l >= 0 \/ (n >= 5 /\ Median(h.times) < LatencyPolicy[urgency].target)
<1>1. PICK p : p = LatencyPolicy[urgency]
  OBVIOUS
<1>2. PICK t, m \in Nat : t = p.target \div 1000 /\ m = p.most \div 1000 /\ t > 0
                          /\ p.target = 1000 * t /\ p.most = 1000 * m
  <2>1. ASSUME NEW a \in Nat, NEW b \in Nat, a > 0, p = [target |-> 1000 * a, most |-> 1000 * b]
        PROVE  \E t, m \in Nat : /\ t = p.target \div 1000 /\ m = p.most \div 1000 /\ t > 0
                                 /\ p.target = 1000 * t /\ p.most = 1000 * m
    <3>1. p.target = 1000 * a /\ p.most = 1000 * b
      BY <2>1
    <3>2. (1000 * a) \div 1000 = a /\ (1000 * b) \div 1000 = b
      OBVIOUS
    <3> QED BY <2>1, <3>1, <3>2
  <2>2. CASE urgency = "ROUTINE"
    <3>1. PICK a, b \in Nat : a = 12 /\ b = 25
      OBVIOUS
    <3>2. p = [target |-> 1000 * a, most |-> 1000 * b]
      BY <1>1, <2>2, <3>1 DEF LatencyPolicy
    <3> QED BY <2>1, <3>1, <3>2
  <2>3. CASE urgency = "NORMAL"
    <3>1. PICK a, b \in Nat : a = 8 /\ b = 50
      OBVIOUS
    <3>2. p = [target |-> 1000 * a, most |-> 1000 * b]
      BY <1>1, <2>3, <3>1 DEF LatencyPolicy
    <3> QED BY <2>1, <3>1, <3>2
  <2>4. CASE urgency = "URGENT"
    <3>1. PICK a, b \in Nat : a = 4 /\ b = 100
      OBVIOUS
    <3>2. p = [target |-> 1000 * a, most |-> 1000 * b]
      BY <1>1, <2>4, <3>1 DEF LatencyPolicy
    <3> QED BY <2>1, <3>1, <3>2
  <2>5. CASE urgency = "EMERGENCY"
    <3>1. PICK a, b \in Nat : a = 2 /\ b = 150
      OBVIOUS
    <3>2. p = [target |-> 1000 * a, most |-> 1000 * b]
      BY <1>1, <2>5, <3>1 DEF LatencyPolicy
    <3> QED BY <2>1, <3>1, <3>2
  <2>6. urgency \in {"ROUTINE", "NORMAL", "URGENT", "EMERGENCY"}
    BY DEF LatencyPolicy
  <2> QED BY <2>2, <2>3, <2>4, <2>5, <2>6
<1>3. CASE n < 5
  <2>1. LatencyAdjustment(h, urgency) = 0
    BY <1>3 DEF LatencyAdjustment
  <2>2. 0 >= - p.most
    BY <1>2
  <2> QED BY <1>1, <2>1, <2>2
<1>4. CASE n >= 5
  <2>1. PICK med \in Int : med = Median(h.times)
    BY <1>4, MedianIsNumber
  <2>2. PICK gap \in Int : gap = ((med - p.target) * 1000) \div t /\ (med >= p.target => gap >= 0)
    <3>1. PICK d \in Int : d = (med - p.target) * 1000 /\ (med >= p.target => d >= 0)
      BY <1>2
    <3>2. d \in Int /\ t \in Nat /\ t > 0
      BY <1>2
    <3>3. d \div t \in Int /\ (d >= 0 => d \div t >= 0)
      BY <3>2, QuotientRange
    <3> QED BY <3>1, <3>3
  <2>3. PICK million \in Nat : million = 1000000
    OBVIOUS
  <2>4. PICK c \in Int : c = Clamp(gap, million) /\ c >= -1000000 /\ (gap >= 0 => c >= 0)
    <3>1. Clamp(gap, million) \in Int /\ Clamp(gap, million) >= -1000000
          /\ (gap >= 0 => Clamp(gap, million) >= 0)
      BY <2>3 DEF Clamp
    <3> QED BY <3>1
  <2>5. PICK e \in Int : e = c * m /\ e >= -1000000 * m /\ (c >= 0 => e >= 0)
    BY <2>4, <1>2, ProductRange
  <2>6. PICK l \in Int : l = e \div 1000 /\ l >= -1000 * m /\ (e >= 0 => l >= 0)
    BY <2>5
  <2>7. LatencyAdjustment(h, urgency) = l
    <3>1. LatencyAdjustment(h, urgency) =
            IF Len(h.times) >= 5
            THEN (Clamp(((Median(h.times) - p.target) * 1000) \div (p.target \div 1000), 1000000)
                    * (p.most \div 1000)) \div 1000
            ELSE 0
      BY <1>1 DEF LatencyAdjustment
    <3>2. Clamp(((Median(h.times) - p.target) * 1000) \div (p.target \div 1000), 1000000) = c
      <4>1. p.target \div 1000 = t /\ Median(h.times) = med
        BY <1>2, <2>1
      <4>2. PICK s, x : s = p.target \div 1000 /\ x = Median(h.times)
        OBVIOUS
      <4>3. s = t /\ x = med
        BY <4>1, <4>2
      <4>4. PICK g : g = ((x - p.target) * 1000) \div s
        OBVIOUS
      <4>5. g = gap
        BY <2>2, <4>3, <4>4
      <4> QED BY <2>3, <2>4, <4>2, <4>4, <4>5
    <3>3. p.most \div 1000 = m
      BY <1>2
    <3> QED BY <1>4, <2>5, <2>6, <3>1, <3>2, <3>3
  <2>8. l >= - p.most
    BY <1>2, <2>6
  <2>9. l >= 0 \/ med < p.target
    <3>1. PICK target \in Nat : target = p.target
      <4>1. 1000 * t \in Nat
        OBVIOUS
      <4> QED BY <1>2, <4>1
    <3>2. med >= target \/ med < target
      BY <2>1, <3>1
    <3>3. med >= target => gap >= 0
      BY <2>2, <3>1
    <3>4. gap >= 0 => l >= 0
      <4>1. gap >= 0 => c >= 0
        BY <2>4
      <4>2. c >= 0 => e >= 0
        BY <2>5
      <4>3. e >= 0 => l >= 0
        BY <2>6
      <4> QED BY <4>1, <4>2, <4>3
    <3> QED BY <3>1, <3>2, <3>3, <3>4
  <2> QED BY <1>1, <1>4, <2>1, <2>6, <2>7, <2>8, <2>9
<1> QED BY <1>3, <1>4

\* A failed result counts for little.
LEMMA FailureIsPoor ==
  ASSUME NEW v, ~ v.succeeded, v.quality \in Int, v.corrections \in Nat
  PROVE  Points(v) \in 0 .. 250
<1>1. PICK most, five, zero \in Int : most = 250 /\ five = 5 /\ zero = 0
  OBVIOUS
<1>2. PICK m, c : m = Min({v.quality, most}) /\ c = Min({v.corrections, five})
  OBVIOUS
<1>3. m \in Int /\ m <= 250 /\ c \in Nat
  BY <1>1, <1>2, LeastOfTwo
<1>4. Points(v) = Max({zero, m - c * 40})
  BY <1>1, <1>2 DEF Points
<1>5. m - c * 40 \in Int /\ m - c * 40 <= 250
  BY <1>3
<1>6. PICK x \in Int : x = m - c * 40
  BY <1>5
<1>7. Max({zero, x}) = IF zero >= x THEN zero ELSE x
  BY MostOfTwo
<1> QED BY <1>1, <1>4, <1>5, <1>6, <1>7

LEMMA AllowancesAre ==
  ASSUME NEW urgency \in DOMAIN LatencyPolicy
  PROVE  \E m \in Nat : /\ m <= 150 /\ m = LatencyPolicy[urgency].most \div 1000
                         /\ LatencyPolicy[urgency].most = 1000 * m
<1>1. urgency \in {"ROUTINE", "NORMAL", "URGENT", "EMERGENCY"}
  BY DEF LatencyPolicy
<1>2. ASSUME NEW m \in Nat, LatencyPolicy[urgency].most = 1000 * m
      PROVE  m = LatencyPolicy[urgency].most \div 1000
  BY <1>2
<1>3. \E m \in Nat : m <= 150 /\ LatencyPolicy[urgency].most = 1000 * m
  BY <1>1 DEF LatencyPolicy
<1> QED BY <1>2, <1>3

LEMMA FailuresCost ==
  ASSUME NEW h, NEW cost \in Nat, NEW urgency \in DOMAIN LatencyPolicy, Listed(h.validations),
         \A i \in DOMAIN h.validations :
           h.validations[i].quality \in Int /\ h.validations[i].corrections \in Nat,
         h.attempts \in Nat, h.completed \in Nat,
         Len(h.times) \in Nat, h.times \in [1 .. Len(h.times) -> Nat]
  PROVE  FailuresEarnNothing(h, urgency, cost)
<1> PICK k \in Nat : k = Len(h.times) /\ h.times \in [1 .. k -> Nat]
  OBVIOUS
<1> SUFFICES ASSUME \A i \in DOMAIN h.validations : ~ h.validations[i].succeeded,
                    h.completed <= h.attempts
             PROVE  /\ QualityAdjustment(h) >= 0
                    /\ AdaptiveCost(h, urgency, cost) * 1000
                         >= cost * (1000 - LatencyPolicy[urgency].most \div 1000)
                    /\ \/ AdaptiveCost(h, urgency, cost) >= cost
                       \/ Len(h.times) >= 5 /\ Median(h.times) < LatencyPolicy[urgency].target
  BY DEF FailuresEarnNothing
<1>1. PICK n \in Nat : n = Len(h.validations) /\ DOMAIN h.validations = 1 .. n
  BY DEF Listed
<1>2. PICK w : w = [i \in 1 .. n |-> Points(h.validations[i])]
  OBVIOUS
<1>3. PICK S : S = 1 .. n
  OBVIOUS
<1>4. IsFiniteSet(S) /\ Cardinality(S) = n
  BY <1>3, FS_Interval
<1>5. PICK top \in Nat : top = 250
  OBVIOUS
<1>6. \A x \in S : w[x] \in 0 .. top
  BY <1>1, <1>2, <1>3, <1>5, FailureIsPoor
<1>7. PICK sum \in Int : sum = SumFunctionOnSet(w, S) /\ sum <= 250 * n
  <2>1. SumFunctionOnSet(w, S) \in 0 .. top * Cardinality(S)
    BY <1>4, <1>6, SumBounded
  <2> QED BY <1>4, <1>5, <2>1
<1>8. PICK den \in Nat, num \in Int : den = 48 + n * 4 + h.attempts
                                      /\ num = 48 * 750 + h.completed * 750 + 4 * sum
  OBVIOUS
<1>9. PICK q \in Int : q = (num + den \div 2) \div den /\ q <= 750
  <2>1. num <= 750 * den /\ den > 0
    <3>1. PICK a, c \in Nat : a = h.attempts /\ c = h.completed /\ c <= a
      OBVIOUS
    <3>2. den = 48 + n * 4 + a /\ num = 48 * 750 + c * 750 + 4 * sum
      BY <1>8, <3>1
    <3>3. 4 * sum <= 1000 * n
      BY <1>7
    <3>4. num <= 36000 + 750 * a + 1000 * n
      <4>1. c * 750 <= 750 * a /\ 48 * 750 = 36000
        BY <3>1
      <4> QED BY <3>2, <3>3, <4>1
    <3>5. 750 * den = 36000 + 750 * a + 3000 * n
      BY <3>2
    <3> QED BY <3>2, <3>4, <3>5
  <2>2. PICK t \in Int, u \in Int : t = num + den \div 2 /\ t < (u + 1) * den /\ u = 750
    BY <2>1
  <2>3. t \div den \in Int /\ t \div den <= u
    BY <2>1, <2>2, QuotientBelow
  <2> QED BY <2>2, <2>3
<1>10. PICK zero, thousand \in Int : zero = 0 /\ thousand = 1000
  OBVIOUS
<1>11. PICK least \in Int : least = Min({thousand, q}) /\ least <= 750
  BY <1>9, <1>10, LeastOfTwo
<1>12. PICK quality \in Int : quality = Max({zero, least}) /\ quality <= 750
  <2>1. Max({zero, least}) = IF zero >= least THEN zero ELSE least
    BY MostOfTwo
  <2> QED BY <1>10, <1>11, <2>1
<1>13. \A x \in Int : x >= 0 => Clamp(x, 150000) \in Nat
  BY DEF Clamp
<1>14. QualityAdjustment(h) \in Nat
  <2>1. QualityAdjustment(h) = IF n >= 5 \/ h.attempts >= 8 THEN Clamp((750 - quality) * 500, 150000)
                               ELSE 0
    BY <1>1, <1>2, <1>3, <1>7, <1>8, <1>9, <1>10, <1>11, <1>12 DEF QualityAdjustment
  <2>2. (750 - quality) * 500 \in Int /\ (750 - quality) * 500 >= 0
    BY <1>12
  <2> QED BY <1>13, <2>1, <2>2
<1>15. PICK m \in Nat : /\ m <= 150 /\ m = LatencyPolicy[urgency].most \div 1000
                       /\ LatencyPolicy[urgency].most = 1000 * m
  BY AllowancesAre
<1>16. m \in Nat /\ m <= 150
  BY <1>15, Zenon
<1>17. PICK far \in Nat : far = 1000 * m /\ far <= 150000
  BY <1>16
<1>18. PICK l \in Int : /\ l = LatencyAdjustment(h, urgency) /\ l >= - far
                       /\ (l >= 0 \/ (k >= 5 /\ Median(h.times) < LatencyPolicy[urgency].target))
  <2>1. PICK l \in Int :
          /\ l = LatencyAdjustment(h, urgency) /\ l >= - LatencyPolicy[urgency].most
          /\ l >= 0 \/ (k >= 5 /\ Median(h.times) < LatencyPolicy[urgency].target)
    BY SpeedIsLimited
  <2>2. l >= - far
    BY <1>15, <1>17, <2>1
  <2> QED BY <2>1, <2>2
<1>19. PICK g \in Nat : g = QualityAdjustment(h)
  BY <1>14
<1>20. PICK adj \in Int : adj = Clamp(g + l, 150000) /\ adj >= - far /\ (l >= 0 => adj >= 0)
  <2>1. l \in Int /\ l >= - far
    BY <1>18
  <2>2. PICK x \in Int : x = g + l /\ x >= - far /\ (l >= 0 => x >= 0)
    BY <2>1
  <2>3. PICK b \in Int : b = 150000 /\ b >= far
    BY <1>17
  <2>4. PICK y : y = Clamp(x, b)
    OBVIOUS
  <2>5. y = IF x > b THEN b ELSE IF x < -b THEN -b ELSE x
    BY <2>4 DEF Clamp
  <2>6. y \in Int /\ y >= - far /\ (x >= 0 => y >= 0)
    BY <2>2, <2>3, <2>5
  <2>7. y = Clamp(g + l, 150000)
    BY <2>2, <2>3, <2>4
  <2> QED BY <2>2, <2>6, <2>7
<1>21. PICK price \in Int : price = (cost * (1000000 + adj) + 999999) \div 1000000
  OBVIOUS
<1>22. AdaptiveCost(h, urgency, cost) = price
  BY <1>18, <1>19, <1>20, <1>21 DEF AdaptiveCost
<1>23. price * 1000 >= cost * (1000 - m)
  <2>1. PICK x, y \in Int : x = cost * (1000000 + adj) /\ y = cost * (1000000 - far) /\ x >= y
    <3>1. adj \in Int /\ adj >= - far
      BY <1>20
    <3>2. PICK d \in Nat : d = adj + far
      BY <3>1
    <3>3. cost * d >= 0 /\ cost * d \in Int
      OBVIOUS
    <3>4. cost * (1000000 + adj) = cost * (1000000 - far) + cost * d
      BY <3>2
    <3> QED BY <3>3, <3>4
  <2>2. price * 1000000 >= x
    BY <1>21, <2>1
  <2>3. PICK z \in Int : z = cost * (1000 - m)
    BY <1>16
  <2>4. y = 1000 * z
    BY <1>16, <1>17, <2>1, <2>3
  <2>5. price * 1000000 >= 1000 * z
    BY <2>1, <2>2, <2>4
  <2> QED BY <2>3, <2>5
<1>24. l >= 0 => price >= cost
  <2>1. ASSUME l >= 0 PROVE price >= cost
    <3>1. adj \in Nat
      BY <1>20, <2>1
    <3>2. PICK p \in Nat : p = cost * adj
      BY <3>1
    <3>3. cost * (1000000 + adj) = cost * 1000000 + p
      BY <3>2
    <3>4. (cost * 1000000 + p + 999999) \div 1000000 >= cost
      OBVIOUS
    <3> QED BY <1>21, <3>3, <3>4
  <2> QED BY <2>1
<1> QED BY <1>14, <1>15, <1>18, <1>22, <1>23, <1>24
-----------------------------------------------------------------------------
(* The trace of a mission                                                  *)

\* What an event of a chain names as its predecessor.
Before(chain, i) == IF i = 1 THEN Genesis ELSE chain[i - 1].hash

\* Every event is the one that was appended at its place.
Whole(chain) ==
  Listed(chain) /\ \A i \in DOMAIN chain : chain[i] = Event(i, chain[i].what, Before(chain, i))

LEMMA HashesTell ==
  ASSUME NEW i, NEW w, NEW p, NEW j, NEW x, NEW q
  PROVE  /\ Hash(i, w, p) # Genesis
         /\ Hash(i, w, p) = Hash(j, x, q) => i = j /\ w = x
<1>1. PICK h, k : h = <<i, w, p>> /\ k = <<j, x, q>>
  OBVIOUS
<1>2. Len(h) = 3 /\ h[1] = i /\ h[2] = w /\ k[1] = j /\ k[2] = x
  BY <1>1
<1>3. Len(<<>>) = 0
  OBVIOUS
<1> QED BY <1>1, <1>2, <1>3 DEF Hash, Genesis

LEMMA PrefixOf ==
  ASSUME NEW s, Listed(s), NEW m \in 0 .. Len(s)
  PROVE  /\ Listed(SubSeq(s, 1, m)) /\ Len(SubSeq(s, 1, m)) = m
         /\ \A j \in 1 .. m : SubSeq(s, 1, m)[j] = s[j]
<1>1. PICK S, t : S = ToSet(s) /\ s \in Seq(S) /\ t = SubSeq(s, 1, m)
  BY DEF Listed
<1>2. t \in Seq(S) /\ Len(t) = m /\ \A j \in 1 .. m : t[j] = s[j]
  BY <1>1
<1>3. DOMAIN t = 1 .. m
  BY <1>2
<1>4. t \in Seq(ToSet(t))
  <2>1. \A j \in 1 .. m : t[j] \in ToSet(t)
    BY <1>3 DEF ToSet
  <2> QED BY <1>2, <2>1
<1> QED BY <1>1, <1>2, <1>4 DEF Listed

\* Linked, event by event.
LEMMA LinkedMeans ==
  ASSUME NEW chain, Listed(chain)
  PROVE  Linked(chain) <=>
           \A i \in DOMAIN chain :
             /\ chain[i].prev = Before(chain, i)
             /\ chain[i].hash = Hash(chain[i].seq, chain[i].what, chain[i].prev)
<1>1. ASSUME NEW i \in DOMAIN chain
      PROVE  LastHash(SubSeq(chain, 1, i - 1)) = Before(chain, i)
  <2>1. PICK t : t = SubSeq(chain, 1, i - 1)
    OBVIOUS
  <2>2. DOMAIN chain = 1 .. Len(chain) /\ Len(chain) \in Nat /\ i \in 1 .. Len(chain)
    BY DEF Listed
  <2>3. i - 1 \in 0 .. Len(chain)
    BY <2>2
  <2>4. Listed(t) /\ Len(t) = i - 1 /\ \A j \in 1 .. i - 1 : t[j] = chain[j]
    BY <2>1, <2>3, PrefixOf
  <2>5. t = <<>> <=> i = 1
    BY <2>2, <2>4 DEF Listed
  <2>6. CASE i = 1
    BY <2>1, <2>5, <2>6 DEF LastHash, Before
  <2>7. CASE i # 1
    <3>1. Last(t) = chain[i - 1]
      BY <2>2, <2>4, <2>7 DEF Last
    <3> QED BY <2>1, <2>5, <2>7, <3>1 DEF LastHash, Before
  <2> QED BY <2>6, <2>7
<1> QED BY <1>1 DEF Linked

LEMMA WholeIsLinked ==
  ASSUME NEW chain, Whole(chain)
  PROVE  TraceVerify(chain)
<1>1. ASSUME NEW i \in DOMAIN chain
      PROVE  /\ chain[i].prev = Before(chain, i)
             /\ chain[i].hash = Hash(chain[i].seq, chain[i].what, chain[i].prev)
  <2>1. PICK w, p : chain[i] = Event(i, w, p) /\ p = Before(chain, i)
    BY DEF Whole
  <2> QED BY <2>1 DEF Event
<1> QED BY <1>1, LinkedMeans DEF Whole, TraceVerify

LEMMA EventsSay ==
  ASSUME NEW chain, Whole(chain), NEW i \in DOMAIN chain
  PROVE  /\ chain[i].seq = i /\ chain[i].prev = Before(chain, i)
         /\ chain[i].hash = Hash(i, chain[i].what, Before(chain, i))
<1>1. PICK w, p : chain[i] = Event(i, w, p) /\ p = Before(chain, i)
  BY DEF Whole
<1> QED BY <1>1 DEF Event

\* What is left of a trace whose last events are gone is a trace.
LEMMA PrefixIsWhole ==
  ASSUME NEW chain, Whole(chain), NEW m \in 0 .. Len(chain)
  PROVE  Whole(SubSeq(chain, 1, m))
<1>1. PICK t : t = SubSeq(chain, 1, m)
  OBVIOUS
<1>2. Listed(t) /\ Len(t) = m /\ \A j \in 1 .. m : t[j] = chain[j]
  BY <1>1, PrefixOf DEF Whole
<1>3. DOMAIN t = 1 .. m /\ DOMAIN chain = 1 .. Len(chain) /\ Len(chain) \in Nat /\ m \in Nat
  BY <1>2 DEF Whole, Listed
<1>4. ASSUME NEW i \in DOMAIN t PROVE t[i] = Event(i, t[i].what, Before(t, i))
  <2>1. i \in 1 .. m /\ i \in DOMAIN chain /\ (i # 1 => i - 1 \in 1 .. m)
    BY <1>3
  <2>2. t[i] = chain[i] /\ (i # 1 => t[i - 1] = chain[i - 1])
    BY <1>2, <2>1
  <2>3. Before(t, i) = Before(chain, i)
    BY <2>2 DEF Before
  <2> QED BY <2>1, <2>2, <2>3 DEF Whole
<1> QED BY <1>1, <1>2, <1>4 DEF Whole

LEMMA AppendIsWhole ==
  ASSUME NEW chain, Whole(chain), NEW what
  PROVE  Whole(TraceAppend(chain, what))
<1>1. PICK n \in Nat : n = Len(chain) /\ DOMAIN chain = 1 .. n
  BY DEF Whole, Listed
<1>2. PICK seq : seq = IF chain = <<>> THEN 1 ELSE Last(chain).seq + 1
  OBVIOUS
<1>3. seq = n + 1 /\ LastHash(chain) = Before(chain, n + 1)
  <2>1. CASE chain = <<>>
    BY <1>1, <1>2, <2>1 DEF LastHash, Before
  <2>2. CASE chain # <<>>
    <3>1. n \in DOMAIN chain /\ n # 0
      BY <1>1, <2>2 DEF Whole, Listed
    <3>2. Last(chain) = chain[n] /\ chain[n].seq = n
      BY <1>1, <3>1, EventsSay DEF Last
    <3> QED BY <1>2, <2>2, <3>1, <3>2 DEF LastHash, Before
  <2> QED BY <2>1, <2>2
<1>4. PICK e : e = Event(n + 1, what, Before(chain, n + 1))
  OBVIOUS
<1>5. PICK t : t = Append(chain, e)
  OBVIOUS
<1>6. TraceAppend(chain, what) = t
  BY <1>2, <1>3, <1>4, <1>5 DEF TraceAppend
<1>7. Listed(t) /\ DOMAIN t = 1 .. n + 1 /\ t[n + 1] = e /\ \A i \in 1 .. n : t[i] = chain[i]
  <2>5. PICK S : S = ToSet(chain) \union {e}
    OBVIOUS
  <2>1. chain \in Seq(S) /\ e \in S
    <3>1. chain \in Seq(ToSet(chain))
      BY DEF Whole, Listed
    <3>2. \A i \in 1 .. n : chain[i] \in S
      BY <1>1, <2>5 DEF ToSet
    <3> QED BY <1>1, <2>5, <3>1, <3>2
  <2>2. t \in Seq(S) /\ Len(t) = n + 1 /\ t[n + 1] = e /\ \A i \in 1 .. n : t[i] = chain[i]
    BY <1>1, <1>5, <2>1
  <2>3. DOMAIN t = 1 .. n + 1
    BY <2>2
  <2>4. \A j \in 1 .. n + 1 : t[j] \in ToSet(t)
    BY <2>3 DEF ToSet
  <2> QED BY <2>2, <2>3, <2>4 DEF Listed
<1>8. ASSUME NEW i \in DOMAIN t PROVE t[i] = Event(i, t[i].what, Before(t, i))
  <2>1. Before(t, i) = Before(chain, i)
    <3>1. i # 1 => i - 1 \in 1 .. n
      BY <1>7
    <3> QED BY <1>7, <3>1 DEF Before
  <2>2. CASE i = n + 1
    <3>1. e.what = what
      BY <1>4 DEF Event
    <3> QED BY <1>4, <1>7, <2>1, <2>2, <3>1
  <2>3. CASE i # n + 1
    <3>1. i \in DOMAIN chain /\ t[i] = chain[i]
      BY <1>1, <1>7, <2>3
    <3> QED BY <2>1, <3>1 DEF Whole
  <2> QED BY <2>2, <2>3
<1> QED BY <1>6, <1>7, <1>8 DEF Whole
\* Damage that is not a loss at the end shows at an event.
LEMMA DamageShows ==
  ASSUME NEW chain, Whole(chain), NEW d, Listed(d), NEW i \in DOMAIN d, i \in DOMAIN chain,
         \/ d[i].prev # Before(d, i)
         \/ d[i].hash # Hash(d[i].seq, d[i].what, d[i].prev),
         d[i] # chain[i], Len(d) <= Len(chain)
  PROVE  ~ TraceVerify(d) /\ d # SubSeq(chain, 1, Len(d))
<1>1. ~ TraceVerify(d)
  BY LinkedMeans DEF TraceVerify
<1>2. Len(d) \in 0 .. Len(chain) /\ i \in 1 .. Len(d)
  BY DEF Listed, Whole
<1>3. SubSeq(chain, 1, Len(d))[i] = chain[i]
  BY <1>2, PrefixOf DEF Whole
<1> QED BY <1>1, <1>3

\* A chain without one of its rows.
LEMMA RowLost ==
  ASSUME NEW chain, Listed(chain), NEW i \in DOMAIN chain
  PROVE  /\ Listed(Without(chain, i)) /\ Len(Without(chain, i)) = Len(chain) - 1
         /\ \A j \in 1 .. Len(chain) - 1 :
              Without(chain, i)[j] = IF j < i THEN chain[j] ELSE chain[j + 1]
<1>1. PICK S : S = ToSet(chain) /\ chain \in Seq(S)
  BY DEF Listed
<1>2. PICK n \in Nat : n = Len(chain) /\ DOMAIN chain = 1 .. n
  BY <1>1
<1>3. PICK a, b, t : a = SubSeq(chain, 1, i - 1) /\ b = SubSeq(chain, i + 1, n) /\ t = a \o b
  OBVIOUS
<1>4. a \in Seq(S) /\ Len(a) = i - 1 /\ \A j \in 1 .. i - 1 : a[j] = chain[j]
  BY <1>1, <1>2, <1>3
<1>5. b \in Seq(S) /\ Len(b) = n - i /\ \A j \in 1 .. n - i : b[j] = chain[i + j]
  BY <1>1, <1>2, <1>3
<1>6. t \in Seq(S) /\ Len(t) = n - 1
  <2>1. t \in Seq(S) /\ Len(t) = Len(a) + Len(b)
    BY <1>3, <1>4, <1>5
  <2>2. i \in Int
    BY <1>2
  <2> QED BY <1>4, <1>5, <2>1, <2>2
<1>7. ASSUME NEW j \in 1 .. n - 1 PROVE t[j] = IF j < i THEN chain[j] ELSE chain[j + 1]
  <2>1. CASE j < i
    <3>1. t[j] = a[j]
      BY <1>2, <1>3, <1>4, <1>5, <2>1
    <3> QED BY <1>2, <1>4, <2>1, <3>1
  <2>2. CASE ~ (j < i)
    <3>1. t[j] = b[j - (i - 1)]
      <4>1. j \in 1 .. Len(a) + Len(b) /\ j > Len(a)
        BY <1>2, <1>4, <1>5, <2>2
      <4>2. t[j] = b[j - Len(a)]
        BY <1>3, <1>4, <1>5, <4>1
      <4> QED BY <1>4, <4>2
    <3>2. j - (i - 1) \in 1 .. n - i /\ i + (j - (i - 1)) = j + 1
      BY <1>2, <2>2
    <3> QED BY <1>5, <2>2, <3>1, <3>2
  <2> QED BY <2>1, <2>2
<1>8. Listed(t)
  <2>1. DOMAIN t = 1 .. n - 1
    BY <1>6
  <2>2. \A j \in 1 .. n - 1 : t[j] \in ToSet(t)
    BY <2>1 DEF ToSet
  <2> QED BY <1>6, <2>1, <2>2 DEF Listed
<1>9. Without(chain, i) = t
  BY <1>2, <1>3 DEF Without, RemoveAt
<1> QED BY <1>2, <1>6, <1>7, <1>8, <1>9

LEMMA DamageNoticed ==
  ASSUME NEW chain, Whole(chain), NEW Contents, NEW d \in Damaged(chain, Contents)
  PROVE  TraceVerify(d) <=> d = SubSeq(chain, 1, Len(d))
<1>1. PICK n \in Nat : n = Len(chain) /\ DOMAIN chain = 1 .. n
  BY DEF Whole, Listed
<1>2. \A m \in 0 .. n : /\ TraceVerify(SubSeq(chain, 1, m)) /\ Len(SubSeq(chain, 1, m)) = m
  BY <1>1, PrefixIsWhole, WholeIsLinked, PrefixOf DEF Whole
<1>3. \A m \in 0 .. n : d = SubSeq(chain, 1, m) => TraceVerify(d) /\ d = SubSeq(chain, 1, Len(d))
  BY <1>2
<1>4. CASE \E i \in DOMAIN chain : d = SubSeq(chain, 1, i - 1)
  <2>1. PICK i \in DOMAIN chain : d = SubSeq(chain, 1, i - 1)
    BY <1>4
  <2>2. i - 1 \in 0 .. n
    BY <1>1
  <2> QED BY <1>3, <2>1, <2>2
\* The rows that are left, where the last one is lost and where another one is.
<1>5. ASSUME NEW i \in DOMAIN chain, NEW t, t = Without(chain, i)
      PROVE  /\ Listed(t) /\ DOMAIN t = 1 .. n - 1 /\ Len(t) = n - 1
             /\ i = n => t = SubSeq(chain, 1, n - 1)
             /\ i # n => /\ i \in DOMAIN t /\ t[i] = chain[i + 1] /\ i + 1 \in DOMAIN chain
                         /\ Before(t, i) = Before(chain, i)
  <2>1. /\ Listed(t) /\ Len(t) = n - 1
        /\ \A j \in 1 .. n - 1 : t[j] = IF j < i THEN chain[j] ELSE chain[j + 1]
    BY <1>1, <1>5, RowLost DEF Whole
  <2>2. DOMAIN t = 1 .. n - 1
    BY <2>1 DEF Listed
  <2>3. ASSUME i = n PROVE t = SubSeq(chain, 1, n - 1)
    <3>1. n - 1 \in 0 .. n
      BY <1>1, <2>3
    <3>5. PICK p, m : p = SubSeq(chain, 1, m) /\ m = n - 1
      OBVIOUS
    <3>2. p = SubSeq(chain, 1, n - 1) /\ Listed(p) /\ Len(p) = n - 1
          /\ \A j \in 1 .. n - 1 : p[j] = chain[j]
      <4>1. Listed(chain) /\ m \in 0 .. Len(chain)
        BY <1>1, <3>1, <3>5 DEF Whole
      <4> QED BY <3>5, <4>1, PrefixOf
    <3>3. \A j \in 1 .. n - 1 : p[j] = t[j]
      BY <2>1, <2>3, <3>2
    <3>4. p = [j \in 1 .. n - 1 |-> p[j]] /\ t = [j \in 1 .. n - 1 |-> t[j]]
      BY <2>1, <3>2 DEF Listed
    <3> QED BY <3>2, <3>3, <3>4
  <2>4. ASSUME i # n
        PROVE  /\ i \in DOMAIN t /\ t[i] = chain[i + 1] /\ i + 1 \in DOMAIN chain
               /\ Before(t, i) = Before(chain, i)
    <3>1. i \in 1 .. n - 1 /\ i + 1 \in 1 .. n /\ (i # 1 => i - 1 \in 1 .. n - 1 /\ i - 1 < i)
      BY <1>1, <2>4
    <3> QED BY <1>1, <2>1, <2>2, <3>1 DEF Before
  <2> QED BY <2>1, <2>2, <2>3, <2>4
\* The row after the lost one.
<1>6. ASSUME NEW i \in DOMAIN chain, i # n, i + 1 \in DOMAIN chain
      PROVE  /\ chain[i + 1].prev # Before(chain, i) /\ chain[i + 1].seq = i + 1
             /\ \A w, p : chain[i + 1].hash # Hash(i, w, p)
             /\ chain[i + 1] # chain[i] /\ chain[i + 1].hash # chain[i].hash
  <2>1. /\ chain[i + 1].seq = i + 1 /\ chain[i + 1].prev = Before(chain, i + 1)
        /\ chain[i + 1].hash = Hash(i + 1, chain[i + 1].what, Before(chain, i + 1))
        /\ chain[i].seq = i /\ chain[i].hash = Hash(i, chain[i].what, Before(chain, i))
    BY <1>6, EventsSay
  <2>2. Before(chain, i + 1) = chain[i].hash /\ i # i + 1 /\ i \in Nat
    BY <1>1 DEF Before
  <2>3. chain[i].hash # Before(chain, i)
    <3>1. CASE i = 1
      BY <2>1, <3>1, HashesTell DEF Before
    <3>2. CASE i # 1
      <4>1. i - 1 \in DOMAIN chain /\ i - 1 # i
        BY <1>1, <3>2
      <4>2. chain[i - 1].hash = Hash(i - 1, chain[i - 1].what, Before(chain, i - 1))
        BY <4>1, EventsSay
      <4>3. Before(chain, i) = chain[i - 1].hash
        BY <3>2 DEF Before
      <4> QED BY <2>1, <4>1, <4>2, <4>3, HashesTell
    <3> QED BY <3>1, <3>2
  <2>4. \A w, p : Hash(i + 1, chain[i + 1].what, Before(chain, i + 1)) # Hash(i, w, p)
    BY <2>2, HashesTell
  <2>5. \A w, p : chain[i + 1].hash # Hash(i, w, p)
    BY <2>1, <2>4
  <2>6. chain[i + 1].hash # chain[i].hash
    BY <2>1, <2>5
  <2> QED BY <2>1, <2>2, <2>3, <2>5, <2>6
<1>7. CASE \E i \in DOMAIN chain : d = Without(chain, i)
  <2>1. PICK i \in DOMAIN chain : d = Without(chain, i)
    BY <1>7
  <2>2. CASE i = n
    <3>1. n - 1 \in 0 .. n /\ d = SubSeq(chain, 1, n - 1)
      BY <1>1, <1>5, <2>1, <2>2
    <3> QED BY <1>3, <3>1
  <2>3. CASE i # n
    <3>1. /\ Listed(d) /\ Len(d) <= Len(chain) /\ i \in DOMAIN d /\ d[i] = chain[i + 1]
          /\ i + 1 \in DOMAIN chain /\ Before(d, i) = Before(chain, i)
      BY <1>1, <1>5, <2>1, <2>3
    <3>2. d[i].prev # Before(d, i) /\ d[i] # chain[i]
      BY <1>6, <2>3, <3>1
    <3> QED BY <3>1, <3>2, DamageShows
  <2> QED BY <2>2, <2>3
<1>8. CASE \E i \in DOMAIN chain : d = Renumbered(Without(chain, i))
  <2>1. PICK i \in DOMAIN chain : d = Renumbered(Without(chain, i))
    BY <1>8
  <2>2. PICK t : t = Without(chain, i) /\ Listed(t) /\ DOMAIN t = 1 .. n - 1
    BY <1>5
  <2>3. d = [j \in DOMAIN t |-> [t[j] EXCEPT !.seq = j]]
    BY <2>1, <2>2 DEF Renumbered
  <2>4. Listed(d) /\ Len(d) = n - 1 /\ DOMAIN d = 1 .. n - 1
    <3>1. \A j \in DOMAIN t : d[j] \in ToSet(d)
      BY <2>3 DEF ToSet
    <3>2. n - 1 \in Nat
      BY <1>1
    <3>3. d \in [1 .. n - 1 -> ToSet(d)]
      BY <2>2, <2>3, <3>1
    <3> QED BY <3>2, <3>3 DEF Listed
  <2>5. CASE i = n
    <3>1. n - 1 \in 0 .. n /\ t = SubSeq(chain, 1, n - 1)
      BY <1>1, <1>5, <2>2, <2>5
    <3>2. Whole(t)
      BY <1>1, <3>1, PrefixIsWhole
    <3>3. ASSUME NEW j \in DOMAIN t PROVE [t[j] EXCEPT !.seq = j] = t[j]
      <4>1. PICK w, p : t[j] = Event(j, w, p)
        BY <3>2 DEF Whole
      <4> QED BY <4>1 DEF Event
    <3>4. d = [j \in DOMAIN t |-> t[j]]
      BY <2>3, <3>3
    <3>5. d = t
      BY <2>2, <3>4 DEF Listed
    <3> QED BY <1>3, <3>1, <3>5
  <2>6. CASE i # n
    <3>1. i \in DOMAIN t /\ t[i] = chain[i + 1] /\ i + 1 \in DOMAIN chain
      BY <1>5, <2>2, <2>6
    <3>2. PICK e, w, p : e = chain[i + 1] /\ e = Event(i + 1, w, p)
      BY <3>1 DEF Whole
    <3>3. d[i] = [e EXCEPT !.seq = i]
      BY <2>3, <3>1, <3>2
    <3>4. d[i].seq = i /\ d[i].hash = e.hash
      BY <3>2, <3>3 DEF Event
    <3>5. d[i].hash # Hash(d[i].seq, d[i].what, d[i].prev) /\ d[i] # chain[i]
      <4>1. /\ \A x, y : e.hash # Hash(i, x, y)
            /\ e.hash # chain[i].hash
        <5>1. /\ \A x, y : chain[i + 1].hash # Hash(i, x, y)
              /\ chain[i + 1].hash # chain[i].hash
          BY <1>6, <2>6, <3>1
        <5> QED BY <3>2, <5>1
      <4> QED BY <3>4, <4>1
    <3>6. i \in DOMAIN d /\ Len(d) <= Len(chain)
      BY <1>1, <2>2, <2>4, <3>1
    <3> QED BY <2>4, <3>5, <3>6, DamageShows
  <2> QED BY <2>5, <2>6
<1>9. CASE \E i \in DOMAIN chain : \E w \in Contents : d = Altered(chain, i, w)
  <2>1. PICK i \in DOMAIN chain, w \in Contents : d = Altered(chain, i, w)
    BY <1>9
  <2>2. PICK e, x, p : e = chain[i] /\ e = Event(i, x, p) /\ x = e.what
    BY DEF Whole
  <2>3. PICK f : f = [e EXCEPT !.what = w]
    OBVIOUS
  <2>4. d = [chain EXCEPT ![i] = f]
    BY <2>1, <2>2, <2>3 DEF Altered
  <2>5. chain = [j \in 1 .. n |-> chain[j]]
    BY <1>1 DEF Whole, Listed
  <2>6. CASE w = x
    <3>1. f = e
      BY <2>2, <2>3, <2>6 DEF Event
    <3>2. d = chain
      BY <2>2, <2>4, <2>5, <3>1
    <3>3. TraceVerify(d) /\ Len(d) = n
      BY <1>1, <3>2, WholeIsLinked
    <3>4. SubSeq(chain, 1, n) = chain
      <4>3. PICK q : q = SubSeq(chain, 1, n)
        OBVIOUS
      <4>1. q = SubSeq(chain, 1, n) /\ Listed(q) /\ Len(q) = n /\ \A j \in 1 .. n : q[j] = chain[j]
        <5>1. Listed(chain) /\ n \in 0 .. Len(chain)
          BY <1>1 DEF Whole
        <5> QED BY <4>3, <5>1, PrefixOf
      <4>2. q = [j \in 1 .. n |-> q[j]]
        BY <4>1 DEF Listed
      <4> QED BY <2>5, <4>1, <4>2
    <3> QED BY <3>2, <3>3, <3>4
  <2>7. CASE w # x
    <3>1. DOMAIN d = DOMAIN chain /\ d[i] = f
      BY <2>4
    <3>2. Listed(d) /\ Len(d) = n
      <4>1. \A j \in 1 .. n : d[j] \in ToSet(d)
        BY <1>1, <3>1 DEF ToSet
      <4>2. d \in [1 .. n -> ToSet(d)]
        BY <1>1, <2>4, <2>5, <4>1
      <4> QED BY <4>2 DEF Listed
    <3>3. f.seq = i /\ f.what = w /\ f.prev = p /\ f.hash = Hash(i, x, p)
      BY <2>2, <2>3 DEF Event
    <3>4. Hash(i, x, p) # Hash(i, w, p) /\ e.what = x
      BY <2>2, <2>7, HashesTell
    <3>5. d[i].hash # Hash(d[i].seq, d[i].what, d[i].prev) /\ d[i] # chain[i]
      BY <2>2, <2>7, <3>1, <3>3, <3>4
    <3>6. Len(d) <= Len(chain) /\ i \in DOMAIN d
      BY <1>1, <3>1, <3>2
    <3> QED BY <3>2, <3>5, <3>6, DamageShows
  <2> QED BY <2>6, <2>7
<1> QED BY <1>4, <1>7, <1>8, <1>9 DEF Damaged
-----------------------------------------------------------------------------
(* The questions of the pure policies                                      *)

QuestionInv ==
  /\ Asked("route")   => asked \in Requests
  /\ Asked("history") => asked \in Histories
  /\ Asked("trace")   => Whole(asked.chain)
  /\ Asked("summary") => \E m, n \in Memories : asked.memories = {m, n}
  /\ Asked("search")  => asked.actor \in Actors /\ asked.query \in Queries
  /\ Asked("budget")  => asked.budget \in Budgets /\ asked.ceiling \in Budgets
  /\ Asked("runbook") => asked.runbook \in Runbooks

LEMMA TracesAreWhole == \A t \in Traces : Whole(t)
<1>1. ASSUME NEW s, \A t \in s : Whole(t) PROVE \A t \in Longer(s) : Whole(t)
  BY <1>1, AppendIsWhole DEF Longer
<1>2. Whole(<<>>)
  <2>1. PICK t : t = <<>>
    OBVIOUS
  <2>2. t \in Seq(ToSet(t)) /\ DOMAIN t = {}
    BY <2>1
  <2> QED BY <2>1, <2>2 DEF Whole, Listed
<1>3. PICK none, one, two : none = {<<>>} /\ one = Longer(none) /\ two = Longer(one)
  OBVIOUS
<1>4. \A t \in none : Whole(t)
  BY <1>2, <1>3
<1>5. \A t \in one : Whole(t)
  BY <1>1, <1>3, <1>4
<1>6. \A t \in two : Whole(t)
  BY <1>1, <1>3, <1>5
<1>7. \A t \in Longer(two) : Whole(t)
  BY <1>1, <1>6
<1>8. Traces = one \union two \union Longer(two)
  BY <1>3 DEF Traces
<1> QED BY <1>5, <1>6, <1>7, <1>8

LEMMA QuestionsKeep ==
  ASSUME Ask
  PROVE  QuestionInv'
<1>1. CASE AskRoute
  <2>1. asked' \in Requests
    BY <1>1 DEF AskRoute
  <2>2. asked'.what = "route"
    <3>1. \A q \in Requests : q.what = "route"
      BY Zenon DEF Requests
    <3> QED BY <2>1, <3>1
  <2> QED BY <2>1, <2>2 DEF QuestionInv, Asked
<1>2. CASE AskHistory
  <2>1. asked' \in Histories
    BY <1>2 DEF AskHistory
  <2>2. asked'.what = "history"
    BY <2>1, HistoriesSay
  <2> QED BY <2>1, <2>2 DEF QuestionInv, Asked
<1>3. CASE AskTrace
  <2>1. asked'.what = "trace" /\ asked'.chain \in Traces
    BY <1>3 DEF AskTrace
  <2> QED BY <2>1, TracesAreWhole DEF QuestionInv, Asked
<1>4. CASE AskSummary
  <2>1. asked'.what = "summary" /\ \E m, n \in Memories : asked'.memories = {m, n}
    BY <1>4 DEF AskSummary
  <2> QED BY <2>1 DEF QuestionInv, Asked
<1>5. CASE AskSearch
  <2>1. asked'.what = "search" /\ asked'.actor \in Actors /\ asked'.query \in Queries
    BY <1>5 DEF AskSearch
  <2> QED BY <2>1 DEF QuestionInv, Asked
<1>6. CASE AskBudget
  <2>1. asked'.what = "budget" /\ asked'.budget \in Budgets /\ asked'.ceiling \in Budgets
    BY <1>6 DEF AskBudget
  <2> QED BY <2>1 DEF QuestionInv, Asked
<1>7. CASE AskRunbook
  <2>1. asked'.what = "runbook" /\ asked'.runbook \in Runbooks
    BY <1>7 DEF AskRunbook
  <2> QED BY <2>1 DEF QuestionInv, Asked
<1>8. CASE AskGrant \/ AskTiers \/ AskAdapter \/ AskRegistry
  <2>1. asked'.what \in {"grant", "tiers", "adapter", "registry"}
    BY <1>8, RegistryQuestions DEF AskGrant, AskTiers, AskAdapter
  <2> QED BY <2>1 DEF QuestionInv, Asked
<1> QED BY <1>1, <1>2, <1>3, <1>4, <1>5, <1>6, <1>7, <1>8 DEF Ask

LEMMA QuestionsStart == Init => QuestionInv
<1> SUFFICES ASSUME Init PROVE QuestionInv
  OBVIOUS
<1>1. asked.what = "nothing"
  BY DEF Init, Nothing
<1> QED BY <1>1 DEF QuestionInv, Asked

LEMMA QuestionsKept == QuestionInv /\ [Next]_vars => QuestionInv'
<1> SUFFICES ASSUME QuestionInv, [Next]_vars PROVE QuestionInv'
  OBVIOUS
<1>1. CASE UNCHANGED asked
  BY <1>1 DEF QuestionInv, Asked
<1>2. CASE InAsk(Ask)
  BY <1>2, QuestionsKeep DEF InAsk
<1>3. CASE InAsk(Return)
  <2>1. asked' = Nothing
    BY <1>3 DEF InAsk, Return
  <2>2. asked'.what = "nothing"
    BY <2>1 DEF Nothing
  <2> QED BY <2>2 DEF QuestionInv, Asked
<1>4. UNCHANGED asked \/ InAsk(Ask) \/ InAsk(Return)
  <2>1. CASE UNCHANGED vars
    BY <2>1 DEF vars
  <2>2. CASE Next
    <3>1. CASE InBench(Promoting)
      BY <3>1 DEF InBench
    <3>2. CASE InStart(AdmissionNext)
      BY <3>2 DEF InStart
    <3>3. CASE InBalance(FinanceNext)
      BY <3>3 DEF InBalance
    <3> QED BY <2>2, <3>1, <3>2, <3>3 DEF Next
  <2> QED BY <2>1, <2>2
<1> QED BY <1>1, <1>2, <1>3, <1>4
LEMMA TemplatesAreListed == \A t \in Templates : Listed(t)
<1>2. \A a, b, c, d : Listed(<<>>) /\ Listed(<<a>>) /\ Listed(<<a, b>>) /\ Listed(<<a, b, c>>)
                      /\ Listed(<<a, b, c, d>>)
  <2> TAKE a, b, c, d
  <2>1. PICK p, q, r, s, t : /\ p = <<>> /\ q = <<a>> /\ r = <<a, b>> /\ s = <<a, b, c>>
                             /\ t = <<a, b, c, d>>
    OBVIOUS
  <2>2. p \in Seq(ToSet(p)) /\ q \in Seq(ToSet(q)) /\ r \in Seq(ToSet(r))
    BY <2>1 DEF ToSet
  <2>3. s \in Seq(ToSet(s)) /\ t \in Seq(ToSet(t))
    BY <2>1 DEF ToSet
  <2> QED BY <2>1, <2>2, <2>3 DEF Listed
<1>1. PICK first, second, third, last :
        Templates = {<<>>} \union {<<a>> : a \in first} \union (first \X second)
          \union (first \X second \X third) \union (first \X second \X third \X last)
  BY Zenon DEF Templates
<1>3. ASSUME NEW t \in Templates PROVE Listed(t)
  <2>1. \/ t = <<>> \/ (\E a : t = <<a>>) \/ (\E a, b : t = <<a, b>>)
        \/ (\E a, b, c : t = <<a, b, c>>) \/ (\E a, b, c, d : t = <<a, b, c, d>>)
    BY <1>1
  <2> QED BY <1>2, <2>1
<1> QED BY <1>3

LEMMA QuestionInvIsEnough == QuestionInv => PoliciesHold
<1> SUFFICES ASSUME QuestionInv PROVE PoliciesHold
  OBVIOUS
<1>1. StakesRouted
  BY StakesMatter DEF StakesRouted
<1>2. BarFollowsDoubt
  <2> SUFFICES ASSUME Asked("route"), NEW r \in DOMAIN Reliability, NEW cx \in {10, 50, 90},
                      NEW sure \in {20, 59, 70, 95}
               PROVE  DoubtRaisesTheBar(asked, [asked EXCEPT !.risk = r, !.complexity = cx,
                                                             !.confidence = sure])
    BY DEF BarFollowsDoubt
  <2>1. asked \in Requests
    BY DEF QuestionInv
  <2>2. PICK h : h = [asked EXCEPT !.risk = r, !.complexity = cx, !.confidence = sure]
    OBVIOUS
  <2>3. h.risk = r /\ h.complexity = cx /\ h.confidence = sure
    BY <2>1, <2>2 DEF Requests
  <2>4. asked.risk \in DOMAIN Reliability /\ asked.complexity \in Int /\ asked.confidence \in Int
    BY <2>1 DEF Requests, Reliability
  <2>5. cx \in Int /\ sure \in Int
    OBVIOUS
  <2> QED BY <2>2, <2>3, <2>4, <2>5, DoubtMatters
<1>3. FailuresNotRewarded
  <2> SUFFICES ASSUME Asked("history") PROVE FailuresEarnNothing(asked, asked.urgency, asked.cost)
    BY DEF FailuresNotRewarded
  <2>1. asked \in Histories
    BY DEF QuestionInv
  <2>2. PICK c \in {1, 1000}, urgency \in DOMAIN LatencyPolicy, a \in {0, 5, 8}, all \in BOOLEAN,
             pace \in Paces, n \in {1, 5}, v \in Validations :
          asked = History(c, urgency, a, IF all THEN a ELSE 0, pace, n, v)
    BY <2>1 DEF Histories
  <2>3. PICK k \in Nat : k = IF all THEN a ELSE 0
    OBVIOUS
  <2>4. /\ asked.cost = c /\ asked.urgency = urgency /\ asked.attempts = a /\ asked.completed = k
        /\ asked.times = [i \in 1 .. k |-> pace[(i % 2) + 1]]
        /\ asked.validations = [i \in 1 .. n |-> v]
    BY <2>2, <2>3 DEF History
  <2>5. Listed(asked.validations)
    <3>1. PICK s : s = [i \in 1 .. n |-> v]
      OBVIOUS
    <3>2. s \in [1 .. n -> ToSet(s)] /\ n \in Nat
      BY <3>1 DEF ToSet
    <3> QED BY <2>4, <3>1, <3>2 DEF Listed
  <2>6. \A i \in DOMAIN asked.validations :
          asked.validations[i].quality \in Int /\ asked.validations[i].corrections \in Nat
    BY <2>4 DEF Validations
  <2>7. asked.times \in [1 .. k -> Nat] /\ Len(asked.times) = k
    <3>1. \A i \in 1 .. k : pace[(i % 2) + 1] \in Nat
      <4>1. pace[1] \in Nat /\ pace[2] \in Nat
        BY DEF Paces
      <4>2. \A i \in 1 .. k : (i % 2) + 1 \in {1, 2}
        OBVIOUS
      <4> QED BY <4>1, <4>2
    <3>2. PICK s : s = [i \in 1 .. k |-> pace[(i % 2) + 1]]
      OBVIOUS
    <3>3. s \in [1 .. k -> Nat]
      BY <3>1, <3>2
    <3>4. Len(s) = k
      BY <3>3
    <3> QED BY <2>4, <3>2, <3>3, <3>4
  <2>8. asked.cost \in Nat /\ asked.attempts \in Nat /\ asked.completed \in Nat
    BY <2>4
  <2>9. asked.urgency \in DOMAIN LatencyPolicy
    BY <2>4
  <2>10. PICK h, cost, when : h = asked /\ cost = asked.cost /\ when = asked.urgency
    OBVIOUS
  <2>11. /\ Listed(h.validations) /\ Len(h.times) \in Nat /\ h.times \in [1 .. Len(h.times) -> Nat]
         /\ h.attempts \in Nat /\ h.completed \in Nat
         /\ cost \in Nat /\ when \in DOMAIN LatencyPolicy
    BY <2>3, <2>5, <2>7, <2>8, <2>9, <2>10
  <2>12. \A i \in DOMAIN h.validations :
           h.validations[i].quality \in Int /\ h.validations[i].corrections \in Nat
    BY <2>6, <2>10
  <2>13. FailuresEarnNothing(h, when, cost)
    BY <2>11, <2>12, FailuresCost, Zenon
  <2> QED BY <2>10, <2>13
<1>4. TraceDamageNoticed
  BY WholeIsLinked, DamageNoticed DEF TraceDamageNoticed, QuestionInv
<1>5. CeilingKept
  <2> SUFFICES ASSUME Asked("budget"), NEW t \in Times
               PROVE  CeilingHolds(asked.budget, asked.ceiling, t)
    BY DEF CeilingKept
  <2>1. PICK n \in Nat : n = 4
    OBVIOUS
  <2>2. t \in [1 .. n -> Int]
    BY <2>1 DEF Times
  <2>3. /\ asked.budget.attempts \in Int /\ asked.budget.window \in Int
        /\ asked.ceiling.attempts \in Int /\ asked.ceiling.window \in Int
    BY DEF QuestionInv, Budgets
  <2> QED BY <2>2, <2>3, CeilingsHold
<1>6. GrantsStaySeparate
  BY GrantsAreSeparate DEF GrantsStaySeparate
<1>7. ASSUME Asked("runbook")
      PROVE  /\ \A name \in DOMAIN asked.runbook.parameters :
                  asked.runbook.parameters[name].kind
                    \in {"enum", "uuid", "string", "integer", "boolean"}
             /\ Listed(asked.runbook.argv)
  <2>0. PICK b : b = asked.runbook /\ b \in Runbooks
    BY <1>7 DEF QuestionInv
  <2>1. PICK c \in {"A", "B", "C"}, t \in Templates,
             spec \in [kind : {"uuid", "string", "integer", "boolean"}, values : {{}}]
                        \union [kind : {"enum"}, values : {{"on"}, {"on", "-f"}}] :
          b = Runbook(c, t, spec)
    BY <2>0 DEF Runbooks
  <2>2. Listed(t)
    BY TemplatesAreListed
  <2>3. PICK ps : ps = [u |-> spec]
    OBVIOUS
  <2>4. DOMAIN ps = {"u"} /\ ps["u"] = spec
    BY <2>3
  <2>5. asked.runbook.parameters = ps /\ asked.runbook.argv = t
    BY <2>0, <2>1, <2>3 DEF Runbook
  <2>6. spec.kind \in {"enum", "uuid", "string", "integer", "boolean"}
    OBVIOUS
  <2> QED BY <2>2, <2>4, <2>5, <2>6
<1>8. ASSUME NEW v \in Values, NEW s, s = [u |-> v]
      PROVE  \A name \in DOMAIN s : "text" \in DOMAIN s[name]
  <2>1. \A type, t, id, clean : "text" \in DOMAIN Given(type, t, id, clean)
    BY DEF Given
  <2>2. PICK A, B, C, d, e :
          /\ Values = {Given("str", t, "none", TRUE) : t \in A}
                        \union {Given("str", t, "u-1", TRUE) : t \in B}
                        \union {Given("int", t, "none", TRUE) : t \in C} \union {d, e}
          /\ d = Given("bool", "True", "none", TRUE)
          /\ e = Given("str", "two lines", "none", FALSE)
    BY Zenon DEF Values
  <2>3. "text" \in DOMAIN v
    <3>1. CASE v \in {Given("str", t, "none", TRUE) : t \in A}
      BY Zenon, <2>1, <3>1
    <3>2. CASE v \in {Given("str", t, "u-1", TRUE) : t \in B}
      BY Zenon, <2>1, <3>2
    <3>3. CASE v \in {Given("int", t, "none", TRUE) : t \in C}
      BY Zenon, <2>1, <3>3
    <3>4. CASE v = d \/ v = e
      BY Zenon, <2>1, <2>2, <3>4
    <3> QED BY Zenon, <2>2, <3>1, <3>2, <3>3, <3>4
  <2> QED BY <1>8, <2>3
<1>9. CommandsReviewed
  <2> SUFFICES ASSUME Asked("runbook"), NEW v \in Values
               PROVE  RenderedIsReviewed(asked.exe, asked.runbook, [u |-> v])
    BY DEF CommandsReviewed
  <2>1. PICK s : s = [u |-> v]
    OBVIOUS
  <2> QED BY <1>7, <1>8, <2>1, CommandsAreReviewed
<1>10. BudgetNotRespelled
  <2> SUFFICES ASSUME Asked("runbook"), NEW v \in Values, NEW w \in Values
               PROVE  SpellingsShareBudget(asked.runbook, [u |-> v], [u |-> w])
    BY DEF BudgetNotRespelled
  <2>1. PICK s, t : s = [u |-> v] /\ t = [u |-> w]
    OBVIOUS
  <2>2. (\A name \in DOMAIN s : "text" \in DOMAIN s[name])
        /\ (\A name \in DOMAIN t : "text" \in DOMAIN t[name])
    BY <1>8, <2>1
  <2> QED BY <2>1, <2>2, SpellingsAgree
<1>11. \A m \in Memories : m.rank \in Nat
  BY DEF Memories
<1>12. \A a \in Actors : a.rank \in Int
  BY DEF Actors
<1>13. SearchIsSafe
  <2> SUFFICES ASSUME Asked("search")
               PROVE  SearchAgreesWithGet(asked.actor, asked.query, Memories)
    BY DEF SearchIsSafe
  <2>1. asked.actor \in Actors /\ asked.query \in Queries
    BY DEF QuestionInv
  <2>2. asked.query.rank \in Int
    BY <2>1 DEF Queries
  <2> QED BY <1>11, <1>12, <2>1, <2>2, SearchesAgree
<1>14. SummaryIsSafe
  <2> SUFFICES ASSUME Asked("summary"), NEW b \in Actors
               PROVE  SummaryKeepsAudience(asked.actor, b, asked.memories)
    BY DEF SummaryIsSafe
  <2>1. PICK m, n \in Memories : asked.memories = {m, n}
    BY DEF QuestionInv
  <2>2. IsFiniteSet({m, n})
    <3>1. IsFiniteSet({m}) /\ IsFiniteSet({n})
      BY FS_Singleton
    <3>2. IsFiniteSet({m} \union {n})
      BY <3>1, FS_Union
    <3>3. {m} \union {n} = {m, n}
      OBVIOUS
    <3> QED BY <3>2, <3>3
  <2> QED BY <1>11, <1>12, <2>1, <2>2, AudiencesAreKept
<1> QED BY <1>1, <1>2, <1>3, <1>4, <1>5, <1>6, <1>9, <1>10, <1>13, <1>14 DEF PoliciesHold

\* Whatever the thresholds of the routing and the lists of the broker are: the pure
\* policies of the orchestrator (routing.py, capability_routing.py, adaptive.py,
\* trace.py), the broker (policy.py, rbac.py, runbooks.py) and the memory (service.py)
\* answer every question of Ask rightly.  The lemmas it rests on hold for more: every
\* request, every history whose results all failed, every chain the trace has written
\* (DamageNoticed), every schedule of attempts, every template and value, every set of
\* memories.
THEOREM PoliciesAnswerRightly == Spec => []PoliciesHold
<1> QED BY QuestionsStart, QuestionsKept, QuestionInvIsEnough, PTL DEF Spec
=============================================================================
