---------------------------- MODULE LocalPromotion ----------------------------
(***************************************************************************)
(* How a local model comes to serve: a benchmark campaign measures the     *)
(* models that Ollama has (ollama_benchmark.py), or goes through its steps *)
(* with the replies of a fixture (--simulate); a person approves a model   *)
(* in the promotion registry; and the orchestrator checks the registry and *)
(* the report before every call (verify_promotion).  An embedding or       *)
(* rerank model may be approved by a flat report, which nothing in the     *)
(* repository writes and which only says that the model is eligible.       *)
(*                                                                         *)
(* What one request shows is a word: "pass", "wrong" (a check of the reply *)
(* fails), "over" (the reply is right, a resource is over its budget),     *)
(* "blind" (right, but no sensor answered), "error", or "lost" when the    *)
(* request interrupts the campaign.  Reports are numbered by campaign;     *)
(* the flat one has the number 0.                                          *)
(***************************************************************************)
EXTENDS Integers, FiniteSetsExt, SequencesExt

CONSTANTS Candidates,                  \* the configured models, in order
          Scenarios,
          WarmupRuns, MeasuredRuns,
          StableSamples, CooldownPolls,
          MaxCampaigns, MaxDamages     \* bounds of the model

Models == Range(Candidates)
Files == 0 .. MaxCampaigns

\* The kind of a provider, as far as verify_promotion tells it apart: ollama_chat,
\* or ollama_embedding and http_rerank.
ProviderKinds == {"chat", "vectors"}

\* validate_inputs: no model is configured twice.
ASSUME CampaignAssumption ==
  /\ Candidates \in Seq(Models) /\ IsInjective(Candidates)
  /\ WarmupRuns \in Nat /\ MeasuredRuns \in Nat
  /\ StableSamples \in Nat \ {0} /\ CooldownPolls \in Nat /\ MaxCampaigns \in Nat

VARIABLES bench,        \* the benchmark process
          reports,      \* benchmarks/results, by campaign, and the flat report
          registry,     \* model-promotions.json, the record of one slot
          started,      \* campaigns so far
          simulations,  \* the campaigns that were started with a fixture
          damages,      \* faults so far
          spoiled,      \* ghost: the models something went wrong with, this campaign
          truth         \* ghost: per campaign, the models that passed everything

localVars == <<bench, reports, registry, started, simulations, damages, spoiled, truth>>

Idle == [at |-> "idle"]
NoReport == [kind |-> "none"]
NoRecord == [model |-> "none"]

LocalInit ==
  /\ bench = Idle /\ started = 0 /\ simulations = {} /\ damages = 0 /\ spoiled = {}
  /\ reports = [i \in Files |-> NoReport]
  /\ truth = [i \in 1 .. MaxCampaigns |-> {}]
  /\ registry = NoRecord

-----------------------------------------------------------------------------
(* run_benchmark and benchmark_candidate                                   *)

\* select_configured_models: the chosen ones, by their place in the configuration.
Selected(chosen) == {i \in DOMAIN Candidates : Candidates[i] \in chosen}

\* found says of each model whether it is disabled, missing from Ollama,
\* installed, or installed and larger than the budget; fixture is --simulate.
StartCampaign(chosen, found, fixture) ==
  /\ bench.at = "idle" /\ started < MaxCampaigns /\ chosen # {}
  /\ started' = started + 1 /\ spoiled' = {}
  /\ simulations' = IF fixture THEN simulations \union {started + 1} ELSE simulations
  /\ bench' = [at |-> "next", left |-> Selected(chosen), total |-> Cardinality(chosen),
               found |-> found, results |-> <<>>, lost |-> FALSE]
  /\ UNCHANGED <<reports, registry, damages, truth>>

\* The replies are those of a FixtureClient: no wait, no interruption, and
\* nothing to unload.
Simulated == started \in simulations
BeforeCall == IF Simulated THEN "ask" ELSE "cool"

\* The candidates are taken in the order of the configuration.
Turn(b) == Min(b.left)
Model == Candidates[Turn(bench)]

\* A candidate that is not measured: disabled, or not installed.
SkipCandidate ==
  /\ bench.at = "next" /\ bench.left # {} /\ bench.found[Model] \in {"disabled", "missing"}
  /\ bench' = [bench EXCEPT !.left = @ \ {Turn(bench)},
                 !.results = Append(@, [model |-> Model, eligible |-> FALSE, status |->
                               IF bench.found[Model] = "missing" THEN "not_installed" ELSE "disabled"])]
  /\ spoiled' = spoiled \union {Model}
  /\ UNCHANGED <<reports, registry, started, simulations, damages, truth>>

\* The requests of a candidate: the warm-up, then every scenario of every
\* repetition.  The order within a repetition is shuffled.
Calls == {<<0, w>> : w \in 1 .. WarmupRuns} \union ((1 .. MeasuredRuns) \X Scenarios)

NextCalls(calls) == {c \in calls : c[1] = Min({d[1] : d \in calls})}

StartCandidate ==
  /\ bench.at = "next" /\ bench.left # {} /\ bench.found[Model] \in {"installed", "large"}
  /\ bench' = [at |-> BeforeCall, left |-> bench.left, total |-> bench.total, found |-> bench.found,
               results |-> bench.results, lost |-> bench.lost, calm |-> 0, polls |-> 0, seen |-> <<>>,
               calls |-> Calls, runs |-> [c \in {} |-> "none"], warm |-> TRUE]
  /\ UNCHANGED <<reports, registry, started, simulations, damages, spoiled, truth>>

\* scenario_summaries and aggregate_metrics: runs maps the requests that were
\* measured to what they showed.
AllPassed(runs) ==
  \A s \in Scenarios : LET of == {c \in DOMAIN runs : c[2] = s}
                       IN of # {} /\ \A c \in of : runs[c] \in {"pass", "over", "blind"}

Sensed(runs) == {c \in DOMAIN runs : runs[c] # "blind"}

\* gate_model: a resource that no request could measure fails the gate, one
\* that some requests could measure is judged by those.
GateModel(status, size, runs) ==
  /\ status = "completed"
  /\ \A c \in DOMAIN runs : runs[c] \notin {"error", "lost"}
  /\ AllPassed(runs) /\ size # "large"
  /\ Sensed(runs) # {} /\ \A c \in DOMAIN runs : runs[c] # "over"

\* The result of a candidate; an interruption ends the campaign.
Closed(b, unloaded) ==
  LET m      == Candidates[Turn(b)]
      status == IF b.lost THEN "interrupted" ELSE "completed"
      result == [model |-> m, status |-> status,
                 eligible |-> GateModel(status, b.found[m], b.runs) /\ b.warm /\ unloaded]
  IN [at |-> "next", left |-> IF b.lost THEN {} ELSE b.left \ {Turn(b)}, total |-> b.total,
      found |-> b.found, results |-> Append(b.results, result), lost |-> b.lost]

-----------------------------------------------------------------------------
(* wait_for_temperature_cooldown and OllamaClient.chat                     *)

Spoil == spoiled' = spoiled \union {Model}

Interrupted(b) == Closed([b EXCEPT !.lost = TRUE], TRUE)

Calm(reading) == IF reading = "cool" THEN bench.calm + 1 ELSE 0

Expired == bench.polls + 1 >= CooldownPolls

\* Ghost: the latest readings of this wait.
LastOf(readings) == SubSeq(readings, Max({1, Len(readings) - StableSamples + 1}), Len(readings))

\* One reading of the temperature.
Cooldown(reading) ==
  /\ bench.at = "cool"
  /\ LET ready == reading = "cool" /\ Calm(reading) >= StableSamples
         fails == reading = "none" \/ (~ ready /\ Expired) IN
     /\ bench' = IF fails THEN Interrupted(bench) ELSE
                 [bench EXCEPT !.at = IF ready THEN "ask" ELSE "cool",
                    !.calm = Calm(reading), !.polls = Min({@ + 1, CooldownPolls}),
                    !.seen = LastOf(Append(@, reading))]
     /\ spoiled' = IF fails THEN spoiled \union {Model} ELSE spoiled
  /\ UNCHANGED <<reports, registry, started, simulations, damages, truth>>

\* What is left once the request c showed this.
Answered(c, shown) ==
  LET b == [bench EXCEPT
              !.calls = @ \ {c}, !.at = "unload",
              !.warm = @ /\ (c[1] = 0 => shown \notin {"error", "lost"}),
              !.runs = IF c[1] > 0 THEN [d \in DOMAIN @ \union {c} |-> IF d = c THEN shown ELSE @[d]]
                                   ELSE @]
  IN IF shown = "lost" THEN Interrupted(b)
     ELSE IF b.calls = {} THEN b
     ELSE [b EXCEPT !.at = BeforeCall, !.calm = 0, !.polls = 0, !.seen = <<>>]

\* A request of the warm-up is not judged, only its errors are noted.
Chat(c, shown) ==
  /\ bench.at = "ask" /\ c \in NextCalls(bench.calls)
  /\ c[1] = 0 => shown \in {"pass", "error", "lost"}
  /\ Simulated => shown # "lost"
  /\ bench' = Answered(c, shown)
  /\ IF shown \in {"pass", "blind"} THEN UNCHANGED spoiled ELSE Spoil
  /\ UNCHANGED <<reports, registry, started, simulations, damages, truth>>

Unload(shown) ==
  /\ bench.at = "unload" /\ (Simulated => shown = "pass")
  /\ bench' = IF shown = "lost" THEN Closed([bench EXCEPT !.lost = TRUE], FALSE)
                                ELSE Closed(bench, shown = "pass")
  /\ IF shown = "pass" /\ bench.found[Model] = "installed" THEN UNCHANGED spoiled ELSE Spoil
  /\ UNCHANGED <<reports, registry, started, simulations, damages, truth>>

-----------------------------------------------------------------------------
(* The end of run_benchmark, write_reports, and a killed process           *)

\* An interruption takes the eligibility of every model, of those that were
\* completed before too.
FinalResults ==
  IF ~ bench.lost THEN bench.results
  ELSE [i \in DOMAIN bench.results |-> [bench.results[i] EXCEPT !.eligible = FALSE]]

Report ==
  [kind |-> "report", generated |-> started, simulated |-> Simulated,
   complete |-> ~ bench.lost, configured |-> bench.total,
   models |-> FinalResults,
   eligible |-> {r.model : r \in {q \in Range(FinalResults) : ~ bench.lost /\ q.eligible}}]

FinishCampaign ==
  /\ bench.at = "next" /\ bench.left = {}
  /\ reports' = [reports EXCEPT ![started] = Report]
  /\ truth' = [truth EXCEPT ![started] =
                 IF bench.lost THEN {} ELSE {r.model : r \in Range(bench.results)} \ spoiled]
  /\ bench' = Idle /\ spoiled' = {}
  /\ UNCHANGED <<registry, started, simulations, damages>>

\* The process is killed; the file it was writing stays incomplete.
KillCampaign ==
  /\ bench.at # "idle" /\ damages < MaxDamages
  /\ bench' = Idle /\ spoiled' = {} /\ damages' = damages + 1
  /\ reports' \in {reports} \union
       (IF bench.at = "next" /\ bench.left = {}
        THEN {[reports EXCEPT ![started] = [kind |-> "partial"]]} ELSE {})
  /\ UNCHANGED <<registry, started, simulations, truth>>

\* Somebody writes the flat report of a model.
WriteFlat(m, ok) ==
  /\ reports[0] = NoReport
  /\ reports' = [reports EXCEPT ![0] = [kind |-> "flat", generated |-> 0, model |-> m,
                                        eligible |-> ok]]
  /\ UNCHANGED <<bench, registry, started, simulations, damages, spoiled, truth>>

\* A report is removed, or another one is put in its place.
DamageReport(i, content) ==
  /\ damages < MaxDamages /\ reports[i] # NoReport /\ content # reports[i]
  /\ reports' = [reports EXCEPT ![i] = content] /\ damages' = damages + 1
  /\ UNCHANGED <<bench, registry, started, simulations, spoiled, truth>>

-----------------------------------------------------------------------------
(* The registry and verify_promotion                                       *)

\* A person, rightly or not, names a model and the report they read.  (A
\* record that is not marked eligible and approved is as good as none.)
Approve(m, i) ==
  /\ reports[i].kind \in {"report", "flat"}
  /\ registry' = [model |-> m, report |-> i, digest |-> reports[i],
                  generated |-> reports[i].generated]
  /\ UNCHANGED <<bench, reports, started, simulations, damages, spoiled, truth>>

DigestMatches(record, content) ==
  content = record.digest /\ content.generated = record.generated

CampaignComplete(content) == content.complete /\ content.configured = Len(content.models)

EligibleByCampaign(content, m) ==
  LET matching == {i \in DOMAIN content.models : content.models[i].model = m} IN
  /\ content.kind = "report" /\ CampaignComplete(content)
  /\ Cardinality(matching) = 1
  /\ \A i \in matching : content.models[i].status = "completed" /\ content.models[i].eligible
  /\ m \in content.eligible

EligibleByItself(content, m, kind) ==
  content.kind = "flat" /\ kind # "chat" /\ content.model = m /\ content.eligible

ApprovedReport(m) ==
  /\ registry # NoRecord /\ registry.model = m
  /\ LET content == reports[registry.report] IN
     content.kind \in {"report", "flat"} /\ DigestMatches(registry, content)

\* Mutant: the report of a campaign is not asked whether the model was eligible.
VerifyPromotionTrusting(m, kind) ==
  /\ ApprovedReport(m)
  /\ LET content == reports[registry.report] IN
     \/ content.kind = "report" /\ CampaignComplete(content)
     \/ EligibleByItself(content, m, kind)

\* m is the model that a provider of this kind is configured for; its invoke asks
\* before every call.
VerifyPromotion(m, kind) ==
  /\ ApprovedReport(m)
  /\ LET content == reports[registry.report] IN
     EligibleByCampaign(content, m) \/ EligibleByItself(content, m, kind)

-----------------------------------------------------------------------------
Readings == {"cool", "hot", "none"}
Shown == {"pass", "wrong", "over", "blind", "error", "lost"}

BenchNext ==
  \/ SkipCandidate \/ StartCandidate \/ FinishCampaign
  \/ \E r \in Readings : Cooldown(r)
  \/ \E shown \in Shown : \E c \in Calls : Chat(c, shown)
  \/ \E shown \in {"pass", "error", "lost"} : Unload(shown)

LaunchNext ==
  \/ \E chosen \in SUBSET Models :
       \E found \in [chosen -> {"disabled", "missing", "installed", "large"}] :
         \E fixture \in BOOLEAN : StartCampaign(chosen, found, fixture)
  \/ KillCampaign

FlatNext == \E m \in Models, ok \in BOOLEAN : WriteFlat(m, ok)

PromotionNext ==
  \E i \in Files :
    \/ \E m \in Models : Approve(m, i)
    \/ \E content \in {NoReport} \union {reports[j] : j \in Files} :
         DamageReport(i, content)

LocalNext == LaunchNext \/ BenchNext \/ FlatNext \/ PromotionNext

LocalSpec == LocalInit /\ [][LocalNext]_localVars

-----------------------------------------------------------------------------
(* Properties                                                              *)

\* A model that the report of a campaign calls eligible passed every scenario of
\* every repetition, its warm-up and its unloading, in a campaign that was not
\* interrupted: also not at a later model.  The report says so when all this was
\* a simulation.
EligibleIsMeasured ==
  \A i \in Files :
    reports[i].kind = "report" =>
      LET r == reports[i] IN
      /\ {q.model : q \in {p \in Range(r.models) : p.eligible}} \union r.eligible
           \subseteq truth[r.generated]
      /\ r.simulated <=> r.generated \in simulations

\* A local model that may answer (the gate is passed again for every call)
\* passed everything in the campaign of the very report that was approved: not
\* because a file was exchanged, a report is incomplete, or the person named
\* another.  The gate does not ask whether that campaign was a simulation, and it
\* takes the word of a flat report; never for a chat model, nor for another model
\* than the one the report names.
ServedIsApproved ==
  \A m \in Models, kind \in ProviderKinds : VerifyPromotion(m, kind) =>
    LET r == registry.digest IN
    /\ reports[registry.report] = r
    /\ \/ r.kind = "report" /\ m \in truth[r.generated]
       \/ r.kind = "flat" /\ kind = "vectors" /\ r.model = m /\ r.eligible

\* No request is sent to Ollama before StableSamples consecutive cool readings.
AskedWhenCool ==
  bench.at = "ask" /\ ~ Simulated => bench.seen = [i \in 1 .. StableSamples |-> "cool"]

\* Every campaign ends, however the temperature behaves.
CampaignEnds == [](bench.at # "idle" => <>(bench.at = "idle"))

\* A local chat model answers for a whole campaign that it passed, on a cool
\* machine or in a simulation that the report owns to, and for the approval of
\* that very report.
PromotionHolds == EligibleIsMeasured /\ AskedWhenCool /\ ServedIsApproved
=============================================================================
