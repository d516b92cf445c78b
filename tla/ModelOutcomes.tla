---------------------------- MODULE ModelOutcomes ----------------------------
(***************************************************************************)
(* What the orchestrator learns from its models: the scores by which a     *)
(* route ranks its candidates, each computed from the calls and validated  *)
(* outcomes of earlier routes of its task type, the outcomes that people   *)
(* and tests report, and the tables behind both, over deaths of the daemon,*)
(* the migration of older databases and changes of the accounts of the     *)
(* models (adaptive.py, service.py, database.py).                          *)
(*                                                                         *)
(* A run is the thread of a route; of its rankings, the first is modelled, *)
(* the candidates being those of one role.  A step is one transaction, or  *)
(* one SELECT of a connection in autocommit: of a candidate the calls are  *)
(* read first and then the outcomes, and calls and outcomes of other runs  *)
(* fall between the two and between the candidates of a ranking.  How a    *)
(* history ranks a candidate is AdaptiveCost of RoutingPolicy.             *)
(***************************************************************************)
EXTENDS Naturals, Sequences, FiniteSetsExt, SequencesExt

CONSTANTS Runs,           \* routes
          Ranked,         \* candidates of a role: providers with their models
          TaskMissions, Projects, TaskTypes, Accounts,
          AccountConfigs, \* the accounts of the candidates, as configured
          Unbound,        \* no account: NULL
          NoModel,        \* no model answered the run
          MaxRows,        \* rows of a history that are looked at (500)
          MaxGroups,      \* rows of a summary (200)
          MaxCalls,       \* bound: calls of models
          MaxDeaths       \* bound: deaths of the daemon

VARIABLES runs,       \* mission_runs, and where the thread of a run stands
          calls,      \* usage_reservations, by created_at
          outcomes,   \* model_result_validations, by recorded_at
          counted,    \* metric_counters: validated_model_outcomes
          scores,     \* adaptive_score_audit
          daemon,     \* whether it runs, schema version, configured accounts
          deaths      \* deaths so far

ASSUME OutcomesAssumption ==
  /\ IsFiniteSet(Runs) /\ NoModel \notin Ranked /\ Unbound \notin Accounts
  /\ AccountConfigs \subseteq [Ranked -> Accounts \cup {Unbound}]
  /\ MaxRows \in Nat \ {0} /\ MaxGroups \in Nat \ {0}

outcomeVars == <<runs, calls, outcomes, counted, scores, daemon, deaths>>

Versions == {"none", "1", "2", "3", "4", "5"}
Verdicts == {"succeeded", "failed"}

\* half: the calls of a candidate whose outcomes are still to be read; drafts: the
\* histories read so far, both thread-local; since: how many outcomes there were
\* when the run started.
NewRun == [at |-> "new", type |-> NoModel, mission |-> NoModel, project |-> NoModel,
            status |-> "none", final |-> NoModel, half |-> {}, drafts |-> {}, since |-> 0]

\* Routes of the oldest release, which did not bind a mission to its project, and
\* their calls, from before calls had accounts.
OldRuns == {[NewRun EXCEPT !.at = "over", !.type = w[1], !.mission = w[2], !.project = w[3],
                            !.status = "routed", !.final = w[4]] :
              w \in TaskTypes \X TaskMissions \X Projects \X (Ranked \cup {NoModel})}
CallOf(t, c, status, account) ==
  [task |-> t, type |-> runs[t].type, by |-> c, status |-> status, account |-> account]
OldCalls ==
  {CallOf(t, runs[t].final, "completed", Unbound) : t \in {u \in Runs : runs[u].final # NoModel}}

OutcomesInit ==
  /\ \E v \in Versions, a \in AccountConfigs :
       daemon = [phase |-> "down", version |-> v, account |-> a]
  /\ IF daemon.version = "1"
     THEN runs \in [Runs -> {NewRun} \cup OldRuns]
     ELSE runs = [t \in Runs |-> NewRun]
  /\ calls \in SetToSeqs(OldCalls)
  /\ outcomes = <<>> /\ scores = {} /\ deaths = 0
  /\ counted = [l \in Projects \X TaskTypes \X Verdicts |-> 0]

RunRecorded(t) == runs[t].status # "none"
Stands(t, at)   == daemon.phase = "up" /\ runs[t].at = at
Put(t, rec) == runs' = [runs EXCEPT ![t] = rec]

-----------------------------------------------------------------------------
(* The database is opened, and the daemon dies                             *)

\* A mission of two projects.
Conflicting ==
  \E s, t \in Runs : /\ RunRecorded(s) /\ RunRecorded(t)
                      /\ runs[s].mission = runs[t].mission
                      /\ runs[s].project # runs[t].project

\* Database.initialize: tables, columns and triggers that are missing are added
\* and the version is raised in one transaction, unless the version is unknown
\* or a mission has two projects: then nothing is changed and the daemon does not
\* start.  It starts with the accounts that its configuration has by then.
Initialize(a) ==
  /\ daemon.phase = "down" /\ daemon.version # "5" /\ ~Conflicting
  /\ daemon' = [phase |-> "opening", version |-> "4", account |-> a]
  /\ UNCHANGED <<runs, calls, outcomes, counted, scores, deaths>>

RefuseDatabase ==
  /\ daemon.phase = "down" /\ (daemon.version = "5" \/ Conflicting)
  /\ UNCHANGED outcomeVars

\* bind_provider_accounts: calls without an account get the configured one, unless
\* a call is on another account than its model has now: then nothing is changed
\* and the daemon does not start.
Bindable == \A i \in DOMAIN calls : calls[i].account \in {Unbound, daemon.account[calls[i].by]}

BindAccounts ==
  /\ daemon.phase = "opening" /\ Bindable
  /\ calls' = [i \in DOMAIN calls |-> [calls[i] EXCEPT !.account = daemon.account[calls[i].by]]]
  /\ daemon' = [daemon EXCEPT !.phase = "up"]
  /\ UNCHANGED <<runs, outcomes, counted, scores, deaths>>

RefuseBinding ==
  /\ daemon.phase = "opening" /\ ~Bindable
  /\ daemon' = [daemon EXCEPT !.phase = "down"]
  /\ UNCHANGED <<runs, calls, outcomes, counted, scores, deaths>>

\* The daemon dies, in the middle of its start too.  Its open runs stay 'running'
\* and the calls in progress 'reserved'.
Die ==
  /\ daemon.phase # "down" /\ deaths < MaxDeaths
  /\ deaths' = deaths + 1
  /\ daemon' = [daemon EXCEPT !.phase = "down"]
  /\ runs' = [t \in Runs |-> IF runs[t].at = "new" THEN runs[t]
                               ELSE [runs[t] EXCEPT !.at = "over", !.half = {}, !.drafts = {}]]
  /\ UNCHANGED <<calls, outcomes, counted, scores>>

-----------------------------------------------------------------------------
(* A run                                                                   *)

\* start_run; a request that a deterministic tool can do ends at once.
OpenRun(t, k, m, p) ==
  /\ Stands(t, "new")
  /\ ~\E s \in Runs : RunRecorded(s) /\ runs[s].mission = m /\ runs[s].project # p
  /\ \E simple \in BOOLEAN :
       Put(t, [NewRun EXCEPT !.at = IF simple THEN "over" ELSE "scoring",
                              !.status = IF simple THEN "routed" ELSE "running",
                              !.type = k, !.mission = m, !.project = p, !.since = Len(outcomes)])
  /\ UNCHANGED <<calls, outcomes, counted, scores, daemon, deaths>>

\* The rows of a table that tell of candidate c in tasks of type k; those after
\* the i-th, and the places of the latest ones.
About(row) == <<row.type, row.by>>
Later(table, kc, i) == {j \in DOMAIN table : j > i /\ About(table[j]) = kc}
Latest(table, kc) ==
  {i \in DOMAIN table : About(table[i]) = kc /\ Cardinality(Later(table, kc, i)) < MaxRows}

\* model_performance_history, first SELECT: a call that is not completed counts as
\* uncertain, the ones in progress included.
CallsFound(k, c) ==
  LET a == Latest(calls, <<k, c>>) IN
  [by |-> c, attempts |-> Cardinality(a),
   completed |-> Cardinality({i \in a : calls[i].status = "completed"})]

ReadCalls(t, c) ==
  /\ Stands(t, "scoring")
  /\ \A s \in runs[t].drafts : s.by # c
  /\ Put(t, [runs[t] EXCEPT !.at = "reading", !.half = {CallsFound(runs[t].type, c)}])
  /\ UNCHANGED <<calls, outcomes, counted, scores, daemon, deaths>>

\* Second SELECT: the outcomes.
HistoryFound(k, h) ==
  LET v == Latest(outcomes, <<k, h.by>>) IN
  [attempts |-> h.attempts, completed |-> h.completed, validations |-> Cardinality(v),
   succeeded |-> Cardinality({i \in v : outcomes[i].verdict = "succeeded"})]

ReadOutcomes(t) ==
  /\ Stands(t, "reading")
  /\ \E h \in runs[t].half :
       Put(t, [runs[t] EXCEPT !.at = "scoring", !.half = {},
                 !.drafts = @ \cup {[task |-> t, type |-> runs[t].type, by |-> h.by,
                                    found |-> HistoryFound(runs[t].type, h)]}])
  /\ UNCHANGED <<calls, outcomes, counted, scores, daemon, deaths>>

\* record_adaptive_score_audit: the scores of a ranking are stored together.
RecordScores(t) ==
  /\ Stands(t, "scoring")
  /\ \A c \in Ranked : \E s \in runs[t].drafts : s.by = c
  /\ scores' = scores \cup runs[t].drafts
  /\ Put(t, [runs[t] EXCEPT !.at = "ranked", !.drafts = {}])
  /\ UNCHANGED <<calls, outcomes, counted, daemon, deaths>>

\* A candidate is asked, to execute the task or to verify its result.
CallModel(t, c) ==
  /\ Stands(t, "ranked") /\ Len(calls) < MaxCalls
  /\ \A i \in DOMAIN calls : ~(calls[i].task = t /\ calls[i].by = c)
  /\ calls' = Append(calls, CallOf(t, c, "reserved", daemon.account[c]))
  /\ Put(t, [runs[t] EXCEPT !.at = "calling"])
  /\ UNCHANGED <<outcomes, counted, scores, daemon, deaths>>

AnswerCall(t, status) ==
  /\ Stands(t, "calling")
  /\ \E i \in DOMAIN calls :
       /\ calls[i].task = t /\ calls[i].status = "reserved"
       /\ calls' = [calls EXCEPT ![i].status = status]
  /\ Put(t, [runs[t] EXCEPT !.at = "ranked"])
  /\ UNCHANGED <<outcomes, counted, scores, daemon, deaths>>

IsCompleted(call, t, c) == call.task = t /\ call.by = c /\ call.status = "completed"
CompletedCall(t, c) == \E i \in DOMAIN calls : IsCompleted(calls[i], t, c)

\* finish_run: the result of a completed call, or a person has to decide.
EndRun(t) ==
  /\ Stands(t, "ranked")
  /\ \/ \E c \in Ranked :
          /\ CompletedCall(t, c)
          /\ Put(t, [runs[t] EXCEPT !.at = "over", !.status = "routed", !.final = c])
     \/ Put(t, [runs[t] EXCEPT !.at = "over", !.status = "escalated"])
  /\ UNCHANGED <<calls, outcomes, counted, scores, daemon, deaths>>

-----------------------------------------------------------------------------
(* The outcome                                                             *)

\* Mutant: what the caller says of the mission is believed.
ValidatableUnbound(t, m, p) ==
  /\ runs[t].status = "routed" /\ runs[t].final # NoModel
  /\ CompletedCall(t, runs[t].final)
  /\ \A i \in DOMAIN outcomes : outcomes[i].task # t

\* record_model_validation: a recorded route of that mission and project, which a
\* model answered, without an outcome so far.
Validatable(t, m, p) ==
  /\ RunRecorded(t) /\ runs[t].mission = m /\ runs[t].project = p
  /\ runs[t].status = "routed" /\ runs[t].final # NoModel
  /\ CompletedCall(t, runs[t].final)
  /\ \A i \in DOMAIN outcomes : outcomes[i].task # t

\* record_model_outcome: the row and its counter, in one transaction.  Anything
\* else is refused and changes nothing.
RecordOutcome(t, m, p, v) ==
  /\ daemon.phase = "up"
  /\ Validatable(t, m, p)
  /\ outcomes' = Append(outcomes, [task |-> t, type |-> runs[t].type, mission |-> m, project |-> p,
                                   verdict |-> v, by |-> runs[t].final,
                                   account |-> daemon.account[runs[t].final]])
  /\ counted' = [counted EXCEPT ![<<p, runs[t].type, v>>] = @ + 1]
  /\ UNCHANGED <<runs, calls, scores, daemon, deaths>>

\* model_performance_summary: the outcomes that find their run and the usage of
\* it, counted by task type, candidate and account; of the groups, MaxGroups at
\* most.  Which ones is a matter of their names: any.
Group(o) == <<o.type, o.by, o.account>>
InGroup(g) ==
  {i \in DOMAIN outcomes : /\ Group(outcomes[i]) = g
                          /\ RunRecorded(outcomes[i].task)
                          /\ \E j \in DOMAIN calls : calls[j].task = outcomes[i].task}
FoundGroups ==
  {g \in TaskTypes \X Ranked \X (Accounts \cup {Unbound}) : InGroup(g) # {}}

\* The groups that a summary may list.
Listings ==
  {l \in SUBSET FoundGroups : \/ Cardinality(l) = MaxGroups
                              \/ l = FoundGroups /\ Cardinality(l) < MaxGroups}

ReadSummary == daemon.phase = "up" /\ UNCHANGED outcomeVars

OutcomesNext ==
  \/ RefuseDatabase \/ BindAccounts \/ RefuseBinding \/ Die \/ ReadSummary
  \/ \E a \in AccountConfigs : Initialize(a)
  \/ \E t \in Runs :
       \/ \E m \in TaskMissions, p \in Projects :
            \/ \E k \in TaskTypes : OpenRun(t, k, m, p)
            \/ \E v \in Verdicts : RecordOutcome(t, m, p, v)
       \/ \E c \in Ranked : ReadCalls(t, c) \/ CallModel(t, c)
       \/ ReadOutcomes(t) \/ RecordScores(t) \/ EndRun(t)
       \/ \E status \in {"completed", "uncertain"} : AnswerCall(t, status)

OutcomesSpec == OutcomesInit /\ [][OutcomesNext]_outcomeVars

-----------------------------------------------------------------------------
(* Properties                                                              *)

\* A completed call stands behind an outcome, on no other account.
Vouched(o) ==
  \E i \in DOMAIN calls : /\ IsCompleted(calls[i], o.task, o.by)
                          /\ o.account \in {Unbound, calls[i].account}

\* While the daemon runs, no mission is of two projects, whatever release wrote
\* the database: initialize and start_run share the work.
OneProjectPerMission == daemon.phase # "down" => ~Conflicting

\* While the daemon serves, every call of a model, of older releases too, is on the
\* account that its model has now: what an account has spent is neither forgotten
\* nor moved to another by a new configuration (bind_provider_accounts).  The
\* façade, which writes to the same table under a reading of the configuration of
\* its own, is not part of this module.
AccountsAreBound ==
  daemon.phase = "up" => \A i \in DOMAIN calls : calls[i].account = daemon.account[calls[i].by]

\* An outcome is what the tables say of its route, never what its caller says: a
\* model answered it, and its call was completed, on no other account than that
\* of the outcome (record_model_validation).
OutcomesAreFacts ==
  \A i \in DOMAIN outcomes :
    LET o == outcomes[i] run == runs[o.task] IN
    /\ run.status = "routed" /\ run.final = o.by
    /\ <<run.type, run.mission, run.project>> = <<o.type, o.mission, o.project>>
    /\ Vouched(o)
    /\ \A j \in DOMAIN outcomes : outcomes[j].task = o.task => j = i

\* The counters are those of the table, and what a summary lists it counts rightly:
\* no outcome falls out of its joins, whatever died in between and whatever the
\* accounts were.  A summary shorter than its limit lists the group of every outcome.
NoOutcomeLost ==
  /\ \A p \in Projects, k \in TaskTypes, v \in Verdicts :
       counted[<<p, k, v>>] =
         Cardinality({i \in DOMAIN outcomes : /\ outcomes[i].project = p /\ outcomes[i].type = k
                                             /\ outcomes[i].verdict = v})
  /\ \A listed \in Listings :
       /\ \A g \in listed :
            Cardinality(InGroup(g)) = Cardinality({i \in DOMAIN outcomes : Group(outcomes[i]) = g})
       /\ Cardinality(listed) < MaxGroups =>
            \A i \in DOMAIN outcomes : Group(outcomes[i]) \in listed

\* A ranking is stored whole, and each of its scores rests on the outcomes of a
\* moment between the start of the run and now (candidate_score).
ScoresAreEvidence ==
  /\ \A s \in scores, c \in Ranked : \E r \in scores : r.task = s.task /\ r.by = c
  /\ \A s, r \in scores : s.task = r.task /\ s.by = r.by => s = r
  /\ \A s \in scores :
       LET of(k) == Cardinality(Latest(SubSeq(outcomes, 1, k), About(s))) IN
       /\ s.type = runs[s.task].type
       /\ s.found.validations \in of(runs[s.task].since) .. of(Len(outcomes))
       /\ s.found.succeeded <= s.found.validations
       /\ s.found.completed <= s.found.attempts
       /\ s.found.attempts <= MaxRows

OutcomesHold ==
  /\ OneProjectPerMission /\ AccountsAreBound /\ OutcomesAreFacts
  /\ NoOutcomeLost /\ ScoresAreEvidence
=============================================================================
