---------------------------- MODULE MissionContext ----------------------------
(***************************************************************************)
(* The context that the broker keeps of a mission outside every model      *)
(* (mission_control.py): its state and budgets, checkpoints, records and   *)
(* model traces; incidents, their details and status (service.py); the     *)
(* evidence attached to actions; and the backups of the database that      *)
(* holds all of it (backup.py).                                            *)
(*                                                                         *)
(* Every call carries a request id and is one IMMEDIATE transaction, which *)
(* looks the id up in the table of its operation: a new id is carried out, *)
(* stored and audited; the id of the same call is answered again; the id   *)
(* of another call is a Conflict, which changes nothing and is not a step. *)
(* Only create_incident looks up and inserts in separate transactions.     *)
(* A call is [on, by, what]: the entity, the actor and the validated       *)
(* payload, whose optional fields are the ones in the payload's domain.    *)
(***************************************************************************)
EXTENDS AuditChain, FiniteSets, TLC

CONSTANTS MissionIds, Actions, Callers, CallIds, Texts,
          MaxIterations, MaxApiCalls,   \* the budgets of a new mission
          Retain,                       \* backups that are kept
          MaxEvents, MaxBackups, MaxCreating,  \* bounds of the model
          Null

ASSUME RetainAssumption == Retain \in Nat \ {0}
ASSUME BudgetAssumption == MaxIterations \in Nat /\ MaxApiCalls \in Nat /\ MaxBackups \in Nat

VARIABLES
  rows,       \* the calls that are stored: [<<table, request id>> -> call]
  ctx,        \* mission_runtime: [mission -> its fields]
  evidence,   \* action_artifacts: [action -> the columns that are set]
  incident,   \* incidents with their details: [request id that created it -> ...]
  creating,   \* create_incident calls that found no incident
  told,       \* calls that were answered, with table and request id; the answer
              \* to a model trace shows the row found, whatever was asked
  trail, head,  \* the audit trail and its head
  backup,     \* the backup in progress: its copy, Null when there is none
  backups,    \* the published ones, each with its place in time
  published   \* how many were ever published (the timestamps of the model)

contextVars == <<rows, ctx, evidence, incident, creating, told, trail, head,
          backup, backups, published>>
callVars == <<rows, told, trail, head>>
entityVars == <<ctx, evidence, incident, creating>>
backupVars == <<backup, backups, published>>

Blank == "{}"    \* an empty healthcheck
Tables == {"update", "checkpoint", "record", "trace",
           "incident", "details", "status", "artifacts"}

ContextInit ==
  /\ rows = <<>>
  /\ ctx = [m \in MissionIds |->
              [step |-> "",
               iterations |-> 0, max_iterations |-> MaxIterations,
               api_calls |-> 0, max_api_calls |-> MaxApiCalls]]
  /\ evidence = [a \in Actions |-> <<>>]
  /\ incident = [r \in CallIds |-> Null]
  /\ creating = {} /\ told = {}
  /\ trail = <<>> /\ head = EmptyHead
  /\ backup = Null /\ backups = {} /\ published = 0

-----------------------------------------------------------------------------
(* The transaction every operation shares                                  *)

\* Bound: what happens beside a backup or a half-done call is followed up to
\* one event less than the rest.
Room ==
  Len(trail) < IF backup = Null /\ backups = {} /\ creating = {} THEN MaxEvents
             ELSE MaxEvents - 1

\* A table with one more row; a row with the columns that a call gives replaced.
Inserted(table, key, row) ==
  [k \in DOMAIN table \union {key} |-> IF k = key THEN row ELSE table[k]]
Replacing(given, old) ==
  [f \in DOMAIN given \union DOMAIN old |-> IF f \in DOMAIN given THEN given[f] ELSE old[f]]

Known(t, r) == <<t, r>> \in DOMAIN rows
RowOf(t, r) == rows[<<t, r>>]

Answer(t, r, c) == IF t = "trace" THEN {} ELSE {<<t, r, c>>}

\* The call is stored under its request id and audited, once.
First(t, r, c) ==
  /\ ~Known(t, r)
  /\ Room
  /\ rows' = Inserted(rows, <<t, r>>, c)
  /\ LET appended == AppendEvent(trail, head, <<t, r>>)
     IN  trail' = appended.log /\ head' = appended.head
  /\ told' = told \union Answer(t, r, c)
  /\ UNCHANGED backupVars

\* The trace is the one table whose prior row is returned unconditionally.
SameCall(t, prior, c) == t = "trace" \/ prior = c

\* The retry of a call that was stored: answered, nothing else.
Again(t, r, c) ==
  /\ Known(t, r)
  /\ SameCall(t, RowOf(t, r), c)
  /\ told' = told \union Answer(t, r, c)
  /\ UNCHANGED <<rows, trail, head, backupVars, entityVars>>

-----------------------------------------------------------------------------
(* Missions                                                                *)

Updates == [step : Texts] \union [max_iterations : {1}] \union [max_api_calls : {0}]

\* Mutant: a retry writes its values again, over newer ones.
UpdateMissionStateAgain(r, c) ==
  /\ ctx' = [ctx EXCEPT ![c.on] = Replacing(c.what, ctx[c.on])]
  /\ UNCHANGED <<evidence, incident, creating>>
  /\ \/ First("update", r, c)
     \/ Known("update", r) /\ RowOf("update", r) = c /\ UNCHANGED <<rows, told, trail, head, backupVars>>

\* update_mission_state: the fields given replace the stored ones.
UpdateMissionState(r, c) ==
  \/ /\ First("update", r, c)
     /\ ctx' = [ctx EXCEPT ![c.on] = Replacing(c.what, ctx[c.on])]
     /\ UNCHANGED <<evidence, incident, creating>>
  \/ Again("update", r, c)

Checkpoints == [phase : Texts]

\* The checkpoints of a mission, and the number the next one is given.
CheckpointsOf(m) == {r \in CallIds : /\ Known("checkpoint", r)
                                      /\ RowOf("checkpoint", r).on = m}

NextSequence(m) ==
  LET used == {RowOf("checkpoint", r).sequence : r \in CheckpointsOf(m)}
  IN  IF used = {} THEN 1 ELSE (CHOOSE s \in used : \A u \in used : u <= s) + 1

Numbered(c, n) == [on |-> c.on, by |-> c.by, what |-> c.what, sequence |-> n]

\* create_checkpoint: numbered within the mission; it becomes its context.
CreateCheckpoint(r, c) ==
  \/ /\ First("checkpoint", r, Numbered(c, NextSequence(c.on)))
     /\ ctx' = [ctx EXCEPT ![c.on].step = c.what.phase]
     /\ UNCHANGED <<evidence, incident, creating>>
  \/ \E s \in 1..Cardinality(CallIds) : Again("checkpoint", r, Numbered(c, s))

\* add_record: about an incident that exists, or about none.
AddRecord(r, c) ==
  /\ c.what.incident # Null => incident[c.what.incident] # Null
  /\ \/ First("record", r, c) /\ UNCHANGED entityVars
     \/ Again("record", r, c)

\* A trace counts against the mission's budgets when it is recorded, and its
\* parent is a trace of the same mission.
WithinBudget(c) ==
  /\ ctx[c.on].iterations < ctx[c.on].max_iterations
  /\ c.what.remote => ctx[c.on].api_calls < ctx[c.on].max_api_calls
  /\ c.what.parent # Null =>
       /\ Known("trace", c.what.parent)
       /\ RowOf("trace", c.what.parent).on = c.on

Counted(c) ==
  [ctx EXCEPT ![c.on].iterations = @ + 1,
              ![c.on].api_calls = @ + (IF c.what.remote THEN 1 ELSE 0)]

RecordModelTrace(r, c) ==
  \/ /\ WithinBudget(c)
     /\ First("trace", r, c)
     /\ ctx' = Counted(c)
     /\ UNCHANGED <<evidence, incident, creating>>
  \/ Again("trace", r, c)

-----------------------------------------------------------------------------
(* Incidents and the evidence of actions                                   *)

IncidentTransitions == [open       |-> {"monitoring", "resolved"},
                        monitoring |-> {"open", "resolved"},
                        resolved   |-> {}]

\* create_incident, the lookup: answered again, or on to the insert.
CreateIncidentLookup(r, c) ==
  \/ /\ ~Known("incident", r)
     /\ Cardinality(creating) < MaxCreating /\ Len(trail) < MaxEvents - 1
     /\ creating' = creating \union {<<r, c>>}
     /\ UNCHANGED <<callVars, ctx, evidence, incident, backupVars>>
  \/ Again("incident", r, c)

\* ... the insert: refused by UNIQUE(request_id) when another call was faster.
CreateIncidentInsert(r, c) ==
  /\ <<r, c>> \in creating
  /\ creating' = creating \ {<<r, c>>}
  /\ \/ /\ First("incident", r, c)
        /\ incident' = [incident EXCEPT ![r] = [status |-> "open", cause |-> ""]]
     \/ /\ Known("incident", r)
        /\ UNCHANGED <<callVars, incident, backupVars>>
  /\ UNCHANGED <<ctx, evidence>>

UpdateIncidentDetails(r, c) ==
  /\ incident[c.on] # Null
  /\ \/ /\ First("details", r, c)
        /\ incident' = [incident EXCEPT ![c.on].cause = c.what.cause]
        /\ UNCHANGED <<ctx, evidence, creating>>
     \/ Again("details", r, c)

\* set_incident_status: the same status again is stored and audited too.
SetIncidentStatus(r, c) ==
  /\ incident[c.on] # Null
  /\ \/ /\ c.what = incident[c.on].status
           \/ c.what \in IncidentTransitions[incident[c.on].status]
        /\ First("status", r, c)
        /\ incident' = [incident EXCEPT ![c.on].status = c.what]
        /\ UNCHANGED <<ctx, evidence, creating>>
     \/ Again("status", r, c)

Evidences == [before_digest : Texts] \union [healthcheck : Texts \union {Blank}]

\* A column that holds something keeps it.
MayAttach(c) ==
  \A col \in DOMAIN c.what \intersect DOMAIN evidence[c.on] :
    evidence[c.on][col] \in {Blank, c.what[col]}

RecordActionArtifacts(r, c) ==
  \/ /\ MayAttach(c)
     /\ First("artifacts", r, c)
     /\ evidence' = [evidence EXCEPT ![c.on] = Replacing(c.what, evidence[c.on])]
     /\ UNCHANGED <<ctx, incident, creating>>
  \/ Again("artifacts", r, c)

-----------------------------------------------------------------------------
(* backup_sqlite: one at a time (flock), beside the writers                *)

\* The online backup yields one committed state, whatever is written meanwhile.
BackupCopy ==
  /\ backup = Null
  /\ published < MaxBackups /\ Len(trail) < MaxEvents
  /\ backup' = [at |-> published + 1, log |-> trail, head |-> head]
  /\ UNCHANGED <<callVars, entityVars, backups, published>>

\* Database.verify_file, on the copy.
VerifyFile(copy) == Verify(copy.log, copy.head)

\* Mutant: the head is read when the copy is published, and not verified.
BackupPublishTorn ==
  /\ backup # Null /\ backup \notin backups
  /\ backups' = backups \union {[backup EXCEPT !.head = head]}
  /\ published' = published + 1
  /\ UNCHANGED <<callVars, entityVars, backup>>

\* Verified, then renamed into place.
BackupPublish ==
  /\ backup # Null /\ backup \notin backups
  /\ VerifyFile(backup)
  /\ backups' = backups \union {backup}
  /\ published' = published + 1
  /\ UNCHANGED <<callVars, entityVars, backup>>

Newer(b) == {c \in backups : c.at > b.at}

ExpiredBackups == {b \in backups : Cardinality(Newer(b)) >= Retain}

BackupPrune ==
  /\ backup \in backups
  /\ backups' = backups \ ExpiredBackups
  /\ backup' = Null
  /\ UNCHANGED <<callVars, entityVars, published>>

\* The process dies: the lock is free, the temporary file is never looked at.
BackupCrash ==
  /\ backup # Null
  /\ backup' = Null
  /\ UNCHANGED <<callVars, entityVars, backups, published>>

-----------------------------------------------------------------------------
Calls(On, What) == [on : On, by : Callers, what : What]

ContextNext ==
  \/ \E r \in CallIds :
       \/ \E c \in Calls(MissionIds, Updates) : UpdateMissionState(r, c)
       \/ \E c \in Calls(MissionIds, Checkpoints) : CreateCheckpoint(r, c)
       \/ \E c \in Calls(MissionIds, [incident : CallIds \union {Null}]) : AddRecord(r, c)
       \/ \E c \in Calls(MissionIds, [remote : BOOLEAN, parent : CallIds \union {Null}]) :
            RecordModelTrace(r, c)
       \/ \E c \in Calls({Null}, Texts) :
            CreateIncidentLookup(r, c) \/ CreateIncidentInsert(r, c)
       \/ \E c \in Calls(CallIds, [cause : Texts]) : UpdateIncidentDetails(r, c)
       \/ \E c \in Calls(CallIds, DOMAIN IncidentTransitions) : SetIncidentStatus(r, c)
       \/ \E c \in Calls(Actions, Evidences) : RecordActionArtifacts(r, c)
  \/ BackupCopy \/ BackupPublish \/ BackupPrune \/ BackupCrash

ContextSpec == ContextInit /\ [][ContextNext]_contextVars

-----------------------------------------------------------------------------
(* Properties                                                              *)

\* Types of the tables.
ContextTypeOK ==
  /\ DOMAIN rows \subseteq Tables \X CallIds /\ DOMAIN ctx = MissionIds
  /\ \A m \in MissionIds : /\ ctx[m].iterations \in Nat /\ ctx[m].api_calls \in Nat
                         /\ ctx[m].step \in Texts \union {""}
  /\ \A a \in Actions : DOMAIN evidence[a] \subseteq {"before_digest", "healthcheck"}
  /\ \A r \in CallIds : incident[r] # Null =>
       /\ incident[r].status \in DOMAIN IncidentTransitions
       /\ incident[r].cause \in Texts \union {""}
  /\ head.seq = Len(trail) /\ published \in 0..MaxBackups

\* Whatever a caller was told had been done is what the table holds, also when
\* the request id was retried, reused for another call, or raced by a second
\* call; a model trace is the exception, its prior row is never compared.
AnswersAreRecorded ==
  \A a \in told : Known(a[1], a[2]) /\ RowOf(a[1], a[2]) = a[3]

\* The budgets of a mission tell exactly the traces that were recorded for it:
\* a retried record_model_trace consumes nothing, a local model no API call.
CountsTellTraces ==
  \A m \in MissionIds :
    LET traces == {r \in CallIds : Known("trace", r) /\ RowOf("trace", r).on = m}
    IN  /\ ctx[m].iterations = Cardinality(traces)
        /\ ctx[m].api_calls = Cardinality({r \in traces : RowOf("trace", r).what.remote})

\* The step a worker resumes from is the one of the latest update or checkpoint
\* in the order of the audit trail: a late retry never brings an older one back.
ResumePointIsLatest ==
  \A m \in MissionIds :
    LET Sets(i) == LET t == trail[i].what[1]
                       c == RowOf(t, trail[i].what[2])
                   IN  /\ t \in {"update", "checkpoint"} /\ c.on = m
                       /\ t = "update" => "step" \in DOMAIN c.what
        steps == {i \in DOMAIN trail : Sets(i)}
        last  == CHOOSE i \in steps : \A j \in steps : j <= i
        c     == RowOf(trail[last].what[1], trail[last].what[2]).what
    IN  ctx[m].step = IF steps = {} THEN ""
                      ELSE IF trail[last].what[1] = "update" THEN c.step ELSE c.phase

\* The checkpoints of a mission are numbered 1, 2, ... in the order of the trail,
\* whatever other missions do meanwhile: list_checkpoints tells the latest first.
CheckpointsAreDense ==
  \A m \in MissionIds :
    /\ {RowOf("checkpoint", r).sequence : r \in CheckpointsOf(m)}
         = 1..Cardinality(CheckpointsOf(m))
    /\ \A i, j \in DOMAIN trail : \A r, s \in CheckpointsOf(m) :
         i < j /\ trail[i].what = <<"checkpoint", r>> /\ trail[j].what = <<"checkpoint", s>>
           => RowOf("checkpoint", r).sequence < RowOf("checkpoint", s).sequence

\* Evidence that was accepted for an action still stands: no later call, by
\* whatever actor and request id, has replaced it.
EvidenceStands ==
  \A r \in CallIds : Known("artifacts", r) =>
    LET c == RowOf("artifacts", r) IN
    \A col \in DOMAIN c.what : c.what[col] # Blank => evidence[c.on][col] = c.what[col]

\* Each stored call is in the audit trail exactly once, and nothing else is.
AuditedOnce ==
  /\ \A i \in DOMAIN trail : Known(trail[i].what[1], trail[i].what[2])
  /\ \A t \in Tables : \A r \in CallIds : Known(t, r) =>
       Cardinality({i \in DOMAIN trail : trail[i].what = <<t, r>>}) = 1

\* The trail verifies, and no damage to it does: a lost, renumbered, cut off or
\* altered row is noticed by verify_audit_chain.
DamageIsNoticed ==
  /\ Verify(trail, head)
  /\ \A d \in Damaged(trail, {e.what : e \in ToSet(trail)}) : Verify(d, head) => d = trail

\* A published backup verifies on its own and is a state the trail went through.
BackupsVerify ==
  \A b \in backups : Verify(b.log, b.head) /\ IsPrefix(b.log, trail)

\* The mission context tells what the calls did, each counted and applied once
\* although callers retry after a lost answer: the six parts above.
ContextHolds ==
  /\ ContextTypeOK
  /\ AnswersAreRecorded
  /\ CountsTellTraces
  /\ ResumePointIsLatest
  /\ CheckpointsAreDense
  /\ EvidenceStands

\* The audit trail has every call once, cannot be damaged unnoticed, and is what
\* every published backup holds a state of, whatever was written meanwhile.
TrailHolds == AuditedOnce /\ DamageIsNoticed /\ BackupsVerify
=============================================================================
