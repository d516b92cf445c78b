----------------------------- MODULE NativeProofs -----------------------------
(***************************************************************************)
(* Proofs about native_ops.  The connector, for any messages, modes, kills *)
(* and failed calls: a message is kept, worked on once, answered once and  *)
(* told the truth once.  The workflows, for any definition: however often  *)
(* a run is interrupted and resumed, its steps act once, in order and from *)
(* one definition, and its report is true.                                 *)
(***************************************************************************)
EXTENDS NativeConnector, NativeWorkflow, TLAPS

-----------------------------------------------------------------------------
(* THE CONNECTOR                                                           *)

JobPhases == {"absent", "received", "prepared", "generating", "ready", "sending",
              "needs_review", "delivered"}
Backends == {"none", "manual", "api", "codex"}
Follows == {"none", "waiting", "executing", "ready", "sending", "delivered", "needs_review"}
Outcomes == {"none", "pending_approval", "approved"} \union Terminal
WithJob == {"prepare", "handoff", "process", "generating", "send", "sent",
            "status", "execute", "announce", "tell"}

JobRows == [phase : JobPhases, backend : Backends, follow : Follows]
MissionRows == [mission : BOOLEAN, dispatch : SUBSET Backends, handoffs : Nat, evidence : BOOLEAN,
                action : Outcomes, by : {"none", "hermes", "codex"}]
AttemptRows == [status : {"none", "running", "handed_off", "needs_review"},
                approval : {"none", "completed", "needs_review"}]
Channel == [answers : Nat, told : Seq(Outcomes)]
Places == [at : {"intake", "cursor", "jobs", "follow"} \union WithJob, left : SUBSET Messages, sid : Nat]

\* Types of the tables, the processes and the channel.
ConnectorTypeOK ==
  /\ jobs \in [Messages -> JobRows] /\ cursor \in Nat /\ worker \in Places
  /\ broker \in [Messages -> MissionRows] /\ attempts \in [Messages -> AttemptRows]
  /\ pilot \in Messages \union {0} /\ running \subseteq Messages
  /\ zulip \in [Messages -> Channel] /\ ghost \in [Messages -> [paid : Nat, tried : Nat]]
  /\ worker.at \in WithJob => worker.sid \in Messages

\* A job that is not about to be sent, sent or left to a person has no answer.
AnswerInv(s) ==
  /\ zulip[s].answers <= 1
  /\ jobs[s].phase \notin {"sending", "needs_review", "delivered"} => zulip[s].answers = 0
  /\ jobs[s].phase = "delivered" => zulip[s].answers = 1

\* The work goes to the backend that was chosen first: a generation was paid for
\* a job of the API, whose phase says so; the CLI was tried for a job of its own.
WorkInv(s) ==
  /\ broker[s].dispatch # {} =>
       broker[s].dispatch = {jobs[s].backend} /\ jobs[s].backend # "none"
  /\ ghost[s].paid <= 1 /\ ghost[s].tried <= 1
  /\ ghost[s].paid > 0 => /\ jobs[s].phase \notin {"absent", "received", "prepared"}
                          /\ broker[s].dispatch = {"api"}
  /\ ghost[s].tried > 0 => attempts[s].status # "none" /\ broker[s].dispatch = {"codex"}

\* A followup that is ready to be told, or was told, is of an action that is over,
\* and it was not told before.
TellInv(s) ==
  /\ jobs[s].follow \in {"ready", "sending"} => broker[s].action \in Terminal
  /\ jobs[s].follow \in {"none", "waiting", "executing", "ready"} => zulip[s].told = <<>>
  /\ zulip[s].told # <<>> =>
       broker[s].action \in Terminal /\ zulip[s].told = <<broker[s].action>>

MessageInv(s) == AnswerInv(s) /\ WorkInv(s) /\ TellInv(s)

\* What the place of the worker says of the job in its hands.
PlaceInv ==
  /\ worker.at \in {"prepare", "handoff"} => Job.backend # "none"
  /\ worker.at = "handoff" => Job.phase = "prepared" /\ broker[Sid].dispatch # {}
  /\ worker.at = "process" => /\ Job.phase \in {"prepared", "ready", "sending"}
                              /\ Job.phase = "prepared" =>
                                   Job.backend = "api" /\ broker[Sid].dispatch # {}
  /\ worker.at = "generating" => Job.phase = "generating"
  /\ worker.at = "send" => Job.phase = "sending" /\ zulip[Sid].answers = 0
  /\ worker.at = "sent" => Job.phase = "sending" /\ zulip[Sid].answers = 1
  /\ worker.at = "execute" => Job.follow = "executing"
  /\ worker.at = "announce" => Job.follow = "ready"
  /\ worker.at = "tell" => Job.follow = "sending" /\ zulip[Sid].told = <<>>

\* What was taken in before the cursor moves is the message the cursor moves to.
IntakeInv == NothingLost /\ (worker.at = "cursor" => \A s \in Messages : s <= cursor + 1 => jobs[s] # NoJob)

ConnectorInv ==
  /\ ConnectorTypeOK /\ PlaceInv /\ IntakeInv
  /\ \A s \in Messages : MessageInv(s)

-----------------------------------------------------------------------------
LEMMA ConnectorInvHolds == ConnectorInv => JobsHold
PROOF
<1> SUFFICES ASSUME ConnectorInv PROVE JobsHold OBVIOUS
<1>1. AnsweredOnce BY DEF ConnectorInv, MessageInv, AnswerInv, AnsweredOnce
<1>2. ASSUME NEW s \in Messages PROVE ghost[s].paid + ghost[s].tried <= 1
  <2>1. ghost[s].paid \in Nat /\ ghost[s].tried \in Nat BY DEF ConnectorInv, ConnectorTypeOK
  <2>2. ghost[s].paid <= 1 /\ ghost[s].tried <= 1 /\ ~(ghost[s].paid > 0 /\ ghost[s].tried > 0)
    BY DEF ConnectorInv, MessageInv, WorkInv
  <2> QED BY <2>1, <2>2
<1>3. NothingLost BY DEF ConnectorInv, IntakeInv
<1>4. ToldOnce BY DEF ConnectorInv, MessageInv, TellInv, ToldOnce
<1> QED BY <1>1, <1>2, <1>3, <1>4 DEF JobsHold, WorkedOnOnce

LEMMA ConnectorInit_Inv == NativeInit => ConnectorInv
PROOF
<1> SUFFICES ASSUME NativeInit PROVE ConnectorInv OBVIOUS
<1> USE DEF NativeInit
<1>1. worker \in Places /\ worker.at = "intake" /\ cursor \in Nat BY DEF Places, Resting
<1>2. jobs \in [Messages -> JobRows]
  BY DEF NoJob, JobRows, JobPhases, Backends, Follows
<1>3. broker \in [Messages -> MissionRows] BY DEF MissionRows, Outcomes
<1>4. attempts \in [Messages -> AttemptRows] BY DEF AttemptRows
<1>5. zulip \in [Messages -> Channel] BY DEF Channel
<1>6. ghost \in [Messages -> [paid : Nat, tried : Nat]] OBVIOUS
<1>7. ConnectorTypeOK
  BY <1>1, <1>2, <1>3, <1>4, <1>5, <1>6 DEF ConnectorTypeOK, WithJob
<1>8. PlaceInv BY <1>1 DEF PlaceInv
<1>9. IntakeInv BY <1>1, MessagesAssumption DEF IntakeInv, NothingLost
<1>10. ASSUME NEW s \in Messages PROVE MessageInv(s)
  BY DEF MessageInv, AnswerInv, WorkInv, TellInv, NoJob
<1> QED BY <1>7, <1>8, <1>9, <1>10 DEF ConnectorInv

-----------------------------------------------------------------------------
(* What a step leaves alone                                                *)

LEMMA MessageStays ==
  ASSUME NEW s \in Messages, MessageInv(s), jobs'[s] = jobs[s], broker'[s] = broker[s],
         attempts'[s] = attempts[s], zulip'[s] = zulip[s], ghost'[s] = ghost[s]
  PROVE  MessageInv(s)'
BY DEF MessageInv, AnswerInv, WorkInv, TellInv

\* A step of the worker is about one message, and its job is not forgotten.
LEMMA WorkerStep ==
  ASSUME ConnectorInv, NEW i \in Messages,
         jobs' \in [Messages -> JobRows], broker' \in [Messages -> MissionRows],
         zulip' \in [Messages -> Channel], ghost' \in [Messages -> [paid : Nat, tried : Nat]],
         worker' \in Places, worker'.at \in WithJob => worker'.sid \in Messages,
         worker'.at # "cursor", UNCHANGED <<attempts, pilot, running, cursor>>,
         \A s \in Messages : s # i => /\ jobs'[s] = jobs[s] /\ broker'[s] = broker[s]
                                      /\ zulip'[s] = zulip[s] /\ ghost'[s] = ghost[s],
         jobs[i] # NoJob => jobs'[i] # NoJob, MessageInv(i)', PlaceInv'
  PROVE  ConnectorInv'
PROOF
<1>1. ConnectorTypeOK' BY DEF ConnectorInv, ConnectorTypeOK
<1>2. \A s \in Messages : jobs[s] # NoJob => jobs'[s] # NoJob OBVIOUS
<1>3. IntakeInv' BY <1>2 DEF ConnectorInv, IntakeInv, NothingLost, NoJob
<1>4. ASSUME NEW s \in Messages PROVE MessageInv(s)'
  <2>1. CASE s = i BY <2>1
  <2>2. CASE s # i
    <3>1. MessageInv(s) /\ attempts'[s] = attempts[s] BY DEF ConnectorInv
    <3> QED BY <2>2, <3>1, MessageStays
  <2> QED BY <2>1, <2>2
<1> QED BY <1>1, <1>3, <1>4 DEF ConnectorInv

\* A step that moves the worker only.
LEMMA MoveStep ==
  ASSUME ConnectorInv, UNCHANGED <<jobs, broker, zulip, ghost, attempts, pilot, running, cursor>>,
         worker' \in Places, worker'.at \in WithJob => worker'.sid \in Messages,
         worker'.at # "cursor", PlaceInv'
  PROVE  ConnectorInv'
PROOF
<1>1. ConnectorTypeOK' BY DEF ConnectorInv, ConnectorTypeOK
<1>2. IntakeInv' BY DEF ConnectorInv, IntakeInv, NothingLost, NoJob
<1>3. ASSUME NEW s \in Messages PROVE MessageInv(s)'
  <2>1. MessageInv(s) BY DEF ConnectorInv
  <2> QED BY <2>1, MessageStays
<1> QED BY <1>1, <1>2, <1>3 DEF ConnectorInv

LEMMA GotoFacts ==
  ASSUME worker \in Places, NEW p \in {"intake", "cursor", "jobs", "follow"} \union WithJob, Goto(p)
  PROVE  worker' \in Places /\ worker'.at = p /\ worker'.sid = worker.sid
BY DEF Goto, Places

LEMMA PhaseFacts ==
  ASSUME jobs \in [Messages -> JobRows], Sid \in Messages, NEW v \in JobPhases \ {"absent"}, SetPhase(v)
  PROVE  /\ jobs' \in [Messages -> JobRows] /\ jobs'[Sid].phase = v /\ jobs'[Sid] # NoJob
         /\ jobs'[Sid].backend = Job.backend /\ jobs'[Sid].follow = Job.follow
         /\ \A s \in Messages : s # Sid => jobs'[s] = jobs[s]
PROOF
<1>1. PICK j \in JobRows : j = Job BY DEF Job
<1>2. PICK k : k = [j EXCEPT !.phase = v] OBVIOUS
<1>3. k \in JobRows /\ k.phase = v /\ k.backend = j.backend /\ k.follow = j.follow
  BY <1>1, <1>2 DEF JobRows
<1>4. jobs' = [jobs EXCEPT ![Sid] = k] BY <1>1, <1>2 DEF SetPhase, Job
<1>5. jobs'[Sid] = k /\ jobs' \in [Messages -> JobRows] BY <1>3, <1>4
<1>6. k # NoJob BY <1>3 DEF NoJob
<1> QED BY <1>1, <1>3, <1>4, <1>5, <1>6

LEMMA FollowFacts ==
  ASSUME jobs \in [Messages -> JobRows], Sid \in Messages, NEW v \in Follows \ {"none"}, Follow(v)
  PROVE  /\ jobs' \in [Messages -> JobRows] /\ jobs'[Sid].follow = v /\ jobs'[Sid] # NoJob
         /\ jobs'[Sid].backend = Job.backend /\ jobs'[Sid].phase = Job.phase
         /\ \A s \in Messages : s # Sid => jobs'[s] = jobs[s]
PROOF
<1>1. PICK j \in JobRows : j = Job BY DEF Job
<1>2. PICK k : k = [j EXCEPT !.follow = v] OBVIOUS
<1>3. k \in JobRows /\ k.follow = v /\ k.backend = j.backend /\ k.phase = j.phase
  BY <1>1, <1>2 DEF JobRows
<1>4. jobs' = [jobs EXCEPT ![Sid] = k] BY <1>1, <1>2 DEF Follow, Job
<1>5. jobs'[Sid] = k /\ jobs' \in [Messages -> JobRows] BY <1>3, <1>4
<1>6. k # NoJob BY <1>3 DEF NoJob
<1> QED BY <1>1, <1>3, <1>4, <1>5, <1>6

\* Resting, the worker has nothing in its hands.
LEMMA RestingFacts ==
  ASSUME worker' = Resting
  PROVE  worker' \in Places /\ worker'.at = "intake" /\ PlaceInv'
BY DEF Resting, Places, PlaceInv

-----------------------------------------------------------------------------
(* Intake and the jobs                                                     *)

LEMMA Intake_Inv == ASSUME ConnectorInv, Intake PROVE ConnectorInv'
PROOF
<1> DEFINE n == cursor + 1
<1>1. /\ n \in Messages /\ Goto("cursor")
      /\ UNCHANGED <<cursor, broker, zulip, ghost, attempts, pilot, running>>
      /\ jobs' = [jobs EXCEPT ![n] = IF @ = NoJob THEN [@ EXCEPT !.phase = "received"] ELSE @]
  BY DEF Intake, Rest
<1>2. worker' \in Places /\ worker'.at = "cursor"
  BY <1>1, GotoFacts DEF ConnectorInv, ConnectorTypeOK
<1>3. PICK j : j = IF jobs[n] = NoJob THEN [NoJob EXCEPT !.phase = "received"] ELSE jobs[n] OBVIOUS
<1>4. j \in JobRows /\ j # NoJob
  BY <1>1, <1>3 DEF NoJob, JobRows, JobPhases, Backends, Follows, ConnectorInv, ConnectorTypeOK
<1>5. jobs' = [jobs EXCEPT ![n] = j] BY <1>1, <1>3
<1>6. /\ jobs' \in [Messages -> JobRows] /\ jobs'[n] = j
      /\ \A s \in Messages : s # n => jobs'[s] = jobs[s]
  BY <1>1, <1>4, <1>5 DEF ConnectorInv, ConnectorTypeOK
<1>7. ConnectorTypeOK' BY <1>1, <1>2, <1>6 DEF ConnectorInv, ConnectorTypeOK, WithJob
<1>8. PlaceInv' BY <1>2 DEF PlaceInv
<1>9. IntakeInv'
  <2>1. ASSUME NEW s \in Messages, s <= cursor + 1 PROVE jobs'[s] # NoJob
    <3>1. CASE s = n BY <1>4, <1>6, <3>1
    <3>2. CASE s # n
      <4>1. s <= cursor BY <2>1, <3>2, MessagesAssumption DEF ConnectorInv, ConnectorTypeOK
      <4> QED BY <1>6, <3>2, <4>1 DEF ConnectorInv, IntakeInv, NothingLost
    <3> QED BY <3>1, <3>2
  <2>2. ASSUME NEW s \in Messages, s <= cursor PROVE s <= cursor + 1
    BY <2>2, MessagesAssumption DEF ConnectorInv, ConnectorTypeOK
  <2> QED BY <1>1, <2>1, <2>2 DEF IntakeInv, NothingLost, NoJob
<1>10. ASSUME NEW s \in Messages PROVE MessageInv(s)'
  <2>1. MessageInv(s) BY DEF ConnectorInv
  <2>2. CASE jobs'[s] = jobs[s] BY <1>1, <2>1, <2>2, MessageStays
  <2>3. CASE jobs'[s] # jobs[s]
    <3>1. s = n /\ jobs[s] = NoJob /\ jobs'[s] = [NoJob EXCEPT !.phase = "received"]
      BY <1>3, <1>6, <2>3
    <3>2. jobs'[s].phase = "received" /\ jobs'[s].backend = "none" /\ jobs'[s].follow = "none"
          /\ jobs[s].phase = "absent" /\ jobs[s].backend = "none" /\ jobs[s].follow = "none"
      BY <3>1 DEF NoJob
    <3> QED BY <1>1, <2>1, <3>2 DEF MessageInv, AnswerInv, WorkInv, TellInv
  <2> QED BY <2>2, <2>3
<1> QED BY <1>7, <1>8, <1>9, <1>10 DEF ConnectorInv

LEMMA Advance_Inv == ASSUME ConnectorInv, Advance PROVE ConnectorInv'
PROOF
<1>1. /\ worker.at = "cursor" /\ cursor' = cursor + 1 /\ Goto("intake")
      /\ UNCHANGED <<jobs, broker, zulip, ghost, attempts, pilot, running>>
  BY DEF Advance, Rest
<1>2. worker' \in Places /\ worker'.at = "intake"
  BY <1>1, GotoFacts DEF ConnectorInv, ConnectorTypeOK
<1>3. ConnectorTypeOK' BY <1>1, <1>2 DEF ConnectorInv, ConnectorTypeOK, WithJob
<1>4. PlaceInv' BY <1>2 DEF PlaceInv
<1>5. IntakeInv' BY <1>1, <1>2 DEF ConnectorInv, IntakeInv, NothingLost, NoJob
<1>6. ASSUME NEW s \in Messages PROVE MessageInv(s)'
  <2>1. MessageInv(s) BY DEF ConnectorInv
  <2> QED BY <1>1, <2>1, MessageStays
<1> QED BY <1>3, <1>4, <1>5, <1>6 DEF ConnectorInv

LEMMA ListPending_Inv == ASSUME ConnectorInv, ListPending PROVE ConnectorInv'
PROOF
<1>1. /\ worker' = [at |-> "jobs", left |-> Pending, sid |-> 0]
      /\ UNCHANGED <<jobs, broker, zulip, ghost, attempts, pilot, running, cursor>>
  BY DEF ListPending, Rest
<1>2. Pending \subseteq Messages BY DEF Pending, Waiting
<1>3. worker' \in Places /\ worker'.at = "jobs" BY <1>1, <1>2 DEF Places
<1>4. PlaceInv' BY <1>3 DEF PlaceInv
<1> QED BY <1>1, <1>3, <1>4, MoveStep DEF WithJob

LEMMA TakeJob_Inv == ASSUME ConnectorInv, TakeJob PROVE ConnectorInv'
PROOF
<1>1. PICK s \in Messages :
        LET b == IF jobs[s].backend = "none" THEN SelectBackend(asks[s]) ELSE jobs[s].backend
        IN /\ IsNext(s)
           /\ jobs' = [jobs EXCEPT ![s].backend = b]
           /\ worker' = [at |-> IF b = "none" THEN "jobs" ELSE "prepare",
                         left |-> worker.left \ {s}, sid |-> s]
  BY DEF TakeJob
<1>2. PICK b : b = IF jobs[s].backend = "none" THEN SelectBackend(asks[s]) ELSE jobs[s].backend
  OBVIOUS
<1>3. /\ jobs' = [jobs EXCEPT ![s].backend = b]
      /\ worker' = [at |-> IF b = "none" THEN "jobs" ELSE "prepare",
                    left |-> worker.left \ {s}, sid |-> s]
      /\ UNCHANGED <<broker, zulip, ghost, attempts, pilot, running, cursor>>
  BY <1>1, <1>2 DEF TakeJob, Rest
<1>4. jobs \in [Messages -> JobRows] /\ worker.left \subseteq Messages
  BY DEF ConnectorInv, ConnectorTypeOK, Places
<1>5. PICK j \in JobRows : j = jobs[s] BY <1>4
<1>6. b \in Backends /\ (j.backend # "none" => b = j.backend)
  BY <1>2, <1>5 DEF Backends, JobRows, SelectBackend
<1>7. PICK k : k = [j EXCEPT !.backend = b] OBVIOUS
<1>8. k \in JobRows /\ k.phase = j.phase /\ k.backend = b /\ k.follow = j.follow
  BY <1>5, <1>6, <1>7 DEF JobRows
<1>9. jobs' = [jobs EXCEPT ![s] = k] BY <1>3, <1>5, <1>7
<1>10. /\ jobs' \in [Messages -> JobRows] /\ jobs'[s] = k
       /\ \A t \in Messages : t # s => jobs'[t] = jobs[t]
  BY <1>4, <1>8, <1>9
<1>11. s \in Nat BY MessagesAssumption
<1>12. worker' \in Places /\ worker'.sid = s /\ worker'.at \in {"jobs", "prepare"}
       /\ (worker'.at = "prepare" => b # "none")
  BY <1>3, <1>4, <1>11 DEF Places, WithJob
<1>13. PlaceInv' BY <1>8, <1>10, <1>12 DEF PlaceInv, Job, Sid
<1>14. j # NoJob => k # NoJob
  <2>1. CASE j.backend = "none" /\ b = "none"
    <3>1. k = j BY <1>5, <1>7, <2>1 DEF JobRows
    <3> QED BY <3>1
  <2>2. CASE b # "none" BY <1>8, <2>2 DEF NoJob
  <2> QED BY <1>6, <2>1, <2>2
<1>15. MessageInv(s)'
  <2>1. MessageInv(s) BY DEF ConnectorInv
  <2>2. broker[s].dispatch # {} => b = jobs[s].backend
    BY <1>5, <1>6, <2>1 DEF MessageInv, WorkInv
  <2> QED BY <1>3, <1>5, <1>8, <1>10, <2>1, <2>2 DEF MessageInv, AnswerInv, WorkInv, TellInv
<1>16. /\ broker' \in [Messages -> MissionRows] /\ zulip' \in [Messages -> Channel]
       /\ ghost' \in [Messages -> [paid : Nat, tried : Nat]]
  BY <1>3 DEF ConnectorInv, ConnectorTypeOK
<1> QED BY <1>3, <1>5, <1>10, <1>12, <1>13, <1>14, <1>15, <1>16, WorkerStep DEF WithJob

\* Types of the tables, for the steps that change some of them.
LEMMA TableTypes ==
  ASSUME ConnectorInv
  PROVE  /\ jobs \in [Messages -> JobRows] /\ broker \in [Messages -> MissionRows]
         /\ zulip \in [Messages -> Channel] /\ ghost \in [Messages -> [paid : Nat, tried : Nat]]
         /\ worker \in Places /\ (worker.at \in WithJob => Sid \in Messages)
BY DEF ConnectorInv, ConnectorTypeOK, Sid

\* The mission of the job in hand, with another value of some columns.
LEMMA BrokerFacts ==
  ASSUME broker \in [Messages -> MissionRows], NEW i \in Messages, NEW b \in MissionRows,
         broker' = [broker EXCEPT ![i] = b]
  PROVE  /\ broker' \in [Messages -> MissionRows] /\ broker'[i] = b
         /\ \A s \in Messages : s # i => broker'[s] = broker[s]
OBVIOUS

LEMMA Prepare_Inv == ASSUME ConnectorInv, Prepare PROVE ConnectorInv'
PROOF
<1>0. worker.at = "prepare" /\ UNCHANGED <<zulip, ghost, attempts, pilot, running, cursor>>
  BY DEF Prepare, Rest
<1>1. /\ jobs \in [Messages -> JobRows] /\ broker \in [Messages -> MissionRows]
      /\ zulip' \in [Messages -> Channel] /\ ghost' \in [Messages -> [paid : Nat, tried : Nat]]
      /\ worker \in Places /\ Sid \in Messages
  BY <1>0, TableTypes DEF WithJob
<1>2. PICK old \in MissionRows : old = broker[Sid] BY <1>1
<1>3. MessageInv(Sid) BY <1>1 DEF ConnectorInv
<1>4. Job.backend # "none" /\ Job.backend \in Backends /\ Job \in JobRows
  BY <1>0, <1>1 DEF ConnectorInv, PlaceInv, Job, JobRows
<1>5. CASE /\ Job.phase = "received" /\ SetPhase("prepared")
           /\ broker' = [broker EXCEPT ![Sid].mission = TRUE] /\ UNCHANGED worker
  <2>1. PICK b : b = [old EXCEPT !.mission = TRUE] OBVIOUS
  <2>2. b \in MissionRows /\ b.dispatch = old.dispatch /\ b.action = old.action
    BY <1>2, <2>1 DEF MissionRows
  <2>3. broker' = [broker EXCEPT ![Sid] = b] BY <1>2, <1>5, <2>1
  <2>4. /\ broker' \in [Messages -> MissionRows] /\ broker'[Sid] = b
        /\ \A s \in Messages : s # Sid => broker'[s] = broker[s]
    BY <1>1, <2>2, <2>3, BrokerFacts
  <2>5. /\ jobs' \in [Messages -> JobRows] /\ jobs'[Sid].phase = "prepared" /\ jobs'[Sid] # NoJob
        /\ jobs'[Sid].backend = Job.backend /\ jobs'[Sid].follow = Job.follow
        /\ \A s \in Messages : s # Sid => jobs'[s] = jobs[s]
    BY <1>1, <1>5, PhaseFacts DEF JobPhases
  <2>6. MessageInv(Sid)'
    BY <1>0, <1>2, <1>3, <1>5, <2>2, <2>4, <2>5 DEF MessageInv, AnswerInv, WorkInv, TellInv, Job, Sid
  <2>7. PlaceInv' BY <1>0, <1>4, <1>5, <2>5 DEF PlaceInv, Job, Sid
  <2> QED BY <1>0, <1>1, <1>5, <2>4, <2>5, <2>6, <2>7, WorkerStep DEF Sid
<1>6. CASE /\ Job.phase = "prepared" /\ UNCHANGED jobs /\ Goto("handoff")
           /\ broker' = [broker EXCEPT ![Sid].dispatch = IF @ = {} THEN {Job.backend} ELSE @]
  <2>1. PICK d : d = IF old.dispatch = {} THEN {Job.backend} ELSE old.dispatch OBVIOUS
  <2>2. old.dispatch \subseteq Backends BY <1>2 DEF MissionRows
  <2>4. d = {Job.backend} /\ d \subseteq Backends
    BY <1>2, <1>3, <1>4, <2>1, <2>2 DEF MessageInv, WorkInv, Job
  <2>5. PICK b : b = [old EXCEPT !.dispatch = d] OBVIOUS
  <2>6. b \in MissionRows /\ b.dispatch = d /\ b.action = old.action
    BY <1>2, <2>4, <2>5 DEF MissionRows
  <2>7. broker' = [broker EXCEPT ![Sid] = b] BY <1>2, <1>6, <2>1, <2>5
  <2>8. /\ broker' \in [Messages -> MissionRows] /\ broker'[Sid] = b
        /\ \A s \in Messages : s # Sid => broker'[s] = broker[s]
    BY <1>1, <2>6, <2>7, BrokerFacts
  <2>9. worker' \in Places /\ worker'.at = "handoff" /\ worker'.sid = Sid
    BY <1>1, <1>6, GotoFacts DEF WithJob, Sid
  <2>10. PlaceInv' BY <1>4, <1>6, <2>4, <2>6, <2>8, <2>9 DEF PlaceInv, Job, Sid
  <2>11. old.dispatch # {} => d = old.dispatch BY <2>1
  <2>12. ghost[Sid].paid > 0 \/ ghost[Sid].tried > 0 => d = old.dispatch
    BY <1>2, <1>3, <2>11 DEF MessageInv, WorkInv
  <2>13. MessageInv(Sid)'
    BY <1>0, <1>2, <1>3, <1>4, <1>6, <2>4, <2>6, <2>8, <2>12, <2>9
       DEF MessageInv, AnswerInv, WorkInv, TellInv, Job, Sid
  <2>14. jobs' \in [Messages -> JobRows] BY <1>1, <1>6
  <2> QED BY <1>0, <1>1, <1>6, <2>8, <2>9, <2>10, <2>13, <2>14, WorkerStep DEF Sid
<1>7. CASE Job.phase \in {"ready", "sending"} /\ UNCHANGED <<jobs, broker>> /\ Goto("process")
  <2>1. worker' \in Places /\ worker'.at = "process" /\ worker'.sid = Sid
    BY <1>1, <1>7, GotoFacts DEF WithJob, Sid
  <2>2. PlaceInv' BY <1>4, <1>7, <2>1 DEF PlaceInv, Job, Sid
  <2> QED BY <1>0, <1>1, <1>7, <2>1, <2>2, MoveStep
<1> QED BY <1>5, <1>6, <1>7 DEF Prepare

\* The job with other values of phase and followup, and its backend.
LEMMA JobFacts ==
  ASSUME jobs \in [Messages -> JobRows], Sid \in Messages, NEW j \in JobRows,
         jobs' = [jobs EXCEPT ![Sid] = j]
  PROVE  /\ jobs' \in [Messages -> JobRows] /\ jobs'[Sid] = j
         /\ \A s \in Messages : s # Sid => jobs'[s] = jobs[s]
OBVIOUS

LEMMA AcceptHandoff_Inv == ASSUME ConnectorInv, AcceptHandoff PROVE ConnectorInv'
PROOF
<1>0. worker.at = "handoff" /\ UNCHANGED <<broker, zulip, ghost, attempts, pilot, running, cursor>>
  BY DEF AcceptHandoff, Rest
<1>1. /\ jobs \in [Messages -> JobRows] /\ broker' \in [Messages -> MissionRows]
      /\ zulip' \in [Messages -> Channel] /\ ghost' \in [Messages -> [paid : Nat, tried : Nat]]
      /\ worker \in Places /\ Sid \in Messages
  BY <1>0, TableTypes DEF WithJob
<1>2. PICK old \in JobRows : old = Job BY <1>1 DEF Job
<1>3. /\ MessageInv(Sid) /\ old.phase = "prepared" /\ old.backend # "none"
      /\ broker[Sid].dispatch # {}
  BY <1>0, <1>1, <1>2 DEF ConnectorInv, PlaceInv
<1>4. PICK n \in Nat : n = broker[Sid].handoffs
  BY <1>1, TableTypes DEF MissionRows
<1>5. PICK f : f = IF old.follow = "none" /\ broker[Sid].action # "none" THEN "waiting" ELSE old.follow
  OBVIOUS
<1>6. PICK j : j = CASE n = 0 -> IF asks[Sid] = "unknown" THEN [old EXCEPT !.phase = "ready"] ELSE old
                     [] n = 1 -> [old EXCEPT !.phase = "ready", !.follow = f]
                     [] OTHER -> [old EXCEPT !.phase = "needs_review"]
  OBVIOUS
<1>7. f \in Follows /\ (f # old.follow => old.follow = "none" /\ f = "waiting")
  BY <1>2, <1>5 DEF JobRows, Follows
<1>8. /\ j \in JobRows /\ j.backend = old.backend /\ j.phase \in {"prepared", "ready", "needs_review"}
      /\ (j.follow # old.follow => old.follow = "none" /\ j.follow = "waiting")
      /\ (n = 1 => j.phase = "ready")
      /\ (n = 0 /\ asks[Sid] = "unknown" => j.phase = "ready")
      /\ (n = 0 /\ asks[Sid] # "unknown" => j.phase = "prepared")
  <2>1. CASE n = 0 /\ asks[Sid] = "unknown"
    <3>1. j = [old EXCEPT !.phase = "ready"] BY <1>6, <2>1
    <3> QED BY <1>2, <2>1, <3>1 DEF JobRows, JobPhases
  <2>2. CASE n = 0 /\ asks[Sid] # "unknown"
    <3>1. j = old BY <1>6, <2>2
    <3> QED BY <1>3, <2>2, <3>1
  <2>3. CASE n = 1
    <3>1. j = [old EXCEPT !.phase = "ready", !.follow = f] BY <1>6, <2>3
    <3>2. j \in JobRows BY <1>2, <1>7, <3>1 DEF JobRows, JobPhases
    <3>3. j.phase = "ready" /\ j.follow = f /\ j.backend = old.backend BY <1>2, <3>1 DEF JobRows
    <3> QED BY <1>7, <2>3, <3>2, <3>3
  <2>4. CASE n # 0 /\ n # 1
    <3>1. j = [old EXCEPT !.phase = "needs_review"] BY <1>6, <2>4
    <3> QED BY <1>2, <2>4, <3>1 DEF JobRows, JobPhases
  <2> QED BY <2>1, <2>2, <2>3, <2>4
<1>9. jobs' = [jobs EXCEPT ![Sid] = j]
  BY <1>2, <1>4, <1>5, <1>6 DEF AcceptHandoff, Job
<1>10. /\ jobs' \in [Messages -> JobRows] /\ jobs'[Sid] = j
       /\ \A s \in Messages : s # Sid => jobs'[s] = jobs[s]
  BY <1>1, <1>8, <1>9, JobFacts
<1>11. PICK p : p = IF n > 1 THEN "jobs"
                    ELSE IF n = 1 \/ asks[Sid] = "unknown" \/ (old.backend = "api" /\ ApiAllowed)
                    THEN "process" ELSE "jobs"
  OBVIOUS
<1>12. p \in {"jobs", "process"} BY <1>11
<1>13. Goto(p) BY <1>2, <1>4, <1>11 DEF AcceptHandoff
<1>14. worker' \in Places /\ worker'.at = p /\ worker'.sid = Sid
  BY <1>1, <1>12, <1>13, GotoFacts DEF WithJob, Sid
<1>15. PlaceInv'
  <2>1. ASSUME p = "process"
        PROVE  j.phase \in {"prepared", "ready"} /\ (j.phase = "prepared" => j.backend = "api")
    <3>1. n = 0 \/ n = 1 BY <1>11, <2>1
    <3> QED BY <1>8, <1>11, <2>1, <3>1
  <2> QED BY <1>0, <1>3, <1>8, <1>10, <1>12, <1>14, <2>1 DEF PlaceInv, Job, Sid
<1>16. MessageInv(Sid)'
  BY <1>0, <1>2, <1>3, <1>8, <1>10, <1>14 DEF MessageInv, AnswerInv, WorkInv, TellInv, Job, Sid
<1>17. jobs'[Sid] # NoJob BY <1>3, <1>8, <1>10 DEF NoJob
<1> QED BY <1>0, <1>1, <1>10, <1>12, <1>14, <1>15, <1>16, <1>17, WorkerStep DEF WithJob, Sid

LEMMA Generate_Inv == ASSUME ConnectorInv, Generate PROVE ConnectorInv'
PROOF
<1>0. /\ worker.at = "process" /\ Job.phase = "prepared" /\ SetPhase("generating") /\ Goto("generating")
      /\ ghost' = [ghost EXCEPT ![Sid].paid = @ + 1]
      /\ UNCHANGED <<broker, zulip, attempts, pilot, running, cursor>>
  BY DEF Generate, Rest
<1>1. /\ jobs \in [Messages -> JobRows] /\ broker' \in [Messages -> MissionRows]
      /\ zulip' \in [Messages -> Channel] /\ ghost \in [Messages -> [paid : Nat, tried : Nat]]
      /\ worker \in Places /\ Sid \in Messages
  BY <1>0, TableTypes DEF WithJob
<1>2. MessageInv(Sid) /\ Job.backend = "api" /\ broker[Sid].dispatch # {}
  BY <1>0, <1>1 DEF ConnectorInv, PlaceInv
<1>3. PICK g \in [paid : Nat, tried : Nat] : g = ghost[Sid] BY <1>1
<1>4. g.paid \in Nat /\ g.tried \in Nat /\ g.paid <= 1 /\ ~(g.paid > 0)
  BY <1>0, <1>2, <1>3 DEF MessageInv, WorkInv, Job
<1>5. g.paid = 0 BY <1>4
<1>6. PICK h : h = [g EXCEPT !.paid = 1] OBVIOUS
<1>7. h \in [paid : Nat, tried : Nat] /\ h.paid = 1 /\ h.tried = g.tried BY <1>3, <1>6
<1>8. ghost' = [ghost EXCEPT ![Sid] = h] BY <1>0, <1>3, <1>5, <1>6
<1>9. /\ ghost' \in [Messages -> [paid : Nat, tried : Nat]] /\ ghost'[Sid] = h
      /\ \A s \in Messages : s # Sid => ghost'[s] = ghost[s]
  BY <1>1, <1>7, <1>8
<1>10. /\ jobs' \in [Messages -> JobRows] /\ jobs'[Sid].phase = "generating" /\ jobs'[Sid] # NoJob
       /\ jobs'[Sid].backend = Job.backend /\ jobs'[Sid].follow = Job.follow
       /\ \A s \in Messages : s # Sid => jobs'[s] = jobs[s]
  BY <1>0, <1>1, PhaseFacts DEF JobPhases
<1>11. worker' \in Places /\ worker'.at = "generating" /\ worker'.sid = Sid
  BY <1>0, <1>1, GotoFacts DEF WithJob, Sid
<1>12. PlaceInv' BY <1>10, <1>11 DEF PlaceInv, Job, Sid
<1>13. MessageInv(Sid)'
  <2>1. broker[Sid].dispatch = {"api"} BY <1>2 DEF MessageInv, WorkInv, Job
  <2>2. AnswerInv(Sid)' BY <1>0, <1>2, <1>10, <1>11 DEF MessageInv, AnswerInv, Job, Sid
  <2>3. TellInv(Sid)' BY <1>0, <1>2, <1>10, <1>11 DEF MessageInv, TellInv, Job, Sid
  <2>4. WorkInv(Sid)'
    BY <1>0, <1>2, <1>3, <1>7, <1>9, <1>10, <1>11, <2>1 DEF MessageInv, WorkInv, Job, Sid
  <2> QED BY <2>2, <2>3, <2>4 DEF MessageInv
<1> QED BY <1>0, <1>1, <1>9, <1>10, <1>11, <1>12, <1>13, WorkerStep DEF Sid

\* Of the mission in hand, the action changes from what is not over, or nothing that
\* the invariant is about.
LEMMA ActionStep ==
  ASSUME ConnectorInv, NEW i \in Messages, NEW b \in MissionRows, broker' = [broker EXCEPT ![i] = b],
         b.dispatch = broker[i].dispatch,
         broker[i].action \in Terminal => b.action = broker[i].action,
         attempts' \in [Messages -> AttemptRows],
         \A s \in Messages : attempts[s].status # "none" => attempts'[s].status # "none",
         pilot' \in Messages \union {0}, running' \subseteq Messages,
         UNCHANGED <<jobs, worker, zulip, ghost, cursor>>
  PROVE  ConnectorInv'
PROOF
<1>1. /\ broker' \in [Messages -> MissionRows] /\ broker'[i] = b
      /\ \A s \in Messages : s # i => broker'[s] = broker[s]
  BY TableTypes, BrokerFacts
<1>2. ConnectorTypeOK' BY <1>1 DEF ConnectorInv, ConnectorTypeOK
<1>3. \A s \in Messages : /\ broker'[s].dispatch = broker[s].dispatch
                          /\ broker[s].action \in Terminal => broker'[s].action = broker[s].action
  BY <1>1
<1>4. PlaceInv' BY <1>3, TableTypes DEF ConnectorInv, PlaceInv, Job, Sid, WithJob
<1>5. IntakeInv' BY DEF ConnectorInv, IntakeInv, NothingLost, NoJob
<1>6. ASSUME NEW s \in Messages PROVE MessageInv(s)'
  <2>1. MessageInv(s) BY DEF ConnectorInv
  <2>2. WorkInv(s)' BY <1>3, <2>1 DEF MessageInv, WorkInv
  <2>3. AnswerInv(s)' BY <2>1 DEF MessageInv, AnswerInv
  <2>4. TellInv(s)' BY <1>3, <2>1 DEF MessageInv, TellInv, Terminal
  <2> QED BY <2>2, <2>3, <2>4 DEF MessageInv
<1> QED BY <1>2, <1>4, <1>5, <1>6 DEF ConnectorInv

LEMMA HermesActs_Inv == ASSUME ConnectorInv, HermesActs PROVE ConnectorInv'
PROOF
<1>0. /\ worker.at = "generating"
      /\ UNCHANGED <<jobs, worker, zulip, ghost, attempts, pilot, running, cursor>>
  BY DEF HermesActs, Rest
<1>1. broker \in [Messages -> MissionRows] /\ Sid \in Messages BY <1>0, TableTypes DEF WithJob
<1>2. PICK old \in MissionRows : old = broker[Sid] BY <1>1
<1>3. CASE broker' = [broker EXCEPT ![Sid].evidence = TRUE]
  <2>1. PICK b : b = [old EXCEPT !.evidence = TRUE] OBVIOUS
  <2>2. b \in MissionRows /\ b.dispatch = old.dispatch /\ b.action = old.action
    BY <1>2, <2>1 DEF MissionRows
  <2>3. broker' = [broker EXCEPT ![Sid] = b] BY <1>2, <1>3, <2>1
  <2> QED BY <1>0, <1>1, <1>2, <2>2, <2>3, ActionStep DEF ConnectorInv, ConnectorTypeOK
<1>4. CASE /\ broker[Sid].action = "none"
           /\ broker' = [broker EXCEPT ![Sid].action = "pending_approval", ![Sid].by = "hermes"]
  <2>1. PICK b : b = [old EXCEPT !.action = "pending_approval", !.by = "hermes"] OBVIOUS
  <2>2. b \in MissionRows /\ b.dispatch = old.dispatch
    BY <1>2, <2>1 DEF MissionRows, Outcomes
  <2>3. broker' = [broker EXCEPT ![Sid] = b] BY <1>2, <1>4, <2>1
  <2>4. broker[Sid].action \notin Terminal BY <1>4 DEF Terminal
  <2> QED BY <1>0, <1>1, <1>2, <2>2, <2>3, <2>4, ActionStep DEF ConnectorInv, ConnectorTypeOK
<1> QED BY <1>3, <1>4 DEF HermesActs

LEMMA Generated_Inv ==
  ASSUME ConnectorInv, NEW status, Generated(status)
  PROVE  ConnectorInv'
PROOF
<1>0. worker.at = "generating" /\ UNCHANGED <<broker, zulip, ghost, attempts, pilot, running, cursor>>
  BY DEF Generated, Rest
<1>1. /\ jobs \in [Messages -> JobRows] /\ broker' \in [Messages -> MissionRows]
      /\ zulip' \in [Messages -> Channel] /\ ghost' \in [Messages -> [paid : Nat, tried : Nat]]
      /\ worker \in Places /\ Sid \in Messages
  BY <1>0, TableTypes DEF WithJob
<1>2. PICK old \in JobRows : old = Job BY <1>1 DEF Job
<1>3. MessageInv(Sid) /\ old.phase = "generating" BY <1>0, <1>1, <1>2 DEF ConnectorInv, PlaceInv
<1>4. PICK f : f = IF status # "failed" /\ broker[Sid].action # "none" /\ old.follow = "none"
                   THEN "waiting" ELSE old.follow
  OBVIOUS
<1>5. PICK p : p = IF Acceptable(status) THEN "ready" ELSE "needs_review" OBVIOUS
<1>6. p \in {"ready", "needs_review"} /\ (Acceptable(status) => p = "ready") BY <1>5
<1>7. f \in Follows /\ (f # old.follow => old.follow = "none" /\ f = "waiting")
  BY <1>2, <1>4 DEF JobRows, Follows
<1>8. PICK j : j = [old EXCEPT !.phase = p, !.follow = f] OBVIOUS
<1>9. j \in JobRows /\ j.phase = p /\ j.follow = f /\ j.backend = old.backend
  BY <1>2, <1>6, <1>7, <1>8 DEF JobRows, JobPhases
<1>10. jobs' = [jobs EXCEPT ![Sid] = j] BY <1>2, <1>4, <1>5, <1>8 DEF Generated, Job
<1>11. /\ jobs' \in [Messages -> JobRows] /\ jobs'[Sid] = j
       /\ \A s \in Messages : s # Sid => jobs'[s] = jobs[s]
  BY <1>1, <1>9, <1>10, JobFacts
<1>12. PICK q : q = IF Acceptable(status) THEN "process" ELSE "jobs" OBVIOUS
<1>13. q \in {"process", "jobs"} /\ (q = "process" => p = "ready") BY <1>5, <1>12
<1>14. Goto(q) BY <1>12 DEF Generated
<1>15. worker' \in Places /\ worker'.at = q /\ worker'.sid = Sid
  BY <1>1, <1>13, <1>14, GotoFacts DEF WithJob, Sid
<1>16. PlaceInv'
  <2>1. CASE q = "jobs" BY <1>15, <2>1 DEF PlaceInv
  <2>2. CASE q = "process"
    <3>1. jobs'[Sid].phase = "ready" BY <1>9, <1>11, <1>13, <2>2
    <3> QED BY <1>11, <1>15, <2>2, <3>1 DEF PlaceInv, Job, Sid
  <2> QED BY <1>13, <2>1, <2>2
<1>17. MessageInv(Sid)'
  BY <1>0, <1>2, <1>3, <1>6, <1>7, <1>9, <1>11, <1>15 DEF MessageInv, AnswerInv, WorkInv, TellInv, Job, Sid
<1>18. jobs'[Sid] # NoJob BY <1>6, <1>9, <1>11 DEF NoJob
<1> QED BY <1>0, <1>1, <1>11, <1>13, <1>15, <1>16, <1>17, <1>18, WorkerStep DEF WithJob, Sid

LEMMA Deliver_Inv == ASSUME ConnectorInv, Deliver PROVE ConnectorInv'
PROOF
<1>0. worker.at = "process" /\ UNCHANGED <<broker, zulip, ghost, attempts, pilot, running, cursor>>
  BY DEF Deliver, Rest
<1>1. /\ jobs \in [Messages -> JobRows] /\ broker' \in [Messages -> MissionRows]
      /\ zulip' \in [Messages -> Channel] /\ ghost' \in [Messages -> [paid : Nat, tried : Nat]]
      /\ worker \in Places /\ Sid \in Messages
  BY <1>0, TableTypes DEF WithJob
<1>2. MessageInv(Sid) BY <1>1 DEF ConnectorInv
<1>3. CASE Job.phase = "ready" /\ SetPhase("sending") /\ Goto("send")
  <2>1. /\ jobs' \in [Messages -> JobRows] /\ jobs'[Sid].phase = "sending" /\ jobs'[Sid] # NoJob
        /\ jobs'[Sid].backend = Job.backend /\ jobs'[Sid].follow = Job.follow
        /\ \A s \in Messages : s # Sid => jobs'[s] = jobs[s]
    BY <1>1, <1>3, PhaseFacts DEF JobPhases
  <2>2. worker' \in Places /\ worker'.at = "send" /\ worker'.sid = Sid
    BY <1>1, <1>3, GotoFacts DEF WithJob, Sid
  <2>3. zulip[Sid].answers = 0 BY <1>2, <1>3 DEF MessageInv, AnswerInv, Job
  <2>4. PlaceInv' BY <1>0, <2>1, <2>2, <2>3 DEF PlaceInv, Job, Sid
  <2>5. MessageInv(Sid)'
    BY <1>0, <1>2, <1>3, <2>1, <2>2 DEF MessageInv, AnswerInv, WorkInv, TellInv, Job, Sid
  <2> QED BY <1>0, <1>1, <2>1, <2>2, <2>4, <2>5, WorkerStep DEF Sid
<1>4. CASE Job.phase = "sending" /\ SetPhase("needs_review") /\ Goto("jobs")
  <2>1. /\ jobs' \in [Messages -> JobRows] /\ jobs'[Sid].phase = "needs_review" /\ jobs'[Sid] # NoJob
        /\ jobs'[Sid].backend = Job.backend /\ jobs'[Sid].follow = Job.follow
        /\ \A s \in Messages : s # Sid => jobs'[s] = jobs[s]
    BY <1>1, <1>4, PhaseFacts DEF JobPhases
  <2>2. worker' \in Places /\ worker'.at = "jobs" /\ worker'.sid = Sid
    BY <1>1, <1>4, GotoFacts DEF Sid
  <2>3. PlaceInv' BY <2>2 DEF PlaceInv
  <2>4. MessageInv(Sid)'
    BY <1>0, <1>2, <1>4, <2>1, <2>2 DEF MessageInv, AnswerInv, WorkInv, TellInv, Job, Sid
  <2> QED BY <1>0, <1>1, <2>1, <2>2, <2>3, <2>4, WorkerStep DEF WithJob, Sid
<1> QED BY <1>3, <1>4 DEF Deliver

\* An answer is posted while the job says sending and has none.
LEMMA PostedFacts ==
  ASSUME ConnectorInv, worker.at = "send", zulip' = Posted
  PROVE  /\ zulip' \in [Messages -> Channel] /\ zulip'[Sid].answers = 1
         /\ zulip'[Sid].told = zulip[Sid].told
         /\ \A s \in Messages : s # Sid => zulip'[s] = zulip[s]
PROOF
<1>1. zulip \in [Messages -> Channel] /\ Sid \in Messages BY TableTypes DEF WithJob
<1>2. PICK z \in Channel : z = zulip[Sid] BY <1>1
<1>3. z.answers = 0 BY <1>2 DEF ConnectorInv, PlaceInv
<1>4. PICK y : y = [z EXCEPT !.answers = 1] OBVIOUS
<1>5. y \in Channel /\ y.answers = 1 /\ y.told = z.told BY <1>2, <1>4 DEF Channel
<1>6. zulip' = [zulip EXCEPT ![Sid] = y] BY <1>2, <1>3, <1>4 DEF Posted
<1> QED BY <1>1, <1>2, <1>5, <1>6

LEMMA Send_Inv == ASSUME ConnectorInv, Send PROVE ConnectorInv'
PROOF
<1>0. /\ worker.at = "send" /\ zulip' = Posted /\ Goto("sent")
      /\ UNCHANGED <<jobs, broker, ghost, attempts, pilot, running, cursor>>
  BY DEF Send, Rest
<1>1. /\ jobs' \in [Messages -> JobRows] /\ broker' \in [Messages -> MissionRows]
      /\ ghost' \in [Messages -> [paid : Nat, tried : Nat]] /\ worker \in Places /\ Sid \in Messages
  BY <1>0, TableTypes DEF WithJob
<1>2. /\ zulip' \in [Messages -> Channel] /\ zulip'[Sid].answers = 1
      /\ zulip'[Sid].told = zulip[Sid].told
      /\ \A s \in Messages : s # Sid => zulip'[s] = zulip[s]
  BY <1>0, PostedFacts
<1>3. MessageInv(Sid) /\ Job.phase = "sending" BY <1>0, <1>1 DEF ConnectorInv, PlaceInv
<1>4. worker' \in Places /\ worker'.at = "sent" /\ worker'.sid = Sid
  BY <1>0, <1>1, GotoFacts DEF WithJob, Sid
<1>5. PlaceInv' BY <1>0, <1>2, <1>3, <1>4 DEF PlaceInv, Job, Sid
<1>6. MessageInv(Sid)'
  BY <1>0, <1>2, <1>3, <1>4 DEF MessageInv, AnswerInv, WorkInv, TellInv, Job, Sid
<1> QED BY <1>0, <1>1, <1>2, <1>4, <1>5, <1>6, WorkerStep DEF Sid

LEMMA Sent_Inv == ASSUME ConnectorInv, Sent PROVE ConnectorInv'
PROOF
<1>0. /\ worker.at = "sent" /\ SetPhase("delivered") /\ Goto("jobs")
      /\ UNCHANGED <<broker, zulip, ghost, attempts, pilot, running, cursor>>
  BY DEF Sent, Rest
<1>1. /\ jobs \in [Messages -> JobRows] /\ broker' \in [Messages -> MissionRows]
      /\ zulip' \in [Messages -> Channel] /\ ghost' \in [Messages -> [paid : Nat, tried : Nat]]
      /\ worker \in Places /\ Sid \in Messages
  BY <1>0, TableTypes DEF WithJob
<1>2. MessageInv(Sid) /\ Job.phase = "sending" /\ zulip[Sid].answers = 1
  BY <1>0, <1>1 DEF ConnectorInv, PlaceInv
<1>3. /\ jobs' \in [Messages -> JobRows] /\ jobs'[Sid].phase = "delivered" /\ jobs'[Sid] # NoJob
      /\ jobs'[Sid].backend = Job.backend /\ jobs'[Sid].follow = Job.follow
      /\ \A s \in Messages : s # Sid => jobs'[s] = jobs[s]
  BY <1>0, <1>1, PhaseFacts DEF JobPhases
<1>4. worker' \in Places /\ worker'.at = "jobs" /\ worker'.sid = Sid
  BY <1>0, <1>1, GotoFacts DEF Sid
<1>5. PlaceInv' BY <1>4 DEF PlaceInv
<1>6. MessageInv(Sid)'
  BY <1>0, <1>2, <1>3, <1>4 DEF MessageInv, AnswerInv, WorkInv, TellInv, Job, Sid
<1> QED BY <1>0, <1>1, <1>3, <1>4, <1>5, <1>6, WorkerStep DEF WithJob, Sid

LEMMA CallFails_Inv == ASSUME ConnectorInv, CallFails PROVE ConnectorInv'
PROOF
<1>0. /\ worker.at \in {"prepare", "handoff", "send"} /\ worker' = Resting
      /\ UNCHANGED <<jobs, ghost, attempts, pilot, running, cursor>>
  BY DEF CallFails, Rest
<1>1. /\ jobs' \in [Messages -> JobRows] /\ broker \in [Messages -> MissionRows]
      /\ zulip \in [Messages -> Channel] /\ ghost' \in [Messages -> [paid : Nat, tried : Nat]]
      /\ Sid \in Messages
  BY <1>0, TableTypes DEF WithJob
<1>2. worker' \in Places /\ worker'.at = "intake" /\ PlaceInv' BY <1>0, RestingFacts
<1>3. MessageInv(Sid) BY <1>1 DEF ConnectorInv
<1>4. PICK i \in Messages : i = Sid BY <1>1
<1>5. CASE UNCHANGED <<zulip, broker>> BY <1>0, <1>2, <1>5, MoveStep DEF WithJob
<1>6. CASE worker.at = "send" /\ zulip' = Posted /\ UNCHANGED broker
  <2>1. /\ zulip' \in [Messages -> Channel] /\ zulip'[i].answers = 1
        /\ zulip'[i].told = zulip[i].told
        /\ \A s \in Messages : s # i => zulip'[s] = zulip[s]
    BY <1>4, <1>6, PostedFacts
  <2>2. jobs[i].phase = "sending" BY <1>4, <1>6 DEF ConnectorInv, PlaceInv, Job
  <2>3. MessageInv(i)'
    BY <1>0, <1>3, <1>4, <1>6, <2>1, <2>2 DEF MessageInv, AnswerInv, WorkInv, TellInv
  <2> QED BY <1>0, <1>1, <1>2, <1>6, <2>1, <2>3, WorkerStep DEF WithJob
<1>7. CASE broker' = [broker EXCEPT ![Sid].mission = TRUE] /\ UNCHANGED zulip
  <2>1. PICK old \in MissionRows : old = broker[i] BY <1>1
  <2>2. PICK b : b = [old EXCEPT !.mission = TRUE] OBVIOUS
  <2>3. b \in MissionRows /\ b.dispatch = old.dispatch /\ b.action = old.action
    BY <2>1, <2>2 DEF MissionRows
  <2>4. broker' = [broker EXCEPT ![i] = b] BY <1>4, <1>7, <2>1, <2>2
  <2>5. /\ broker' \in [Messages -> MissionRows] /\ broker'[i] = b
        /\ \A s \in Messages : s # i => broker'[s] = broker[s]
    BY <1>1, <2>3, <2>4, BrokerFacts
  <2>6. MessageInv(i)'
    BY <1>0, <1>3, <1>4, <1>7, <2>1, <2>3, <2>5 DEF MessageInv, AnswerInv, WorkInv, TellInv
  <2>7. zulip' \in [Messages -> Channel] BY <1>1, <1>7
  <2> QED BY <1>0, <1>1, <1>2, <1>7, <2>5, <2>6, <2>7, WorkerStep DEF WithJob
<1>8. /\ zulip' = zulip \/ (worker.at = "send" /\ zulip' = Posted)
      /\ broker' = broker \/ (worker.at = "prepare" /\ broker' = [broker EXCEPT ![Sid].mission = TRUE])
  BY DEF CallFails
<1> QED BY <1>5, <1>6, <1>7, <1>8

-----------------------------------------------------------------------------
(* The followups                                                           *)

LEMMA ListFollowups_Inv == ASSUME ConnectorInv, ListFollowups PROVE ConnectorInv'
PROOF
<1>1. /\ worker' = [at |-> "follow", sid |-> 0,
                    left |-> {s \in Messages : jobs[s].follow \in {"waiting", "ready"}}]
      /\ UNCHANGED <<jobs, broker, zulip, ghost, attempts, pilot, running, cursor>>
  BY DEF ListFollowups, Rest
<1>2. worker' \in Places /\ worker'.at = "follow" BY <1>1 DEF Places
<1>3. PlaceInv' BY <1>2 DEF PlaceInv
<1> QED BY <1>1, <1>2, <1>3, MoveStep DEF WithJob

LEMMA TakeFollowup_Inv == ASSUME ConnectorInv, TakeFollowup PROVE ConnectorInv'
PROOF
<1>0. UNCHANGED <<jobs, broker, zulip, ghost, attempts, pilot, running, cursor>>
  BY DEF TakeFollowup, Rest
<1>1. CASE worker' = Resting
  <2>1. worker' \in Places /\ worker'.at = "intake" /\ PlaceInv' BY <1>1, RestingFacts
  <2> QED BY <1>0, <2>1, MoveStep DEF WithJob
<1>2. CASE \E s \in worker.left : worker' = [at |-> "status", left |-> worker.left \ {s}, sid |-> s]
  <2>1. PICK s \in worker.left : worker' = [at |-> "status", left |-> worker.left \ {s}, sid |-> s]
    BY <1>2
  <2>2. s \in Nat /\ s \in Messages /\ worker.left \subseteq Messages
    BY MessagesAssumption, TableTypes DEF Places
  <2>3. worker' \in Places /\ worker'.at = "status" /\ worker'.sid = s
    BY <2>1, <2>2 DEF Places, WithJob
  <2>4. PlaceInv' BY <2>3 DEF PlaceInv
  <2> QED BY <1>0, <2>2, <2>3, <2>4, MoveStep
<1> QED BY <1>1, <1>2 DEF TakeFollowup

\* A step that changes the followup of the job in hand, and maybe its action and
\* what the channel was told.
LEMMA FollowStep ==
  ASSUME ConnectorInv, worker.at \in WithJob, NEW v \in Follows \ {"none"}, Follow(v),
         NEW p \in {"follow", "execute", "announce", "tell"}, Goto(p),
         broker' \in [Messages -> MissionRows], zulip' \in [Messages -> Channel],
         \A s \in Messages : s # Sid => broker'[s] = broker[s] /\ zulip'[s] = zulip[s],
         broker'[Sid].dispatch = broker[Sid].dispatch, zulip'[Sid].answers = zulip[Sid].answers,
         v \in {"ready", "sending"} => broker'[Sid].action \in Terminal,
         v \in {"waiting", "executing", "ready"} => zulip'[Sid].told = <<>>,
         zulip'[Sid].told # <<>> =>
           broker'[Sid].action \in Terminal /\ zulip'[Sid].told = <<broker'[Sid].action>>,
         p = "execute" => v = "executing", p = "announce" => v = "ready",
         p = "tell" => v = "sending" /\ zulip'[Sid].told = <<>>,
         UNCHANGED <<ghost, attempts, pilot, running, cursor>>
  PROVE  ConnectorInv'
PROOF
<1>1. /\ jobs \in [Messages -> JobRows] /\ ghost' \in [Messages -> [paid : Nat, tried : Nat]]
      /\ worker \in Places /\ Sid \in Messages
  BY TableTypes
<1>2. PICK i \in Messages : i = Sid BY <1>1
<1>3. /\ jobs' \in [Messages -> JobRows] /\ jobs'[i].follow = v /\ jobs'[i] # NoJob
      /\ jobs'[i].backend = jobs[i].backend /\ jobs'[i].phase = jobs[i].phase
      /\ \A s \in Messages : s # i => jobs'[s] = jobs[s]
  BY <1>1, <1>2, FollowFacts DEF Job
<1>4. worker' \in Places /\ worker'.at = p /\ worker'.sid = i
  BY <1>1, <1>2, GotoFacts DEF WithJob, Sid
<1>5. MessageInv(i) BY DEF ConnectorInv
<1>6. AnswerInv(i)' BY <1>2, <1>3, <1>5 DEF MessageInv, AnswerInv
<1>7. WorkInv(i)' BY <1>2, <1>3, <1>5 DEF MessageInv, WorkInv
<1>8. TellInv(i)' BY <1>2, <1>3, <1>5 DEF MessageInv, TellInv, Follows
<1>9. MessageInv(i)' BY <1>6, <1>7, <1>8 DEF MessageInv
<1>10. PlaceInv' BY <1>2, <1>3, <1>4 DEF PlaceInv, Job, Sid
<1>11. \A s \in Messages : s # i => broker'[s] = broker[s] /\ zulip'[s] = zulip[s] /\ ghost'[s] = ghost[s]
  BY <1>2
<1> QED BY <1>1, <1>3, <1>4, <1>9, <1>10, <1>11, WorkerStep DEF WithJob

LEMMA Examine_Inv == ASSUME ConnectorInv, Examine PROVE ConnectorInv'
PROOF
<1>0. worker.at = "status" /\ UNCHANGED <<broker, zulip, ghost, attempts, pilot, running, cursor>>
  BY DEF Examine, Rest
<1>1. /\ broker' \in [Messages -> MissionRows] /\ zulip' \in [Messages -> Channel]
      /\ worker \in Places /\ Sid \in Messages /\ worker.at \in WithJob
  BY <1>0, TableTypes DEF WithJob
<1>2. TellInv(Sid) BY <1>1 DEF ConnectorInv, MessageInv
<1>3. CASE Job.follow = "ready" /\ UNCHANGED jobs /\ Goto("announce")
  <2>1. worker' \in Places /\ worker'.at = "announce" /\ worker'.sid = Sid
    BY <1>1, <1>3, GotoFacts DEF WithJob, Sid
  <2>2. PlaceInv' BY <1>3, <2>1 DEF PlaceInv, Job, Sid
  <2> QED BY <1>0, <1>1, <1>3, <2>1, <2>2, MoveStep
<1>4. CASE Job.follow = "waiting" /\ UNCHANGED jobs /\ Goto("follow")
  <2>1. worker' \in Places /\ worker'.at = "follow" /\ worker'.sid = Sid
    BY <1>1, <1>4, GotoFacts DEF Sid
  <2>2. PlaceInv' BY <2>1 DEF PlaceInv
  <2> QED BY <1>0, <1>1, <1>4, <2>1, <2>2, MoveStep
<1>5. CASE Job.follow = "waiting" /\ Follow("executing") /\ Goto("execute")
  <2>1. zulip'[Sid].told = <<>> BY <1>0, <1>2, <1>5 DEF TellInv, Job
  <2> QED BY <1>0, <1>1, <1>5, <2>1, FollowStep DEF Follows
<1>6. CASE /\ Job.follow = "waiting" /\ broker[Sid].action \in Terminal
           /\ Follow("ready") /\ Goto("announce")
  <2>1. zulip'[Sid].told = <<>> BY <1>0, <1>2, <1>6 DEF TellInv, Job
  <2> QED BY <1>0, <1>1, <1>6, <2>1, FollowStep DEF Follows
<1> QED BY <1>3, <1>4, <1>5, <1>6 DEF Examine

LEMMA Execute_Inv == ASSUME ConnectorInv, Execute PROVE ConnectorInv'
PROOF
<1>0. worker.at = "execute" /\ UNCHANGED <<zulip, ghost, attempts, pilot, running, cursor>>
  BY DEF Execute, Rest
<1>1. /\ broker \in [Messages -> MissionRows] /\ zulip' \in [Messages -> Channel]
      /\ worker \in Places /\ Sid \in Messages /\ worker.at \in WithJob
  BY <1>0, TableTypes DEF WithJob
<1>2. TellInv(Sid) /\ Job.follow = "executing" BY <1>0, <1>1 DEF ConnectorInv, MessageInv, PlaceInv
<1>3. zulip'[Sid].told = <<>> BY <1>0, <1>2 DEF TellInv, Job
<1>4. CASE Follow("needs_review") /\ Goto("follow") /\ UNCHANGED broker
  BY <1>0, <1>1, <1>3, <1>4, FollowStep DEF Follows
<1>5. CASE /\ \E r \in {"succeeded", "failed"} : broker' = [broker EXCEPT ![Sid].action = r]
           /\ Follow("ready") /\ Goto("announce")
  <2>1. PICK r \in {"succeeded", "failed"} : broker' = [broker EXCEPT ![Sid].action = r] BY <1>5
  <2>2. PICK old \in MissionRows : old = broker[Sid] BY <1>1
  <2>3. PICK b : b = [old EXCEPT !.action = r] OBVIOUS
  <2>4. b \in MissionRows /\ b.dispatch = old.dispatch /\ b.action = r
    BY <2>2, <2>3 DEF MissionRows, Outcomes, Terminal
  <2>5. broker' = [broker EXCEPT ![Sid] = b] BY <2>1, <2>2, <2>3
  <2>6. /\ broker' \in [Messages -> MissionRows] /\ broker'[Sid] = b
        /\ \A s \in Messages : s # Sid => broker'[s] = broker[s]
    BY <1>1, <2>4, <2>5, BrokerFacts
  <2>7. broker'[Sid].action \in Terminal BY <2>4, <2>6 DEF Terminal
  <2> QED BY <1>0, <1>1, <1>3, <1>5, <2>2, <2>4, <2>6, <2>7, FollowStep DEF Follows
<1> QED BY <1>4, <1>5 DEF Execute

LEMMA Announce_Inv == ASSUME ConnectorInv, Announce PROVE ConnectorInv'
PROOF
<1>0. /\ worker.at = "announce" /\ Follow("sending") /\ Goto("tell")
      /\ UNCHANGED <<broker, zulip, ghost, attempts, pilot, running, cursor>>
  BY DEF Announce, Rest
<1>1. /\ broker' \in [Messages -> MissionRows] /\ zulip' \in [Messages -> Channel]
      /\ Sid \in Messages /\ worker.at \in WithJob
  BY <1>0, TableTypes DEF WithJob
<1>2. TellInv(Sid) /\ Job.follow = "ready" BY <1>0, <1>1 DEF ConnectorInv, MessageInv, PlaceInv
<1>3. zulip'[Sid].told = <<>> /\ broker'[Sid].action \in Terminal BY <1>0, <1>2 DEF TellInv, Job
<1> QED BY <1>0, <1>1, <1>3, FollowStep DEF Follows

\* The channel is told while the followup says sending and nothing was told.
LEMMA ToldFacts ==
  ASSUME ConnectorInv, worker.at = "tell", zulip' = Told
  PROVE  /\ zulip' \in [Messages -> Channel] /\ zulip'[Sid].answers = zulip[Sid].answers
         /\ zulip'[Sid].told = <<broker[Sid].action>> /\ broker[Sid].action \in Terminal
         /\ \A s \in Messages : s # Sid => zulip'[s] = zulip[s]
PROOF
<1>1. zulip \in [Messages -> Channel] /\ broker \in [Messages -> MissionRows] /\ Sid \in Messages
  BY TableTypes DEF WithJob
<1>2. PICK z \in Channel : z = zulip[Sid] BY <1>1
<1>3. z.told = <<>> /\ Job.follow = "sending" BY <1>2 DEF ConnectorInv, PlaceInv
<1>4. PICK a \in Outcomes : a = broker[Sid].action BY <1>1 DEF MissionRows
<1>5. a \in Terminal BY <1>1, <1>3, <1>4 DEF ConnectorInv, MessageInv, TellInv, Job
<1>6. PICK y : y = [z EXCEPT !.told = <<a>>] OBVIOUS
<1>7. <<a>> \in Seq(Outcomes) BY <1>4
<1>8. y \in Channel /\ y.answers = z.answers /\ y.told = <<a>> BY <1>2, <1>6, <1>7 DEF Channel
<1>9. Append(z.told, a) = <<a>> BY <1>3, <1>4
<1>10. zulip' = [zulip EXCEPT ![Sid] = [z EXCEPT !.told = Append(z.told, a)]]
  BY <1>2, <1>4 DEF Told
<1>11. zulip' = [zulip EXCEPT ![Sid] = y] BY <1>6, <1>9, <1>10
<1> QED BY <1>1, <1>2, <1>4, <1>5, <1>8, <1>11

LEMMA Tell_Inv == ASSUME ConnectorInv, Tell PROVE ConnectorInv'
PROOF
<1>0. /\ worker.at = "tell" /\ zulip' = Told /\ Follow("delivered") /\ Goto("follow")
      /\ UNCHANGED <<broker, ghost, attempts, pilot, running, cursor>>
  BY DEF Tell, Rest
<1>1. broker' \in [Messages -> MissionRows] /\ Sid \in Messages /\ worker.at \in WithJob
  BY <1>0, TableTypes DEF WithJob
<1>2. /\ zulip' \in [Messages -> Channel] /\ zulip'[Sid].answers = zulip[Sid].answers
      /\ zulip'[Sid].told = <<broker[Sid].action>> /\ broker[Sid].action \in Terminal
      /\ \A s \in Messages : s # Sid => zulip'[s] = zulip[s]
  BY <1>0, ToldFacts
<1> QED BY <1>0, <1>1, <1>2, FollowStep DEF Follows

LEMMA FollowupFails_Inv == ASSUME ConnectorInv, FollowupFails PROVE ConnectorInv'
PROOF
<1>0. /\ worker.at \in {"status", "execute", "tell"} /\ Follow("needs_review") /\ Goto("follow")
      /\ UNCHANGED <<broker, ghost, attempts, pilot, running, cursor>>
      /\ zulip' = zulip \/ (worker.at = "tell" /\ zulip' = Told)
  BY DEF FollowupFails, Rest
<1>1. /\ broker' \in [Messages -> MissionRows] /\ Sid \in Messages /\ worker.at \in WithJob
      /\ zulip \in [Messages -> Channel]
  BY <1>0, TableTypes DEF WithJob
<1>2. TellInv(Sid) BY <1>1 DEF ConnectorInv, MessageInv
<1>3. CASE zulip' = zulip
  <2>1. zulip'[Sid].told # <<>> =>
          broker'[Sid].action \in Terminal /\ zulip'[Sid].told = <<broker'[Sid].action>>
    BY <1>0, <1>2, <1>3 DEF TellInv
  <2> QED BY <1>0, <1>1, <1>3, <2>1, FollowStep DEF Follows
<1>4. CASE worker.at = "tell" /\ zulip' = Told
  <2>1. /\ zulip' \in [Messages -> Channel] /\ zulip'[Sid].answers = zulip[Sid].answers
        /\ zulip'[Sid].told = <<broker[Sid].action>> /\ broker[Sid].action \in Terminal
        /\ \A s \in Messages : s # Sid => zulip'[s] = zulip[s]
    BY <1>4, ToldFacts
  <2> QED BY <1>0, <1>1, <2>1, FollowStep DEF Follows
<1> QED BY <1>0, <1>3, <1>4

-----------------------------------------------------------------------------
(* A restart of the worker, the pilot and the CLI, and people              *)

LEMMA RecoveredFacts ==
  ASSUME NEW j \in JobRows
  PROVE  /\ Recovered(j) \in JobRows /\ Recovered(j).backend = j.backend
         /\ Recovered(j).phase = IF j.phase = "generating" THEN "needs_review" ELSE j.phase
         /\ Recovered(j).follow = IF j.follow \in {"executing", "sending"} THEN "needs_review" ELSE j.follow
         /\ j # NoJob => Recovered(j) # NoJob
PROOF
<1>1. PICK p : p = IF j.phase = "generating" THEN "needs_review" ELSE j.phase OBVIOUS
<1>2. PICK f : f = IF j.follow \in {"executing", "sending"} THEN "needs_review" ELSE j.follow OBVIOUS
<1>3. p \in JobPhases /\ f \in Follows BY <1>1, <1>2 DEF JobRows, JobPhases, Follows
<1>4. PICK k : k = [j EXCEPT !.phase = p, !.follow = f] OBVIOUS
<1>5. k = Recovered(j) BY <1>1, <1>2, <1>4 DEF Recovered
<1>6. k \in JobRows BY <1>3, <1>4 DEF JobRows
<1>7. k.backend = j.backend /\ k.phase = p /\ k.follow = f BY <1>3, <1>4 DEF JobRows
<1>8. j # NoJob => k # NoJob
  <2>1. CASE p = j.phase /\ f = j.follow
    <3>1. k = j BY <1>4, <2>1 DEF JobRows
    <3> QED BY <3>1
  <2>2. CASE p = "needs_review" \/ f = "needs_review" BY <1>7, <2>2 DEF NoJob
  <2> QED BY <1>1, <1>2, <2>1, <2>2
<1> QED BY <1>1, <1>2, <1>5, <1>6, <1>7, <1>8

LEMMA WorkerKilled_Inv == ASSUME ConnectorInv, WorkerKilled PROVE ConnectorInv'
PROOF
<1>0. /\ jobs' = [s \in Messages |-> Recovered(jobs[s])] /\ worker' = Resting
      /\ UNCHANGED <<broker, ghost, attempts, pilot, running, cursor>>
      /\ \/ zulip' = zulip
         \/ worker.at = "send" /\ zulip' = Posted
         \/ worker.at = "tell" /\ zulip' = Told
  BY DEF WorkerKilled, Rest
<1>1. /\ jobs \in [Messages -> JobRows] /\ zulip \in [Messages -> Channel]
      /\ (worker.at \in WithJob => Sid \in Messages)
  BY TableTypes
<1>2. worker' \in Places /\ worker'.at = "intake" /\ PlaceInv' BY <1>0, RestingFacts
<1>3. ASSUME NEW s \in Messages
      PROVE  /\ jobs'[s] \in JobRows /\ jobs'[s].backend = jobs[s].backend
             /\ jobs'[s].phase = IF jobs[s].phase = "generating" THEN "needs_review" ELSE jobs[s].phase
             /\ jobs'[s].follow = IF jobs[s].follow \in {"executing", "sending"} THEN "needs_review"
                                  ELSE jobs[s].follow
             /\ jobs[s] # NoJob => jobs'[s] # NoJob
  <2>1. jobs[s] \in JobRows /\ jobs'[s] = Recovered(jobs[s]) BY <1>0, <1>1
  <2> QED BY <2>1, RecoveredFacts
<1>4. jobs' \in [Messages -> JobRows] BY <1>0, <1>3
<1>5. zulip' \in [Messages -> Channel]
  <2>1. CASE zulip' = zulip BY <1>1, <2>1
  <2>2. CASE worker.at = "send" /\ zulip' = Posted BY <2>2, PostedFacts
  <2>3. CASE worker.at = "tell" /\ zulip' = Told BY <2>3, ToldFacts
  <2> QED BY <1>0, <2>1, <2>2, <2>3
<1>6. ConnectorTypeOK' BY <1>0, <1>2, <1>4, <1>5 DEF ConnectorInv, ConnectorTypeOK, WithJob
<1>7. IntakeInv' BY <1>0, <1>2, <1>3 DEF ConnectorInv, IntakeInv, NothingLost, NoJob
<1>8. ASSUME NEW s \in Messages PROVE MessageInv(s)'
  <2>1. MessageInv(s) BY DEF ConnectorInv
  <2>2. WorkInv(s)' BY <1>0, <1>3, <2>1 DEF MessageInv, WorkInv
  <2>3. CASE zulip'[s] = zulip[s]
    <3>1. AnswerInv(s)' BY <1>3, <2>1, <2>3 DEF MessageInv, AnswerInv
    <3>2. TellInv(s)' BY <1>0, <1>3, <2>1, <2>3 DEF MessageInv, TellInv
    <3> QED BY <2>2, <3>1, <3>2 DEF MessageInv
  <2>4. CASE worker.at = "send" /\ zulip' = Posted /\ s = Sid
    <3>1. zulip'[s].answers = 1 /\ zulip'[s].told = zulip[s].told BY <2>4, PostedFacts
    <3>2. jobs[s].phase = "sending" BY <2>4 DEF ConnectorInv, PlaceInv, Job
    <3>3. AnswerInv(s)' BY <1>3, <3>1, <3>2 DEF AnswerInv
    <3>4. TellInv(s)' BY <1>0, <1>3, <2>1, <3>1 DEF MessageInv, TellInv
    <3> QED BY <2>2, <3>3, <3>4 DEF MessageInv
  <2>5. CASE worker.at = "tell" /\ zulip' = Told /\ s = Sid
    <3>1. /\ zulip'[s].answers = zulip[s].answers
          /\ zulip'[s].told = <<broker[s].action>> /\ broker[s].action \in Terminal
      BY <2>5, ToldFacts
    <3>2. jobs[s].follow = "sending" BY <2>5 DEF ConnectorInv, PlaceInv, Job
    <3>3. AnswerInv(s)' BY <1>3, <2>1, <3>1 DEF MessageInv, AnswerInv
    <3>4. TellInv(s)' BY <1>0, <1>3, <3>1, <3>2 DEF TellInv
    <3> QED BY <2>2, <3>3, <3>4 DEF MessageInv
  <2>6. zulip'[s] = zulip[s] \/ (worker.at = "send" /\ zulip' = Posted /\ s = Sid)
        \/ (worker.at = "tell" /\ zulip' = Told /\ s = Sid)
    BY <1>0, PostedFacts, ToldFacts
  <2> QED BY <2>3, <2>4, <2>5, <2>6
<1> QED BY <1>2, <1>6, <1>7, <1>8 DEF ConnectorInv

LEMMA PilotTakes_Inv == ASSUME ConnectorInv, NEW s \in Messages, PilotTakes(s) PROVE ConnectorInv'
PROOF
<1>0. /\ broker[s].dispatch = {"codex"} /\ attempts[s].status = "none"
      /\ attempts' = [attempts EXCEPT ![s].status = "running"]
      /\ pilot' = s /\ running' = running \union {s}
      /\ ghost' = [ghost EXCEPT ![s].tried = @ + 1]
      /\ UNCHANGED <<jobs, cursor, worker, zulip, broker>>
  BY DEF PilotTakes, Worker, SourceFor, Attempted
<1>1. /\ attempts \in [Messages -> AttemptRows] /\ running \subseteq Messages
      /\ ghost \in [Messages -> [paid : Nat, tried : Nat]]
  BY DEF ConnectorInv, ConnectorTypeOK
<1>2. PICK a \in AttemptRows : a = attempts[s] BY <1>1
<1>3. PICK c : c = [a EXCEPT !.status = "running"] OBVIOUS
<1>4. c \in AttemptRows /\ c.status = "running" BY <1>2, <1>3 DEF AttemptRows
<1>5. attempts' = [attempts EXCEPT ![s] = c] BY <1>0, <1>2, <1>3
<1>6. /\ attempts' \in [Messages -> AttemptRows] /\ attempts'[s] = c
      /\ \A t \in Messages : t # s => attempts'[t] = attempts[t]
  BY <1>1, <1>4, <1>5
<1>7. PICK g \in [paid : Nat, tried : Nat] : g = ghost[s] BY <1>1
<1>8. MessageInv(s) BY DEF ConnectorInv
<1>9. g.paid \in Nat /\ g.tried \in Nat /\ ~(g.tried > 0) /\ ~(g.paid > 0)
  BY <1>0, <1>7, <1>8 DEF MessageInv, WorkInv
<1>10. g.paid = 0 /\ g.tried = 0 BY <1>9
<1>11. PICK h : h = [g EXCEPT !.tried = 1] OBVIOUS
<1>12. h \in [paid : Nat, tried : Nat] /\ h.paid = 0 /\ h.tried = 1 BY <1>7, <1>10, <1>11
<1>13. ghost' = [ghost EXCEPT ![s] = h] BY <1>0, <1>7, <1>10, <1>11
<1>14. /\ ghost' \in [Messages -> [paid : Nat, tried : Nat]] /\ ghost'[s] = h
       /\ \A t \in Messages : t # s => ghost'[t] = ghost[t]
  BY <1>1, <1>12, <1>13
<1>15. ConnectorTypeOK' BY <1>0, <1>1, <1>6, <1>14 DEF ConnectorInv, ConnectorTypeOK
<1>16. PlaceInv' BY <1>0 DEF ConnectorInv, PlaceInv, Job, Sid
<1>17. IntakeInv' BY <1>0 DEF ConnectorInv, IntakeInv, NothingLost, NoJob
<1>18. ASSUME NEW t \in Messages PROVE MessageInv(t)'
  <2>1. MessageInv(t) BY DEF ConnectorInv
  <2>2. CASE t # s BY <1>0, <1>6, <1>14, <2>1, <2>2, MessageStays
  <2>3. CASE t = s
    <3>1. AnswerInv(s)' BY <1>0, <1>8 DEF MessageInv, AnswerInv
    <3>2. TellInv(s)' BY <1>0, <1>8 DEF MessageInv, TellInv
    <3>3. WorkInv(s)' BY <1>0, <1>4, <1>6, <1>8, <1>12, <1>14 DEF MessageInv, WorkInv
    <3> QED BY <2>3, <3>1, <3>2, <3>3 DEF MessageInv
  <2> QED BY <2>2, <2>3
<1> QED BY <1>15, <1>16, <1>17, <1>18 DEF ConnectorInv

LEMMA CliActs_Inv == ASSUME ConnectorInv, NEW s \in Messages, CliActs(s) PROVE ConnectorInv'
PROOF
<1>0. UNCHANGED <<jobs, worker, zulip, ghost, attempts, pilot, running, cursor>> BY DEF CliActs, Worker
<1>1. /\ broker \in [Messages -> MissionRows] /\ attempts' \in [Messages -> AttemptRows]
      /\ pilot' \in Messages \union {0} /\ running' \subseteq Messages
  BY <1>0 DEF ConnectorInv, ConnectorTypeOK
<1>2. PICK old \in MissionRows : old = broker[s] BY <1>1
<1>3. CASE broker' = [broker EXCEPT ![s].handoffs = @ + 1]
  <2>1. PICK b : b = [old EXCEPT !.handoffs = old.handoffs + 1] OBVIOUS
  <2>2. b \in MissionRows /\ b.dispatch = old.dispatch /\ b.action = old.action
    BY <1>2, <2>1 DEF MissionRows
  <2>3. broker' = [broker EXCEPT ![s] = b] BY <1>2, <1>3, <2>1
  <2> QED BY <1>0, <1>1, <1>2, <2>2, <2>3, ActionStep
<1>4. CASE /\ broker[s].action = "none"
           /\ broker' = [broker EXCEPT ![s].action = "pending_approval", ![s].by = "codex"]
  <2>1. PICK b : b = [old EXCEPT !.action = "pending_approval", !.by = "codex"] OBVIOUS
  <2>2. b \in MissionRows /\ b.dispatch = old.dispatch BY <1>2, <2>1 DEF MissionRows, Outcomes
  <2>3. broker' = [broker EXCEPT ![s] = b] BY <1>2, <1>4, <2>1
  <2>4. broker[s].action \notin Terminal BY <1>4 DEF Terminal
  <2> QED BY <1>0, <1>1, <1>2, <2>2, <2>3, <2>4, ActionStep
<1> QED BY <1>3, <1>4 DEF CliActs

\* The action of a mission moves on from where it was not over.
LEMMA Decided ==
  ASSUME ConnectorInv, NEW s \in Messages, NEW r \in Outcomes,
         broker' = [broker EXCEPT ![s].action = r], broker[s].action \notin Terminal,
         attempts' \in [Messages -> AttemptRows],
         \A t \in Messages : attempts[t].status # "none" => attempts'[t].status # "none",
         UNCHANGED <<jobs, worker, zulip, ghost, cursor, pilot, running>>
  PROVE  ConnectorInv'
PROOF
<1>1. /\ broker \in [Messages -> MissionRows]
      /\ pilot' \in Messages \union {0} /\ running' \subseteq Messages
  BY DEF ConnectorInv, ConnectorTypeOK
<1>2. PICK old \in MissionRows : old = broker[s] BY <1>1
<1>3. PICK b : b = [old EXCEPT !.action = r] OBVIOUS
<1>4. b \in MissionRows /\ b.dispatch = old.dispatch BY <1>2, <1>3 DEF MissionRows
<1>5. broker' = [broker EXCEPT ![s] = b] BY <1>2, <1>3
<1> QED BY <1>1, <1>2, <1>4, <1>5, ActionStep

LEMMA Decide_Inv == ASSUME ConnectorInv, NEW s \in Messages, Decide(s) PROVE ConnectorInv'
PROOF
<1>0. UNCHANGED <<jobs, worker, zulip, ghost, attempts, pilot, running, cursor>> BY DEF Decide, Worker
<1>1. attempts' \in [Messages -> AttemptRows] BY <1>0 DEF ConnectorInv, ConnectorTypeOK
<1>2. PICK r \in {"approved", "rejected", "approval_expired"} : broker' = [broker EXCEPT ![s].action = r]
  BY DEF Decide
<1>3. broker[s].action \notin Terminal /\ r \in Outcomes
  BY <1>2 DEF Decide, Terminal, Outcomes
<1> QED BY <1>0, <1>1, <1>2, <1>3, Decided

\* What the pilot writes of an attempt is never that there was none.
LEMMA AttemptFacts ==
  ASSUME ConnectorInv, NEW s \in Messages, NEW c \in AttemptRows, attempts' = [attempts EXCEPT ![s] = c],
         attempts[s].status # "none" => c.status # "none"
  PROVE  /\ attempts' \in [Messages -> AttemptRows]
         /\ \A t \in Messages : attempts[t].status # "none" => attempts'[t].status # "none"
PROOF
<1>1. attempts \in [Messages -> AttemptRows] BY DEF ConnectorInv, ConnectorTypeOK
<1>2. attempts'[s] = c /\ \A t \in Messages : t # s => attempts'[t] = attempts[t] BY <1>1
<1> QED BY <1>1, <1>2

LEMMA PilotExecutes_Inv == ASSUME ConnectorInv, NEW s \in Messages, PilotExecutes(s) PROVE ConnectorInv'
PROOF
<1>0. /\ UNCHANGED <<jobs, worker, zulip, ghost, pilot, running, cursor>>
      /\ broker[s].action = "approved"
  BY DEF PilotExecutes, Worker
<1>1. PICK v \in {"completed", "needs_review"} : attempts' = [attempts EXCEPT ![s].approval = v]
  BY DEF PilotExecutes
<1>2. PICK a \in AttemptRows : a = attempts[s] BY DEF ConnectorInv, ConnectorTypeOK
<1>3. PICK c : c = [a EXCEPT !.approval = v] OBVIOUS
<1>4. c \in AttemptRows /\ c.status = a.status BY <1>2, <1>3 DEF AttemptRows
<1>5. attempts' = [attempts EXCEPT ![s] = c] BY <1>1, <1>2, <1>3
<1>6. /\ attempts' \in [Messages -> AttemptRows]
      /\ \A t \in Messages : attempts[t].status # "none" => attempts'[t].status # "none"
  BY <1>2, <1>4, <1>5, AttemptFacts
<1>7. CASE \E r \in {"succeeded", "failed"} : broker' = [broker EXCEPT ![s].action = r]
  <2>1. PICK r \in {"succeeded", "failed"} : broker' = [broker EXCEPT ![s].action = r] BY <1>7
  <2>2. r \in Outcomes /\ broker[s].action \notin Terminal BY <1>0 DEF Outcomes, Terminal
  <2> QED BY <1>0, <1>6, <2>1, <2>2, Decided
<1>8. CASE UNCHANGED broker
  <2>1. PICK b \in MissionRows : b = broker[s] BY TableTypes
  <2>2. broker' = [broker EXCEPT ![s] = b] BY <1>8, <2>1, TableTypes
  <2>3. pilot' \in Messages \union {0} /\ running' \subseteq Messages
    BY <1>0 DEF ConnectorInv, ConnectorTypeOK
  <2> QED BY <1>0, <1>6, <2>1, <2>2, <2>3, ActionStep
<1> QED BY <1>7, <1>8 DEF PilotExecutes

\* The attempt of the pilot ends, whichever way.
LEMMA AttemptEnds ==
  ASSUME ConnectorInv, pilot # 0, NEW v \in {"handed_off", "needs_review"},
         attempts' = [attempts EXCEPT ![pilot].status = v],
         pilot' = 0, running' \subseteq Messages, UNCHANGED <<jobs, worker, zulip, ghost, cursor, broker>>
  PROVE  ConnectorInv'
PROOF
<1>1. PICK s \in Messages : s = pilot BY DEF ConnectorInv, ConnectorTypeOK
<1>2. PICK a \in AttemptRows : a = attempts[s] BY DEF ConnectorInv, ConnectorTypeOK
<1>3. PICK c : c = [a EXCEPT !.status = v] OBVIOUS
<1>4. c \in AttemptRows /\ c.status = v BY <1>2, <1>3 DEF AttemptRows
<1>5. attempts' = [attempts EXCEPT ![s] = c] BY <1>1, <1>2, <1>3
<1>6. /\ attempts' \in [Messages -> AttemptRows]
      /\ \A t \in Messages : attempts[t].status # "none" => attempts'[t].status # "none"
  BY <1>2, <1>4, <1>5, AttemptFacts
<1>7. PICK b \in MissionRows : b = broker[s] BY TableTypes
<1>8. broker' = [broker EXCEPT ![s] = b] BY <1>7, TableTypes
<1> QED BY <1>6, <1>7, <1>8, ActionStep

LEMMA PilotEnds_Inv == ASSUME ConnectorInv, NEW exited, PilotEnds(exited) PROVE ConnectorInv'
PROOF
<1>1. /\ pilot # 0 /\ running' = running \ {pilot} /\ pilot' = 0
      /\ UNCHANGED <<jobs, worker, zulip, ghost, cursor, broker>>
  BY DEF PilotEnds, Worker
<1>2. PICK v : v = IF exited /\ broker[pilot].handoffs = 1 THEN "handed_off" ELSE "needs_review" OBVIOUS
<1>3. v \in {"handed_off", "needs_review"} BY <1>2
<1>4. attempts' = [attempts EXCEPT ![pilot].status = v] BY <1>2 DEF PilotEnds
<1>5. running' \subseteq Messages BY <1>1 DEF ConnectorInv, ConnectorTypeOK
<1> QED BY <1>1, <1>3, <1>4, <1>5, AttemptEnds

LEMMA PilotKilled_Inv == ASSUME ConnectorInv, PilotKilled PROVE ConnectorInv'
PROOF
<1>1. /\ pilot # 0 /\ pilot' = 0 /\ running' \in {running, running \ {pilot}}
      /\ attempts' = [attempts EXCEPT ![pilot].status = "needs_review"]
      /\ UNCHANGED <<jobs, worker, zulip, ghost, cursor, broker>>
  BY DEF PilotKilled, Worker
<1>2. running' \subseteq Messages BY <1>1 DEF ConnectorInv, ConnectorTypeOK
<1> QED BY <1>1, <1>2, AttemptEnds

\* The mode, the account and the bounds are not what the invariant is about.
LEMMA ConnectorStutter ==
  ASSUME ConnectorInv, UNCHANGED <<jobs, cursor, worker, broker, attempts, pilot, running, zulip, ghost>>
  PROVE  ConnectorInv'
PROOF
<1>1. ConnectorTypeOK' BY DEF ConnectorInv, ConnectorTypeOK
<1>2. PlaceInv' BY DEF ConnectorInv, PlaceInv, Job, Sid
<1>3. IntakeInv' BY DEF ConnectorInv, IntakeInv, NothingLost, NoJob
<1>4. ASSUME NEW s \in Messages PROVE MessageInv(s)'
  <2>1. MessageInv(s) BY DEF ConnectorInv
  <2> QED BY <2>1, MessageStays
<1> QED BY <1>1, <1>2, <1>3, <1>4 DEF ConnectorInv

LEMMA ConnectorNext_Inv == ConnectorInv /\ [NativeNext]_nativeVars => ConnectorInv'
PROOF
<1> SUFFICES ASSUME ConnectorInv, [NativeNext]_nativeVars PROVE ConnectorInv' OBVIOUS
<1>1. CASE WorkerNext
  <2>1. CASE Intake \/ Advance \/ ListPending \/ TakeJob \/ Prepare \/ AcceptHandoff \/ Generate
    BY <2>1, Intake_Inv, Advance_Inv, ListPending_Inv, TakeJob_Inv, Prepare_Inv, AcceptHandoff_Inv,
       Generate_Inv
  <2>2. CASE \E status \in {"done", "needs_human", "failed"} : Generated(status) BY <2>2, Generated_Inv
  <2>3. CASE Deliver \/ Send \/ Sent BY <2>3, Deliver_Inv, Send_Inv, Sent_Inv
  <2>4. CASE ListFollowups \/ TakeFollowup \/ Examine \/ Execute \/ Announce \/ Tell
    BY <2>4, ListFollowups_Inv, TakeFollowup_Inv, Examine_Inv, Execute_Inv, Announce_Inv, Tell_Inv
  <2> QED BY <1>1, <2>1, <2>2, <2>3, <2>4 DEF WorkerNext
<1>2. CASE HermesActs \/ CallFails \/ FollowupFails \/ WorkerKilled \/ PilotKilled
  BY <1>2, HermesActs_Inv, CallFails_Inv, FollowupFails_Inv, WorkerKilled_Inv, PilotKilled_Inv
<1>3. CASE Switch BY <1>3, ConnectorStutter DEF Switch
<1>4. CASE \E s \in Messages : PilotTakes(s) \/ CliActs(s) \/ PilotExecutes(s) \/ Decide(s)
  BY <1>4, PilotTakes_Inv, CliActs_Inv, PilotExecutes_Inv, Decide_Inv
<1>5. CASE \E exited \in BOOLEAN : PilotEnds(exited) BY <1>5, PilotEnds_Inv
<1>6. CASE UNCHANGED nativeVars BY <1>6, ConnectorStutter DEF nativeVars
<1> QED BY <1>1, <1>2, <1>3, <1>4, <1>5, <1>6 DEF NativeNext

\* Whatever fails and whoever is killed, and however the mode and the account
\* change: a message the cursor has passed has a job, it costs at most one paid
\* generation or one attempt of the CLI and never both, it is answered at most
\* once, and the outcome of its action is told at most once and is the truth
\* (cli.py, cli_pilot.py).
THEOREM JobsAreDoneOnce == NativeSpec => []JobsHold
PROOF
<1>1. NativeInit => ConnectorInv BY ConnectorInit_Inv
<1>2. ConnectorInv /\ [NativeNext]_nativeVars => ConnectorInv' BY ConnectorNext_Inv
<1>3. ConnectorInv => JobsHold BY ConnectorInvHolds
<1> QED BY <1>1, <1>2, <1>3, PTL DEF NativeSpec

-----------------------------------------------------------------------------
(* THE WORKFLOWS                                                           *)

Phases == {"pending", "requesting", "succeeded", "needs_review"}
Working == {"request", "await", "outcome"}

\* Types of the tables and of the process, which works on a step of the list.
FlowTypeOK ==
  /\ installed \in Nat \ {0} /\ recorded \in Nat
  /\ steps \in [All -> [phase : Phases, known : BOOLEAN]]
  /\ actions \in [All -> {"none", "running", "succeeded", "failed"}]
  /\ created \in [All -> [times : Nat, by : SUBSET Nat]]
  /\ flow \in [at : {"stopped", "next"} \union Working, n : Nat]
  /\ flow.at = "stopped" => flow = Stopped
  /\ flow.at # "stopped" => flow.n >= 1
  /\ flow.at \in Working => flow.n <= Len(Steps)

\* A process that runs has the definition that is recorded, and nothing was
\* created before one was recorded.
DefinitionInv ==
  /\ flow.at # "stopped" => recorded = installed
  /\ recorded = 0 => \A s \in All : created[s].by = {}
  /\ OneDefinition

\* The broker has an action for a step exactly if the step created one.
ActionInv ==
  \A s \in All : /\ created[s].times <= 1
                 /\ created[s].times = 0 <=> actions[s] = "none"

\* A step is recorded as succeeded only if its action is.
PhaseInv == \A s \in All : steps[s].phase = "succeeded" => actions[s] = "succeeded"

\* A step about to be requested waits for nothing.
OrderInv == StepsInOrder /\ (flow.at = "request" => MayRun(Current))

FlowInv ==
  FlowTypeOK /\ DefinitionInv /\ ActionInv /\ PhaseInv /\ OrderInv /\ ReportIsTrue

-----------------------------------------------------------------------------

\* The process that works on a step has one of the list.
LEMMA CurrentStep ==
  ASSUME FlowTypeOK, flow.n >= 1, flow.n <= Len(Steps)
  PROVE  Current \in All /\ After[Current] \subseteq All
PROOF
<1>1. Len(Steps) \in Nat /\ DOMAIN Steps = 1..Len(Steps) BY FlowAssumption
<1>2. flow.n \in DOMAIN Steps BY <1>1 DEF FlowTypeOK
<1>3. Current \in All BY <1>2 DEF Current, All
<1> QED BY <1>3, FlowAssumption

LEMMA FlowInit_Inv == FlowInit => FlowInv
PROOF
<1> SUFFICES ASSUME FlowInit PROVE FlowInv OBVIOUS
<1>1. flow.at = "stopped" /\ flow = Stopped BY DEF FlowInit, Stopped
<1>2. FlowTypeOK BY <1>1 DEF FlowInit, FlowTypeOK, Stopped, Phases, Working
<1>3. DefinitionInv BY <1>1 DEF FlowInit, DefinitionInv, OneDefinition
<1>4. ActionInv /\ PhaseInv BY DEF FlowInit, ActionInv, PhaseInv
<1>5. OrderInv /\ ReportIsTrue BY <1>1 DEF FlowInit, OrderInv, StepsInOrder, ReportIsTrue
<1> QED BY <1>2, <1>3, <1>4, <1>5 DEF FlowInv

LEMMA StartFlowStep == ASSUME FlowInv, StartFlow PROVE FlowInv'
PROOF
<1> USE DEF FlowInv
<1>1. /\ flow'.at = "next" /\ flow'.n = 1 /\ flow'.at # "stopped" /\ flow'.at \notin Working
      /\ flow' \in [at : {"stopped", "next"} \union Working, n : Nat]
  BY DEF StartFlow, Working
<1>2. /\ UNCHANGED <<installed, steps, actions, created, report>>
      /\ recorded \in {0, installed} /\ recorded' = installed
  BY DEF StartFlow, MayResume
<1>3. FlowTypeOK' BY <1>1, <1>2 DEF FlowTypeOK
<1>4. DefinitionInv'
  <2>1. \A s \in All : created'[s].by \subseteq {recorded'}
    BY <1>2 DEF DefinitionInv, OneDefinition
  <2>2. recorded' # 0 BY <1>2 DEF FlowTypeOK
  <2> QED BY <1>2, <2>1, <2>2 DEF DefinitionInv, OneDefinition
<1>5. ActionInv' /\ PhaseInv' BY <1>2 DEF ActionInv, PhaseInv
<1>6. OrderInv' /\ ReportIsTrue' BY <1>1, <1>2 DEF OrderInv, StepsInOrder, ReportIsTrue
<1> QED BY <1>3, <1>4, <1>5, <1>6

LEMMA TakeStepStep == ASSUME FlowInv, TakeStep PROVE FlowInv'
PROOF
<1> USE DEF FlowInv
<1>1. /\ UNCHANGED <<installed, recorded, actions, created, report>>
      /\ flow.at = "next" /\ flow.n <= Len(Steps) /\ flow.n \in Nat /\ flow.n >= 1
  BY DEF TakeStep, FlowTypeOK
<1>2. Current \in All /\ After[Current] \subseteq All BY <1>1, CurrentStep
<1>3. OneDefinition' /\ ActionInv' /\ ReportIsTrue' /\ StepsInOrder'
  BY <1>1 DEF DefinitionInv, OneDefinition, ActionInv, ReportIsTrue, OrderInv, StepsInOrder
<1>4. CASE flow' = [flow EXCEPT !.n = @ + 1] /\ UNCHANGED steps
  <2>1. /\ flow'.at = "next" /\ flow'.n = flow.n + 1
        /\ flow' \in [at : {"stopped", "next"} \union Working, n : Nat]
    BY <1>1, <1>4 DEF FlowTypeOK
  <2>2. FlowTypeOK' BY <1>1, <1>4, <2>1 DEF FlowTypeOK, Working
  <2>3. DefinitionInv' BY <1>1, <1>3, <2>1 DEF DefinitionInv
  <2>4. PhaseInv' BY <1>1, <1>4 DEF PhaseInv
  <2>5. OrderInv' BY <1>3, <2>1 DEF OrderInv
  <2> QED BY <1>3, <2>2, <2>3, <2>4, <2>5
<1>5. CASE /\ MayRun(Current) /\ steps[Current].phase # "succeeded"
           /\ flow' = [flow EXCEPT !.at = "request"]
           /\ steps' = [steps EXCEPT ![Current].phase = "requesting"]
  <2>1. /\ flow'.at = "request" /\ flow'.n = flow.n
        /\ flow' \in [at : {"stopped", "next"} \union Working, n : Nat]
    BY <1>1, <1>5 DEF FlowTypeOK, Working
  <2>2. steps \in [All -> [phase : Phases, known : BOOLEAN]] BY DEF FlowTypeOK
  <2>3. /\ steps' \in [All -> [phase : Phases, known : BOOLEAN]]
        /\ steps'[Current].phase = "requesting"
        /\ \A s \in All : s # Current => steps'[s] = steps[s]
    BY <1>2, <1>5, <2>2 DEF Phases
  <2>4. FlowTypeOK' BY <1>1, <2>1, <2>3 DEF FlowTypeOK
  <2>5. DefinitionInv' BY <1>1, <1>3, <2>1 DEF DefinitionInv
  <2>6. PhaseInv' BY <1>1, <2>3 DEF PhaseInv
  <2>7. Current' = Current BY <2>1 DEF Current
  <2>8. \A d \in After[Current] : steps'[d].phase = "succeeded"
    BY <1>2, <1>5, <2>3 DEF MayRun
  <2>9. OrderInv' BY <1>3, <2>7, <2>8 DEF OrderInv, MayRun
  <2> QED BY <1>3, <2>4, <2>5, <2>6, <2>9
<1> QED BY <1>4, <1>5 DEF TakeStep, Enter

LEMMA RequestStepStep == ASSUME FlowInv, RequestStep PROVE FlowInv'
PROOF
<1> USE DEF FlowInv
<1>1. /\ UNCHANGED <<installed, recorded, steps, report>>
      /\ flow.at = "request" /\ flow.n <= Len(Steps) /\ flow.n \in Nat /\ flow.n >= 1
  BY DEF RequestStep, FlowTypeOK, Working
<1>2. Current \in All /\ After[Current] \subseteq All BY <1>1, CurrentStep
<1>3. recorded = installed BY <1>1 DEF DefinitionInv
<1>4. CASE UNCHANGED <<actions, created>> /\ flow' = [flow EXCEPT !.at = "outcome"]
  <2>1. /\ flow'.at = "outcome" /\ flow'.n = flow.n
        /\ flow' \in [at : {"stopped", "next"} \union Working, n : Nat]
    BY <1>1, <1>4 DEF FlowTypeOK, Working
  <2>2. FlowTypeOK' BY <1>1, <1>4, <2>1 DEF FlowTypeOK
  <2>3. DefinitionInv' BY <1>1, <1>3, <1>4 DEF DefinitionInv, OneDefinition
  <2>4. ActionInv' /\ PhaseInv' BY <1>1, <1>4 DEF ActionInv, PhaseInv
  <2>5. OrderInv' /\ ReportIsTrue' BY <1>1, <1>4, <2>1 DEF OrderInv, StepsInOrder, ReportIsTrue
  <2> QED BY <2>2, <2>3, <2>4, <2>5
<1>5. CASE /\ actions[Current] = "none"
           /\ actions' = [actions EXCEPT ![Current] = "running"]
           /\ flow' = [flow EXCEPT !.at = "await"]
           /\ created' = [created EXCEPT ![Current].times = @ + 1,
                                         ![Current].by = @ \union {installed}]
  <2>1. /\ flow'.at = "await" /\ flow'.n = flow.n
        /\ flow' \in [at : {"stopped", "next"} \union Working, n : Nat]
    BY <1>1, <1>5 DEF FlowTypeOK, Working
  <2>2. /\ actions' \in [All -> {"none", "running", "succeeded", "failed"}]
        /\ actions'[Current] = "running"
        /\ \A s \in All : s # Current => actions'[s] = actions[s]
    BY <1>2, <1>5 DEF FlowTypeOK
  <2>3. created[Current].times = 0 BY <1>2, <1>5 DEF ActionInv
  <2>4. /\ created[Current].by \subseteq {installed}
        /\ created \in [All -> [times : Nat, by : SUBSET Nat]] /\ installed \in Nat
    BY <1>2, <1>3 DEF DefinitionInv, OneDefinition, FlowTypeOK
  <2>5. /\ created'[Current].times = created[Current].times + 1
        /\ created'[Current].by = created[Current].by \union {installed}
        /\ \A s \in All : s # Current => created'[s] = created[s]
    BY <1>2, <1>5, <2>4
  <2>6. created' \in [All -> [times : Nat, by : SUBSET Nat]]
    <3> DEFINE row == [created[Current] EXCEPT !.times = @ + 1, !.by = @ \union {installed}]
    <3>1. created[Current] \in [times : Nat, by : SUBSET Nat] BY <1>2, <2>4
    <3>2. created[Current].times \in Nat /\ created[Current].by \in SUBSET Nat BY <3>1
    <3>3. row \in [times : Nat, by : SUBSET Nat]
      <4>0. created[Current].by \union {installed} \in SUBSET Nat BY <2>4, <3>2
      <4>1. PICK b \in SUBSET Nat : b = created[Current].by \union {installed} BY <4>0
      <4>3. PICK a \in Nat : a = created[Current].times + 1 BY <3>2
      <4>2. [created[Current] EXCEPT !.times = a, !.by = b] \in [times : Nat, by : SUBSET Nat]
        BY <3>1
      <4> QED BY <4>1, <4>2, <4>3
    <3>4. created' = [created EXCEPT ![Current] = row] BY <1>2, <1>5, <2>4, <3>1
    <3> HIDE DEF row
    <3> QED BY <1>2, <2>4, <3>3, <3>4
  <2>7. FlowTypeOK' BY <1>1, <2>1, <2>2, <2>6 DEF FlowTypeOK
  <2>8. DefinitionInv'
    <3>1. \A s \in All : created'[s].by \subseteq {installed}
      BY <1>3, <2>4, <2>5 DEF DefinitionInv, OneDefinition
    <3>2. recorded # 0 BY <1>3 DEF FlowTypeOK
    <3> QED BY <1>1, <1>3, <3>1, <3>2 DEF DefinitionInv, OneDefinition
  <2>9. ActionInv' BY <2>2, <2>3, <2>5 DEF ActionInv
  <2>10. ASSUME NEW s \in All, actions[s] = "succeeded" PROVE actions'[s] = "succeeded"
    BY <1>5, <2>2, <2>10
  <2>11. PhaseInv' BY <1>1, <2>10 DEF PhaseInv
  <2>12. \A d \in After[Current] : actions[d] = "succeeded"
    BY <1>1, <1>2 DEF OrderInv, MayRun, PhaseInv
  <2>13. StepsInOrder'
    <3>1. ASSUME NEW s \in All, created'[s].times > 0, NEW d \in After[s]
          PROVE  actions'[d] = "succeeded"
      <4>1. d \in All BY FlowAssumption
      <4>2. actions[d] = "succeeded"
        <5>1. CASE s = Current BY <2>12, <5>1
        <5>2. CASE s # Current BY <2>5, <3>1, <5>2 DEF OrderInv, StepsInOrder
        <5> QED BY <5>1, <5>2
      <4> QED BY <2>10, <4>1, <4>2
    <3> QED BY <3>1 DEF StepsInOrder
  <2>14. OrderInv' /\ ReportIsTrue' BY <1>1, <2>1, <2>10, <2>13 DEF OrderInv, ReportIsTrue
  <2> QED BY <2>7, <2>8, <2>9, <2>11, <2>14
<1> QED BY <1>4, <1>5 DEF RequestStep, Enter, IsReplied

LEMMA AwaitActionStep == ASSUME FlowInv, AwaitAction PROVE FlowInv'
PROOF
<1> USE DEF FlowInv
<1>1. /\ UNCHANGED <<installed, recorded, steps, actions, created, report>>
      /\ flow.at = "await" /\ flow' = [flow EXCEPT !.at = "outcome"]
  BY DEF AwaitAction, Enter
<1>2. /\ flow'.at = "outcome" /\ flow'.n = flow.n
      /\ flow' \in [at : {"stopped", "next"} \union Working, n : Nat]
  BY <1>1 DEF FlowTypeOK, Working
<1>3. FlowTypeOK' BY <1>1, <1>2 DEF FlowTypeOK, Working
<1>4. DefinitionInv' BY <1>1 DEF DefinitionInv, OneDefinition
<1>5. ActionInv' /\ PhaseInv' BY <1>1 DEF ActionInv, PhaseInv
<1>6. OrderInv' /\ ReportIsTrue' BY <1>1, <1>2 DEF OrderInv, StepsInOrder, ReportIsTrue
<1> QED BY <1>3, <1>4, <1>5, <1>6

LEMMA BrokerRunsStep == ASSUME FlowInv, NEW s \in All, BrokerRuns(s) PROVE FlowInv'
PROOF
<1> USE DEF FlowInv
<1>1. UNCHANGED <<installed, recorded, steps, flow, created, report>> /\ actions[s] = "running"
  BY DEF BrokerRuns
<1>2. PICK r \in {"succeeded", "failed"} : actions' = [actions EXCEPT ![s] = r]
  BY DEF BrokerRuns
<1>3. /\ actions' \in [All -> {"none", "running", "succeeded", "failed"}]
      /\ \A x \in All : actions'[x] = IF x = s THEN r ELSE actions[x]
  BY <1>2 DEF FlowTypeOK
<1>4. FlowTypeOK' BY <1>1, <1>3 DEF FlowTypeOK
<1>5. DefinitionInv' BY <1>1 DEF DefinitionInv, OneDefinition
<1>6. ActionInv' BY <1>1, <1>3 DEF ActionInv
<1>7. ASSUME NEW x \in All, actions[x] = "succeeded" PROVE actions'[x] = "succeeded"
  BY <1>1, <1>3, <1>7
<1>8. PhaseInv' BY <1>1, <1>7 DEF PhaseInv
<1>9. StepsInOrder' BY <1>1, <1>7, FlowAssumption DEF OrderInv, StepsInOrder
<1>10. OrderInv' BY <1>1, <1>9 DEF OrderInv, MayRun, Current
<1>11. ReportIsTrue' BY <1>1, <1>7 DEF ReportIsTrue
<1> QED BY <1>4, <1>5, <1>6, <1>8, <1>10, <1>11

LEMMA StoreOutcomeStep == ASSUME FlowInv, StoreOutcome PROVE FlowInv'
PROOF
<1> USE DEF FlowInv
<1>1. /\ UNCHANGED <<installed, recorded, actions, created, report>>
      /\ flow.at = "outcome" /\ flow.n <= Len(Steps) /\ flow.n \in Nat /\ flow.n >= 1
  BY DEF StoreOutcome, FlowTypeOK, Working
<1>2. Current \in All BY <1>1, CurrentStep
<1> DEFINE row == [phase |-> Outcome(actions[Current]), known |-> TRUE]
<1>3. /\ row \in [phase : Phases, known : BOOLEAN]
      /\ row.phase = "succeeded" => actions[Current] = "succeeded"
  BY DEF Outcome, Phases
<1>4. steps' = [steps EXCEPT ![Current] = row] BY DEF StoreOutcome
<1> HIDE DEF row
<1>5. /\ steps' \in [All -> [phase : Phases, known : BOOLEAN]]
      /\ \A s \in All : steps'[s] = IF s = Current THEN row ELSE steps[s]
  BY <1>2, <1>3, <1>4 DEF FlowTypeOK
<1>6. /\ flow'.at = "next" /\ flow'.n = flow.n + 1
      /\ flow' \in [at : {"stopped", "next"} \union Working, n : Nat]
  BY <1>1 DEF StoreOutcome
<1>7. FlowTypeOK' BY <1>1, <1>5, <1>6 DEF FlowTypeOK, Working
<1>8. DefinitionInv' BY <1>1 DEF DefinitionInv, OneDefinition
<1>9. ActionInv' BY <1>1 DEF ActionInv
<1>10. PhaseInv' BY <1>1, <1>3, <1>5 DEF PhaseInv
<1>11. OrderInv' /\ ReportIsTrue' BY <1>1, <1>6 DEF OrderInv, StepsInOrder, ReportIsTrue
<1> QED BY <1>7, <1>8, <1>9, <1>10, <1>11

LEMMA EndFlowStep == ASSUME FlowInv, EndFlow PROVE FlowInv'
PROOF
<1> USE DEF FlowInv
<1>1. /\ UNCHANGED <<installed, recorded, steps, actions, created>>
      /\ flow' = Stopped /\ flow'.at = "stopped"
      /\ flow' \in [at : {"stopped", "next"} \union Working, n : Nat]
      /\ report' = IF Complete THEN "succeeded" ELSE "needs_review"
  BY DEF EndFlow, Stopped
<1>2. FlowTypeOK' BY <1>1 DEF FlowTypeOK, Working
<1>3. DefinitionInv' BY <1>1 DEF DefinitionInv, OneDefinition
<1>4. ActionInv' /\ PhaseInv' BY <1>1 DEF ActionInv, PhaseInv
<1>5. OrderInv' BY <1>1 DEF OrderInv, StepsInOrder
<1>6. ReportIsTrue' BY <1>1 DEF ReportIsTrue, Complete, PhaseInv
<1> QED BY <1>2, <1>3, <1>4, <1>5, <1>6

\* The process stops, or the definition changes while none runs.
LEMMA StoppedStep == ASSUME FlowInv, Interrupt \/ Upgrade PROVE FlowInv'
PROOF
<1> USE DEF FlowInv
<1>1. /\ UNCHANGED <<recorded, steps, actions, created, report>>
      /\ flow' = Stopped /\ flow'.at = "stopped"
      /\ flow' \in [at : {"stopped", "next"} \union Working, n : Nat]
  BY DEF Interrupt, Upgrade, Stopped
<1>2. installed' \in Nat \ {0} BY DEF Interrupt, Upgrade, FlowTypeOK
<1>3. FlowTypeOK' BY <1>1, <1>2 DEF FlowTypeOK, Working
<1>4. DefinitionInv' BY <1>1 DEF DefinitionInv, OneDefinition
<1>5. ActionInv' /\ PhaseInv' BY <1>1 DEF ActionInv, PhaseInv
<1>6. OrderInv' /\ ReportIsTrue' BY <1>1 DEF OrderInv, StepsInOrder, ReportIsTrue
<1> QED BY <1>3, <1>4, <1>5, <1>6

-----------------------------------------------------------------------------

LEMMA FlowNext_Inv == FlowInv /\ [FlowNext]_flowVars => FlowInv'
PROOF
<1> SUFFICES ASSUME FlowInv, [FlowNext]_flowVars PROVE FlowInv' OBVIOUS
<1>1. CASE UNCHANGED flowVars
  BY <1>1 DEF flowVars, FlowInv, FlowTypeOK, DefinitionInv, OneDefinition, ActionInv, PhaseInv,
              OrderInv, StepsInOrder, MayRun, Current, ReportIsTrue
<1>2. CASE StartFlow BY <1>2, StartFlowStep
<1>3. CASE TakeStep BY <1>3, TakeStepStep
<1>4. CASE RequestStep BY <1>4, RequestStepStep
<1>5. CASE AwaitAction BY <1>5, AwaitActionStep
<1>6. CASE StoreOutcome BY <1>6, StoreOutcomeStep
<1>7. CASE EndFlow BY <1>7, EndFlowStep
<1>8. CASE Interrupt \/ Upgrade BY <1>8, StoppedStep
<1>9. ASSUME NEW s \in All, BrokerRuns(s) PROVE FlowInv' BY <1>9, BrokerRunsStep
<1> QED BY <1>1, <1>2, <1>3, <1>4, <1>5, <1>6, <1>7, <1>8, <1>9 DEF FlowNext

\* However often a workflow of workflows.py is interrupted and resumed, each of
\* its steps causes one action at most, after the actions it waits for have
\* succeeded, all from one definition, and it reports success only if they all
\* succeeded.
THEOREM WorkflowIsDurable == FlowSpec => []StepsHold
PROOF
<1>1. FlowSpec => []FlowInv BY FlowInit_Inv, FlowNext_Inv, PTL DEF FlowSpec
<1>2. FlowInv => StepsHold
  BY DEF FlowInv, ActionInv, OrderInv, DefinitionInv, StepsHold, StepActsOnce
<1> QED BY <1>1, <1>2, PTL
=============================================================================
