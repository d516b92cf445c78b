--------------------------- MODULE NativeConnector ---------------------------
(***************************************************************************)
(* The native connector of native_ops: a worker takes the messages of      *)
(* trusted people in a Zulip channel, opens a mission for each and answers *)
(* with what Hermes generates (the paid API) or with what a supervised CLI *)
(* hands off through the broker, and follows the actions that wait for an  *)
(* approval.  The pilot starts the CLI.  Worker, pilot, CLI, broker and    *)
(* Zulip run beside each other; any of their calls may fail after it had   *)
(* its effect, and worker and pilot may be killed.                         *)
(*                                                                         *)
(* A mission carries the number of its message; it has at most one action. *)
(***************************************************************************)
EXTENDS Integers, Sequences, FiniteSetsExt

CONSTANTS
  Messages,        \* 1..n, in the order of their Zulip ids
  Asks,            \* what the messages may ask for: a backend, "any", or an "unknown" project
  PendingLimit,    \* LIMIT of State.pending
  Acting,          \* the messages whose missions request an action
  MaxFaults, MaxSwitches   \* bounds of the model

ASSUME MessagesAssumption == Messages \subseteq Nat \ {0}

VARIABLES
  asks,          \* what each message asks for
  mode,          \* /etc/ops-execution-mode.json
  online,        \* the CLI account is connected
  jobs,          \* the table jobs of the worker, with the followup of its action
  cursor,        \* metadata
  worker,        \* where the worker is
  broker,        \* the mission of each message: dispatch records, handoffs, evidence, action
  attempts,      \* the tables attempts and approvals of the pilot
  pilot,         \* the message the pilot waits for, 0 if none
  running,       \* the messages a CLI process works on
  zulip,         \* answers posted to each message
  ghost,         \* generations and CLI processes started for each message
  faults, switches

nativeVars == <<asks, mode, online, jobs, cursor, worker, broker, attempts, pilot, running, zulip,
                ghost, faults, switches>>

NoJob == [phase |-> "absent", backend |-> "none", follow |-> "none"]
Resting == [at |-> "intake", left |-> {}, sid |-> 0]

NativeInit ==
  /\ asks \in Asks
  /\ mode \in {"cli", "api", "hybrid"} /\ online \in BOOLEAN
  /\ jobs = [s \in Messages |-> NoJob] /\ cursor = 0 /\ worker = Resting
  /\ broker = [s \in Messages |-> [mission |-> FALSE, dispatch |-> {}, handoffs |-> 0,
                                   evidence |-> FALSE, action |-> "none", by |-> "none"]]
  /\ attempts = [s \in Messages |-> [status |-> "none", approval |-> "none"]] /\ pilot = 0 /\ running = {}
  /\ zulip = [s \in Messages |-> [answers |-> 0, told |-> <<>>]]
  /\ ghost = [s \in Messages |-> [paid |-> 0, tried |-> 0]]
  /\ faults = 0 /\ switches = 0

-----------------------------------------------------------------------------
(* dispatch.py and execution.py                                            *)

ApiAllowed == mode \in {"api", "hybrid"}

\* select_backend; "none" when no CLI account is connected.
SelectBackend(ask) ==
  CASE ask = "api"   -> IF mode = "cli" THEN "manual" ELSE "api"
    [] ask = "codex" -> IF mode = "api" THEN "manual" ELSE "codex"
    [] ask = "unknown" -> "manual"
    [] OTHER         -> IF mode # "cli" THEN "api" ELSE IF online THEN "codex" ELSE "none"

-----------------------------------------------------------------------------
(* The worker: cli.run                                                     *)

Goto(place) == worker' = [worker EXCEPT !.at = place]
Sid == worker.sid
Job == jobs[Sid]
SetPhase(v) == jobs' = [jobs EXCEPT ![Sid].phase = v]
Rest == <<asks, mode, online, attempts, pilot, running, switches>>

Fault == faults < MaxFaults /\ faults' = faults + 1

\* INSERT OR IGNORE, and then the cursor.
Intake ==
  /\ worker.at = "intake" /\ cursor + 1 \in Messages
  /\ jobs' = [jobs EXCEPT ![cursor + 1] = IF @ = NoJob THEN [@ EXCEPT !.phase = "received"] ELSE @]
  /\ Goto("cursor")
  /\ UNCHANGED <<Rest, cursor, broker, zulip, ghost, faults>>

Advance ==
  /\ worker.at = "cursor" /\ cursor' = cursor + 1 /\ Goto("intake")
  /\ UNCHANGED <<Rest, jobs, broker, zulip, ghost, faults>>

\* State.pending: the oldest jobs, those that wait for somebody included.
Waiting == {s \in Messages : jobs[s].phase \in {"received", "prepared", "ready", "sending"}}

\* Mutant: the newest jobs first.
PendingNewest == {s \in Waiting : Cardinality({t \in Waiting : t > s}) < PendingLimit}

Pending == {s \in Waiting : Cardinality({t \in Waiting : t < s}) < PendingLimit}

\* The jobs that are listed are taken in the order of the messages.
IsNext(s) == s \in worker.left /\ \A t \in worker.left : s <= t

\* The messages of this poll are in.
ListPending ==
  /\ worker.at = "intake"
  /\ worker' = [at |-> "jobs", left |-> Pending, sid |-> 0]
  /\ UNCHANGED <<Rest, jobs, cursor, broker, zulip, ghost, faults>>

\* The backend is chosen once; without one the job is left for later.
TakeJob ==
  /\ worker.at = "jobs"
  /\ \E s \in Messages :
       LET b == IF jobs[s].backend = "none" THEN SelectBackend(asks[s]) ELSE jobs[s].backend
       IN /\ IsNext(s)
          /\ jobs' = [jobs EXCEPT ![s].backend = b]
          /\ worker' = [at |-> IF b = "none" THEN "jobs" ELSE "prepare",
                        left |-> worker.left \ {s}, sid |-> s]
  /\ UNCHANGED <<Rest, cursor, broker, zulip, ghost, faults>>

\* create_mission and the records are idempotent by their request ids.
Prepare ==
  /\ worker.at = "prepare"
  /\ \/ /\ Job.phase = "received" /\ SetPhase("prepared")
        /\ broker' = [broker EXCEPT ![Sid].mission = TRUE] /\ UNCHANGED worker
     \/ /\ Job.phase = "prepared" /\ UNCHANGED jobs /\ Goto("handoff")
        /\ broker' = [broker EXCEPT ![Sid].dispatch = IF @ = {} THEN {Job.backend} ELSE @]
     \/ Job.phase \in {"ready", "sending"} /\ UNCHANGED <<jobs, broker>> /\ Goto("process")
  /\ UNCHANGED <<Rest, cursor, zulip, ghost, faults>>

\* accept_handoff; a topic of no known project is answered with a fixed text.
AcceptHandoff ==
  /\ worker.at = "handoff"
  /\ jobs' = [jobs EXCEPT ![Sid] =
       CASE broker[Sid].handoffs = 0 ->
              IF asks[Sid] = "unknown" THEN [@ EXCEPT !.phase = "ready"] ELSE @
         [] broker[Sid].handoffs = 1 ->
              [@ EXCEPT !.phase = "ready",
                        !.follow = IF @ = "none" /\ broker[Sid].action # "none" THEN "waiting" ELSE @]
         [] OTHER -> [@ EXCEPT !.phase = "needs_review"]]
  /\ Goto(IF broker[Sid].handoffs > 1 THEN "jobs"
          ELSE IF \/ broker[Sid].handoffs = 1 \/ asks[Sid] = "unknown"
                  \/ Job.backend = "api" /\ ApiAllowed
          THEN "process" ELSE "jobs")
  /\ UNCHANGED <<Rest, cursor, broker, zulip, ghost, faults>>

\* Worker.process: the phase is stored before the paid call.
Generate ==
  /\ worker.at = "process" /\ Job.phase = "prepared"
  /\ SetPhase("generating") /\ Goto("generating")
  /\ ghost' = [ghost EXCEPT ![Sid].paid = @ + 1]
  /\ UNCHANGED <<Rest, cursor, broker, zulip, faults>>

\* Hermes uses its tools meanwhile: an observation, or an action of class C.
HermesActs ==
  /\ worker.at = "generating"
  /\ \/ broker' = [broker EXCEPT ![Sid].evidence = TRUE]
     \/ /\ broker[Sid].action = "none" /\ Sid \in Acting
        /\ broker' = [broker EXCEPT ![Sid].action = "pending_approval", ![Sid].by = "hermes"]
  /\ UNCHANGED <<Rest, jobs, cursor, worker, zulip, ghost, faults>>

\* needs_reasoning twice is a failure, and done needs an action that succeeded.
Acceptable(status) == status = "needs_human" \/ (status = "done" /\ broker[Sid].evidence)

Generated(status) ==
  /\ worker.at = "generating"
  /\ jobs' = [jobs EXCEPT
       ![Sid].phase = IF Acceptable(status) THEN "ready" ELSE "needs_review",
       ![Sid].follow = IF status # "failed" /\ broker[Sid].action # "none" /\ @ = "none"
                       THEN "waiting" ELSE @]
  /\ Goto(IF Acceptable(status) THEN "process" ELSE "jobs")
  /\ UNCHANGED <<Rest, cursor, broker, zulip, ghost, faults>>

\* An ambiguous post is left to a person.
Deliver ==
  /\ worker.at = "process"
  /\ \/ Job.phase = "ready" /\ SetPhase("sending") /\ Goto("send")
     \/ Job.phase = "sending" /\ SetPhase("needs_review") /\ Goto("jobs")
  /\ UNCHANGED <<Rest, cursor, broker, zulip, ghost, faults>>

Posted == [zulip EXCEPT ![Sid].answers = @ + 1]

Send ==
  /\ worker.at = "send" /\ zulip' = Posted /\ Goto("sent")
  /\ UNCHANGED <<Rest, jobs, cursor, broker, ghost, faults>>

Sent ==
  /\ worker.at = "sent" /\ SetPhase("delivered") /\ Goto("jobs")
  /\ UNCHANGED <<Rest, cursor, broker, zulip, ghost, faults>>

\* An exception ends this turn of the loop; the state stays as it was stored.
CallFails ==
  /\ worker.at \in {"prepare", "handoff", "send"} /\ Fault
  /\ worker' = Resting
  /\ zulip' \in IF worker.at = "send" THEN {zulip, Posted} ELSE {zulip}
  /\ broker' \in IF worker.at = "prepare" /\ Job.phase = "received"
                 THEN {broker, [broker EXCEPT ![Sid].mission = TRUE]} ELSE {broker}
  /\ UNCHANGED <<Rest, jobs, cursor, ghost>>

-----------------------------------------------------------------------------
(* Worker.approval_followups                                               *)

Terminal == {"succeeded", "failed", "rejected", "approval_expired"}
Follow(v) == jobs' = [jobs EXCEPT ![Sid].follow = v]

ListFollowups ==
  /\ worker.at = "jobs" /\ worker.left = {}
  /\ worker' = [at |-> "follow", sid |-> 0,
                left |-> {s \in Messages : jobs[s].follow \in {"waiting", "ready"}}]
  /\ UNCHANGED <<Rest, jobs, cursor, broker, zulip, ghost, faults>>

\* The followups come in the order in which they were inserted, which is left open.
TakeFollowup ==
  /\ worker.at = "follow"
  /\ \/ worker.left = {} /\ worker' = Resting
     \/ \E s \in worker.left : worker' = [at |-> "status", left |-> worker.left \ {s}, sid |-> s]
  /\ UNCHANGED <<Rest, jobs, cursor, broker, zulip, ghost, faults>>

\* The status decides: carry the action out, wait, or tell the channel.
Examine ==
  /\ worker.at = "status"
  /\ LET a == broker[Sid] IN
       \/ Job.follow = "ready" /\ UNCHANGED jobs /\ Goto("announce")
       \/ /\ Job.follow = "waiting" /\ a.action = "approved" /\ a.by = "hermes" /\ ApiAllowed
          /\ Follow("executing") /\ Goto("execute")
       \/ /\ Job.follow = "waiting" /\ a.action \in Terminal
          /\ Follow("ready") /\ Goto("announce")
       \/ /\ Job.follow = "waiting" /\ a.action \notin Terminal
          /\ ~ (a.action = "approved" /\ a.by = "hermes" /\ ApiAllowed)
          /\ UNCHANGED jobs /\ Goto("follow")
  /\ UNCHANGED <<Rest, cursor, broker, zulip, ghost, faults>>

\* Operations.action looks at the mode again; the broker looks at the approval again,
\* and answers with the final status of the helper, or refuses.
Execute ==
  /\ worker.at = "execute"
  /\ IF ApiAllowed /\ broker[Sid].action = "approved"
     THEN /\ \E r \in {"succeeded", "failed"} : broker' = [broker EXCEPT ![Sid].action = r]
          /\ Follow("ready") /\ Goto("announce")
     ELSE Follow("needs_review") /\ Goto("follow") /\ UNCHANGED broker
  /\ UNCHANGED <<Rest, cursor, zulip, ghost, faults>>

Announce ==
  /\ worker.at = "announce" /\ Follow("sending") /\ Goto("tell")
  /\ UNCHANGED <<Rest, cursor, broker, zulip, ghost, faults>>

Told == [zulip EXCEPT ![Sid].told = Append(@, broker[Sid].action)]

Tell ==
  /\ worker.at = "tell" /\ zulip' = Told /\ Follow("delivered") /\ Goto("follow")
  /\ UNCHANGED <<Rest, cursor, broker, ghost, faults>>

\* Every exception here leaves the followup to a person.
FollowupFails ==
  /\ worker.at \in {"status", "execute", "tell"} /\ Fault
  /\ Follow("needs_review") /\ Goto("follow")
  /\ zulip' \in IF worker.at = "tell" THEN {zulip, Told} ELSE {zulip}
  /\ UNCHANGED <<Rest, cursor, broker, ghost>>

\* Mutant: an interrupted generation is started again.
RecoveredAgain(j) ==
  [j EXCEPT !.phase = IF @ = "generating" THEN "prepared" ELSE @,
            !.follow = IF @ \in {"executing", "sending"} THEN "needs_review" ELSE @]

\* State.__init__: what was interrupted is left to a person.
Recovered(j) ==
  [j EXCEPT !.phase = IF @ = "generating" THEN "needs_review" ELSE @,
            !.follow = IF @ \in {"executing", "sending"} THEN "needs_review" ELSE @]

\* The worker is killed, its last request with or without its effect, and restarted.
WorkerKilled ==
  /\ Fault
  /\ zulip' \in CASE worker.at = "send" -> {zulip, Posted}
                  [] worker.at = "tell" -> {zulip, Told}
                  [] OTHER -> {zulip}
  /\ jobs' = [s \in Messages |-> Recovered(jobs[s])] /\ worker' = Resting
  /\ UNCHANGED <<Rest, cursor, broker, ghost>>

-----------------------------------------------------------------------------
(* The pilot and the CLI: cli_pilot.py                                     *)

Worker == <<asks, mode, online, jobs, cursor, worker, zulip, switches>>

\* source_for: dispatched to this tool and to no other, and not yet answered.
SourceFor(s) == broker[s].dispatch = {"codex"} /\ broker[s].handoffs = 0

Attempted(s) == attempts[s].status # "none"

PilotTakes(s) ==
  /\ pilot = 0 /\ mode \in {"cli", "hybrid"} /\ online
  /\ SourceFor(s) /\ ~ Attempted(s)
  /\ attempts' = [attempts EXCEPT ![s].status = "running"]
  /\ pilot' = s /\ running' = running \union {s}
  /\ ghost' = [ghost EXCEPT ![s].tried = @ + 1]
  /\ UNCHANGED <<Worker, broker, faults>>

\* The CLI hands off an answer, even two, or requests an action.
CliActs(s) ==
  /\ s \in running
  /\ \/ broker[s].handoffs < 2 /\ broker' = [broker EXCEPT ![s].handoffs = @ + 1]
     \/ /\ broker[s].action = "none" /\ s \in Acting
        /\ broker' = [broker EXCEPT ![s].action = "pending_approval", ![s].by = "codex"]
  /\ UNCHANGED <<Worker, attempts, pilot, running, ghost, faults>>

\* The process exits or is stopped after its time.
PilotEnds(exited) ==
  /\ pilot # 0
  /\ attempts' = [attempts EXCEPT ![pilot].status =
                    IF exited /\ broker[pilot].handoffs = 1 THEN "handed_off" ELSE "needs_review"]
  /\ running' = running \ {pilot} /\ pilot' = 0
  /\ UNCHANGED <<Worker, broker, ghost, faults>>

\* The CLI has a session of its own and may outlive a killed pilot.
PilotKilled ==
  /\ pilot # 0 /\ Fault
  /\ attempts' = [attempts EXCEPT ![pilot].status = "needs_review"] /\ pilot' = 0
  /\ running' \in {running, running \ {pilot}}
  /\ UNCHANGED <<Worker, broker, ghost>>

\* follow_approvals: the row is inserted before the call, and never twice.
PilotExecutes(s) ==
  /\ pilot = 0 /\ mode \in {"cli", "hybrid"} /\ online
  /\ attempts[s].status = "handed_off" /\ attempts[s].approval = "none"
  /\ broker[s].action = "approved" /\ broker[s].by = "codex"
  /\ \/ /\ \E r \in {"succeeded", "failed"} :
             /\ broker' = [broker EXCEPT ![s].action = r]
             /\ attempts' = [attempts EXCEPT ![s].approval =
                               IF r = "succeeded" THEN "completed" ELSE "needs_review"]
        /\ UNCHANGED faults
     \/ /\ Fault /\ UNCHANGED broker
        /\ attempts' = [attempts EXCEPT ![s].approval = "needs_review"]
  /\ UNCHANGED <<Worker, pilot, running, ghost>>

-----------------------------------------------------------------------------
(* People: approvals, the mode and the CLI account                         *)

Decide(s) ==
  /\ \/ /\ broker[s].action = "pending_approval"
        /\ \E d \in {"approved", "rejected"} : broker' = [broker EXCEPT ![s].action = d]
     \/ broker[s].action = "approved" /\ broker' = [broker EXCEPT ![s].action = "approval_expired"]
  /\ UNCHANGED <<Worker, attempts, pilot, running, ghost, faults>>

Switch ==
  /\ switches < MaxSwitches /\ switches' = switches + 1
  /\ \/ mode' \in {"cli", "api", "hybrid"} \ {mode} /\ UNCHANGED online
     \/ online' = ~ online /\ UNCHANGED mode
  /\ UNCHANGED <<asks, jobs, cursor, worker, broker, attempts, pilot, running, zulip, ghost, faults>>

WorkerNext ==
  \/ Intake \/ Advance \/ ListPending \/ TakeJob \/ Prepare \/ AcceptHandoff \/ Generate
  \/ (\E status \in {"done", "needs_human", "failed"} : Generated(status))
  \/ Deliver \/ Send \/ Sent \/ ListFollowups \/ TakeFollowup \/ Examine \/ Execute
  \/ Announce \/ Tell

NativeNext ==
  \/ WorkerNext \/ HermesActs \/ CallFails \/ FollowupFails \/ WorkerKilled \/ Switch \/ PilotKilled
  \/ \E s \in Messages : PilotTakes(s) \/ CliActs(s) \/ PilotExecutes(s) \/ Decide(s)
  \/ \E exited \in BOOLEAN : PilotEnds(exited)

NativeSpec == NativeInit /\ [][NativeNext]_nativeVars

-----------------------------------------------------------------------------
(* Properties                                                              *)

\* A message is answered at most once, whatever fails and whoever is killed,
\* and a job that says delivered was answered.
AnsweredOnce ==
  \A s \in Messages : /\ zulip[s].answers <= 1
                      /\ jobs[s].phase = "delivered" => zulip[s].answers = 1

\* "An interrupted generation is not automatically billed a second time", each
\* source gets at most one automatic attempt of the CLI, and never both: a
\* change of mode does not reassign accepted work.
WorkedOnOnce == \A s \in Messages : ghost[s].paid + ghost[s].tried <= 1

\* "A crash can repeat ingestion, never lose it": what the cursor has passed
\* has a job.
NothingLost == \A s \in Messages : s <= cursor => jobs[s] # NoJob

\* The channel is told the outcome of an action at most once, and the truth.
ToldOnce ==
  \A s \in Messages : zulip[s].told = <<>> \/ zulip[s].told = <<broker[s].action>>

\* A job among the first PendingLimit whose CLI handed off one answer does not
\* wait for ever: it is answered, or left to a person.
Answerable(s) ==
  /\ jobs[s].phase = "prepared" /\ broker[s].handoffs = 1
  /\ Cardinality({t \in Waiting : t < s}) < PendingLimit

HandoffReaches == \A s \in Messages : Answerable(s) ~> jobs[s].phase # "prepared"

\* A message is kept, worked on once, answered once, and told the truth once.
JobsHold == AnsweredOnce /\ WorkedOnOnce /\ NothingLost /\ ToldOnce
=============================================================================
