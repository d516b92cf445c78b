--------------------------- MODULE MobileCommands ---------------------------
(***************************************************************************)
(* The mobile commands of the Zulip bridge (mobile.py): messages of the    *)
(* approval stream that come through the event queue of the reactions, the *)
(* broker call each one makes under a request id derived from its event,   *)
(* and the reply, posted once through an intent and a marker.              *)
(*                                                                         *)
(* Events are handled in the order of the queue and the next one is taken  *)
(* only when the outcome of the current one is stored; BridgeReactions has *)
(* the cursor, its batches and the queues.  An attempt that fails leaves   *)
(* its event at the head, whether a request failed or the process died,    *)
(* and the next attempt reads the message again.                           *)
(*                                                                         *)
(* A command names one mission or one project.  Of its text the model      *)
(* keeps the verb and an argument: two that the broker grants and takes    *)
(* for different ones, and one that it refuses.                            *)
(***************************************************************************)
EXTENDS Naturals, Sequences

CONSTANTS Orders,       \* what people write (author, verb, argument), by place in the queue
          MaxTurns,     \* bound: changes by others of a message, the mission or the artifact
          MaxFaults     \* bound: failed requests and deaths of the process

VARIABLES inbox,      \* Zulip: the messages behind the events of the queue
          posts,      \* Zulip: replies of the bot
          mission,    \* broker: status of the mission that commands name
          effects,    \* broker: rows written for commands, by request id
          intents,    \* mobile_publications table
          settled,    \* processed_events: outcomes, in the order of the queue
          artifact,   \* the report or capture on disk
          step,       \* where the attempt stands
          got,        \* the message as this attempt read it
          reply,      \* what it is going to answer
          turns, faults

chat    == <<inbox, posts>>
records  == <<mission, effects>>
attempt  == <<step, got, reply>>
counters == <<turns, faults>>
mvars == <<chat, records, intents, settled, artifact, attempt, counters>>

Verbs == {"mission", "statut", "reprendre", "repondre", "rapport", "capture", "autre", "chat"}
Commands == [by : STRING, verb : Verbs, arg : STRING]
NoMessage == [by |-> "none", verb |-> "chat", arg |-> "none", topic |-> "none"]

ASSUME OrdersAssumption == Orders \in Seq(SUBSET Commands)

MobileInit ==
  /\ inbox = << >> /\ posts = << >>
  /\ mission \in {"open", "paused"} /\ effects = << >>
  /\ intents = [i \in DOMAIN Orders |-> "none"] /\ settled = << >>
  /\ artifact \in {"good", "absent", "bad"}
  /\ step = "poll" /\ got = NoMessage /\ reply = "none"
  /\ turns = 0 /\ faults = 0

-----------------------------------------------------------------------------
(* People, the owners of the mission and the producers of the artifacts    *)

Write(o) ==
  /\ Len(inbox) < Len(Orders) /\ o \in Orders[Len(inbox) + 1]
  /\ inbox' = Append(inbox, [order |-> o, topic |-> "t1", stands |-> TRUE,
                             edited |-> FALSE, moved |-> FALSE])
  /\ UNCHANGED <<posts, records, intents, settled, artifact, attempt, counters>>

Turn == turns < MaxTurns /\ turns' = turns + 1 /\ UNCHANGED faults

\* Once its event is settled, nobody looks at the message again.
Touch(i, m) ==
  /\ Turn
  /\ i > Len(settled)
  /\ inbox' = [inbox EXCEPT ![i] = m]
  /\ UNCHANGED <<posts, records, intents, settled, artifact, attempt>>

Edit(i, o) ==
  /\ o.by = inbox[i].order.by /\ o # inbox[i].order
  /\ Touch(i, [inbox[i] EXCEPT !.order = o, !.edited = TRUE])

Move(i) == Touch(i, [inbox[i] EXCEPT !.topic = "t2", !.moved = TRUE])

\* The message is deleted or moved out of the stream, or its author is deactivated.
Withdraw(i) == Touch(i, [inbox[i] EXCEPT !.stands = FALSE])

SetElsewhere(s) ==
  /\ Turn
  /\ <<mission, s>> \in {<<"open", "paused">>, <<"paused", "open">>,
                         <<"open", "completed">>, <<"paused", "completed">>}
  /\ mission' = s
  /\ UNCHANGED <<chat, effects, intents, settled, artifact, attempt>>

ChangeArtifact(f) ==
  /\ Turn
  /\ f # artifact
  /\ artifact' = f
  /\ UNCHANGED <<chat, records, intents, settled, attempt>>

-----------------------------------------------------------------------------
(* The message                                                             *)

Here == Len(settled) + 1    \* the event at the head of the queue

\* The attempt is given up and its event stays at the head.
EndAttempt == step' = "poll" /\ got' = NoMessage /\ reply' = "none"

\* The outcome of the event is stored and the cursor moves past it.
CommitOutcome(o) == settled' = Append(settled, o) /\ EndAttempt

\* A fresh look at the message and at its author: it stands in the stream and is by
\* an approver who is an active person.
Addressed(m) == m.stands /\ m.order.by = "approver"

\* One line of plain text that begins with !ops.
IsCommand(m) == m.order.verb # "chat"

\* process
Read ==
  /\ step = "poll" /\ Len(inbox) >= Here
  /\ LET m == inbox[Here]
     IN IF ~(Addressed(m) /\ IsCommand(m))
          THEN CommitOutcome("ignored")
          ELSE /\ got' = [by |-> m.order.by, verb |-> m.order.verb, arg |-> m.order.arg,
                          topic |-> m.topic]
               /\ step' = "call" /\ UNCHANGED <<reply, settled>>
  /\ UNCHANGED <<chat, records, intents, artifact, counters>>

-----------------------------------------------------------------------------
(* _execute and the broker's routes for the bridge                         *)

\* The broker has a row for this request in the table of the call.
Again(table) == \E k \in DOMAIN effects : effects[k].table = table /\ effects[k].request = Here

\* Mutant: a request id that comes back is refused.
SameNever(table) == FALSE

\* The row that is there is for the same call.
Same(table) ==
  \A k \in DOMAIN effects :
    effects[k].table = table /\ effects[k].request = Here => effects[k].arg = got.arg

Row(table) == [table |-> table, request |-> Here, arg |-> got.arg]

Answer(text, next) == [mission |-> mission, effects |-> effects, reply |-> text, step |-> next]

\* create_mission and add_record: the row is written once, and a request id that
\* comes back with another content is refused.
Insert(table, text) ==
  [Answer(IF Again(table) /\ ~Same(table) THEN "refused" ELSE text, "intent") EXCEPT
     !.effects = IF Again(table) THEN effects ELSE Append(effects, Row(table))]

CreateRoute == Insert("missions", "created")
AnswerRoute == Insert("records", "answered")

\* The route of resume: a completed mission is refused; a paused one is opened,
\* unless this request has opened it already; an open one is left alone.
ResumeRoute ==
  CASE mission = "completed" -> Answer("refused", "intent")
    [] mission = "paused" /\ ~Again("changes") ->
         [Answer("resumed", "view") EXCEPT !.mission = "open",
                                           !.effects = Append(effects, Row("changes"))]
    [] OTHER -> Answer("resumed", "view")

\* What the broker does with the command.  The unknown command and the report do
\* not reach it.
Execute ==
  CASE got.verb = "autre" -> Answer("help", "intent")
    [] got.verb = "rapport" -> Answer("file", "intent")
    [] got.verb \notin {"autre", "rapport"} /\ got.arg = "denied" -> Answer("refused", "intent")
    [] got.verb = "mission" /\ got.arg # "denied" -> CreateRoute
    [] got.verb = "repondre" /\ got.arg # "denied" -> AnswerRoute
    [] got.verb = "reprendre" /\ got.arg # "denied" -> ResumeRoute
    [] got.verb = "statut" /\ got.arg # "denied" -> Answer("status", "view")
    [] got.verb = "capture" /\ got.arg # "denied" -> Answer("file", "view")

Call ==
  /\ step = "call"
  /\ mission' = Execute.mission /\ effects' = Execute.effects
  /\ reply' = Execute.reply /\ step' = Execute.step
  /\ UNCHANGED <<chat, intents, settled, artifact, got, counters>>

QueueState == [open |-> "queued", paused |-> "blocked", completed |-> "done"]

StatusRoute == QueueState[mission]

\* _mobile_mission: the states that the client takes from a status view.
Understood == {"queued", "claimed", "done"}

\* The status view is read after the change.  One that the client does not take
\* is a failure of the attempt like any other.
View ==
  /\ step = "view"
  /\ IF StatusRoute \in Understood
       THEN step' = "intent" /\ UNCHANGED <<got, reply>>
       ELSE EndAttempt
  /\ UNCHANGED <<chat, records, intents, settled, artifact, counters>>

-----------------------------------------------------------------------------
(* publish_mobile_once                                                     *)

\* An intent that was there before may have its reply on Zulip.
AfterIntent == IF intents[Here] = "none" THEN "file" ELSE "search"

AlreadyPublished == intents[Here] = "published"

\* begin_mobile_publication
BeginReply ==
  /\ step = "intent"
  /\ IF AlreadyPublished
       THEN CommitOutcome(reply) /\ UNCHANGED intents
       ELSE /\ intents' = [intents EXCEPT ![Here] = "intent"]
            /\ step' = AfterIntent
            /\ UNCHANGED <<settled, got, reply>>
  /\ UNCHANGED <<chat, records, artifact, counters>>

\* find_own_marker, in the topic the message has now.
Found == {k \in DOMAIN posts : posts[k].key = Here /\ posts[k].topic = got.topic}

Reconcile ==
  /\ step = "search"
  /\ \/ Found = {} /\ step' = "file" /\ UNCHANGED <<got, reply>>
     \/ (\E k \in Found : Found = {k}) /\ step' = "mark" /\ UNCHANGED <<got, reply>>
     \/ (\E k, l \in Found : k # l) /\ EndAttempt
  /\ UNCHANGED <<chat, records, intents, settled, artifact, counters>>

\* A file that is writable by others, of another size than allowed or not a PNG is
\* an error, one that is absent is told.
Usable == artifact # "bad"

\* The attachment, read and uploaded again in every attempt that gets here.
Attach ==
  /\ step = "file"
  /\ IF reply = "file" /\ ~Usable
       THEN EndAttempt
       ELSE step' = "send" /\ UNCHANGED <<got, reply>>
  /\ UNCHANGED <<chat, records, intents, settled, artifact, counters>>

PostReply == posts' = Append(posts, [key |-> Here, topic |-> got.topic, text |-> reply])

SendReply ==
  /\ step = "send"
  /\ PostReply
  /\ step' = "mark"
  /\ UNCHANGED <<inbox, records, intents, settled, artifact, got, reply, counters>>

\* mark_mobile_published
MarkReply ==
  /\ step = "mark"
  /\ intents' = [intents EXCEPT ![Here] = "published"]
  /\ step' = "commit"
  /\ UNCHANGED <<chat, records, settled, artifact, got, reply, counters>>

CommitCommand ==
  /\ step = "commit"
  /\ CommitOutcome(reply)
  /\ UNCHANGED <<chat, records, intents, artifact, counters>>

-----------------------------------------------------------------------------
(* Failures                                                                *)

Fault == faults < MaxFaults /\ faults' = faults + 1 /\ UNCHANGED turns

\* A request fails without effect, or the process dies between two steps.
AttemptFails ==
  /\ step # "poll"
  /\ Fault /\ EndAttempt
  /\ UNCHANGED <<chat, records, intents, settled, artifact>>

\* The broker does its part and its answer is lost.
CallLost ==
  /\ step = "call"
  /\ Fault /\ EndAttempt
  /\ mission' = Execute.mission /\ effects' = Execute.effects
  /\ UNCHANGED <<chat, intents, settled, artifact>>

\* Zulip posts the reply and its answer is lost.
SendLost ==
  /\ step = "send"
  /\ Fault /\ EndAttempt
  /\ PostReply
  /\ UNCHANGED <<inbox, records, intents, settled, artifact>>

-----------------------------------------------------------------------------
Work ==
  \/ Read \/ Call \/ View \/ BeginReply \/ Reconcile \/ Attach
  \/ SendReply \/ MarkReply \/ CommitCommand

Trouble == AttemptFails \/ CallLost \/ SendLost

Others ==
  \/ \E i \in DOMAIN Orders : \E o \in Orders[i] : Write(o)
  \/ \E i \in DOMAIN inbox :
       \/ \E o \in Orders[i] : Edit(i, o)
       \/ Move(i)
       \/ Withdraw(i)
  \/ \E s \in {"open", "paused", "completed"} : SetElsewhere(s)
  \/ \E f \in {"good", "absent", "bad"} : ChangeArtifact(f)

MobileNext == Work \/ Trouble \/ Others

MobileSpec == MobileInit /\ [][MobileNext]_mvars

-----------------------------------------------------------------------------
(* Properties                                                              *)

\* A command acts at most once at the broker, however often its event is tried
\* again: the request id comes from the event and the broker keeps it with the row.
CommandActsOnce ==
  \A j, k \in DOMAIN effects :
    effects[j].table = effects[k].table /\ effects[j].request = effects[k].request => j = k

\* A command is answered by one message at most, although an attempt may end after
\* the reply was posted, unless the command is moved to another topic in between:
\* the marker is searched where the command is now.
OneReplyPerCommand ==
  \A j, k \in DOMAIN posts :
    posts[j].key = posts[k].key /\ ~inbox[posts[j].key].moved => j = k

Acts == [created |-> "missions", answered |-> "records"]

\* A reply says what the broker did, although the reply of one attempt may follow
\* the call of an earlier one: a mission announced was created and an answer
\* announced was recorded; a refusal means that nothing was done, unless the
\* command was edited in between or asked to resume a mission that is over by now.
RepliesTellTheBroker ==
  \A k \in DOMAIN posts :
    LET rows == {effects[j] : j \in {n \in DOMAIN effects : effects[n].request = posts[k].key}}
    IN /\ posts[k].text \in DOMAIN Acts => \E r \in rows : r.table = Acts[posts[k].text]
       /\ posts[k].text = "refused" =>
            inbox[posts[k].key].edited \/ \A r \in rows : r.table = "changes"

\* A command whose outcome is stored has its reply on Zulip: the outcome is not
\* acknowledged before, whatever failed on the way.
SettledIsAnswered ==
  \A i \in DOMAIN settled :
    settled[i] # "ignored" => \E k \in DOMAIN posts : posts[k].key = i

\* The queue is worked off again and again; messages are finitely many.
WorkedOff == []<>(Len(settled) = Len(inbox))

\* Every message is settled in its turn, provided that the mission does not stay
\* paused and the artifact does not stay unusable.
CommandsSettled == <>[](mission # "paused" /\ artifact # "bad") => WorkedOff

\* Every message is settled in its turn, whatever the state of the mission a
\* command asks about.
PausedMissionsAreAnswered == <>[](artifact # "bad") => WorkedOff

\* A command of a phone acts once, has one reply, and the reply is true and there
\* before the command is settled.
CommandsHold ==
  /\ CommandActsOnce
  /\ OneReplyPerCommand
  /\ RepliesTellTheBroker
  /\ SettledIsAnswered
=============================================================================
