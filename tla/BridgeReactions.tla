-------------------------- MODULE BridgeReactions --------------------------
(***************************************************************************)
(* The reaction consumer of the Zulip bridge (bridge.py, state.py): it     *)
(* long-polls an event queue, turns the reactions of allowlisted people    *)
(* into decisions of the broker and acknowledges an event once its outcome *)
(* is stored.                                                              *)
(*                                                                         *)
(* Zulip is external: reactions are appended to every live queue, a queue  *)
(* may be garbage-collected at any time, and event ids start again in each *)
(* queue.  The broker is taken by what decide_approval promises: one       *)
(* decision per action and per source event, the same answer to the same   *)
(* submission, a refusal otherwise.                                        *)
(*                                                                         *)
(* The text of a message is abstracted to the action its marker names.     *)
(* MobileCommands has the commands that come through the same queue.       *)
(***************************************************************************)
EXTENDS Naturals, FiniteSetsExt, Sequences

CONSTANTS People,       \* Zulip users
          Approvers,    \* allowlist of the bridge and of the broker
          Actions,      \* class C actions with a request on Zulip
          NoOutcome,    \* no event in progress
          MaxQueues,    \* bound: event queues registered
          MaxEvents,    \* bound: events of all queues together
          MaxMisses     \* bound: failed requests and deaths of the process

ASSUME ReactionsAssumption ==
  /\ Approvers \subseteq People
  /\ MaxQueues \in Nat
  /\ MaxEvents \in Nat
  /\ MaxMisses \in Nat

VARIABLES events,     \* Zulip: events of each registered queue, by event id
          gone,       \* Zulip: queues that were garbage-collected
          status,     \* broker: pending, decided or closed
          decisions,  \* broker: decisions that came through the bridge
          cursor,     \* queues table: the cursor, as stored
          processed,  \* processed_events table
          misses,     \* failures so far
          site,       \* where the consumer stands
          polled,     \* cursor of run_forever, before the batch
          current,    \* cursor of poll_once
          batch,      \* ids of the events it still has to handle
          outcome     \* outcome of the event in progress

queues   == <<events, gone>>
broker   == <<status, decisions>>
stored   == <<cursor, processed>>
batchVars == <<polled, current, batch, outcome>>
reactionVars == <<queues, broker, stored, misses, site, batchVars>>

Event == [user : People, action : Actions, verdict : {"approve", "reject"}]
Verdicts == {"approve", "reject"}
NoCursor == [queue |-> 0, last |-> 0]
ConsumerSites == {"down", "cursor", "register", "poll", "event", "submit", "commit"}

\* Events of a queue are numbered from 1, the cursor starts at 0.
Live == (1 .. Len(events)) \ gone

ReactionsInit ==
  /\ events = << >> /\ gone = {}
  /\ status = [a \in Actions |-> "pending"] /\ decisions = {}
  /\ cursor = NoCursor /\ processed = {}
  /\ misses = 0
  /\ site = "down" /\ polled = NoCursor /\ current = NoCursor /\ batch = << >> /\ outcome = NoOutcome

-----------------------------------------------------------------------------
(* Zulip (external) and the other ways to settle an action                 *)

\* Bound: every live queue has room for one more event.
RoomForEvents ==
  MapThenSumSet(LAMBDA q : Len(events[q]), 1 .. Len(events)) + Cardinality(Live) <= MaxEvents

\* A person reacts: every live queue gets the event.
React(e) ==
  /\ Live # {} /\ RoomForEvents
  /\ events' = [q \in 1 .. Len(events) |->
                  IF q \in Live THEN Append(events[q], e) ELSE events[q]]
  /\ UNCHANGED <<gone, broker, stored, misses, site, batchVars>>

Collect(q) ==
  /\ q \in Live
  /\ gone' = gone \cup {q}
  /\ UNCHANGED <<events, broker, stored, misses, site, batchVars>>

\* The action is decided through another channel, or its deadline passes.
SettleElsewhere(a) ==
  /\ status[a] = "pending"
  /\ status' = [status EXCEPT ![a] = "closed"]
  /\ UNCHANGED <<queues, decisions, stored, misses, site, batchVars>>

-----------------------------------------------------------------------------
(* The cursor                                                              *)

MayMiss == misses < MaxMisses /\ misses' = misses + 1

ConsumerDies ==
  /\ site # "down"
  /\ MayMiss
  /\ site' = "down" /\ polled' = NoCursor /\ current' = NoCursor
  /\ batch' = << >> /\ outcome' = NoOutcome
  /\ UNCHANGED <<queues, broker, stored>>

ConsumerStarts ==
  /\ site = "down"
  /\ site' = "cursor"
  /\ UNCHANGED <<queues, broker, stored, misses, batchVars>>

\* load_cursor: the stored cursor is taken up, or a queue is registered.
LoadCursor ==
  /\ site = "cursor"
  /\ \/ cursor # NoCursor /\ current' = cursor /\ site' = "poll"
        /\ UNCHANGED events
     \/ cursor = NoCursor /\ Len(events) < MaxQueues
        /\ events' = Append(events, << >>)
        /\ current' = [queue |-> Len(events) + 1, last |-> 0] /\ site' = "register"
  /\ UNCHANGED <<gone, broker, stored, misses, polled, batch, outcome>>

SaveCursor ==
  /\ site = "register"
  /\ cursor' = current
  /\ site' = "poll"
  /\ UNCHANGED <<queues, broker, processed, misses, batchVars>>

\* The queue is gone: the cursor is cleared and a new queue is registered.
QueueExpired ==
  /\ site = "poll"
  /\ current.queue \in gone
  /\ cursor' = IF cursor.queue = current.queue THEN NoCursor ELSE cursor
  /\ site' = "cursor"
  /\ UNCHANGED <<queues, broker, processed, misses, batchVars>>

-----------------------------------------------------------------------------
(* poll_once                                                               *)

\* get_events: everything after the cursor that the poll sends.
GetEvents ==
  /\ site = "poll"
  /\ current.queue \in Live
  /\ Len(events[current.queue]) > current.last
  /\ batch' = [i \in 1 .. (Len(events[current.queue]) - current.last) |-> current.last + i]
  /\ polled' = current
  /\ site' = "event"
  /\ UNCHANGED <<queues, broker, stored, misses, current, outcome>>

\* A request fails.  run_forever goes on with the cursor it had before the
\* batch, although events of the batch may have been committed.
Retry ==
  /\ site' = "poll" /\ batch' = << >> /\ outcome' = NoOutcome
  /\ current' = polled
  /\ UNCHANGED polled

EventOf(q, i) == events[q][i]

\* An event carries on with the cursor as of the last commit.
Skip ==
  /\ site = "event" /\ batch # << >>
  /\ Head(batch) <= current.last
  /\ batch' = Tail(batch)
  /\ UNCHANGED <<queues, broker, stored, misses, site, polled, current, outcome>>

EndBatch ==
  /\ site = "event" /\ batch = << >>
  /\ site' = "poll"
  /\ UNCHANGED <<queues, broker, stored, misses, batchVars>>

Done(q, i) == \E p \in processed : p.queue = q /\ p.id = i

\* process: the allowlist, then a fresh look at the person and the message.  An
\* account may have been deactivated and a message moved or deleted: the look may
\* find either way, so the reaction of an allowlisted person may be ignored too.
HandleEvent ==
  LET i == Head(batch)
  IN /\ site = "event" /\ batch # << >>
     /\ i > current.last
     /\ \/ Done(current.queue, i) /\ outcome' = "duplicate" /\ site' = "commit"
        \/ ~Done(current.queue, i) /\ outcome' = "ignored" /\ site' = "commit"
        \/ /\ ~Done(current.queue, i) /\ EventOf(current.queue, i).user \in Approvers
           /\ site' = "submit" /\ UNCHANGED outcome
     /\ UNCHANGED <<queues, broker, stored, misses, polled, current, batch>>

\* Mutant: the source of a decision is the event id alone.
SourceById(q, i) == <<i>>

\* source_event_id: queue and event id.
Source(q, i) == <<q, i>>

\* What decide_approval answers to decision d.
Prior(s) == {d \in decisions : d.source = s}

Accepts(d) ==
  \/ d \in decisions
  \/ Prior(d.source) = {} /\ d.by \in Approvers /\ status[d.action] = "pending"

Decide(d) ==
  /\ decisions' = IF Accepts(d) THEN decisions \cup {d} ELSE decisions
  /\ status' = IF Accepts(d) THEN [status EXCEPT ![d.action] = "decided"] ELSE status

Submission ==
  LET e == EventOf(current.queue, Head(batch))
  IN [source |-> Source(current.queue, Head(batch)), action |-> e.action,
      by |-> e.user, verdict |-> e.verdict]

\* The broker answers.
Submit ==
  /\ site = "submit"
  /\ Decide(Submission)
  /\ outcome' = IF Accepts(Submission) THEN Submission.verdict ELSE "broker_rejected"
  /\ site' = "commit"
  /\ UNCHANGED <<queues, stored, misses, polled, current, batch>>

\* The request fails before or after the broker took the decision.
SubmitFails ==
  /\ site = "submit"
  /\ MayMiss
  /\ Decide(Submission) \/ UNCHANGED broker
  /\ Retry
  /\ UNCHANGED <<queues, stored>>

\* The fresh look at an allowlisted person or at the message fails.
LookupFails ==
  /\ site = "event" /\ batch # << >>
  /\ Head(batch) > current.last /\ ~Done(current.queue, Head(batch))
  /\ EventOf(current.queue, Head(batch)).user \in Approvers
  /\ MayMiss
  /\ Retry
  /\ UNCHANGED <<queues, broker, stored>>

\* INSERT OR IGNORE
Remember(p) == IF Done(p.queue, p.id) THEN processed ELSE processed \cup {p}

\* Mutant: the cursor moves to the end of the batch at once.
CursorPastBatch(i) == [cursor EXCEPT !.last = batch[Len(batch)]]

\* UPDATE ... WHERE last_event_id < ?
CursorAfter(i) == IF cursor.last < i THEN [cursor EXCEPT !.last = i] ELSE cursor

\* commit_event: the event is remembered and the stored cursor moves forward.
CommitEvent ==
  LET i == Head(batch)
  IN /\ site = "commit"
     /\ cursor.queue = current.queue
     /\ processed' = Remember([queue |-> current.queue, id |-> i, outcome |-> outcome])
     /\ cursor' = CursorAfter(i)
     /\ current' = CursorAfter(i)
     /\ batch' = Tail(batch) /\ outcome' = NoOutcome
     /\ site' = "event"
     /\ UNCHANGED <<queues, broker, misses, polled>>

-----------------------------------------------------------------------------
Consumer ==
  \/ ConsumerStarts \/ LoadCursor \/ SaveCursor \/ QueueExpired
  \/ GetEvents \/ Skip \/ HandleEvent \/ Submit \/ CommitEvent \/ EndBatch

ConsumerFails == ConsumerDies \/ LookupFails \/ SubmitFails

AroundConsumer ==
  \/ \E e \in Event : React(e)
  \/ \E q \in 1 .. MaxQueues : Collect(q)
  \/ \E a \in Actions : SettleElsewhere(a)

ReactionsNext == Consumer \/ ConsumerFails \/ AroundConsumer

ReactionsSpec == ReactionsInit /\ [][ReactionsNext]_reactionVars

\* The consumer thread goes on and systemd starts the bridge again; failures are
\* finitely many.  Zulip, people and the broker's deadlines are not fair.
FairReactionsSpec == ReactionsSpec /\ WF_reactionVars(Consumer)

-----------------------------------------------------------------------------
(* Properties                                                              *)

\* Queues and events are counted from 1; 0 stands for none.
Ids == Nat \ {0}
Cursor == [queue : Nat, last : Nat]

\* Type invariant: the tables have the columns of the schema in state.py.
ReactionsTypeOK ==
  /\ events \in Seq(Seq(Event)) /\ gone \subseteq Ids
  /\ status \in [Actions -> {"pending", "decided", "closed"}]
  /\ decisions \subseteq [source : Ids \X Ids, action : Actions,
                          by : People, verdict : Verdicts]
  /\ cursor \in Cursor /\ polled \in Cursor /\ current \in Cursor
  /\ processed \subseteq [queue : Ids, id : Ids,
                          outcome : Verdicts \cup {"broker_rejected", "ignored", "duplicate"}]
  /\ misses \in Nat /\ site \in ConsumerSites /\ batch \in Seq(Ids)
  /\ outcome \in Verdicts \cup {"broker_rejected", "ignored", "duplicate", NoOutcome}

\* The stored outcome of a reaction is what the broker did with it, although the
\* answer of the broker may be lost and the reaction submitted again, and event
\* ids repeat from queue to queue.
OutcomeTellsBroker ==
  \A p \in processed :
    LET e == EventOf(p.queue, p.id)
    IN /\ p.outcome \in Verdicts =>
            \E d \in Prior(Source(p.queue, p.id)) :
              d.action = e.action /\ d.by = e.user /\ d.verdict = p.outcome
       /\ p.outcome = "broker_rejected" => Prior(Source(p.queue, p.id)) = {}

\* The stored cursor never passes an event whose outcome is not stored: a crash
\* or a failure in the middle of a batch loses nothing.
NothingSkipped ==
  \A i \in 1 .. cursor.last : Done(cursor.queue, i)

\* Every event of the queue in use is settled, unless Zulip collects the queue:
\* again and again the consumer has settled all that its queue holds.
EventsSettled ==
  []<>(\/ cursor = NoCursor \/ cursor.queue \in gone
       \/ \A i \in 1 .. Len(events[cursor.queue]) : Done(cursor.queue, i))

\* What the consumer stores of the reactions is what became of them, and it
\* stores something of each: the three parts above.
ReactionsHold == ReactionsTypeOK /\ OutcomeTellsBroker /\ NothingSkipped
=============================================================================
