---------------------------- MODULE BridgeProofs ----------------------------
(***************************************************************************)
(* Proofs about the Zulip bridge.  Reactions, for every set of people and  *)
(* actions and any number of queues, events, failures and restarts.        *)
(* Mobile commands, for any orders and any number of changes by others and *)
(* failures: a command acts once, has one reply, and the reply is true and *)
(* there before the command is settled.  The publisher, for any alerts,    *)
(* approvals and reports and any number of episodes and failures.          *)
(***************************************************************************)
EXTENDS BridgeReactions, MobileCommands, BridgePublisher, TLAPS

-----------------------------------------------------------------------------
(* REACTIONS                                                               *)

\* Event i of queue q was handed out.
Sent(q, i) == q \in 1 .. Len(events) /\ i \in 1 .. Len(events[q])

\* The submission that event i of queue q leads to.
SubmissionOf(q, i) ==
  [source |-> Source(q, i), action |-> EventOf(q, i).action,
   by |-> EventOf(q, i).user, verdict |-> EventOf(q, i).verdict]

\* What is stored is about events that were sent; the decision with the source
\* of an event says what the event says.
SentInv ==
  /\ gone \subseteq 1 .. Len(events)
  /\ \A p \in processed : Sent(p.queue, p.id)
  /\ \A d \in decisions : /\ Sent(d.source[1], d.source[2])
                          /\ d = SubmissionOf(d.source[1], d.source[2])

InBatch == site \in {"event", "submit", "commit"}

\* The cursors are registered queues, the one in memory is never ahead of the
\* stored one.
CursorInv ==
  /\ cursor = NoCursor \/ cursor.queue \in 1 .. Len(events)
  /\ site = "register" => current.queue \in 1 .. Len(events) /\ current.last = 0
  /\ site = "poll" \/ InBatch =>
       /\ current.queue \in 1 .. Len(events)
       /\ cursor.queue = current.queue
       /\ current.last <= cursor.last
  /\ InBatch => polled.queue = current.queue /\ polled.last <= current.last

\* What is left of a batch are successive events, and none is missing between
\* the cursor and the first of them.
BatchInv ==
  /\ ~InBatch => batch = << >>
  /\ \A k \in 1 .. Len(batch) : /\ Sent(current.queue, batch[k])
                                /\ batch[k] = batch[1] + (k - 1)
  /\ batch # << >> => batch[1] <= current.last + 1
  /\ site \in {"submit", "commit"} => batch # << >>

\* Outcome o of event i of queue q is what the broker did with it.
Tells(o, q, i) ==
  /\ o \in Verdicts =>
       \E d \in Prior(Source(q, i)) : /\ d.action = EventOf(q, i).action
                                      /\ d.by = EventOf(q, i).user
                                      /\ d.verdict = o
  /\ o = "broker_rejected" => Prior(Source(q, i)) = {}

Stored == Verdicts \cup {"broker_rejected", "ignored", "duplicate"}

\* An event is submitted only while nothing is stored of it, and the outcome
\* about to be stored is the broker's.
OutcomeInv ==
  /\ site = "submit" => ~Done(current.queue, batch[1])
  /\ site = "commit" => /\ outcome \in Stored
                        /\ \/ Done(current.queue, batch[1])
                           \/ Tells(outcome, current.queue, batch[1])

IInv ==
  /\ ReactionsTypeOK /\ SentInv /\ CursorInv /\ BatchInv /\ OutcomeInv
  /\ OutcomeTellsBroker /\ NothingSkipped

-----------------------------------------------------------------------------
(* Events are only added.                                                  *)

Grows ==
  /\ Len(events) <= Len(events')
  /\ \A q \in 1 .. Len(events) :
       /\ Len(events[q]) <= Len(events'[q])
       /\ \A i \in 1 .. Len(events[q]) : events'[q][i] = events[q][i]

\* What was sent stays, and stays what it was.
LEMMA SentStays ==
  ASSUME events \in Seq(Seq(Event)), events' \in Seq(Seq(Event)), Grows,
         NEW q, NEW i, Sent(q, i)
  PROVE  /\ Sent(q, i)' /\ EventOf(q, i)' = EventOf(q, i)
         /\ SubmissionOf(q, i)' = SubmissionOf(q, i)
<1>1. q \in 1 .. Len(events) /\ i \in 1 .. Len(events[q])
  BY DEF Sent
<1>2. q \in 1 .. Len(events') /\ Len(events[q]) \in Nat /\ Len(events'[q]) \in Nat
  BY <1>1 DEF Grows
<1>3. Sent(q, i)' /\ events'[q][i] = events[q][i]
  BY <1>1, <1>2 DEF Grows, Sent
<1> QED
  BY <1>3 DEF EventOf, SubmissionOf, Source

\* New events change nothing of what is stored.
LEMMA GrowthKeeps ==
  ASSUME IInv, events' \in Seq(Seq(Event)), Grows, gone' \subseteq 1 .. Len(events'),
         UNCHANGED <<processed, decisions>>
  PROVE  SentInv' /\ OutcomeTellsBroker'
<1>t. ReactionsTypeOK /\ SentInv /\ OutcomeTellsBroker /\ events \in Seq(Seq(Event))
  BY DEF IInv, ReactionsTypeOK
<1>1. \A p \in processed : /\ Sent(p.queue, p.id)'
                            /\ EventOf(p.queue, p.id)' = EventOf(p.queue, p.id)
  BY <1>t, SentStays DEF SentInv
<1>2. \A d \in decisions : /\ Sent(d.source[1], d.source[2])'
                            /\ d = SubmissionOf(d.source[1], d.source[2])'
  BY <1>t, SentStays DEF SentInv
<1>3. \A q, i : Prior(Source(q, i))' = Prior(Source(q, i))
  BY DEF Prior, Source
<1>4. OutcomeTellsBroker'
  BY <1>t, <1>1, <1>3 DEF OutcomeTellsBroker
<1> QED
  BY <1>1, <1>2, <1>4 DEF SentInv

\* The outcome of an event that was sent tells the same later.
LEMMA TellsStays ==
  ASSUME events \in Seq(Seq(Event)), events' \in Seq(Seq(Event)), Grows,
         UNCHANGED decisions, NEW q, NEW i, Sent(q, i), NEW o, Tells(o, q, i)
  PROVE  Tells(o, q, i)'
<1>1. EventOf(q, i)' = EventOf(q, i)
  BY SentStays
<1>2. Prior(Source(q, i))' = Prior(Source(q, i))
  BY DEF Prior, Source
<1> QED
  BY <1>1, <1>2 DEF Tells

-----------------------------------------------------------------------------
(* What other people and programs do leaves the consumer where it stands.   *)

LEMMA WorldStep ==
  ASSUME IInv, events' \in Seq(Seq(Event)), Grows, gone' \subseteq 1 .. Len(events'),
         status' \in [Actions -> {"pending", "decided", "closed"}],
         UNCHANGED <<decisions, stored, misses, site, batchVars>>
  PROVE  IInv'
<1>t. /\ ReactionsTypeOK /\ SentInv /\ CursorInv /\ BatchInv /\ OutcomeInv
      /\ NothingSkipped /\ events \in Seq(Seq(Event))
  BY DEF IInv, ReactionsTypeOK
<1>u. /\ decisions' = decisions /\ cursor' = cursor /\ processed' = processed
      /\ misses' = misses /\ site' = site /\ polled' = polled /\ current' = current
      /\ batch' = batch /\ outcome' = outcome
  BY DEF stored, batchVars
<1>1. SentInv' /\ OutcomeTellsBroker'
  BY <1>u, GrowthKeeps
<1>2. ReactionsTypeOK'
  <2>1. gone' \subseteq Ids
    BY DEF Ids
  <2> QED
    BY <1>t, <1>u, <2>1 DEF ReactionsTypeOK
<1>3. \A q, i : Sent(q, i) => Sent(q, i)'
  BY <1>t, SentStays
<1>4. CursorInv'
  <2>1. Len(events) \in Nat /\ Len(events') \in Nat /\ Len(events) <= Len(events')
    BY <1>t DEF Grows
  <2> QED
    BY <1>t, <1>u, <2>1 DEF CursorInv, InBatch
<1>5. BatchInv'
  BY <1>t, <1>u, <1>3 DEF BatchInv, InBatch
<1>6. \A q, i : Done(q, i)' <=> Done(q, i)
  BY <1>u DEF Done
<1>7. OutcomeInv'
  <2>1. site = "commit" => Sent(current.queue, batch[1])
    <3>1. ASSUME site = "commit" PROVE 1 \in 1 .. Len(batch)
      BY <1>t, <3>1 DEF BatchInv, ReactionsTypeOK
    <3> QED
      BY <1>t, <3>1 DEF BatchInv
  <2>2. site = "commit" /\ Tells(outcome, current.queue, batch[1]) =>
          Tells(outcome, current.queue, batch[1])'
    BY <1>t, <1>u, <2>1, TellsStays
  <2> QED
    BY <1>t, <1>u, <1>6, <2>2 DEF OutcomeInv
<1>8. NothingSkipped'
  BY <1>t, <1>u, <1>6 DEF NothingSkipped
<1> QED
  BY <1>1, <1>2, <1>4, <1>5, <1>7, <1>8 DEF IInv

LEMMA ReactStep ==
  ASSUME IInv, NEW e \in Event, React(e)
  PROVE  IInv'
<1>t. events \in Seq(Seq(Event)) /\ ReactionsTypeOK /\ SentInv
  BY DEF IInv, ReactionsTypeOK
<1>1. \A q \in 1 .. Len(events) : events[q] \in Seq(Event) /\ Append(events[q], e) \in Seq(Event)
  BY <1>t
<1>2. events' = [q \in 1 .. Len(events) |->
                   IF q \in Live THEN Append(events[q], e) ELSE events[q]]
  BY DEF React
<1>3. Len(events) \in Nat
  BY <1>t
<1>4. events' \in Seq(Seq(Event)) /\ Len(events') = Len(events)
  BY <1>1, <1>2, <1>3
<1>5. ASSUME NEW q \in 1 .. Len(events)
      PROVE  /\ Len(events[q]) <= Len(events'[q])
             /\ \A i \in 1 .. Len(events[q]) : events'[q][i] = events[q][i]
  <2>1. events'[q] = Append(events[q], e) \/ events'[q] = events[q]
    BY <1>2
  <2>2. events[q] \in Seq(Event)
    BY <1>1
  <2> QED
    BY <2>1, <2>2
<1>6. Grows
  BY <1>3, <1>4, <1>5 DEF Grows
<1>7. /\ gone' \subseteq 1 .. Len(events')
      /\ status' \in [Actions -> {"pending", "decided", "closed"}]
      /\ UNCHANGED <<decisions, stored, misses, site, batchVars>>
  BY <1>t, <1>4 DEF React, SentInv, ReactionsTypeOK, broker
<1> QED
  BY <1>4, <1>6, <1>7, WorldStep

LEMMA SameEventsGrow ==
  ASSUME events \in Seq(Seq(Event)), UNCHANGED events
  PROVE  events' \in Seq(Seq(Event)) /\ Grows
BY DEF Grows

LEMMA AroundStep ==
  ASSUME IInv, AroundConsumer
  PROVE  IInv'
<1>t. events \in Seq(Seq(Event)) /\ ReactionsTypeOK /\ SentInv
  BY DEF IInv, ReactionsTypeOK
<1>1. ASSUME NEW q \in 1 .. MaxQueues, Collect(q) PROVE IInv'
  <2>1. /\ events' = events /\ gone' = gone \cup {q} /\ q \in 1 .. Len(events)
        /\ status' = status /\ UNCHANGED <<decisions, stored, misses, site, batchVars>>
    BY <1>1 DEF Collect, Live, broker
  <2>2. gone' \subseteq 1 .. Len(events')
    BY <1>t, <2>1 DEF SentInv
  <2>3. status' \in [Actions -> {"pending", "decided", "closed"}]
    BY <1>t, <2>1 DEF ReactionsTypeOK
  <2> QED
    BY <1>t, <2>1, <2>2, <2>3, SameEventsGrow, WorldStep
<1>2. ASSUME NEW a \in Actions, SettleElsewhere(a) PROVE IInv'
  <2>1. /\ events' = events /\ gone' = gone /\ status' = [status EXCEPT ![a] = "closed"]
        /\ UNCHANGED <<decisions, stored, misses, site, batchVars>>
    BY <1>2 DEF SettleElsewhere, queues
  <2>2. gone' \subseteq 1 .. Len(events')
    BY <1>t, <2>1 DEF SentInv
  <2>3. status' \in [Actions -> {"pending", "decided", "closed"}]
    BY <1>t, <2>1 DEF ReactionsTypeOK
  <2> QED
    BY <1>t, <2>1, <2>2, <2>3, SameEventsGrow, WorldStep
<1> QED
  BY <1>1, <1>2, ReactStep DEF AroundConsumer

-----------------------------------------------------------------------------
(* The steps of the consumer that store nothing of an event.                *)

LEMMA NothingStored ==
  ASSUME IInv, UNCHANGED <<queues, decisions, processed>>,
         cursor' = cursor \/ cursor'.last = 0
  PROVE  /\ SentInv' /\ OutcomeTellsBroker' /\ NothingSkipped'
         /\ \A q, i : (Sent(q, i)' <=> Sent(q, i)) /\ (Done(q, i)' <=> Done(q, i))
<1>t. events \in Seq(Seq(Event)) /\ SentInv /\ NothingSkipped
  BY DEF IInv, ReactionsTypeOK
<1>u. events' = events /\ gone' = gone /\ decisions' = decisions /\ processed' = processed
  BY DEF queues
<1>1. SentInv' /\ OutcomeTellsBroker'
  BY <1>t, <1>u, SameEventsGrow, GrowthKeeps DEF SentInv
<1>2. \A q, i : (Sent(q, i)' <=> Sent(q, i)) /\ (Done(q, i)' <=> Done(q, i))
  BY <1>u DEF Sent, Done
<1>3. NothingSkipped'
  BY <1>t, <1>2 DEF NothingSkipped
<1> QED
  BY <1>1, <1>2, <1>3

\* The consumer is where no batch is in progress.
LEMMA OutsideBatch ==
  ASSUME IInv, ReactionsTypeOK', UNCHANGED <<gone, decisions, processed>>,
         SentInv', OutcomeTellsBroker', NothingSkipped',
         site' \notin {"event", "submit", "commit"}, batch' = << >>,
         cursor' = NoCursor \/ cursor'.queue \in 1 .. Len(events'),
         site' = "register" => current'.queue \in 1 .. Len(events') /\ current'.last = 0,
         site' = "poll" => /\ current'.queue \in 1 .. Len(events')
                           /\ cursor'.queue = current'.queue
                           /\ current'.last <= cursor'.last
  PROVE  IInv'
BY DEF IInv, CursorInv, BatchInv, OutcomeInv, InBatch

LEMMA CursorSteps ==
  ASSUME IInv, ConsumerStarts \/ LoadCursor \/ SaveCursor \/ QueueExpired
  PROVE  IInv'
<1>t. /\ ReactionsTypeOK /\ SentInv /\ CursorInv /\ BatchInv /\ NothingSkipped
      /\ events \in Seq(Seq(Event)) /\ Len(events) \in Nat
      /\ current \in Cursor /\ cursor \in Cursor
  BY DEF IInv, ReactionsTypeOK
<1>1. CASE ConsumerStarts
  <2>1. /\ site' = "cursor" /\ batch' = batch /\ cursor' = cursor /\ polled' = polled
        /\ current' = current /\ outcome' = outcome /\ misses' = misses /\ site = "down"
        /\ UNCHANGED <<queues, decisions, processed>> /\ status' = status
        /\ events' = events /\ gone' = gone
    BY <1>1 DEF ConsumerStarts, batchVars, stored, broker, queues
  <2>2. ReactionsTypeOK'
    BY <1>t, <2>1 DEF ReactionsTypeOK, ConsumerSites
  <2>3. batch' = << >> /\ (cursor' = NoCursor \/ cursor'.queue \in 1 .. Len(events'))
    BY <1>t, <2>1 DEF BatchInv, InBatch, CursorInv
  <2> QED
    BY <2>1, <2>2, <2>3, NothingStored, OutsideBatch
<1>2. CASE LoadCursor
  <2>1. /\ site = "cursor" /\ gone' = gone /\ status' = status /\ decisions' = decisions
        /\ cursor' = cursor /\ processed' = processed /\ misses' = misses
        /\ polled' = polled /\ batch' = batch /\ outcome' = outcome
    BY <1>2 DEF LoadCursor, broker, stored
  <2>2. batch' = << >>
    BY <1>t, <2>1 DEF BatchInv, InBatch
  <2>3. CASE cursor # NoCursor /\ current' = cursor /\ site' = "poll" /\ events' = events
    <3>1. ReactionsTypeOK'
      BY <1>t, <2>1, <2>3 DEF ReactionsTypeOK, ConsumerSites
    <3>2. UNCHANGED <<queues, decisions, processed>>
      BY <2>1, <2>3 DEF queues
    <3>3. cursor.queue \in 1 .. Len(events)
      BY <1>t, <2>3 DEF CursorInv
    <3>4. cursor.last <= cursor.last
      BY <1>t DEF Cursor
    <3> QED
      BY <2>1, <2>2, <2>3, <3>1, <3>2, <3>3, <3>4, NothingStored, OutsideBatch
  <2>4. CASE /\ events' = Append(events, << >>) /\ site' = "register"
             /\ current' = [queue |-> Len(events) + 1, last |-> 0]
    <3>1. events' \in Seq(Seq(Event)) /\ Len(events') = Len(events) + 1
      BY <1>t, <2>4
    <3>2. Grows
      <4>1. \A q \in 1 .. Len(events) : events'[q] = events[q] /\ events[q] \in Seq(Event)
        BY <1>t, <2>4
      <4> QED
        BY <1>t, <3>1, <4>1 DEF Grows
    <3>3. current' \in Cursor /\ current'.queue = Len(events') /\ current'.last = 0
      BY <1>t, <2>4, <3>1 DEF Cursor
    <3>4. ReactionsTypeOK'
      BY <1>t, <2>1, <2>4, <3>1, <3>3 DEF ReactionsTypeOK, ConsumerSites
    <3>5. gone' \subseteq 1 .. Len(events')
      BY <1>t, <2>1, <3>1 DEF SentInv
    <3>6. SentInv' /\ OutcomeTellsBroker'
      BY <2>1, <3>1, <3>2, <3>5, GrowthKeeps
    <3>7. NothingSkipped'
      BY <1>t, <2>1 DEF NothingSkipped, Done
    <3>8. /\ current'.queue \in 1 .. Len(events')
          /\ cursor' = NoCursor \/ cursor'.queue \in 1 .. Len(events')
      BY <1>t, <2>1, <3>1, <3>3 DEF CursorInv
    <3> QED
      BY <2>1, <2>2, <2>4, <3>3, <3>4, <3>6, <3>7, <3>8, OutsideBatch
  <2> QED
    BY <1>2, <2>3, <2>4 DEF LoadCursor
<1>3. CASE SaveCursor
  <2>1. /\ site = "register" /\ cursor' = current /\ site' = "poll" /\ events' = events
        /\ gone' = gone /\ status' = status /\ decisions' = decisions
        /\ processed' = processed /\ misses' = misses /\ polled' = polled
        /\ current' = current /\ batch' = batch /\ outcome' = outcome
        /\ UNCHANGED <<queues, decisions, processed>>
    BY <1>3 DEF SaveCursor, queues, broker, batchVars
  <2>2. current.queue \in 1 .. Len(events) /\ current.last = 0 /\ batch = << >>
    BY <1>t, <2>1 DEF CursorInv, BatchInv, InBatch
  <2>3. ReactionsTypeOK'
    BY <1>t, <2>1 DEF ReactionsTypeOK, ConsumerSites
  <2> QED
    BY <2>1, <2>2, <2>3, NothingStored, OutsideBatch
<1>4. CASE QueueExpired
  <2>1. /\ site = "poll" /\ site' = "cursor" /\ cursor' \in {NoCursor, cursor}
        /\ events' = events
        /\ gone' = gone /\ status' = status /\ decisions' = decisions
        /\ processed' = processed /\ misses' = misses /\ polled' = polled
        /\ current' = current /\ batch' = batch /\ outcome' = outcome
        /\ UNCHANGED <<queues, decisions, processed>>
    BY <1>4 DEF QueueExpired, queues, broker, batchVars
  <2>2. batch' = << >> /\ (cursor' = NoCursor \/ cursor'.queue \in 1 .. Len(events'))
    BY <1>t, <2>1 DEF BatchInv, InBatch, CursorInv
  <2>3. NoCursor \in Cursor /\ NoCursor.last = 0
    BY DEF NoCursor, Cursor
  <2>4. ReactionsTypeOK'
    BY <1>t, <2>1, <2>3 DEF ReactionsTypeOK, ConsumerSites
  <2> QED
    BY <2>1, <2>2, <2>3, <2>4, NothingStored, OutsideBatch
<1> QED
  BY <1>1, <1>2, <1>3, <1>4

-----------------------------------------------------------------------------
(* A batch: its events, one after the other.                                *)

\* The first event of a batch that is not empty, and what is left of it.
LEMMA BatchHead ==
  ASSUME IInv, batch # << >>
  PROVE  /\ Head(batch) = batch[1] /\ batch[1] \in Ids /\ 1 \in 1 .. Len(batch)
         /\ Sent(current.queue, batch[1])
         /\ Tail(batch) \in Seq(Ids)
         /\ Tail(batch) # << >> => Tail(batch)[1] = batch[1] + 1
         /\ \A k \in 1 .. Len(Tail(batch)) :
              /\ Sent(current.queue, Tail(batch)[k])
              /\ Tail(batch)[k] = Tail(batch)[1] + (k - 1)
<1>t. batch \in Seq(Ids) /\ BatchInv
  BY DEF IInv, ReactionsTypeOK
<1>1. /\ Len(batch) \in Nat /\ Len(batch) # 0 /\ Head(batch) = batch[1]
      /\ Tail(batch) \in Seq(Ids) /\ Len(Tail(batch)) = Len(batch) - 1
      /\ \A k \in 1 .. Len(Tail(batch)) : Tail(batch)[k] = batch[k + 1]
      /\ Tail(batch) # << >> => Len(Tail(batch)) # 0
  BY <1>t
<1>2. 1 \in 1 .. Len(batch) /\ batch[1] \in Ids /\ Sent(current.queue, batch[1])
  BY <1>t, <1>1 DEF BatchInv
<1>3. ASSUME NEW k \in 1 .. Len(Tail(batch))
      PROVE  /\ Sent(current.queue, Tail(batch)[k])
             /\ Tail(batch)[k] = batch[1] + k
  <2>1. k + 1 \in 1 .. Len(batch) /\ Tail(batch)[k] = batch[k + 1]
    BY <1>1
  <2>2. batch[k + 1] = batch[1] + ((k + 1) - 1) /\ Sent(current.queue, batch[k + 1])
    BY <1>t, <2>1 DEF BatchInv
  <2> QED
    BY <1>2, <2>1, <2>2 DEF Ids
<1>4. ASSUME Tail(batch) # << >> PROVE Tail(batch)[1] = batch[1] + 1
  <2>1. 1 \in 1 .. Len(Tail(batch))
    BY <1>1, <1>4
  <2> QED
    BY <1>3, <2>1
<1>5. ASSUME NEW k \in 1 .. Len(Tail(batch))
      PROVE  Tail(batch)[k] = Tail(batch)[1] + (k - 1)
  <2>1. Tail(batch)[k] = batch[1] + k /\ Tail(batch)[1] = batch[1] + 1
    BY <1>1, <1>3, <1>4, <1>5
  <2> QED
    BY <1>2, <2>1 DEF Ids
<1> QED
  BY <1>1, <1>2, <1>3, <1>4, <1>5

\* A failed request ends the batch with the cursor the poll had sent.
LEMMA RetryStep ==
  ASSUME IInv, InBatch, Retry, MayMiss, UNCHANGED <<queues, stored>>,
         SentInv', OutcomeTellsBroker',
         status' \in [Actions -> {"pending", "decided", "closed"}],
         decisions' \subseteq [source : Ids \X Ids, action : Actions, by : People,
                               verdict : Verdicts]
  PROVE  IInv'
<1>t. ReactionsTypeOK /\ CursorInv /\ NothingSkipped /\ polled \in Cursor
      /\ current \in Cursor /\ cursor \in Cursor /\ misses \in Nat
  BY DEF IInv, ReactionsTypeOK
<1>1. /\ events' = events /\ gone' = gone /\ cursor' = cursor /\ processed' = processed
      /\ misses' = misses + 1 /\ site' = "poll" /\ batch' = << >> /\ outcome' = NoOutcome
      /\ current' = polled /\ polled' = polled
  BY DEF Retry, MayMiss, queues, stored
<1>2. ReactionsTypeOK'
  BY <1>t, <1>1 DEF ReactionsTypeOK, ConsumerSites
<1>3. NothingSkipped'
  BY <1>t, <1>1 DEF NothingSkipped, Done
<1>4. /\ current.queue \in 1 .. Len(events) /\ cursor.queue = current.queue
      /\ polled.queue = current.queue /\ polled.last <= cursor.last
  BY <1>t DEF CursorInv, Cursor
<1>5. CursorInv' /\ BatchInv' /\ OutcomeInv'
  BY <1>1, <1>4 DEF CursorInv, BatchInv, OutcomeInv, InBatch
<1> QED
  BY <1>2, <1>3, <1>5 DEF IInv

LEMMA FailureSteps ==
  ASSUME IInv, ConsumerDies \/ LookupFails \/ EndBatch
  PROVE  IInv'
<1>t. /\ ReactionsTypeOK /\ SentInv /\ CursorInv /\ BatchInv /\ misses \in Nat
  BY DEF IInv, ReactionsTypeOK
<1>1. CASE ConsumerDies
  <2>1. /\ events' = events /\ gone' = gone /\ status' = status /\ decisions' = decisions
        /\ cursor' = cursor /\ processed' = processed /\ misses' = misses + 1
        /\ site' = "down" /\ polled' = NoCursor /\ current' = NoCursor
        /\ batch' = << >> /\ outcome' = NoOutcome
        /\ UNCHANGED <<queues, decisions, processed>>
    BY <1>1 DEF ConsumerDies, MayMiss, queues, broker, stored
  <2>2. ReactionsTypeOK'
    BY <1>t, <2>1 DEF ReactionsTypeOK, ConsumerSites, NoCursor, Cursor
  <2>3. cursor' = NoCursor \/ cursor'.queue \in 1 .. Len(events')
    BY <1>t, <2>1 DEF CursorInv
  <2> QED
    BY <2>1, <2>2, <2>3, NothingStored, OutsideBatch
<1>2. CASE LookupFails
  <2>1. /\ site = "event" /\ MayMiss /\ Retry /\ UNCHANGED <<queues, stored>>
        /\ status' = status /\ decisions' = decisions /\ cursor' = cursor
        /\ UNCHANGED <<queues, decisions, processed>>
    BY <1>2 DEF LookupFails, broker, stored
  <2>2. /\ status' \in [Actions -> {"pending", "decided", "closed"}]
        /\ decisions' \subseteq [source : Ids \X Ids, action : Actions, by : People,
                                 verdict : Verdicts]
    BY <1>t, <2>1 DEF ReactionsTypeOK
  <2> QED
    BY <2>1, <2>2, NothingStored, RetryStep DEF InBatch
<1>3. CASE EndBatch
  <2>1. /\ site = "event" /\ batch = << >> /\ site' = "poll"
        /\ events' = events /\ gone' = gone /\ status' = status /\ decisions' = decisions
        /\ cursor' = cursor /\ processed' = processed /\ misses' = misses
        /\ polled' = polled /\ current' = current
        /\ batch' = batch /\ outcome' = outcome
        /\ UNCHANGED <<queues, decisions, processed>>
    BY <1>3 DEF EndBatch, queues, broker, stored, batchVars
  <2>2. ReactionsTypeOK'
    BY <1>t, <2>1 DEF ReactionsTypeOK, ConsumerSites
  <2>3. /\ current'.queue \in 1 .. Len(events') /\ cursor'.queue = current'.queue
        /\ current'.last <= cursor'.last
    BY <1>t, <2>1 DEF CursorInv, InBatch
  <2> QED
    BY <2>1, <2>2, <2>3, NothingStored, OutsideBatch
<1> QED
  BY <1>1, <1>2, <1>3

\* A poll returns what was sent after the cursor.
LEMMA GetEventsStep ==
  ASSUME IInv, GetEvents
  PROVE  IInv'
<1>t. /\ ReactionsTypeOK /\ CursorInv /\ events \in Seq(Seq(Event)) /\ gone \subseteq 1 .. Len(events)
      /\ current \in Cursor /\ cursor \in Cursor
  BY DEF IInv, ReactionsTypeOK, SentInv
<1>1. /\ site = "poll" /\ current.queue \in 1 .. Len(events)
      /\ Len(events[current.queue]) > current.last
      /\ batch' = [i \in 1 .. (Len(events[current.queue]) - current.last) |-> current.last + i]
      /\ events' = events /\ gone' = gone /\ status' = status /\ decisions' = decisions
      /\ cursor' = cursor /\ processed' = processed /\ misses' = misses
      /\ polled' = current /\ current' = current /\ outcome' = outcome /\ site' = "event"
      /\ UNCHANGED <<queues, decisions, processed>>
  BY DEF GetEvents, Live, queues, broker, stored
<1>2. PICK n \in Nat : n = Len(events[current.queue]) - current.last
  <2>1. Len(events[current.queue]) \in Nat /\ current.last \in Nat
    BY <1>t, <1>1 DEF Cursor
  <2> QED
    BY <1>1, <2>1
<1>3. current.last \in Nat /\ batch' = [i \in 1 .. n |-> current.last + i]
  BY <1>t, <1>1, <1>2 DEF Cursor
<1>4. \A i \in 1 .. n : current.last + i \in Ids
  BY <1>2, <1>3 DEF Ids
<1>5. /\ batch' \in Seq(Ids) /\ Len(batch') = n
      /\ \A k \in 1 .. n : batch'[k] = current.last + k
  BY <1>2, <1>3, <1>4
<1>6. \A k \in 1 .. n : Sent(current.queue, current.last + k)
  BY <1>t, <1>1, <1>2, <1>3 DEF Sent
<1>7. ReactionsTypeOK'
  BY <1>t, <1>1, <1>5 DEF ReactionsTypeOK, ConsumerSites
<1>8. CursorInv'
  BY <1>t, <1>1 DEF CursorInv, InBatch, Cursor
<1>9. BatchInv'
  <2>1. ASSUME NEW k \in 1 .. n
        PROVE  /\ Sent(current.queue, batch'[k])
               /\ batch'[k] = batch'[1] + (k - 1)
    <3>1. batch'[k] = current.last + k /\ batch'[1] = current.last + 1
      BY <1>2, <1>5
    <3> QED
      BY <1>3, <1>6, <3>1
  <2>2. batch' # << >> /\ batch'[1] <= current.last + 1 /\ n # 0
    BY <1>1, <1>2, <1>3, <1>5
  <2> QED
    BY <1>1, <1>5, <2>1, <2>2 DEF BatchInv, InBatch, Sent
<1>10. OutcomeInv'
  BY <1>1 DEF OutcomeInv
<1> QED
  BY <1>1, <1>7, <1>8, <1>9, <1>10, NothingStored DEF IInv

LEMMA SkipStep ==
  ASSUME IInv, Skip
  PROVE  IInv'
<1>t. ReactionsTypeOK /\ CursorInv /\ BatchInv /\ current \in Cursor
  BY DEF IInv, ReactionsTypeOK
<1>1. /\ site = "event" /\ batch # << >> /\ Head(batch) <= current.last
      /\ batch' = Tail(batch) /\ site' = site
      /\ events' = events /\ gone' = gone /\ status' = status /\ decisions' = decisions
      /\ cursor' = cursor /\ processed' = processed /\ misses' = misses
      /\ polled' = polled /\ current' = current /\ outcome' = outcome
      /\ UNCHANGED <<queues, decisions, processed>>
  BY DEF Skip, queues, broker, stored
<1>2. /\ Head(batch) = batch[1] /\ batch[1] \in Ids /\ Tail(batch) \in Seq(Ids)
      /\ Tail(batch) # << >> => Tail(batch)[1] = batch[1] + 1
      /\ \A k \in 1 .. Len(Tail(batch)) :
           /\ Sent(current.queue, Tail(batch)[k])
           /\ Tail(batch)[k] = Tail(batch)[1] + (k - 1)
  BY <1>1, BatchHead
<1>3. ReactionsTypeOK'
  BY <1>t, <1>1, <1>2 DEF ReactionsTypeOK
<1>4. CursorInv'
  BY <1>t, <1>1 DEF CursorInv, InBatch
<1>5. BatchInv'
  <2>1. Tail(batch) # << >> => Tail(batch)[1] <= current.last + 1
    <3>1. PICK h \in Int : h = batch[1]
      BY <1>2 DEF Ids
    <3>2. PICK n \in Int : n = current.last
      BY <1>t DEF Cursor
    <3>3. h <= n /\ (Tail(batch) # << >> => Tail(batch)[1] = h + 1)
      BY <1>1, <1>2, <3>1, <3>2
    <3>4. h + 1 <= n + 1
      BY <3>3
    <3> QED BY <3>2, <3>3, <3>4
  <2> QED
    BY <1>1, <1>2, <2>1 DEF BatchInv, InBatch, Sent
<1>6. OutcomeInv'
  BY <1>1 DEF OutcomeInv
<1> QED
  BY <1>1, <1>3, <1>4, <1>5, <1>6, NothingStored DEF IInv

LEMMA HandleEventStep ==
  ASSUME IInv, HandleEvent
  PROVE  IInv'
<1>t. ReactionsTypeOK /\ CursorInv /\ BatchInv
  BY DEF IInv, ReactionsTypeOK
<1>1. /\ site = "event" /\ batch # << >>
      /\ \/ Done(current.queue, Head(batch)) /\ outcome' = "duplicate" /\ site' = "commit"
         \/ outcome' = "ignored" /\ site' = "commit"
         \/ ~Done(current.queue, Head(batch)) /\ outcome' = outcome /\ site' = "submit"
      /\ events' = events /\ gone' = gone /\ status' = status /\ decisions' = decisions
      /\ cursor' = cursor /\ processed' = processed /\ misses' = misses
      /\ polled' = polled /\ current' = current /\ batch' = batch
      /\ UNCHANGED <<queues, decisions, processed>>
  BY DEF HandleEvent, queues, broker, stored
<1>2. Head(batch) = batch[1]
  BY <1>1, BatchHead
<1>3. ReactionsTypeOK'
  BY <1>t, <1>1 DEF ReactionsTypeOK, ConsumerSites
<1>4. CursorInv'
  BY <1>t, <1>1 DEF CursorInv, InBatch
<1>5. BatchInv'
  BY <1>t, <1>1 DEF BatchInv, InBatch, Sent
<1>6. OutcomeInv'
  <2>1. \A q, i : Done(q, i)' <=> Done(q, i)
    BY <1>1 DEF Done
  <2>2. /\ "ignored" \notin Verdicts /\ "duplicate" \notin Verdicts
        /\ {"ignored", "duplicate"} \subseteq Stored
    BY DEF Verdicts, Stored
  <2>3. outcome' = "ignored" => Tells(outcome, current.queue, batch[1])'
    BY <2>2 DEF Tells
  <2>4. CASE site' = "submit"
    BY <1>1, <1>2, <2>1, <2>4 DEF OutcomeInv
  <2>5. CASE site' = "commit" /\ outcome' = "ignored"
    BY <2>2, <2>3, <2>5 DEF OutcomeInv
  <2>6. CASE site' = "commit" /\ outcome' = "duplicate" /\ Done(current.queue, batch[1])
    BY <1>1, <2>1, <2>2, <2>6 DEF OutcomeInv
  <2> QED
    BY <1>1, <1>2, <2>4, <2>5, <2>6
<1> QED
  BY <1>1, <1>3, <1>4, <1>5, <1>6, NothingStored DEF IInv

-----------------------------------------------------------------------------
(* The decision of the broker and the commit of its outcome.                *)

\* What the broker answers to the submission of the event in progress.
BrokerAnswer == IF Accepts(Submission) THEN Submission.verdict ELSE "broker_rejected"

\* The broker takes the submission of the event in progress, or refuses it:
\* what it holds afterwards of this event is what it answers.
LEMMA DecideStep ==
  ASSUME IInv, site = "submit", Decide(Submission), UNCHANGED <<queues, stored>>
  PROVE  /\ SentInv' /\ OutcomeTellsBroker'
         /\ status' \in [Actions -> {"pending", "decided", "closed"}]
         /\ decisions' \subseteq [source : Ids \X Ids, action : Actions, by : People,
                                  verdict : Verdicts]
         /\ BrokerAnswer \in Stored
         /\ \A q, i, o : q = current.queue /\ i = batch[1] /\ o = BrokerAnswer => Tells(o, q, i)'
<1>t. /\ ReactionsTypeOK /\ SentInv /\ BatchInv /\ OutcomeInv /\ OutcomeTellsBroker
      /\ events \in Seq(Seq(Event))
  BY DEF IInv, ReactionsTypeOK
<1>0. PICK q, i : q = current.queue /\ i = batch[1]
  OBVIOUS
<1>u. /\ events' = events /\ gone' = gone /\ processed' = processed /\ cursor' = cursor
  BY DEF queues, stored
<1>1. /\ Head(batch) = i /\ Sent(q, i) /\ ~Done(q, i)
  BY <1>t, <1>0, BatchHead DEF BatchInv, OutcomeInv
<1>2. q \in Ids /\ i \in Ids /\ EventOf(q, i) \in Event
  <2>1. Len(events) \in Nat /\ events[q] \in Seq(Event) /\ Len(events[q]) \in Nat
    BY <1>t, <1>1 DEF Sent
  <2> QED
    BY <1>1, <2>1 DEF Sent, EventOf, Ids
<1>3. PICK d : d = Submission
  OBVIOUS
<1>4. d = SubmissionOf(q, i)
  BY <1>0, <1>1, <1>3 DEF Submission, SubmissionOf
<1>5. /\ d.source = Source(q, i) /\ d.action = EventOf(q, i).action
      /\ d.by = EventOf(q, i).user /\ d.verdict = EventOf(q, i).verdict
  BY <1>4 DEF SubmissionOf
<1>6. /\ d \in [source : Ids \X Ids, action : Actions, by : People, verdict : Verdicts]
      /\ d.source[1] = q /\ d.source[2] = i
  BY <1>2, <1>4 DEF SubmissionOf, Event, Verdicts, Source
<1>7. \A c \in Prior(d.source) : c = d
  <2>1. SUFFICES ASSUME NEW c \in decisions, c.source = d.source PROVE c = d
    BY DEF Prior
  <2>2. c = SubmissionOf(c.source[1], c.source[2])
    BY <1>t DEF SentInv
  <2> QED
    BY <1>4, <1>6, <2>1, <2>2
<1>8. /\ decisions' = IF Accepts(d) THEN decisions \cup {d} ELSE decisions
      /\ status' = IF Accepts(d) THEN [status EXCEPT ![d.action] = "decided"] ELSE status
  BY <1>3 DEF Decide
<1>9. /\ status' \in [Actions -> {"pending", "decided", "closed"}]
      /\ decisions' \subseteq [source : Ids \X Ids, action : Actions, by : People,
                               verdict : Verdicts]
  BY <1>t, <1>6, <1>8 DEF ReactionsTypeOK
<1>10. SentInv'
  BY <1>t, <1>u, <1>1, <1>4, <1>6, <1>8 DEF SentInv, Sent, SubmissionOf, EventOf, Source
<1>11. ASSUME NEW p \in processed
       PROVE  Prior(Source(p.queue, p.id))' = Prior(Source(p.queue, p.id))
  <2>1. Source(p.queue, p.id) # d.source
    BY <1>1, <1>5 DEF Done, Source
  <2> QED
    BY <1>8, <2>1 DEF Prior, Source
<1>12. OutcomeTellsBroker'
  BY <1>t, <1>u, <1>11 DEF OutcomeTellsBroker, EventOf
<1>13. ASSUME Accepts(d), NEW o, o = d.verdict PROVE Tells(o, q, i)'
  <2>1. d \in decisions'
    BY <1>8, <1>13
  <2>2. d \in Prior(Source(q, i))'
    BY <1>5, <2>1 DEF Prior, Source
  <2>3. d.verdict # "broker_rejected"
    BY <1>6 DEF Verdicts
  <2> QED
    BY <1>u, <1>5, <1>13, <2>2, <2>3 DEF Tells, EventOf
<1>14. ASSUME ~Accepts(d) PROVE Tells("broker_rejected", q, i)'
  <2>1. d \notin decisions /\ decisions' = decisions
    BY <1>8, <1>14 DEF Accepts
  <2>2. Prior(Source(q, i)) = {}
    BY <1>5, <1>7, <2>1 DEF Prior
  <2>3. Prior(Source(q, i))' = {}
    BY <2>1, <2>2 DEF Prior, Source
  <2> QED
    BY <2>3 DEF Tells, Verdicts
<1>15. ASSUME NEW o, o = BrokerAnswer PROVE Tells(o, q, i)'
  BY <1>3, <1>13, <1>14, <1>15 DEF BrokerAnswer
<1>16. BrokerAnswer \in Stored
  BY <1>3, <1>6 DEF BrokerAnswer, Stored
<1> QED
  BY <1>0, <1>9, <1>10, <1>12, <1>15, <1>16

LEMMA SubmitSteps ==
  ASSUME IInv, Submit \/ SubmitFails
  PROVE  IInv'
<1>t. /\ ReactionsTypeOK /\ SentInv /\ CursorInv /\ BatchInv /\ OutcomeInv
      /\ OutcomeTellsBroker /\ NothingSkipped
  BY DEF IInv
<1>1. CASE Submit
  <2>1. /\ site = "submit" /\ Decide(Submission) /\ outcome' = BrokerAnswer /\ site' = "commit"
        /\ events' = events /\ gone' = gone /\ cursor' = cursor /\ processed' = processed
        /\ misses' = misses /\ polled' = polled /\ current' = current /\ batch' = batch
        /\ UNCHANGED <<queues, stored>>
    BY <1>1 DEF Submit, queues, stored, BrokerAnswer
  <2>2. /\ SentInv' /\ OutcomeTellsBroker'
        /\ status' \in [Actions -> {"pending", "decided", "closed"}]
        /\ decisions' \subseteq [source : Ids \X Ids, action : Actions, by : People,
                                 verdict : Verdicts]
        /\ BrokerAnswer \in Stored
        /\ \A q, i, o : q = current.queue /\ i = batch[1] /\ o = BrokerAnswer => Tells(o, q, i)'
    BY <2>1, DecideStep
  <2>3. ReactionsTypeOK'
    BY <1>t, <2>1, <2>2 DEF ReactionsTypeOK, ConsumerSites, Stored
  <2>4. CursorInv'
    BY <1>t, <2>1 DEF CursorInv, InBatch
  <2>5. BatchInv'
    BY <1>t, <2>1 DEF BatchInv, InBatch, Sent
  <2>6. NothingSkipped'
    BY <1>t, <2>1 DEF NothingSkipped, Done
  <2>7. OutcomeInv'
    <3>1. Tells(outcome, current.queue, batch[1])'
      BY <2>1, <2>2
    <3> QED
      BY <2>1, <2>2, <3>1 DEF OutcomeInv
  <2> QED
    BY <2>2, <2>3, <2>4, <2>5, <2>6, <2>7 DEF IInv
<1>2. CASE SubmitFails
  <2>1. site = "submit" /\ MayMiss /\ Retry /\ UNCHANGED <<queues, stored>>
    BY <1>2 DEF SubmitFails
  <2>2. CASE Decide(Submission)
    BY <2>1, <2>2, DecideStep, RetryStep DEF InBatch
  <2>3. CASE UNCHANGED broker
    <3>1. /\ UNCHANGED <<queues, decisions, processed>> /\ cursor' = cursor
          /\ status' = status /\ decisions' = decisions
      BY <2>1, <2>3 DEF broker, stored
    <3>2. SentInv' /\ OutcomeTellsBroker'
      BY <3>1, NothingStored
    <3>3. /\ status' \in [Actions -> {"pending", "decided", "closed"}]
          /\ decisions' \subseteq [source : Ids \X Ids, action : Actions, by : People,
                                   verdict : Verdicts]
      BY <1>t, <3>1 DEF ReactionsTypeOK
    <3> QED
      BY <2>1, <3>2, <3>3, RetryStep DEF InBatch
  <2> QED
    BY <1>2, <2>2, <2>3 DEF SubmitFails
<1> QED
  BY <1>1, <1>2

\* The outcome is stored, once, and the cursor moves over the event.
LEMMA CommitStep ==
  ASSUME IInv, CommitEvent
  PROVE  IInv'
<1>t. /\ ReactionsTypeOK /\ SentInv /\ CursorInv /\ BatchInv /\ OutcomeInv
      /\ OutcomeTellsBroker /\ NothingSkipped /\ cursor \in Cursor /\ current \in Cursor
      /\ polled \in Cursor
  BY DEF IInv, ReactionsTypeOK
<1>0. PICK q, i : q = current.queue /\ i = batch[1]
  OBVIOUS
<1>1. /\ site = "commit" /\ batch # << >> /\ cursor.queue = q
  BY <1>t, <1>0 DEF CommitEvent, BatchInv
<1>2. /\ Head(batch) = i /\ i \in Ids /\ Sent(q, i) /\ Tail(batch) \in Seq(Ids)
      /\ Tail(batch) # << >> => Tail(batch)[1] = i + 1
      /\ \A k \in 1 .. Len(Tail(batch)) :
           /\ Sent(q, Tail(batch)[k])
           /\ Tail(batch)[k] = Tail(batch)[1] + (k - 1)
  BY <1>0, <1>1, BatchHead
<1>3. PICK p : p = [queue |-> q, id |-> i, outcome |-> outcome]
  OBVIOUS
<1>4. /\ processed' = Remember(p) /\ cursor' = CursorAfter(i) /\ current' = cursor'
      /\ batch' = Tail(batch) /\ outcome' = NoOutcome /\ site' = "event"
      /\ events' = events /\ gone' = gone /\ status' = status /\ decisions' = decisions
      /\ misses' = misses /\ polled' = polled
  BY <1>0, <1>2, <1>3 DEF CommitEvent, queues, broker
<1>5. /\ cursor' \in Cursor /\ cursor'.queue = q /\ i <= cursor'.last
      /\ cursor.last <= cursor'.last
      /\ cursor'.last = cursor.last \/ (cursor'.last = i /\ cursor.last < i)
  <2>1. cursor.last \in Nat /\ cursor.queue = q /\ i \in Nat
    BY <1>t, <1>1, <1>2 DEF Cursor, Ids
  <2>2. CASE cursor.last < i
    <3>1. cursor' = [cursor EXCEPT !.last = i]
      BY <1>4, <2>2 DEF CursorAfter
    <3>2. cursor' \in Cursor /\ cursor'.queue = cursor.queue /\ cursor'.last = i
      BY <1>t, <2>1, <3>1 DEF Cursor
    <3> QED
      BY <2>1, <2>2, <3>2
  <2>3. CASE ~(cursor.last < i)
    <3>1. cursor' = cursor
      BY <1>4, <2>3 DEF CursorAfter
    <3>2. i <= cursor.last /\ cursor.last <= cursor.last
      BY <2>1, <2>3
    <3> QED
      BY <1>t, <2>1, <3>1, <3>2
  <2> QED
    BY <2>2, <2>3
<1>6. p.queue = q /\ p.id = i /\ p.outcome = outcome /\ outcome \in Stored
      /\ q \in Ids
  <2>1. q \in Ids
    BY <1>2 DEF Sent, Ids
  <2> QED
    BY <1>t, <1>1, <1>3, <2>1 DEF OutcomeInv
<1>7. /\ processed \subseteq processed' /\ Done(q, i)'
      /\ \A c \in processed' : c \in processed \/ (c = p /\ ~Done(q, i))
  BY <1>4, <1>6 DEF Remember, Done
<1>8. processed' \subseteq [queue : Ids, id : Ids,
                            outcome : Verdicts \cup {"broker_rejected", "ignored", "duplicate"}]
  <2>1. p \in [queue : Ids, id : Ids,
               outcome : Verdicts \cup {"broker_rejected", "ignored", "duplicate"}]
    BY <1>2, <1>3, <1>6 DEF Stored
  <2> QED
    BY <1>t, <1>7, <2>1 DEF ReactionsTypeOK
<1>9. ReactionsTypeOK'
  BY <1>t, <1>2, <1>4, <1>5, <1>8 DEF ReactionsTypeOK, ConsumerSites
<1>10. SentInv'
  BY <1>t, <1>2, <1>4, <1>6, <1>7 DEF SentInv, Sent, SubmissionOf, EventOf, Source
<1>11. CursorInv'
  BY <1>t, <1>0, <1>1, <1>4, <1>5 DEF CursorInv, InBatch, Cursor
<1>12. BatchInv'
  <2>1. Tail(batch) # << >> => Tail(batch)[1] <= cursor'.last + 1
    BY <1>2, <1>5 DEF Ids, Cursor
  <2> QED
    BY <1>2, <1>4, <1>5, <2>1 DEF BatchInv, InBatch, Sent
<1>13. OutcomeInv'
  BY <1>4 DEF OutcomeInv
<1>14. OutcomeTellsBroker'
  <2>1. ~Done(q, i) => Tells(outcome, q, i)
    BY <1>t, <1>0, <1>1 DEF OutcomeInv
  <2>2. \A c \in processed' :
          /\ c.outcome \in Verdicts =>
               \E d \in Prior(Source(c.queue, c.id)) :
                 /\ d.action = EventOf(c.queue, c.id).action
                 /\ d.by = EventOf(c.queue, c.id).user
                 /\ d.verdict = c.outcome
          /\ c.outcome = "broker_rejected" => Prior(Source(c.queue, c.id)) = {}
    BY <1>t, <1>6, <1>7, <2>1 DEF OutcomeTellsBroker, Tells
  <2> QED
    BY <1>4, <2>2 DEF OutcomeTellsBroker, Prior, Source, EventOf
<1>15. NothingSkipped'
  <2>1. \A j : Done(q, j) => Done(q, j)'
    BY <1>7 DEF Done
  <2>2. i <= cursor.last + 1
    BY <1>t, <1>0, <1>1, <1>2 DEF CursorInv, BatchInv, InBatch, Cursor, Ids
  <2>3. ASSUME NEW j \in 1 .. cursor'.last PROVE j = i \/ j \in 1 .. cursor.last
    BY <1>t, <1>2, <1>5, <2>2 DEF Cursor, Ids
  <2> QED
    BY <1>t, <1>1, <1>5, <1>7, <2>1, <2>3 DEF NothingSkipped
<1> QED
  BY <1>9, <1>10, <1>11, <1>12, <1>13, <1>14, <1>15 DEF IInv

-----------------------------------------------------------------------------
LEMMA InitIInv == ReactionsInit => IInv
<1> SUFFICES ASSUME ReactionsInit PROVE IInv
  OBVIOUS
<1>1. /\ events = << >> /\ gone = {} /\ decisions = {} /\ processed = {}
      /\ cursor = NoCursor /\ polled = NoCursor /\ current = NoCursor
      /\ misses = 0 /\ site = "down" /\ batch = << >> /\ outcome = NoOutcome
      /\ status = [a \in Actions |-> "pending"]
  BY DEF ReactionsInit
<1>2. ReactionsTypeOK
  BY <1>1 DEF ReactionsTypeOK, NoCursor, Cursor, ConsumerSites
<1>3. SentInv /\ CursorInv /\ BatchInv /\ OutcomeInv /\ OutcomeTellsBroker
  BY <1>1 DEF SentInv, CursorInv, BatchInv, OutcomeInv, InBatch, OutcomeTellsBroker
<1>4. NothingSkipped
  BY <1>1 DEF NothingSkipped, NoCursor
<1> QED
  BY <1>2, <1>3, <1>4 DEF IInv

LEMMA NextIInv == ASSUME IInv, [ReactionsNext]_reactionVars PROVE IInv'
<1>1. CASE UNCHANGED reactionVars
  <2>1. /\ events' = events /\ gone' = gone /\ status' = status
        /\ UNCHANGED <<decisions, stored, misses, site, batchVars>>
    BY <1>1 DEF reactionVars, queues, broker
  <2>2. /\ events \in Seq(Seq(Event)) /\ gone' \subseteq 1 .. Len(events')
        /\ status' \in [Actions -> {"pending", "decided", "closed"}]
    BY <2>1 DEF IInv, ReactionsTypeOK, SentInv
  <2> QED
    BY <2>1, <2>2, SameEventsGrow, WorldStep
<1>2. CASE Consumer
  BY <1>2, CursorSteps, GetEventsStep, SkipStep, HandleEventStep, SubmitSteps, CommitStep,
     FailureSteps DEF Consumer
<1>3. CASE ConsumerFails
  BY <1>3, SubmitSteps, FailureSteps DEF ConsumerFails
<1> QED
  BY <1>1, <1>2, <1>3, AroundStep DEF ReactionsNext

\* What the consumer stores of a reaction is what the broker did with it, and no
\* reaction is passed over, for any number of queues, events, lost answers and
\* deaths of the process: poll_once, process, commit_event.
THEOREM ReactionsAreSettled == ReactionsSpec => []ReactionsHold
<1>1. IInv /\ [ReactionsNext]_reactionVars => IInv'
  BY NextIInv
<1>2. IInv => ReactionsHold
  BY DEF IInv, ReactionsHold
<1> QED
  BY InitIInv, <1>1, <1>2, PTL DEF ReactionsSpec

-----------------------------------------------------------------------------
(* MOBILE COMMANDS                                                         *)

Messages == [order : Commands, topic : {"t1", "t2"},
             stands : BOOLEAN, edited : BOOLEAN, moved : BOOLEAN]
Texts == {"none", "ignored", "help", "file", "status", "created", "answered", "resumed", "refused"}
Words == STRING \union {"none"}
Posts == [key : Nat, topic : {"t1", "t2"}, text : Texts]
Rows == [table : {"missions", "records", "changes"}, request : Nat, arg : Words]
Readings == [by : Words, verb : Verbs, arg : Words, topic : {"t1", "t2", "none"}]
AfterCall == {"view", "intent", "search", "file", "send", "mark", "commit"}

CommandTypeOK ==
  /\ inbox \in Seq(Messages) /\ posts \in Seq(Posts) /\ effects \in Seq(Rows)
  /\ settled \in Seq(Texts) /\ reply \in Texts /\ got \in Readings
  /\ intents \in [DOMAIN Orders -> {"none", "intent", "published"}]
  /\ step \in {"poll", "call"} \union AfterCall
  /\ Len(inbox) <= Len(Orders) /\ Len(settled) <= Len(inbox)

\* What an attempt has read, about the message at the head of the queue, is what
\* the message said, unless somebody changed it since.
ReadInv ==
  step # "poll" =>
    /\ Here \in DOMAIN inbox
    /\ got.verb # "chat" /\ got.topic \in {"t1", "t2"}
    /\ ~inbox[Here].moved => got.topic = "t1"
    /\ ~inbox[Here].edited => /\ got.verb = inbox[Here].order.verb
                              /\ got.arg = inbox[Here].order.arg

\* Of a message that was not moved, the topic and that of its replies are the
\* first one; a post has an intent.
TopicInv ==
  /\ \A i \in DOMAIN inbox : ~inbox[i].moved => inbox[i].topic = "t1"
  /\ \A k \in DOMAIN posts :
       /\ posts[k].key \in DOMAIN inbox
       /\ intents[posts[k].key] # "none"
       /\ ~inbox[posts[k].key].moved => posts[k].topic = "t1"

IsPosted(i) == \E k \in DOMAIN posts : posts[k].key = i

\* A reply that is marked is on Zulip.
PostInv == \A i \in DOMAIN intents : intents[i] = "published" => IsPosted(i)

\* The table a command writes to.
TableOf == [v \in {"mission", "repondre", "reprendre"} |->
              IF v = "mission" THEN "missions" ELSE IF v = "repondre" THEN "records" ELSE "changes"]

\* A row of a command that was not edited is the one that the command asks for.
RowInv ==
  \A k \in DOMAIN effects :
    LET m == inbox[effects[k].request]
    IN  /\ effects[k].request \in DOMAIN inbox
        /\ ~m.edited => /\ m.order.verb \in DOMAIN TableOf
                        /\ effects[k].table = TableOf[m.order.verb]
                        /\ effects[k].arg = m.order.arg
                        /\ m.order.arg # "denied"

Wrote(table, i) == \E k \in DOMAIN effects : effects[k].table = table /\ effects[k].request = i

\* A text is true of a command: what it announces has its row, and a refusal is
\* of a command that was edited, is not granted or asks to resume.
TrueOf(text, i) ==
  /\ text \in DOMAIN Acts => Wrote(Acts[text], i)
  /\ text = "refused" => \/ inbox[i].edited
                         \/ inbox[i].order.arg = "denied"
                         \/ inbox[i].order.verb = "reprendre"

TextInv == \A k \in DOMAIN posts : TrueOf(posts[k].text, posts[k].key)

\* Where an attempt stands: a reply about to be marked is on Zulip; one about to be
\* sent is not, unless it was posted in the topic where the command was before; the
\* text is true from the call on.
AttemptInv ==
  /\ step \in {"mark", "commit"} => IsPosted(Here)
  /\ step \in {"search", "file", "send"} => intents[Here] = "intent"
  /\ step \in {"file", "send"} /\ ~inbox[Here].moved => ~IsPosted(Here)
  /\ step \in AfterCall => TrueOf(reply, Here)

MobileInv ==
  /\ CommandTypeOK /\ ReadInv /\ TopicInv /\ PostInv /\ RowInv /\ TextInv /\ AttemptInv
  /\ CommandActsOnce /\ OneReplyPerCommand /\ SettledIsAnswered

-----------------------------------------------------------------------------
LEMMA Lengths ==
  ASSUME CommandTypeOK
  PROVE  /\ Len(inbox) \in Nat /\ DOMAIN inbox = 1..Len(inbox)
         /\ Len(settled) \in Nat /\ DOMAIN settled = 1..Len(settled)
         /\ Len(Orders) \in Nat /\ DOMAIN Orders = 1..Len(Orders)
         /\ DOMAIN inbox \subseteq DOMAIN intents /\ Here \in Nat
BY OrdersAssumption DEF CommandTypeOK, Here

LEMMA MobileInit_Inv == MobileInit => MobileInv
PROOF
<1> SUFFICES ASSUME MobileInit PROVE MobileInv OBVIOUS
<1>1. CommandTypeOK
  <2>1. got \in Readings BY DEF MobileInit, Readings, NoMessage, Verbs, Words
  <2>2. intents \in [DOMAIN Orders -> {"none", "intent", "published"}] BY DEF MobileInit
  <2>3. /\ inbox \in Seq(Messages) /\ posts \in Seq(Posts) /\ effects \in Seq(Rows)
        /\ settled \in Seq(Texts)
    BY DEF MobileInit
  <2>4. step \in {"poll", "call"} \union AfterCall /\ reply \in Texts BY DEF MobileInit, Texts
  <2>5. Len(inbox) = 0 /\ Len(settled) = 0 /\ Len(Orders) \in Nat
    BY OrdersAssumption DEF MobileInit
  <2>6. Len(inbox) <= Len(Orders) /\ Len(settled) <= Len(inbox) BY <2>5
  <2> QED BY <2>1, <2>2, <2>3, <2>4, <2>6 DEF CommandTypeOK
<1>2. ReadInv /\ TopicInv BY DEF MobileInit, ReadInv, TopicInv
<1>3. PostInv BY DEF MobileInit, PostInv
<1>4. RowInv /\ TextInv /\ AttemptInv
  BY DEF MobileInit, RowInv, TextInv, AttemptInv, AfterCall
<1>5. CommandActsOnce /\ OneReplyPerCommand /\ SettledIsAnswered
  BY DEF MobileInit, CommandActsOnce, OneReplyPerCommand, SettledIsAnswered
<1> QED BY <1>1, <1>2, <1>3, <1>4, <1>5 DEF MobileInv

\* The properties follow: a refused command that was not edited has no row, or the
\* one of a change.
LEMMA MobileInvHolds == MobileInv => CommandsHold
PROOF
<1> SUFFICES ASSUME MobileInv PROVE RepliesTellTheBroker BY DEF MobileInv, CommandsHold
<1>1. ASSUME NEW k \in DOMAIN posts
      PROVE  LET rows == {effects[j] : j \in {n \in DOMAIN effects : effects[n].request = posts[k].key}}
             IN /\ posts[k].text \in DOMAIN Acts => \E r \in rows : r.table = Acts[posts[k].text]
                /\ posts[k].text = "refused" =>
                     inbox[posts[k].key].edited \/ \A r \in rows : r.table = "changes"
  <2> DEFINE rows == {effects[j] : j \in {n \in DOMAIN effects : effects[n].request = posts[k].key}}
  <2>1. TrueOf(posts[k].text, posts[k].key) BY DEF MobileInv, TextInv
  <2>2. posts[k].text \in DOMAIN Acts => \E r \in rows : r.table = Acts[posts[k].text]
    <3>1. SUFFICES ASSUME posts[k].text \in DOMAIN Acts
                   PROVE  \E r \in rows : r.table = Acts[posts[k].text]
      OBVIOUS
    <3>2. PICK j \in DOMAIN effects : /\ effects[j].table = Acts[posts[k].text]
                                      /\ effects[j].request = posts[k].key
      BY <2>1, <3>1 DEF TrueOf, Wrote
    <3> QED BY <3>2
  <2>3. ASSUME posts[k].text = "refused", ~inbox[posts[k].key].edited, NEW r \in rows
        PROVE  r.table = "changes"
    <3>1. PICK j \in DOMAIN effects : r = effects[j] /\ effects[j].request = posts[k].key
      OBVIOUS
    <3> DEFINE m == inbox[posts[k].key]
    <3>2. /\ m.order.verb \in DOMAIN TableOf /\ r.table = TableOf[m.order.verb]
          /\ m.order.arg # "denied"
      BY <2>3, <3>1 DEF MobileInv, RowInv
    <3>3. m.order.verb = "reprendre" BY <2>1, <2>3, <3>2 DEF TrueOf
    <3> QED BY <3>2, <3>3 DEF TableOf
  <2> QED BY <2>2, <2>3
<1> QED BY <1>1 DEF RepliesTellTheBroker

-----------------------------------------------------------------------------
(* What the broker does with a command                                     *)

\* A call writes nothing, or the one row that the command asks for and that is
\* not there yet; what it announces has its row; a refusal is of a command that is
\* not granted, that asks to resume, or that comes back with another argument.
LEMMA ExecuteFacts ==
  ASSUME MobileInv, step = "call"
  PROVE  /\ Execute.step \in {"view", "intent"} /\ Execute.reply \in Texts
         /\ \/ Execute.effects = effects
            \/ /\ got.verb \in DOMAIN TableOf /\ got.arg # "denied"
               /\ ~Again(TableOf[got.verb])
               /\ Execute.effects = Append(effects, Row(TableOf[got.verb]))
         /\ Execute.reply = "created" =>
              Again("missions") \/ Execute.effects = Append(effects, Row("missions"))
         /\ Execute.reply = "answered" =>
              Again("records") \/ Execute.effects = Append(effects, Row("records"))
         /\ Execute.reply = "refused" =>
              \/ got.arg = "denied" \/ got.verb = "reprendre"
              \/ \E k \in DOMAIN effects :
                   effects[k].request = Here /\ effects[k].arg # got.arg
PROOF
<1> DEFINE goal ==
         /\ Execute.step \in {"view", "intent"} /\ Execute.reply \in Texts
         /\ \/ Execute.effects = effects
            \/ /\ got.verb \in DOMAIN TableOf /\ got.arg # "denied"
               /\ ~Again(TableOf[got.verb])
               /\ Execute.effects = Append(effects, Row(TableOf[got.verb]))
         /\ Execute.reply = "created" =>
              Again("missions") \/ Execute.effects = Append(effects, Row("missions"))
         /\ Execute.reply = "answered" =>
              Again("records") \/ Execute.effects = Append(effects, Row("records"))
         /\ Execute.reply = "refused" =>
              \/ got.arg = "denied" \/ got.verb = "reprendre"
              \/ \E k \in DOMAIN effects :
                   effects[k].request = Here /\ effects[k].arg # got.arg
<1>1. got.verb \in Verbs \ {"chat"}
  BY DEF MobileInv, ReadInv, CommandTypeOK, Readings
<1>2. CASE got.verb = "autre"
  <2>1. Execute = Answer("help", "intent") BY <1>2 DEF Execute
  <2> QED BY <2>1 DEF Answer, Texts
<1>3. CASE got.verb = "rapport"
  <2>1. Execute = Answer("file", "intent") BY <1>3 DEF Execute
  <2> QED BY <2>1 DEF Answer, Texts
<1>4. CASE got.verb \notin {"autre", "rapport"} /\ got.arg = "denied"
  <2>1. Execute = Answer("refused", "intent") BY <1>4 DEF Execute
  <2> QED BY <1>4, <2>1 DEF Answer, Texts
<1>5. CASE got.verb = "mission" /\ got.arg # "denied"
  <2>1. Execute = Insert("missions", "created") BY <1>5 DEF Execute, CreateRoute
  <2>2. got.verb \in DOMAIN TableOf /\ TableOf[got.verb] = "missions" BY <1>5 DEF TableOf
  <2> QED BY <1>5, <2>1, <2>2 DEF Insert, Answer, Same, Texts
<1>6. CASE got.verb = "repondre" /\ got.arg # "denied"
  <2>1. Execute = Insert("records", "answered") BY <1>6 DEF Execute, AnswerRoute
  <2>2. got.verb \in DOMAIN TableOf /\ TableOf[got.verb] = "records" BY <1>6 DEF TableOf
  <2> QED BY <1>6, <2>1, <2>2 DEF Insert, Answer, Same, Texts
<1>7. CASE got.verb = "reprendre" /\ got.arg # "denied"
  <2>1. Execute = ResumeRoute BY <1>7 DEF Execute
  <2>2. got.verb \in DOMAIN TableOf /\ TableOf[got.verb] = "changes" BY <1>7 DEF TableOf
  <2>3. CASE mission = "completed"
    <3>1. ResumeRoute = Answer("refused", "intent") BY <2>3 DEF ResumeRoute
    <3> QED BY <1>7, <2>1, <3>1 DEF Answer, Texts
  <2>4. CASE mission = "paused" /\ ~Again("changes")
    <3>1. ResumeRoute = [Answer("resumed", "view") EXCEPT
                           !.mission = "open", !.effects = Append(effects, Row("changes"))]
      BY <2>4 DEF ResumeRoute
    <3> QED BY <1>7, <2>1, <2>2, <2>4, <3>1 DEF Answer, Texts
  <2>5. CASE ~(mission = "completed") /\ ~(mission = "paused" /\ ~Again("changes"))
    <3>1. ResumeRoute = Answer("resumed", "view") BY <2>5 DEF ResumeRoute
    <3> QED BY <2>1, <3>1 DEF Answer, Texts
  <2> QED BY <2>3, <2>4, <2>5
<1>8. CASE got.verb = "statut" /\ got.arg # "denied"
  <2>1. Execute = Answer("status", "view") BY <1>8 DEF Execute
  <2> QED BY <2>1 DEF Answer, Texts
<1>9. CASE got.verb = "capture" /\ got.arg # "denied"
  <2>1. Execute = Answer("file", "view") BY <1>9 DEF Execute
  <2> QED BY <2>1 DEF Answer, Texts
<1> QED BY <1>1, <1>2, <1>3, <1>4, <1>5, <1>6, <1>7, <1>8, <1>9 DEF Verbs

-----------------------------------------------------------------------------
(* Steps by what they change                                               *)

\* The parts of the invariant that are about what is stored.
StoreInv ==
  /\ TopicInv /\ PostInv /\ RowInv /\ TextInv
  /\ CommandActsOnce /\ OneReplyPerCommand /\ SettledIsAnswered

commandStore == <<inbox, posts, effects, intents, settled>>

\* An attempt that is over has nothing to keep.
LEMMA EndOfAttempt ==
  ASSUME EndAttempt
  PROVE  got' \in Readings /\ reply' \in Texts /\ step' = "poll" /\ ReadInv' /\ AttemptInv'
PROOF
<1>1. step' = "poll" /\ got' = NoMessage /\ reply' = "none" BY DEF EndAttempt
<1>2. got' \in Readings BY <1>1 DEF Readings, NoMessage, Verbs, Words
<1>3. reply' \in Texts BY <1>1 DEF Texts
<1>4. ReadInv' BY <1>1 DEF ReadInv
<1>5. AttemptInv' BY <1>1 DEF AttemptInv, AfterCall
<1> QED BY <1>1, <1>2, <1>3, <1>4, <1>5

LEMMA StoreStays ==
  ASSUME MobileInv, UNCHANGED commandStore
  PROVE  StoreInv'
PROOF
<1> USE DEF MobileInv, commandStore
<1>1. TopicInv' /\ PostInv' BY DEF TopicInv, PostInv, IsPosted
<1>2. RowInv' BY DEF RowInv
<1>3. TextInv'
  <2>1. ASSUME NEW k \in DOMAIN posts PROVE TrueOf(posts[k].text, posts[k].key)'
    BY DEF TextInv, TrueOf, Wrote
  <2> QED BY <2>1 DEF TextInv
<1>4. CommandActsOnce' /\ OneReplyPerCommand' /\ SettledIsAnswered'
  BY DEF CommandActsOnce, OneReplyPerCommand, SettledIsAnswered
<1> QED BY <1>1, <1>2, <1>3, <1>4 DEF StoreInv

\* A step that only moves the attempt.
LEMMA AttemptStep ==
  ASSUME MobileInv, UNCHANGED commandStore,
         got' \in Readings, reply' \in Texts, step' \in {"poll", "call"} \union AfterCall,
         ReadInv', AttemptInv'
  PROVE  MobileInv'
PROOF
<1>1. StoreInv' BY StoreStays
<1>2. CommandTypeOK' BY DEF MobileInv, CommandTypeOK, commandStore
<1> QED BY <1>1, <1>2 DEF MobileInv, StoreInv

LEMMA AttemptEnds ==
  ASSUME MobileInv, UNCHANGED commandStore, EndAttempt
  PROVE  MobileInv'
BY AttemptStep, EndOfAttempt

\* The attempt goes on with what it has read and what it is going to answer.
LEMMA AttemptGoesOn ==
  ASSUME MobileInv, UNCHANGED <<commandStore, got, reply>>, step \in AfterCall, step' \in AfterCall,
         step' \in {"mark", "commit"} => IsPosted(Here),
         step' \in {"search", "file", "send"} => intents[Here] = "intent",
         step' \in {"file", "send"} /\ ~inbox[Here].moved => ~IsPosted(Here)
  PROVE  MobileInv'
PROOF
<1>1. ReadInv' BY DEF MobileInv, ReadInv, commandStore, Here, AfterCall
<1>2. AttemptInv'
  <2>1. TrueOf(reply, Here)' BY DEF MobileInv, AttemptInv, TrueOf, Wrote, commandStore, Here
  <2>2. /\ step' \in {"mark", "commit"} => IsPosted(Here)'
        /\ step' \in {"search", "file", "send"} => intents[Here]' = "intent"
        /\ step' \in {"file", "send"} /\ ~inbox[Here].moved' => ~IsPosted(Here)'
    BY DEF IsPosted, commandStore, Here
  <2> QED BY <2>1, <2>2 DEF AttemptInv
<1>3. got' \in Readings /\ reply' \in Texts BY DEF MobileInv, CommandTypeOK, commandStore
<1> QED BY <1>1, <1>2, <1>3, AttemptStep DEF commandStore

\* The outcome of the event at the head is commandStore, with the reply on Zulip.
LEMMA Settling ==
  ASSUME MobileInv, NEW o \in Texts, CommitOutcome(o), Here \in DOMAIN inbox,
         o # "ignored" => IsPosted(Here), UNCHANGED <<inbox, posts, effects, intents>>
  PROVE  MobileInv'
PROOF
<1>1. got' \in Readings /\ reply' \in Texts /\ step' = "poll" /\ ReadInv' /\ AttemptInv'
  BY EndOfAttempt DEF CommitOutcome
<1>2. settled' = Append(settled, o) /\ Len(settled') = Len(settled) + 1 /\ settled' \in Seq(Texts)
  BY DEF CommitOutcome, MobileInv, CommandTypeOK
<1>3. CommandTypeOK'
  <2>1. Len(settled') <= Len(inbox) BY <1>2, Lengths DEF MobileInv, Here
  <2> QED BY <1>1, <1>2, <2>1 DEF MobileInv, CommandTypeOK
<1>4. TopicInv' /\ PostInv' /\ RowInv' BY DEF MobileInv, TopicInv, PostInv, RowInv, IsPosted
<1>5. TextInv'
  <2>1. ASSUME NEW k \in DOMAIN posts PROVE TrueOf(posts[k].text, posts[k].key)'
    BY DEF MobileInv, TextInv, TrueOf, Wrote
  <2> QED BY <2>1 DEF TextInv
<1>6. SettledIsAnswered'
  <2>1. ASSUME NEW i \in DOMAIN settled', settled'[i] # "ignored"
        PROVE  IsPosted(i)
    <3>1. CASE i = Len(settled) + 1 BY <1>2, <2>1, <3>1, Lengths DEF MobileInv, CommandTypeOK, Here
    <3>2. CASE i # Len(settled) + 1
      <4>1. i \in DOMAIN settled /\ settled'[i] = settled[i]
        BY <1>2, <3>2, Lengths DEF MobileInv, CommandTypeOK
      <4> QED BY <2>1, <4>1 DEF MobileInv, SettledIsAnswered, IsPosted
    <3> QED BY <3>1, <3>2
  <2> QED BY <2>1 DEF SettledIsAnswered, IsPosted
<1>7. CommandActsOnce' /\ OneReplyPerCommand' BY DEF MobileInv, CommandActsOnce, OneReplyPerCommand
<1> QED BY <1>1, <1>3, <1>4, <1>5, <1>6, <1>7 DEF MobileInv

\* The rows after a call: those before it, and perhaps the one of the command.
LEMMA RowStep ==
  ASSUME MobileInv, step = "call", effects' = Execute.effects,
         UNCHANGED <<inbox, posts, intents, settled>>
  PROVE  /\ StoreInv' /\ effects' \in Seq(Rows)
         /\ \A k \in DOMAIN effects : k \in DOMAIN effects' /\ effects'[k] = effects[k]
PROOF
<1> DEFINE table == TableOf[got.verb]
<1>1. CASE effects' = effects
  <2>1. StoreInv' BY <1>1, StoreStays DEF commandStore
  <2> QED BY <1>1, <2>1 DEF MobileInv, CommandTypeOK
<1>2. CASE /\ got.verb \in DOMAIN TableOf /\ got.arg # "denied" /\ ~Again(table)
           /\ effects' = Append(effects, Row(table))
  <2>1. PICK r : r = Row(table) OBVIOUS
  <2>2. Here \in DOMAIN inbox /\ Here \in Nat BY Lengths DEF MobileInv, ReadInv
  <2>3. r.table = table /\ r.request = Here /\ r.arg = got.arg BY <2>1 DEF Row
  <2>4. table \in {"missions", "records", "changes"} BY <1>2 DEF TableOf
  <2>5. r \in Rows BY <2>1, <2>2, <2>4 DEF Row, Rows, MobileInv, CommandTypeOK, Readings
  <2>6. /\ effects \in Seq(Rows) /\ Len(effects) \in Nat /\ DOMAIN effects = 1..Len(effects)
        /\ effects' = Append(effects, r)
    BY <1>2, <2>1 DEF MobileInv, CommandTypeOK
  <2>7. /\ effects' \in Seq(Rows) /\ DOMAIN effects' = 1..(Len(effects) + 1)
        /\ effects'[Len(effects) + 1] = r
        /\ \A k \in DOMAIN effects : k \in DOMAIN effects' /\ effects'[k] = effects[k]
    BY <2>5, <2>6
  <2>8. \A k \in DOMAIN effects' : k = Len(effects) + 1 \/ k \in DOMAIN effects
    BY <2>6, <2>7
  <2>9. TopicInv' /\ PostInv' /\ OneReplyPerCommand' /\ SettledIsAnswered'
    BY DEF MobileInv, TopicInv, PostInv, IsPosted, OneReplyPerCommand, SettledIsAnswered
  <2>10. RowInv'
    <3>1. ASSUME NEW k \in DOMAIN effects', NEW m, m = inbox[effects'[k].request]
          PROVE  /\ effects'[k].request \in DOMAIN inbox
                 /\ ~m.edited => /\ m.order.verb \in DOMAIN TableOf
                                 /\ effects'[k].table = TableOf[m.order.verb]
                                 /\ effects'[k].arg = m.order.arg
                                 /\ m.order.arg # "denied"
      <4>1. CASE k = Len(effects) + 1
        <5>1. effects'[k] = r /\ m = inbox[Here] BY <2>3, <2>7, <3>1, <4>1
        <5>2. ~m.edited => got.verb = m.order.verb /\ got.arg = m.order.arg
          BY <5>1 DEF MobileInv, ReadInv
        <5> QED BY <1>2, <2>2, <2>3, <5>1, <5>2
      <4>2. CASE k \in DOMAIN effects
        <5>1. effects'[k] = effects[k] BY <2>7, <4>2
        <5> QED BY <3>1, <4>2, <5>1 DEF MobileInv, RowInv
      <4> QED BY <2>8, <4>1, <4>2
    <3> QED BY <3>1 DEF RowInv
  <2>11. TextInv'
    <3>1. ASSUME NEW k \in DOMAIN posts PROVE TrueOf(posts[k].text, posts[k].key)'
      <4>1. TrueOf(posts[k].text, posts[k].key) BY DEF MobileInv, TextInv
      <4>2. ASSUME NEW t, NEW i, Wrote(t, i) PROVE \E n \in DOMAIN effects' :
                                  effects'[n].table = t /\ effects'[n].request = i
        BY <2>7, <4>2 DEF Wrote
      <4> QED BY <4>1, <4>2 DEF TrueOf, Wrote
    <3> QED BY <3>1 DEF TextInv
  <2>12. CommandActsOnce'
    <3>1. \A k \in DOMAIN effects : ~(effects[k].table = r.table /\ effects[k].request = r.request)
      BY <1>2, <2>3 DEF Again
    <3>2. ASSUME NEW j \in DOMAIN effects', NEW k \in DOMAIN effects',
                 effects'[j].table = effects'[k].table, effects'[j].request = effects'[k].request
          PROVE  j = k
      BY <2>7, <2>8, <3>1, <3>2 DEF MobileInv, CommandActsOnce
    <3> QED BY <3>2 DEF CommandActsOnce
  <2> QED BY <2>7, <2>9, <2>10, <2>11, <2>12 DEF StoreInv
<1> QED BY <1>1, <1>2, ExecuteFacts

LEMMA Call_Inv == ASSUME MobileInv, Call PROVE MobileInv'
PROOF
<1> USE DEF Call
<1>0. /\ step = "call" /\ effects' = Execute.effects /\ reply' = Execute.reply
      /\ step' = Execute.step /\ UNCHANGED <<inbox, posts, intents, settled, got>>
  BY DEF chat
<1>1. /\ StoreInv' /\ effects' \in Seq(Rows)
      /\ \A k \in DOMAIN effects : k \in DOMAIN effects' /\ effects'[k] = effects[k]
  BY <1>0, RowStep
<1>2. CommandTypeOK' BY <1>0, <1>1, ExecuteFacts DEF MobileInv, CommandTypeOK, AfterCall
<1>3. ReadInv' BY <1>0 DEF MobileInv, ReadInv, Here
<1>4. AttemptInv'
  <2>1. step' \in {"view", "intent"} BY <1>0, ExecuteFacts
  <2>2. ASSUME NEW t, Again(t) \/ effects' = Append(effects, Row(t))
        PROVE  Wrote(t, Here)'
    <3>1. CASE Again(t) BY <1>0, <1>1, <3>1 DEF Again, Wrote, Here
    <3>2. CASE effects' = Append(effects, Row(t))
      <4>1. PICK r : r = Row(t) OBVIOUS
      <4>2. r.table = t /\ r.request = Here BY <4>1 DEF Row
      <4>3. /\ Len(effects) + 1 \in DOMAIN effects' /\ effects'[Len(effects) + 1] = r
        BY <3>2, <4>1 DEF MobileInv, CommandTypeOK
      <4> QED BY <1>0, <4>2, <4>3 DEF Wrote, Here
    <3> QED BY <2>2, <3>1, <3>2
  <2>3. reply' \in DOMAIN Acts => Wrote(Acts[reply], Here)'
    <3>1. CASE reply' = "created" BY <1>0, <2>2, <3>1, ExecuteFacts DEF Acts
    <3>2. CASE reply' = "answered" BY <1>0, <2>2, <3>2, ExecuteFacts DEF Acts
    <3> QED BY <3>1, <3>2 DEF Acts
  <2>4. reply' = "refused" => \/ inbox[Here].edited \/ inbox[Here].order.arg = "denied"
                              \/ inbox[Here].order.verb = "reprendre"
    <3> SUFFICES ASSUME reply' = "refused", ~inbox[Here].edited
                 PROVE  inbox[Here].order.arg = "denied" \/ inbox[Here].order.verb = "reprendre"
      OBVIOUS
    <3>1. got.verb = inbox[Here].order.verb /\ got.arg = inbox[Here].order.arg
      BY <1>0 DEF MobileInv, ReadInv
    <3>2. ASSUME NEW k \in DOMAIN effects, effects[k].request = Here PROVE effects[k].arg = got.arg
      BY <3>1, <3>2 DEF MobileInv, RowInv
    <3> QED BY <1>0, <3>1, <3>2, ExecuteFacts
  <2>5. TrueOf(reply, Here)' BY <1>0, <2>3, <2>4 DEF TrueOf, Here
  <2> QED BY <2>1, <2>5 DEF AttemptInv
<1> QED BY <1>1, <1>2, <1>3, <1>4 DEF MobileInv, StoreInv

LEMMA CallLost_Inv == ASSUME MobileInv, CallLost PROVE MobileInv'
PROOF
<1>0. /\ step = "call" /\ effects' = Execute.effects /\ EndAttempt
      /\ UNCHANGED <<inbox, posts, intents, settled>>
  BY DEF CallLost, chat
<1>1. StoreInv' /\ effects' \in Seq(Rows) BY <1>0, RowStep
<1>2. got' \in Readings /\ reply' \in Texts /\ step' = "poll" /\ ReadInv' /\ AttemptInv'
  BY <1>0, EndOfAttempt
<1>3. CommandTypeOK' BY <1>0, <1>1, <1>2 DEF MobileInv, CommandTypeOK
<1> QED BY <1>1, <1>2, <1>3 DEF MobileInv, StoreInv

\* A reply is posted: the one of the command at the head, which has none in the
\* topic where it is.
LEMMA PostStep ==
  ASSUME MobileInv, step = "send", PostReply, UNCHANGED <<inbox, effects, intents, settled>>
  PROVE  /\ StoreInv' /\ posts' \in Seq(Posts) /\ IsPosted(Here)'
PROOF
<1>1. PICK p : p = [key |-> Here, topic |-> got.topic, text |-> reply] OBVIOUS
<1>2. p.key = Here /\ p.topic = got.topic /\ p.text = reply BY <1>1
<1>3. Here \in DOMAIN inbox /\ Here \in Nat /\ Here \in DOMAIN intents
  BY Lengths DEF MobileInv, ReadInv
<1>4. got.topic \in {"t1", "t2"} /\ (~inbox[Here].moved => got.topic = "t1")
  BY DEF MobileInv, ReadInv
<1>5. p \in Posts BY <1>1, <1>3, <1>4 DEF Posts, MobileInv, CommandTypeOK
<1>6. /\ posts \in Seq(Posts) /\ Len(posts) \in Nat /\ DOMAIN posts = 1..Len(posts)
      /\ posts' = Append(posts, p)
  BY <1>1 DEF MobileInv, CommandTypeOK, PostReply
<1>7. /\ posts' \in Seq(Posts) /\ DOMAIN posts' = 1..(Len(posts) + 1)
      /\ posts'[Len(posts) + 1] = p
      /\ \A k \in DOMAIN posts : k \in DOMAIN posts' /\ posts'[k] = posts[k]
  BY <1>5, <1>6
<1>8. \A k \in DOMAIN posts' : k = Len(posts) + 1 \/ k \in DOMAIN posts BY <1>6, <1>7
<1>9. ASSUME NEW i, IsPosted(i) PROVE \E k \in DOMAIN posts' : posts'[k].key = i
  BY <1>7, <1>9 DEF IsPosted
<1>10. IsPosted(Here)'
  <2>1. Len(posts) + 1 \in DOMAIN posts' BY <1>6, <1>7
  <2> QED BY <1>2, <1>7, <2>1 DEF IsPosted, Here
<1>11. intents[Here] = "intent" /\ (~inbox[Here].moved => ~IsPosted(Here)) /\ TrueOf(reply, Here)
  BY DEF MobileInv, AttemptInv, AfterCall
<1>12. TopicInv'
  <2>1. ASSUME NEW k \in DOMAIN posts'
        PROVE  /\ posts'[k].key \in DOMAIN inbox
               /\ intents[posts'[k].key] # "none"
               /\ ~inbox[posts'[k].key].moved => posts'[k].topic = "t1"
    <3>1. CASE k = Len(posts) + 1 BY <1>2, <1>3, <1>4, <1>7, <1>11, <3>1
    <3>2. CASE k \in DOMAIN posts BY <1>7, <3>2 DEF MobileInv, TopicInv
    <3> QED BY <1>8, <3>1, <3>2
  <2> QED BY <2>1 DEF MobileInv, TopicInv
<1>13. PostInv' BY <1>9 DEF MobileInv, PostInv, IsPosted
<1>14. SettledIsAnswered'
  <2>1. ASSUME NEW i \in DOMAIN settled, settled[i] # "ignored" PROVE IsPosted(i)
    BY <2>1 DEF MobileInv, SettledIsAnswered, IsPosted
  <2> QED BY <1>9, <2>1 DEF SettledIsAnswered
<1>15. RowInv' /\ CommandActsOnce' BY DEF MobileInv, RowInv, CommandActsOnce
<1>16. TextInv'
  <2>1. ASSUME NEW k \in DOMAIN posts' PROVE TrueOf(posts'[k].text, posts'[k].key)
    <3>1. CASE k = Len(posts) + 1 BY <1>2, <1>7, <1>11, <3>1
    <3>2. CASE k \in DOMAIN posts BY <1>7, <3>2 DEF MobileInv, TextInv
    <3> QED BY <1>8, <3>1, <3>2
  <2> QED BY <2>1 DEF TextInv, TrueOf, Wrote
<1>17. OneReplyPerCommand'
  <2>1. ASSUME NEW j \in DOMAIN posts', NEW k \in DOMAIN posts',
               posts'[j].key = posts'[k].key, ~inbox[posts'[j].key].moved
        PROVE  j = k
    <3>1. CASE j \in DOMAIN posts /\ k \in DOMAIN posts
      BY <1>7, <2>1, <3>1 DEF MobileInv, OneReplyPerCommand
    <3>2. CASE j = Len(posts) + 1 /\ k \in DOMAIN posts
      BY <1>2, <1>7, <1>11, <2>1, <3>2 DEF IsPosted
    <3>3. CASE k = Len(posts) + 1 /\ j \in DOMAIN posts
      BY <1>2, <1>7, <1>11, <2>1, <3>3 DEF IsPosted
    <3> QED BY <1>8, <3>1, <3>2, <3>3
  <2> QED BY <2>1 DEF OneReplyPerCommand
<1> QED BY <1>7, <1>10, <1>12, <1>13, <1>14, <1>15, <1>16, <1>17 DEF StoreInv

LEMMA SendReply_Inv == ASSUME MobileInv, SendReply PROVE MobileInv'
PROOF
<1>0. /\ step = "send" /\ PostReply /\ step' = "mark"
      /\ UNCHANGED <<inbox, effects, intents, settled, got, reply>>
  BY DEF SendReply, records
<1>1. StoreInv' /\ posts' \in Seq(Posts) /\ IsPosted(Here)' BY <1>0, PostStep
<1>2. CommandTypeOK' BY <1>0, <1>1 DEF MobileInv, CommandTypeOK, AfterCall
<1>3. ReadInv' BY <1>0 DEF MobileInv, ReadInv, Here
<1>4. AttemptInv'
  <2>1. TrueOf(reply, Here)' BY <1>0 DEF MobileInv, AttemptInv, AfterCall, TrueOf, Wrote, Here
  <2> QED BY <1>0, <1>1, <2>1 DEF AttemptInv
<1> QED BY <1>1, <1>2, <1>3, <1>4 DEF MobileInv, StoreInv

LEMMA SendLost_Inv == ASSUME MobileInv, SendLost PROVE MobileInv'
PROOF
<1>0. /\ step = "send" /\ PostReply /\ EndAttempt
      /\ UNCHANGED <<inbox, effects, intents, settled>>
  BY DEF SendLost, records
<1>1. StoreInv' /\ posts' \in Seq(Posts) BY <1>0, PostStep
<1>2. got' \in Readings /\ reply' \in Texts /\ step' = "poll" /\ ReadInv' /\ AttemptInv'
  BY <1>0, EndOfAttempt
<1>3. CommandTypeOK' BY <1>0, <1>1, <1>2 DEF MobileInv, CommandTypeOK
<1> QED BY <1>1, <1>2, <1>3 DEF MobileInv, StoreInv

\* The publication of the head is noted: as an intent, or as published once the
\* reply is on Zulip.
LEMMA IntentStep ==
  ASSUME MobileInv, NEW v \in {"intent", "published"}, intents' = [intents EXCEPT ![Here] = v],
         Here \in DOMAIN inbox, v = "published" => IsPosted(Here), step' \in AfterCall,
         UNCHANGED <<inbox, posts, effects, settled, got, reply>>
  PROVE  /\ StoreInv' /\ CommandTypeOK' /\ intents'[Here] = v
PROOF
<1>1. Here \in DOMAIN intents /\ intents \in [DOMAIN Orders -> {"none", "intent", "published"}]
  BY Lengths DEF MobileInv, CommandTypeOK
<1>2. /\ intents' \in [DOMAIN Orders -> {"none", "intent", "published"}] /\ intents'[Here] = v
      /\ DOMAIN intents' = DOMAIN intents
      /\ \A i \in DOMAIN intents : i # Here => intents'[i] = intents[i]
  BY <1>1
<1>3. CommandTypeOK' BY <1>2 DEF MobileInv, CommandTypeOK
<1>4. TopicInv'
  <2>1. ASSUME NEW k \in DOMAIN posts
        PROVE  /\ posts[k].key \in DOMAIN inbox
               /\ intents'[posts[k].key] # "none"
               /\ ~inbox[posts[k].key].moved => posts[k].topic = "t1"
    BY <1>2, Lengths DEF MobileInv, TopicInv
  <2> QED BY <2>1 DEF MobileInv, TopicInv
<1>5. PostInv' BY <1>2 DEF MobileInv, PostInv, IsPosted
<1>6. RowInv' /\ CommandActsOnce' /\ OneReplyPerCommand' /\ SettledIsAnswered'
  BY DEF MobileInv, RowInv, CommandActsOnce, OneReplyPerCommand, SettledIsAnswered
<1>7. TextInv'
  <2>1. ASSUME NEW k \in DOMAIN posts PROVE TrueOf(posts[k].text, posts[k].key)'
    BY DEF MobileInv, TextInv, TrueOf, Wrote
  <2> QED BY <2>1 DEF TextInv
<1> QED BY <1>2, <1>3, <1>4, <1>5, <1>6, <1>7 DEF StoreInv

LEMMA BeginReply_Inv == ASSUME MobileInv, BeginReply PROVE MobileInv'
PROOF
<1>0. step = "intent" /\ UNCHANGED <<inbox, posts, effects>> BY DEF BeginReply, chat, records
<1>1. Here \in DOMAIN inbox /\ Here \in DOMAIN intents /\ reply \in Texts
  BY <1>0, Lengths DEF MobileInv, ReadInv, CommandTypeOK
<1>2. CASE AlreadyPublished
  <2>1. CommitOutcome(reply) /\ UNCHANGED intents BY <1>2 DEF BeginReply
  <2>2. IsPosted(Here) BY <1>1, <1>2 DEF AlreadyPublished, MobileInv, PostInv
  <2> QED BY <1>0, <1>1, <2>1, <2>2, Settling
<1>3. CASE ~AlreadyPublished
  <2>1. /\ intents' = [intents EXCEPT ![Here] = "intent"] /\ step' = AfterIntent
        /\ UNCHANGED <<settled, got, reply>>
    BY <1>3 DEF BeginReply
  <2>2. step' \in {"file", "search"} BY <2>1 DEF AfterIntent
  <2>3. StoreInv' /\ CommandTypeOK' /\ intents'[Here] = "intent"
    BY <1>0, <1>1, <2>1, <2>2, IntentStep DEF AfterCall
  <2>4. ReadInv' BY <1>0, <2>1 DEF MobileInv, ReadInv, Here
  <2>5. step' = "file" => ~IsPosted(Here)
    BY <2>1 DEF AfterIntent, IsPosted, MobileInv, TopicInv
  <2>6. TrueOf(reply, Here)'
    BY <1>0, <2>1 DEF MobileInv, AttemptInv, AfterCall, TrueOf, Wrote, Here
  <2>7. Here' = Here /\ (IsPosted(Here)' <=> IsPosted(Here)) BY <1>0, <2>1 DEF Here, IsPosted
  <2>8. AttemptInv' BY <2>2, <2>3, <2>5, <2>6, <2>7 DEF AttemptInv
  <2> QED BY <2>3, <2>4, <2>8 DEF MobileInv, StoreInv
<1> QED BY <1>2, <1>3

LEMMA MarkReply_Inv == ASSUME MobileInv, MarkReply PROVE MobileInv'
PROOF
<1>0. /\ step = "mark" /\ intents' = [intents EXCEPT ![Here] = "published"] /\ step' = "commit"
      /\ UNCHANGED <<inbox, posts, effects, settled, got, reply>>
  BY DEF MarkReply, chat, records
<1>1. Here \in DOMAIN inbox /\ IsPosted(Here) BY <1>0 DEF MobileInv, ReadInv, AttemptInv
<1>2. StoreInv' /\ CommandTypeOK' BY <1>0, <1>1, IntentStep DEF AfterCall
<1>3. ReadInv' BY <1>0 DEF MobileInv, ReadInv, Here
<1>4. TrueOf(reply, Here)' BY <1>0 DEF MobileInv, AttemptInv, AfterCall, TrueOf, Wrote, Here
<1>5. IsPosted(Here)' BY <1>0, <1>1 DEF IsPosted, Here
<1>6. AttemptInv' BY <1>0, <1>4, <1>5 DEF AttemptInv
<1> QED BY <1>2, <1>3, <1>6 DEF MobileInv, StoreInv

LEMMA Read_Inv == ASSUME MobileInv, Read PROVE MobileInv'
PROOF
<1>0. step = "poll" /\ Len(inbox) >= Here /\ UNCHANGED <<inbox, posts, effects, intents>>
  BY DEF Read, chat, records
<1>1. Here \in DOMAIN inbox BY <1>0, Lengths DEF MobileInv, Here
<1> DEFINE m == inbox[Here]
<1>2. CASE ~(Addressed(m) /\ IsCommand(m))
  <2>1. CommitOutcome("ignored") BY <1>2 DEF Read
  <2>2. "ignored" \in Texts BY DEF Texts
  <2> QED BY <1>0, <1>1, <2>1, <2>2, Settling
<1>3. CASE Addressed(m) /\ IsCommand(m)
  <2>1. /\ got' = [by |-> m.order.by, verb |-> m.order.verb, arg |-> m.order.arg,
                   topic |-> m.topic]
        /\ step' = "call" /\ UNCHANGED <<reply, settled>>
    BY <1>3 DEF Read
  <2>2. m \in Messages /\ m.order \in Commands /\ m.topic \in {"t1", "t2"}
    <3>1. m \in Messages BY <1>1, Lengths DEF MobileInv, CommandTypeOK
    <3> QED BY <3>1 DEF Messages
  <2>3. got' \in Readings
    <3>1. m.order.by \in Words /\ m.order.verb \in Verbs /\ m.order.arg \in Words
      BY <2>2 DEF Commands, Words
    <3> QED BY <2>1, <2>2, <3>1 DEF Readings
  <2>4. got'.verb = m.order.verb /\ got'.arg = m.order.arg /\ got'.topic = m.topic BY <2>1
  <2>5. ~m.moved => m.topic = "t1" BY <1>1 DEF MobileInv, TopicInv
  <2>6. ReadInv'
    BY <1>0, <1>1, <1>3, <2>1, <2>2, <2>4, <2>5 DEF ReadInv, IsCommand, Here
  <2>7. AttemptInv' BY <2>1 DEF AttemptInv, AfterCall
  <2>8. reply' \in Texts /\ UNCHANGED commandStore BY <1>0, <2>1 DEF MobileInv, CommandTypeOK, commandStore
  <2> QED BY <2>1, <2>3, <2>6, <2>7, <2>8, AttemptStep
<1> QED BY <1>2, <1>3

LEMMA View_Inv == ASSUME MobileInv, View PROVE MobileInv'
PROOF
<1>0. step = "view" /\ UNCHANGED commandStore BY DEF View, chat, records, commandStore
<1>1. CASE EndAttempt BY <1>0, <1>1, AttemptEnds
<1>2. CASE step' = "intent" /\ UNCHANGED <<got, reply>>
  BY <1>0, <1>2, AttemptGoesOn DEF AfterCall
<1> QED BY <1>1, <1>2 DEF View

\* A marker that is not found where the command is was not posted there; of a
\* command that was not moved, nowhere.
LEMMA Reconcile_Inv == ASSUME MobileInv, Reconcile PROVE MobileInv'
PROOF
<1>0. step = "search" /\ UNCHANGED commandStore BY DEF Reconcile, chat, records, commandStore
<1>1. intents[Here] = "intent" BY <1>0 DEF MobileInv, AttemptInv
<1>2. CASE EndAttempt BY <1>0, <1>2, AttemptEnds
<1>3. CASE Found = {} /\ step' = "file" /\ UNCHANGED <<got, reply>>
  <2>1. ~inbox[Here].moved => ~IsPosted(Here)
    BY <1>0, <1>3 DEF Found, IsPosted, MobileInv, ReadInv, TopicInv
  <2> QED BY <1>0, <1>1, <1>3, <2>1, AttemptGoesOn DEF AfterCall
<1>4. CASE (\E k \in Found : Found = {k}) /\ step' = "mark" /\ UNCHANGED <<got, reply>>
  <2>1. IsPosted(Here) BY <1>4 DEF Found, IsPosted
  <2> QED BY <1>0, <1>4, <2>1, AttemptGoesOn DEF AfterCall
<1> QED BY <1>2, <1>3, <1>4 DEF Reconcile

LEMMA Attach_Inv == ASSUME MobileInv, Attach PROVE MobileInv'
PROOF
<1>0. step = "file" /\ UNCHANGED commandStore BY DEF Attach, chat, records, commandStore
<1>1. intents[Here] = "intent" /\ (~inbox[Here].moved => ~IsPosted(Here))
  BY <1>0 DEF MobileInv, AttemptInv
<1>2. CASE EndAttempt BY <1>0, <1>2, AttemptEnds
<1>3. CASE step' = "send" /\ UNCHANGED <<got, reply>>
  BY <1>0, <1>1, <1>3, AttemptGoesOn DEF AfterCall
<1> QED BY <1>2, <1>3 DEF Attach

LEMMA CommitCommand_Inv == ASSUME MobileInv, CommitCommand PROVE MobileInv'
PROOF
<1>0. step = "commit" /\ CommitOutcome(reply) /\ UNCHANGED <<inbox, posts, effects, intents>>
  BY DEF CommitCommand, chat, records
<1>1. Here \in DOMAIN inbox /\ IsPosted(Here) /\ reply \in Texts
  BY <1>0 DEF MobileInv, ReadInv, AttemptInv, CommandTypeOK
<1> QED BY <1>0, <1>1, Settling

LEMMA AttemptFails_Inv == ASSUME MobileInv, AttemptFails PROVE MobileInv'
PROOF
<1>1. EndAttempt /\ UNCHANGED commandStore BY DEF AttemptFails, chat, records, commandStore
<1> QED BY <1>1, AttemptEnds

-----------------------------------------------------------------------------
(* The people who write and change messages, and the rest of the world     *)

\* The mission and the artifact are not in the invariant: what is said of them is
\* what an attempt has written down.
LEMMA OtherStep ==
  ASSUME MobileInv, UNCHANGED <<commandStore, attempt>>
  PROVE  MobileInv'
PROOF
<1>1. StoreInv' BY StoreStays
<1>2. ReadInv' BY DEF MobileInv, ReadInv, commandStore, attempt, Here
<1>3. AttemptInv'
  <2>1. step \in AfterCall => TrueOf(reply, Here)'
    BY DEF MobileInv, AttemptInv, TrueOf, Wrote, commandStore, attempt, Here
  <2> QED BY <2>1 DEF MobileInv, AttemptInv, IsPosted, commandStore, attempt, Here
<1>4. CommandTypeOK' BY DEF MobileInv, CommandTypeOK, commandStore, attempt
<1> QED BY <1>1, <1>2, <1>3, <1>4 DEF MobileInv, StoreInv

\* The messages change, and what the invariant says of them stays: a message keeps
\* its place, and its order and topic unless it is marked as edited or moved.
LEMMA InboxStep ==
  ASSUME MobileInv, UNCHANGED <<posts, effects, intents, settled, attempt>>,
         inbox' \in Seq(Messages), Len(inbox') <= Len(Orders), Len(inbox) <= Len(inbox'),
         \A i \in DOMAIN inbox' : ~inbox'[i].moved => inbox'[i].topic = "t1",
         \A i \in DOMAIN inbox :
           /\ ~inbox'[i].moved => ~inbox[i].moved
           /\ ~inbox'[i].edited => ~inbox[i].edited /\ inbox'[i].order = inbox[i].order
  PROVE  MobileInv'
PROOF
<1> USE DEF attempt
<1>0. /\ Len(inbox) \in Nat /\ Len(inbox') \in Nat /\ Len(settled) \in Nat
      /\ DOMAIN inbox = 1..Len(inbox) /\ DOMAIN inbox' = 1..Len(inbox')
  BY DEF MobileInv, CommandTypeOK
<1>1. DOMAIN inbox \subseteq DOMAIN inbox' BY <1>0
<1>2. CommandTypeOK' BY <1>0 DEF MobileInv, CommandTypeOK
<1>3. Here' = Here BY DEF Here
<1>4. ReadInv' BY <1>1, <1>3 DEF MobileInv, ReadInv
<1>5. TopicInv' BY <1>1 DEF MobileInv, TopicInv
<1>6. PostInv' BY DEF MobileInv, PostInv, IsPosted
<1>7. RowInv'
  <2>1. ASSUME NEW k \in DOMAIN effects, NEW m, m = inbox'[effects[k].request]
        PROVE  /\ effects[k].request \in DOMAIN inbox'
               /\ ~m.edited => /\ m.order.verb \in DOMAIN TableOf
                               /\ effects[k].table = TableOf[m.order.verb]
                               /\ effects[k].arg = m.order.arg
                               /\ m.order.arg # "denied"
    <3>1. PICK i : i = effects[k].request OBVIOUS
    <3>2. /\ i \in DOMAIN inbox
          /\ ~inbox[i].edited => /\ inbox[i].order.verb \in DOMAIN TableOf
                                 /\ effects[k].table = TableOf[inbox[i].order.verb]
                                 /\ effects[k].arg = inbox[i].order.arg
                                 /\ inbox[i].order.arg # "denied"
      BY <3>1 DEF MobileInv, RowInv
    <3> QED BY <1>1, <2>1, <3>1, <3>2
  <2> QED BY <2>1 DEF RowInv
<1>8. ASSUME NEW text, NEW i \in DOMAIN inbox, TrueOf(text, i)
      PROVE  /\ text \in DOMAIN Acts => Wrote(Acts[text], i)
             /\ text = "refused" => \/ inbox'[i].edited
                                    \/ inbox'[i].order.arg = "denied"
                                    \/ inbox'[i].order.verb = "reprendre"
  BY <1>8 DEF TrueOf
<1>9. TextInv'
  <2>1. ASSUME NEW k \in DOMAIN posts PROVE TrueOf(posts[k].text, posts[k].key)'
    <3>1. posts[k].key \in DOMAIN inbox /\ TrueOf(posts[k].text, posts[k].key)
      BY DEF MobileInv, TopicInv, TextInv
    <3> QED BY <1>8, <3>1 DEF TrueOf, Wrote
  <2> QED BY <2>1 DEF TextInv
<1>10. AttemptInv'
  <2>1. ASSUME step \in AfterCall PROVE TrueOf(reply, Here)'
    <3>1. Here \in DOMAIN inbox /\ TrueOf(reply, Here)
      BY <2>1 DEF MobileInv, ReadInv, AttemptInv, AfterCall
    <3> QED BY <1>3, <1>8, <3>1 DEF TrueOf, Wrote
  <2>2. step \in {"file", "send"} /\ ~inbox'[Here].moved => ~IsPosted(Here)
    BY DEF MobileInv, ReadInv, AttemptInv
  <2>3. IsPosted(Here)' <=> IsPosted(Here) BY <1>3 DEF IsPosted
  <2> QED BY <1>3, <2>1, <2>2, <2>3 DEF MobileInv, AttemptInv
<1>11. OneReplyPerCommand' BY DEF MobileInv, OneReplyPerCommand, TopicInv
<1>12. CommandActsOnce' /\ SettledIsAnswered' BY DEF MobileInv, CommandActsOnce, SettledIsAnswered
<1> QED BY <1>2, <1>4, <1>5, <1>6, <1>7, <1>9, <1>10, <1>11, <1>12 DEF MobileInv

LEMMA Write_Inv ==
  ASSUME MobileInv, NEW o, Write(o)
  PROVE  MobileInv'
PROOF
<1>1. PICK m : m = [order |-> o, topic |-> "t1", stands |-> TRUE, edited |-> FALSE, moved |-> FALSE]
  OBVIOUS
<1>2. /\ Len(inbox) < Len(Orders) /\ o \in Orders[Len(inbox) + 1] /\ inbox' = Append(inbox, m)
      /\ UNCHANGED <<posts, effects, intents, settled, attempt>>
  BY <1>1 DEF Write, records
<1>3. inbox \in Seq(Messages) /\ Len(inbox) \in Nat /\ DOMAIN inbox = 1..Len(inbox) /\ Len(Orders) \in Nat
  BY Lengths DEF MobileInv, CommandTypeOK
<1>4. o \in Commands
  <2>1. Len(inbox) + 1 \in DOMAIN Orders BY <1>2, <1>3, Lengths DEF MobileInv
  <2> QED BY <1>2, <2>1, OrdersAssumption
<1>5. m \in Messages /\ m.topic = "t1" BY <1>1, <1>4 DEF Messages
<1>6. /\ inbox' \in Seq(Messages) /\ Len(inbox') = Len(inbox) + 1 /\ inbox'[Len(inbox) + 1] = m
      /\ DOMAIN inbox' = 1..(Len(inbox) + 1) /\ \A i \in DOMAIN inbox : inbox'[i] = inbox[i]
  BY <1>2, <1>3, <1>5
<1>7. Len(inbox') <= Len(Orders) /\ Len(inbox) <= Len(inbox') BY <1>2, <1>3, <1>6
<1>8. ASSUME NEW i \in DOMAIN inbox', ~inbox'[i].moved PROVE inbox'[i].topic = "t1"
  <2>1. CASE i = Len(inbox) + 1 BY <1>5, <1>6, <2>1
  <2>2. CASE i # Len(inbox) + 1
    <3>1. i \in DOMAIN inbox BY <1>3, <1>6, <2>2
    <3> QED BY <1>6, <1>8, <3>1 DEF MobileInv, TopicInv
  <2> QED BY <2>1, <2>2
<1> QED BY <1>2, <1>6, <1>7, <1>8, InboxStep

\* A message that somebody changes.
LEMMA Touch_Inv ==
  ASSUME MobileInv, NEW i \in DOMAIN inbox, NEW m \in Messages, Touch(i, m),
         ~m.moved => m.topic = "t1" /\ ~inbox[i].moved,
         ~m.edited => ~inbox[i].edited /\ m.order = inbox[i].order
  PROVE  MobileInv'
PROOF
<1>1. inbox' = [inbox EXCEPT ![i] = m] /\ UNCHANGED <<posts, effects, intents, settled, attempt>>
  BY DEF Touch, records
<1>2. inbox \in Seq(Messages) /\ Len(inbox) \in Nat /\ Len(inbox) <= Len(Orders)
  BY DEF MobileInv, CommandTypeOK
<1>3. /\ inbox' \in Seq(Messages) /\ Len(inbox') = Len(inbox) /\ DOMAIN inbox' = DOMAIN inbox
      /\ inbox'[i] = m /\ \A j \in DOMAIN inbox : j # i => inbox'[j] = inbox[j]
  BY <1>1, <1>2
<1>4. \A j \in DOMAIN inbox' : ~inbox'[j].moved => inbox'[j].topic = "t1"
  BY <1>3 DEF MobileInv, TopicInv
<1>5. \A j \in DOMAIN inbox :
        /\ ~inbox'[j].moved => ~inbox[j].moved
        /\ ~inbox'[j].edited => ~inbox[j].edited /\ inbox'[j].order = inbox[j].order
  BY <1>3
<1>6. Len(inbox') <= Len(Orders) /\ Len(inbox) <= Len(inbox') BY <1>2, <1>3
<1> QED BY <1>1, <1>3, <1>4, <1>5, <1>6, InboxStep

LEMMA Edit_Inv ==
  ASSUME MobileInv, NEW i \in DOMAIN inbox, NEW o \in Orders[i], Edit(i, o)
  PROVE  MobileInv'
PROOF
<1>1. PICK m : m = [inbox[i] EXCEPT !.order = o, !.edited = TRUE] OBVIOUS
<1>2. inbox[i] \in Messages BY Lengths DEF MobileInv, CommandTypeOK
<1>3. o \in Commands
  <2>1. i \in DOMAIN Orders BY Lengths DEF MobileInv, CommandTypeOK
  <2> QED BY <2>1, OrdersAssumption
<1>4. m \in Messages /\ m.edited /\ m.moved = inbox[i].moved /\ m.topic = inbox[i].topic
  BY <1>1, <1>2, <1>3 DEF Messages
<1>5. Touch(i, m) BY <1>1 DEF Edit
<1>6. ~inbox[i].moved => inbox[i].topic = "t1" BY DEF MobileInv, TopicInv
<1> QED BY <1>4, <1>5, <1>6, Touch_Inv

LEMMA Move_Inv ==
  ASSUME MobileInv, NEW i \in DOMAIN inbox, Move(i)
  PROVE  MobileInv'
PROOF
<1>1. PICK m : m = [inbox[i] EXCEPT !.topic = "t2", !.moved = TRUE] OBVIOUS
<1>2. inbox[i] \in Messages BY Lengths DEF MobileInv, CommandTypeOK
<1>3. m \in Messages /\ m.moved /\ m.edited = inbox[i].edited /\ m.order = inbox[i].order
  BY <1>1, <1>2 DEF Messages
<1>4. Touch(i, m) BY <1>1 DEF Move
<1> QED BY <1>3, <1>4, Touch_Inv

LEMMA Withdraw_Inv ==
  ASSUME MobileInv, NEW i \in DOMAIN inbox, Withdraw(i)
  PROVE  MobileInv'
PROOF
<1>1. PICK m : m = [inbox[i] EXCEPT !.stands = FALSE] OBVIOUS
<1>2. inbox[i] \in Messages BY Lengths DEF MobileInv, CommandTypeOK
<1>3. /\ m \in Messages /\ m.moved = inbox[i].moved /\ m.topic = inbox[i].topic
      /\ m.edited = inbox[i].edited /\ m.order = inbox[i].order
  BY <1>1, <1>2 DEF Messages
<1>4. Touch(i, m) BY <1>1 DEF Withdraw
<1>5. ~inbox[i].moved => inbox[i].topic = "t1" BY DEF MobileInv, TopicInv
<1> QED BY <1>3, <1>4, <1>5, Touch_Inv

-----------------------------------------------------------------------------
LEMMA MobileNext_Inv == MobileInv /\ [MobileNext]_mvars => MobileInv'
PROOF
<1> SUFFICES ASSUME MobileInv, [MobileNext]_mvars PROVE MobileInv' OBVIOUS
<1>1. CASE Work
  BY <1>1, Read_Inv, Call_Inv, View_Inv, BeginReply_Inv, Reconcile_Inv, Attach_Inv,
     SendReply_Inv, MarkReply_Inv, CommitCommand_Inv DEF Work
<1>2. CASE Trouble BY <1>2, AttemptFails_Inv, CallLost_Inv, SendLost_Inv DEF Trouble
<1>3. CASE Others
  <2>1. ASSUME NEW o, Write(o) PROVE MobileInv' BY <2>1, Write_Inv
  <2>2. ASSUME NEW i \in DOMAIN inbox,
               (\E o \in Orders[i] : Edit(i, o)) \/ Move(i) \/ Withdraw(i)
        PROVE  MobileInv'
    BY <2>2, Edit_Inv, Move_Inv, Withdraw_Inv
  <2>3. ASSUME NEW s, SetElsewhere(s) PROVE MobileInv'
    BY <2>3, OtherStep DEF SetElsewhere, commandStore, chat
  <2>4. ASSUME NEW f, ChangeArtifact(f) PROVE MobileInv'
    BY <2>4, OtherStep DEF ChangeArtifact, commandStore, chat, records
  <2> QED BY <1>3, <2>1, <2>2, <2>3, <2>4 DEF Others
<1>4. CASE UNCHANGED mvars
  BY <1>4, OtherStep DEF mvars, commandStore, chat, records
<1> QED BY <1>1, <1>2, <1>3, <1>4 DEF MobileNext

\* For any orders, changes by others and failures: a command that comes through the
\* event queue of mobile.py acts at most once at the broker although its event is
\* tried again, has at most one reply while it stays in its topic although an
\* attempt may end between send_stream_message and mark_mobile_published, is told
\* the truth about what the broker did, and is settled only with its reply on Zulip.
THEOREM CommandsAreSound == MobileSpec => []CommandsHold
PROOF
<1>1. MobileSpec => []MobileInv BY MobileInit_Inv, MobileNext_Inv, PTL DEF MobileSpec
<1> QED BY <1>1, MobileInvHolds, PTL

-----------------------------------------------------------------------------
(* THE PUBLISHER                                                           *)

\* The thread is inside publish_once, or has just come back from it.
Publishing == pc \in {"begin", "search", "send", "mark", "save"}

\* What the thread carries through publish_once is what the tables say.
LocalInv ==
  /\ Publishing => key \in Keys
  /\ pc = "mark" => msg # 0 /\ [id |-> msg, key |-> key] \in posted
  /\ pc = "save" => pubs[key].status = "published"
  /\ \A k \in Keys : pubs[k].status = "published" =>
                       [id |-> pubs[k].message, key |-> k] \in posted

\* Nothing is sent for a key that already has a message, unless its POST may be
\* late.
OnceInv ==
  /\ inflight \subseteq Late
  /\ \A m, n \in posted : m.key = n.key /\ m.key \notin Late => m = n
  /\ \A m \in posted : m.key \notin Late => pubs[m.key].status # "none"
  /\ pc \in {"search", "send", "mark"} => pubs[key].status # "none"
  /\ pc = "send" /\ key \notin Late => \A m \in posted : m.key # key

\* The announcement of the episode of k is on record.
Announced(k) == pubs[Firing(k.of, k.episode)].status = "published"

\* Whatever resolves an episode comes after its announcement was recorded.
StoryInv ==
  /\ \A f \in Fingerprints : alerts[f].active =>
       /\ alerts[f].episode \in Episodes
       /\ pubs[Firing(f, alerts[f].episode)].status = "published"
  /\ Publishing /\ key.kind = "alert_resolved" => Announced(key)
  /\ \A m \in posted : m.key.kind = "alert_resolved" => Announced(m.key)
  /\ \A k \in inflight : k.kind = "alert_resolved" => Announced(k)
  /\ \A k \in todo : k.kind # "alert_resolved"

-----------------------------------------------------------------------------
\* An alert key is made of an alert and one of its episodes.
LEMMA KeyForm ==
  ASSUME NEW k \in Keys
  PROVE  /\ k.kind \in {"alert_firing", "alert_resolved"} =>
              k.of \in Fingerprints /\ k.episode \in Episodes
         /\ k.kind = "alert_firing" => k = Firing(k.of, k.episode)
         /\ k.kind = "alert_resolved" => k = Resolved(k.of, k.episode)
         /\ k.kind \in {"alert_firing", "alert_resolved", "approval", "daily"}
  BY DEF Keys, Firing, Resolved, Document

\* The firing and the resolution of an episode have keys.
LEMMA AlertKeys ==
  ASSUME NEW f \in Fingerprints, NEW e \in Episodes
  PROVE  Firing(f, e) \in Keys /\ Resolved(f, e) \in Keys
  BY DEF Keys

\* Names the step that was taken.
LEMMA StepCases ==
  ASSUME Next
  PROVE  \/ \E f \in Fingerprints : StartAlert(f) \/ EndAlert(f) \/ Reappear(f)
         \/ \E k \in Keys : Arrive(k)
         \/ \E k \in Keys : Publish(k)
         \/ Restart \/ PollDocuments \/ PollAlerts \/ EndStage \/ Crash \/ PollFails
         \/ BeginPublication \/ Search \/ Send \/ RequestFails \/ MarkPublished \/ Save
  BY DEF Next, Producer, Failure, Environment

\* A step keeps the types.
LEMMA NextTypeOK == TypeOK /\ LocalInv /\ [Next]_vars => TypeOK'
<1> SUFFICES ASSUME TypeOK, LocalInv, [Next]_vars PROVE TypeOK'
  OBVIOUS
<1> USE ConstantsAssumption
<1>1. CASE UNCHANGED vars
  BY <1>1 DEF TypeOK, vars, external, zulip, local
<1>2. CASE Next
  <2>1. CASE \E f \in Fingerprints : StartAlert(f) \/ EndAlert(f) \/ Reappear(f)
    <3>1. PICK f \in Fingerprints : StartAlert(f) \/ EndAlert(f) \/ Reappear(f)
      BY <2>1
    <3>2. last[f] \in 0 .. MaxEpisode /\ firing[f] \in 0 .. MaxEpisode
      BY <3>1 DEF TypeOK
    <3>3. CASE StartAlert(f)
      <4>1. last[f] + 1 \in 0 .. MaxEpisode
        BY <3>2, <3>3 DEF StartAlert
      <4>2. QED
        BY <3>3, <4>1 DEF TypeOK, StartAlert, zulip, local
    <3>4. CASE EndAlert(f)
      BY <3>4 DEF TypeOK, EndAlert, zulip, local
    <3>5. CASE Reappear(f)
      BY <3>2, <3>5 DEF TypeOK, Reappear, zulip, local
    <3>6. QED
      BY <3>1, <3>3, <3>4, <3>5
  <2>2. CASE \E k \in Keys : Arrive(k)
    BY <2>2 DEF TypeOK, Arrive, Post, external, local
  <2>3. CASE \E k \in Keys : Publish(k)
    BY <2>3 DEF TypeOK, Publish, external, zulip, Sites
  <2>4. CASE Restart
    BY <2>4 DEF TypeOK, Restart, external, zulip, local, Sites
  <2>5. CASE PollDocuments
    BY <2>5 DEF TypeOK, PollDocuments, PollApprovals, PollReport, OfKind, external, zulip, Sites
  <2>6. CASE PollAlerts
    BY <2>6 DEF TypeOK, PollAlerts, external, zulip, Sites
  <2>7. CASE EndStage
    BY <2>7 DEF TypeOK, EndStage, external, zulip, Sites, Stages, NextStage
  <2>8. CASE Crash
    <3>1. posted' \subseteq [id : Nat \ {0}, key : Keys] /\ lastId' \in Nat /\ inflight' \subseteq Keys
      <4>1. pc = "send" => key \in Keys
        BY DEF LocalInv, Publishing
      <4> QED BY <2>8, <4>1 DEF TypeOK, Crash, Unanswered, Post, zulip
    <3>2. QED
      BY <2>8, <3>1 DEF TypeOK, Crash, MayFail, external, Sites, Stages, NoSnapshot
  <2>9. CASE PollFails
    BY <2>9 DEF TypeOK, PollFails, MayFail, external, zulip, Stages, NextStage
  <2>10. CASE BeginPublication
    <3>1. pc' \in Sites
      BY <2>10 DEF TypeOK, BeginPublication, AfterBegin, Sites, LocalInv, Publishing, Unpublished, Intent
    <3>2. QED
      BY <2>10, <3>1 DEF TypeOK, BeginPublication, LocalInv, Publishing, external, zulip, local
  <2>11. CASE Search
    BY <2>11 DEF TypeOK, Search, Matches, GiveUp, external, zulip, Sites, Stages, NextStage
  <2>12. CASE Send
    BY <2>12 DEF TypeOK, Send, Post, LocalInv, Publishing, external, Sites
  <2>13. CASE RequestFails
    <3>1. key \in Keys
      BY <2>13 DEF RequestFails, LocalInv, Publishing
    <3>2. posted' \subseteq [id : Nat \ {0}, key : Keys] /\ lastId' \in Nat /\ inflight' \subseteq Keys
      BY <2>13, <3>1 DEF TypeOK, RequestFails, Unanswered, Post, zulip
    <3>3. QED
      BY <2>13, <3>2 DEF TypeOK, RequestFails, MayFail, GiveUp, external, Sites, Stages, NextStage
  <2>14. CASE MarkPublished
    BY <2>14 DEF TypeOK, MarkPublished, IdStored, LocalInv, Publishing, external, zulip, local, Sites
  <2>15. CASE Save
    <3>1. key \in Keys
      BY <2>15 DEF Save, LocalInv, Publishing
    <3>2. alerts' \in [Fingerprints -> [episode : 0 .. MaxEpisode, active : BOOLEAN]]
      <4>1. CASE key.kind = "alert_firing"
        <5>1. key.of \in Fingerprints /\ key.episode \in 0 .. MaxEpisode
          BY <3>1, <4>1, KeyForm DEF Episodes
        <5>2. alerts' = [alerts EXCEPT ![key.of] = [episode |-> key.episode, active |-> TRUE]]
          BY <2>15, <4>1 DEF Save
        <5>3. QED
          BY <5>1, <5>2 DEF TypeOK
      <4>2. CASE key.kind = "alert_resolved"
        <5>1. key.of \in Fingerprints /\ key.episode \in 0 .. MaxEpisode
          BY <3>1, <4>2, KeyForm DEF Episodes
        <5>2. alerts' = [alerts EXCEPT ![key.of] = [episode |-> key.episode, active |-> FALSE]]
          BY <2>15, <4>2 DEF Save
        <5>3. QED
          BY <5>1, <5>2 DEF TypeOK
      <4>3. CASE key.kind \in {"approval", "daily"}
        BY <2>15, <4>3 DEF Save, TypeOK
      <4>4. QED
        BY <3>1, <4>1, <4>2, <4>3, KeyForm
    <3>3. QED
      BY <2>15, <3>2 DEF TypeOK, Save, external, zulip, Sites
  <2>16. QED
    BY <1>2, StepCases, <2>1, <2>2, <2>3, <2>4, <2>5, <2>6, <2>7, <2>8, <2>9,
       <2>10, <2>11, <2>12, <2>13, <2>14, <2>15
<1>3. QED
  BY <1>1, <1>2

-----------------------------------------------------------------------------
\* A publication on record stays on record.
LEMMA PublishedStays ==
  ASSUME TypeOK, LocalInv, [Next]_vars,
         NEW k \in Keys, pubs[k].status = "published"
  PROVE  pubs'[k].status = "published"
<1>1. CASE pubs' = pubs
  BY <1>1
<1>2. CASE BeginPublication
  <2>1. pubs' = pubs \/ (pubs[key] = Unpublished /\ pubs' = [pubs EXCEPT ![key] = Intent])
    BY <1>2 DEF BeginPublication
  <2>2. pubs[key] = Unpublished => key # k
    BY DEF Unpublished
  <2>3. QED
    BY <2>1, <2>2 DEF TypeOK
<1>3. CASE MarkPublished
  BY <1>3 DEF MarkPublished, TypeOK
<1>4. QED
  BY <1>1, <1>2, <1>3, StepCases DEF vars, external, zulip, local, StartAlert, EndAlert, Reappear,
     Arrive, Publish, Restart, PollDocuments, PollApprovals, PollReport,
     PollAlerts, EndStage, Crash, PollFails, Search,
     Send, RequestFails, Save

\* A message that arrived stays.
LEMMA PostedStays ==
  ASSUME [Next]_vars
  PROVE  posted \subseteq posted'
<1>1. CASE posted' = posted
  BY <1>1
<1>2. CASE \E k \in Keys : Arrive(k)
  BY <1>2 DEF Arrive, Post
<1>3. CASE Send
  BY <1>3 DEF Send, Post
<1>4. CASE RequestFails \/ Crash
  BY <1>4 DEF RequestFails, Crash, Unanswered, Post, zulip
<1>5. QED
  BY <1>1, <1>2, <1>3, <1>4, StepCases DEF vars, external, zulip, local, StartAlert, EndAlert,
     Reappear, Publish, Restart, PollDocuments, PollApprovals, PollReport,
     PollAlerts, EndStage, Crash, PollFails, Search,
     BeginPublication, MarkPublished, Save

\* A step keeps the locals of publish_once in line with the tables.
LEMMA NextLocalInv == TypeOK /\ LocalInv /\ [Next]_vars => LocalInv'
<1> SUFFICES ASSUME TypeOK, LocalInv, [Next]_vars PROVE LocalInv'
  OBVIOUS
<1>0. posted \subseteq posted'
  BY PostedStays
<1>1. CASE /\ pubs' = pubs
           /\ \/ pc' \notin {"begin", "search", "send", "mark", "save"}
              \/ pc' = pc /\ key' = key /\ msg' = msg
  BY <1>0, <1>1 DEF LocalInv, Publishing
<1>2. CASE \E k \in Keys : Publish(k)
  BY <1>0, <1>2 DEF LocalInv, Publishing, Publish
<1>3. CASE BeginPublication
  <2>1. key \in Keys /\ key' = key /\ posted' = posted
    BY <1>3 DEF BeginPublication, LocalInv, Publishing, zulip, local
  <2>2. pubs[key].status \in {"none", "intent", "published"}
    BY <2>1 DEF TypeOK, Unpublished, Intent
  <2>3. /\ pubs[key].status = "none" => pc' = "send"
        /\ pubs[key].status = "intent" => pc' = "search"
        /\ pubs[key].status = "published" => pc' = "save"
    BY <1>3 DEF BeginPublication, AfterBegin
  <2>4. pubs' = pubs \/ (pubs[key] = Unpublished /\ pubs' = [pubs EXCEPT ![key] = Intent])
    BY <1>3 DEF BeginPublication
  <2>5. \A k \in Keys : pubs'[k].status = "published" => pubs'[k] = pubs[k]
    BY <2>4 DEF TypeOK, Intent
  <2>6. pubs[key].status = "published" => pubs'[key].status = "published"
    BY <2>1, PublishedStays
  <2>7. pc' \in {"send", "search", "save"} /\ (pc' = "save" => pubs'[key].status = "published")
    BY <2>2, <2>3, <2>6
  <2>8. \A k \in Keys : pubs'[k].status = "published" =>
                          [id |-> pubs'[k].message, key |-> k] \in posted'
    BY <2>1, <2>5 DEF LocalInv
  <2>9. QED
    BY <2>1, <2>7, <2>8 DEF LocalInv, Publishing
<1>4. CASE Search
  <2>1. pubs' = pubs /\ key \in Keys
    BY <1>4 DEF Search, LocalInv, Publishing
  <2>2. CASE pc' = "send" /\ key' = key
    BY <1>0, <2>1, <2>2 DEF LocalInv, Publishing
  <2>3. CASE GiveUp
    BY <1>0, <2>1, <2>3 DEF LocalInv, Publishing, GiveUp
  <2>4. CASE \E m \in Matches(key) : pc' = "mark" /\ msg' = m.id /\ key' = key
    <3>1. PICK m \in Matches(key) : pc' = "mark" /\ msg' = m.id /\ key' = key
      BY <2>4
    <3>2. m \in posted /\ m.id \in Nat \ {0} /\ m = [id |-> m.id, key |-> key]
      BY <3>1 DEF Matches, TypeOK
    <3>3. QED
      BY <1>0, <2>1, <3>1, <3>2 DEF LocalInv, Publishing
  <2>5. QED
    BY <1>4, <2>2, <2>3, <2>4 DEF Search
<1>5. CASE Send
  BY <1>0, <1>5 DEF Send, Post, LocalInv, Publishing, TypeOK
<1>6. CASE MarkPublished
  <2>1. /\ pubs' = [pubs EXCEPT ![key] = [status |-> "published", message |-> msg]]
        /\ pc' = "save" /\ key' = key /\ posted' = posted
        /\ key \in Keys /\ [id |-> msg, key |-> key] \in posted
    BY <1>6 DEF MarkPublished, IdStored, LocalInv, Publishing, zulip, local
  <2>2. pubs'[key] = [status |-> "published", message |-> msg]
    BY <2>1 DEF TypeOK
  <2>3. \A k \in Keys : k # key => pubs'[k] = pubs[k]
    BY <2>1 DEF TypeOK
  <2>4. QED
    BY <2>1, <2>2, <2>3 DEF LocalInv, Publishing
<1>7. QED
  <2>1. UNCHANGED vars => pubs' = pubs /\ pc' = pc /\ key' = key /\ msg' = msg
    BY DEF vars, local
  <2>2. (\E f \in Fingerprints : StartAlert(f) \/ EndAlert(f) \/ Reappear(f)) =>
          pubs' = pubs /\ pc' = pc /\ key' = key /\ msg' = msg
    BY DEF StartAlert, EndAlert, Reappear, local
  <2>3. (\E k \in Keys : Arrive(k)) => pubs' = pubs /\ pc' = pc /\ key' = key /\ msg' = msg
    BY DEF Arrive, local
  <2>4. Restart \/ PollDocuments \/ PollAlerts \/ EndStage \/ Crash \/ Save =>
          pubs' = pubs /\ pc' \notin {"begin", "search", "send", "mark", "save"}
    BY DEF Restart, PollDocuments, PollApprovals, PollReport, PollAlerts, EndStage, Crash, Save
  <2>5. PollFails => pubs' = pubs /\ pc' \notin {"begin", "search", "send", "mark", "save"}
    BY DEF PollFails
  <2>6. RequestFails => pubs' = pubs /\ pc' \notin {"begin", "search", "send", "mark", "save"}
    BY DEF RequestFails, GiveUp
  <2>7. QED
    BY <1>1, <1>2, <1>3, <1>4, <1>5, <1>6, <2>1, <2>2, <2>3, <2>4, <2>5, <2>6, StepCases

-----------------------------------------------------------------------------
\* An intent is never withdrawn.
LEMMA IntentStays ==
  ASSUME TypeOK, LocalInv, [Next]_vars, NEW k \in Keys, pubs[k].status # "none"
  PROVE  pubs'[k].status # "none"
<1>1. CASE pubs' = pubs
  BY <1>1
<1>2. CASE BeginPublication
  <2>1. pubs' = pubs \/ pubs' = [pubs EXCEPT ![key] = Intent]
    BY <1>2 DEF BeginPublication
  <2>2. QED
    BY <2>1 DEF TypeOK, Intent
<1>3. CASE MarkPublished
  BY <1>3 DEF MarkPublished, TypeOK
<1>4. QED
  BY <1>1, <1>2, <1>3, StepCases DEF vars, external, zulip, local, StartAlert, EndAlert, Reappear,
     Arrive, Publish, Restart, PollDocuments, PollApprovals, PollReport,
     PollAlerts, EndStage, Crash, PollFails, Search,
     Send, RequestFails, Save

\* Of a key whose POST is not late, a message is added only while it is sent.
LEMMA NextOnceInv ==
  ASSUME TypeOK, LocalInv, OnceInv, [Next]_vars
  PROVE  OnceInv'
<1>0. \A m \in posted : m.key \notin Late => m.key \in Keys /\ pubs'[m.key].status # "none"
  <2> SUFFICES ASSUME NEW m \in posted, m.key \notin Late
               PROVE  m.key \in Keys /\ pubs'[m.key].status # "none"
    OBVIOUS
  <2>1. m.key \in Keys /\ pubs[m.key].status # "none"
    BY DEF TypeOK, OnceInv
  <2>2. QED
    BY <2>1, IntentStays
<1>k. pc \in {"search", "send", "mark"} => key \in Keys /\ pubs'[key].status # "none"
  <2> SUFFICES ASSUME pc \in {"search", "send", "mark"} PROVE key \in Keys /\ pubs'[key].status # "none"
    OBVIOUS
  <2>1. key \in Keys /\ pubs[key].status # "none"
    BY DEF LocalInv, Publishing, OnceInv
  <2>2. QED
    BY <2>1, IntentStays
<1>1. CASE /\ posted' = posted /\ inflight' \subseteq Late
           /\ \/ pc' \notin {"search", "send", "mark"}
              \/ pc' = pc /\ key' = key
  BY <1>0, <1>k, <1>1 DEF OnceInv
<1>2. CASE BeginPublication
  <2>1. key \in Keys /\ key' = key /\ posted' = posted /\ inflight' = inflight
    BY <1>2 DEF BeginPublication, LocalInv, Publishing, zulip, local
  <2>2. pubs[key].status \in {"none", "intent", "published"} /\ (pubs[key].status = "none" => pubs[key] = Unpublished)
    BY <2>1 DEF TypeOK, Unpublished, Intent
  <2>3. /\ pubs[key].status = "none" => pc' = "send"
        /\ pubs[key].status = "intent" => pc' = "search"
        /\ pubs[key].status = "published" => pc' = "save"
    BY <1>2 DEF BeginPublication, AfterBegin
  <2>4. pubs'[key].status # "none"
    <3>1. CASE pubs[key].status = "none"
      BY <1>2, <2>1, <2>2, <3>1 DEF BeginPublication, TypeOK, Intent
    <3>2. CASE pubs[key].status # "none"
      BY <2>1, <3>2, IntentStays
    <3>3. QED
      BY <3>1, <3>2
  <2>5. pc' = "send" /\ key \notin Late => \A m \in posted : m.key # key
    BY <2>2, <2>3 DEF OnceInv
  <2>6. QED
    BY <1>0, <2>1, <2>4, <2>5 DEF OnceInv
<1>3. CASE Search
  <2>1. posted' = posted /\ inflight' = inflight /\ pc = "search"
    BY <1>3 DEF Search, zulip
  <2>2. CASE Matches(key) = {} /\ pc' = "send" /\ key' = key
    <3>1. \A m \in posted : m.key # key
      BY <2>2 DEF Matches
    <3>2. QED
      BY <1>0, <1>k, <2>1, <2>2, <3>1 DEF OnceInv
  <2>3. CASE pc' = "mark" /\ key' = key
    BY <1>0, <1>k, <2>1, <2>3 DEF OnceInv
  <2>4. CASE pc' = "poll"
    BY <1>0, <2>1, <2>4 DEF OnceInv
  <2>5. QED
    BY <1>3, <2>2, <2>3, <2>4 DEF Search, GiveUp
<1>4. CASE pc = "send" /\ Post(key) /\ inflight' = inflight /\ pc' # "send" /\ pc' # "search"
           /\ (pc' = "mark" => key' = key)
  <2>1. posted' = posted \cup {[id |-> lastId + 1, key |-> key]}
    BY <1>4 DEF Post
  <2>2. key \notin Late => \A m \in posted : m.key # key
    BY <1>4 DEF OnceInv
  <2>3. \A m, n \in posted' : m.key = n.key /\ m.key \notin Late => m = n
    BY <2>1, <2>2 DEF OnceInv
  <2>4. \A m \in posted' : m.key \notin Late => pubs'[m.key].status # "none"
    BY <1>0, <1>k, <1>4, <2>1
  <2>5. QED
    BY <1>k, <1>4, <2>3, <2>4 DEF OnceInv
<1>5. CASE \E k \in Keys : Arrive(k)
  <2>1. PICK k \in inflight : /\ posted' = posted \cup {[id |-> lastId + 1, key |-> k]}
                              /\ inflight' = inflight \ {k}
                              /\ pc' = pc /\ key' = key
    BY <1>5 DEF Arrive, Post, local
  <2>2. k \in Late /\ inflight' \subseteq Late
    BY <2>1 DEF OnceInv
  <2>3. \A m \in posted' : m.key \notin Late => m \in posted
    BY <2>1, <2>2
  <2>4. \A m, n \in posted' : m.key = n.key /\ m.key \notin Late => m = n
    BY <2>3 DEF OnceInv
  <2>5. pc' = "send" /\ key' \notin Late => \A m \in posted' : m.key # key'
    BY <2>1, <2>3 DEF OnceInv
  <2>6. QED
    BY <1>0, <1>k, <2>1, <2>2, <2>3, <2>4, <2>5 DEF OnceInv
<1>6. QED
  <2>1. UNCHANGED vars => posted' = posted /\ inflight' = inflight /\ pc' = pc /\ key' = key
    BY DEF vars, zulip, local
  <2>2. (\E f \in Fingerprints : StartAlert(f) \/ EndAlert(f) \/ Reappear(f)) =>
          posted' = posted /\ inflight' = inflight /\ pc' = pc /\ key' = key
    BY DEF StartAlert, EndAlert, Reappear, zulip, local
  <2>3. Restart \/ PollDocuments \/ PollAlerts \/ EndStage \/ Save \/ MarkPublished
          \/ (\E k \in Keys : Publish(k)) =>
          posted' = posted /\ inflight' = inflight /\ pc' \notin {"search", "send", "mark"}
    BY DEF Restart, PollDocuments, PollApprovals, PollReport,
       PollAlerts, EndStage, Save, MarkPublished, Publish, zulip
  <2>4. PollFails => posted' = posted /\ inflight' = inflight /\ pc' \notin {"search", "send", "mark"}
    BY DEF PollFails, zulip
  <2>5. Send => /\ pc = "send" /\ Post(key) /\ inflight' = inflight
                /\ pc' # "send" /\ pc' # "search" /\ key' = key
    BY DEF Send
  <2>6. RequestFails \/ Crash =>
          /\ pc' \in {"poll", "down"}
          /\ \/ posted' = posted /\ inflight' \subseteq Late
             \/ pc = "send" /\ Post(key) /\ inflight' = inflight
    BY DEF RequestFails, Crash, Unanswered, GiveUp, zulip, OnceInv
  <2>7. inflight \subseteq Late
    BY DEF OnceInv
  <2>8. QED
    BY <1>1, <1>2, <1>3, <1>4, <1>5, <2>1, <2>2, <2>3, <2>4, <2>5, <2>6, <2>7, StepCases

-----------------------------------------------------------------------------
\* An announcement on record stays on record.
LEMMA AnnouncedStays ==
  ASSUME TypeOK, LocalInv, [Next]_vars,
         NEW k \in Keys, k.kind = "alert_resolved", Announced(k)
  PROVE  pubs'[Firing(k.of, k.episode)].status = "published"
<1>1. Firing(k.of, k.episode) \in Keys
  BY KeyForm, AlertKeys
<1>2. pubs[Firing(k.of, k.episode)].status = "published"
  BY DEF Announced
<1>3. QED
  BY <1>1, <1>2, PublishedStays

\* A resolution is begun only for an episode that alert_state calls active.
LEMMA ResolvesActive ==
  ASSUME TypeOK, StoryInv, NEW k \in Keys, Publish(k), k.kind = "alert_resolved"
  PROVE  Announced(k)
<1>1. k \in NextKeys /\ k \notin todo
  BY DEF Publish, StoryInv
<1>2. PICK f \in Fingerprints : alerts[f].active /\ k = Resolved(f, alerts[f].episode)
  BY <1>1 DEF NextKeys, Superseded, New, Gone, Firing
<1>3. k.of = f /\ k.episode = alerts[f].episode
  BY <1>2 DEF Resolved
<1>4. QED
  BY <1>2, <1>3 DEF StoryInv, Announced

\* A step keeps the order of announcement and resolution.
LEMMA NextStoryInv ==
  ASSUME TypeOK, LocalInv, StoryInv, [Next]_vars
  PROVE  StoryInv'
<1>1. \A f \in Fingerprints : alerts[f].active =>
        /\ alerts[f].episode \in Episodes
        /\ pubs'[Firing(f, alerts[f].episode)].status = "published"
  <2> SUFFICES ASSUME NEW f \in Fingerprints, alerts[f].active
               PROVE  /\ alerts[f].episode \in Episodes
                      /\ pubs'[Firing(f, alerts[f].episode)].status = "published"
    OBVIOUS
  <2>1. alerts[f].episode \in Episodes /\ pubs[Firing(f, alerts[f].episode)].status = "published"
    BY DEF StoryInv
  <2>2. Firing(f, alerts[f].episode) \in Keys
    BY <2>1, AlertKeys
  <2>3. QED
    BY <2>1, <2>2, PublishedStays
<1>2. ASSUME NEW k \in Keys, k.kind = "alert_resolved", Announced(k)
      PROVE  pubs'[Firing(k.of, k.episode)].status = "published"
  BY <1>2, AnnouncedStays
<1>3. \A m \in posted : m.key.kind = "alert_resolved" =>
        pubs'[Firing(m.key.of, m.key.episode)].status = "published"
  <2> SUFFICES ASSUME NEW m \in posted, m.key.kind = "alert_resolved"
               PROVE  pubs'[Firing(m.key.of, m.key.episode)].status = "published"
    OBVIOUS
  <2>1. m.key \in Keys /\ Announced(m.key)
    BY DEF TypeOK, StoryInv
  <2>2. QED
    BY <1>2, <2>1
<1>4. \A k \in inflight : k.kind = "alert_resolved" =>
        pubs'[Firing(k.of, k.episode)].status = "published"
  <2> SUFFICES ASSUME NEW k \in inflight, k.kind = "alert_resolved"
               PROVE  pubs'[Firing(k.of, k.episode)].status = "published"
    OBVIOUS
  <2>1. k \in Keys /\ Announced(k)
    BY DEF TypeOK, StoryInv
  <2>2. QED
    BY <1>2, <2>1
<1>5. Publishing /\ key.kind = "alert_resolved" =>
        pubs'[Firing(key.of, key.episode)].status = "published"
  <2> SUFFICES ASSUME Publishing, key.kind = "alert_resolved"
               PROVE  pubs'[Firing(key.of, key.episode)].status = "published"
    OBVIOUS
  <2>1. key \in Keys /\ Announced(key)
    BY DEF LocalInv, StoryInv
  <2>2. QED
    BY <1>2, <2>1
<1>6. \A m \in posted' : m.key.kind = "alert_resolved" =>
        pubs'[Firing(m.key.of, m.key.episode)].status = "published"
  <2>1. CASE posted' = posted
    BY <1>3, <2>1
  <2>2. CASE \E k \in Keys : Arrive(k)
    BY <1>3, <1>4, <2>2 DEF Arrive, Post
  <2>3. CASE pc = "send" /\ Post(key)
    BY <1>3, <1>5, <2>3 DEF Post, Publishing
  <2>4. QED
    BY <2>1, <2>2, <2>3, StepCases DEF vars, external, zulip, local, StartAlert, EndAlert,
       Reappear, Publish, Restart, PollDocuments, PollApprovals, PollReport,
       PollAlerts, EndStage, Crash, PollFails, Unanswered,
       Search, BeginPublication, Send, RequestFails, MarkPublished, Save
<1>7. \A k \in inflight' : k.kind = "alert_resolved" =>
        pubs'[Firing(k.of, k.episode)].status = "published"
  <2>1. CASE inflight' \subseteq inflight
    BY <1>4, <2>1
  <2>2. CASE pc = "send" /\ inflight' = inflight \cup {key}
    BY <1>4, <1>5, <2>2 DEF Publishing
  <2>3. QED
    BY <2>1, <2>2, StepCases DEF vars, external, zulip, local, StartAlert, EndAlert, Arrive,
       Reappear, Publish, Restart, PollDocuments, PollApprovals, PollReport,
       PollAlerts, EndStage, Crash, PollFails, Unanswered,
       Search, BeginPublication, Send, RequestFails, MarkPublished, Save
<1>8. \A k \in todo' : k.kind # "alert_resolved"
  <2>1. CASE todo' \subseteq todo
    BY <2>1 DEF StoryInv
  <2>2. CASE PollDocuments
    BY <2>2 DEF PollDocuments, PollApprovals, PollReport, OfKind
  <2>3. QED
    BY <2>1, <2>2, StepCases DEF vars, external, zulip, local, StartAlert, EndAlert, Arrive,
       Reappear, Publish, Restart, PollAlerts, EndStage, Crash, PollFails, Unanswered, GiveUp,
       Search, BeginPublication, Send, RequestFails, MarkPublished, Save
<1>9. Publishing' /\ key'.kind = "alert_resolved" =>
        pubs'[Firing(key'.of, key'.episode)].status = "published"
  <2>1. CASE Publishing /\ key' = key
    BY <1>5, <2>1
  <2>2. CASE ~Publishing'
    BY <2>2
  <2>3. CASE \E k \in Keys : Publish(k)
    <3>1. PICK k \in Keys : Publish(k)
      BY <2>3
    <3>2. key' = k
      BY <3>1 DEF Publish
    <3>3. k.kind = "alert_resolved" => pubs'[Firing(k.of, k.episode)].status = "published"
      BY <1>2, <3>1, ResolvesActive
    <3>4. QED
      BY <3>2, <3>3
  <2>4. QED
    BY <2>1, <2>2, <2>3, StepCases DEF Publishing, vars, external, zulip, local, StartAlert,
       EndAlert, Arrive, Reappear, Restart, PollDocuments, PollApprovals, PollReport,
       PollAlerts, EndStage, Crash,
       PollFails, GiveUp, Search, BeginPublication, Send, RequestFails, MarkPublished, Save
<1>10. \A f \in Fingerprints : alerts'[f].active =>
         /\ alerts'[f].episode \in Episodes
         /\ pubs'[Firing(f, alerts'[f].episode)].status = "published"
  <2>1. CASE alerts' = alerts
    BY <1>1, <2>1
  <2>2. CASE Save
    <3>1. key \in Keys /\ pubs[key].status = "published" /\ pubs' = pubs
      BY <2>2 DEF Save, LocalInv, Publishing
    <3>2. CASE key.kind = "alert_firing"
      <4>1. alerts' = [alerts EXCEPT ![key.of] = [episode |-> key.episode, active |-> TRUE]]
        BY <2>2, <3>2 DEF Save
      <4>2. key.of \in Fingerprints /\ key.episode \in Episodes /\ key = Firing(key.of, key.episode)
        BY <3>1, <3>2, KeyForm
      <4>3. pubs'[Firing(key.of, key.episode)].status = "published"
        BY <3>1, <4>2
      <4>4. \A f \in Fingerprints : alerts'[f] =
              IF f = key.of THEN [episode |-> key.episode, active |-> TRUE] ELSE alerts[f]
        BY <4>1 DEF TypeOK
      <4>5. QED
        BY <1>1, <4>2, <4>3, <4>4
    <3>3. CASE key.kind = "alert_resolved"
      <4>1. alerts' = [alerts EXCEPT ![key.of] = [episode |-> key.episode, active |-> FALSE]]
        BY <2>2, <3>3 DEF Save
      <4>2. \A f \in Fingerprints : alerts'[f] =
              IF f = key.of THEN [episode |-> key.episode, active |-> FALSE] ELSE alerts[f]
        BY <4>1 DEF TypeOK
      <4>3. QED
        BY <1>1, <4>2
    <3>4. CASE key.kind \in {"approval", "daily"}
      BY <1>1, <2>2, <3>4 DEF Save
    <3>5. QED
      BY <3>1, <3>2, <3>3, <3>4, KeyForm
  <2>3. QED
    BY <2>1, <2>2, StepCases DEF vars, external, zulip, local, StartAlert, EndAlert, Arrive,
       Reappear, Publish, Restart, PollDocuments, PollApprovals, PollReport,
       PollAlerts, EndStage, Crash, PollFails, Unanswered,
       Search, BeginPublication, Send, RequestFails, MarkPublished
<1>11. QED
  BY <1>6, <1>7, <1>8, <1>9, <1>10 DEF StoryInv, Announced

-----------------------------------------------------------------------------
\* What holds whether or not a POST may arrive late.
PostsIInv == TypeOK /\ LocalInv /\ StoryInv

\* The initial state satisfies every part of the invariants.
LEMMA InitInv == Init => PostsIInv /\ OnceInv
<1> SUFFICES ASSUME Init PROVE PostsIInv /\ OnceInv
  OBVIOUS
<1>1. TypeOK
  BY ConstantsAssumption DEF Init, TypeOK, Unpublished, Intent, NoAlert, NoSnapshot, Sites, Stages
<1>2. LocalInv /\ OnceInv
  BY DEF Init, LocalInv, OnceInv, Publishing, Unpublished
<1>3. StoryInv
  BY DEF Init, StoryInv, Publishing, NoAlert
<1>4. QED
  BY <1>1, <1>2, <1>3 DEF PostsIInv

\* Every step keeps them.
LEMMA NextPostsIInv == PostsIInv /\ [Next]_vars => PostsIInv'
  BY NextTypeOK, NextLocalInv, NextStoryInv DEF PostsIInv

\* Every reachable state has its type, whatever fails.
THEOREM TypeCorrect == Spec => []TypeOK
<1>1. Init => PostsIInv
  BY InitInv
<1>2. PostsIInv => TypeOK
  BY DEF PostsIInv
<1>3. QED
  BY <1>1, <1>2, NextPostsIInv, PTL DEF Spec

\* No resolution stands on Zulip without its announcement, even if POSTs arrive
\* late, twice or never.
THEOREM StoryInOrder == Spec => []AnnouncedBeforeResolved
<1>1. Init => PostsIInv
  BY InitInv
<1>2. PostsIInv => AnnouncedBeforeResolved
  <2> SUFFICES ASSUME PostsIInv, NEW m \in posted, m.key.kind = "alert_resolved"
               PROVE  \E n \in posted : n.key = Firing(m.key.of, m.key.episode)
    BY DEF AnnouncedBeforeResolved
  <2>1. m.key \in Keys /\ Announced(m.key)
    BY DEF PostsIInv, TypeOK, StoryInv
  <2>2. Firing(m.key.of, m.key.episode) \in Keys
    BY <2>1, KeyForm, AlertKeys
  <2>3. [id |-> pubs[Firing(m.key.of, m.key.episode)].message,
         key |-> Firing(m.key.of, m.key.episode)] \in posted
    BY <2>1, <2>2 DEF PostsIInv, LocalInv, Announced
  <2>4. QED
    BY <2>3
<1>3. QED
  BY <1>1, <1>2, NextPostsIInv, PTL DEF Spec

\* publish_once posts a marker at most once and records the message it posted,
\* unless its POST may arrive after the client gave up on it; late posts of other
\* markers do not matter.
THEOREM PostedExactlyOnce == Spec => []ExactlyOnce
<1>1. Init => PostsIInv /\ OnceInv
  BY InitInv
<1>2. PostsIInv /\ OnceInv /\ [Next]_vars => PostsIInv' /\ OnceInv'
  BY NextPostsIInv, NextOnceInv DEF PostsIInv
<1>3. PostsIInv /\ OnceInv => ExactlyOnce
  BY DEF PostsIInv, LocalInv, OnceInv, ExactlyOnce
<1>4. QED
  BY <1>1, <1>2, <1>3, PTL DEF Spec
=============================================================================
