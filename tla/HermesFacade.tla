----------------------------- MODULE HermesFacade -----------------------------
(***************************************************************************)
(* The chat endpoint the orchestrator offers to Hermes (hermes_facade.py): *)
(* a pool of remote providers behind one OpenAI-compatible address.  A     *)
(* chat is validated and priced for every provider, reserved with the      *)
(* cheapest one whose budget admits it, sent, and accounted for while its  *)
(* answer is passed on, as one document or as a stream of events.          *)
(*                                                                         *)
(* A chat is a thread.  Its client may go away, the provider may fail at   *)
(* any point of the answer, the ledger may be busy whenever the chat is    *)
(* settled, and the process may die.                                       *)
(***************************************************************************)
EXTENDS BudgetLedger, Sequences

CONSTANTS Chats,         \* chats; the rows of a chat are <<chat, provider>>
          PoolOrder,     \* the providers of the pool, in configuration order
          PriceOf,       \* [input, output] price of a provider
          Bodies,        \* requests: wellFormed, stream, size and output
          Overhead,      \* limits.protocol_overhead_tokens
          MaxInput,      \* limits.max_input_tokens
          MaxOutput,     \* limits.max_output_tokens
          Reports,       \* [input, output] usage a provider may report
          NoUsage,       \* the answer reports no usage
          MaxEvents,     \* bound on the events of a stream (max_response_bytes)
          MaxWorkers,    \* max_request_workers of the server
          MaxFaults      \* bound: failed ledger transactions and crashes

ASSUME FacadeAssumption ==
  /\ Calls = Chats \X Providers
  /\ PoolOrder \in Seq(Providers) /\ Range(PoolOrder) = Providers
  /\ PriceOf \in [Providers -> [input : Nat, output : Nat]]
  /\ \A b \in Bodies : b.size \in Nat /\ b.output \in Nat
  /\ Overhead \in Nat /\ MaxOutput \in Nat
  /\ Reports \subseteq [input : Nat, output : Nat] /\ NoUsage \notin Reports
  /\ Missions = 0..MaxDay
  /\ Routes = Calls

VARIABLES chat,    \* the thread of each chat
          faults   \* failures so far

vars == <<ledger, chat, faults>>

\* pc: where the thread is; todo: the candidates left; using: the one in use; window:
\* the UTC day that names its mission; asOf: the sample of reserve; seen:
\* events passed on; usage: what the stream reported; status: the answer;
\* whole: the client has the complete answer.
Idle == [pc |-> "new", body |-> NoUsage, todo |-> {}, using |-> NoUsage, window |-> 0,
         asOf |-> 0, seen |-> 0, usage |-> NoUsage, status |-> 0, whole |-> FALSE]

Init == LedgerInit /\ chat = [c \in Chats |-> Idle] /\ faults = 0

At(c, pc) == chat[c].pc = pc
Set(c, rec) == chat' = [chat EXCEPT ![c] = rec]
Active(c) == chat[c].pc \notin {"new", "done", "lost"}
Using(c) == chat[c].using
Row(c) == <<c, Using(c)>>
Answered(c, status, whole) ==
  Set(c, [chat[c] EXCEPT !.pc = "done", !.status = status, !.whole = whole,
                         !.window = 0, !.asOf = 0, !.seen = 0])

-----------------------------------------------------------------------------
(* Up to the reservation                                                   *)

\* process_request: a connection beyond the workers is closed unread.  A worker
\* may be kept by a chat or by a request that is none, so one can be missing
\* whatever the other chats do.
Turned(c) ==
  /\ At(c, "new")
  /\ Answered(c, 0, FALSE)
  /\ UNCHANGED <<ledger, faults>>

\* The tokens reserved for a body: its bytes and an overhead, and the smaller
\* of the output that is asked for and the limit.
Asked(b, p) ==
  Priced([input |-> b.size + Overhead, output |-> Min({b.output, MaxOutput})],
         PriceOf[p])

\* prepare refuses a body that is malformed or too large for any provider.
Acceptable(b) == b.wellFormed /\ b.size + Overhead <= MaxInput

\* The candidates are tried by reserved cost, then in configuration order.
Cheapest(b, todo) == {p \in todo : \A q \in todo : Asked(b, p).cost <= Asked(b, q).cost}
FirstOf(b, todo) == PoolOrder[Min({i \in DOMAIN PoolOrder : PoolOrder[i] \in Cheapest(b, todo)})]

\* dispatch, after authorization: ready are the providers that are activated
\* and configured.
Prepare(c, b, ready) ==
  /\ At(c, "new")
  /\ Cardinality({d \in Chats : Active(d)}) < MaxWorkers
  /\ IF Acceptable(b) /\ ready # {}
     THEN Set(c, [Idle EXCEPT !.pc = "next", !.body = b, !.todo = ready,
                              !.using = FirstOf(b, ready)])
     ELSE Answered(c, IF Acceptable(b) THEN 503 ELSE 400, FALSE)
  /\ UNCHANGED <<ledger, faults>>

\* _identity: every chat of a UTC day shares one mission.
Identify(c) ==
  /\ At(c, "next")
  /\ Set(c, [chat[c] EXCEPT !.pc = "identified", !.window = day])
  /\ UNCHANGED <<ledger, faults>>

\* reserve takes its own clock sample.
Sample(c) ==
  /\ At(c, "identified")
  /\ Set(c, [chat[c] EXCEPT !.pc = "reserve", !.asOf = day])
  /\ UNCHANGED <<ledger, faults>>

ReserveChat(c) ==
  /\ At(c, "reserve")
  /\ Reserve(Row(c), Row(c), chat[c].window, Using(c),
             Asked(chat[c].body, Using(c)), chat[c].asOf)
  /\ Set(c, [chat[c] EXCEPT !.pc = "sent", !.window = 0, !.asOf = 0])
  /\ UNCHANGED faults

NextCandidate(c) ==
  LET left == chat[c].todo \ {Using(c)}
  IN [chat[c] EXCEPT !.pc = "next", !.todo = left, !.using = FirstOf(chat[c].body, left)]

\* BudgetExceeded is the only answer after which the next candidate is tried.
BudgetBlock(c) ==
  /\ At(c, "reserve")
  /\ ~BudgetAllows(Row(c), chat[c].window, Using(c),
                   Asked(chat[c].body, Using(c)), chat[c].asOf)
  /\ IF chat[c].todo = {Using(c)}
     THEN Answered(c, 429, FALSE)
     ELSE Set(c, NextCandidate(c))
  /\ UNCHANGED <<ledger, faults>>

\* The ledger is busy: nothing is reserved and nothing sent.
LedgerDown(c) ==
  /\ At(c, "reserve") /\ faults < MaxFaults
  /\ faults' = faults + 1
  /\ Answered(c, 503, FALSE)
  /\ UNCHANGED ledger

-----------------------------------------------------------------------------
(* The answer of the provider                                              *)

Known(use) == IF use = NoUsage THEN [input |-> 0, output |-> 0] ELSE use

\* Mutant: a chat whose provider failed is offered to the next candidate.
AfterFailureRetry(c, status) ==
  IF chat[c].todo = {Using(c)} THEN Answered(c, status, FALSE)
  ELSE Set(c, [NextCandidate(c) EXCEPT !.usage = NoUsage])

\* A provider that may have seen the chat ends it.
AfterFailure(c, status) == Answered(c, status, FALSE)

\* The reservation is kept as uncertain, or stays reserved when the ledger
\* cannot be written, which the client of a document is told (503).
KeepReservation(c, use, status) ==
  \/ /\ MarkUncertain(Row(c), Known(use), PriceOf[Using(c)])
     /\ AfterFailure(c, status)
     /\ UNCHANGED faults
  \/ /\ faults < MaxFaults
     /\ faults' = faults + 1
     /\ AfterFailure(c, IF At(c, "stream") THEN status ELSE 503)
     /\ UNCHANGED ledger

\* No connection, an HTTP error or another content type: whether the provider
\* has seen the chat is unknown.
UpstreamFails(c) == At(c, "sent") /\ KeepReservation(c, NoUsage, 502)

\* The provider answers; a document is read at once, a stream piece by piece.
UpstreamAnswers(c) ==
  /\ At(c, "sent")
  /\ Set(c, [chat[c] EXCEPT !.pc = IF chat[c].body.stream THEN "stream" ELSE "document"])
  /\ UNCHANGED <<ledger, faults>>

Fits(c, use) == AtMost(use, rows[Row(c)].reserved)

\* The document is valid.  Without usage the reservation is kept and the
\* answer given; usage beyond the reservation is an error.
Document(c, use) ==
  /\ At(c, "document")
  /\ \/ /\ use # NoUsage /\ Fits(c, use)
        /\ Complete(Row(c), Priced(use, PriceOf[Using(c)]))
        /\ Answered(c, 200, TRUE)
        /\ UNCHANGED faults
     \/ /\ use = NoUsage
        /\ MarkUncertain(Row(c), Known(use), PriceOf[Using(c)])
        /\ Answered(c, 200, TRUE)
        /\ UNCHANGED faults
     \/ use # NoUsage /\ ~Fits(c, use) /\ KeepReservation(c, use, 502)

\* The document is invalid or cannot be read, or the ledger is busy.
DocumentFails(c) ==
  At(c, "document") /\ \E status \in {502, 503} : KeepReservation(c, NoUsage, status)

\* An event of the stream is passed on; the usage it reports must not change.
StreamEvent(c, use) ==
  /\ At(c, "stream") /\ chat[c].seen < MaxEvents
  /\ use \in {NoUsage, chat[c].usage} \/ chat[c].usage = NoUsage
  /\ Set(c, [chat[c] EXCEPT !.seen = @ + 1,
                            !.usage = IF use = NoUsage THEN @ ELSE use])
  /\ UNCHANGED <<ledger, faults>>

\* [DONE]: the chat is settled first (_finish), and only then is the end
\* passed on.
StreamDone(c) ==
  LET use == chat[c].usage
  IN /\ At(c, "stream")
     /\ IF use = NoUsage
        THEN MarkUncertain(Row(c), Known(use), PriceOf[Using(c)])
        ELSE Fits(c, use) /\ Complete(Row(c), Priced(use, PriceOf[Using(c)]))
     /\ Answered(c, 200, TRUE)
     /\ UNCHANGED faults

\* Mutant: a client that goes away leaves the reservation open.
StreamFailsOpen(c) ==
  At(c, "stream") /\ Answered(c, 200, FALSE) /\ UNCHANGED <<ledger, faults>>

\* The stream breaks off: it ended without [DONE], an event is invalid, its
\* usage changed or was beyond the reservation, it is too long, the client
\* went away, or the ledger was busy at the end.
StreamFails(c) == At(c, "stream") /\ KeepReservation(c, chat[c].usage, 200)

\* The process dies; the clients see their connections closed.
Crash ==
  /\ faults < MaxFaults
  /\ faults' = faults + 1
  /\ chat' = [c \in Chats |-> IF Active(c) THEN [chat[c] EXCEPT !.pc = "lost"]
                                           ELSE chat[c]]
  /\ UNCHANGED ledger

Step(c) ==
  \/ Identify(c) \/ Sample(c) \/ ReserveChat(c) \/ BudgetBlock(c) \/ LedgerDown(c)
  \/ UpstreamFails(c) \/ UpstreamAnswers(c) \/ DocumentFails(c)
  \/ \E use \in Reports \cup {NoUsage} : Document(c, use) \/ StreamEvent(c, use)
  \/ StreamDone(c) \/ StreamFails(c)

Next ==
  \/ \E c \in Chats : \/ Step(c) \/ Turned(c)
                      \/ \E b \in Bodies, ready \in SUBSET Providers : Prepare(c, b, ready)
  \/ Crash
  \/ NextDay /\ UNCHANGED <<chat, faults>>

\* Threads are scheduled; reads and writes of sockets time out and the length
\* of an answer is bounded.
Fairness == \A c \in Chats : WF_vars(Step(c))

Spec == Init /\ [][Next]_vars /\ Fairness

-----------------------------------------------------------------------------
(* Properties                                                              *)

TypeOK ==
  /\ day \in 0..MaxDay
  /\ \A k \in Recorded : /\ rows[k].provider \in Providers
                         /\ rows[k].asOf \in 0..rows[k].day /\ rows[k].day \in 0..day
  /\ \A c \in Chats : /\ chat[c].asOf \in 0..day
                      /\ chat[c].window \in 0..day
                      /\ chat[c].todo \subseteq Providers
                      /\ Active(c) => chat[c].todo # {}

RowsOf(c) == {k \in Recorded : k[1] = c}

\* A chat is never sent twice, and never again once a provider may have seen
\* it: at most one reservation is made for it, and none for a chat that is
\* answered with "budget exceeded" (429).
NeverSentTwice ==
  \A c \in Chats : /\ Cardinality(RowsOf(c)) <= 1
                   /\ chat[c].status = 429 => RowsOf(c) = {}

\* A client that has its complete answer has been accounted for.
DeliveredIsAccounted ==
  \A c \in Chats : chat[c].whole =>
    \E k \in RowsOf(c) : rows[k].status \in {"completed", "uncertain"}

\* The chat was reserved with a provider that is not dearer than one whose
\* budget was not even asked.
CheapestAsked ==
  \A c \in Chats : \A k \in RowsOf(c), q \in chat[c].todo :
    rows[k].granted.cost <= Asked(chat[c].body, q).cost

\* Every chat ends, and what was reserved for it is settled, unless the
\* ledger failed it or the process died.
ChatsEnd ==
  \A c \in Chats : Active(c) ~> /\ ~Active(c)
                                /\ faults > 0 \/ \A k \in RowsOf(c) : ~Open(k)

\* A chat is sent to one provider, the cheapest that is free, and is in the ledger
\* before the client has the whole of its answer.
ChatsHold == TypeOK /\ NeverSentTwice /\ DeliveredIsAccounted /\ CheapestAsked
=============================================================================
