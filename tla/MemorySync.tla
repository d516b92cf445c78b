------------------------------ MODULE MemorySync ------------------------------
(***************************************************************************)
(* The collector (native_ops/memory_sync.py) that a timer runs to copy the *)
(* reference document, the broker's records, the state of a mission and    *)
(* an action into the shared memory.  It keeps its own database of what it *)
(* has captured; the memory service decides by content whether a memory is *)
(* new, a duplicate or a replacement.  An answer of the service may be     *)
(* lost after the memory was stored, and the collector may die anywhere:   *)
(* a capture is one request and one transaction, which the loss separates. *)
(* A source may be unfit for good, because it looks like a secret, and     *)
(* what changes may change back.                                           *)
(*                                                                         *)
(* A source is <<kind, n>>: record n, the action, or content n of the      *)
(* document or of the mission.                                             *)
(***************************************************************************)
EXTENDS Integers, Sequences, FiniteSets

CONSTANTS
  Private,                    \* sources that payload leaves out (None)
  Unusable,                   \* sources that check_for_secrets refuses
  PageSize, MaxPages,         \* records per page, pages per run
  Texts,                      \* contents of the document and of the mission
  MaxRecords, MaxChanges, MaxLosses   \* bounds of the model

ASSUME SyncAssumption == PageSize \in Nat /\ Texts \subseteq Nat

VARIABLES
  kept,       \* the memories, in the order of their ids
  source,     \* what the broker and the repository hold now
  captured,   \* tables captured and shared_projection: memory of a source
  known,      \* tables documents and mission_states
  cursor,     \* table history_cursor
  collector,  \* the running process
  losses

syncVars == <<kept, source, captured, known, cursor, collector, losses>>

Kinds == {"document", "mission"}
Stopped == [at |-> "stopped"]

\* A deployment starts empty, or from the first version of the collector, which
\* has captured the document and record 1, whose projection was private and is
\* replayed; the document may have changed since.
Private1 == [of |-> <<"record", 1>>, private |-> TRUE, prev |-> 0, next |-> 0]
Document1 == [of |-> <<"document", 1>>, private |-> FALSE, prev |-> 0, next |-> 0]

SyncInit ==
  /\ \/ /\ kept = <<>> /\ captured = [s \in {} |-> 0]
        /\ known = [k \in Kinds |-> [version |-> 0, id |-> 0]]
        /\ source = [records |-> 0, document |-> 1, mission |-> 1, changes |-> 0]
     \/ /\ kept = <<Private1, Document1>> /\ captured = [s \in {Document1.of} |-> 2]
        /\ known = [document |-> [version |-> 1, id |-> 2],
                    mission |-> [version |-> 0, id |-> 0]]
        /\ source \in {[records |-> 1, document |-> c, mission |-> 1, changes |-> 0]
                         : c \in Texts}
  /\ cursor = 0 /\ collector = Stopped /\ losses = 0

\* The broker adds records; the mission changes and the document is edited, to
\* something new or back to what they were.
Grow ==
  /\ source.records < MaxRecords
  /\ source' = [source EXCEPT !.records = @ + 1]
  /\ UNCHANGED <<kept, captured, known, cursor, collector, losses>>

Change(k) ==
  /\ source.changes < MaxChanges
  /\ \E c \in Texts \ {source[k]} :
       source' = [source EXCEPT ![k] = c, !.changes = @ + 1]
  /\ UNCHANGED <<kept, captured, known, cursor, collector, losses>>

-----------------------------------------------------------------------------
(* The memory service, as the collector uses it (store)                    *)

Current(i) == kept[i].next = 0
Same(s) == {i \in DOMAIN kept : kept[i].of = s /\ ~kept[i].private /\ Current(i)}
Accepts(prev) == prev # 0 => Current(prev)

\* What is kept once s was stored in the place of memory prev (0: of none).
Kept(s, prev) ==
  LET row == [of |-> s, private |-> FALSE, prev |-> prev, next |-> 0]
  IN  IF prev # 0 THEN Append([kept EXCEPT ![prev].next = Len(kept) + 1], row)
      ELSE IF Same(s) = {} THEN Append(kept, row) ELSE kept

\* The id the service answers with.
IdOf(s, prev) == IF prev = 0 /\ Same(s) # {} THEN CHOOSE i \in Same(s) : TRUE ELSE Len(kept) + 1

-----------------------------------------------------------------------------
(* The collector                                                           *)

At(place) == collector.at = place
Goto(place) == collector' = [collector EXCEPT !.at = place]

\* main: one process at a time (flock); the document first.
Start ==
  /\ collector = Stopped
  /\ collector' = [at |-> "document", page |-> <<>>, failed |-> FALSE, pages |-> 0]
  /\ UNCHANGED <<kept, source, captured, known, cursor, losses>>

\* The memory a source replaces: the earlier version of the document or of the
\* mission, and the private projection of a record.
Replaces(s) ==
  CASE s[1] \in Kinds -> known[s[1]].id
    [] s[1] = "record" ->
         LET old == {i \in DOMAIN kept : kept[i].of = s /\ kept[i].private}
         IN  IF old = {} THEN 0 ELSE CHOOSE i \in old : TRUE
    [] OTHER -> 0

\* The mission is compared with its last capture, all else with every capture.
Noted(s) == IF s[1] = "mission" THEN known.mission.version = s[2] ELSE s \in DOMAIN captured

Point(s, id) ==
  known' = IF s[1] \in DOMAIN known
           THEN [known EXCEPT ![s[1]] = [version |-> s[2], id |-> id]] ELSE known

\* The transaction after the answer.
Note(s, id) ==
  /\ captured' = [x \in DOMAIN captured \union {s} |-> IF x = s THEN id ELSE captured[x]]
  /\ Point(s, id)

\* What the collector is refused, now and at every retry: a text that looks like
\* a secret, or a replacement of a memory that has been replaced.
Rejected(s) == ~Noted(s) /\ (s \in Unusable \/ ~Accepts(Replaces(s)))

Storable(s) == ~Noted(s) /\ ~Rejected(s)

\* capture, capture_mission and the loop over the documents: nothing to store (a
\* document is pointed at the memory its content got then, replaced or not), or
\* a memory that is stored and noted.
Captures(s) ==
  \/ /\ Noted(s) /\ UNCHANGED <<kept, captured>>
     /\ IF s[1] = "document" THEN Point(s, captured[s]) ELSE UNCHANGED known
  \/ /\ Storable(s)
     /\ kept' = Kept(s, Replaces(s)) /\ Note(s, IdOf(s, Replaces(s)))

Refused(s) == Rejected(s) /\ UNCHANGED <<kept, captured, known, losses>>

\* The service is away, or its answer is lost once the memory is stored.
Lost(s) ==
  /\ losses < MaxLosses /\ losses' = losses + 1
  /\ Storable(s)
  /\ kept' \in {kept, Kept(s, Replaces(s))}
  /\ UNCHANGED <<captured, known>>

\* A document that fails ends the run.
Document ==
  /\ At("document")
  /\ Captures(<<"document", source.document>>) /\ Goto("history")
  /\ UNCHANGED <<source, cursor, losses>>

DocumentFails ==
  /\ At("document")
  /\ LET s == <<"document", source.document>> IN Refused(s) \/ Lost(s)
  /\ collector' = Stopped
  /\ UNCHANGED <<source, cursor>>

\* list_memory_history
Page ==
  LET n == source.records - cursor
  IN  [i \in 1..(IF n < PageSize THEN n ELSE PageSize) |-> cursor + i]

ReadPage ==
  /\ At("history")
  /\ collector' = [at |-> "page", page |-> Page, failed |-> FALSE, pages |-> collector.pages + 1]
  /\ UNCHANGED <<kept, source, captured, known, cursor, losses>>

Todo == {i \in DOMAIN collector.page : collector.page[i] > 0}
First == CHOOSE i \in Todo : \A j \in Todo : i <= j
Record == <<"record", collector.page[First]>>

\* The record is dealt with: its place in the page is struck out.
Struck(failed) ==
  collector' = [collector EXCEPT !.page[First] = -@, !.failed = @ \/ failed]

CaptureRecord ==
  /\ At("page") /\ Todo # {}
  /\ IF Record \in Private THEN UNCHANGED <<kept, captured, known>>
     ELSE Captures(Record)
  /\ Struck(FALSE)
  /\ UNCHANGED <<source, cursor, losses>>

CaptureRecordFails ==
  /\ At("page") /\ Todo # {} /\ Record \notin Private
  /\ Refused(Record) \/ Lost(Record)
  /\ Struck(TRUE)
  /\ UNCHANGED <<source, cursor>>

\* Mutant: the cursor moves past a page some of whose records failed.
PageDoneAlways == TRUE

PageDone == ~collector.failed

\* The cursor moves past a page that was captured; a full page may be followed
\* by another one.
EndPage ==
  /\ At("page") /\ Todo = {}
  /\ cursor' = IF PageDone THEN cursor + Len(collector.page) ELSE cursor
  /\ Goto(IF PageDone /\ Len(collector.page) = PageSize /\ collector.pages < MaxPages
          THEN "history" ELSE "mission")
  /\ UNCHANGED <<kept, source, captured, known, losses>>

\* get_mission_state is read when the capture begins; a failure is counted.
Mission ==
  /\ At("mission")
  /\ LET s == <<"mission", source.mission>> IN
     \/ s \in Private /\ UNCHANGED <<kept, captured, known, losses>>
     \/ s \notin Private /\ Captures(s) /\ UNCHANGED losses
     \/ s \notin Private /\ (Refused(s) \/ Lost(s))
  /\ Goto("actions")
  /\ UNCHANGED <<source, cursor>>

Actions ==
  /\ At("actions")
  /\ LET s == <<"action", 1>> IN
     \/ s \in Private /\ UNCHANGED <<kept, captured, known, losses>>
     \/ s \notin Private /\ Captures(s) /\ UNCHANGED losses
     \/ s \notin Private /\ (Refused(s) \/ Lost(s))
  /\ collector' = Stopped
  /\ UNCHANGED <<source, cursor>>

Killed ==
  /\ collector # Stopped /\ losses < MaxLosses /\ losses' = losses + 1
  /\ collector' = Stopped
  /\ UNCHANGED <<kept, source, captured, known, cursor>>

Steps == Start \/ Document \/ DocumentFails \/ ReadPage \/ CaptureRecord
         \/ CaptureRecordFails \/ EndPage \/ Mission \/ Actions

SyncNext == Grow \/ (\E k \in Kinds : Change(k)) \/ Steps \/ Killed

\* The timer starts the collector again and again, and the losses end.
SyncSpec == SyncInit /\ [][SyncNext]_syncVars /\ WF_syncVars(Steps)

-----------------------------------------------------------------------------
(* Properties                                                              *)

\* The cursor never passes a record that is to be captured and is not in the
\* memory, whatever failed, was lost or was interrupted before.
CursorCovers ==
  \A n \in 1..cursor :
    LET s == <<"record", n>> IN s \notin Private => s \in DOMAIN captured /\ Same(s) # {}

\* A record is in the memory once, also when the answer to its first capture
\* was lost and it is sent again.
OneMemoryPerRecord ==
  \A n \in 1..MaxRecords :
    Cardinality({i \in DOMAIN kept : kept[i].of = <<"record", n>> /\ Current(i)}) <= 1

\* A record of the page at the cursor is refused, so the page is read again and
\* again: record n, of a later page, is not reached.
Behind(n) ==
  /\ cursor + PageSize < n
  /\ \E m \in cursor + 1..cursor + PageSize :
       m <= source.records /\ <<"record", m>> \notin Private /\ Rejected(<<"record", m>>)

\* Whatever failed, was lost or was interrupted, every record is captured again
\* and again, with what remains uncaptured for good named in full: nothing new
\* while the document is refused (it ends the run), a record that is refused
\* itself, and the records behind the page of a refused one.
EveryRecordCaptured ==
  []<>(\/ Rejected(<<"document", source.document>>)
       \/ \A n \in 1..source.records :
            LET s == <<"record", n>> IN
            s \in Private \/ Noted(s) \/ Rejected(s) \/ Behind(n))

\* What the cursor of the collector has passed is in the memory, and once.
SyncHolds == CursorCovers /\ OneMemoryPerRecord
===============================================================================
