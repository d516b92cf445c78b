----------------------------- MODULE MemoryStore -----------------------------
(***************************************************************************)
(* The shared memory (ops_memory): a SQLite catalogue that is the truth,   *)
(* and a Qdrant collection that makes it searchable.  Threads of the       *)
(* service ingest, summarise and invalidate; the maintenance process       *)
(* (ops-memory-maintenance.timer) expires memories, deletes points that    *)
(* are left over and indexes what could not be indexed.                    *)
(*                                                                         *)
(* A step is one transaction of the catalogue or one request to Qdrant.    *)
(* Any request may fail, applied or not; either process may die anywhere.  *)
(* A memory is numbered by its place in the table.  Its key stands for     *)
(* content and scope (project, environment, category, kind, tier), its     *)
(* rank for the classification.                                            *)
(***************************************************************************)
EXTENDS Integers, Sequences, FiniteSetsExt

CONSTANTS
  Threads, Maintainer,     \* threads of the service; the maintenance process
  Actors,                  \* records [roles, rank, grants, declassify]
  Drafts, Seeds,           \* contents, and the ones there from the start:
                           \* records [key, rank, roles, ttl]
  MaxCalls, MaxFaults     \* bounds of the model; a failed request or a
                           \* process that dies is a fault

ASSUME StoreAssumption ==
  /\ Maintainer \notin Threads /\ MaxCalls \in Nat /\ MaxFaults \in Nat
  /\ \A d \in Drafts \union Seeds : d.rank \in Int /\ d.ttl \in BOOLEAN

Workers == Threads \union {Maintainer}

VARIABLES
  memories,  \* the table
  past,      \* memories whose valid_until has passed
  points,    \* the points in Qdrant
  job,       \* what each worker is doing
  calls, faults

storeVars == <<memories, past, points, job, calls, faults>>

Idle == [at |-> "idle"]
States == {"pending", "indexed", "failed", "delete_pending", "deleted"}

Row(q, a) ==
  [key |-> q.key, rank |-> q.rank, roles |-> q.roles, ttl |-> q.ttl, by |-> a,
   prev |-> q.prev, next |-> 0, invalid |-> FALSE, state |-> "pending"]

\* The draft of a memory as a request, replacing memory i, or none (0).
Draft(d, i) == [key |-> d.key, rank |-> d.rank, roles |-> d.roles, ttl |-> d.ttl,
                prev |-> i]

\* The service starts on a table that holds one memory, which is indexed.
StoreInit ==
  /\ \E d \in Seeds, a \in Actors :
       memories = <<[Row(Draft(d, 0), a) EXCEPT !.state = "indexed"]>>
  /\ points = {1}
  /\ past = {} /\ calls = 0 /\ faults = 0
  /\ job = [w \in Workers |-> Idle]

Ids == DOMAIN memories
Live(i) == memories[i].next = 0 /\ ~memories[i].invalid
IsCurrent(i) == Live(i) /\ i \notin past

\* record_visible
Visible(a, i) == memories[i].rank <= a.rank /\ memories[i].roles \intersect a.roles # {}

-----------------------------------------------------------------------------
(* MemoryService.ingest                                                    *)

Widens(q, i) == q.rank < memories[i].rank \/ ~(q.roles \subseteq memories[i].roles)

Call(t) == job[t] = Idle /\ calls < MaxCalls /\ calls' = calls + 1

\* The request is authorised; the memory it replaces is looked at.
IngestCheck(t, a, q) ==
  /\ Call(t)
  /\ q.rank <= a.rank /\ q.roles \subseteq a.grants
  /\ q.prev # 0 => /\ q.prev \in Ids /\ Visible(a, q.prev)
                   /\ Widens(q, q.prev) => a.declassify
  /\ job' = [job EXCEPT ![t] = [at |-> "insert", q |-> q, actor |-> a]]
  /\ UNCHANGED <<memories, past, points, faults>>

Duplicates(q) ==
  {i \in Ids : /\ IsCurrent(i)
               /\ <<memories[i].key, memories[i].rank, memories[i].roles>>
                    = <<q.key, q.rank, q.roles>>}

\* Mutant: the transaction does not look again at the memory it replaces.
MayReplaceChecked(q) == TRUE

\* The replaced memory must still be current (but may have passed its date).
MayReplace(q) == q.prev # 0 => Live(q.prev)

Superseded(q) ==
  IF q.prev = 0 THEN memories
  ELSE [memories EXCEPT ![q.prev].next = Len(memories) + 1,
                        ![q.prev].state = "delete_pending"]

IsDuplicate(q) == q.prev = 0 /\ Duplicates(q) # {}

\* MemoryCatalog.ingest: a duplicate is answered with the memory that exists,
\* a memory that is no longer current is not replaced, all else is inserted.
IngestInsert(t) ==
  /\ job[t].at = "insert"
  /\ LET q == job[t].q IN
     IF IsDuplicate(q) \/ ~MayReplace(q)
     THEN job' = [job EXCEPT ![t] = Idle] /\ UNCHANGED memories
     ELSE /\ memories' = Append(Superseded(q), Row(q, job[t].actor))
          /\ job' = [job EXCEPT ![t] = [at |-> "upsert", id |-> Len(memories) + 1,
                                        old |-> q.prev]]
  /\ UNCHANGED <<past, points, calls, faults>>

-----------------------------------------------------------------------------
(* Requests to Qdrant, and what is marked after them                       *)

\* The maintenance goes on with its list; a thread has answered.
Continue(w, at, todo) ==
  job' = [job EXCEPT ![w] = IF w = Maintainer THEN [at |-> at, todo |-> todo] ELSE Idle]

Rest(w) == IF w = Maintainer THEN job[w].todo ELSE {}

Fault == faults < MaxFaults /\ faults' = faults + 1

Upsert(w) ==
  /\ job[w].at = "upsert"
  /\ points' = points \union {job[w].id}
  /\ job' = [job EXCEPT ![w].at = "indexed"]
  /\ UNCHANGED <<memories, past, calls, faults>>

UpsertFails(w) ==
  /\ Fault
  /\ job[w].at = "upsert"
  /\ points' \in {points, points \union {job[w].id}}
  /\ job' = [job EXCEPT ![w].at = "failed"]
  /\ UNCHANGED <<memories, past, calls>>

Mark(id, state) == memories' = [memories EXCEPT ![id].state = state]

\* A thread that replaced a memory deletes its point next.
MarkIndexed(w) ==
  /\ job[w].at = "indexed"
  /\ Mark(job[w].id, "indexed")
  /\ IF w # Maintainer /\ job[w].old # 0
     THEN job' = [job EXCEPT ![w] = [at |-> "erase", id |-> job[w].old, marks |-> TRUE]]
     ELSE Continue(w, "reindex", Rest(w))
  /\ UNCHANGED <<past, points, calls, faults>>

\* The maintenance stops at the first memory it cannot index.
MarkFailed(w) ==
  /\ job[w].at = "failed"
  /\ Mark(job[w].id, "failed")
  /\ job' = [job EXCEPT ![w] = Idle]
  /\ UNCHANGED <<past, points, calls, faults>>

Erase(w) ==
  /\ job[w].at = "erase"
  /\ points' = points \ {job[w].id}
  /\ job' = [job EXCEPT ![w].at = "erased"]
  /\ UNCHANGED <<memories, past, calls, faults>>

\* A thread that invalidates a memory answers without a further mark.
EraseFails(w) ==
  /\ Fault
  /\ job[w].at = "erase"
  /\ points' \in {points, points \ {job[w].id}}
  /\ job' = [job EXCEPT ![w] = IF @.marks THEN [@ EXCEPT !.at = "kept"] ELSE Idle]
  /\ UNCHANGED <<memories, past, calls>>

MarkDeleted(w) ==
  /\ job[w].at = "erased"
  /\ Mark(job[w].id, "deleted")
  /\ Continue(w, "deletions", Rest(w))
  /\ UNCHANGED <<past, points, calls, faults>>

\* The deletion is left to a later run; the maintenance turns to indexing.
MarkKept(w) ==
  /\ job[w].at = "kept"
  /\ Mark(job[w].id, "delete_pending")
  /\ Continue(w, "deletions", {})
  /\ UNCHANGED <<past, points, calls, faults>>

-----------------------------------------------------------------------------
\* invalidate: once; the point is deleted every time.
Invalidate(t, a, i) ==
  /\ Call(t) /\ i \in Ids /\ Visible(a, i)
  /\ memories' = IF memories[i].invalid THEN memories
                 ELSE [memories EXCEPT ![i].invalid = TRUE,
                                       ![i].state = "delete_pending"]
  /\ job' = [job EXCEPT ![t] = [at |-> "erase", id |-> i, marks |-> FALSE]]
  /\ UNCHANGED <<past, points, faults>>

\* maintain: consolidate_lifecycle, then the pending deletions are listed.
ToExpire == {i \in past : ~memories[i].invalid}

Consolidated ==
  [i \in Ids |-> IF i \in ToExpire
                 THEN [memories[i] EXCEPT !.invalid = TRUE, !.state = "delete_pending"]
                 ELSE memories[i]]

Maintain ==
  /\ job[Maintainer] = Idle
  /\ memories' = Consolidated
  /\ job' = [job EXCEPT ![Maintainer] = [at |-> "list"]]
  /\ UNCHANGED <<past, points, calls, faults>>

PendingDeletions == {i \in Ids : memories[i].state = "delete_pending"}

\* Mutant: a memory that could not be indexed is not tried again.
PendingForReindexNew == {i \in Ids : memories[i].state = "pending" /\ Live(i)}

PendingForReindex == {i \in Ids : memories[i].state \in {"pending", "failed"} /\ Live(i)}

\* ensure_collection answers, and the deletions are listed; or the run ends.
ListDeletions ==
  /\ job[Maintainer].at = "list"
  /\ job' = [job EXCEPT ![Maintainer] = [at |-> "deletions", todo |-> PendingDeletions]]
  /\ UNCHANGED <<memories, past, points, calls, faults>>

CollectionMissing ==
  /\ Fault
  /\ job[Maintainer].at = "list"
  /\ job' = [job EXCEPT ![Maintainer] = Idle]
  /\ UNCHANGED <<memories, past, points, calls>>

\* The next of the deletions; then the memories to index are listed.
NextDeletion ==
  /\ job[Maintainer].at = "deletions"
  /\ LET todo == job[Maintainer].todo IN
     \/ \E i \in todo :
          job' = [job EXCEPT ![Maintainer] = [at |-> "erase", id |-> i, marks |-> TRUE,
                                              todo |-> todo \ {i}]]
     \/ /\ todo = {}
        /\ job' = [job EXCEPT ![Maintainer] = [at |-> "reindex", todo |-> PendingForReindex]]
  /\ UNCHANGED <<memories, past, points, calls, faults>>

NextReindex ==
  /\ job[Maintainer].at = "reindex"
  /\ LET todo == job[Maintainer].todo IN
     \/ \E i \in todo :
          job' = [job EXCEPT ![Maintainer] = [at |-> "upsert", id |-> i, todo |-> todo \ {i}]]
     \/ todo = {} /\ job' = [job EXCEPT ![Maintainer] = Idle]
  /\ UNCHANGED <<memories, past, points, calls, faults>>

-----------------------------------------------------------------------------
Crash(W) ==
  /\ Fault /\ \E w \in W : job[w] # Idle
  /\ job' = [w \in Workers |-> IF w \in W THEN Idle ELSE job[w]]
  /\ UNCHANGED <<memories, past, points, calls>>

Pass(i) ==
  /\ i \in Ids \ past /\ memories[i].ttl
  /\ past' = past \union {i}
  /\ UNCHANGED <<memories, points, job, calls, faults>>

Ingest(t, a, d, i) == IngestCheck(t, a, Draft(d, i))

Maintenance == Maintain \/ ListDeletions \/ NextDeletion \/ NextReindex
Marking(w) == MarkIndexed(w) \/ MarkFailed(w) \/ MarkDeleted(w) \/ MarkKept(w)

StoreNext ==
  \/ \E t \in Threads, a \in Actors :
       \/ \E d \in Drafts, i \in Ids \union {0} : Ingest(t, a, d, i)
       \/ \E i \in Ids : Invalidate(t, a, i)
  \/ \E t \in Threads : IngestInsert(t)
  \/ \E w \in Workers : \/ Upsert(w) \/ UpsertFails(w) \/ Erase(w) \/ EraseFails(w)
                        \/ Marking(w)
  \/ Maintenance \/ CollectionMissing
  \/ \E i \in Ids : Pass(i)
  \/ Crash(Threads) \/ Crash({Maintainer})

MaintenanceSteps == Maintain \/ NextDeletion \/ NextReindex \/ Marking(Maintainer)

\* The timer starts the maintenance again and again, and it runs to its end;
\* Qdrant is back often enough for a request of the maintenance to succeed.
StoreFairness ==
  /\ WF_storeVars(MaintenanceSteps)
  /\ WF_storeVars(Erase(Maintainer))
  /\ SF_storeVars(ListDeletions)
  /\ SF_storeVars(Upsert(Maintainer))

StoreSpec == StoreInit /\ [][StoreNext]_storeVars /\ StoreFairness

-----------------------------------------------------------------------------
(* Properties                                                              *)

\* Types of the table, the points and the jobs.
StoreTypeOK ==
  /\ \A i \in Ids : /\ memories[i].state \in States
                    /\ memories[i].prev \in 0..(i - 1)
                    /\ memories[i].next \in 0..Len(memories)
  /\ past \subseteq Ids /\ points \subseteq Ids
  /\ calls \in 0..MaxCalls /\ faults \in 0..MaxFaults

\* Versions form chains: a memory is replaced at most once, also when two
\* requests that replace it were both checked before either was inserted, and
\* the two rows name each other.
HistoryIsLinear ==
  \A i \in Ids :
    /\ memories[i].prev # 0 => memories[memories[i].prev].next = i
    /\ memories[i].next # 0 => memories[memories[i].next].prev = i

\* Along a chain of versions that no actor with the capability "declassify" has
\* touched, nobody who could not see the first version can see the last.
AudienceNeverWidens ==
  \A i, j \in Ids :
    LET Chain(s) == \A k \in s : /\ ~memories[k].by.declassify
                                 /\ memories[k].prev \in s \union {i}
        between == {k \in Ids : i < k /\ k <= j}
    IN  i < j /\ (\E s \in SUBSET between : j \in s /\ Chain(s)) =>
          memories[i].rank <= memories[j].rank /\ memories[j].roles \subseteq memories[i].roles

\* Content that was not sent as a replacement is stored once per audience.
OneOriginalPerContent ==
  \A i, j \in Ids :
    i # j /\ IsCurrent(i) /\ IsCurrent(j) /\ memories[i].prev = 0 /\ memories[j].prev = 0
      => <<memories[i].key, memories[i].rank, memories[i].roles>>
           # <<memories[j].key, memories[j].rank, memories[j].roles>>

\* What the catalogue calls indexed and is current can be found by a search:
\* no deletion, late, failed or repeated, has hit its point.
IndexedIsSearchable ==
  \A i \in Ids : Live(i) /\ memories[i].state = "indexed" => i \in points

\* Whatever failed, a time comes when every current memory is indexed.
EventuallyIndexed == []<>(\A i \in Ids : Live(i) => memories[i].state = "indexed")

\* The versions of a memory are one line that never shows it to more people, its
\* content is stored once, and a search finds what the catalogue calls indexed.
StoreHolds ==
  /\ StoreTypeOK
  /\ HistoryIsLinear
  /\ AudienceNeverWidens
  /\ OneOriginalPerContent
  /\ IndexedIsSearchable
=============================================================================
