----------------------------- MODULE MemoryProofs -----------------------------
(***************************************************************************)
(* Proofs about the shared memory and the backup jobs beside it.           *)
(*                                                                         *)
(* The store, for any threads, actors, contents and any number of requests *)
(* that fail and processes that die; the paid calls, for any threads and   *)
(* over any number of days; the collector, for any records, pages and lost *)
(* answers; the backups of the memory and of the secrets, for any number   *)
(* of runs, kills and lost answers.                                        *)
(***************************************************************************)
EXTENDS MCMemory, SequenceTheorems, FiniteSetTheorems, TLAPS

-----------------------------------------------------------------------------
(* THE STORE                                                               *)

Contents == {d.key : d \in Drafts \union Seeds}
Audiences == {d.roles : d \in Drafts \union Seeds}

Rows == [key : Contents, rank : Int, roles : Audiences, ttl : BOOLEAN, by : Actors,
         prev : Nat, next : Nat, invalid : BOOLEAN, state : States]
Requests == [key : Contents, rank : Int, roles : Audiences, ttl : BOOLEAN, prev : Nat]

Inserts == [at : {"insert"}, q : Requests, actor : Actors]
Upserts == [at : {"upsert", "indexed", "failed"}, id : Nat, old : Nat]
Erases == [at : {"erase", "erased", "kept"}, id : Nat, marks : BOOLEAN]
ThreadJobs == {Idle} \union Inserts \union Upserts \union Erases

Listings == [at : {"deletions", "reindex"}, todo : SUBSET Nat]
Reindexings == [at : {"upsert", "indexed", "failed"}, id : Nat, todo : SUBSET Nat]
Deletions == [at : {"erase", "erased", "kept"}, id : Nat, marks : {TRUE}, todo : SUBSET Nat]
MaintainerJobs == {Idle, [at |-> "list"]} \union Listings \union Reindexings \union Deletions

\* Types of the table and of the counters.
TableOK ==
  /\ memories \in Seq(Rows)
  /\ past \subseteq Ids /\ points \subseteq Ids
  /\ calls \in 0..MaxCalls /\ faults \in 0..MaxFaults
  /\ \A i \in Ids : memories[i].prev < i /\ memories[i].next <= Len(memories)

\* A request that replaces a memory was checked against one whose rank and roles
\* are still the same.
RequestOK(r) ==
  r.q.prev # 0 => r.q.prev \in Ids /\ (Widens(r.q, r.q.prev) => r.actor.declassify)

\* What a worker deletes, or is to delete, is not current.
Dead(s) == s \subseteq Ids /\ \A i \in s : ~Live(i)

ThreadJobOK(t) ==
  /\ job[t] \in ThreadJobs
  /\ job[t].at = "insert" => RequestOK(job[t])
  /\ job[t] \in Upserts => /\ job[t].id \in Ids
                           /\ job[t].old # 0 => Dead({job[t].old})
                           /\ job[t].at = "indexed" => job[t].id \in points \/ ~Live(job[t].id)
  /\ job[t] \in Erases => Dead({job[t].id})

MaintainerJobOK ==
  LET j == job[Maintainer] IN
  /\ j \in MaintainerJobs
  /\ j.at = "deletions" => Dead(j.todo)
  /\ j.at = "reindex" => j.todo \subseteq Ids
  /\ j \in Reindexings => /\ j.id \in Ids /\ j.todo \subseteq Ids
                          /\ j.at = "indexed" => j.id \in points \/ ~Live(j.id)
  /\ j \in Deletions => Dead({j.id}) /\ Dead(j.todo)

JobsOK == DOMAIN job = Workers /\ (\A t \in Threads : ThreadJobOK(t)) /\ MaintainerJobOK

\* Only of what is not current is the point to be deleted, or deleted.
MarkInv ==
  \A i \in Ids : /\ memories[i].state \in {"delete_pending", "deleted"} => ~Live(i)
                 /\ Live(i) /\ memories[i].state = "indexed" => i \in points

StoreInv ==
  /\ TableOK /\ JobsOK /\ MarkInv
  /\ HistoryIsLinear /\ AudienceNeverWidens /\ OneOriginalPerContent

-----------------------------------------------------------------------------
(* The versions of a memory                                                *)

\* Memory j replaces i, directly or not, and nobody with declassify had a part.
ChainTo(i, j) ==
  \E s \in SUBSET {k \in Ids : i < k /\ k <= j} :
    j \in s /\ \A k \in s : ~memories[k].by.declassify /\ memories[k].prev \in s \union {i}

NotWider(i, j) == memories[i].rank <= memories[j].rank /\ memories[j].roles \subseteq memories[i].roles

LEMMA AudienceByChains ==
  AudienceNeverWidens <=> \A i, j \in Ids : i < j /\ ChainTo(i, j) => NotWider(i, j)
BY DEF AudienceNeverWidens, ChainTo, NotWider

LEMMA IdFacts ==
  ASSUME TableOK
  PROVE  /\ Len(memories) \in Nat /\ Ids = 1..Len(memories)
         /\ \A i \in Ids : memories[i] \in Rows
BY DEF TableOK, Ids

\* A step that inserts no row keeps what the rows say of each other.
LEMMA TableKept ==
  ASSUME TableOK, HistoryIsLinear, AudienceNeverWidens, OneOriginalPerContent,
         memories' \in Seq(Rows), Len(memories') = Len(memories),
         \A i \in Ids : /\ memories'[i].key = memories[i].key /\ memories'[i].rank = memories[i].rank
                        /\ memories'[i].roles = memories[i].roles /\ memories'[i].by = memories[i].by
                        /\ memories'[i].prev = memories[i].prev /\ memories'[i].next = memories[i].next
                        /\ memories[i].invalid => memories'[i].invalid,
         past \subseteq past', past' \subseteq Ids, points' \subseteq Ids,
         calls' \in 0..MaxCalls, faults' \in 0..MaxFaults
  PROVE  /\ TableOK' /\ HistoryIsLinear' /\ AudienceNeverWidens' /\ OneOriginalPerContent'
         /\ Ids' = Ids /\ \A i \in Ids : ~Live(i) => ~Live(i)'
PROOF
<1>1. Ids' = Ids BY IdFacts DEF Ids
<1>2. TableOK' BY <1>1 DEF TableOK
<1>3. \A i \in Ids : ~Live(i) => ~Live(i)' BY DEF Live
<1>4. HistoryIsLinear'
  <2>1. ASSUME NEW i \in Ids
        PROVE  /\ memories[i].prev # 0 => memories[i].prev \in Ids
               /\ memories[i].next # 0 => memories[i].next \in Ids
    <3>1. memories[i].prev \in Nat /\ memories[i].next \in Nat BY IdFacts DEF Rows
    <3>2. memories[i].prev < i /\ memories[i].next <= Len(memories) BY DEF TableOK
    <3>3. Len(memories) \in Nat /\ i \in 1..Len(memories) /\ Ids = 1..Len(memories) BY IdFacts
    <3> QED BY <3>1, <3>2, <3>3
  <2> QED BY <1>1, <2>1 DEF HistoryIsLinear
<1>5. ASSUME NEW i \in Ids, NEW j \in Ids, i < j, ChainTo(i, j)' PROVE NotWider(i, j)'
  <2>1. ChainTo(i, j) BY <1>1, <1>5 DEF ChainTo
  <2>2. NotWider(i, j) BY <1>5, <2>1, AudienceByChains
  <2> QED BY <2>2 DEF NotWider
<1>6. AudienceNeverWidens' BY <1>1, <1>5, AudienceByChains DEF AudienceNeverWidens, ChainTo, NotWider
<1>7. ASSUME NEW i \in Ids, IsCurrent(i)' PROVE IsCurrent(i) BY <1>3, <1>7 DEF IsCurrent
<1>8. OneOriginalPerContent' BY <1>1, <1>7 DEF OneOriginalPerContent
<1> QED BY <1>1, <1>2, <1>3, <1>4, <1>6, <1>8

-----------------------------------------------------------------------------
(* What a job relies on                                                    *)

\* No row is forgotten, made current again or shown to others, and the point of a
\* current memory stays.
Grows ==
  /\ Ids \subseteq Ids'
  /\ \A i \in Ids : /\ ~Live(i) => ~Live(i)'
                    /\ memories'[i].rank = memories[i].rank /\ memories'[i].roles = memories[i].roles
                    /\ i \in points => i \in points' \/ ~Live(i)'

LEMMA DeadStays == ASSUME Grows, NEW s, Dead(s) PROVE Dead(s)'
BY DEF Grows, Dead

LEMMA ThreadJobStays ==
  ASSUME NEW t \in Threads, ThreadJobOK(t), Grows, job'[t] = job[t]
  PROVE  ThreadJobOK(t)'
PROOF
<1>1. PICK j \in ThreadJobs : j = job[t] BY DEF ThreadJobOK
<1>2. RequestOK(j) => RequestOK(j)' BY DEF RequestOK, Grows, Widens
<1>3. \A i : Dead({i}) => Dead({i})' BY DeadStays
<1>4. ASSUME j.id \in Ids PROVE j.id \in Ids' BY <1>4 DEF Grows
<1>5. ASSUME j.id \in Ids, j.id \in points \/ ~Live(j.id) PROVE j.id \in points' \/ ~Live(j.id)'
  BY <1>5 DEF Grows
<1> QED BY <1>1, <1>2, <1>3, <1>4, <1>5 DEF ThreadJobOK

LEMMA MaintainerJobStays ==
  ASSUME MaintainerJobOK, Grows, job'[Maintainer] = job[Maintainer]
  PROVE  MaintainerJobOK'
PROOF
<1>1. PICK j \in MaintainerJobs : j = job[Maintainer] BY DEF MaintainerJobOK
<1>2. (Dead({j.id}) => Dead({j.id})') /\ (Dead(j.todo) => Dead(j.todo)') BY DeadStays
<1>3. (j.id \in Ids => j.id \in Ids') /\ (j.todo \subseteq Ids => j.todo \subseteq Ids') BY DEF Grows
<1>4. ASSUME j.id \in Ids, j.id \in points \/ ~Live(j.id) PROVE j.id \in points' \/ ~Live(j.id)'
  BY <1>4 DEF Grows
<1> QED BY <1>1, <1>2, <1>3, <1>4 DEF MaintainerJobOK

\* A step changes the job of one worker.
LEMMA JobStep ==
  ASSUME JobsOK, Grows, NEW w \in Workers, NEW j, job' = [job EXCEPT ![w] = j],
         w \in Threads => ThreadJobOK(w)', w = Maintainer => MaintainerJobOK'
  PROVE  JobsOK'
PROOF
<1>1. DOMAIN job' = Workers /\ \A v \in Workers : v # w => job'[v] = job[v] BY DEF JobsOK
<1>2. ASSUME NEW t \in Threads PROVE ThreadJobOK(t)'
  BY <1>1, ThreadJobStays DEF JobsOK, Workers
<1>3. MaintainerJobOK' BY <1>1, MaintainerJobStays DEF JobsOK, Workers
<1> QED BY <1>1, <1>2, <1>3 DEF JobsOK

\* A worker that is done.
LEMMA IdleStep ==
  ASSUME JobsOK, Grows, NEW w \in Workers, job' = [job EXCEPT ![w] = Idle]
  PROVE  JobsOK'
PROOF
<1>1. job'[w] = Idle BY DEF JobsOK
<1>2. w \in Threads => ThreadJobOK(w)'
  BY <1>1 DEF ThreadJobOK, Idle, ThreadJobs, Upserts, Erases
<1>3. ASSUME w = Maintainer PROVE MaintainerJobOK'
  <2>1. Idle \in MaintainerJobs BY DEF MaintainerJobs
  <2>2. Idle.at = "idle" /\ Idle \notin Reindexings /\ Idle \notin Deletions
    BY DEF Idle, Reindexings, Deletions
  <2> QED BY <1>1, <1>3, <2>1, <2>2 DEF MaintainerJobOK
<1> QED BY <1>1, <1>2, <1>3, JobStep

-----------------------------------------------------------------------------
(* Steps by what they do to the table                                      *)

\* A step that leaves the table alone and deletes no point of a current memory.
LEMMA QuietStep ==
  ASSUME StoreInv, UNCHANGED memories, past \subseteq past', past' \subseteq Ids,
         points' \subseteq Ids, \A i \in Ids : Live(i) /\ i \in points => i \in points',
         calls' \in 0..MaxCalls, faults' \in 0..MaxFaults
  PROVE  Grows /\ (JobsOK' => StoreInv')
PROOF
<1>1. memories' \in Seq(Rows) /\ Len(memories') = Len(memories) BY DEF StoreInv, TableOK
<1>2. /\ TableOK' /\ HistoryIsLinear' /\ AudienceNeverWidens' /\ OneOriginalPerContent'
      /\ Ids' = Ids /\ \A i \in Ids : ~Live(i) => ~Live(i)'
  BY <1>1, TableKept DEF StoreInv
<1>3. \A i \in Ids : Live(i)' => Live(i) BY <1>2
<1>4. MarkInv' BY <1>2, <1>3 DEF StoreInv, MarkInv
<1>5. Grows BY <1>2, <1>3 DEF Grows
<1> QED BY <1>2, <1>4, <1>5 DEF StoreInv

\* One row gets another state, or becomes invalid.
LEMMA RowStep ==
  ASSUME StoreInv, NEW n \in Ids, NEW r \in Rows, memories' = [memories EXCEPT ![n] = r],
         r.key = memories[n].key, r.rank = memories[n].rank, r.roles = memories[n].roles,
         r.by = memories[n].by, r.prev = memories[n].prev, r.next = memories[n].next,
         memories[n].invalid => r.invalid,
         r.state \in {"delete_pending", "deleted"} => ~Live(n) \/ r.invalid,
         r.state = "indexed" => n \in points \/ ~Live(n),
         UNCHANGED <<past, points, faults>>, calls' \in 0..MaxCalls
  PROVE  Grows /\ (JobsOK' => StoreInv')
PROOF
<1>1. Len(memories) \in Nat /\ Ids = 1..Len(memories) /\ memories \in Seq(Rows)
  BY IdFacts DEF StoreInv, TableOK
<1>2. /\ memories' \in Seq(Rows) /\ Len(memories') = Len(memories) /\ memories'[n] = r
      /\ \A i \in Ids : i # n => memories'[i] = memories[i]
  BY <1>1
<1>3. /\ TableOK' /\ HistoryIsLinear' /\ AudienceNeverWidens' /\ OneOriginalPerContent'
      /\ Ids' = Ids /\ \A i \in Ids : ~Live(i) => ~Live(i)'
  <2>1. past' \subseteq Ids /\ points' \subseteq Ids /\ faults' \in 0..MaxFaults
    BY DEF StoreInv, TableOK
  <2> QED BY <1>2, <2>1, TableKept DEF StoreInv
<1>4. MarkInv'
  <2>1. ASSUME NEW i \in Ids
        PROVE  /\ memories'[i].state \in {"delete_pending", "deleted"} => ~Live(i)'
               /\ Live(i)' /\ memories'[i].state = "indexed" => i \in points
    <3>1. CASE i # n BY <1>2, <1>3, <3>1 DEF StoreInv, MarkInv
    <3>2. CASE i = n BY <1>2, <1>3, <3>2 DEF Live
    <3> QED BY <3>1, <3>2
  <2> QED BY <1>3, <2>1 DEF MarkInv
<1>5. Grows BY <1>2, <1>3 DEF Grows
<1> QED BY <1>3, <1>4, <1>5 DEF StoreInv

LEMMA MarkStep ==
  ASSUME StoreInv, NEW n \in Ids, NEW v \in States, Mark(n, v),
         v \in {"delete_pending", "deleted"} => ~Live(n),
         v = "indexed" => n \in points \/ ~Live(n),
         UNCHANGED <<past, points, calls, faults>>
  PROVE  Grows /\ (JobsOK' => StoreInv')
PROOF
<1>1. PICK o \in Rows : o = memories[n] BY IdFacts DEF StoreInv
<1>2. PICK r : r = [o EXCEPT !.state = v] OBVIOUS
<1>3. r \in Rows BY <1>1, <1>2 DEF Rows
<1>4. /\ r.key = o.key /\ r.rank = o.rank /\ r.roles = o.roles /\ r.by = o.by /\ r.prev = o.prev
      /\ r.next = o.next /\ r.invalid = o.invalid /\ r.state = v
  BY <1>1, <1>2 DEF Rows
<1>5. memories' = [memories EXCEPT ![n] = r] BY <1>1, <1>2 DEF Mark
<1>6. calls' \in 0..MaxCalls BY DEF StoreInv, TableOK
<1> QED BY <1>1, <1>3, <1>4, <1>5, <1>6, RowStep

-----------------------------------------------------------------------------
(* The jobs of the workers, by their place                                 *)

LEMMA ThreadCases ==
  ASSUME NEW j \in ThreadJobs
  PROVE  /\ j.at = "insert" => j \in Inserts
         /\ j.at \in {"upsert", "indexed", "failed"} => j \in Upserts
         /\ j.at \in {"erase", "erased", "kept"} => j \in Erases
BY DEF ThreadJobs, Inserts, Upserts, Erases, Idle

LEMMA MaintainerCases ==
  ASSUME NEW j \in MaintainerJobs
  PROVE  /\ j.at \in {"deletions", "reindex"} => j \in Listings
         /\ j.at \in {"upsert", "indexed", "failed"} => j \in Reindexings
         /\ j.at \in {"erase", "erased", "kept"} => j \in Deletions
PROOF
<1>1. CASE j = Idle BY <1>1 DEF Idle
<1>2. CASE j = [at |-> "list"] BY <1>2
<1>3. CASE j \in Listings BY <1>3 DEF Listings
<1>4. CASE j \in Reindexings BY <1>4 DEF Reindexings
<1>5. CASE j \in Deletions BY <1>5 DEF Deletions
<1> QED BY <1>1, <1>2, <1>3, <1>4, <1>5 DEF MaintainerJobs

\* A thread goes on with a memory it indexes, or with one whose point it deletes.
LEMMA ThreadIndexes ==
  ASSUME JobsOK, Grows, NEW t \in Threads, NEW j \in Upserts, job' = [job EXCEPT ![t] = j],
         j.id \in Ids', j.old # 0 => Dead({j.old})',
         j.at = "indexed" => j.id \in points' \/ ~Live(j.id)'
  PROVE  JobsOK'
PROOF
<1>1. job'[t] = j /\ t \in Workers /\ t # Maintainer BY StoreAssumption DEF JobsOK, Workers
<1>2. j \in ThreadJobs /\ j.at # "insert" /\ j \notin Erases BY DEF ThreadJobs, Upserts, Erases
<1>3. ThreadJobOK(t)' BY <1>1, <1>2 DEF ThreadJobOK
<1> QED BY <1>1, <1>3, JobStep

LEMMA ThreadErases ==
  ASSUME JobsOK, Grows, NEW t \in Threads, NEW j \in Erases, job' = [job EXCEPT ![t] = j],
         Dead({j.id})'
  PROVE  JobsOK'
PROOF
<1>1. job'[t] = j /\ t \in Workers /\ t # Maintainer BY StoreAssumption DEF JobsOK, Workers
<1>2. j \in ThreadJobs /\ j.at # "insert" /\ j \notin Upserts BY DEF ThreadJobs, Upserts, Erases
<1>3. ThreadJobOK(t)' BY <1>1, <1>2 DEF ThreadJobOK
<1> QED BY <1>1, <1>3, JobStep

\* The maintenance goes on with a list, or with a memory of it.
LEMMA MaintainerLists ==
  ASSUME JobsOK, Grows, NEW j \in Listings, job' = [job EXCEPT ![Maintainer] = j],
         j.todo \subseteq Ids', j.at = "deletions" => Dead(j.todo)'
  PROVE  JobsOK'
PROOF
<1>1. job'[Maintainer] = j /\ Maintainer \in Workers /\ Maintainer \notin Threads
  BY StoreAssumption DEF JobsOK, Workers
<1>2. j \in MaintainerJobs /\ j \notin Reindexings /\ j \notin Deletions
  BY DEF MaintainerJobs, Listings, Reindexings, Deletions
<1>3. MaintainerJobOK' BY <1>1, <1>2 DEF MaintainerJobOK
<1> QED BY <1>1, <1>3, JobStep

LEMMA MaintainerIndexes ==
  ASSUME JobsOK, Grows, NEW j \in Reindexings, job' = [job EXCEPT ![Maintainer] = j],
         j.id \in Ids', j.todo \subseteq Ids',
         j.at = "indexed" => j.id \in points' \/ ~Live(j.id)'
  PROVE  JobsOK'
PROOF
<1>1. job'[Maintainer] = j /\ Maintainer \in Workers /\ Maintainer \notin Threads
  BY StoreAssumption DEF JobsOK, Workers
<1>2. j \in MaintainerJobs /\ j.at \notin {"deletions", "reindex"} /\ j \notin Deletions
  BY DEF MaintainerJobs, Reindexings, Deletions
<1>3. MaintainerJobOK' BY <1>1, <1>2 DEF MaintainerJobOK
<1> QED BY <1>1, <1>3, JobStep

LEMMA MaintainerErases ==
  ASSUME JobsOK, Grows, NEW j \in Deletions, job' = [job EXCEPT ![Maintainer] = j],
         Dead({j.id})', Dead(j.todo)'
  PROVE  JobsOK'
PROOF
<1>1. job'[Maintainer] = j /\ Maintainer \in Workers /\ Maintainer \notin Threads
  BY StoreAssumption DEF JobsOK, Workers
<1>2. j \in MaintainerJobs /\ j.at \notin {"deletions", "reindex"} /\ j \notin Reindexings
  BY DEF MaintainerJobs, Reindexings, Deletions
<1>3. MaintainerJobOK' BY <1>1, <1>2 DEF MaintainerJobOK
<1> QED BY <1>1, <1>3, JobStep

-----------------------------------------------------------------------------
(* Requests to Qdrant and their marks                                      *)

\* The job of a worker at an upsert or its mark, with another place.
LEMMA IndexingMoves ==
  ASSUME StoreInv, NEW w \in Workers, job[w].at = "upsert", NEW p \in {"indexed", "failed"},
         job' = [job EXCEPT ![w].at = p], UNCHANGED <<memories, past, calls>>,
         points \subseteq points', points' \subseteq points \union {job[w].id},
         p = "indexed" => job[w].id \in points', faults' \in 0..MaxFaults
  PROVE  StoreInv'
PROOF
<1>1. job[w].id \in Ids /\ JobsOK
  <2>1. CASE w \in Threads
    BY <2>1, ThreadCases DEF StoreInv, JobsOK, ThreadJobOK
  <2>2. CASE w = Maintainer
    BY <2>2, MaintainerCases DEF StoreInv, JobsOK, MaintainerJobOK
  <2> QED BY <2>1, <2>2 DEF Workers, StoreInv
<1>2. /\ past' \subseteq Ids /\ points' \subseteq Ids /\ calls' \in 0..MaxCalls
  BY <1>1 DEF StoreInv, TableOK
<1>3. Grows /\ (JobsOK' => StoreInv') BY <1>2, QuietStep
<1>4. Ids' = Ids BY DEF Ids
<1>5. PICK o : o = job[w] OBVIOUS
<1>6. PICK j : j = [o EXCEPT !.at = p] OBVIOUS
<1>7. job' = [job EXCEPT ![w] = j] BY <1>5, <1>6
<1>8. CASE w \in Threads
  <2>1. o \in Upserts /\ ThreadJobOK(w)
    BY <1>5, <1>8, ThreadCases DEF StoreInv, JobsOK, ThreadJobOK
  <2>2. j \in Upserts /\ j.at = p /\ j.id = o.id /\ j.old = o.old BY <1>6, <2>1 DEF Upserts
  <2>3. j.old # 0 => Dead({j.old})' BY <1>3, <1>5, <2>1, <2>2, DeadStays DEF ThreadJobOK
  <2> QED BY <1>1, <1>3, <1>4, <1>5, <1>7, <1>8, <2>2, <2>3, ThreadIndexes
<1>9. CASE w = Maintainer
  <2>1. o \in Reindexings /\ o.todo \subseteq Ids
    BY <1>5, <1>9, MaintainerCases DEF StoreInv, JobsOK, MaintainerJobOK
  <2>2. j \in Reindexings /\ j.at = p /\ j.id = o.id /\ j.todo = o.todo
    BY <1>6, <2>1 DEF Reindexings
  <2> QED BY <1>1, <1>3, <1>4, <1>5, <1>7, <1>9, <2>1, <2>2, MaintainerIndexes
<1> QED BY <1>8, <1>9 DEF Workers

LEMMA Upsert_Inv == ASSUME StoreInv, NEW w \in Workers, Upsert(w) PROVE StoreInv'
PROOF
<1>1. /\ job[w].at = "upsert" /\ points' = points \union {job[w].id}
      /\ job' = [job EXCEPT ![w].at = "indexed"] /\ UNCHANGED <<memories, past, calls>>
      /\ faults' = faults
  BY DEF Upsert
<1>2. faults' \in 0..MaxFaults BY <1>1 DEF StoreInv, TableOK
<1> QED BY <1>1, <1>2, IndexingMoves

LEMMA FaultFacts == ASSUME StoreInv, Fault PROVE faults' \in 0..MaxFaults
BY StoreAssumption DEF StoreInv, TableOK, Fault

LEMMA UpsertFails_Inv == ASSUME StoreInv, NEW w \in Workers, UpsertFails(w) PROVE StoreInv'
PROOF
<1>1. /\ job[w].at = "upsert" /\ points' \in {points, points \union {job[w].id}}
      /\ job' = [job EXCEPT ![w].at = "failed"] /\ UNCHANGED <<memories, past, calls>> /\ Fault
  BY DEF UpsertFails
<1>2. faults' \in 0..MaxFaults BY <1>1, FaultFacts
<1> QED BY <1>1, <1>2, IndexingMoves

\* Where a worker is about to mark the memory in its hands.
LEMMA IndexingFacts ==
  ASSUME StoreInv, NEW w \in Workers, job[w].at \in {"indexed", "failed"}
  PROVE  /\ job[w].id \in Ids
         /\ job[w].at = "indexed" => job[w].id \in points \/ ~Live(job[w].id)
         /\ w = Maintainer => job[w].todo \in SUBSET Nat /\ job[w].todo \subseteq Ids
         /\ w \in Threads => job[w].old \in Nat /\ (job[w].old # 0 => Dead({job[w].old}))
PROOF
<1>1. CASE w \in Threads
  <2>1. job[w] \in Upserts /\ ThreadJobOK(w)
    BY <1>1, ThreadCases DEF StoreInv, JobsOK, ThreadJobOK
  <2>2. w # Maintainer /\ job[w].old \in Nat BY <1>1, <2>1, StoreAssumption DEF Upserts
  <2> QED BY <2>1, <2>2 DEF ThreadJobOK
<1>2. CASE w = Maintainer
  <2>1. job[w] \in Reindexings /\ MaintainerJobOK
    BY <1>2, MaintainerCases DEF StoreInv, JobsOK, MaintainerJobOK
  <2>2. w \notin Threads /\ job[w].todo \in SUBSET Nat BY <1>2, <2>1, StoreAssumption DEF Reindexings
  <2> QED BY <1>2, <2>1, <2>2 DEF MaintainerJobOK
<1> QED BY <1>1, <1>2 DEF Workers

LEMMA ErasingFacts ==
  ASSUME StoreInv, NEW w \in Workers, job[w].at \in {"erase", "erased", "kept"}
  PROVE  /\ Dead({job[w].id}) /\ job[w].marks \in BOOLEAN
         /\ w = Maintainer => /\ job[w] \in Deletions /\ job[w].marks
                              /\ job[w].todo \in SUBSET Nat /\ Dead(job[w].todo)
         /\ w \in Threads => job[w] \in Erases
PROOF
<1>1. CASE w \in Threads
  <2>1. job[w] \in Erases /\ ThreadJobOK(w)
    BY <1>1, ThreadCases DEF StoreInv, JobsOK, ThreadJobOK
  <2>2. w # Maintainer /\ job[w].marks \in BOOLEAN BY <1>1, <2>1, StoreAssumption DEF Erases
  <2> QED BY <2>1, <2>2 DEF ThreadJobOK
<1>2. CASE w = Maintainer
  <2>1. job[w] \in Deletions /\ MaintainerJobOK
    BY <1>2, MaintainerCases DEF StoreInv, JobsOK, MaintainerJobOK
  <2>2. w \notin Threads /\ job[w].marks = TRUE /\ job[w].todo \in SUBSET Nat
    BY <1>2, <2>1, StoreAssumption DEF Deletions
  <2> QED BY <1>2, <2>1, <2>2 DEF MaintainerJobOK
<1> QED BY <1>1, <1>2 DEF Workers

LEMMA MarkIndexed_Inv == ASSUME StoreInv, NEW w \in Workers, MarkIndexed(w) PROVE StoreInv'
PROOF
<1>1. job[w].at = "indexed" /\ Mark(job[w].id, "indexed") /\ UNCHANGED <<past, points, calls, faults>>
  BY DEF MarkIndexed
<1>2. /\ job[w].id \in Ids /\ (job[w].id \in points \/ ~Live(job[w].id))
      /\ w = Maintainer => job[w].todo \in SUBSET Nat /\ job[w].todo \subseteq Ids
      /\ w \in Threads => job[w].old \in Nat /\ (job[w].old # 0 => Dead({job[w].old}))
  BY <1>1, IndexingFacts
<1>3. Grows /\ (JobsOK' => StoreInv') BY <1>1, <1>2, MarkStep DEF States
<1>4. JobsOK BY DEF StoreInv
<1>5. CASE w \in Threads /\ job[w].old # 0
  <2>1. PICK j : j = [at |-> "erase", id |-> job[w].old, marks |-> TRUE] OBVIOUS
  <2>2. job' = [job EXCEPT ![w] = j] BY <1>5, <2>1, StoreAssumption DEF MarkIndexed
  <2>3. j \in Erases /\ j.id = job[w].old BY <1>2, <1>5, <2>1 DEF Erases
  <2>4. Dead({j.id}) BY <1>2, <1>5, <2>3
  <2>5. Dead({j.id})' BY <1>3, <2>4, DeadStays
  <2> QED BY <1>3, <1>4, <1>5, <2>2, <2>3, <2>5, ThreadErases
<1>6. CASE w \in Threads /\ job[w].old = 0
  <2>1. job' = [job EXCEPT ![w] = Idle] BY <1>6, StoreAssumption DEF MarkIndexed, Continue
  <2> QED BY <1>3, <1>4, <2>1, IdleStep
<1>7. CASE w = Maintainer
  <2>1. PICK j : j = [at |-> "reindex", todo |-> job[w].todo] OBVIOUS
  <2>2. job' = [job EXCEPT ![Maintainer] = j] BY <1>7, <2>1 DEF MarkIndexed, Continue, Rest
  <2>3. j \in Listings /\ j.todo = job[w].todo /\ j.at = "reindex" BY <1>2, <1>7, <2>1 DEF Listings
  <2>4. j.todo \subseteq Ids' BY <1>2, <1>3, <1>7, <2>3 DEF Grows
  <2> QED BY <1>3, <1>4, <2>2, <2>3, <2>4, MaintainerLists
<1> QED BY <1>5, <1>6, <1>7 DEF Workers

LEMMA MarkFailed_Inv == ASSUME StoreInv, NEW w \in Workers, MarkFailed(w) PROVE StoreInv'
PROOF
<1>1. /\ job[w].at = "failed" /\ Mark(job[w].id, "failed") /\ UNCHANGED <<past, points, calls, faults>>
      /\ job' = [job EXCEPT ![w] = Idle]
  BY DEF MarkFailed
<1>2. job[w].id \in Ids BY <1>1, IndexingFacts
<1>3. Grows /\ (JobsOK' => StoreInv') BY <1>1, <1>2, MarkStep DEF States
<1> QED BY <1>1, <1>3, IdleStep DEF StoreInv

\* The point of a memory that is not current is deleted, or not.
LEMMA ErasedStep ==
  ASSUME StoreInv, NEW w \in Workers, job[w].at = "erase", UNCHANGED <<memories, past, calls>>,
         points' \subseteq points, points \subseteq points' \union {job[w].id},
         faults' \in 0..MaxFaults
  PROVE  Grows /\ (JobsOK' => StoreInv')
PROOF
<1>1. Dead({job[w].id}) BY ErasingFacts
<1>2. past' \subseteq Ids /\ points' \subseteq Ids /\ calls' \in 0..MaxCalls BY DEF StoreInv, TableOK
<1>3. \A i \in Ids : Live(i) /\ i \in points => i \in points' BY <1>1 DEF Dead
<1> QED BY <1>2, <1>3, QuietStep

\* The job of a worker that deletes a point, with another place.
LEMMA ErasingMoves ==
  ASSUME StoreInv, Grows, NEW w \in Workers, job[w].at = "erase", NEW p \in {"erased", "kept"},
         job' = [job EXCEPT ![w].at = p]
  PROVE  JobsOK'
PROOF
<1>1. PICK o : o = job[w] OBVIOUS
<1>2. PICK j : j = [o EXCEPT !.at = p] OBVIOUS
<1>3. job' = [job EXCEPT ![w] = j] /\ JobsOK BY <1>1, <1>2 DEF StoreInv
<1>4. Dead({o.id})' BY <1>1, ErasingFacts, DeadStays
<1>5. CASE w \in Threads
  <2>1. o \in Erases BY <1>1, <1>5, ErasingFacts
  <2>2. j \in Erases /\ j.id = o.id BY <1>2, <2>1 DEF Erases
  <2> QED BY <1>3, <1>4, <1>5, <2>2, ThreadErases
<1>6. CASE w = Maintainer
  <2>1. o \in Deletions /\ Dead(o.todo) BY <1>1, <1>6, ErasingFacts
  <2>2. j \in Deletions /\ j.id = o.id /\ j.todo = o.todo BY <1>2, <2>1 DEF Deletions
  <2>3. Dead(o.todo)' BY <2>1, DeadStays
  <2> QED BY <1>3, <1>4, <1>6, <2>2, <2>3, MaintainerErases
<1> QED BY <1>5, <1>6 DEF Workers

LEMMA Erase_Inv == ASSUME StoreInv, NEW w \in Workers, Erase(w) PROVE StoreInv'
PROOF
<1>1. /\ job[w].at = "erase" /\ points' = points \ {job[w].id}
      /\ job' = [job EXCEPT ![w].at = "erased"] /\ UNCHANGED <<memories, past, calls, faults>>
  BY DEF Erase
<1>2. faults' \in 0..MaxFaults BY <1>1 DEF StoreInv, TableOK
<1>3. Grows /\ (JobsOK' => StoreInv') BY <1>1, <1>2, ErasedStep
<1> QED BY <1>1, <1>3, ErasingMoves

LEMMA EraseFails_Inv == ASSUME StoreInv, NEW w \in Workers, EraseFails(w) PROVE StoreInv'
PROOF
<1>1. /\ job[w].at = "erase" /\ points' \in {points, points \ {job[w].id}} /\ Fault
      /\ job' = [job EXCEPT ![w] = IF @.marks THEN [@ EXCEPT !.at = "kept"] ELSE Idle]
      /\ UNCHANGED <<memories, past, calls>>
  BY DEF EraseFails
<1>2. faults' \in 0..MaxFaults BY <1>1, FaultFacts
<1>3. Grows /\ (JobsOK' => StoreInv') BY <1>1, <1>2, ErasedStep
<1>4. CASE job[w].marks
  <2>1. job' = [job EXCEPT ![w].at = "kept"] BY <1>1, <1>4
  <2> QED BY <1>1, <1>3, <2>1, ErasingMoves
<1>5. CASE ~job[w].marks
  <2>1. job' = [job EXCEPT ![w] = Idle] BY <1>1, <1>5
  <2> QED BY <1>3, <2>1, IdleStep DEF StoreInv
<1> QED BY <1>4, <1>5

\* The deletion is marked; the maintenance goes on with the rest of its list.
LEMMA DeletionMarked ==
  ASSUME StoreInv, NEW w \in Workers, job[w].at \in {"erased", "kept"},
         NEW v \in {"deleted", "delete_pending"}, Mark(job[w].id, v), NEW s \in SUBSET Nat,
         w = Maintainer => s \subseteq job[w].todo, Continue(w, "deletions", s),
         UNCHANGED <<past, points, calls, faults>>
  PROVE  StoreInv'
PROOF
<1>1. Dead({job[w].id}) /\ (w = Maintainer => Dead(job[w].todo)) BY ErasingFacts
<1>2. job[w].id \in Ids /\ ~Live(job[w].id) BY <1>1 DEF Dead
<1>3. Grows /\ (JobsOK' => StoreInv') BY <1>2, MarkStep DEF States
<1>4. CASE w # Maintainer
  <2>1. job' = [job EXCEPT ![w] = Idle] BY <1>4 DEF Continue
  <2> QED BY <1>3, <2>1, IdleStep DEF StoreInv
<1>5. CASE w = Maintainer
  <2>1. PICK j : j = [at |-> "deletions", todo |-> s] OBVIOUS
  <2>2. job' = [job EXCEPT ![Maintainer] = j] BY <1>5, <2>1 DEF Continue
  <2>3. j \in Listings /\ j.todo = s BY <2>1 DEF Listings
  <2>4. Dead(s) BY <1>1, <1>5 DEF Dead
  <2>5. Dead(s)' /\ s \subseteq Ids' BY <1>3, <2>4, DeadStays DEF Dead
  <2> QED BY <1>3, <2>2, <2>3, <2>5, MaintainerLists DEF StoreInv
<1> QED BY <1>4, <1>5

LEMMA MarkDeleted_Inv == ASSUME StoreInv, NEW w \in Workers, MarkDeleted(w) PROVE StoreInv'
PROOF
<1>1. /\ job[w].at = "erased" /\ Mark(job[w].id, "deleted") /\ Continue(w, "deletions", Rest(w))
      /\ UNCHANGED <<past, points, calls, faults>>
  BY DEF MarkDeleted
<1>2. Rest(w) \in SUBSET Nat /\ (w = Maintainer => Rest(w) \subseteq job[w].todo)
  BY <1>1, ErasingFacts DEF Rest
<1> QED BY <1>1, <1>2, DeletionMarked

LEMMA MarkKept_Inv == ASSUME StoreInv, NEW w \in Workers, MarkKept(w) PROVE StoreInv'
BY DeletionMarked DEF MarkKept

-----------------------------------------------------------------------------
(* Invalidation, maintenance, time and death                               *)

LEMMA CallFacts == ASSUME StoreInv, NEW t, Call(t) PROVE calls' \in 0..MaxCalls
BY StoreAssumption DEF StoreInv, TableOK, Call

LEMMA Invalidate_Inv ==
  ASSUME StoreInv, NEW t \in Threads, NEW a, NEW i \in Ids, Invalidate(t, a, i)
  PROVE  StoreInv'
PROOF
<1>1. /\ Call(t) /\ UNCHANGED <<past, points, faults>>
      /\ memories' = IF memories[i].invalid THEN memories
                     ELSE [memories EXCEPT ![i].invalid = TRUE, ![i].state = "delete_pending"]
      /\ job' = [job EXCEPT ![t] = [at |-> "erase", id |-> i, marks |-> FALSE]]
  BY DEF Invalidate
<1>2. calls' \in 0..MaxCalls BY <1>1, CallFacts
<1>3. Grows /\ (JobsOK' => StoreInv') /\ Dead({i})'
  <2>1. CASE memories[i].invalid
    <3>1. UNCHANGED memories BY <1>1, <2>1
    <3>2. past' \subseteq Ids /\ points' \subseteq Ids /\ faults' \in 0..MaxFaults
      BY <1>1 DEF StoreInv, TableOK
    <3>3. Grows /\ (JobsOK' => StoreInv') BY <1>1, <1>2, <3>1, <3>2, QuietStep
    <3>4. Dead({i}) BY <2>1 DEF Dead, Live
    <3> QED BY <3>3, <3>4, DeadStays
  <2>2. CASE ~memories[i].invalid
    <3>1. PICK o \in Rows : o = memories[i] BY IdFacts DEF StoreInv
    <3>2. PICK r : r = [o EXCEPT !.invalid = TRUE, !.state = "delete_pending"] OBVIOUS
    <3>3. r \in Rows BY <3>1, <3>2 DEF Rows, States
    <3>4. /\ r.key = o.key /\ r.rank = o.rank /\ r.roles = o.roles /\ r.by = o.by /\ r.prev = o.prev
          /\ r.next = o.next /\ r.invalid = TRUE /\ r.state = "delete_pending"
      BY <3>1, <3>2 DEF Rows
    <3>5. memories' = [memories EXCEPT ![i] = r] BY <1>1, <2>2, <3>1, <3>2
    <3>6. Grows /\ (JobsOK' => StoreInv') BY <1>1, <1>2, <3>1, <3>3, <3>4, <3>5, RowStep
    <3>7. memories'[i] = r BY <3>5, IdFacts DEF StoreInv, Ids
    <3>8. i \in Ids' BY <3>6 DEF Grows
    <3> QED BY <3>4, <3>6, <3>7, <3>8 DEF Dead, Live
  <2> QED BY <2>1, <2>2
<1>4. PICK j : j = [at |-> "erase", id |-> i, marks |-> FALSE] OBVIOUS
<1>5. i \in Nat BY IdFacts DEF StoreInv
<1>6. j \in Erases /\ j.id = i BY <1>4, <1>5 DEF Erases
<1> QED BY <1>1, <1>3, <1>4, <1>6, ThreadErases DEF StoreInv

LEMMA Maintain_Inv == ASSUME StoreInv, Maintain PROVE StoreInv'
PROOF
<1>1. /\ memories' = Consolidated /\ job' = [job EXCEPT ![Maintainer] = [at |-> "list"]]
      /\ UNCHANGED <<past, points, calls, faults>>
  BY DEF Maintain
<1>2. PICK n \in Nat : n = Len(memories) /\ Ids = 1..n BY IdFacts DEF StoreInv
<1>3. ASSUME NEW i \in Ids
      PROVE  /\ memories'[i] \in Rows
             /\ memories'[i].key = memories[i].key /\ memories'[i].rank = memories[i].rank
             /\ memories'[i].roles = memories[i].roles /\ memories'[i].by = memories[i].by
             /\ memories'[i].prev = memories[i].prev /\ memories'[i].next = memories[i].next
             /\ memories[i].invalid => memories'[i].invalid
             /\ \/ memories'[i] = memories[i]
                \/ memories'[i].invalid /\ memories'[i].state = "delete_pending"
  <2>1. PICK o \in Rows : o = memories[i] BY IdFacts DEF StoreInv
  <2>2. PICK r : r = [o EXCEPT !.invalid = TRUE, !.state = "delete_pending"] OBVIOUS
  <2>3. r \in Rows BY <2>1, <2>2 DEF Rows, States
  <2>4. /\ r.key = o.key /\ r.rank = o.rank /\ r.roles = o.roles /\ r.by = o.by /\ r.prev = o.prev
        /\ r.next = o.next /\ r.invalid = TRUE /\ r.state = "delete_pending"
    BY <2>1, <2>2 DEF Rows
  <2>5. memories'[i] = o \/ memories'[i] = r BY <1>1, <2>1, <2>2 DEF Consolidated
  <2> QED BY <2>1, <2>3, <2>4, <2>5
<1>4. memories' \in [1..n -> Rows] BY <1>1, <1>2, <1>3 DEF Consolidated
<1>5. memories' \in Seq(Rows) /\ Len(memories') = Len(memories) BY <1>2, <1>4, SeqDef
<1>6. past' \subseteq Ids /\ points' \subseteq Ids /\ calls' \in 0..MaxCalls /\ faults' \in 0..MaxFaults
  BY <1>1 DEF StoreInv, TableOK
<1>7. /\ TableOK' /\ HistoryIsLinear' /\ AudienceNeverWidens' /\ OneOriginalPerContent'
      /\ Ids' = Ids /\ \A i \in Ids : ~Live(i) => ~Live(i)'
  BY <1>1, <1>3, <1>5, <1>6, TableKept DEF StoreInv
<1>8. MarkInv'
  <2>1. ASSUME NEW i \in Ids
        PROVE  /\ memories'[i].state \in {"delete_pending", "deleted"} => ~Live(i)'
               /\ Live(i)' /\ memories'[i].state = "indexed" => i \in points
    <3>1. CASE memories'[i] = memories[i] BY <1>7, <3>1 DEF StoreInv, MarkInv
    <3>2. CASE memories'[i].invalid /\ memories'[i].state = "delete_pending" BY <3>2 DEF Live
    <3> QED BY <1>3, <3>1, <3>2
  <2> QED BY <1>1, <1>7, <2>1 DEF MarkInv
<1>9. Grows BY <1>1, <1>3, <1>7 DEF Grows
<1>10. JobsOK'
  <2>1. PICK j : j = [at |-> "list"] OBVIOUS
  <2>2. job' = [job EXCEPT ![Maintainer] = j] /\ Maintainer \in Workers /\ job'[Maintainer] = j
    BY <1>1, <2>1 DEF StoreInv, JobsOK, Workers
  <2>3. j.at = "list" /\ j \in MaintainerJobs /\ j \notin Reindexings /\ j \notin Deletions
    BY <2>1 DEF MaintainerJobs, Reindexings, Deletions
  <2>4. MaintainerJobOK' BY <2>2, <2>3 DEF MaintainerJobOK
  <2> QED BY <1>9, <2>2, <2>4, StoreAssumption, JobStep DEF StoreInv
<1> QED BY <1>7, <1>8, <1>10 DEF StoreInv

\* A step of the maintenance that changes its own list only.
LEMMA ListStep ==
  ASSUME StoreInv, UNCHANGED <<memories, past, points, calls>>, faults' \in 0..MaxFaults
  PROVE  Grows /\ (JobsOK' => StoreInv') /\ Ids' = Ids /\ JobsOK
PROOF
<1>1. past' \subseteq Ids /\ points' \subseteq Ids /\ calls' \in 0..MaxCalls BY DEF StoreInv, TableOK
<1>2. Ids' = Ids /\ JobsOK BY DEF Ids, StoreInv
<1> QED BY <1>1, <1>2, QuietStep

LEMMA ListDeletions_Inv == ASSUME StoreInv, ListDeletions PROVE StoreInv'
PROOF
<1>1. /\ job' = [job EXCEPT ![Maintainer] = [at |-> "deletions", todo |-> PendingDeletions]]
      /\ UNCHANGED <<memories, past, points, calls, faults>>
  BY DEF ListDeletions
<1>2. Grows /\ (JobsOK' => StoreInv') /\ Ids' = Ids /\ JobsOK
  BY <1>1, ListStep DEF StoreInv, TableOK
<1>3. PICK s : s = PendingDeletions OBVIOUS
<1>4. Dead(s) BY <1>3 DEF PendingDeletions, Dead, StoreInv, MarkInv
<1>5. s \in SUBSET Nat /\ s \subseteq Ids BY <1>4, IdFacts DEF Dead, StoreInv
<1>6. PICK j : j = [at |-> "deletions", todo |-> s] OBVIOUS
<1>7. j \in Listings /\ j.todo = s BY <1>5, <1>6 DEF Listings
<1>8. Dead(s)' BY <1>2, <1>4, DeadStays
<1> QED BY <1>1, <1>2, <1>3, <1>5, <1>6, <1>7, <1>8, MaintainerLists

LEMMA CollectionMissing_Inv == ASSUME StoreInv, CollectionMissing PROVE StoreInv'
PROOF
<1>1. /\ Fault /\ job' = [job EXCEPT ![Maintainer] = Idle] /\ UNCHANGED <<memories, past, points, calls>>
  BY DEF CollectionMissing
<1>2. Grows /\ (JobsOK' => StoreInv') /\ Ids' = Ids /\ JobsOK BY <1>1, FaultFacts, ListStep
<1> QED BY <1>1, <1>2, IdleStep DEF Workers

LEMMA NextDeletion_Inv == ASSUME StoreInv, NextDeletion PROVE StoreInv'
PROOF
<1>1. job[Maintainer].at = "deletions" /\ UNCHANGED <<memories, past, points, calls, faults>>
  BY DEF NextDeletion
<1>2. Grows /\ (JobsOK' => StoreInv') /\ Ids' = Ids /\ JobsOK
  BY <1>1, ListStep DEF StoreInv, TableOK
<1>3. PICK s : s = job[Maintainer].todo OBVIOUS
<1>4. Dead(s) /\ s \in SUBSET Nat
  BY <1>1, <1>2, <1>3, MaintainerCases DEF JobsOK, MaintainerJobOK, Listings
<1>5. CASE \E i \in s : job' = [job EXCEPT ![Maintainer] = [at |-> "erase", id |-> i, marks |-> TRUE,
                                                            todo |-> s \ {i}]]
  <2>1. PICK i \in s : job' = [job EXCEPT ![Maintainer] = [at |-> "erase", id |-> i, marks |-> TRUE,
                                                           todo |-> s \ {i}]]
    BY <1>5
  <2>2. PICK j : j = [at |-> "erase", id |-> i, marks |-> TRUE, todo |-> s \ {i}] OBVIOUS
  <2>3. j \in Deletions /\ j.id = i /\ j.todo = s \ {i} BY <1>4, <2>2 DEF Deletions
  <2>4. Dead({i}) /\ Dead(s \ {i}) BY <1>4 DEF Dead
  <2>5. Dead({i})' /\ Dead(s \ {i})' BY <1>2, <2>4, DeadStays
  <2> QED BY <1>2, <2>1, <2>2, <2>3, <2>5, MaintainerErases
<1>6. CASE job' = [job EXCEPT ![Maintainer] = [at |-> "reindex", todo |-> PendingForReindex]]
  <2>1. PICK r : r = PendingForReindex OBVIOUS
  <2>2. r \subseteq Ids BY <2>1 DEF PendingForReindex
  <2>3. r \in SUBSET Nat BY <2>2, IdFacts DEF StoreInv
  <2>4. PICK j : j = [at |-> "reindex", todo |-> r] OBVIOUS
  <2>5. j \in Listings /\ j.todo = r /\ j.at = "reindex" BY <2>3, <2>4 DEF Listings
  <2> QED BY <1>2, <1>6, <2>1, <2>2, <2>4, <2>5, MaintainerLists
<1> QED BY <1>3, <1>5, <1>6 DEF NextDeletion

LEMMA NextReindex_Inv == ASSUME StoreInv, NextReindex PROVE StoreInv'
PROOF
<1>1. job[Maintainer].at = "reindex" /\ UNCHANGED <<memories, past, points, calls, faults>>
  BY DEF NextReindex
<1>2. Grows /\ (JobsOK' => StoreInv') /\ Ids' = Ids /\ JobsOK
  BY <1>1, ListStep DEF StoreInv, TableOK
<1>3. PICK s : s = job[Maintainer].todo OBVIOUS
<1>4. s \subseteq Ids /\ s \in SUBSET Nat
  BY <1>1, <1>2, <1>3, MaintainerCases DEF JobsOK, MaintainerJobOK, Listings
<1>5. CASE \E i \in s : job' = [job EXCEPT ![Maintainer] = [at |-> "upsert", id |-> i, todo |-> s \ {i}]]
  <2>1. PICK i \in s : job' = [job EXCEPT ![Maintainer] = [at |-> "upsert", id |-> i, todo |-> s \ {i}]]
    BY <1>5
  <2>2. PICK j : j = [at |-> "upsert", id |-> i, todo |-> s \ {i}] OBVIOUS
  <2>3. j \in Reindexings /\ j.id = i /\ j.todo = s \ {i} /\ j.at = "upsert"
    BY <1>4, <2>2 DEF Reindexings
  <2> QED BY <1>2, <1>4, <2>1, <2>2, <2>3, MaintainerIndexes
<1>6. CASE job' = [job EXCEPT ![Maintainer] = Idle] BY <1>2, <1>6, IdleStep DEF Workers
<1> QED BY <1>3, <1>5, <1>6 DEF NextReindex

LEMMA Crash_Inv == ASSUME StoreInv, NEW W, Crash(W) PROVE StoreInv'
PROOF
<1>1. /\ Fault /\ UNCHANGED <<memories, past, points, calls>>
      /\ job' = [w \in Workers |-> IF w \in W THEN Idle ELSE job[w]]
  BY DEF Crash
<1>2. Grows /\ (JobsOK' => StoreInv') /\ Ids' = Ids /\ JobsOK BY <1>1, FaultFacts, ListStep
<1>3. Idle.at = "idle" /\ Idle \in ThreadJobs /\ Idle \in MaintainerJobs
      /\ Idle \notin Upserts \union Erases \union Reindexings \union Deletions
  <2>1. Idle \in ThreadJobs /\ Idle \in MaintainerJobs BY DEF ThreadJobs, MaintainerJobs
  <2> QED BY <2>1 DEF Idle, Upserts, Erases, Reindexings, Deletions
<1>4. ASSUME NEW t \in Threads PROVE ThreadJobOK(t)'
  <2>1. CASE t \in W
    <3>1. job'[t] = Idle BY <1>1, <2>1 DEF Workers
    <3> QED BY <1>3, <3>1 DEF ThreadJobOK
  <2>2. CASE t \notin W
    <3>1. job'[t] = job[t] BY <1>1, <2>2 DEF Workers
    <3> QED BY <1>2, <3>1, ThreadJobStays DEF JobsOK
  <2> QED BY <2>1, <2>2
<1>5. MaintainerJobOK'
  <2>1. CASE Maintainer \in W
    <3>1. job'[Maintainer] = Idle BY <1>1, <2>1 DEF Workers
    <3> QED BY <1>3, <3>1 DEF MaintainerJobOK
  <2>2. CASE Maintainer \notin W
    <3>1. job'[Maintainer] = job[Maintainer] BY <1>1, <2>2 DEF Workers
    <3> QED BY <1>2, <3>1, MaintainerJobStays DEF JobsOK
  <2> QED BY <2>1, <2>2
<1> QED BY <1>1, <1>2, <1>4, <1>5 DEF JobsOK

LEMMA Pass_Inv == ASSUME StoreInv, NEW i \in Ids, Pass(i) PROVE StoreInv'
PROOF
<1>1. past' = past \union {i} /\ UNCHANGED <<memories, points, job, calls, faults>> BY DEF Pass
<1>2. past' \subseteq Ids /\ points' \subseteq Ids /\ calls' \in 0..MaxCalls /\ faults' \in 0..MaxFaults
  BY <1>1 DEF StoreInv, TableOK
<1>3. Grows /\ (JobsOK' => StoreInv') BY <1>1, <1>2, QuietStep
<1>4. JobsOK' BY <1>1, <1>3, ThreadJobStays, MaintainerJobStays DEF StoreInv, JobsOK
<1> QED BY <1>3, <1>4

-----------------------------------------------------------------------------
(* Ingestion                                                               *)

LEMMA DraftFacts ==
  ASSUME NEW d \in Drafts \union Seeds, NEW i \in Nat
  PROVE  Draft(d, i) \in Requests
BY StoreAssumption DEF Draft, Requests, Contents, Audiences

LEMMA Ingest_Inv ==
  ASSUME StoreInv, NEW t \in Threads, NEW a \in Actors, NEW d \in Drafts, NEW i \in Ids \union {0},
         Ingest(t, a, d, i)
  PROVE  StoreInv'
PROOF
<1>1. PICK q : q = Draft(d, i) OBVIOUS
<1>2. /\ Call(t) /\ UNCHANGED <<memories, past, points, faults>>
      /\ q.prev # 0 => q.prev \in Ids /\ (Widens(q, q.prev) => a.declassify)
      /\ job' = [job EXCEPT ![t] = [at |-> "insert", q |-> q, actor |-> a]]
  BY <1>1 DEF Ingest, IngestCheck
<1>3. i \in Nat BY IdFacts DEF StoreInv
<1>4. q \in Requests BY <1>1, <1>3, DraftFacts
<1>5. PICK j : j = [at |-> "insert", q |-> q, actor |-> a] OBVIOUS
<1>6. /\ j \in Inserts /\ j.q = q /\ j.actor = a /\ j.at = "insert"
  BY <1>4, <1>5 DEF Inserts
<1>7. j \in ThreadJobs /\ j \notin Upserts /\ j \notin Erases
  BY <1>6 DEF ThreadJobs, Upserts, Erases
<1>8. past' \subseteq Ids /\ points' \subseteq Ids /\ faults' \in 0..MaxFaults /\ calls' \in 0..MaxCalls
  BY <1>2, CallFacts DEF StoreInv, TableOK
<1>9. Grows /\ (JobsOK' => StoreInv') BY <1>2, <1>8, QuietStep
<1>10. t \in Workers /\ t # Maintainer /\ job'[t] = j
  BY <1>2, <1>5, StoreAssumption DEF StoreInv, JobsOK, Workers
<1>11. RequestOK(j) BY <1>2, <1>6 DEF RequestOK
<1>12. RequestOK(j)' BY <1>9, <1>11 DEF RequestOK, Grows, Widens
<1>13. ThreadJobOK(t)' BY <1>7, <1>10, <1>12 DEF ThreadJobOK
<1> QED BY <1>2, <1>5, <1>9, <1>10, <1>13, JobStep DEF StoreInv

\* The chains to a memory are made of earlier ones.
LEMMA ChainShorter ==
  ASSUME TableOK, NEW i \in Ids, NEW p \in Ids, i < p, NEW s \in SUBSET {k \in Nat : i < k}, p \in s,
         \A k \in s : k <= p => /\ k \in Ids /\ ~memories[k].by.declassify
                                /\ memories[k].prev \in s \union {i}
  PROVE  ChainTo(i, p)
PROOF
<1>1. PICK z : z = {k \in s : k <= p} OBVIOUS
<1>2. Ids \subseteq Nat /\ p \in Nat /\ p <= p BY IdFacts
<1>3. z \in SUBSET {k \in Ids : i < k /\ k <= p} /\ p \in z BY <1>1, <1>2
<1>4. ASSUME NEW k \in z PROVE ~memories[k].by.declassify /\ memories[k].prev \in z \union {i}
  <2>1. k \in Ids /\ k <= p /\ ~memories[k].by.declassify /\ memories[k].prev \in s \union {i}
    BY <1>1
  <2>2. memories[k].prev < k /\ memories[k].prev \in Nat /\ k \in Nat
    BY <1>2, <2>1, IdFacts DEF TableOK, Rows
  <2>3. memories[k].prev <= p BY <1>2, <2>1, <2>2
  <2> QED BY <1>1, <2>1, <2>3
<1> QED BY <1>3, <1>4 DEF ChainTo

\* The table with one row more, and the replaced one marked.
LEMMA InsertTable ==
  ASSUME TableOK, NEW q \in Requests, NEW a \in Actors, q.prev # 0 => q.prev \in Ids,
         NEW n, n = Len(memories) + 1,
         memories' = Append(Superseded(q), Row(q, a))
  PROVE  /\ memories' \in Seq(Rows) /\ Len(memories') = n /\ memories'[n] = Row(q, a)
         /\ \A i \in Ids : i # q.prev => memories'[i] = memories[i]
         /\ \A i \in Ids : /\ memories'[i].key = memories[i].key /\ memories'[i].rank = memories[i].rank
                           /\ memories'[i].roles = memories[i].roles /\ memories'[i].by = memories[i].by
                           /\ memories'[i].prev = memories[i].prev
                           /\ memories'[i].invalid = memories[i].invalid
         /\ q.prev # 0 => /\ memories'[q.prev].next = n
                          /\ memories'[q.prev].state = "delete_pending"
PROOF
<1>1. Len(memories) \in Nat /\ Ids = 1..Len(memories) /\ memories \in Seq(Rows)
  BY IdFacts DEF TableOK
<1>2. n \in Nat BY <1>1
<1>3. PICK m : m = Superseded(q) OBVIOUS
<1>4. PICK r : r = Row(q, a) OBVIOUS
<1>5. r \in Rows BY <1>4 DEF Row, Rows, Requests, States
<1>6. /\ m \in Seq(Rows) /\ Len(m) = Len(memories)
      /\ \A i \in Ids : i # q.prev => m[i] = memories[i]
      /\ \A i \in Ids : /\ m[i].key = memories[i].key /\ m[i].rank = memories[i].rank
                        /\ m[i].roles = memories[i].roles /\ m[i].by = memories[i].by
                        /\ m[i].prev = memories[i].prev /\ m[i].invalid = memories[i].invalid
      /\ q.prev # 0 => m[q.prev].next = n /\ m[q.prev].state = "delete_pending"
  <2>1. CASE q.prev = 0 BY <1>1, <1>3, <2>1 DEF Superseded
  <2>2. CASE q.prev # 0
    <3>1. PICK p \in Ids : p = q.prev BY <2>2
    <3>2. PICK o \in Rows : o = memories[p] BY IdFacts
    <3>3. PICK k : k = [o EXCEPT !.next = n, !.state = "delete_pending"] OBVIOUS
    <3>4. k \in Rows BY <1>2, <3>2, <3>3 DEF Rows, States
    <3>5. /\ k.key = o.key /\ k.rank = o.rank /\ k.roles = o.roles /\ k.by = o.by /\ k.prev = o.prev
          /\ k.invalid = o.invalid /\ k.next = n /\ k.state = "delete_pending"
      BY <3>2, <3>3 DEF Rows
    <3>6. m = [memories EXCEPT ![p] = k] BY <1>3, <2>2, <3>1, <3>2, <3>3 DEF Superseded
    <3>7. /\ m \in Seq(Rows) /\ Len(m) = Len(memories) /\ m[p] = k
          /\ \A i \in Ids : i # p => m[i] = memories[i]
      BY <1>1, <3>4, <3>6
    <3> QED BY <3>1, <3>2, <3>5, <3>7
  <2> QED BY <2>1, <2>2
<1>7. memories' = Append(m, r) BY <1>3, <1>4
<1>8. memories' \in Seq(Rows) /\ Len(memories') = n /\ memories'[n] = r
  BY <1>1, <1>2, <1>5, <1>6, <1>7
<1>9. \A i \in Ids : memories'[i] = m[i] BY <1>1, <1>5, <1>6, <1>7
<1> QED BY <1>4, <1>6, <1>8, <1>9

\* The transaction that inserts a memory: the one it replaces is still current, and
\* an original has no current duplicate.
LEMMA Insert_Inv ==
  ASSUME StoreInv, NEW t \in Threads, NEW q \in Requests, NEW a \in Actors,
         q.prev # 0 => q.prev \in Ids /\ (Widens(q, q.prev) => a.declassify),
         MayReplace(q), ~IsDuplicate(q), NEW n, n = Len(memories) + 1,
         memories' = Append(Superseded(q), Row(q, a)),
         job' = [job EXCEPT ![t] = [at |-> "upsert", id |-> n, old |-> q.prev]],
         UNCHANGED <<past, points, calls, faults>>
  PROVE  StoreInv'
PROOF
<1>0. PICK r : r = Row(q, a) OBVIOUS
<1>1. /\ TableOK /\ Len(memories) \in Nat /\ Ids = 1..Len(memories) /\ n \in Nat /\ n \notin Ids
      /\ \A i \in Ids : i \in Nat /\ i < n /\ memories[i] \in Rows
  BY IdFacts DEF StoreInv
<1>2. /\ memories' \in Seq(Rows) /\ Len(memories') = n /\ memories'[n] = r
      /\ \A i \in Ids : i # q.prev => memories'[i] = memories[i]
      /\ \A i \in Ids : /\ memories'[i].key = memories[i].key /\ memories'[i].rank = memories[i].rank
                        /\ memories'[i].roles = memories[i].roles /\ memories'[i].by = memories[i].by
                        /\ memories'[i].prev = memories[i].prev
                        /\ memories'[i].invalid = memories[i].invalid
      /\ q.prev # 0 => memories'[q.prev].next = n /\ memories'[q.prev].state = "delete_pending"
  BY <1>0, <1>1, InsertTable
<1>3. Ids' = Ids \union {n} BY <1>1, <1>2 DEF Ids
<1>4. /\ r.key = q.key /\ r.rank = q.rank /\ r.roles = q.roles /\ r.by = a /\ r.prev = q.prev
      /\ r.next = 0 /\ r.invalid = FALSE /\ r.state = "pending"
  BY <1>0 DEF Row
<1>5. n # 0 /\ q.prev \in Nat /\ q.rank \in Int /\ (q.prev # 0 => q.prev < n /\ Live(q.prev))
  BY <1>1 DEF Requests, MayReplace
<1>6. ASSUME NEW i \in Ids PROVE (~Live(i) => ~Live(i)') /\ (i = q.prev => ~Live(i)')
  <2>1. CASE i = q.prev
    <3>1. memories'[i].next = n /\ n # 0 BY <1>1, <1>2, <1>5, <2>1
    <3> QED BY <3>1 DEF Live
  <2>2. CASE i # q.prev
    <3>1. memories'[i] = memories[i] BY <1>2, <2>2
    <3> QED BY <2>2, <3>1 DEF Live
  <2> QED BY <2>1, <2>2
<1>7. TableOK'
  <2>1. ASSUME NEW i \in Ids' PROVE memories'[i].prev < i /\ memories'[i].next <= n
    <3>1. CASE i = n BY <1>1, <1>2, <1>4, <1>5, <3>1
    <3>2. CASE i \in Ids
      <4>1. memories[i].prev < i /\ memories[i].next <= Len(memories) /\ memories[i].next \in Nat
        BY <1>1, <3>2 DEF TableOK, Rows
      <4>2. memories[i].next <= n BY <1>1, <4>1
      <4> QED BY <1>1, <1>2, <3>2, <4>1, <4>2
    <3> QED BY <1>3, <3>1, <3>2
  <2>2. past' \subseteq Ids' /\ points' \subseteq Ids' BY <1>1, <1>3 DEF TableOK
  <2> QED BY <1>1, <1>2, <2>1, <2>2 DEF TableOK
<1>8. HistoryIsLinear'
  <2>1. ASSUME NEW i \in Ids
        PROVE  /\ memories[i].prev # 0 => memories[i].prev \in Ids /\ memories[memories[i].prev].next = i
               /\ memories[i].next # 0 => memories[i].next \in Ids /\ memories[memories[i].next].prev = i
    <3>1. /\ memories[i].prev \in Nat /\ memories[i].next \in Nat /\ memories[i].prev < i
          /\ memories[i].next <= Len(memories) /\ i <= Len(memories) /\ i \in Nat
      BY <1>1 DEF TableOK, Rows
    <3>2. /\ memories[i].prev # 0 => memories[i].prev \in Ids
          /\ memories[i].next # 0 => memories[i].next \in Ids
      BY <1>1, <3>1
    <3> QED BY <3>2 DEF StoreInv, HistoryIsLinear
  <2>2. ASSUME NEW i \in Ids'
        PROVE  /\ memories'[i].prev # 0 => memories'[memories'[i].prev].next = i
               /\ memories'[i].next # 0 => memories'[memories'[i].next].prev = i
    <3>1. CASE i = n BY <1>2, <1>4, <3>1
    <3>2. CASE i \in Ids /\ i = q.prev
      <4>1. i # 0 /\ memories'[i].next = n BY <1>1, <1>2, <3>2
      <4>2. ASSUME memories[i].prev # 0 PROVE memories'[memories[i].prev].next = i
        <5>1. memories[i].prev \in Ids /\ memories[memories[i].prev].next = i BY <2>1, <3>2, <4>2
        <5>2. memories[i].prev # q.prev BY <1>1, <3>2 DEF TableOK, Rows
        <5> QED BY <1>2, <5>1, <5>2
      <4> QED BY <1>2, <1>4, <3>2, <4>1, <4>2
    <3>3. CASE i \in Ids /\ i # q.prev
      <4>1. memories'[i] = memories[i] BY <1>2, <3>3
      <4>2. ASSUME memories[i].prev # 0 PROVE memories'[memories[i].prev].next = i
        <5>1. memories[i].prev \in Ids /\ memories[memories[i].prev].next = i BY <2>1, <3>3, <4>2
        <5>2. i # 0 BY <1>1, <3>3
        <5>3. memories[i].prev # q.prev BY <1>5, <4>2, <5>1, <5>2 DEF Live
        <5> QED BY <1>2, <5>1, <5>3
      <4>3. ASSUME memories[i].next # 0 PROVE memories'[memories[i].next].prev = i
        BY <1>2, <2>1, <3>3, <4>3
      <4> QED BY <4>1, <4>2, <4>3
    <3> QED BY <1>3, <3>1, <3>2, <3>3
  <2> QED BY <2>2 DEF HistoryIsLinear
<1>9. \A i, j \in Ids' : i < j /\ ChainTo(i, j)' => NotWider(i, j)'
  <2> SUFFICES ASSUME NEW i \in Ids', NEW j \in Ids', i < j, ChainTo(i, j)' PROVE NotWider(i, j)'
    OBVIOUS
  <2>1. PICK s : /\ s \subseteq Ids' /\ (\A k \in s : i < k /\ k <= j) /\ j \in s
                 /\ \A k \in s : ~memories'[k].by.declassify /\ memories'[k].prev \in s \union {i}
    BY DEF ChainTo
  <2>2. i \in Ids /\ i \in Nat /\ i # 0 /\ s \subseteq Nat
    <3>1. i # n BY <1>1, <1>3
    <3> QED BY <1>1, <1>3, <2>1, <3>1
  <2>3. CASE j \in Ids
    <3>1. \A k \in s : k \in Ids BY <1>1, <1>3, <2>1, <2>3
    <3>2. ChainTo(i, j) BY <1>2, <2>1, <3>1 DEF ChainTo
    <3>3. NotWider(i, j) BY <2>2, <2>3, <3>2, AudienceByChains DEF StoreInv
    <3> QED BY <1>2, <2>2, <2>3, <3>3 DEF NotWider
  <2>4. CASE j = n
    <3>1. ~a.declassify /\ q.prev \in s \union {i} BY <1>2, <1>4, <2>1, <2>4
    <3>2. PICK p \in Ids : p = q.prev
      <4>1. q.prev # 0 BY <2>1, <2>2, <3>1
      <4> QED BY <4>1
    <3>3. ~Widens(q, p) BY <3>1, <3>2, <1>1
    <3>4. memories[p].rank <= q.rank /\ q.roles \subseteq memories[p].roles
      BY <1>1, <1>5, <3>3 DEF Widens, Rows
    <3>5. NotWider(i, p)
      <4>1. CASE p = i BY <1>1, <4>1 DEF NotWider, Rows
      <4>2. CASE p # i
        <5>1. p \in s /\ i < p BY <2>1, <3>1, <3>2, <4>2
        <5>2. s \in SUBSET {k \in Nat : i < k} BY <2>1, <2>2
        <5>3. ASSUME NEW k \in s, k <= p
              PROVE  k \in Ids /\ ~memories[k].by.declassify /\ memories[k].prev \in s \union {i}
          <6>1. k # n BY <1>1, <2>2, <5>3
          <6>2. k \in Ids BY <1>3, <2>1, <6>1
          <6> QED BY <1>2, <2>1, <6>2
        <5>4. ChainTo(i, p) BY <1>1, <2>2, <5>1, <5>2, <5>3, ChainShorter
        <5> QED BY <2>2, <5>1, <5>4, AudienceByChains DEF StoreInv
      <4> QED BY <4>1, <4>2
    <3>6. memories[i].rank <= q.rank /\ q.roles \subseteq memories[i].roles
      <4>1. memories[i].rank \in Int /\ memories[p].rank \in Int /\ q.rank \in Int
        BY <1>1, <1>5, <2>2 DEF Rows
      <4>2. memories[i].rank <= memories[p].rank /\ memories[p].roles \subseteq memories[i].roles
        BY <3>5 DEF NotWider
      <4>3. memories[i].rank <= q.rank BY <3>4, <4>1, <4>2
      <4> QED BY <3>4, <4>2, <4>3
    <3> QED BY <1>2, <1>4, <2>2, <2>4, <3>6 DEF NotWider
  <2> QED BY <1>3, <2>3, <2>4
<1>10. AudienceNeverWidens' BY <1>9 DEF AudienceNeverWidens, ChainTo, NotWider
<1>11. OneOriginalPerContent'
  <2>1. \A i \in Ids : IsCurrent(i)' => IsCurrent(i) BY <1>6 DEF IsCurrent
  <2>2. ASSUME NEW i \in Ids, IsCurrent(i), r.prev = 0
        PROVE  <<memories[i].key, memories[i].rank, memories[i].roles>> # <<q.key, q.rank, q.roles>>
    BY <1>4, <2>2 DEF IsDuplicate, Duplicates
  <2>3. ASSUME NEW i \in Ids', NEW j \in Ids', i # j, IsCurrent(i)', IsCurrent(j)',
               memories'[i].prev = 0, memories'[j].prev = 0
        PROVE  <<memories'[i].key, memories'[i].rank, memories'[i].roles>>
                 # <<memories'[j].key, memories'[j].rank, memories'[j].roles>>
    <3>1. CASE i \in Ids /\ j \in Ids
      <4>1. IsCurrent(i) /\ IsCurrent(j) /\ memories[i].prev = 0 /\ memories[j].prev = 0
        BY <1>2, <2>1, <2>3, <3>1
      <4>2. <<memories[i].key, memories[i].rank, memories[i].roles>>
              # <<memories[j].key, memories[j].rank, memories[j].roles>>
        BY <2>3, <3>1, <4>1 DEF StoreInv, OneOriginalPerContent
      <4> QED BY <1>2, <3>1, <4>2
    <3>2. CASE i = n /\ j \in Ids BY <1>2, <1>4, <2>1, <2>2, <2>3, <3>2
    <3>3. CASE i \in Ids /\ j = n BY <1>2, <1>4, <2>1, <2>2, <2>3, <3>3
    <3> QED BY <1>3, <2>3, <3>1, <3>2, <3>3
  <2> QED BY <2>3 DEF OneOriginalPerContent
<1>12. MarkInv'
  <2>1. ASSUME NEW i \in Ids'
        PROVE  /\ memories'[i].state \in {"delete_pending", "deleted"} => ~Live(i)'
               /\ Live(i)' /\ memories'[i].state = "indexed" => i \in points
    <3>1. CASE i = n BY <1>2, <1>4, <3>1
    <3>2. CASE i \in Ids /\ i = q.prev BY <1>6, <3>2
    <3>3. CASE i \in Ids /\ i # q.prev BY <1>2, <1>6, <3>3 DEF StoreInv, MarkInv
    <3> QED BY <1>3, <3>1, <3>2, <3>3
  <2> QED BY <2>1 DEF MarkInv
<1>13. Grows BY <1>2, <1>3, <1>6 DEF Grows
<1>14. JobsOK'
  <2>1. PICK j : j = [at |-> "upsert", id |-> n, old |-> q.prev] OBVIOUS
  <2>2. j \in Upserts /\ j.id = n /\ j.old = q.prev /\ j.at = "upsert" BY <1>1, <1>5, <2>1 DEF Upserts
  <2>3. j.old # 0 => Dead({j.old})' BY <1>3, <1>6, <2>2 DEF Dead
  <2>4. j.id \in Ids' BY <1>3, <2>2
  <2> QED BY <1>13, <2>1, <2>2, <2>3, <2>4, ThreadIndexes DEF StoreInv
<1> QED BY <1>7, <1>8, <1>10, <1>11, <1>12, <1>14 DEF StoreInv

LEMMA IngestInsert_Inv == ASSUME StoreInv, NEW t \in Threads, IngestInsert(t) PROVE StoreInv'
PROOF
<1>1. job[t].at = "insert" /\ UNCHANGED <<past, points, calls, faults>> BY DEF IngestInsert
<1>2. PICK r : r = job[t] OBVIOUS
<1>3. r \in Inserts /\ RequestOK(r)
  BY <1>1, <1>2, ThreadCases DEF StoreInv, JobsOK, ThreadJobOK
<1>4. PICK q \in Requests : q = r.q BY <1>3 DEF Inserts
<1>5. r.actor \in Actors BY <1>3 DEF Inserts
<1>6. CASE IsDuplicate(q) \/ ~MayReplace(q)
  <2>1. job' = [job EXCEPT ![t] = Idle] /\ UNCHANGED memories
    BY <1>2, <1>4, <1>6 DEF IngestInsert
  <2>2. faults' \in 0..MaxFaults BY <1>1 DEF StoreInv, TableOK
  <2>3. Grows /\ (JobsOK' => StoreInv') /\ JobsOK BY <1>1, <2>1, <2>2, ListStep
  <2> QED BY <2>1, <2>3, IdleStep DEF Workers
<1>7. CASE ~IsDuplicate(q) /\ MayReplace(q)
  <2>1. PICK n : n = Len(memories) + 1 OBVIOUS
  <2>2. /\ memories' = Append(Superseded(q), Row(q, r.actor))
        /\ job' = [job EXCEPT ![t] = [at |-> "upsert", id |-> n, old |-> q.prev]]
    BY <1>2, <1>4, <1>7, <2>1 DEF IngestInsert
  <2>3. q.prev # 0 => q.prev \in Ids /\ (Widens(q, q.prev) => r.actor.declassify)
    BY <1>3, <1>4 DEF RequestOK
  <2> QED BY <1>1, <1>5, <1>7, <2>1, <2>2, <2>3, Insert_Inv
<1> QED BY <1>6, <1>7

LEMMA StoreInit_Inv == StoreInit => StoreInv
PROOF
<1> SUFFICES ASSUME StoreInit PROVE StoreInv OBVIOUS
<1>1. PICK d \in Seeds, a \in Actors : memories = <<[Row(Draft(d, 0), a) EXCEPT !.state = "indexed"]>>
  BY DEF StoreInit
<1>2. PICK q \in Requests : q = Draft(d, 0) BY DraftFacts
<1>3. PICK o : o = Row(q, a) OBVIOUS
<1>4. q.prev = 0 BY <1>2 DEF Draft
<1>5. /\ o \in Rows /\ o.prev = 0 /\ o.next = 0 /\ o.invalid = FALSE
  BY <1>3, <1>4 DEF Row, Rows, Requests, States
<1>6. PICK r : r = [o EXCEPT !.state = "indexed"] OBVIOUS
<1>7. r \in Rows /\ r.prev = 0 /\ r.next = 0 /\ r.invalid = FALSE /\ memories = <<r>>
  BY <1>1, <1>2, <1>3, <1>5, <1>6 DEF Rows, States
<1>8. memories \in Seq(Rows) /\ Len(memories) = 1 /\ Ids = {1} /\ memories[1] = r
  BY <1>7 DEF Ids
<1>9. TableOK BY <1>7, <1>8, StoreAssumption DEF TableOK, StoreInit
<1>10. JobsOK
  <2>1. Idle.at = "idle" /\ Idle \in ThreadJobs /\ Idle \in MaintainerJobs
        /\ Idle \notin Upserts \union Erases \union Reindexings \union Deletions
    <3>1. Idle \in ThreadJobs /\ Idle \in MaintainerJobs BY DEF ThreadJobs, MaintainerJobs
    <3> QED BY <3>1 DEF Idle, Upserts, Erases, Reindexings, Deletions
  <2>2. DOMAIN job = Workers /\ \A w \in Workers : job[w] = Idle BY DEF StoreInit
  <2>3. MaintainerJobOK BY <2>1, <2>2 DEF MaintainerJobOK, Workers
  <2>4. \A t \in Threads : ThreadJobOK(t) BY <2>1, <2>2 DEF ThreadJobOK, Workers
  <2> QED BY <2>2, <2>3, <2>4 DEF JobsOK
<1>11. MarkInv
  <2>1. r.state = "indexed" BY <1>5, <1>6 DEF Rows
  <2> QED BY <1>7, <1>8, <2>1 DEF MarkInv, StoreInit
<1>12. HistoryIsLinear /\ OneOriginalPerContent BY <1>7, <1>8 DEF HistoryIsLinear, OneOriginalPerContent
<1>13. AudienceNeverWidens BY <1>8 DEF AudienceNeverWidens
<1> QED BY <1>9, <1>10, <1>11, <1>12, <1>13 DEF StoreInv

LEMMA StoreNext_Inv == StoreInv /\ [StoreNext]_storeVars => StoreInv'
PROOF
<1> SUFFICES ASSUME StoreInv, [StoreNext]_storeVars PROVE StoreInv' OBVIOUS
<1>1. CASE \E t \in Threads, a \in Actors :
             \/ \E d \in Drafts, i \in Ids \union {0} : Ingest(t, a, d, i)
             \/ \E i \in Ids : Invalidate(t, a, i)
  BY <1>1, Ingest_Inv, Invalidate_Inv
<1>2. CASE \E t \in Threads : IngestInsert(t) BY <1>2, IngestInsert_Inv
<1>3. ASSUME NEW w \in Workers, Upsert(w) \/ UpsertFails(w) \/ Erase(w) \/ EraseFails(w) \/ Marking(w)
      PROVE  StoreInv'
  BY <1>3, Upsert_Inv, UpsertFails_Inv, Erase_Inv, EraseFails_Inv, MarkIndexed_Inv, MarkFailed_Inv,
     MarkDeleted_Inv, MarkKept_Inv DEF Marking
<1>4. CASE Maintenance \/ CollectionMissing
  BY <1>4, Maintain_Inv, ListDeletions_Inv, NextDeletion_Inv, NextReindex_Inv, CollectionMissing_Inv
     DEF Maintenance
<1>5. CASE \E i \in Ids : Pass(i) BY <1>5, Pass_Inv
<1>6. CASE Crash(Threads) \/ Crash({Maintainer}) BY <1>6, Crash_Inv
<1>7. CASE UNCHANGED storeVars
  <2>1. UNCHANGED <<memories, past, points, calls, job>> /\ faults' = faults BY <1>7 DEF storeVars
  <2>2. Grows /\ (JobsOK' => StoreInv') /\ JobsOK BY <2>1, ListStep DEF StoreInv, TableOK
  <2>3. JobsOK' BY <2>1, <2>2, ThreadJobStays, MaintainerJobStays DEF JobsOK
  <2> QED BY <2>2, <2>3
<1> QED BY <1>1, <1>2, <1>3, <1>4, <1>5, <1>6, <1>7 DEF StoreNext

LEMMA StoreInvHolds == StoreInv => StoreHolds
PROOF
<1> SUFFICES ASSUME StoreInv PROVE StoreHolds OBVIOUS
<1>1. ASSUME NEW i \in Ids
      PROVE  /\ memories[i].state \in States /\ memories[i].prev \in 0..(i - 1)
             /\ memories[i].next \in 0..Len(memories)
  <2>1. /\ memories[i].state \in States /\ memories[i].prev \in Nat /\ memories[i].next \in Nat
        /\ i \in Nat /\ Len(memories) \in Nat
    BY IdFacts DEF StoreInv, Rows
  <2>2. memories[i].prev < i /\ memories[i].next <= Len(memories) BY DEF StoreInv, TableOK
  <2> QED BY <2>1, <2>2
<1>2. StoreTypeOK BY <1>1 DEF StoreTypeOK, StoreInv, TableOK
<1>3. IndexedIsSearchable BY DEF IndexedIsSearchable, StoreInv, MarkInv
<1> QED BY <1>2, <1>3 DEF StoreHolds, StoreInv

\* Whatever threads and the maintenance do side by side, and whatever fails or dies:
\* a memory is replaced at most once and both rows say so, no version is shown to
\* more people unless somebody with declassify had a part in it, original content
\* is current once per audience, and no late or repeated deletion hits the point of
\* a current memory (service.py, storage.py).
THEOREM MemoriesAreKept == StoreSpec => []StoreHolds
PROOF
<1>1. StoreInit => StoreInv BY StoreInit_Inv
<1>2. StoreInv /\ [StoreNext]_storeVars => StoreInv' BY StoreNext_Inv
<1>3. StoreInv => StoreHolds BY StoreInvHolds
<1> QED BY <1>1, <1>2, <1>3, PTL DEF StoreSpec

-----------------------------------------------------------------------------
(* THE PAID CALLS                                                          *)

CallRows == [day : Nat, provider : Providers,
             outcome : {"reserved", "budget_denied", "success", "failed"}]

Batches == [at : {"lock", "next", "upsert"}, todo : SUBSET Records]
Reservations == [at : {"reserve"}, for : Records \union {0}, todo : SUBSET Records,
                 provider : Providers, since : Nat]
PaidCalls == [at : {"embed", "success", "failed", "cache"}, for : Records \union {0},
              todo : SUBSET Records, id : Nat]
ClientJobs == {Free} \union Batches \union Reservations \union PaidCalls

\* Types of the tables and of the threads; the day that a thread counts from is
\* not ahead of the clock, and only the vector of a memory is stored.
IndexTypeOK ==
  /\ today \in Nat /\ providerCalls \in Seq(CallRows) /\ vectors \subseteq Records
  /\ billed \in [Records -> Nat] /\ deaths \in Nat
  /\ client \in [Clients -> ClientJobs]
  /\ \A c \in Clients : /\ client[c] \in Reservations => client[c].since <= today
                        /\ client[c] \in PaidCalls => client[c].id \in DOMAIN providerCalls
                        /\ client[c].at = "cache" => client[c].for # 0

\* The calls of day d to provider p.
OnDay(p, d) == {i \in Made(p, d) : providerCalls[i].day = d}

BudgetInv == \A d \in Nat, p \in Providers : Cardinality(OnDay(p, d)) <= Budget

\* A thread that works on a memory holds the lock, and the vector of a memory that
\* it is about to buy is not there yet.
Indexes(c) ==
  \/ client[c] \in Batches /\ client[c].at # "lock"
  \/ client[c] \in Reservations \union PaidCalls /\ client[c].for # 0

LockInv ==
  \A c \in Clients :
    /\ Indexes(c) => mutex = c
    /\ client[c].at \in {"reserve", "embed"} => client[c].for \notin vectors

\* The answer that is paid for and not stored yet is in the hands of a thread, or
\* was lost with the service.
InHand(r) == \E c \in Clients : client[c].at \in {"success", "cache"} /\ client[c].for = r

BillInv ==
  \A r \in Records : /\ billed[r] <= 1 + deaths
                     /\ r \notin vectors /\ ~InHand(r) => billed[r] <= deaths

IndexInv == IndexTypeOK /\ BudgetInv /\ LockInv /\ BillInv

-----------------------------------------------------------------------------

LEMMA ClientCases ==
  ASSUME NEW j \in ClientJobs
  PROVE  /\ j.at \in {"lock", "next", "upsert"} => j \in Batches
         /\ j.at = "reserve" => j \in Reservations
         /\ j.at \in {"embed", "success", "failed", "cache"} => j \in PaidCalls
PROOF
<1>1. CASE j = Free BY <1>1 DEF Free
<1>2. CASE j \in Batches BY <1>2 DEF Batches
<1>3. CASE j \in Reservations BY <1>3 DEF Reservations
<1>4. CASE j \in PaidCalls BY <1>4 DEF PaidCalls
<1> QED BY <1>1, <1>2, <1>3, <1>4 DEF ClientJobs

LEMMA ClientIs ==
  ASSUME IndexTypeOK, NEW c \in Clients
  PROVE  client[c] \in ClientJobs
BY DEF IndexTypeOK

\* The job a thread goes on with.
WorksOn(j) ==
  \/ j \in Batches /\ j.at # "lock"
  \/ j \in Reservations \union PaidCalls /\ j.for # 0

\* Types, after a step of one thread.
LEMMA ClientTypes ==
  ASSUME IndexTypeOK, NEW c \in Clients, NEW j \in ClientJobs, client' = [client EXCEPT ![c] = j],
         today' = today, providerCalls' \in Seq(CallRows), DOMAIN providerCalls \subseteq DOMAIN providerCalls',
         vectors' \subseteq Records, billed' \in [Records -> Nat], deaths' = deaths,
         j \in Reservations => j.since <= today, j \in PaidCalls => j.id \in DOMAIN providerCalls',
         j.at = "cache" => j.for # 0
  PROVE  /\ IndexTypeOK' /\ client'[c] = j /\ \A d \in Clients : d # c => client'[d] = client[d]
PROOF
<1>1. /\ client' \in [Clients -> ClientJobs] /\ client'[c] = j
      /\ \A d \in Clients : d # c => client'[d] = client[d]
  BY DEF IndexTypeOK
<1>2. ASSUME NEW d \in Clients
      PROVE  /\ client'[d] \in Reservations => client'[d].since <= today'
             /\ client'[d] \in PaidCalls => client'[d].id \in DOMAIN providerCalls'
             /\ client'[d].at = "cache" => client'[d].for # 0
  <2>1. CASE d = c BY <1>1, <2>1
  <2>2. CASE d # c BY <1>1, <2>2 DEF IndexTypeOK
  <2> QED BY <2>1, <2>2
<1> QED BY <1>1, <1>2 DEF IndexTypeOK

\* The lock, after a step that stores no vector.
LEMMA LockStep ==
  ASSUME LockInv, NEW c \in Clients, NEW j, client'[c] = j,
         \A d \in Clients : d # c => client'[d] = client[d],
         \A d \in Clients : d # c /\ mutex = d => mutex' = d, vectors' = vectors,
         WorksOn(j) => mutex' = c, j.at \in {"reserve", "embed"} => j.for \notin vectors
  PROVE  LockInv'
PROOF
<1>1. ASSUME NEW d \in Clients
      PROVE  /\ Indexes(d)' => mutex' = d
             /\ client'[d].at \in {"reserve", "embed"} => client'[d].for \notin vectors'
  <2>1. CASE d = c BY <2>1 DEF WorksOn, Indexes
  <2>2. CASE d # c
    <3>1. client'[d] = client[d] BY <2>2
    <3> QED BY <2>2, <3>1 DEF LockInv, Indexes
  <2> QED BY <2>1, <2>2
<1> QED BY <1>1 DEF LockInv

\* What is paid for stays in hand.
LEMMA BillStep ==
  ASSUME BillInv, NEW c \in Clients, NEW j, client'[c] = j,
         \A d \in Clients : d # c => client'[d] = client[d],
         UNCHANGED <<vectors, billed, deaths>>,
         client[c].at \in {"success", "cache"} /\ client[c].for \in Records \ vectors =>
           j.at \in {"success", "cache"} /\ j.for = client[c].for
  PROVE  BillInv'
PROOF
<1>1. ASSUME NEW r \in Records, r \notin vectors, InHand(r) PROVE InHand(r)'
  <2>1. PICK d \in Clients : client[d].at \in {"success", "cache"} /\ client[d].for = r
    BY <1>1 DEF InHand
  <2>2. client'[d].at \in {"success", "cache"} /\ client'[d].for = r BY <1>1, <2>1
  <2> QED BY <2>2 DEF InHand
<1> QED BY <1>1 DEF BillInv

\* A step of a thread that stores nothing.
LEMMA CallStep ==
  ASSUME IndexInv, NEW c \in Clients, NEW j \in ClientJobs, client' = [client EXCEPT ![c] = j],
         UNCHANGED <<today, vectors, billed, deaths>>, providerCalls' \in Seq(CallRows),
         DOMAIN providerCalls \subseteq DOMAIN providerCalls', BudgetInv',
         \A d \in Clients : d # c /\ mutex = d => mutex' = d,
         j \in Reservations => j.since <= today, j \in PaidCalls => j.id \in DOMAIN providerCalls',
         j.at = "cache" => j.for # 0,
         WorksOn(j) => mutex' = c, j.at \in {"reserve", "embed"} => j.for \notin vectors,
         client[c].at \in {"success", "cache"} /\ client[c].for \in Records \ vectors =>
           j.at \in {"success", "cache"} /\ j.for = client[c].for
  PROVE  IndexInv'
PROOF
<1>1. vectors' \subseteq Records /\ billed' \in [Records -> Nat] BY DEF IndexInv, IndexTypeOK
<1>2. /\ IndexTypeOK' /\ client'[c] = j /\ \A d \in Clients : d # c => client'[d] = client[d]
  BY <1>1, ClientTypes DEF IndexInv
<1>3. LockInv' BY <1>2, LockStep DEF IndexInv
<1>4. BillInv' BY <1>2, BillStep DEF IndexInv
<1> QED BY <1>2, <1>3, <1>4 DEF IndexInv

\* One that makes no call either.
LEMMA GoStep ==
  ASSUME IndexInv, NEW c \in Clients, NEW j \in ClientJobs, Go(c, j),
         UNCHANGED <<today, providerCalls, vectors, billed, deaths>>,
         \A d \in Clients : d # c /\ mutex = d => mutex' = d,
         j \in Reservations => j.since <= today, j \in PaidCalls => j.id \in DOMAIN providerCalls,
         j.at # "cache",
         WorksOn(j) => mutex' = c, j.at \in {"reserve", "embed"} => j.for \notin vectors,
         client[c].at \notin {"success", "cache"}
  PROVE  IndexInv'
PROOF
<1>1. client' = [client EXCEPT ![c] = j] BY DEF Go
<1>2. providerCalls' \in Seq(CallRows) BY DEF IndexInv, IndexTypeOK
<1>3. BudgetInv' BY DEF IndexInv, BudgetInv, OnDay, Made
<1> QED BY <1>1, <1>2, <1>3, CallStep

LEMMA FreeFacts ==
  /\ Free \in ClientJobs /\ Free.at = "free" /\ Free \notin Reservations /\ Free \notin PaidCalls
  /\ ~WorksOn(Free)
PROOF
<1>1. Free \in ClientJobs BY DEF ClientJobs
<1>2. Free.at = "free" /\ Free \notin Reservations /\ Free \notin PaidCalls /\ Free \notin Batches
  BY DEF Free, Reservations, PaidCalls, Batches
<1> QED BY <1>1, <1>2 DEF WorksOn

LEMMA BatchFacts ==
  ASSUME NEW p \in {"lock", "next", "upsert"}, NEW s \in SUBSET Records, NEW j, j = [at |-> p, todo |-> s]
  PROVE  /\ j \in ClientJobs /\ j \in Batches /\ j.at = p /\ j.todo = s
         /\ j \notin Reservations /\ j \notin PaidCalls
         /\ WorksOn(j) => p # "lock"
PROOF
<1>1. j \in Batches /\ j.at = p /\ j.todo = s BY DEF Batches
<1>2. j \in ClientJobs BY <1>1 DEF ClientJobs
<1>3. j \notin Reservations /\ j \notin PaidCalls BY <1>1 DEF Reservations, PaidCalls
<1> QED BY <1>1, <1>2, <1>3 DEF WorksOn

LEMMA ReindexApi_Inv ==
  ASSUME IndexInv, NEW c \in Clients, NEW s \in SUBSET Records, ReindexApi(c, s)
  PROVE  IndexInv'
PROOF
<1>1. /\ client[c] = Free /\ Go(c, [at |-> "lock", todo |-> s])
      /\ UNCHANGED <<today, providerCalls, vectors, mutex, billed, deaths>>
  BY DEF ReindexApi
<1>2. PICK j : j = [at |-> "lock", todo |-> s] OBVIOUS
<1>3. /\ j \in ClientJobs /\ j.at = "lock" /\ j \notin Reservations /\ j \notin PaidCalls /\ ~WorksOn(j)
  BY <1>2, BatchFacts
<1>4. client[c].at \notin {"success", "cache"} BY <1>1, FreeFacts
<1> QED BY <1>1, <1>2, <1>3, <1>4, GoStep

LEMMA Enter_Inv == ASSUME IndexInv, NEW c \in Clients, Enter(c) PROVE IndexInv'
PROOF
<1>1. /\ client[c].at = "lock" /\ mutex = NoClient /\ mutex' = c
      /\ Go(c, [at |-> "next", todo |-> client[c].todo])
      /\ UNCHANGED <<today, providerCalls, vectors, billed, deaths>>
  BY DEF Enter, Acquire
<1>2. PICK s \in SUBSET Records : s = client[c].todo
  BY <1>1, ClientIs, ClientCases DEF Batches, IndexInv
<1>3. PICK j : j = [at |-> "next", todo |-> s] OBVIOUS
<1>4. /\ j \in ClientJobs /\ j.at = "next" /\ j \notin Reservations /\ j \notin PaidCalls
  BY <1>3, BatchFacts
<1>5. \A d \in Clients : mutex # d BY <1>1, IndexAssumption
<1> QED BY <1>1, <1>2, <1>3, <1>4, <1>5, GoStep

LEMMA NoCollection_Inv == ASSUME IndexInv, NEW c \in Clients, NoCollection(c) PROVE IndexInv'
PROOF
<1>1. /\ client[c].at = "lock" /\ Go(c, Free)
      /\ UNCHANGED <<today, providerCalls, vectors, mutex, billed, deaths>>
  BY DEF NoCollection
<1> QED BY <1>1, FreeFacts, GoStep

LEMMA NextRecord_Inv == ASSUME IndexInv, NEW c \in Clients, NextRecord(c) PROVE IndexInv'
PROOF
<1>1. /\ client[c].at = "next" /\ UNCHANGED <<today, providerCalls, vectors, billed, deaths>>
  BY DEF NextRecord
<1>2. client[c] \in Batches BY <1>1, ClientIs, ClientCases DEF IndexInv
<1>3. PICK s \in SUBSET Records : s = client[c].todo BY <1>2 DEF Batches
<1>4. mutex = c BY <1>1, <1>2 DEF IndexInv, LockInv, Indexes
<1>5. CASE Leave(c)
  <2>1. Go(c, Free) /\ mutex' = NoClient BY <1>4, <1>5 DEF Leave, Release
  <2> QED BY <1>1, <1>4, <2>1, FreeFacts, GoStep
<1>6. CASE \E r \in s :
             /\ Go(c, IF r \in vectors THEN [at |-> "upsert", todo |-> s \ {r}]
                      ELSE [at |-> "reserve", for |-> r, todo |-> s \ {r},
                            provider |-> "embedding", since |-> today])
             /\ UNCHANGED mutex
  <2>1. PICK r \in s :
             /\ Go(c, IF r \in vectors THEN [at |-> "upsert", todo |-> s \ {r}]
                      ELSE [at |-> "reserve", for |-> r, todo |-> s \ {r},
                            provider |-> "embedding", since |-> today])
             /\ UNCHANGED mutex
    BY <1>6
  <2>2. CASE r \in vectors
    <3>1. PICK j : j = [at |-> "upsert", todo |-> s \ {r}] OBVIOUS
    <3>2. j \in ClientJobs /\ j.at = "upsert" /\ j \notin Reservations /\ j \notin PaidCalls
      BY <3>1, BatchFacts
    <3>3. Go(c, j) BY <2>1, <2>2, <3>1
    <3> QED BY <1>1, <1>4, <2>1, <3>2, <3>3, GoStep
  <2>3. CASE r \notin vectors
    <3>1. PICK j : j = [at |-> "reserve", for |-> r, todo |-> s \ {r},
                        provider |-> "embedding", since |-> today]
      OBVIOUS
    <3>2. today \in Nat BY DEF IndexInv, IndexTypeOK
    <3>3. j \in Reservations /\ j.for = r /\ j.since = today /\ j.at = "reserve"
      BY <3>1, <3>2 DEF Reservations, Providers
    <3>4. j \in ClientJobs /\ j \notin PaidCalls BY <3>3 DEF ClientJobs, PaidCalls
    <3>5. Go(c, j) BY <2>1, <2>3, <3>1
    <3>6. j.since <= today BY <3>2, <3>3
    <3> QED BY <1>1, <1>4, <2>1, <2>3, <3>3, <3>4, <3>5, <3>6, GoStep
  <2> QED BY <2>2, <2>3
<1> QED BY <1>3, <1>5, <1>6 DEF NextRecord

LEMMA Search_Inv == ASSUME IndexInv, NEW c \in Clients, NEW p \in Providers, Search(c, p) PROVE IndexInv'
PROOF
<1>1. /\ client[c] = Free
      /\ Go(c, [at |-> "reserve", for |-> 0, todo |-> {}, provider |-> p, since |-> today])
      /\ UNCHANGED <<today, providerCalls, vectors, mutex, billed, deaths>>
  BY DEF Search
<1>2. PICK j : j = [at |-> "reserve", for |-> 0, todo |-> {}, provider |-> p, since |-> today] OBVIOUS
<1>3. today \in Nat BY DEF IndexInv, IndexTypeOK
<1>4. j \in Reservations /\ j.for = 0 /\ j.since = today /\ j.at = "reserve"
  BY <1>2, <1>3 DEF Reservations
<1>5. j \in ClientJobs /\ j \notin PaidCalls /\ j \notin Batches /\ ~WorksOn(j)
  BY <1>4 DEF ClientJobs, PaidCalls, Batches, WorksOn
<1>6. 0 \notin vectors BY IndexAssumption DEF IndexInv, IndexTypeOK
<1>7. j.since <= today BY <1>3, <1>4
<1>8. client[c].at \notin {"success", "cache"} BY <1>1, FreeFacts
<1> QED BY <1>1, <1>2, <1>4, <1>5, <1>6, <1>7, <1>8, GoStep

\* The thread goes on with the same call.
LEMMA PaidFacts ==
  ASSUME IndexInv, NEW c \in Clients, NEW j, NEW a \in {"success", "failed", "cache"},
         client[c].at \in {"embed", "success", "failed", "cache"}, j = [client[c] EXCEPT !.at = a]
  PROVE  /\ client[c] \in PaidCalls /\ client[c].id \in DOMAIN providerCalls
         /\ j \in ClientJobs /\ j \in PaidCalls /\ j \notin Reservations /\ j \notin Batches
         /\ j.at = a /\ j.for = client[c].for /\ j.id = client[c].id
         /\ WorksOn(j) => mutex = c /\ client[c].for \in Records
PROOF
<1>1. client[c] \in PaidCalls BY ClientIs, ClientCases DEF IndexInv
<1>2. client[c].id \in DOMAIN providerCalls BY <1>1 DEF IndexInv, IndexTypeOK
<1>3. PICK o \in PaidCalls : o = client[c] BY <1>1
<1>4. j = [o EXCEPT !.at = a] BY <1>3
<1>5. j \in PaidCalls BY <1>4 DEF PaidCalls
<1>6. j.at = a /\ j.for = o.for /\ j.id = o.id BY <1>4 DEF PaidCalls
<1>7. j \in ClientJobs /\ j \notin Reservations /\ j \notin Batches
  BY <1>5 DEF ClientJobs, PaidCalls, Reservations, Batches
<1>8. ASSUME WorksOn(j) PROVE mutex = c /\ client[c].for \in Records
  <2>1. client[c].for # 0 BY <1>3, <1>6, <1>7, <1>8 DEF WorksOn
  <2>2. mutex = c BY <1>1, <2>1 DEF IndexInv, LockInv, Indexes
  <2> QED BY <1>1, <2>1, <2>2 DEF PaidCalls
<1> QED BY <1>1, <1>2, <1>3, <1>5, <1>6, <1>7, <1>8

LEMMA EmbedFails_Inv == ASSUME IndexInv, NEW c \in Clients, EmbedFails(c) PROVE IndexInv'
PROOF
<1>1. /\ client[c].at = "embed" /\ client' = [client EXCEPT ![c].at = "failed"]
      /\ UNCHANGED <<today, providerCalls, vectors, mutex, billed, deaths>>
  BY DEF EmbedFails
<1>2. PICK j : j = [client[c] EXCEPT !.at = "failed"] OBVIOUS
<1>3. Go(c, j) BY <1>1, <1>2 DEF Go
<1>4. /\ j \in ClientJobs /\ j \notin Reservations /\ j.at = "failed" /\ j.id \in DOMAIN providerCalls
      /\ WorksOn(j) => mutex = c
  BY <1>1, <1>2, PaidFacts
<1> QED BY <1>1, <1>3, <1>4, GoStep

LEMMA UpsertVector_Inv == ASSUME IndexInv, NEW c \in Clients, UpsertVector(c) PROVE IndexInv'
PROOF
<1>1. /\ client[c].at = "upsert" /\ Go(c, [at |-> "next", todo |-> client[c].todo])
      /\ UNCHANGED <<today, providerCalls, vectors, mutex, billed, deaths>>
  BY DEF UpsertVector
<1>2. client[c] \in Batches BY <1>1, ClientIs, ClientCases DEF IndexInv
<1>3. PICK s \in SUBSET Records : s = client[c].todo BY <1>2 DEF Batches
<1>4. mutex = c BY <1>1, <1>2 DEF IndexInv, LockInv, Indexes
<1>5. PICK j : j = [at |-> "next", todo |-> s] OBVIOUS
<1>6. j \in ClientJobs /\ j.at = "next" /\ j \notin Reservations /\ j \notin PaidCalls BY <1>5, BatchFacts
<1> QED BY <1>1, <1>3, <1>4, <1>5, <1>6, GoStep

\* A row of the table more.
LEMMA AppendOnDay ==
  ASSUME providerCalls \in Seq(CallRows), NEW row \in CallRows, providerCalls' = Append(providerCalls, row),
         NEW d \in Nat, NEW p \in Providers
  PROVE  /\ ~(row.day = d /\ row.provider = p /\ row.outcome # "budget_denied") => OnDay(p, d)' = OnDay(p, d)
         /\ OnDay(p, d)' \subseteq OnDay(p, d) \union {Len(providerCalls) + 1}
PROOF
<1>1. /\ DOMAIN providerCalls = 1..Len(providerCalls) /\ Len(providerCalls) \in Nat
      /\ DOMAIN providerCalls' = 1..(Len(providerCalls) + 1)
      /\ \A i \in DOMAIN providerCalls : providerCalls'[i] = providerCalls[i]
      /\ providerCalls'[Len(providerCalls) + 1] = row
  OBVIOUS
<1>2. ASSUME NEW i \in DOMAIN providerCalls
      PROVE  i \in DOMAIN providerCalls' /\ (i \in OnDay(p, d)' <=> i \in OnDay(p, d))
  BY <1>1 DEF OnDay, Made
<1>3. \A i : i \in OnDay(p, d) => i \in DOMAIN providerCalls BY DEF OnDay, Made
<1>4. \A i : i \in OnDay(p, d)' => i \in DOMAIN providerCalls \/ i = Len(providerCalls) + 1
  BY <1>1 DEF OnDay, Made
<1>5. OnDay(p, d)' \subseteq OnDay(p, d) \union {Len(providerCalls) + 1} BY <1>2, <1>4
<1>6. ASSUME ~(row.day = d /\ row.provider = p /\ row.outcome # "budget_denied")
      PROVE  Len(providerCalls) + 1 \notin OnDay(p, d)'
  BY <1>1, <1>6 DEF OnDay, Made
<1> QED BY <1>2, <1>3, <1>4, <1>5, <1>6

\* The calls of one day, and those that the thread counts, are finitely many.
LEMMA CallsCounted ==
  ASSUME providerCalls \in Seq(CallRows), NEW e \in Nat, NEW d \in Nat, e <= d, NEW p \in Providers
  PROVE  /\ IsFiniteSet(OnDay(p, d)) /\ Cardinality(OnDay(p, d)) \in Nat /\ Used(p, e) \in Nat
         /\ Cardinality(OnDay(p, d)) <= Used(p, e)
PROOF
<1>1. IsFiniteSet(DOMAIN providerCalls)
  <2>1. DOMAIN providerCalls = 1..Len(providerCalls) /\ Len(providerCalls) \in Nat OBVIOUS
  <2> QED BY <2>1, FS_Interval
<1>2. Made(p, e) \subseteq DOMAIN providerCalls BY DEF Made
<1>3. OnDay(p, d) \subseteq Made(p, e)
  <2>1. ASSUME NEW i \in OnDay(p, d) PROVE i \in Made(p, e)
    <3>1. i \in DOMAIN providerCalls /\ providerCalls[i].provider = p /\ providerCalls[i].day = d
          /\ providerCalls[i].outcome # "budget_denied"
      BY <2>1 DEF OnDay, Made
    <3>2. providerCalls[i].day >= e BY <3>1
    <3> QED BY <3>1, <3>2 DEF Made
  <2> QED BY <2>1
<1>4. IsFiniteSet(Made(p, e)) BY <1>1, <1>2, FS_Subset
<1>5. IsFiniteSet(OnDay(p, d)) /\ Cardinality(OnDay(p, d)) <= Cardinality(Made(p, e))
  BY <1>3, <1>4, FS_Subset
<1> QED BY <1>4, <1>5, FS_CardinalityType DEF Used

\* A call is granted when those counted since the thread read the clock are fewer
\* than the budget, and the calls of today are among them.
LEMMA ReserveBudget ==
  ASSUME IndexInv, NEW q \in Providers, NEW e \in Nat, e <= today, NEW row \in CallRows,
         row.day = today, row.provider = q, row.outcome # "budget_denied" => Used(q, e) < Budget,
         providerCalls' = Append(providerCalls, row)
  PROVE  BudgetInv'
PROOF
<1>1. providerCalls \in Seq(CallRows) /\ today \in Nat BY DEF IndexInv, IndexTypeOK
<1>2. ASSUME NEW d \in Nat, NEW p \in Providers PROVE Cardinality(OnDay(p, d)') <= Budget
  <2>1. Cardinality(OnDay(p, d)) <= Budget BY DEF IndexInv, BudgetInv
  <2>2. CASE ~(row.day = d /\ row.provider = p /\ row.outcome # "budget_denied")
    <3>1. OnDay(p, d)' = OnDay(p, d) BY <1>1, <2>2, AppendOnDay
    <3> QED BY <2>1, <3>1
  <2>3. CASE row.day = d /\ row.provider = p /\ row.outcome # "budget_denied"
    <3>1. d = today /\ p = q BY <2>3
    <3>2. /\ IsFiniteSet(OnDay(p, d)) /\ Cardinality(OnDay(p, d)) \in Nat /\ Used(p, e) \in Nat
          /\ Cardinality(OnDay(p, d)) <= Used(p, e)
      BY <1>1, <3>1, CallsCounted
    <3>3. Used(p, e) < Budget BY <2>3, <3>1
    <3>4. PICK S : S = OnDay(p, d) OBVIOUS
    <3>5. PICK n : n = Len(providerCalls) + 1 OBVIOUS
    <3>6. /\ IsFiniteSet(S \union {n}) /\ Cardinality(S \union {n}) <= Cardinality(S) + 1
      <4>1. IsFiniteSet(S) /\ Cardinality(S) \in Nat BY <3>2, <3>4
      <4>2. /\ IsFiniteSet(S \union {n})
            /\ \/ Cardinality(S \union {n}) = Cardinality(S)
               \/ Cardinality(S \union {n}) = Cardinality(S) + 1
        BY <4>1, FS_AddElement
      <4> QED BY <4>1, <4>2
    <3>7. OnDay(p, d)' \subseteq S \union {n} BY <1>1, <3>4, <3>5, AppendOnDay
    <3>8. Cardinality(OnDay(p, d)') <= Cardinality(S \union {n})
          /\ Cardinality(OnDay(p, d)') \in Nat /\ Cardinality(S \union {n}) \in Nat
      BY <3>6, <3>7, FS_Subset, FS_CardinalityType
    <3> QED BY <3>2, <3>3, <3>4, <3>6, <3>8, IndexAssumption
  <2> QED BY <2>2, <2>3
<1> QED BY <1>2 DEF BudgetInv

LEMMA Reserve_Inv == ASSUME IndexInv, NEW c \in Clients, Reserve(c) PROVE IndexInv'
PROOF
<1>1. client[c].at = "reserve" /\ UNCHANGED <<today, vectors, billed, deaths>> BY DEF Reserve
<1>2. client[c] \in Reservations BY <1>1, ClientIs, ClientCases DEF IndexInv
<1>3. PICK w \in Reservations : w = client[c] BY <1>2
<1>4. PICK q \in Providers : q = w.provider BY DEF Reservations
<1>5. PICK e \in Nat : e = w.since BY DEF Reservations
<1>6. e <= today BY <1>2, <1>3, <1>5 DEF IndexInv, IndexTypeOK
<1>7. PICK g \in BOOLEAN : g = (Budget > 0 /\ Used(q, e) < Budget) OBVIOUS
<1>8. PICK row : row = [day |-> today, provider |-> q, outcome |-> IF g THEN "reserved" ELSE "budget_denied"]
  OBVIOUS
<1>9. /\ providerCalls' = Append(providerCalls, row)
      /\ g => /\ Go(c, [at |-> "embed", for |-> w.for, todo |-> w.todo, id |-> Len(providerCalls')])
              /\ UNCHANGED mutex
      /\ ~g => Leave(c)
  BY <1>3, <1>4, <1>5, <1>7, <1>8 DEF Reserve
<1>10. providerCalls \in Seq(CallRows) /\ today \in Nat BY DEF IndexInv, IndexTypeOK
<1>11. row \in CallRows BY <1>8, <1>10 DEF CallRows
<1>12. row.day = today /\ row.provider = q /\ (row.outcome # "budget_denied" => g) BY <1>8
<1>13. BudgetInv' BY <1>6, <1>7, <1>9, <1>11, <1>12, ReserveBudget
<1>14. /\ providerCalls' \in Seq(CallRows) /\ DOMAIN providerCalls \subseteq DOMAIN providerCalls'
       /\ Len(providerCalls') \in DOMAIN providerCalls' /\ Len(providerCalls') \in Nat
  BY <1>9, <1>10, <1>11
<1>15. /\ w.for \in Records \union {0} /\ w.todo \in SUBSET Records /\ w.for \notin vectors
       /\ w.for # 0 => mutex = c
  <2>1. w.for \in Records \union {0} /\ w.todo \in SUBSET Records BY DEF Reservations
  <2>2. w.for \notin vectors BY <1>1, <1>3 DEF IndexInv, LockInv
  <2>3. w.for # 0 => mutex = c BY <1>2, <1>3 DEF IndexInv, LockInv, Indexes
  <2> QED BY <2>1, <2>2, <2>3
<1>16. CASE g
  <2>1. PICK n \in Nat : n = Len(providerCalls') BY <1>14
  <2>2. PICK j : j = [at |-> "embed", for |-> w.for, todo |-> w.todo, id |-> n] OBVIOUS
  <2>3. j \in PaidCalls /\ j.at = "embed" /\ j.for = w.for /\ j.id = n BY <1>15, <2>2 DEF PaidCalls
  <2>4. j \in ClientJobs /\ j \notin Reservations /\ j \notin Batches
    BY <2>3 DEF ClientJobs, Reservations, Batches
  <2>5. client' = [client EXCEPT ![c] = j] /\ mutex' = mutex BY <1>9, <1>16, <2>1, <2>2 DEF Go
  <2>6. WorksOn(j) => mutex' = c BY <1>15, <2>3, <2>4, <2>5 DEF WorksOn
  <2> QED BY <1>1, <1>13, <1>14, <1>15, <2>1, <2>3, <2>4, <2>5, <2>6, CallStep
<1>17. CASE ~g
  <2>1. client' = [client EXCEPT ![c] = Free] BY <1>9, <1>17 DEF Leave, Go
  <2>2. \A d \in Clients : d # c /\ mutex = d => mutex' = d BY <1>9, <1>17 DEF Leave, Release
  <2> QED BY <1>1, <1>13, <1>14, <2>1, <2>2, FreeFacts, CallStep
<1> QED BY <1>16, <1>17

\* Only the thread that holds the lock asks for the vector of a memory.
LEMMA Embed_Inv == ASSUME IndexInv, NEW c \in Clients, Embed(c) PROVE IndexInv'
PROOF
<1>1. /\ client[c].at = "embed" /\ client' = [client EXCEPT ![c].at = "success"]
      /\ UNCHANGED <<today, providerCalls, vectors, mutex, deaths>>
      /\ billed' = [r \in Records |-> IF r = client[c].for THEN billed[r] + 1 ELSE billed[r]]
  BY DEF Embed
<1>2. PICK j : j = [client[c] EXCEPT !.at = "success"] OBVIOUS
<1>3. /\ client[c] \in PaidCalls /\ j \in ClientJobs /\ j \notin Reservations /\ j.at = "success"
      /\ j.id \in DOMAIN providerCalls /\ j.for = client[c].for
      /\ WorksOn(j) => mutex = c
  BY <1>1, <1>2, PaidFacts
<1>4. client' = [client EXCEPT ![c] = j] BY <1>1, <1>2
<1>5. /\ billed \in [Records -> Nat] /\ vectors \subseteq Records /\ providerCalls \in Seq(CallRows)
      /\ deaths \in Nat
  BY DEF IndexInv, IndexTypeOK
<1>6. billed' \in [Records -> Nat] BY <1>1, <1>5
<1>7. /\ IndexTypeOK' /\ client'[c] = j /\ \A d \in Clients : d # c => client'[d] = client[d]
  BY <1>1, <1>3, <1>4, <1>5, <1>6, ClientTypes DEF IndexInv
<1>8. LockInv' BY <1>1, <1>3, <1>7, LockStep DEF IndexInv
<1>9. ASSUME NEW r \in Records
      PROVE  /\ billed'[r] <= 1 + deaths
             /\ r \notin vectors /\ ~InHand(r)' => billed'[r] <= deaths
  <2>1. CASE r = client[c].for
    <3>1. r \notin vectors BY <1>1, <2>1 DEF IndexInv, LockInv
    <3>2. client[c].for # 0 BY <2>1, IndexAssumption
    <3>3. mutex = c BY <1>3, <3>2 DEF IndexInv, LockInv, Indexes
    <3>4. ~InHand(r)
      <4>1. SUFFICES ASSUME NEW d \in Clients, client[d].at \in {"success", "cache"}, client[d].for = r
                     PROVE  FALSE
        BY DEF InHand
      <4>2. client[d] \in PaidCalls BY <4>1, ClientIs, ClientCases DEF IndexInv
      <4>3. mutex = d BY <2>1, <3>2, <4>1, <4>2 DEF IndexInv, LockInv, Indexes
      <4> QED BY <1>1, <3>3, <4>1, <4>3
    <3>5. billed[r] <= deaths BY <3>1, <3>4 DEF IndexInv, BillInv
    <3>6. billed'[r] = billed[r] + 1 /\ billed[r] \in Nat BY <1>1, <1>5, <2>1
    <3>7. InHand(r)' BY <1>3, <1>7, <2>1 DEF InHand
    <3> QED BY <1>5, <3>5, <3>6, <3>7
  <2>2. CASE r # client[c].for
    <3>1. billed'[r] = billed[r] BY <1>1, <2>2
    <3>2. ASSUME InHand(r) PROVE InHand(r)'
      <4>1. PICK d \in Clients : client[d].at \in {"success", "cache"} /\ client[d].for = r
        BY <3>2 DEF InHand
      <4>2. d # c BY <2>2, <4>1
      <4>3. client'[d] = client[d] BY <1>7, <4>2
      <4> QED BY <4>1, <4>3 DEF InHand
    <3> QED BY <3>1, <3>2 DEF IndexInv, BillInv
  <2> QED BY <2>1, <2>2
<1>10. BillInv' BY <1>1, <1>9 DEF BillInv
<1>11. BudgetInv' BY <1>1 DEF IndexInv, BudgetInv, OnDay, Made
<1> QED BY <1>7, <1>8, <1>10, <1>11 DEF IndexInv

\* A settled call counts as it did.
LEMMA SettledCounts ==
  ASSUME IndexInv, NEW n \in DOMAIN providerCalls, NEW o \in {"success", "failed"},
         providerCalls[n].outcome = "reserved",
         providerCalls' = [providerCalls EXCEPT ![n].outcome = o]
  PROVE  /\ BudgetInv' /\ providerCalls' \in Seq(CallRows) /\ DOMAIN providerCalls' = DOMAIN providerCalls
PROOF
<1>1. providerCalls \in Seq(CallRows) BY DEF IndexInv, IndexTypeOK
<1>2. PICK x \in CallRows : x = providerCalls[n] BY <1>1
<1>3. PICK y : y = [x EXCEPT !.outcome = o] OBVIOUS
<1>4. y \in CallRows BY <1>3 DEF CallRows
<1>5. y.day = x.day /\ y.provider = x.provider /\ y.outcome = o BY <1>3 DEF CallRows
<1>6. providerCalls' = [providerCalls EXCEPT ![n] = y] BY <1>2, <1>3
<1>7. /\ providerCalls' \in Seq(CallRows) /\ DOMAIN providerCalls' = DOMAIN providerCalls
      /\ providerCalls'[n] = y
      /\ \A i \in DOMAIN providerCalls : i # n => providerCalls'[i] = providerCalls[i]
  BY <1>1, <1>4, <1>6
<1>8. ASSUME NEW i \in DOMAIN providerCalls
      PROVE  /\ providerCalls'[i].day = providerCalls[i].day
             /\ providerCalls'[i].provider = providerCalls[i].provider
             /\ providerCalls'[i].outcome # "budget_denied" <=> providerCalls[i].outcome # "budget_denied"
  <2>1. CASE i = n BY <1>2, <1>5, <1>7, <2>1
  <2>2. CASE i # n BY <1>7, <2>2
  <2> QED BY <2>1, <2>2
<1>9. \A d \in Nat, p \in Providers : OnDay(p, d)' = OnDay(p, d) BY <1>7, <1>8 DEF OnDay, Made
<1>10. BudgetInv' BY <1>9 DEF IndexInv, BudgetInv
<1> QED BY <1>7, <1>10

LEMMA Complete_Inv == ASSUME IndexInv, NEW c \in Clients, Complete(c) PROVE IndexInv'
PROOF
<1>1. client[c].at \in {"success", "failed"} /\ UNCHANGED <<today, vectors, mutex, billed, deaths>>
  BY DEF Complete
<1>2. client[c] \in PaidCalls /\ client[c].id \in DOMAIN providerCalls
  BY <1>1, PaidFacts
<1>3. PICK n \in DOMAIN providerCalls : n = client[c].id BY <1>2
<1>4. PICK o \in {"success", "failed"} : o = client[c].at BY <1>1
<1>5. providerCalls[n].outcome = "reserved" /\ providerCalls' = [providerCalls EXCEPT ![n].outcome = o]
  BY <1>3, <1>4 DEF Complete
<1>6. BudgetInv' /\ providerCalls' \in Seq(CallRows) /\ DOMAIN providerCalls' = DOMAIN providerCalls
  BY <1>5, SettledCounts
<1>7. CASE client[c].for = 0 /\ Go(c, Free)
  <2>1. client' = [client EXCEPT ![c] = Free] BY <1>7 DEF Go
  <2>2. client[c].for \notin Records BY <1>7, IndexAssumption
  <2> QED BY <1>1, <1>6, <2>1, <2>2, FreeFacts, CallStep
<1>8. CASE /\ client[c].for # 0 /\ client[c].at = "success"
           /\ client' = [client EXCEPT ![c].at = "cache"]
  <2>1. PICK j : j = [client[c] EXCEPT !.at = "cache"] OBVIOUS
  <2>2. /\ j \in ClientJobs /\ j \notin Reservations /\ j.at = "cache" /\ j.id \in DOMAIN providerCalls
        /\ j.for = client[c].for
        /\ WorksOn(j) => mutex = c
    BY <1>1, <2>1, PaidFacts
  <2>3. client' = [client EXCEPT ![c] = j] BY <1>8, <2>1
  <2> QED BY <1>1, <1>6, <1>8, <2>2, <2>3, CallStep
<1>9. CASE /\ client[c].for # 0 /\ client[c].at = "failed"
           /\ Go(c, [at |-> "next", todo |-> client[c].todo])
  <2>1. PICK s \in SUBSET Records : s = client[c].todo BY <1>2 DEF PaidCalls
  <2>2. mutex = c BY <1>2, <1>9 DEF IndexInv, LockInv, Indexes
  <2>3. PICK j : j = [at |-> "next", todo |-> s] OBVIOUS
  <2>4. j \in ClientJobs /\ j.at = "next" /\ j \notin Reservations /\ j \notin PaidCalls BY <2>3, BatchFacts
  <2>5. client' = [client EXCEPT ![c] = j] BY <1>9, <2>1, <2>3 DEF Go
  <2> QED BY <1>1, <1>6, <1>9, <2>2, <2>4, <2>5, CallStep
<1> QED BY <1>7, <1>8, <1>9 DEF Complete

\* The lock keeps every other thread from asking for the vector that is stored.
LEMMA Cache_Inv == ASSUME IndexInv, NEW c \in Clients, Cache(c) PROVE IndexInv'
PROOF
<1>1. /\ client[c].at = "cache" /\ vectors' = vectors \union {client[c].for}
      /\ Go(c, [at |-> "upsert", todo |-> client[c].todo])
      /\ UNCHANGED <<today, providerCalls, mutex, billed, deaths>>
  BY DEF Cache
<1>2. client[c] \in PaidCalls BY <1>1, ClientIs, ClientCases DEF IndexInv
<1>3. client[c].for # 0 BY <1>1 DEF IndexInv, IndexTypeOK
<1>4. PICK r \in Records : r = client[c].for BY <1>2, <1>3 DEF PaidCalls
<1>5. mutex = c BY <1>2, <1>3 DEF IndexInv, LockInv, Indexes
<1>6. PICK s \in SUBSET Records : s = client[c].todo BY <1>2 DEF PaidCalls
<1>7. PICK j : j = [at |-> "upsert", todo |-> s] OBVIOUS
<1>8. j \in ClientJobs /\ j.at = "upsert" /\ j \notin Reservations /\ j \notin PaidCalls
  BY <1>7, BatchFacts
<1>9. client' = [client EXCEPT ![c] = j] BY <1>1, <1>6, <1>7 DEF Go
<1>10. /\ vectors' \subseteq Records /\ providerCalls' \in Seq(CallRows) /\ billed' \in [Records -> Nat]
  BY <1>1, <1>4 DEF IndexInv, IndexTypeOK
<1>11. /\ IndexTypeOK' /\ client'[c] = j /\ \A d \in Clients : d # c => client'[d] = client[d]
  BY <1>1, <1>8, <1>9, <1>10, ClientTypes DEF IndexInv
<1>12. ASSUME NEW d \in Clients
       PROVE  /\ Indexes(d)' => mutex' = d
              /\ client'[d].at \in {"reserve", "embed"} => client'[d].for \notin vectors'
  <2>1. CASE d = c BY <1>1, <1>5, <1>8, <1>11, <2>1
  <2>2. CASE d # c
    <3>1. client'[d] = client[d] BY <1>11, <2>2
    <3>2. Indexes(d)' => mutex' = d BY <1>1, <3>1 DEF IndexInv, LockInv, Indexes
    <3>3. ASSUME client[d].at \in {"reserve", "embed"} PROVE client[d].for \notin vectors'
      <4>1. client[d] \in Reservations \union PaidCalls BY <3>3, ClientIs, ClientCases DEF IndexInv
      <4>2. client[d].for # 0 => mutex = d BY <4>1 DEF IndexInv, LockInv, Indexes
      <4>3. client[d].for # client[c].for BY <1>3, <1>5, <2>2, <4>2
      <4>4. client[d].for \notin vectors BY <3>3 DEF IndexInv, LockInv
      <4> QED BY <1>1, <4>3, <4>4
    <3> QED BY <3>1, <3>2, <3>3
  <2> QED BY <2>1, <2>2
<1>13. LockInv' BY <1>12 DEF LockInv
<1>14. ASSUME NEW v \in Records, v \notin vectors', ~InHand(v)' PROVE v \notin vectors /\ ~InHand(v)
  <2>1. v \notin vectors /\ v # client[c].for BY <1>1, <1>14
  <2>2. ASSUME InHand(v) PROVE FALSE
    <3>1. PICK d \in Clients : client[d].at \in {"success", "cache"} /\ client[d].for = v
      BY <2>2 DEF InHand
    <3>2. client'[d] = client[d] BY <1>11, <2>1, <3>1
    <3> QED BY <1>14, <3>1, <3>2 DEF InHand
  <2> QED BY <2>1, <2>2
<1>15. BillInv' BY <1>1, <1>14 DEF IndexInv, BillInv
<1>16. BudgetInv' BY <1>1 DEF IndexInv, BudgetInv, OnDay, Made
<1> QED BY <1>11, <1>13, <1>15, <1>16 DEF IndexInv

LEMMA Midnight_Inv == ASSUME IndexInv, Midnight PROVE IndexInv'
PROOF
<1>1. /\ today' = today + 1
      /\ UNCHANGED <<providerCalls, vectors, mutex, client, billed, deaths>>
  BY DEF Midnight
<1>2. ASSUME NEW c \in Clients, client[c] \in Reservations PROVE client[c].since <= today'
  <2>1. client[c].since \in Nat BY <1>2 DEF Reservations
  <2>2. client[c].since <= today /\ today \in Nat BY <1>2 DEF IndexInv, IndexTypeOK
  <2> QED BY <1>1, <2>1, <2>2
<1>3. IndexTypeOK' BY <1>1, <1>2 DEF IndexInv, IndexTypeOK
<1>4. LockInv' BY <1>1 DEF IndexInv, LockInv, Indexes
<1>5. BillInv' BY <1>1 DEF IndexInv, BillInv, InHand
<1>6. BudgetInv' BY <1>1 DEF IndexInv, BudgetInv, OnDay, Made
<1> QED BY <1>3, <1>4, <1>5, <1>6 DEF IndexInv

LEMMA Die_Inv == ASSUME IndexInv, Die PROVE IndexInv'
PROOF
<1>1. /\ deaths' = deaths + 1 /\ client' = [c \in Clients |-> Free]
      /\ UNCHANGED <<today, providerCalls, vectors, billed>>
  BY DEF Die
<1>2. \A c \in Clients : client'[c] = Free BY <1>1
<1>3. IndexTypeOK' BY <1>1, <1>2, FreeFacts DEF IndexInv, IndexTypeOK
<1>4. LockInv'
  <2>1. \A c \in Clients : ~Indexes(c)' /\ client'[c].at \notin {"reserve", "embed"}
    BY <1>2, FreeFacts DEF Indexes, WorksOn
  <2> QED BY <2>1 DEF LockInv
<1>5. BillInv'
  <2>1. ASSUME NEW r \in Records PROVE billed[r] <= deaths + 1
    BY DEF IndexInv, BillInv, IndexTypeOK
  <2>2. ASSUME NEW r \in Records PROVE billed[r] <= 1 + deaths'
    <3>1. billed[r] \in Nat /\ deaths \in Nat BY DEF IndexInv, IndexTypeOK
    <3> QED BY <1>1, <2>1, <3>1
  <2> QED BY <1>1, <2>1, <2>2 DEF BillInv
<1>6. BudgetInv' BY <1>1 DEF IndexInv, BudgetInv, OnDay, Made
<1> QED BY <1>3, <1>4, <1>5, <1>6 DEF IndexInv

LEMMA IndexInit_Inv == IndexInit => IndexInv
PROOF
<1> SUFFICES ASSUME IndexInit PROVE IndexInv OBVIOUS
<1>1. /\ today = 0 /\ providerCalls = <<>> /\ vectors = {} /\ deaths = 0
      /\ client = [c \in Clients |-> Free] /\ billed = [r \in Records |-> 0]
  BY DEF IndexInit
<1>2. \A c \in Clients : client[c] = Free BY <1>1
<1>3. IndexTypeOK BY <1>1, <1>2, FreeFacts DEF IndexTypeOK
<1>4. LockInv
  <2>1. \A c \in Clients : ~Indexes(c) /\ client[c].at \notin {"reserve", "embed"}
    BY <1>2, FreeFacts DEF Indexes, WorksOn
  <2> QED BY <2>1 DEF LockInv
<1>5. BillInv
  <2>1. \A r \in Records : billed[r] = 0 BY <1>1
  <2> QED BY <1>1, <2>1 DEF BillInv
<1>6. BudgetInv
  <2>1. \A d \in Nat, p \in Providers : OnDay(p, d) = {} BY <1>1 DEF OnDay, Made
  <2>2. Cardinality({}) = 0 BY FS_EmptySet
  <2> QED BY <2>1, <2>2, IndexAssumption DEF BudgetInv
<1> QED BY <1>3, <1>4, <1>5, <1>6 DEF IndexInv

LEMMA IndexNext_Inv == IndexInv /\ [IndexNext]_indexVars => IndexInv'
PROOF
<1> SUFFICES ASSUME IndexInv, [IndexNext]_indexVars PROVE IndexInv' OBVIOUS
<1>1. ASSUME NEW c \in Clients, NEW b \in SUBSET Records \ {{}}, ReindexApi(c, b) PROVE IndexInv'
  BY <1>1, ReindexApi_Inv
<1>2. ASSUME NEW c \in Clients, NEW p \in Providers, Search(c, p) PROVE IndexInv' BY <1>2, Search_Inv
<1>3. ASSUME NEW c \in Clients, Enter(c) PROVE IndexInv' BY <1>3, Enter_Inv
<1>4. ASSUME NEW c \in Clients, NoCollection(c) PROVE IndexInv' BY <1>4, NoCollection_Inv
<1>5. ASSUME NEW c \in Clients, NextRecord(c) PROVE IndexInv' BY <1>5, NextRecord_Inv
<1>6. ASSUME NEW c \in Clients, Reserve(c) PROVE IndexInv' BY <1>6, Reserve_Inv
<1>7. ASSUME NEW c \in Clients, Embed(c) PROVE IndexInv' BY <1>7, Embed_Inv
<1>8. ASSUME NEW c \in Clients, EmbedFails(c) PROVE IndexInv' BY <1>8, EmbedFails_Inv
<1>9. ASSUME NEW c \in Clients, Complete(c) PROVE IndexInv' BY <1>9, Complete_Inv
<1>10. ASSUME NEW c \in Clients, Cache(c) PROVE IndexInv' BY <1>10, Cache_Inv
<1>11. ASSUME NEW c \in Clients, UpsertVector(c) PROVE IndexInv' BY <1>11, UpsertVector_Inv
<1>12. CASE UNCHANGED indexVars
  BY <1>12 DEF indexVars, IndexInv, IndexTypeOK, BudgetInv, OnDay, Made, LockInv, Indexes, BillInv, InHand
<1> QED BY <1>1, <1>2, <1>3, <1>4, <1>5, <1>6, <1>7, <1>8, <1>9, <1>10, <1>11, <1>12,
           Midnight_Inv, Die_Inv DEF IndexNext

\* The budget of a day and the lock of SemanticIndex: however many threads reserve,
\* call and settle side by side, over midnight and over the deaths of the service,
\* reserve_provider_call grants a provider no more calls on one day than its budget,
\* and no memory is paid for again while its vector is in a thread's hands or stored.
THEOREM PaidCallsAreBounded == IndexSpec => []PaidCallsHold
PROOF
<1>1. IndexInv => PaidCallsHold
  <2> SUFFICES ASSUME IndexInv PROVE PaidCallsHold OBVIOUS
  <2>1. \A d \in 0..today : d \in Nat BY DEF IndexInv, IndexTypeOK
  <2>2. DailyBudgetHolds BY <2>1 DEF IndexInv, BudgetInv, OnDay, DailyBudgetHolds
  <2>3. BilledOnce BY DEF IndexInv, BillInv, BilledOnce
  <2> QED BY <2>2, <2>3 DEF PaidCallsHold
<1> QED BY <1>1, IndexInit_Inv, IndexNext_Inv, PTL DEF IndexSpec

-----------------------------------------------------------------------------
(* THE COLLECTOR                                                           *)

SourceIds == {"record", "document", "mission", "action"} \X Nat
KeptRows == [of : SourceIds, private : BOOLEAN, prev : Nat, next : Nat]
Runs == [at : {"document", "history", "page", "mission", "actions"}, page : Seq(Int),
         failed : BOOLEAN, pages : Nat]

RowOf(s, i) == i \in DOMAIN kept /\ kept[i].of = s

CapturedInv == \A s \in DOMAIN captured : RowOf(s, captured[s])

\* The memory and the tables of the collector: a record has one current memory, a
\* private one or its copy; what the collector would replace is a version of the
\* same thing, as is what a captured source is noted with; and the copy of a
\* captured record is not replaced.
MemoInv ==
  /\ kept \in Seq(KeptRows) /\ known \in [Kinds -> [version : Nat, id : Nat]]
  /\ \A i, j \in DOMAIN kept :
       kept[i].of[1] = "record" /\ kept[i].of = kept[j].of /\ Current(i) /\ Current(j) => i = j
  /\ \A k \in Kinds : known[k].id # 0 => known[k].id \in DOMAIN kept /\ kept[known[k].id].of[1] = k
  /\ CapturedInv
  /\ \A s \in DOMAIN captured : s[1] = "record" => Same(s) # {}

\* Record n needs no capture any more.
Covered(n) == <<"record", n>> \in Private \/ <<"record", n>> \in DOMAIN captured

\* The page in hand begins after the cursor, and what is struck out of a page
\* without a failure is covered.
PageInv ==
  At("page") =>
    /\ cursor + Len(collector.page) <= source.records
    /\ \A i \in DOMAIN collector.page :
         \/ collector.page[i] = cursor + i
         \/ collector.page[i] = -(cursor + i) /\ (collector.failed \/ Covered(cursor + i))

Sources == [records : Nat, document : Nat, mission : Nat, changes : Nat]

RunInv ==
  /\ source \in Sources
  /\ cursor \in Nat /\ cursor <= source.records
  /\ collector \in Runs \union {Stopped}
  /\ \A n \in 1..cursor : Covered(n)
  /\ PageInv

SyncInv == MemoInv /\ RunInv

-----------------------------------------------------------------------------

\* What a capture replaces: nothing, the private memory of the record, or the
\* earlier version of the document or of the mission.
LEMMA ReplacesFacts ==
  ASSUME MemoInv, NEW s \in SourceIds, NEW b, b = Replaces(s)
  PROVE  /\ b # 0 => b \in DOMAIN kept
         /\ b # 0 => (kept[b].of[1] = "record" <=> s[1] = "record")
         /\ b # 0 /\ s[1] = "record" => kept[b].of = s /\ kept[b].private
         /\ b = 0 /\ s[1] = "record" => \A i \in DOMAIN kept : kept[i].of = s => ~kept[i].private
PROOF
<1>1. CASE s[1] \in Kinds
  <2>1. s[1] # "record" BY <1>1 DEF Kinds
  <2>2. b = known[s[1]].id BY <1>1, <2>1 DEF Replaces
  <2>3. b # 0 => b \in DOMAIN kept /\ kept[b].of[1] = s[1] BY <1>1, <2>2 DEF MemoInv
  <2> QED BY <2>1, <2>3
<1>2. CASE s[1] = "record"
  <2>1. s[1] \notin Kinds BY <1>2 DEF Kinds
  <2>2. PICK old : old = {i \in DOMAIN kept : kept[i].of = s /\ kept[i].private} OBVIOUS
  <2>3. b = IF old = {} THEN 0 ELSE CHOOSE i \in old : TRUE BY <1>2, <2>1, <2>2 DEF Replaces
  <2>4. CASE old = {}
    <3>1. b = 0 BY <2>3, <2>4
    <3>2. \A i \in DOMAIN kept : kept[i].of = s => ~kept[i].private BY <2>2, <2>4
    <3> QED BY <3>1, <3>2
  <2>5. CASE old # {}
    <3>1. b \in old BY <2>3, <2>5
    <3>2. b \in DOMAIN kept /\ kept[b].of = s /\ kept[b].private BY <2>2, <3>1
    <3>3. b # 0 BY <3>2 DEF MemoInv
    <3> QED BY <1>2, <3>2, <3>3
  <2> QED BY <2>4, <2>5
<1>3. CASE s[1] = "action"
  <2>1. s[1] \notin Kinds /\ s[1] # "record" BY <1>3 DEF Kinds
  <2>2. b = 0 BY <2>1 DEF Replaces
  <2> QED BY <2>1, <2>2
<1> QED BY <1>1, <1>2, <1>3 DEF SourceIds, Kinds

\* The memories after the service stored s: a row more at the most, and one that
\* is not current any more at the most, which is the one replaced.
LEMMA StoredRows ==
  ASSUME MemoInv, NEW s \in SourceIds, NEW b, b = Replaces(s), Accepts(b), kept' = Kept(s, b)
  PROVE  /\ kept' \in Seq(KeptRows)
         /\ \A i \in DOMAIN kept : /\ i \in DOMAIN kept' /\ kept'[i].of = kept[i].of
                                   /\ kept'[i].private = kept[i].private
                                   /\ i # b => kept'[i].next = kept[i].next
         /\ b # 0 => kept'[b].next # 0 /\ Current(b)
         /\ b = 0 /\ Same(s) # {} => DOMAIN kept' = DOMAIN kept
         /\ ~(b = 0 /\ Same(s) # {}) =>
              /\ DOMAIN kept' = DOMAIN kept \union {Len(kept) + 1} /\ Len(kept) + 1 \notin DOMAIN kept
              /\ kept'[Len(kept) + 1].of = s /\ ~kept'[Len(kept) + 1].private
              /\ kept'[Len(kept) + 1].next = 0
PROOF
<1>1. kept \in Seq(KeptRows) /\ DOMAIN kept = 1..Len(kept) /\ Len(kept) \in Nat BY DEF MemoInv
<1>2. b # 0 => b \in DOMAIN kept BY ReplacesFacts
<1>3. b \in Nat BY <1>1, <1>2
<1>4. PICK row : row = [of |-> s, private |-> FALSE, prev |-> b, next |-> 0] OBVIOUS
<1>5. row \in KeptRows BY <1>3, <1>4 DEF KeptRows
<1>6. row.of = s /\ ~row.private /\ row.next = 0 BY <1>4
<1>7. 0 \notin DOMAIN kept /\ Len(kept) + 1 \notin DOMAIN kept BY <1>1
<1>8. CASE b # 0
  <2>1. PICK x \in KeptRows : x = kept[b] BY <1>1, <1>2, <1>8
  <2>2. PICK y : y = [x EXCEPT !.next = Len(kept) + 1] OBVIOUS
  <2>3. y \in KeptRows BY <1>1, <2>2 DEF KeptRows
  <2>4. y.of = x.of /\ y.private = x.private /\ y.next = Len(kept) + 1 BY <2>2 DEF KeptRows
  <2>5. PICK m : m = [kept EXCEPT ![b] = y] OBVIOUS
  <2>6. kept' = Append(m, row) BY <1>4, <1>8, <2>1, <2>2, <2>5 DEF Kept
  <2>7. m \in Seq(KeptRows) /\ Len(m) = Len(kept) /\ m[b] = y
        /\ \A i \in DOMAIN kept : i # b => m[i] = kept[i]
    BY <1>1, <1>2, <1>8, <2>3, <2>5
  <2>8. /\ kept' \in Seq(KeptRows) /\ DOMAIN kept' = 1..(Len(kept) + 1)
        /\ \A i \in DOMAIN kept : i \in DOMAIN kept' /\ kept'[i] = m[i]
        /\ kept'[Len(kept) + 1] = row
    BY <1>1, <1>5, <2>6, <2>7
  <2>9. DOMAIN kept' = DOMAIN kept \union {Len(kept) + 1} BY <1>1, <2>8
  <2>10. ASSUME NEW i \in DOMAIN kept
         PROVE  /\ i \in DOMAIN kept' /\ kept'[i].of = kept[i].of /\ kept'[i].private = kept[i].private
                /\ i # b => kept'[i].next = kept[i].next
    <3>1. CASE i = b BY <2>1, <2>4, <2>7, <2>8, <3>1
    <3>2. CASE i # b BY <2>7, <2>8, <3>2
    <3> QED BY <3>1, <3>2
  <2>11. kept'[b].next # 0 BY <1>1, <1>2, <1>8, <2>4, <2>7, <2>8
  <2>12. Current(b) BY <1>8 DEF Accepts
  <2> QED BY <1>6, <1>7, <1>8, <2>8, <2>9, <2>10, <2>11, <2>12
<1>9. CASE b = 0 /\ Same(s) = {}
  <2>1. kept' = Append(kept, row) BY <1>4, <1>9 DEF Kept
  <2>2. /\ kept' \in Seq(KeptRows) /\ DOMAIN kept' = 1..(Len(kept) + 1)
        /\ \A i \in DOMAIN kept : i \in DOMAIN kept' /\ kept'[i] = kept[i]
        /\ kept'[Len(kept) + 1] = row
    BY <1>1, <1>5, <2>1
  <2>3. DOMAIN kept' = DOMAIN kept \union {Len(kept) + 1} BY <1>1, <2>2
  <2> QED BY <1>6, <1>7, <1>9, <2>2, <2>3
<1>10. CASE b = 0 /\ Same(s) # {}
  <2>1. kept' = kept BY <1>10 DEF Kept
  <2> QED BY <1>1, <1>10, <2>1
<1> QED BY <1>8, <1>9, <1>10

\* The memory once s is stored, whether the answer comes or not.
LEMMA StoredKept ==
  ASSUME MemoInv, NEW s \in SourceIds, Accepts(Replaces(s)), kept' = Kept(s, Replaces(s))
  PROVE  /\ kept' \in Seq(KeptRows)
         /\ \A i, j \in DOMAIN kept' :
              kept'[i].of[1] = "record" /\ kept'[i].of = kept'[j].of /\ kept'[i].next = 0 /\ kept'[j].next = 0
                => i = j
         /\ \A i \in DOMAIN kept : i \in DOMAIN kept' /\ kept'[i].of = kept[i].of
         /\ \A x : x[1] = "record" /\ Same(x) # {} => Same(x)' # {}
         /\ s[1] = "record" => Same(s)' # {}
         /\ IdOf(s, Replaces(s)) \in DOMAIN kept' /\ kept'[IdOf(s, Replaces(s))].of = s
         /\ IdOf(s, Replaces(s)) \in Nat
PROOF
<1>1. PICK b : b = Replaces(s) OBVIOUS
<1>2. Accepts(b) /\ kept' = Kept(s, b) BY <1>1
<1>3. /\ kept' \in Seq(KeptRows)
      /\ \A i \in DOMAIN kept : /\ i \in DOMAIN kept' /\ kept'[i].of = kept[i].of
                                /\ kept'[i].private = kept[i].private
                                /\ i # b => kept'[i].next = kept[i].next
  BY <1>1, <1>2, StoredRows
<1>4. b # 0 => kept'[b].next # 0 /\ Current(b) BY <1>1, <1>2, StoredRows
<1>5. b = 0 /\ Same(s) # {} => DOMAIN kept' = DOMAIN kept BY <1>1, <1>2, StoredRows
<1>6. ~(b = 0 /\ Same(s) # {}) =>
         /\ DOMAIN kept' = DOMAIN kept \union {Len(kept) + 1} /\ Len(kept) + 1 \notin DOMAIN kept
         /\ kept'[Len(kept) + 1].of = s /\ ~kept'[Len(kept) + 1].private /\ kept'[Len(kept) + 1].next = 0
  BY <1>1, <1>2, StoredRows
<1>7. /\ b # 0 => b \in DOMAIN kept
      /\ b # 0 => (kept[b].of[1] = "record" <=> s[1] = "record")
      /\ b # 0 /\ s[1] = "record" => kept[b].of = s /\ kept[b].private
      /\ b = 0 /\ s[1] = "record" => \A i \in DOMAIN kept : kept[i].of = s => ~kept[i].private
  BY <1>1, ReplacesFacts
<1>8. \A i \in DOMAIN kept : kept'[i].next = 0 => kept[i].next = 0
  BY <1>3, <1>4, <1>5, <1>6 DEF Current
<1>9. PICK n : n = Len(kept) + 1 OBVIOUS
\* The memory of s before is gone, when there is a new one.
<1>10. ASSUME n \in DOMAIN kept', n \notin DOMAIN kept, s[1] = "record",
             NEW i \in DOMAIN kept, kept[i].of = s, kept'[i].next = 0
      PROVE  FALSE
  <2>1. kept[i].next = 0 BY <1>8, <1>10
  <2>2. CASE b # 0
    <3>1. i # b BY <1>3, <1>4, <1>5, <1>6, <1>10, <2>2
    <3>2. Current(i) /\ Current(b) /\ b \in DOMAIN kept /\ kept[b].of = s
      BY <1>3, <1>4, <1>5, <1>6, <1>7, <1>10, <2>1, <2>2 DEF Current
    <3>3. kept[i].of[1] = "record" /\ kept[i].of = kept[b].of BY <1>10, <3>2
    <3> QED BY <1>10, <3>1, <3>2, <3>3 DEF MemoInv
  <2>3. CASE b = 0
    <3>1. Same(s) = {} BY <1>3, <1>4, <1>5, <1>6, <1>10, <2>3
    <3>2. ~kept[i].private BY <1>7, <1>10, <2>3
    <3>3. i \in Same(s) BY <1>10, <2>1, <3>2 DEF Same, Current
    <3> QED BY <3>1, <3>3
  <2> QED BY <2>2, <2>3
<1>11. ASSUME NEW i \in DOMAIN kept', NEW j \in DOMAIN kept', kept'[i].of[1] = "record",
             kept'[i].of = kept'[j].of, kept'[i].next = 0, kept'[j].next = 0
      PROVE  i = j
  <2>1. i \in DOMAIN kept \/ (i = n /\ n \notin DOMAIN kept /\ kept'[n].of = s) BY <1>3, <1>4, <1>5, <1>6, <1>9, <1>11
  <2>2. j \in DOMAIN kept \/ (j = n /\ n \notin DOMAIN kept /\ kept'[n].of = s) BY <1>3, <1>4, <1>5, <1>6, <1>9, <1>11
  <2>3. CASE i \in DOMAIN kept /\ j \in DOMAIN kept
    <3>1. kept[i].next = 0 /\ kept[j].next = 0 /\ kept[i].of = kept'[i].of /\ kept[j].of = kept'[j].of
      BY <1>3, <1>4, <1>5, <1>6, <1>8, <1>11, <2>3
    <3> QED BY <1>11, <2>3, <3>1 DEF MemoInv, Current
  <2>4. CASE i \in DOMAIN kept /\ j = n /\ n \notin DOMAIN kept /\ kept'[n].of = s
    <3>1. kept[i].of = s /\ s[1] = "record" BY <1>3, <1>4, <1>5, <1>6, <1>11, <2>4
    <3> QED BY <1>10, <1>11, <2>4, <3>1
  <2>5. CASE j \in DOMAIN kept /\ i = n /\ n \notin DOMAIN kept /\ kept'[n].of = s
    <3>1. kept[j].of = s /\ s[1] = "record" BY <1>3, <1>4, <1>5, <1>6, <1>11, <2>5
    <3> QED BY <1>10, <1>11, <2>5, <3>1
  <2> QED BY <2>1, <2>2, <2>3, <2>4, <2>5
<1>12. ASSUME NEW x, x[1] = "record", Same(x) # {} PROVE Same(x)' # {}
  <2>1. PICK i \in DOMAIN kept : kept[i].of = x /\ ~kept[i].private /\ kept[i].next = 0
    BY <1>12 DEF Same, Current
  <2>2. i # b BY <1>7, <1>12, <2>1, <1>3, <1>4, <1>5, <1>6, <1>11
  <2>3. i \in DOMAIN kept' /\ kept'[i].of = x /\ ~kept'[i].private /\ kept'[i].next = 0
    BY <1>3, <1>4, <1>5, <1>6, <2>1, <2>2
  <2> QED BY <2>3 DEF Same, Current
<1>13. CASE b = 0 /\ Same(s) # {}
  <2>1. s[1] = "record" => Same(s)' # {} BY <1>12, <1>13
  <2>2. IdOf(s, b) \in Same(s) BY <1>13 DEF IdOf
  <2>3. IdOf(s, b) \in DOMAIN kept /\ kept[IdOf(s, b)].of = s BY <2>2 DEF Same
  <2>4. IdOf(s, b) \in Nat BY <2>3 DEF MemoInv
  <2> QED BY <1>1, <1>3, <1>4, <1>5, <1>6, <1>11, <1>12, <2>1, <2>3, <2>4
<1>14. CASE ~(b = 0 /\ Same(s) # {})
  <2>1. n \in DOMAIN kept' /\ kept'[n].of = s /\ ~kept'[n].private /\ kept'[n].next = 0
    BY <1>3, <1>4, <1>5, <1>6, <1>9, <1>14
  <2>2. Same(s)' # {} BY <2>1 DEF Same, Current
  <2>3. IdOf(s, b) = n BY <1>9, <1>14 DEF IdOf
  <2>4. n \in Nat BY <1>9 DEF MemoInv
  <2> QED BY <1>1, <1>3, <1>4, <1>5, <1>6, <1>11, <1>12, <2>1, <2>2, <2>3, <2>4
<1> QED BY <1>13, <1>14

\* A table known whose entry for s is memory id, one of the same thing.
LEMMA Pointed ==
  ASSUME known \in [Kinds -> [version : Nat, id : Nat]], NEW s \in SourceIds, NEW id \in Nat,
         id \in DOMAIN kept', kept'[id].of = s,
         \A h \in Kinds : known[h].id # 0 =>
           known[h].id \in DOMAIN kept' /\ kept'[known[h].id].of[1] = h,
         Point(s, id)
  PROVE  /\ known' \in [Kinds -> [version : Nat, id : Nat]]
         /\ \A h \in Kinds : known'[h].id # 0 =>
              known'[h].id \in DOMAIN kept' /\ kept'[known'[h].id].of[1] = h
PROOF
<1>1. DOMAIN known = Kinds OBVIOUS
<1>2. PICK k : k = s[1] OBVIOUS
<1>3. PICK v \in Nat : v = s[2] BY DEF SourceIds
<1>4. known' = IF k \in Kinds THEN [known EXCEPT ![k] = [version |-> v, id |-> id]] ELSE known
  BY <1>1, <1>2, <1>3 DEF Point
<1>5. PICK w \in [version : Nat, id : Nat] : w = [version |-> v, id |-> id] OBVIOUS
<1>6. w.id = id BY <1>5
<1>7. known' \in [Kinds -> [version : Nat, id : Nat]]
      /\ \A h \in Kinds : known'[h] = IF h = k THEN w ELSE known[h]
  BY <1>4, <1>5
<1>8. ASSUME NEW h \in Kinds, known'[h].id # 0
      PROVE  known'[h].id \in DOMAIN kept' /\ kept'[known'[h].id].of[1] = h
  <2>1. CASE h = k BY <1>2, <1>6, <1>7, <2>1
  <2>2. CASE h # k BY <1>7, <1>8, <2>2
  <2> QED BY <2>1, <2>2
<1> QED BY <1>7, <1>8

\* The tables grow with the memory.
LEMMA Captures_Memo ==
  ASSUME MemoInv, NEW s \in SourceIds, Captures(s)
  PROVE  MemoInv' /\ DOMAIN captured \subseteq DOMAIN captured'
         /\ (s[1] # "mission" => s \in DOMAIN captured')
PROOF
<1>1. CASE /\ Noted(s) /\ UNCHANGED <<kept, captured>>
           /\ IF s[1] = "document" THEN Point(s, captured[s]) ELSE UNCHANGED known
  <2>1. s[1] # "mission" => s \in DOMAIN captured BY <1>1 DEF Noted
  <2>2. CASE s[1] # "document"
    <3>1. known' = known BY <1>1, <2>2
    <3>2. MemoInv' BY <1>1, <3>1 DEF MemoInv, CapturedInv, RowOf, Same, Current
    <3> QED BY <1>1, <2>1, <3>2
  <2>3. CASE s[1] = "document"
    <3>1. PICK id : id = captured[s] OBVIOUS
    <3>2. s \in DOMAIN captured BY <2>1, <2>3
    <3> CapturedInv BY DEF MemoInv
    <3>3. id \in DOMAIN kept /\ kept[id].of = s BY <3>1, <3>2 DEF CapturedInv, RowOf
    <3>4. id \in Nat BY <3>3 DEF MemoInv
    <3>5. kept' = kept /\ captured' = captured /\ Point(s, id) BY <1>1, <2>3, <3>1
    <3>6. known \in [Kinds -> [version : Nat, id : Nat]]
          /\ \A h \in Kinds : known[h].id # 0 =>
               known[h].id \in DOMAIN kept' /\ kept'[known[h].id].of[1] = h
      BY <3>5 DEF MemoInv
    <3>7. /\ known' \in [Kinds -> [version : Nat, id : Nat]]
          /\ \A h \in Kinds : known'[h].id # 0 =>
               known'[h].id \in DOMAIN kept' /\ kept'[known'[h].id].of[1] = h
      BY <3>3, <3>4, <3>5, <3>6, Pointed
    <3>8. MemoInv' BY <3>5, <3>7 DEF MemoInv, CapturedInv, RowOf, Same, Current
    <3> QED BY <3>2, <3>5, <3>8
  <2> QED BY <2>2, <2>3
<1>2. CASE /\ Accepts(Replaces(s)) /\ kept' = Kept(s, Replaces(s))
           /\ Note(s, IdOf(s, Replaces(s)))
  <2>1. PICK n : n = IdOf(s, Replaces(s)) OBVIOUS
  <2>2. /\ kept' \in Seq(KeptRows)
        /\ \A i, j \in DOMAIN kept' :
             kept'[i].of[1] = "record" /\ kept'[i].of = kept'[j].of /\ kept'[i].next = 0 /\ kept'[j].next = 0
               => i = j
        /\ \A i \in DOMAIN kept : i \in DOMAIN kept' /\ kept'[i].of = kept[i].of
    BY <1>2, StoredKept
  <2>3. \A x : x[1] = "record" /\ Same(x) # {} => Same(x)' # {} BY <1>2, StoredKept
  <2>4. s[1] = "record" => Same(s)' # {} BY <1>2, StoredKept
  <2>5. n \in DOMAIN kept' /\ kept'[n].of = s /\ n \in Nat BY <1>2, <2>1, StoredKept
  <2>6. captured' = [x \in DOMAIN captured \union {s} |-> IF x = s THEN n ELSE captured[x]]
        /\ Point(s, n)
    BY <1>2, <2>1 DEF Note
  <2>7. DOMAIN captured' = DOMAIN captured \union {s} BY <2>6
  <2>8. ASSUME NEW x \in DOMAIN captured'
        PROVE  /\ captured'[x] \in DOMAIN kept' /\ kept'[captured'[x]].of = x
               /\ x[1] = "record" => Same(x)' # {}
    <3>1. CASE x = s
      <4>1. captured'[x] = n BY <2>6, <2>7, <3>1
      <4> QED BY <2>4, <2>5, <3>1, <4>1
    <3>2. CASE x # s
      <4>1. x \in DOMAIN captured /\ captured'[x] = captured[x] BY <2>6, <2>7, <3>2
      <4> CapturedInv BY DEF MemoInv
      <4>2. captured[x] \in DOMAIN kept /\ kept[captured[x]].of = x BY <4>1 DEF CapturedInv, RowOf
      <4>3. x[1] = "record" => Same(x) # {} BY <4>1 DEF MemoInv
      <4> QED BY <2>2, <2>3, <4>1, <4>2, <4>3
    <3> QED BY <3>1, <3>2
  <2>9. known \in [Kinds -> [version : Nat, id : Nat]] BY DEF MemoInv
  <2>10. \A h \in Kinds : known[h].id # 0 =>
           known[h].id \in DOMAIN kept' /\ kept'[known[h].id].of[1] = h
    BY <2>2 DEF MemoInv
  <2>11. /\ known' \in [Kinds -> [version : Nat, id : Nat]]
         /\ \A h \in Kinds : known'[h].id # 0 =>
              known'[h].id \in DOMAIN kept' /\ kept'[known'[h].id].of[1] = h
    BY <2>5, <2>6, <2>9, <2>10, Pointed
  <2>12. CapturedInv' BY <2>8 DEF CapturedInv, RowOf
  <2>13. MemoInv' BY <2>2, <2>8, <2>11, <2>12 DEF MemoInv, Current
  <2> QED BY <2>7, <2>13
<1>3. Storable(s) => Accepts(Replaces(s)) BY DEF Storable, Rejected
<1> QED BY <1>1, <1>2, <1>3 DEF Captures

LEMMA Fails_Memo ==
  ASSUME MemoInv, NEW s \in SourceIds, Refused(s) \/ Lost(s)
  PROVE  MemoInv' /\ captured' = captured
PROOF
<1>1. captured' = captured /\ known' = known BY DEF Refused, Lost
<1>2. CASE kept' = kept BY <1>1, <1>2 DEF MemoInv, CapturedInv, RowOf, Same, Current
<1>3. CASE Accepts(Replaces(s)) /\ kept' = Kept(s, Replaces(s))
  <2>1. /\ kept' \in Seq(KeptRows)
        /\ \A i, j \in DOMAIN kept' :
             kept'[i].of[1] = "record" /\ kept'[i].of = kept'[j].of /\ kept'[i].next = 0 /\ kept'[j].next = 0
               => i = j
        /\ \A i \in DOMAIN kept : i \in DOMAIN kept' /\ kept'[i].of = kept[i].of
    BY <1>3, StoredKept
  <2>2. \A x : x[1] = "record" /\ Same(x) # {} => Same(x)' # {} BY <1>3, StoredKept
  <2>3. ASSUME NEW x \in DOMAIN captured
        PROVE  /\ captured[x] \in DOMAIN kept' /\ kept'[captured[x]].of = x
               /\ x[1] = "record" => Same(x)' # {}
    <3> CapturedInv BY DEF MemoInv
    <3>1. captured[x] \in DOMAIN kept /\ kept[captured[x]].of = x BY DEF CapturedInv, RowOf
    <3>2. x[1] = "record" => Same(x) # {} BY DEF MemoInv
    <3> QED BY <2>1, <2>2, <3>1, <3>2
  <2>4. ASSUME NEW h \in Kinds, known[h].id # 0
        PROVE  known[h].id \in DOMAIN kept' /\ kept'[known[h].id].of[1] = h
    <3>1. known[h].id \in DOMAIN kept /\ kept[known[h].id].of[1] = h BY <2>4 DEF MemoInv
    <3> QED BY <2>1, <3>1
  <2>5. known \in [Kinds -> [version : Nat, id : Nat]] BY DEF MemoInv
  <2>6. CapturedInv' BY <1>1, <2>3 DEF CapturedInv, RowOf
  <2> QED BY <1>1, <2>1, <2>3, <2>4, <2>5, <2>6 DEF MemoInv, Current
<1> QED BY <1>2, <1>3 DEF Refused, Lost, Storable, Rejected

\* What is captured stays so, and a process that does not hold a page has none to
\* answer for.
LEMMA Run_Step ==
  ASSUME RunInv, UNCHANGED <<source, cursor>>, DOMAIN captured \subseteq DOMAIN captured',
         collector' \in Runs \union {Stopped}, collector'.at # "page"
  PROVE  RunInv'
PROOF
<1>1. \A n : Covered(n) => Covered(n)' BY DEF Covered
<1>2. PageInv' BY DEF PageInv, At
<1> QED BY <1>1, <1>2 DEF RunInv

LEMMA CollectorCases ==
  ASSUME RunInv, NEW a \in {"document", "history", "page", "mission", "actions"}, At(a)
  PROVE  collector \in Runs
PROOF
<1>1. Stopped.at = "stopped" BY DEF Stopped
<1> QED BY <1>1 DEF RunInv, At

LEMMA GotoRuns ==
  ASSUME collector \in Runs, NEW a \in {"document", "history", "page", "mission", "actions"}, Goto(a)
  PROVE  collector' \in Runs /\ collector'.at = a
PROOF
<1>1. PICK o \in Runs : o = collector OBVIOUS
<1>2. collector' = [o EXCEPT !.at = a] BY <1>1 DEF Goto
<1>3. collector' \in Runs BY <1>2 DEF Runs
<1>4. collector'.at = a BY <1>2 DEF Runs
<1> QED BY <1>3, <1>4

LEMMA StoppedRuns == Stopped \in Runs \union {Stopped} /\ Stopped.at = "stopped"
BY DEF Stopped

\* The sources of a run.
LEMMA SourcesTyped ==
  ASSUME RunInv
  PROVE  /\ <<"document", source.document>> \in SourceIds
         /\ <<"mission", source.mission>> \in SourceIds
         /\ <<"action", 1>> \in SourceIds
BY DEF RunInv, Sources, SourceIds

LEMMA Grow_Sync == ASSUME SyncInv, Grow PROVE SyncInv'
PROOF
<1>1. /\ source' = [source EXCEPT !.records = source.records + 1]
      /\ UNCHANGED <<kept, captured, known, cursor, collector>>
  BY DEF Grow
<1>2. MemoInv' BY <1>1 DEF SyncInv, MemoInv, CapturedInv, RowOf, Same, Current
<1>3. PICK o \in Sources : o = source BY DEF SyncInv, RunInv
<1>4. source' \in Sources BY <1>1, <1>3 DEF Sources
<1>5. source'.records = source.records + 1 /\ source.records \in Nat BY <1>1, <1>3 DEF Sources
<1>6. cursor \in Nat /\ cursor <= source'.records BY <1>5 DEF SyncInv, RunInv
<1>7. PageInv'
  <2>1. SUFFICES ASSUME At("page") PROVE cursor + Len(collector.page) <= source'.records
    BY <1>1 DEF SyncInv, RunInv, PageInv, At, Covered
  <2>2. collector \in Runs BY <2>1, CollectorCases DEF SyncInv
  <2>3. Len(collector.page) \in Nat BY <2>2 DEF Runs
  <2>4. cursor + Len(collector.page) <= source.records BY <2>1 DEF SyncInv, RunInv, PageInv
  <2> QED BY <1>5, <1>6, <2>3, <2>4
<1> QED BY <1>1, <1>2, <1>4, <1>6, <1>7 DEF SyncInv, RunInv, Covered

LEMMA Change_Sync == ASSUME SyncInv, NEW k \in Kinds, Change(k) PROVE SyncInv'
PROOF
<1>1. PICK c \in Texts : source' = [source EXCEPT ![k] = c, !.changes = @ + 1] BY DEF Change
<1>2. UNCHANGED <<kept, captured, known, cursor, collector>> BY DEF Change
<1>3. MemoInv' BY <1>2 DEF SyncInv, MemoInv, CapturedInv, RowOf, Same, Current
<1>4. PICK o \in Sources : o = source BY DEF SyncInv, RunInv
<1>5. c \in Nat BY SyncAssumption
<1>6. source' \in Sources /\ source'.records = source.records
  <2>0. PICK n \in Nat : n = o.changes + 1 BY DEF Sources
  <2>1. CASE k = "document"
    <3>1. source' = [o EXCEPT !.document = c, !.changes = n] BY <1>1, <1>4, <2>0, <2>1
    <3> QED BY <1>4, <1>5, <3>1 DEF Sources
  <2>2. CASE k = "mission"
    <3>1. source' = [o EXCEPT !.mission = c, !.changes = n] BY <1>1, <1>4, <2>0, <2>2
    <3> QED BY <1>4, <1>5, <3>1 DEF Sources
  <2> QED BY <2>1, <2>2 DEF Kinds
<1> QED BY <1>2, <1>3, <1>6 DEF SyncInv, RunInv, PageInv, At, Covered

LEMMA Start_Sync == ASSUME SyncInv, Start PROVE SyncInv'
PROOF
<1>1. /\ collector' = [at |-> "document", page |-> <<>>, failed |-> FALSE, pages |-> 0]
      /\ UNCHANGED <<kept, source, captured, known, cursor>>
  BY DEF Start
<1>2. collector' \in Runs /\ collector'.at = "document" BY <1>1 DEF Runs
<1>3. MemoInv' BY <1>1 DEF SyncInv, MemoInv, CapturedInv, RowOf, Same, Current
<1> QED BY <1>1, <1>2, <1>3, Run_Step DEF SyncInv

LEMMA Document_Sync == ASSUME SyncInv, Document PROVE SyncInv'
PROOF
<1>1. /\ At("document") /\ Captures(<<"document", source.document>>) /\ Goto("history")
      /\ UNCHANGED <<source, cursor>>
  BY DEF Document
<1>2. MemoInv' /\ DOMAIN captured \subseteq DOMAIN captured'
  BY <1>1, SourcesTyped, Captures_Memo DEF SyncInv
<1>3. collector' \in Runs /\ collector'.at = "history" BY <1>1, CollectorCases, GotoRuns DEF SyncInv
<1> QED BY <1>1, <1>2, <1>3, Run_Step DEF SyncInv

LEMMA DocumentFails_Sync == ASSUME SyncInv, DocumentFails PROVE SyncInv'
PROOF
<1>1. PICK s : s = <<"document", source.document>> OBVIOUS
<1>2. (Refused(s) \/ Lost(s)) /\ collector' = Stopped /\ UNCHANGED <<source, cursor>>
  BY <1>1 DEF DocumentFails
<1>3. s \in SourceIds BY <1>1, SourcesTyped DEF SyncInv
<1>4. MemoInv' /\ captured' = captured BY <1>2, <1>3, Fails_Memo DEF SyncInv
<1> QED BY <1>2, <1>4, StoppedRuns, Run_Step DEF SyncInv

\* A page is what follows the cursor, as far as the broker has records.
LEMMA ReadPage_Sync == ASSUME SyncInv, ReadPage PROVE SyncInv'
PROOF
<1>1. /\ At("history") /\ UNCHANGED <<kept, source, captured, known, cursor>>
      /\ collector' = [at |-> "page", page |-> Page, failed |-> FALSE, pages |-> collector.pages + 1]
  BY DEF ReadPage
<1>2. MemoInv' BY <1>1 DEF SyncInv, MemoInv, CapturedInv, RowOf, Same, Current
<1>3. collector.pages + 1 \in Nat BY <1>1, CollectorCases DEF SyncInv, Runs
<1>4. PICK n : n = source.records - cursor OBVIOUS
<1>5. source.records \in Nat /\ cursor \in Nat /\ cursor <= source.records
  BY DEF SyncInv, RunInv, Sources
<1>6. PICK m : m = IF n < PageSize THEN n ELSE PageSize OBVIOUS
<1>7. m \in Nat /\ cursor + m <= source.records BY <1>4, <1>5, <1>6, SyncAssumption
<1>8. PICK pg : pg = [i \in 1..m |-> cursor + i] OBVIOUS
<1>9. pg = Page BY <1>4, <1>6, <1>8 DEF Page
<1>10. pg \in Seq(Int) /\ Len(pg) = m /\ \A i \in DOMAIN pg : pg[i] = cursor + i BY <1>5, <1>7, <1>8
<1>11. collector' = [at |-> "page", page |-> pg, failed |-> FALSE, pages |-> collector.pages + 1]
  BY <1>1, <1>9
<1>12. collector' \in Runs BY <1>3, <1>10, <1>11 DEF Runs
<1>13. collector'.page = pg BY <1>11
<1>14. PageInv'
  <2>1. cursor' + Len(collector'.page) <= source'.records BY <1>1, <1>7, <1>10, <1>13
  <2>2. \A i \in DOMAIN collector'.page : collector'.page[i] = cursor' + i BY <1>1, <1>10, <1>13
  <2> QED BY <2>1, <2>2 DEF PageInv
<1> QED BY <1>1, <1>2, <1>12, <1>14 DEF SyncInv, RunInv, Covered

\* A set of numbers has a least one.
LEMMA LeastNumber ==
  ASSUME NEW S \in SUBSET Nat, S # {}
  PROVE  \E i \in S : \A j \in S : i <= j
PROOF
<1>1. PICK R : R = {x \in Nat \X Nat : x[1] < x[2]} OBVIOUS
<1>2. IsWellFoundedOn(R, Nat) BY <1>1, NatLessThanWellFounded DEF OpToRel
<1>3. PICK i \in S : \A j \in S : ~(<<j, i>> \in R) BY <1>2, WFMin
<1>4. ASSUME NEW j \in S PROVE i <= j
  <2>1. i \in Nat /\ j \in Nat OBVIOUS
  <2>2. ASSUME j < i PROVE FALSE
    <3>1. PICK x \in Nat \X Nat : x = <<j, i>> BY <2>1
    <3>2. x[1] = j /\ x[2] = i BY <3>1
    <3>3. x \in R BY <1>1, <2>2, <3>2
    <3> QED BY <1>3, <3>1, <3>3
  <2> QED BY <2>1, <2>2
<1> QED BY <1>4

\* The record in hand is the first one that is not struck out.
LEMMA RecordFacts ==
  ASSUME SyncInv, At("page"), Todo # {}
  PROVE  /\ First \in DOMAIN collector.page /\ collector.page[First] > 0
         /\ Record = <<"record", cursor + First>> /\ Record \in SourceIds
PROOF
<1>1. collector \in Runs BY CollectorCases DEF SyncInv
<1>2. PICK pg \in Seq(Int) : pg = collector.page BY <1>1 DEF Runs
<1>3. Todo \subseteq DOMAIN pg /\ Todo \in SUBSET Nat BY <1>2 DEF Todo
<1>4. PICK i \in Todo : \A j \in Todo : i <= j BY <1>3, LeastNumber
<1>5. First \in Todo BY <1>4 DEF First
<1>6. First \in DOMAIN pg /\ pg[First] > 0 /\ First \in Nat /\ pg[First] \in Int
  BY <1>2, <1>3, <1>5 DEF Todo
<1>7. pg[First] = cursor + First \/ pg[First] = -(cursor + First)
  BY <1>2, <1>6 DEF SyncInv, RunInv, PageInv
<1>8. cursor \in Nat BY DEF SyncInv, RunInv
<1>9. pg[First] = cursor + First BY <1>6, <1>7, <1>8
<1>10. Record = <<"record", cursor + First>> /\ cursor + First \in Nat
  BY <1>2, <1>6, <1>8, <1>9 DEF Record
<1> QED BY <1>2, <1>6, <1>10 DEF SourceIds

\* The page after a record was dealt with.
LEMMA StruckFacts ==
  ASSUME SyncInv, At("page"), Todo # {}, NEW f \in BOOLEAN, Struck(f), UNCHANGED <<source, cursor>>,
         DOMAIN captured \subseteq DOMAIN captured', NEW v \in Nat, <<"record", v>> = Record, f \/ Covered(v)'
  PROVE  RunInv'
PROOF
<1>1. PICK o \in Runs : o = collector BY CollectorCases DEF SyncInv
<1>2. PICK pg \in Seq(Int) : pg = o.page BY DEF Runs
<1>3. PICK m : m = First OBVIOUS
<1>4. m \in DOMAIN pg /\ pg[m] = cursor + m /\ v = cursor + m
  BY <1>1, <1>2, <1>3, RecordFacts DEF Record
<1>5. PICK q : q = [pg EXCEPT ![m] = -pg[m]] OBVIOUS
<1>6. q \in Seq(Int) /\ Len(q) = Len(pg) /\ DOMAIN q = DOMAIN pg
      /\ q[m] = -pg[m] /\ \A i \in DOMAIN pg : i # m => q[i] = pg[i]
  BY <1>4, <1>5
<1>7. PICK g \in BOOLEAN : g = (o.failed \/ f) OBVIOUS
<1>8. collector' = [o EXCEPT !.page = q, !.failed = g] BY <1>1, <1>2, <1>3, <1>5, <1>7 DEF Struck
<1>9. collector' \in Runs BY <1>6, <1>8 DEF Runs
<1>10. collector'.page = q /\ collector'.failed = g /\ collector'.at = o.at BY <1>8 DEF Runs
<1>11. \A n : Covered(n) => Covered(n)' BY DEF Covered
<1>12. cursor + Len(pg) <= source.records BY <1>1, <1>2 DEF SyncInv, RunInv, PageInv
<1>13. ASSUME NEW i \in DOMAIN q
       PROVE  q[i] = cursor + i \/ (q[i] = -(cursor + i) /\ (g \/ Covered(cursor + i)'))
  <2>1. CASE i = m
    <3>1. q[i] = -(cursor + i) BY <1>4, <1>6, <2>1
    <3>2. g \/ Covered(v)' BY <1>7
    <3>3. v = cursor + i /\ cursor' = cursor BY <1>4, <2>1
    <3>4. Covered(v)' => Covered(cursor + i)' BY <3>3 DEF Covered
    <3> QED BY <3>1, <3>2, <3>4
  <2>2. CASE i # m
    <3>1. q[i] = pg[i] BY <1>6, <2>2
    <3>2. \/ pg[i] = cursor + i
          \/ pg[i] = -(cursor + i) /\ (o.failed \/ Covered(cursor + i))
      BY <1>1, <1>2, <1>6 DEF SyncInv, RunInv, PageInv
    <3> QED BY <1>7, <1>11, <3>1, <3>2
  <2> QED BY <2>1, <2>2
<1>14. PageInv' BY <1>6, <1>10, <1>12, <1>13 DEF PageInv
<1> QED BY <1>9, <1>11, <1>14 DEF SyncInv, RunInv

LEMMA CaptureRecord_Sync == ASSUME SyncInv, CaptureRecord PROVE SyncInv'
PROOF
<1>1. At("page") /\ Todo # {} /\ Struck(FALSE) /\ UNCHANGED <<source, cursor>> BY DEF CaptureRecord
<1>2. PICK n : n = cursor + First OBVIOUS
<1>3. PICK s \in SourceIds : s = Record BY <1>1, RecordFacts
<1>4. s = <<"record", n>> BY <1>1, <1>2, <1>3, RecordFacts
<1>5. n \in Nat /\ s[1] = "record" BY <1>3, <1>4 DEF SourceIds
<1>6. /\ MemoInv' /\ DOMAIN captured \subseteq DOMAIN captured'
      /\ s \in Private \/ s \in DOMAIN captured'
  <2>1. CASE s \in Private /\ UNCHANGED <<kept, captured, known>>
    BY <2>1 DEF SyncInv, MemoInv, CapturedInv, RowOf, Same, Current
  <2>2. CASE s \notin Private /\ Captures(s)
    BY <1>5, <2>2, Captures_Memo DEF SyncInv
  <2> QED BY <1>3, <2>1, <2>2 DEF CaptureRecord
<1>7. Covered(n)' BY <1>4, <1>6 DEF Covered
<1>8. RunInv' BY <1>1, <1>3, <1>4, <1>5, <1>6, <1>7, StruckFacts
<1> QED BY <1>6, <1>8 DEF SyncInv

LEMMA CaptureRecordFails_Sync == ASSUME SyncInv, CaptureRecordFails PROVE SyncInv'
PROOF
<1>1. At("page") /\ Todo # {} /\ Struck(TRUE) /\ UNCHANGED <<source, cursor>> BY DEF CaptureRecordFails
<1>2. PICK s \in SourceIds : s = Record BY <1>1, RecordFacts
<1>3. Refused(s) \/ Lost(s) BY <1>2 DEF CaptureRecordFails
<1>4. MemoInv' /\ captured' = captured BY <1>3, Fails_Memo DEF SyncInv
<1>5. PICK n : n = cursor + First OBVIOUS
<1>6. <<"record", n>> = Record BY <1>1, <1>5, RecordFacts
<1>7. n \in Nat BY <1>2, <1>6 DEF SourceIds
<1>8. RunInv' BY <1>1, <1>4, <1>6, <1>7, StruckFacts
<1> QED BY <1>4, <1>8 DEF SyncInv

\* The cursor moves past records that are all covered.
LEMMA EndPage_Sync == ASSUME SyncInv, EndPage PROVE SyncInv'
PROOF
<1>1. /\ At("page") /\ Todo = {} /\ UNCHANGED <<kept, source, captured, known>>
      /\ cursor' = IF PageDone THEN cursor + Len(collector.page) ELSE cursor
  BY DEF EndPage
<1>2. \E a \in {"history", "mission"} : Goto(a) BY DEF EndPage
<1>3. PICK o \in Runs : o = collector BY <1>1, CollectorCases DEF SyncInv
<1>4. collector' \in Runs /\ collector'.at # "page" BY <1>2, <1>3, GotoRuns
<1>5. MemoInv' BY <1>1 DEF SyncInv, MemoInv, CapturedInv, RowOf, Same, Current
<1>6. PICK pg \in Seq(Int) : pg = o.page BY DEF Runs
<1>7. PICK m \in Nat : m = Len(pg) /\ DOMAIN pg = 1..m OBVIOUS
<1>8. cursor \in Nat /\ cursor <= source.records /\ cursor + m <= source.records
  BY <1>1, <1>3, <1>6, <1>7 DEF SyncInv, RunInv, PageInv
<1>9. cursor' \in Nat /\ cursor' <= source.records BY <1>1, <1>3, <1>6, <1>7, <1>8
<1>10. ASSUME NEW n \in 1..cursor' PROVE Covered(n)
  <2>1. CASE n <= cursor
    <3>1. n \in 1..cursor BY <1>8, <2>1
    <3> QED BY <3>1 DEF SyncInv, RunInv
  <2>2. CASE ~(n <= cursor)
    <3>1. PageDone /\ cursor' = cursor + m BY <1>1, <1>3, <1>6, <1>7, <1>8, <1>10, <2>2
    <3>2. PICK i \in 1..m : n = cursor + i
      <4>1. n - cursor \in 1..m /\ n = cursor + (n - cursor) BY <1>7, <1>8, <1>10, <2>2, <3>1
      <4> QED BY <4>1
    <3>3. pg[i] \in Int /\ ~(pg[i] > 0) BY <1>1, <1>3, <1>6, <1>7 DEF Todo
    <3>4. \/ pg[i] = cursor + i
          \/ pg[i] = -(cursor + i) /\ (o.failed \/ Covered(cursor + i))
      BY <1>1, <1>3, <1>6, <1>7 DEF SyncInv, RunInv, PageInv
    <3>5. pg[i] # cursor + i BY <1>8, <3>3
    <3> QED BY <1>3, <3>1, <3>2, <3>4, <3>5 DEF PageDone
  <2> QED BY <2>1, <2>2
<1>11. PageInv' BY <1>4 DEF PageInv, At
<1>12. RunInv' BY <1>1, <1>4, <1>9, <1>10, <1>11 DEF SyncInv, RunInv, Covered
<1> QED BY <1>5, <1>12 DEF SyncInv

LEMMA Mission_Sync == ASSUME SyncInv, Mission PROVE SyncInv'
PROOF
<1>1. At("mission") /\ Goto("actions") /\ UNCHANGED <<source, cursor>> BY DEF Mission
<1>2. PICK s \in SourceIds : s = <<"mission", source.mission>> BY SourcesTyped DEF SyncInv
<1>3. collector' \in Runs /\ collector'.at = "actions" BY <1>1, CollectorCases, GotoRuns DEF SyncInv
<1>4. UNCHANGED <<kept, captured, known>> \/ Captures(s) \/ Refused(s) \/ Lost(s) BY <1>2 DEF Mission
<1>5. MemoInv' /\ DOMAIN captured \subseteq DOMAIN captured'
  <2>1. CASE UNCHANGED <<kept, captured, known>> BY <2>1 DEF SyncInv, MemoInv, CapturedInv, RowOf, Same, Current
  <2>2. CASE Captures(s) BY <2>2, Captures_Memo DEF SyncInv
  <2>3. CASE Refused(s) \/ Lost(s) BY <2>3, Fails_Memo DEF SyncInv
  <2> QED BY <1>4, <2>1, <2>2, <2>3
<1> QED BY <1>1, <1>3, <1>5, Run_Step DEF SyncInv

LEMMA Actions_Sync == ASSUME SyncInv, Actions PROVE SyncInv'
PROOF
<1>1. PICK s \in SourceIds : s = <<"action", 1>> BY SourcesTyped DEF SyncInv
<1>2. /\ UNCHANGED <<kept, captured, known>> \/ Captures(s) \/ Refused(s) \/ Lost(s)
      /\ collector' = Stopped /\ UNCHANGED <<source, cursor>>
  BY <1>1 DEF Actions
<1>3. MemoInv' /\ DOMAIN captured \subseteq DOMAIN captured'
  <2>1. CASE UNCHANGED <<kept, captured, known>> BY <2>1 DEF SyncInv, MemoInv, CapturedInv, RowOf, Same, Current
  <2>2. CASE Captures(s) BY <2>2, Captures_Memo DEF SyncInv
  <2>3. CASE Refused(s) \/ Lost(s) BY <2>3, Fails_Memo DEF SyncInv
  <2> QED BY <1>2, <2>1, <2>2, <2>3
<1> QED BY <1>2, <1>3, StoppedRuns, Run_Step DEF SyncInv

LEMMA Killed_Sync == ASSUME SyncInv, Killed PROVE SyncInv'
PROOF
<1>1. collector' = Stopped /\ UNCHANGED <<kept, source, captured, known, cursor>> BY DEF Killed
<1>2. MemoInv' BY <1>1 DEF SyncInv, MemoInv, CapturedInv, RowOf, Same, Current
<1> QED BY <1>1, <1>2, StoppedRuns, Run_Step DEF SyncInv

LEMMA SyncInit_Inv == SyncInit => SyncInv
PROOF
<1> SUFFICES ASSUME SyncInit PROVE SyncInv OBVIOUS
<1>1. PICK p \in KeptRows : p = Private1 BY DEF Private1, KeptRows, SourceIds
<1>2. PICK d \in KeptRows : d = Document1 BY DEF Document1, KeptRows, SourceIds
<1>3. p.of[1] = "record" /\ d.of[1] = "document" BY <1>1, <1>2 DEF Private1, Document1
<1>4. cursor = 0 /\ collector = Stopped BY DEF SyncInit
<1>5. MemoInv /\ source \in Sources
  <2>1. CASE /\ kept = <<>> /\ captured = [s \in {} |-> 0]
             /\ known = [k \in Kinds |-> [version |-> 0, id |-> 0]]
             /\ source = [records |-> 0, document |-> 1, mission |-> 1, changes |-> 0]
    <3>1. known \in [Kinds -> [version : Nat, id : Nat]] /\ \A k \in Kinds : known[k].id = 0 BY <2>1
    <3>2. kept \in Seq(KeptRows) /\ DOMAIN kept = {} /\ DOMAIN captured = {} BY <2>1
    <3>3. source \in Sources BY <2>1 DEF Sources
    <3> QED BY <3>1, <3>2, <3>3 DEF MemoInv, CapturedInv, RowOf
  <2>2. CASE /\ kept = <<Private1, Document1>> /\ captured = [s \in {Document1.of} |-> 2]
             /\ known = [document |-> [version |-> 1, id |-> 2],
                         mission |-> [version |-> 0, id |-> 0]]
             /\ source \in {[records |-> 1, document |-> c, mission |-> 1, changes |-> 0]
                             : c \in Texts}
    <3>1. kept = <<p, d>> BY <1>1, <1>2, <2>2
    <3>2. kept \in Seq(KeptRows) /\ DOMAIN kept = {1, 2} /\ kept[1] = p /\ kept[2] = d
      BY <3>1
    <3>3. DOMAIN known = Kinds BY <2>2 DEF Kinds
    <3>4. known["document"] = [version |-> 1, id |-> 2] /\ known["mission"] = [version |-> 0, id |-> 0]
      BY <2>2
    <3>5. known \in [Kinds -> [version : Nat, id : Nat]] BY <2>2, <3>3, <3>4 DEF Kinds
    <3>6. \A k \in Kinds : known[k].id # 0 => known[k].id \in DOMAIN kept /\ kept[known[k].id].of[1] = k
      BY <1>3, <3>2, <3>4 DEF Kinds
    <3>7. \A i, j \in DOMAIN kept :
            kept[i].of[1] = "record" /\ kept[i].of = kept[j].of /\ Current(i) /\ Current(j) => i = j
      BY <1>3, <3>2
    <3>8. PICK t : t = Document1.of OBVIOUS
    <3>9. DOMAIN captured = {t} /\ captured[t] = 2 BY <2>2, <3>8
    <3>10. t = d.of /\ t[1] = "document" BY <1>2, <1>3, <3>8
    <3>11. \A s \in DOMAIN captured : /\ captured[s] \in DOMAIN kept /\ kept[captured[s]].of = s
                                      /\ s[1] = "record" => Same(s) # {}
      BY <3>2, <3>9, <3>10
    <3>12. MemoInv BY <3>2, <3>5, <3>6, <3>7, <3>11 DEF MemoInv, CapturedInv, RowOf
    <3>13. source \in Sources
      <4>1. PICK c \in Texts : source = [records |-> 1, document |-> c, mission |-> 1, changes |-> 0]
        BY <2>2
      <4>2. c \in Nat BY SyncAssumption
      <4> QED BY <4>1, <4>2 DEF Sources
    <3> QED BY <3>12, <3>13
  <2> QED BY <2>1, <2>2 DEF SyncInit
<1>6. PageInv BY <1>4, StoppedRuns DEF PageInv, At
<1>7. cursor \in Nat /\ cursor <= source.records BY <1>4, <1>5 DEF Sources
<1>8. \A n \in 1..cursor : Covered(n) BY <1>4
<1>9. RunInv BY <1>4, <1>5, <1>6, <1>7, <1>8 DEF RunInv
<1> QED BY <1>5, <1>9 DEF SyncInv

LEMMA SyncNext_Inv == SyncInv /\ [SyncNext]_syncVars => SyncInv'
PROOF
<1> SUFFICES ASSUME SyncInv, [SyncNext]_syncVars PROVE SyncInv' OBVIOUS
<1>1. ASSUME NEW k \in Kinds, Change(k) PROVE SyncInv' BY <1>1, Change_Sync
<1>2. CASE UNCHANGED syncVars
  BY <1>2 DEF syncVars, SyncInv, MemoInv, CapturedInv, RowOf, RunInv, PageInv, Same, Current, Covered, At
<1> QED BY <1>1, <1>2, Grow_Sync, Start_Sync, Document_Sync, DocumentFails_Sync, ReadPage_Sync,
           CaptureRecord_Sync, CaptureRecordFails_Sync, EndPage_Sync, Mission_Sync, Actions_Sync,
           Killed_Sync DEF SyncNext, Steps

\* The cursor of the collector (memory_sync.py): whatever call fails, whatever
\* answer is lost and wherever the process dies, history_cursor never passes a
\* record that is to be shared and is not in the memory, and a record that is sent
\* again is not stored twice.
THEOREM CursorLosesNothing == SyncSpec => []SyncHolds
PROOF
<1>1. SyncInv => SyncHolds
  <2> SUFFICES ASSUME SyncInv PROVE SyncHolds OBVIOUS
  <2>1. CursorCovers
    <3>1. ASSUME NEW n \in 1..cursor, <<"record", n>> \notin Private
          PROVE  <<"record", n>> \in DOMAIN captured /\ Same(<<"record", n>>) # {}
      <4>1. <<"record", n>> \in DOMAIN captured BY <3>1 DEF SyncInv, RunInv, Covered
      <4> QED BY <4>1 DEF SyncInv, MemoInv
    <3> QED BY <3>1 DEF CursorCovers
  <2>2. ASSUME NEW n \in 1..MaxRecords
        PROVE  Cardinality({i \in DOMAIN kept : kept[i].of = <<"record", n>> /\ Current(i)}) <= 1
    <3>1. PICK S : S = {i \in DOMAIN kept : kept[i].of = <<"record", n>> /\ Current(i)} OBVIOUS
    <3>2. ASSUME NEW i \in S, NEW j \in S PROVE i = j
      <4>1. /\ i \in DOMAIN kept /\ kept[i].of = <<"record", n>> /\ Current(i)
            /\ j \in DOMAIN kept /\ kept[j].of = <<"record", n>> /\ Current(j)
        BY <3>1
      <4>2. kept[i].of[1] = "record" BY <4>1
      <4> QED BY <4>1, <4>2 DEF SyncInv, MemoInv
    <3>3. S = {} \/ \E i \in S : S = {i} BY <3>2
    <3>4. Cardinality(S) <= 1 BY <3>3, FS_EmptySet, FS_Singleton
    <3> QED BY <3>1, <3>4
  <2>3. OneMemoryPerRecord BY <2>2 DEF OneMemoryPerRecord
  <2> QED BY <2>1, <2>3 DEF SyncHolds
<1> QED BY <1>1, SyncInit_Inv, SyncNext_Inv, PTL DEF SyncSpec

-----------------------------------------------------------------------------
(* THE BACKUP OF THE MEMORY                                                *)

ItemStates == {"absent", "pending", "indexed", "delete_pending", "deleted"}
Removed == [at |-> "removed"]
Filled == [at : {"pending", "final", "invalid", "expired"}, copy : [Items -> ItemStates] \union {<<>>},
           snap : SUBSET Items, points : Nat, files : SUBSET AllFiles, whole : BOOLEAN]
Directories == {Absent, Removed} \union Filled

Collecting == {"sqlite", "info", "snapshot", "download", "cleanup", "cleanup, failed", "abort",
               "abort, unnamed", "manifest", "publish"}
Places == Collecting \union {"verify", "prune", "remove", "done", "failed"}
Jobs == [at : Places, id : 1..MaxBackups]

BackupTypeOK ==
  /\ catalogue \in [Items -> ItemStates] /\ index \subseteq Items /\ IsFiniteSet(index)
  /\ disk \in [1..MaxBackups -> Directories]
  /\ backup \in Jobs \union {Quiet}
  /\ drill \in [at : {"selected", "verified", "done", "failed"}, id : Nat] \union {Quiet}
  /\ gauge \in [backup : Nat, drill : Nat] /\ mishaps \in [lost : Nat, spoiled : Nat]

\* The names grow with time, and what the catalogue calls indexed is.
NamesInv == \A b, c \in 1..MaxBackups : c < b /\ disk[b] # Absent => disk[c] # Absent
IndexedInv == \A i \in Items : catalogue[i] = "indexed" => i \in index

\* What directory d calls indexed is in the points S, or was given up since.
Searchable(d, S) ==
  \A i \in Items : d.copy[i] = "indexed" => i \in S \/ catalogue[i] \in {"delete_pending", "deleted"}

\* Directory d, when the backup that fills it is at p.
JobOK(p, d) ==
  /\ d # Absent
  /\ p \in Collecting => d.at = "pending"
  /\ p \in {"info", "snapshot"} => "sqlite" \in d.files /\ Searchable(d, index)
  /\ p \in {"download", "cleanup", "manifest", "publish"} => "sqlite" \in d.files /\ Searchable(d, d.snap)
  /\ p \in {"cleanup", "manifest", "publish"} => "snapshot" \in d.files
  /\ p = "publish" => d.files = AllFiles
  /\ p = "verify" => d.at = "final"
  /\ p \in {"prune", "remove", "done"} => d.at = "final" /\ d.whole

JobInv ==
  backup # Quiet =>
    JobOK(backup.at, disk[This]) /\ \A c \in 1..MaxBackups : c > This => disk[c] = Absent

FinalInv ==
  \A b \in 1..MaxBackups :
    disk[b].at = "final" => disk[b].files = AllFiles /\ Searchable(disk[b], disk[b].snap)

\* What the gauge promises does not rest on a backup that is not verified yet.
Promised(b) ==
  /\ disk[b].at = "final" /\ b >= gauge.backup /\ (b = gauge.backup => disk[b].whole)
  /\ backup # Quiet /\ backup.at \in Collecting \union {"verify"} => b # This

GaugeInv ==
  gauge.backup # 0 => /\ gauge.backup \in 1..MaxBackups /\ disk[gauge.backup] # Absent
                      /\ \E b \in 1..MaxBackups : Promised(b)

\* The snapshot that the backup will remove is not counted as lost.
Owned == IF backup # Quiet /\ backup.at \in {"download", "cleanup", "cleanup, failed"} THEN {This} ELSE {}

ServerInv == IsFiniteSet(onServer) /\ Cardinality(onServer \ Owned) <= mishaps.lost

BackupInv ==
  /\ BackupTypeOK /\ NamesInv /\ IndexedInv /\ JobInv /\ FinalInv /\ GaugeInv /\ ServerInv

-----------------------------------------------------------------------------
(* THE BACKUP OF THE SECRETS                                               *)

RaftPlaces == {"login", "stream", "revoke", "manifest", "publish", "retention", "unlink", "done", "failed"}
RaftRows == [at : RaftPlaces, id : 1..MaxRaft, error : BOOLEAN, files : SUBSET Whole, old : Nat]
Bundlings == [at : {"check", "package"}, id : Nat, newest : Nat]

RaftTypeOK ==
  /\ raftRuns \in 0..MaxRaft /\ Published \subseteq 1..raftRuns
  /\ raftDir \in [Published -> SUBSET Whole] /\ older \subseteq Published \X Published
  /\ raftRun \in RaftRows \union {RaftIdle} /\ uses \in [BundleIds -> 0..2]
  /\ raftGauge \in [ok : BOOLEAN, last : Nat]
  /\ bundling \in Bundlings \union {RaftIdle} /\ bundle \in [id : Nat, newest : Nat]

Above(b) == {c \in Published : c > b}

Early == {"login", "stream", "revoke", "manifest", "publish"}

\* The run in hand is the newest, its token is revoked before it is published,
\* and it removes only what is beyond the retention.
RunOK(r) ==
  /\ r.id = raftRuns
  /\ r.at \in Early => r.id \notin Published
  /\ r.at \in {"manifest", "publish"} => uses[r.id] = 0
  /\ r.at = "publish" => r.files = Whole
  /\ r.at \in {"retention", "unlink", "done"} => r.id \in Published
  /\ r.at = "unlink" => r.old \in Published /\ Cardinality(Above(r.old)) >= RaftKeep
  /\ r.at = "done" => Cardinality(Published) <= RaftKeep

RunningInv == raftRun # RaftIdle => RunOK(raftRun)

KeptInv == \A b \in Published : raftDir[b] # Whole => Cardinality(Above(b)) >= RaftKeep

RaftGaugeInv ==
  /\ raftGauge.last # 0 => \E b \in Published : b >= raftGauge.last
  /\ raftGauge.ok /\ raftRun = RaftIdle => Cardinality(Published) <= RaftKeep

\* A directory that still has its manifest was not touched since it was published:
\* every directory that was modified before it is of an older backup.
TimesInv ==
  \A b, c \in Published : <<b, c>> \in older /\ "manifest.json" \in raftDir[c] => b < c

\* What the bundle selected was the newest, if it still has its manifest; a name
\* does not come back.
BundleInv ==
  /\ bundle.id = bundle.newest
  /\ bundling # RaftIdle =>
       /\ bundling.id \in 1..raftRuns
       /\ Readable(bundling.id) => bundling.id = bundling.newest
       /\ raftRun # RaftIdle /\ raftRun.at \in Early => bundling.id # raftRun.id

RaftInv ==
  /\ RaftTypeOK /\ PublishedIsRevoked /\ RunningInv /\ KeptInv /\ RaftGaugeInv /\ TimesInv /\ BundleInv

-----------------------------------------------------------------------------

\* A set of numbers below a bound has a greatest one.
LEMMA GreatestNumber ==
  ASSUME NEW n \in Nat, NEW S \in SUBSET (1..n), S # {}
  PROVE  Max(S) \in S /\ \A y \in S : Max(S) >= y
PROOF
<1>1. PICK T : T = {n - x : x \in S} OBVIOUS
<1>2. T \in SUBSET Nat /\ T # {}
  <2>1. ASSUME NEW x \in S PROVE n - x \in Nat
    <3>1. x \in 1..n OBVIOUS
    <3> QED BY <3>1
  <2> QED BY <1>1, <2>1
<1>3. PICK t \in T : \A u \in T : t <= u BY <1>2, LeastNumber
<1>4. PICK x \in S : t = n - x BY <1>1
<1>5. ASSUME NEW y \in S PROVE x >= y
  <2>1. n - y \in T BY <1>1
  <2>2. n - x <= n - y BY <1>3, <1>4, <2>1
  <2> QED BY <2>2
<1>6. \E z \in S : \A y \in S : z >= y BY <1>5
<1> QED BY <1>6 DEF Max

LEMMA DirectoryFacts ==
  /\ Absent.at = "absent" /\ Removed.at = "removed" /\ Removed # Absent
  /\ \A d \in Directories : d.at \in {"pending", "final", "invalid", "expired"} => d \in Filled
  /\ \A d \in Filled : d \in Directories /\ d.at # "absent" /\ d.at # "removed" /\ d # Absent
PROOF
<1>1. Absent.at = "absent" /\ Removed.at = "removed" BY DEF Absent, Removed
<1>2. \A d \in Filled : d.at # "absent" /\ d.at # "removed" BY DEF Filled
<1> QED BY <1>1, <1>2 DEF Directories

LEMMA BackupJob ==
  ASSUME BackupInv
  PROVE  /\ backup # Quiet => backup \in Jobs /\ This \in 1..MaxBackups
         /\ backup.at # "quiet" => backup # Quiet
         /\ backup = Quiet => backup.at = "quiet"
PROOF
<1>1. Quiet.at = "quiet" BY DEF Quiet
<1>2. backup # Quiet => backup \in Jobs BY DEF BackupInv, BackupTypeOK
<1>3. backup \in Jobs => This \in 1..MaxBackups BY DEF Jobs, This
<1> QED BY <1>1, <1>2, <1>3

LEMMA ToJob ==
  ASSUME backup \in Jobs, NEW p \in Places, To(p)
  PROVE  backup' \in Jobs /\ backup'.at = p /\ backup'.id = backup.id /\ backup' # Quiet
PROOF
<1>1. PICK o \in Jobs : o = backup OBVIOUS
<1>2. backup' = [o EXCEPT !.at = p] BY <1>1 DEF To
<1>3. backup' \in Jobs BY <1>2 DEF Jobs
<1>4. backup'.at = p /\ backup'.id = o.id BY <1>2 DEF Jobs
<1>5. p # "quiet" BY DEF Places, Collecting
<1>6. Quiet.at = "quiet" BY DEF Quiet
<1> QED BY <1>1, <1>3, <1>4, <1>5, <1>6

\* A step of the backup that writes, at the most, its own directory.
LEMMA BackupStep ==
  ASSUME BackupInv, backup # Quiet, NEW b, b = This, NEW d \in Directories, NEW p \in Places,
         disk' = [disk EXCEPT ![b] = d], To(p), UNCHANGED <<catalogue, index, drill, gauge>>,
         mishaps' \in [lost : Nat, spoiled : Nat], ServerInv', JobOK(p, d),
         d.at = "final" => d.files = AllFiles /\ Searchable(d, d.snap),
         \/ p \in {"prune", "remove", "done"}
         \/ backup.at \in Collecting \union {"verify"}
         \/ d = disk[b] /\ p = "failed"
  PROVE  BackupInv'
PROOF
<1>1. /\ backup \in Jobs /\ b \in 1..MaxBackups BY BackupJob
<1>2. /\ backup' \in Jobs /\ backup'.at = p /\ backup'.id = b /\ backup' # Quiet
  BY <1>1, ToJob DEF This
<1>3. disk \in [1..MaxBackups -> Directories] BY DEF BackupInv, BackupTypeOK
<1>4. /\ disk' \in [1..MaxBackups -> Directories] /\ disk'[b] = d
      /\ \A c \in 1..MaxBackups : c # b => disk'[c] = disk[c]
  BY <1>1, <1>3
<1>5. BackupTypeOK' BY <1>2, <1>4 DEF BackupInv, BackupTypeOK
<1>6. d # Absent /\ disk[b] # Absent BY DEF BackupInv, JobInv, JobOK
<1>7. \A c \in 1..MaxBackups : disk'[c] # Absent <=> disk[c] # Absent BY <1>4, <1>6
<1>8. NamesInv' BY <1>7 DEF BackupInv, NamesInv
<1>9. IndexedInv' BY DEF BackupInv, IndexedInv
<1>10. \A x, S : Searchable(x, S) => Searchable(x, S)' BY DEF Searchable
<1>11. JobInv'
  <2>1. JobOK(p, d)' BY <1>10 DEF JobOK
  <2>2. \A c \in 1..MaxBackups : c > b => disk'[c] = Absent BY <1>7 DEF BackupInv, JobInv
  <2>3. This' = b BY <1>2 DEF This
  <2> QED BY <1>2, <1>4, <2>1, <2>2, <2>3 DEF JobInv
<1>12. ASSUME NEW c \in 1..MaxBackups, disk'[c].at = "final"
       PROVE  disk'[c].files = AllFiles /\ Searchable(disk'[c], disk'[c].snap)
  <2>1. CASE c = b BY <1>4, <1>12, <2>1
  <2>2. CASE c # b
    <3>1. disk'[c] = disk[c] BY <1>4, <2>2
    <3> QED BY <1>12, <3>1 DEF BackupInv, FinalInv
  <2> QED BY <2>1, <2>2
<1>13. FinalInv'
  <2>1. \A c \in 1..MaxBackups : disk'[c].at = "final" =>
          disk'[c].files = AllFiles /\ Searchable(disk[c], disk[c].snap)'
    BY <1>12 DEF Searchable
  <2> QED BY <2>1 DEF FinalInv
<1>14. GaugeInv'
  <2>1. SUFFICES ASSUME gauge.backup # 0
                 PROVE  /\ gauge.backup \in 1..MaxBackups /\ disk'[gauge.backup] # Absent
                        /\ \E c \in 1..MaxBackups : Promised(c)'
    BY DEF GaugeInv
  <2>2. gauge.backup \in 1..MaxBackups /\ disk[gauge.backup] # Absent BY <2>1 DEF BackupInv, GaugeInv
  <2>3. PICK c \in 1..MaxBackups : Promised(c) BY <2>1 DEF BackupInv, GaugeInv
  <2>4. CASE p \in {"prune", "remove", "done"}
    <3>1. d.at = "final" /\ d.whole BY <2>4 DEF JobOK
    <3>2. b >= gauge.backup BY <1>1, <2>2 DEF BackupInv, JobInv
    <3>3. p \notin Collecting \union {"verify"} BY <2>4 DEF Collecting
    <3>4. Promised(b)' BY <1>2, <1>4, <3>1, <3>2, <3>3 DEF Promised
    <3> QED BY <1>1, <1>7, <2>2, <3>4
  <2>5. CASE backup.at \in Collecting \union {"verify"}
    <3>1. c # b BY <2>3, <2>5 DEF Promised
    <3>2. disk'[c] = disk[c] BY <1>4, <3>1
    <3>3. Promised(c)' BY <1>2, <2>3, <3>1, <3>2 DEF Promised, This
    <3> QED BY <1>7, <2>2, <3>3
  <2>6. CASE d = disk[b] /\ p = "failed"
    <3>1. disk'[c] = disk[c] BY <1>4, <2>6
    <3>2. p \notin Collecting \union {"verify"} BY <2>6 DEF Collecting
    <3>3. Promised(c)' BY <1>2, <2>3, <3>1, <3>2 DEF Promised
    <3> QED BY <1>7, <2>2, <3>3
  <2> QED BY <2>4, <2>5, <2>6
<1> QED BY <1>5, <1>8, <1>9, <1>11, <1>13, <1>14 DEF BackupInv

\* The snapshots on the server, after a step that leaves none behind...
LEMMA ServerKept ==
  ASSUME ServerInv, mishaps \in [lost : Nat, spoiled : Nat], mishaps' \in [lost : Nat, spoiled : Nat],
         mishaps'.lost >= mishaps.lost, IsFiniteSet(onServer'),
         onServer' \ Owned' \subseteq onServer \ Owned
  PROVE  ServerInv'
PROOF
<1>1. PICK S : S = onServer \ Owned OBVIOUS
<1>2. PICK T : T = onServer' \ Owned' OBVIOUS
<1>3. IsFiniteSet(S) BY <1>1, FS_Subset DEF ServerInv
<1>4. IsFiniteSet(T) /\ Cardinality(T) <= Cardinality(S) BY <1>1, <1>2, <1>3, FS_Subset
<1>5. Cardinality(S) \in Nat /\ Cardinality(T) \in Nat BY <1>3, <1>4, FS_CardinalityType
<1>6. Cardinality(S) <= mishaps.lost /\ mishaps.lost \in Nat /\ mishaps'.lost \in Nat
  BY <1>1 DEF ServerInv
<1>7. Cardinality(T) <= mishaps'.lost BY <1>4, <1>5, <1>6
<1> QED BY <1>2, <1>7 DEF ServerInv

\* ... and one that may lose the snapshot b, which counts.
LEMMA ServerLoses ==
  ASSUME ServerInv, mishaps \in [lost : Nat, spoiled : Nat], mishaps'.lost = mishaps.lost + 1,
         IsFiniteSet(onServer'), NEW b, onServer' \ Owned' \subseteq (onServer \ Owned) \union {b}
  PROVE  ServerInv'
PROOF
<1>1. PICK S : S = onServer \ Owned OBVIOUS
<1>2. PICK T : T = onServer' \ Owned' OBVIOUS
<1>3. IsFiniteSet(S) BY <1>1, FS_Subset DEF ServerInv
<1>4. Cardinality(S) \in Nat BY <1>3, FS_CardinalityType
<1>5. /\ IsFiniteSet(S \union {b})
      /\ \/ Cardinality(S \union {b}) = Cardinality(S) + 1
         \/ Cardinality(S \union {b}) = Cardinality(S)
  BY <1>3, <1>4, FS_AddElement
<1>6. IsFiniteSet(T) /\ Cardinality(T) <= Cardinality(S \union {b}) BY <1>1, <1>2, <1>5, FS_Subset
<1>7. Cardinality(T) \in Nat BY <1>6, FS_CardinalityType
<1>8. Cardinality(S) <= mishaps.lost /\ mishaps.lost \in Nat BY <1>1 DEF ServerInv
<1>9. Cardinality(T) <= mishaps'.lost BY <1>4, <1>5, <1>6, <1>7, <1>8
<1> QED BY <1>2, <1>9 DEF ServerInv

LEMMA MishapFacts ==
  ASSUME BackupInv, NEW k \in {"lost", "spoiled"}, Mishap(k)
  PROVE  /\ mishaps' \in [lost : Nat, spoiled : Nat]
         /\ mishaps'.lost = IF k = "lost" THEN mishaps.lost + 1 ELSE mishaps.lost
PROOF
<1>1. PICK o \in [lost : Nat, spoiled : Nat] : o = mishaps BY DEF BackupInv, BackupTypeOK
<1>2. mishaps' = [o EXCEPT ![k] = o[k] + 1] BY <1>1 DEF Mishap
<1>3. CASE k = "lost" BY <1>1, <1>2, <1>3
<1>4. CASE k = "spoiled" BY <1>1, <1>2, <1>4
<1> QED BY <1>3, <1>4

LEMMA ServerFacts ==
  ASSUME BackupInv
  PROVE  /\ ServerInv /\ IsFiniteSet(onServer) /\ mishaps \in [lost : Nat, spoiled : Nat]
         /\ mishaps.lost \in Nat
BY DEF BackupInv, BackupTypeOK, ServerInv

LEMMA CollectingFacts ==
  ASSUME BackupInv, backup.at \in Collecting
  PROVE  /\ backup # Quiet /\ backup \in Jobs /\ This \in 1..MaxBackups
         /\ disk[This] \in Filled /\ disk[This].at = "pending" /\ JobOK(backup.at, disk[This])
PROOF
<1>1. backup.at # "quiet" BY DEF Collecting
<1>2. backup # Quiet /\ backup \in Jobs /\ This \in 1..MaxBackups BY <1>1, BackupJob
<1>3. JobOK(backup.at, disk[This]) BY <1>2 DEF BackupInv, JobInv
<1>4. disk[This].at = "pending" BY <1>3 DEF JobOK
<1>5. disk[This] \in Directories BY <1>2 DEF BackupInv, BackupTypeOK
<1> QED BY <1>2, <1>3, <1>4, <1>5, DirectoryFacts

LEMMA OwnedFacts ==
  ASSUME backup \in Jobs, backup # Quiet, NEW p \in Places, To(p)
  PROVE  /\ Owned = IF backup.at \in {"download", "cleanup", "cleanup, failed"} THEN {This} ELSE {}
         /\ Owned' = IF p \in {"download", "cleanup", "cleanup, failed"} THEN {This} ELSE {}
PROOF
<1>1. backup'.at = p /\ backup'.id = backup.id /\ backup' # Quiet BY ToJob
<1> QED BY <1>1 DEF Owned, This

\* A step of the backup while its directory is pending.
LEMMA CollectStep ==
  ASSUME BackupInv, backup.at \in Collecting, NEW b, b = This, NEW d \in Filled, d.at = "pending",
         NEW p \in Places, disk' = [disk EXCEPT ![b] = d], To(p),
         UNCHANGED <<catalogue, index, drill, gauge>>,
         mishaps' \in [lost : Nat, spoiled : Nat], ServerInv', JobOK(p, d)
  PROVE  BackupInv'
PROOF
<1>1. backup # Quiet BY CollectingFacts
<1>2. d \in Directories /\ d.at # "final" BY DirectoryFacts
<1> QED BY <1>1, <1>2, BackupStep

LEMMA CopySqlite_Inv == ASSUME BackupInv, CopySqlite PROVE BackupInv'
PROOF
<1>1. /\ backup.at = "sqlite" /\ To("info") /\ UNCHANGED <<catalogue, index, onServer, drill, gauge, mishaps>>
      /\ disk' = [disk EXCEPT ![This].copy = catalogue, ![This].files = @ \union {"sqlite"}]
  BY DEF CopySqlite
<1>2. backup.at \in Collecting BY <1>1 DEF Collecting
<1>3. /\ backup # Quiet /\ backup \in Jobs /\ This \in 1..MaxBackups
      /\ disk[This] \in Filled /\ disk[This].at = "pending"
  BY <1>2, CollectingFacts
<1>4. PICK b \in 1..MaxBackups : b = This BY <1>3
<1>5. PICK o \in Filled : o = disk[b] BY <1>3, <1>4
<1>6. PICK d : d = [o EXCEPT !.copy = catalogue, !.files = o.files \union {"sqlite"}] OBVIOUS
<1>7. catalogue \in [Items -> ItemStates] BY DEF BackupInv, BackupTypeOK
<1>8. d \in Filled BY <1>6, <1>7 DEF Filled, AllFiles
<1>9. d.at = "pending" /\ d.copy = catalogue /\ "sqlite" \in d.files BY <1>3, <1>4, <1>5, <1>6 DEF Filled
<1>10. disk' = [disk EXCEPT ![b] = d]
  <2>1. disk \in [1..MaxBackups -> Directories] BY DEF BackupInv, BackupTypeOK
  <2>2. PICK y : y = [o EXCEPT !.copy = catalogue] OBVIOUS
  <2>3. y.files = o.files BY <2>2 DEF Filled
  <2>4. d = [y EXCEPT !.files = y.files \union {"sqlite"}] BY <1>6, <2>2, <2>3
  <2>5. PICK z : z = [disk EXCEPT ![b] = y] OBVIOUS
  <2>6. z[b] = y /\ z \in [1..MaxBackups -> Directories \union {y}] BY <2>1, <2>5
  <2>7. disk' = [z EXCEPT ![b] = [z[b] EXCEPT !.files = z[b].files \union {"sqlite"}]]
    BY <1>1, <1>4, <1>5, <2>2, <2>5
  <2>8. disk' = [z EXCEPT ![b] = d] BY <2>4, <2>6, <2>7
  <2> QED BY <2>1, <2>5, <2>8
<1>11. Searchable(d, index) BY <1>9 DEF BackupInv, IndexedInv, Searchable
<1>12. JobOK("info", d) BY <1>8, <1>9, <1>11, DirectoryFacts DEF JobOK
<1>13. "info" \in Places BY DEF Places, Collecting
<1>14. Owned = {} /\ Owned' = {} BY <1>1, <1>3, <1>13, OwnedFacts
<1>15. mishaps' = mishaps /\ onServer' = onServer BY <1>1
<1>16. ServerInv' BY <1>14, <1>15, ServerFacts DEF ServerInv
<1> QED BY <1>1, <1>2, <1>4, <1>8, <1>9, <1>10, <1>12, <1>13, <1>15, <1>16, CollectStep, ServerFacts

\* The same, when the directory is left as it is.
LEMMA CollectGoes ==
  ASSUME BackupInv, backup.at \in Collecting, NEW p \in Places, UNCHANGED disk, To(p),
         UNCHANGED <<catalogue, index, drill, gauge>>,
         mishaps' \in [lost : Nat, spoiled : Nat], ServerInv', JobOK(p, disk[This])
  PROVE  BackupInv'
PROOF
<1>1. This \in 1..MaxBackups /\ disk[This] \in Filled /\ disk[This].at = "pending" BY CollectingFacts
<1>2. PICK b \in 1..MaxBackups : b = This BY <1>1
<1>3. PICK d \in Filled : d = disk[b] BY <1>1, <1>2
<1>4. disk' = [disk EXCEPT ![b] = d] BY <1>2, <1>3 DEF BackupInv, BackupTypeOK
<1>5. d.at = "pending" /\ JobOK(p, d) BY <1>1, <1>2, <1>3
<1> QED BY <1>2, <1>4, <1>5, CollectStep

LEMMA CollectionInfo_Inv == ASSUME BackupInv, CollectionInfo PROVE BackupInv'
PROOF
<1>1. /\ backup.at = "info" /\ To("snapshot")
      /\ UNCHANGED <<catalogue, index, onServer, drill, gauge, mishaps>>
      /\ disk' = [disk EXCEPT ![This]["points"] = Cardinality(index)]
  BY DEF CollectionInfo, Put
<1>2. backup.at \in Collecting BY <1>1 DEF Collecting
<1>3. /\ backup # Quiet /\ backup \in Jobs /\ This \in 1..MaxBackups
      /\ disk[This] \in Filled /\ disk[This].at = "pending" /\ JobOK("info", disk[This])
  BY <1>1, <1>2, CollectingFacts
<1>4. PICK b \in 1..MaxBackups : b = This BY <1>3
<1>5. PICK o \in Filled : o = disk[b] BY <1>3, <1>4
<1>6. PICK n \in Nat : n = Cardinality(index) BY FS_CardinalityType DEF BackupInv, BackupTypeOK
<1>7. PICK d : d = [o EXCEPT !.points = n] OBVIOUS
<1>8. d \in Filled BY <1>7 DEF Filled
<1>9. d.at = "pending" /\ d.copy = o.copy /\ d.files = o.files BY <1>3, <1>4, <1>5, <1>7 DEF Filled
<1>10. disk' = [disk EXCEPT ![b] = d] BY <1>1, <1>4, <1>5, <1>6, <1>7
<1>11. "sqlite" \in d.files /\ Searchable(d, index) BY <1>3, <1>4, <1>5, <1>9 DEF JobOK, Searchable
<1>12. JobOK("snapshot", d) BY <1>8, <1>9, <1>11, DirectoryFacts DEF JobOK
<1>13. "snapshot" \in Places BY DEF Places, Collecting
<1>14. Owned = {} /\ Owned' = {} BY <1>1, <1>3, <1>13, OwnedFacts
<1>15. mishaps' = mishaps /\ onServer' = onServer BY <1>1
<1>16. ServerInv' BY <1>14, <1>15, ServerFacts DEF ServerInv
<1> QED BY <1>1, <1>2, <1>4, <1>8, <1>9, <1>10, <1>12, <1>13, <1>15, <1>16, CollectStep, ServerFacts

LEMMA CreateSnapshot_Inv == ASSUME BackupInv, CreateSnapshot PROVE BackupInv'
PROOF
<1>1. backup.at = "snapshot" /\ UNCHANGED <<catalogue, index, drill, gauge>> BY DEF CreateSnapshot
<1>2. backup.at \in Collecting BY <1>1 DEF Collecting
<1>3. /\ backup # Quiet /\ backup \in Jobs /\ This \in 1..MaxBackups
      /\ disk[This] \in Filled /\ disk[This].at = "pending" /\ JobOK("snapshot", disk[This])
  BY <1>1, <1>2, CollectingFacts
<1>4. PICK b \in 1..MaxBackups : b = This BY <1>3
<1>5. /\ ServerInv /\ IsFiniteSet(onServer) /\ mishaps \in [lost : Nat, spoiled : Nat]
      /\ mishaps.lost \in Nat
  BY ServerFacts
<1>6. IsFiniteSet(onServer \union {b}) BY <1>5, FS_AddElement
<1>7. CASE /\ disk' = [disk EXCEPT ![b]["snap"] = index] /\ onServer' = onServer \union {b}
           /\ To("download") /\ UNCHANGED mishaps
  <2>1. PICK o \in Filled : o = disk[b] BY <1>3, <1>4
  <2>2. PICK d : d = [o EXCEPT !.snap = index] OBVIOUS
  <2>3. index \in SUBSET Items BY DEF BackupInv, BackupTypeOK
  <2>4. d \in Filled BY <2>2, <2>3 DEF Filled
  <2>5. d.at = "pending" /\ d.copy = o.copy /\ d.files = o.files /\ d.snap = index
    BY <1>3, <1>4, <2>1, <2>2 DEF Filled
  <2>6. disk' = [disk EXCEPT ![b] = d] BY <1>7, <2>1, <2>2
  <2>7. "sqlite" \in d.files /\ Searchable(d, d.snap) BY <1>3, <1>4, <2>1, <2>5 DEF JobOK, Searchable
  <2>8. JobOK("download", d) BY <2>4, <2>5, <2>7, DirectoryFacts DEF JobOK
  <2>9. "download" \in Places BY DEF Places, Collecting
  <2>10. Owned = {} /\ Owned' = {b} BY <1>1, <1>3, <1>4, <1>7, <2>9, OwnedFacts
  <2>11. mishaps'.lost >= mishaps.lost BY <1>5, <1>7
  <2>12. ServerInv' BY <1>5, <1>6, <1>7, <2>10, <2>11, ServerKept
  <2> QED BY <1>1, <1>2, <1>4, <1>5, <1>7, <2>4, <2>5, <2>6, <2>8, <2>9, <2>12, CollectStep
<1>8. CASE /\ Mishap("lost") /\ onServer' \in {onServer, onServer \union {b}}
           /\ To("abort, unnamed") /\ UNCHANGED disk
  <2>1. mishaps' \in [lost : Nat, spoiled : Nat] /\ mishaps'.lost = mishaps.lost + 1
    BY <1>8, MishapFacts
  <2>2. "abort, unnamed" \in Places BY DEF Places, Collecting
  <2>3. Owned = {} BY <1>1, <1>3, <1>8, <2>2, OwnedFacts
  <2>4. ServerInv' BY <1>5, <1>6, <1>8, <2>1, <2>3, ServerLoses
  <2>5. JobOK("abort, unnamed", disk[This]) BY <1>3 DEF JobOK
  <2> QED BY <1>1, <1>2, <1>8, <2>1, <2>2, <2>4, <2>5, CollectGoes
<1> QED BY <1>4, <1>7, <1>8 DEF CreateSnapshot, Put

LEMMA Download_Inv == ASSUME BackupInv, Download PROVE BackupInv'
PROOF
<1>1. backup.at = "download" /\ UNCHANGED <<catalogue, index, onServer, drill, gauge>> BY DEF Download
<1>2. backup.at \in Collecting BY <1>1 DEF Collecting
<1>3. /\ backup # Quiet /\ backup \in Jobs /\ This \in 1..MaxBackups
      /\ disk[This] \in Filled /\ disk[This].at = "pending" /\ JobOK("download", disk[This])
  BY <1>1, <1>2, CollectingFacts
<1>4. PICK b \in 1..MaxBackups : b = This BY <1>3
<1>5. /\ ServerInv /\ IsFiniteSet(onServer) /\ mishaps \in [lost : Nat, spoiled : Nat]
      /\ mishaps.lost \in Nat
  BY ServerFacts
<1>6. CASE /\ disk' = [disk EXCEPT ![b].files = @ \union {"snapshot"}]
           /\ To("cleanup") /\ UNCHANGED mishaps
  <2>1. PICK o \in Filled : o = disk[b] BY <1>3, <1>4
  <2>2. PICK d : d = [o EXCEPT !.files = o.files \union {"snapshot"}] OBVIOUS
  <2>3. d \in Filled BY <2>2 DEF Filled, AllFiles
  <2>4. d.at = "pending" /\ d.copy = o.copy /\ d.files = o.files \union {"snapshot"} /\ d.snap = o.snap
    BY <1>3, <1>4, <2>1, <2>2 DEF Filled
  <2>5. disk' = [disk EXCEPT ![b] = d] BY <1>6, <2>1, <2>2
  <2>6. /\ "sqlite" \in d.files /\ "snapshot" \in d.files /\ Searchable(d, d.snap)
    BY <1>3, <1>4, <2>1, <2>4 DEF JobOK, Searchable
  <2>7. JobOK("cleanup", d) BY <2>3, <2>4, <2>6, DirectoryFacts DEF JobOK
  <2>8. "cleanup" \in Places BY DEF Places, Collecting
  <2>9. Owned = {b} /\ Owned' = {b} BY <1>1, <1>3, <1>4, <1>6, <2>8, OwnedFacts
  <2>10. ServerInv' BY <1>1, <1>5, <1>6, <2>9 DEF ServerInv
  <2> QED BY <1>1, <1>2, <1>4, <1>5, <1>6, <2>3, <2>4, <2>5, <2>7, <2>8, <2>10, CollectStep
<1>7. CASE Mishap("spoiled") /\ To("cleanup, failed") /\ UNCHANGED disk
  <2>1. mishaps' \in [lost : Nat, spoiled : Nat] /\ mishaps'.lost = mishaps.lost BY <1>7, MishapFacts
  <2>2. "cleanup, failed" \in Places BY DEF Places, Collecting
  <2>3. Owned = {b} /\ Owned' = {b} BY <1>1, <1>3, <1>4, <1>7, <2>2, OwnedFacts
  <2>4. ServerInv' BY <1>1, <1>5, <2>1, <2>3 DEF ServerInv
  <2>5. JobOK("cleanup, failed", disk[This]) BY <1>3 DEF JobOK
  <2> QED BY <1>1, <1>2, <1>7, <2>1, <2>2, <2>4, <2>5, CollectGoes
<1> QED BY <1>4, <1>6, <1>7 DEF Download

LEMMA DeleteSnapshot_Inv == ASSUME BackupInv, DeleteSnapshot PROVE BackupInv'
PROOF
<1>1. /\ backup.at \in {"cleanup", "cleanup, failed"} /\ onServer' = onServer \ {This}
      /\ UNCHANGED <<catalogue, index, disk, drill, gauge, mishaps>>
  BY DEF DeleteSnapshot
<1>2. backup.at \in Collecting BY <1>1 DEF Collecting
<1>3. /\ backup # Quiet /\ backup \in Jobs /\ disk[This].at = "pending" /\ JobOK(backup.at, disk[This])
  BY <1>2, CollectingFacts
<1>4. PICK p \in Places : p = IF backup.at = "cleanup" THEN "manifest" ELSE "abort, unnamed"
  BY DEF Places, Collecting
<1>5. To(p) BY <1>4 DEF DeleteSnapshot
<1>6. /\ ServerInv /\ IsFiniteSet(onServer) /\ mishaps \in [lost : Nat, spoiled : Nat]
      /\ mishaps.lost \in Nat
  BY ServerFacts
<1>7. Owned = {This} /\ Owned' = {} BY <1>1, <1>3, <1>4, <1>5, OwnedFacts
<1>8. ServerInv'
  <2>1. IsFiniteSet(onServer') BY <1>1, <1>6, FS_Subset
  <2>2. mishaps' = mishaps BY <1>1
  <2>3. mishaps'.lost >= mishaps.lost BY <1>6, <2>2
  <2>4. onServer' \ Owned' \subseteq onServer \ Owned BY <1>1, <1>7
  <2> QED BY <1>6, <2>1, <2>2, <2>3, <2>4, ServerKept
<1>9. JobOK(p, disk[This]) BY <1>1, <1>3, <1>4 DEF JobOK
<1> QED BY <1>1, <1>2, <1>5, <1>6, <1>8, <1>9, CollectGoes

LEMMA DeleteSnapshotFails_Inv == ASSUME BackupInv, DeleteSnapshotFails PROVE BackupInv'
PROOF
<1>1. /\ backup.at \in {"cleanup", "cleanup, failed"} /\ onServer' \in {onServer, onServer \ {This}}
      /\ Mishap("lost") /\ To("abort") /\ UNCHANGED <<catalogue, index, disk, drill, gauge>>
  BY DEF DeleteSnapshotFails
<1>2. backup.at \in Collecting BY <1>1 DEF Collecting
<1>3. /\ backup # Quiet /\ backup \in Jobs /\ disk[This].at = "pending" /\ JobOK(backup.at, disk[This])
  BY <1>2, CollectingFacts
<1>4. "abort" \in Places BY DEF Places, Collecting
<1>5. /\ ServerInv /\ IsFiniteSet(onServer) /\ mishaps \in [lost : Nat, spoiled : Nat]
  BY ServerFacts
<1>6. mishaps' \in [lost : Nat, spoiled : Nat] /\ mishaps'.lost = mishaps.lost + 1
  BY <1>1, MishapFacts
<1>7. Owned = {This} BY <1>1, <1>3, <1>4, OwnedFacts
<1>8. IsFiniteSet(onServer') BY <1>1, <1>5, FS_Subset
<1>9. PICK b : b = This OBVIOUS
<1>10. ServerInv' BY <1>1, <1>5, <1>6, <1>7, <1>8, <1>9, ServerLoses
<1>11. JobOK("abort", disk[This]) BY <1>3 DEF JobOK
<1> QED BY <1>1, <1>2, <1>4, <1>6, <1>10, <1>11, CollectGoes

LEMMA Manifest_Inv == ASSUME BackupInv, Manifest PROVE BackupInv'
PROOF
<1>1. /\ backup.at = "manifest" /\ To("publish") /\ UNCHANGED <<catalogue, index, onServer, drill, gauge>>
  BY DEF Manifest
<1>2. backup.at \in Collecting BY <1>1 DEF Collecting
<1>3. /\ backup # Quiet /\ backup \in Jobs /\ This \in 1..MaxBackups
      /\ disk[This] \in Filled /\ disk[This].at = "pending" /\ JobOK("manifest", disk[This])
  BY <1>1, <1>2, CollectingFacts
<1>4. PICK b \in 1..MaxBackups : b = This BY <1>3
<1>5. PICK ok \in BOOLEAN :
        /\ disk' = [disk EXCEPT ![b].files = @ \union {"manifest"}, ![b].whole = ok]
        /\ IF ok THEN UNCHANGED mishaps ELSE Mishap("spoiled")
  BY <1>4 DEF Manifest
<1>6. PICK o \in Filled : o = disk[b] BY <1>3, <1>4
<1>7. PICK y : y = [o EXCEPT !.files = o.files \union {"manifest"}] OBVIOUS
<1>8. y \in Filled BY <1>7 DEF Filled, AllFiles
<1>9. /\ y.at = "pending" /\ y.copy = o.copy /\ y.files = o.files \union {"manifest"} /\ y.snap = o.snap
  BY <1>3, <1>4, <1>6, <1>7 DEF Filled
<1>10. PICK d : d = [y EXCEPT !.whole = ok] OBVIOUS
<1>11. d \in Filled BY <1>8, <1>10 DEF Filled
<1>12. d.at = "pending" /\ d.copy = o.copy /\ d.files = y.files /\ d.snap = o.snap
  BY <1>8, <1>9, <1>10 DEF Filled
<1>13. disk' = [disk EXCEPT ![b] = d]
  <2>1. disk \in [1..MaxBackups -> Directories] BY DEF BackupInv, BackupTypeOK
  <2>2. PICK z : z = [disk EXCEPT ![b] = y] OBVIOUS
  <2>3. z[b] = y BY <2>1, <2>2
  <2>4. disk' = [z EXCEPT ![b] = [z[b] EXCEPT !.whole = ok]] BY <1>5, <1>6, <1>7, <2>2
  <2>5. disk' = [z EXCEPT ![b] = d] BY <1>10, <2>3, <2>4
  <2> QED BY <2>1, <2>2, <2>5
<1>14. "sqlite" \in o.files /\ "snapshot" \in o.files /\ Searchable(o, o.snap)
  BY <1>3, <1>4, <1>6 DEF JobOK
<1>15. d.files = AllFiles
  <2>1. d.files \subseteq AllFiles BY <1>11 DEF Filled
  <2> QED BY <1>9, <1>12, <1>14, <2>1 DEF AllFiles
<1>16. Searchable(d, d.snap) BY <1>12, <1>14 DEF Searchable
<1>17. "sqlite" \in d.files /\ "snapshot" \in d.files BY <1>15 DEF AllFiles
<1>18. JobOK("publish", d) BY <1>11, <1>12, <1>15, <1>16, <1>17, DirectoryFacts DEF JobOK
<1>19. mishaps' \in [lost : Nat, spoiled : Nat] /\ mishaps'.lost = mishaps.lost
  BY <1>5, MishapFacts, ServerFacts
<1>20. "publish" \in Places BY DEF Places, Collecting
<1>21. Owned = {} /\ Owned' = {} BY <1>1, <1>3, <1>20, OwnedFacts
<1>22. ServerInv' BY <1>1, <1>19, <1>21, ServerFacts DEF ServerInv
<1> QED BY <1>1, <1>2, <1>4, <1>11, <1>12, <1>13, <1>18, <1>19, <1>20, <1>22, CollectStep

LEMMA Publish_Inv == ASSUME BackupInv, Publish PROVE BackupInv'
PROOF
<1>1. /\ backup.at = "publish" /\ To("verify") /\ UNCHANGED <<catalogue, index, onServer, drill, gauge, mishaps>>
      /\ disk' = [disk EXCEPT ![This]["at"] = "final"]
  BY DEF Publish, Put
<1>2. backup.at \in Collecting BY <1>1 DEF Collecting
<1>3. /\ backup # Quiet /\ backup \in Jobs /\ This \in 1..MaxBackups
      /\ disk[This] \in Filled /\ JobOK("publish", disk[This])
  BY <1>1, <1>2, CollectingFacts
<1>4. PICK b \in 1..MaxBackups : b = This BY <1>3
<1>5. PICK o \in Filled : o = disk[b] BY <1>3, <1>4
<1>6. PICK d : d = [o EXCEPT !.at = "final"] OBVIOUS
<1>7. d \in Filled BY <1>6 DEF Filled
<1>8. d.at = "final" /\ d.copy = o.copy /\ d.files = o.files /\ d.snap = o.snap BY <1>6 DEF Filled
<1>9. disk' = [disk EXCEPT ![b] = d] BY <1>1, <1>4, <1>5, <1>6
<1>10. o.files = AllFiles /\ Searchable(o, o.snap) BY <1>3, <1>4, <1>5 DEF JobOK
<1>11. d.files = AllFiles /\ Searchable(d, d.snap) BY <1>8, <1>10 DEF Searchable
<1>12. "verify" \in Places /\ "verify" \notin Collecting BY DEF Places, Collecting
<1>13. d # Absent /\ d \in Directories BY <1>7, DirectoryFacts
<1>14. JobOK("verify", d) BY <1>8, <1>12, <1>13 DEF JobOK
<1>15. Owned = {} /\ Owned' = {} BY <1>1, <1>3, <1>12, OwnedFacts
<1>16. mishaps' = mishaps /\ onServer' = onServer BY <1>1
<1>17. ServerInv' BY <1>15, <1>16, ServerFacts DEF ServerInv
<1>18. mishaps' \in [lost : Nat, spoiled : Nat] BY <1>16, ServerFacts
<1> QED BY <1>1, <1>2, <1>3, <1>4, <1>9, <1>11, <1>12, <1>13, <1>14, <1>17, <1>18, BackupStep

LEMMA Verify_Inv == ASSUME BackupInv, Verify PROVE BackupInv'
PROOF
<1>1. backup.at = "verify" /\ UNCHANGED <<catalogue, index, onServer, drill, gauge, mishaps>> BY DEF Verify
<1>2. backup # Quiet /\ backup \in Jobs /\ This \in 1..MaxBackups BY <1>1, BackupJob
<1>3. PICK b \in 1..MaxBackups : b = This BY <1>2
<1>4. disk[b].at = "final" BY <1>1, <1>2, <1>3 DEF BackupInv, JobInv, JobOK
<1>5. disk \in [1..MaxBackups -> Directories] BY DEF BackupInv, BackupTypeOK
<1>6. PICK o \in Filled : o = disk[b] BY <1>4, <1>5, DirectoryFacts
<1>7. mishaps' = mishaps /\ onServer' = onServer /\ mishaps' \in [lost : Nat, spoiled : Nat]
  BY <1>1, ServerFacts
<1>8. "verify" \notin Collecting /\ "prune" \in Places /\ "failed" \in Places /\ "prune" \notin Collecting
      /\ "failed" \notin Collecting
  BY DEF Places, Collecting
<1>9. CASE Verifies(b) /\ To("prune") /\ UNCHANGED disk
  <2>1. disk' = [disk EXCEPT ![b] = o] BY <1>5, <1>6, <1>9
  <2>2. o.at = "final" /\ o.whole BY <1>6, <1>9 DEF Verifies
  <2>3. o # Absent /\ o \in Directories BY <1>6, DirectoryFacts
  <2>4. JobOK("prune", o) BY <1>8, <2>2, <2>3 DEF JobOK
  <2>5. o.files = AllFiles /\ Searchable(o, o.snap) BY <1>4, <1>6 DEF BackupInv, FinalInv
  <2>6. Owned = {} /\ Owned' = {} BY <1>1, <1>2, <1>8, <1>9, OwnedFacts
  <2>7. ServerInv' BY <1>7, <2>6, ServerFacts DEF ServerInv
  <2> QED BY <1>1, <1>2, <1>3, <1>7, <1>8, <1>9, <2>1, <2>3, <2>4, <2>5, <2>7, BackupStep
<1>10. CASE disk' = [disk EXCEPT ![b]["at"] = "invalid"] /\ To("failed")
  <2>1. PICK d : d = [o EXCEPT !.at = "invalid"] OBVIOUS
  <2>2. d \in Filled BY <2>1 DEF Filled
  <2>3. d.at = "invalid" BY <2>1 DEF Filled
  <2>4. disk' = [disk EXCEPT ![b] = d] BY <1>6, <1>10, <2>1
  <2>5. d # Absent /\ d \in Directories BY <2>2, DirectoryFacts
  <2>6. JobOK("failed", d) BY <1>8, <2>5 DEF JobOK
  <2>7. Owned = {} /\ Owned' = {} BY <1>1, <1>2, <1>8, <1>10, OwnedFacts
  <2>8. ServerInv' BY <1>7, <2>7, ServerFacts DEF ServerInv
  <2> QED BY <1>1, <1>2, <1>3, <1>7, <1>8, <1>10, <2>3, <2>4, <2>5, <2>6, <2>8, BackupStep
<1> QED BY <1>3, <1>9, <1>10 DEF Verify, Put

LEMMA Abort_Inv == ASSUME BackupInv, Abort PROVE BackupInv'
PROOF
<1>1. /\ backup.at \in {"abort", "abort, unnamed"} /\ To("failed")
      /\ disk' = [disk EXCEPT ![This] = Removed] /\ UNCHANGED <<catalogue, index, drill, gauge>>
  BY DEF Abort, Removed
<1>2. backup.at \in Collecting BY <1>1 DEF Collecting
<1>3. backup # Quiet /\ backup \in Jobs BY <1>2, CollectingFacts
<1>4. PICK b : b = This OBVIOUS
<1>5. onServer' \subseteq onServer /\ (UNCHANGED mishaps \/ Mishap("lost")) BY DEF Abort
<1>6. /\ ServerInv /\ IsFiniteSet(onServer) /\ mishaps \in [lost : Nat, spoiled : Nat]
      /\ mishaps.lost \in Nat
  BY ServerFacts
<1>7. mishaps' \in [lost : Nat, spoiled : Nat] /\ mishaps'.lost >= mishaps.lost
  <2>1. CASE mishaps' = mishaps BY <1>6, <2>1
  <2>2. CASE Mishap("lost")
    <3>1. mishaps' \in [lost : Nat, spoiled : Nat] /\ mishaps'.lost = mishaps.lost + 1
      BY <2>2, MishapFacts
    <3> QED BY <1>6, <3>1
  <2> QED BY <1>5, <2>1, <2>2
<1>8. "failed" \in Places /\ "failed" \notin Collecting BY DEF Places, Collecting
<1>9. Owned = {} BY <1>1, <1>3, <1>8, OwnedFacts
<1>10. IsFiniteSet(onServer') BY <1>5, <1>6, FS_Subset
<1>11. ServerInv' BY <1>5, <1>6, <1>7, <1>9, <1>10, ServerKept
<1>12. Removed \in Directories /\ Removed # Absent /\ Removed.at = "removed"
  BY DirectoryFacts DEF Directories
<1>13. JobOK("failed", Removed) BY <1>8, <1>12 DEF JobOK
<1> QED BY <1>1, <1>2, <1>3, <1>4, <1>7, <1>8, <1>11, <1>12, <1>13, BackupStep

LEMMA BackupKilled_Inv == ASSUME BackupInv, BackupKilled PROVE BackupInv'
PROOF
<1>1. /\ backup # Quiet /\ Mishap("lost") /\ To("failed")
      /\ UNCHANGED <<catalogue, index, disk, onServer, drill, gauge>>
  BY DEF BackupKilled
<1>2. backup \in Jobs /\ This \in 1..MaxBackups BY <1>1, BackupJob
<1>3. PICK b \in 1..MaxBackups : b = This BY <1>2
<1>4. disk \in [1..MaxBackups -> Directories] BY DEF BackupInv, BackupTypeOK
<1>5. PICK d \in Directories : d = disk[b] BY <1>4
<1>6. disk' = [disk EXCEPT ![b] = d] BY <1>1, <1>4, <1>5
<1>7. "failed" \in Places /\ "failed" \notin Collecting BY DEF Places, Collecting
<1>8. d # Absent BY <1>1, <1>3, <1>5 DEF BackupInv, JobInv, JobOK
<1>9. JobOK("failed", d) BY <1>7, <1>8 DEF JobOK
<1>10. mishaps' \in [lost : Nat, spoiled : Nat] /\ mishaps'.lost = mishaps.lost + 1
  BY <1>1, MishapFacts
<1>11. Owned \subseteq {b} BY <1>3 DEF Owned
<1>12. onServer' \ Owned' \subseteq (onServer \ Owned) \union {b} BY <1>1, <1>11
<1>13. onServer' = onServer BY <1>1
<1>14. ServerInv' BY <1>10, <1>12, <1>13, ServerFacts, ServerLoses
<1>15. d.at = "final" => d.files = AllFiles /\ Searchable(d, d.snap) BY <1>5 DEF BackupInv, FinalInv
<1> QED BY <1>1, <1>3, <1>5, <1>6, <1>7, <1>9, <1>10, <1>14, <1>15, BackupStep

\* A step of the retention: it writes only directories that lose their name.
LEMMA RetentionStep ==
  ASSUME BackupInv, backup.at \in {"prune", "remove"}, NEW p \in {"prune", "remove", "done"}, To(p),
         disk' \in [1..MaxBackups -> Directories], disk'[This] = disk[This],
         \A c \in 1..MaxBackups : disk'[c] # Absent <=> disk[c] # Absent,
         \A c \in 1..MaxBackups : disk'[c].at = "final" => disk'[c] = disk[c],
         UNCHANGED <<catalogue, index, onServer, drill, gauge, mishaps>>
  PROVE  BackupInv'
PROOF
<1>1. backup # Quiet /\ backup \in Jobs /\ This \in 1..MaxBackups BY BackupJob
<1>2. PICK b \in 1..MaxBackups : b = This BY <1>1
<1>3. p \in Places /\ p \notin Collecting /\ p # "verify" BY DEF Places, Collecting
<1>4. backup' \in Jobs /\ backup'.at = p /\ backup'.id = b /\ backup' # Quiet
  BY <1>1, <1>2, <1>3, ToJob DEF This
<1>5. BackupTypeOK' BY <1>4 DEF BackupInv, BackupTypeOK
<1>6. NamesInv' BY DEF BackupInv, NamesInv
<1>7. IndexedInv' BY DEF BackupInv, IndexedInv
<1>8. \A x, S : Searchable(x, S) => Searchable(x, S)' BY DEF Searchable
<1>9. PICK d : d = disk[b] OBVIOUS
<1>10. d # Absent /\ d.at = "final" /\ d.whole BY <1>1, <1>2, <1>9 DEF BackupInv, JobInv, JobOK
<1>11. disk'[b] = d BY <1>2, <1>9
<1>12. JobInv'
  <2>1. This' = b BY <1>4 DEF This
  <2>2. JobOK(p, d)' BY <1>3, <1>10 DEF JobOK
  <2>3. \A c \in 1..MaxBackups : c > b => disk'[c] = Absent BY <1>1, <1>2 DEF BackupInv, JobInv
  <2> QED BY <1>4, <1>11, <2>1, <2>2, <2>3 DEF JobInv
<1>13. FinalInv'
  <2>1. ASSUME NEW c \in 1..MaxBackups, disk'[c].at = "final"
        PROVE  disk'[c].files = AllFiles /\ Searchable(disk[c], disk[c].snap)'
    <3>1. disk'[c] = disk[c] BY <2>1
    <3>2. disk[c].files = AllFiles /\ Searchable(disk[c], disk[c].snap)
      BY <2>1, <3>1 DEF BackupInv, FinalInv
    <3> QED BY <3>1, <3>2 DEF Searchable
  <2> QED BY <2>1 DEF FinalInv
<1>14. GaugeInv'
  <2>1. SUFFICES ASSUME gauge.backup # 0
                 PROVE  /\ gauge.backup \in 1..MaxBackups /\ disk'[gauge.backup] # Absent
                        /\ \E c \in 1..MaxBackups : Promised(c)'
    BY DEF GaugeInv
  <2>2. gauge.backup \in 1..MaxBackups /\ disk[gauge.backup] # Absent BY <2>1 DEF BackupInv, GaugeInv
  <2>3. b >= gauge.backup BY <1>1, <1>2, <2>2 DEF BackupInv, JobInv
  <2>4. Promised(b)' BY <1>3, <1>4, <1>10, <1>11, <2>3 DEF Promised
  <2> QED BY <2>2, <2>4
<1>15. Owned = {} /\ Owned' = {} BY <1>1, <1>3, OwnedFacts
<1>16. ServerInv' BY <1>15, ServerFacts DEF ServerInv
<1> QED BY <1>5, <1>6, <1>7, <1>12, <1>13, <1>14, <1>16 DEF BackupInv

\* What expires is another backup than the one that was verified.
LEMMA ExpiredFacts ==
  ASSUME BackupInv, NEW b \in Expired
  PROVE  b \in 1..MaxBackups /\ b # This /\ disk[b].at = "final"
PROOF
<1>1. b = Min(Others) /\ Cardinality(Others) + 1 > Retain BY DEF Expired
<1>2. Others # {}
  <2>1. ASSUME Others = {} PROVE FALSE
    <3>1. Cardinality(Others) = 0 BY <2>1, FS_EmptySet
    <3> QED BY <1>1, <3>1, RetainAssumption
  <2> QED BY <2>1
<1>3. DOMAIN disk = 1..MaxBackups BY DEF BackupInv, BackupTypeOK
<1>4. Others \subseteq 1..MaxBackups BY <1>3 DEF Others, Final
<1>5. 1..MaxBackups \subseteq Nat BY RetainAssumption
<1>6. \E i \in Others : \A j \in Others : i <= j BY <1>2, <1>4, <1>5, LeastNumber
<1>7. b \in Others BY <1>1, <1>6 DEF Min
<1> QED BY <1>4, <1>7 DEF Others, Final

LEMMA Prune_Inv == ASSUME BackupInv, Prune PROVE BackupInv'
PROOF
<1>1. backup.at = "prune" /\ UNCHANGED <<catalogue, index, onServer, drill, gauge, mishaps>> BY DEF Prune
<1>2. disk \in [1..MaxBackups -> Directories] BY DEF BackupInv, BackupTypeOK
<1>3. CASE \E b \in Expired : disk' = [disk EXCEPT ![b].at = "expired"] /\ To("remove")
  <2>1. PICK b \in Expired : disk' = [disk EXCEPT ![b].at = "expired"] /\ To("remove") BY <1>3
  <2>2. b \in 1..MaxBackups /\ b # This /\ disk[b].at = "final" BY ExpiredFacts
  <2>3. PICK o \in Filled : o = disk[b] BY <1>2, <2>2, DirectoryFacts
  <2>4. PICK d : d = [o EXCEPT !.at = "expired"] OBVIOUS
  <2>5. d \in Filled BY <2>4 DEF Filled
  <2>6. d.at = "expired" BY <2>4 DEF Filled
  <2>7. disk' = [disk EXCEPT ![b] = d] BY <2>1, <2>3, <2>4
  <2>8. d \in Directories /\ d # Absent /\ o # Absent BY <2>5, <2>3, DirectoryFacts
  <2>9. disk' \in [1..MaxBackups -> Directories] BY <1>2, <2>7, <2>8
  <2>10. disk'[b] = d /\ \A c \in 1..MaxBackups : c # b => disk'[c] = disk[c] BY <1>2, <2>2, <2>7
  <2>11. This \in 1..MaxBackups BY <1>1, BackupJob
  <2>12. disk'[This] = disk[This] BY <2>2, <2>10, <2>11
  <2>13. \A c \in 1..MaxBackups : disk'[c] # Absent <=> disk[c] # Absent BY <2>3, <2>8, <2>10
  <2>14. \A c \in 1..MaxBackups : disk'[c].at = "final" => disk'[c] = disk[c] BY <2>6, <2>10
  <2> QED BY <1>1, <2>1, <2>9, <2>12, <2>13, <2>14, RetentionStep
<1>4. CASE To("done") /\ UNCHANGED disk BY <1>1, <1>2, <1>4, RetentionStep
<1> QED BY <1>3, <1>4 DEF Prune

LEMMA RemoveExpired_Inv == ASSUME BackupInv, RemoveExpired PROVE BackupInv'
PROOF
<1>1. /\ backup.at = "remove" /\ To("prune")
      /\ UNCHANGED <<catalogue, index, onServer, drill, gauge, mishaps>>
      /\ disk' = [b \in DOMAIN disk |-> IF disk[b].at = "expired" THEN Removed ELSE disk[b]]
  BY DEF RemoveExpired, Removed
<1>2. disk \in [1..MaxBackups -> Directories] BY DEF BackupInv, BackupTypeOK
<1>3. Removed \in Directories /\ Removed # Absent /\ Removed.at = "removed" /\ Absent.at = "absent"
  BY DirectoryFacts DEF Directories
<1>4. \A c \in 1..MaxBackups : disk'[c] = IF disk[c].at = "expired" THEN Removed ELSE disk[c]
  BY <1>1, <1>2
<1>5. disk' \in [1..MaxBackups -> Directories]
  <2>1. \A c \in 1..MaxBackups : (IF disk[c].at = "expired" THEN Removed ELSE disk[c]) \in Directories
    BY <1>2, <1>3
  <2> QED BY <1>1, <1>2, <2>1
<1>6. backup # Quiet /\ This \in 1..MaxBackups BY <1>1, BackupJob
<1>7. disk[This].at = "final" BY <1>1, <1>6 DEF BackupInv, JobInv, JobOK
<1>8. disk'[This] = disk[This] BY <1>4, <1>6, <1>7
<1>9. \A c \in 1..MaxBackups : disk'[c] # Absent <=> disk[c] # Absent
  <2>1. \A c \in 1..MaxBackups : disk[c].at = "expired" => disk[c] # Absent BY <1>3
  <2> QED BY <1>3, <1>4, <2>1
<1>10. \A c \in 1..MaxBackups : disk'[c].at = "final" => disk'[c] = disk[c] BY <1>3, <1>4
<1> QED BY <1>1, <1>5, <1>8, <1>9, <1>10, RetentionStep

LEMMA Begin_Inv == ASSUME BackupInv, Begin PROVE BackupInv'
PROOF
<1>1. PICK d : d = [at |-> "pending", copy |-> <<>>, snap |-> {}, points |-> 0, files |-> {}, whole |-> TRUE]
  OBVIOUS
<1>2. PICK b \in 1..MaxBackups :
        /\ disk[b] = Absent /\ \A c \in 1..(b - 1) : disk[c] # Absent
        /\ disk' = [disk EXCEPT ![b] = d] /\ backup' = [at |-> "sqlite", id |-> b]
  BY <1>1 DEF Begin
<1>3. backup = Quiet /\ UNCHANGED <<catalogue, index, onServer, drill, gauge, mishaps>> BY DEF Begin
<1>4. d \in Filled /\ d.at = "pending" BY <1>1 DEF Filled, AllFiles
<1>5. d \in Directories /\ d # Absent BY <1>4, DirectoryFacts
<1>6. disk \in [1..MaxBackups -> Directories] BY DEF BackupInv, BackupTypeOK
<1>7. /\ disk' \in [1..MaxBackups -> Directories] /\ disk'[b] = d
      /\ \A c \in 1..MaxBackups : c # b => disk'[c] = disk[c]
  BY <1>2, <1>5, <1>6
<1>8. backup' \in Jobs /\ backup'.at = "sqlite" /\ backup'.id = b
  <2>1. "sqlite" \in Places BY DEF Places, Collecting
  <2> QED BY <1>2, <2>1 DEF Jobs
<1>9. backup' # Quiet
  <2>1. Quiet.at = "quiet" BY DEF Quiet
  <2> QED BY <1>8, <2>1
<1>10. BackupTypeOK' BY <1>3, <1>7, <1>8 DEF BackupInv, BackupTypeOK
<1>11. \A c \in 1..MaxBackups : c > b => disk[c] = Absent BY <1>2 DEF BackupInv, NamesInv
<1>12. \A c \in 1..MaxBackups : c > b => disk'[c] = Absent BY <1>7, <1>11, RetainAssumption
<1>13. NamesInv'
  <2>1. ASSUME NEW x \in 1..MaxBackups, NEW c \in 1..MaxBackups, c < x, disk'[x] # Absent
        PROVE  disk'[c] # Absent
    <3>1. x \in Int /\ c \in Int /\ b \in Int BY RetainAssumption
    <3>2. x <= b BY <1>12, <2>1, <3>1
    <3>3. c \in 1..(b - 1) /\ c # b BY <2>1, <3>1, <3>2
    <3> QED BY <1>2, <1>7, <3>3
  <2> QED BY <2>1 DEF NamesInv
<1>14. IndexedInv' BY <1>3 DEF BackupInv, IndexedInv
<1>15. JobInv'
  <2>1. This' = b BY <1>8 DEF This
  <2>2. JobOK("sqlite", d)' BY <1>4, <1>5 DEF JobOK
  <2> QED BY <1>7, <1>8, <1>12, <2>1, <2>2 DEF JobInv
<1>16. FinalInv'
  <2>1. ASSUME NEW c \in 1..MaxBackups, disk'[c].at = "final"
        PROVE  disk'[c].files = AllFiles /\ Searchable(disk[c], disk[c].snap)'
    <3>1. disk'[c] = disk[c] BY <1>4, <1>7, <2>1
    <3>2. disk[c].files = AllFiles /\ Searchable(disk[c], disk[c].snap)
      BY <2>1, <3>1 DEF BackupInv, FinalInv
    <3> QED BY <1>3, <3>1, <3>2 DEF Searchable
  <2> QED BY <2>1 DEF FinalInv
<1>17. GaugeInv'
  <2>1. SUFFICES ASSUME gauge.backup # 0
                 PROVE  /\ gauge.backup \in 1..MaxBackups /\ disk'[gauge.backup] # Absent
                        /\ \E c \in 1..MaxBackups : Promised(c)'
    BY <1>3 DEF GaugeInv
  <2>2. gauge.backup \in 1..MaxBackups /\ disk[gauge.backup] # Absent BY <2>1 DEF BackupInv, GaugeInv
  <2>3. disk'[gauge.backup] # Absent BY <1>5, <1>7, <2>2
  <2>4. PICK c \in 1..MaxBackups : Promised(c) BY <2>1 DEF BackupInv, GaugeInv
  <2>5. disk[c].at = "final" BY <2>4 DEF Promised
  <2>6. c # b BY <1>2, <2>5, DirectoryFacts
  <2>7. disk'[c] = disk[c] BY <1>7, <2>6
  <2>8. This' = b BY <1>8 DEF This
  <2>9. Promised(c)' BY <1>3, <2>4, <2>6, <2>7, <2>8 DEF Promised
  <2> QED BY <2>2, <2>3, <2>9
<1>18. Owned = {} /\ Owned' = {} BY <1>3, <1>8 DEF Owned
<1>19. ServerInv' BY <1>3, <1>18, ServerFacts DEF ServerInv
<1> QED BY <1>10, <1>13, <1>14, <1>15, <1>16, <1>17, <1>19 DEF BackupInv

\* A step that leaves the directories and the backup alone, but may move the
\* memories on: nothing that is given up comes back.
LEMMA OutsideStep ==
  ASSUME BackupInv, BackupTypeOK', IndexedInv', UNCHANGED <<disk, backup, onServer>>,
         gauge'.backup = gauge.backup, mishaps'.lost = mishaps.lost,
         \A i \in Items : catalogue[i] \in {"delete_pending", "deleted"} =>
                            catalogue'[i] \in {"delete_pending", "deleted"},
         \A i \in index : i \in index' \/ catalogue'[i] \in {"delete_pending", "deleted"}
  PROVE  BackupInv'
PROOF
<1>1. NamesInv' BY DEF BackupInv, NamesInv
<1>2. \A d, S : Searchable(d, S) =>
        \A i \in Items : d.copy[i] = "indexed" => i \in S \/ catalogue'[i] \in {"delete_pending", "deleted"}
  BY DEF Searchable
<1>3. \A d : Searchable(d, index) =>
        \A i \in Items : d.copy[i] = "indexed" => i \in index' \/ catalogue'[i] \in {"delete_pending", "deleted"}
  BY DEF Searchable
<1>4. JobInv'
  <2>1. SUFFICES ASSUME backup # Quiet PROVE JobOK(backup.at, disk[This])' BY DEF BackupInv, JobInv, This
  <2>2. PICK d : d = disk[This] OBVIOUS
  <2>3. PICK p : p = backup.at OBVIOUS
  <2>4. JobOK(p, d) BY <2>1, <2>2, <2>3 DEF BackupInv, JobInv
  <2>5. JobOK(p, d)'
    <3>1. p \in {"info", "snapshot"} => Searchable(d, index)' BY <1>3, <2>4 DEF JobOK, Searchable
    <3>2. p \in {"download", "cleanup", "manifest", "publish"} => Searchable(d, d.snap)'
      BY <1>2, <2>4 DEF JobOK, Searchable
    <3> QED BY <2>4, <3>1, <3>2 DEF JobOK
  <2>6. backup'.at = p /\ (disk[This])' = d BY <2>2, <2>3 DEF This
  <2> QED BY <2>5, <2>6
<1>5. FinalInv'
  <2>1. ASSUME NEW c \in 1..MaxBackups, disk[c].at = "final"
        PROVE  disk'[c].files = AllFiles /\ Searchable(disk[c], disk[c].snap)'
    <3>1. disk[c].files = AllFiles /\ Searchable(disk[c], disk[c].snap)
      BY <2>1 DEF BackupInv, FinalInv
    <3> QED BY <1>2, <3>1 DEF Searchable
  <2> QED BY <2>1 DEF FinalInv
<1>6. \A b : Promised(b) => Promised(b)' BY DEF Promised, This
<1>7. GaugeInv' BY <1>6 DEF BackupInv, GaugeInv
<1>8. Owned' = Owned BY DEF Owned, This
<1>9. ServerInv' BY <1>8 DEF BackupInv, ServerInv
<1> QED BY <1>1, <1>4, <1>5, <1>7, <1>9 DEF BackupInv

LEMMA Serve_Inv == ASSUME BackupInv, NEW i \in Items, Serve(i) PROVE BackupInv'
PROOF
<1>1. UNCHANGED <<disk, backup, onServer, drill, gauge, mishaps>> BY DEF Serve
<1>2. /\ catalogue \in [Items -> ItemStates] /\ index \subseteq Items /\ IsFiniteSet(index)
      /\ \A j \in Items : catalogue[j] = "indexed" => j \in index
  BY DEF BackupInv, BackupTypeOK, IndexedInv
<1>3. ASSUME NEW old, NEW new \in ItemStates, catalogue[i] = old,
             catalogue' = [catalogue EXCEPT ![i] = new], UNCHANGED index,
             old \in {"delete_pending", "deleted"} => new \in {"delete_pending", "deleted"},
             new = "indexed" => i \in index
      PROVE  BackupInv'
  <2>1. catalogue' \in [Items -> ItemStates] BY <1>2, <1>3
  <2>2. catalogue'[i] = new /\ \A j \in Items : j # i => catalogue'[j] = catalogue[j] BY <1>2, <1>3
  <2>3. BackupTypeOK' BY <1>1, <1>3, <2>1 DEF BackupInv, BackupTypeOK
  <2>4. IndexedInv' BY <1>2, <1>3, <2>2 DEF IndexedInv
  <2>5. \A j \in Items : catalogue[j] \in {"delete_pending", "deleted"} =>
                           catalogue'[j] \in {"delete_pending", "deleted"}
    BY <1>3, <2>2
  <2> QED BY <1>1, <1>3, <2>3, <2>4, <2>5, OutsideStep
<1>4. ASSUME UNCHANGED catalogue,
             \/ catalogue[i] = "pending" /\ index' = index \union {i}
             \/ catalogue[i] = "delete_pending" /\ index' = index \ {i}
      PROVE  BackupInv'
  <2>1. index' \subseteq Items BY <1>2, <1>4
  <2>2. IsFiniteSet(index') BY <1>2, <1>4, FS_AddElement, FS_RemoveElement
  <2>3. BackupTypeOK' BY <1>1, <1>4, <2>1, <2>2 DEF BackupInv, BackupTypeOK
  <2>4. IndexedInv' BY <1>2, <1>4 DEF IndexedInv
  <2>5. \A j \in index : j \in index' \/ catalogue'[j] \in {"delete_pending", "deleted"} BY <1>4
  <2> QED BY <1>1, <1>4, <2>3, <2>4, <2>5, OutsideStep
<1>5. "pending" \in ItemStates /\ "indexed" \in ItemStates /\ "delete_pending" \in ItemStates
      /\ "deleted" \in ItemStates
  BY DEF ItemStates
<1> QED BY <1>3, <1>4, <1>5 DEF Serve

\* What the restore test picks is a backup.
LEMMA DrillJob ==
  ASSUME BackupInv, drill # Quiet, NEW p \in {"verified", "done", "failed"},
         drill' = [drill EXCEPT !.at = p]
  PROVE  drill' \in [at : {"selected", "verified", "done", "failed"}, id : Nat]
PROOF
<1>1. PICK o \in [at : {"selected", "verified", "done", "failed"}, id : Nat] : o = drill
  BY DEF BackupInv, BackupTypeOK
<1> QED BY <1>1

LEMMA DrillStep ==
  ASSUME BackupInv, drill' \in [at : {"selected", "verified", "done", "failed"}, id : Nat],
         UNCHANGED <<catalogue, index, disk, backup, onServer, gauge>>,
         mishaps' \in [lost : Nat, spoiled : Nat], mishaps'.lost = mishaps.lost
  PROVE  BackupInv'
PROOF
<1>1. BackupTypeOK' BY DEF BackupInv, BackupTypeOK
<1>2. IndexedInv' BY DEF BackupInv, IndexedInv
<1> QED BY <1>1, <1>2, OutsideStep

LEMMA StartDrill_Inv == ASSUME BackupInv, StartDrill PROVE BackupInv'
PROOF
<1>1. /\ Final # {} /\ drill' = [at |-> "selected", id |-> Max(Final)]
      /\ UNCHANGED <<catalogue, index, disk, backup, onServer, gauge, mishaps>>
  BY DEF StartDrill
<1>2. DOMAIN disk = 1..MaxBackups BY DEF BackupInv, BackupTypeOK
<1>3. Final \in SUBSET (1..MaxBackups) BY <1>2 DEF Final
<1>4. Max(Final) \in Final BY <1>1, <1>3, RetainAssumption, GreatestNumber
<1>5. PICK b \in 1..MaxBackups : b = Max(Final) BY <1>3, <1>4
<1>6. b \in Nat BY RetainAssumption
<1>7. drill' \in [at : {"selected", "verified", "done", "failed"}, id : Nat] BY <1>1, <1>5, <1>6
<1>8. mishaps' \in [lost : Nat, spoiled : Nat] /\ mishaps'.lost = mishaps.lost BY <1>1, ServerFacts
<1> QED BY <1>1, <1>7, <1>8, DrillStep

LEMMA DrillVerify_Inv == ASSUME BackupInv, DrillVerify PROVE BackupInv'
PROOF
<1>1. drill.at = "selected" /\ UNCHANGED <<catalogue, index, disk, backup, onServer, gauge, mishaps>>
  BY DEF DrillVerify
<1>2. drill # Quiet BY <1>1 DEF Quiet
<1>3. PICK p \in {"verified", "done", "failed"} : drill' = [drill EXCEPT !.at = p] BY DEF DrillVerify
<1>4. drill' \in [at : {"selected", "verified", "done", "failed"}, id : Nat] BY <1>2, <1>3, DrillJob
<1>5. mishaps' \in [lost : Nat, spoiled : Nat] /\ mishaps'.lost = mishaps.lost BY <1>1, ServerFacts
<1> QED BY <1>1, <1>4, <1>5, DrillStep

LEMMA DrillRestore_Inv == ASSUME BackupInv, DrillRestore PROVE BackupInv'
PROOF
<1>1. drill.at = "verified" /\ UNCHANGED <<catalogue, index, disk, backup, onServer, gauge>>
  BY DEF DrillRestore
<1>2. drill # Quiet BY <1>1 DEF Quiet
<1>3. PICK p \in {"verified", "done", "failed"} : drill' = [drill EXCEPT !.at = p] BY DEF DrillRestore
<1>4. drill' \in [at : {"selected", "verified", "done", "failed"}, id : Nat] BY <1>2, <1>3, DrillJob
<1>5. mishaps' \in [lost : Nat, spoiled : Nat] /\ mishaps'.lost = mishaps.lost
  <2>1. CASE mishaps' = mishaps BY <2>1, ServerFacts
  <2>2. CASE Mishap("spoiled") BY <2>2, MishapFacts
  <2> QED BY <2>1, <2>2 DEF DrillRestore
<1> QED BY <1>1, <1>4, <1>5, DrillStep

LEMMA TellDrill_Inv == ASSUME BackupInv, TellDrill PROVE BackupInv'
PROOF
<1>1. /\ drill.at \in {"done", "failed"} /\ drill' = Quiet
      /\ UNCHANGED <<catalogue, index, disk, backup, onServer, mishaps>>
  BY DEF TellDrill
<1>2. drill # Quiet BY <1>1 DEF Quiet
<1>3. drill.id \in Nat BY <1>2 DEF BackupInv, BackupTypeOK
<1>4. PICK g \in [backup : Nat, drill : Nat] : g = gauge BY DEF BackupInv, BackupTypeOK
<1>5. PICK n \in Nat : n = Content(g.drill, drill) BY <1>3, <1>4 DEF Content, Previous
<1>6. gauge' = [g EXCEPT !.drill = n] BY <1>4, <1>5 DEF TellDrill
<1>7. gauge' \in [backup : Nat, drill : Nat] /\ gauge'.backup = gauge.backup BY <1>4, <1>6
<1>8. BackupTypeOK' BY <1>1, <1>7 DEF BackupInv, BackupTypeOK
<1>9. IndexedInv' BY <1>1 DEF BackupInv, IndexedInv
<1> QED BY <1>1, <1>7, <1>8, <1>9, OutsideStep

LEMMA TellBackup_Inv == ASSUME BackupInv, TellBackup PROVE BackupInv'
PROOF
<1>1. /\ backup # Quiet /\ backup.at \in {"done", "failed"} /\ backup' = Quiet
      /\ UNCHANGED <<catalogue, index, disk, onServer, drill, mishaps>>
  BY DEF TellBackup
<1>2. backup \in Jobs /\ This \in 1..MaxBackups BY <1>1, BackupJob
<1>3. PICK b \in 1..MaxBackups : b = This BY <1>2
<1>4. b \in Nat BY RetainAssumption
<1>5. PICK g \in [backup : Nat, drill : Nat] : g = gauge BY DEF BackupInv, BackupTypeOK
<1>6. PICK n \in Nat : n = Content(g.backup, backup) BY <1>3, <1>4, <1>5 DEF Content, Previous, This
<1>7. gauge' = [g EXCEPT !.backup = n] BY <1>5, <1>6 DEF TellBackup
<1>8. gauge' \in [backup : Nat, drill : Nat] /\ gauge'.backup = n BY <1>7
<1>9. BackupTypeOK' BY <1>1, <1>8 DEF BackupInv, BackupTypeOK
<1>10. NamesInv' /\ IndexedInv' BY <1>1 DEF BackupInv, NamesInv, IndexedInv
<1>11. JobInv' BY <1>1 DEF JobInv
<1>12. FinalInv' BY <1>1 DEF BackupInv, FinalInv, Searchable
<1>13. GaugeInv'
  <2>1. CASE backup.at = "done"
    <3>1. n = b BY <1>3, <1>6, <2>1 DEF Content, This
    <3>2. disk[b] # Absent /\ disk[b].at = "final" /\ disk[b].whole
      BY <1>1, <1>3, <2>1 DEF BackupInv, JobInv, JobOK
    <3>3. Promised(b)' BY <1>1, <1>4, <1>8, <3>1, <3>2 DEF Promised
    <3> QED BY <1>1, <1>8, <3>1, <3>2, <3>3 DEF GaugeInv
  <2>2. CASE backup.at # "done"
    <3>1. n = gauge.backup BY <1>5, <1>6, <2>2 DEF Content, Previous
    <3>2. \A c : Promised(c) => Promised(c)' BY <1>1, <1>8, <3>1 DEF Promised
    <3> QED BY <1>1, <1>8, <3>1, <3>2 DEF BackupInv, GaugeInv
  <2> QED BY <2>1, <2>2
<1>14. Owned = {} /\ Owned' = {} BY <1>1 DEF Owned
<1>15. ServerInv' BY <1>1, <1>14, ServerFacts DEF ServerInv
<1> QED BY <1>9, <1>10, <1>11, <1>12, <1>13, <1>15 DEF BackupInv

LEMMA BackupInit_Inv == BackupInit => BackupInv
PROOF
<1>1. SUFFICES ASSUME BackupInit PROVE BackupInv OBVIOUS
<1>2. "absent" \in ItemStates /\ Absent \in Directories BY DEF ItemStates, Directories
<1>3. BackupTypeOK BY <1>1, <1>2, FS_EmptySet DEF BackupInit, BackupTypeOK
<1>4. \A b \in 1..MaxBackups : disk[b] = Absent /\ disk[b].at # "final"
  BY <1>1, DirectoryFacts DEF BackupInit
<1>5. NamesInv /\ FinalInv BY <1>4 DEF NamesInv, FinalInv
<1>6. IndexedInv BY <1>1 DEF BackupInit, IndexedInv
<1>7. JobInv /\ GaugeInv BY <1>1 DEF BackupInit, JobInv, GaugeInv
<1>8. onServer = {} /\ mishaps.lost = 0 BY <1>1 DEF BackupInit
<1>9. IsFiniteSet({}) /\ Cardinality({}) = 0 BY FS_EmptySet
<1>10. onServer \ Owned = {} BY <1>8
<1>11. ServerInv BY <1>8, <1>9, <1>10 DEF ServerInv
<1> QED BY <1>3, <1>5, <1>6, <1>7, <1>11 DEF BackupInv

LEMMA BackupNext_Inv == BackupInv /\ [BackupNext]_backupVars => BackupInv'
PROOF
<1>1. SUFFICES ASSUME BackupInv, [BackupNext]_backupVars PROVE BackupInv' OBVIOUS
<1>2. CASE UNCHANGED backupVars
  <2>1. UNCHANGED <<catalogue, index, disk, backup, onServer, drill, gauge, mishaps>>
    BY <1>2 DEF backupVars
  <2>2. BackupTypeOK' BY <1>1, <2>1 DEF BackupInv, BackupTypeOK
  <2>3. IndexedInv' BY <1>1, <2>1 DEF BackupInv, IndexedInv
  <2> QED BY <1>1, <2>1, <2>2, <2>3, OutsideStep
<1> QED BY <1>1, <1>2, Serve_Inv, Begin_Inv, CopySqlite_Inv, CollectionInfo_Inv, CreateSnapshot_Inv,
  Download_Inv, DeleteSnapshot_Inv, DeleteSnapshotFails_Inv, Manifest_Inv, Publish_Inv, Verify_Inv,
  Prune_Inv, RemoveExpired_Inv, Abort_Inv, BackupKilled_Inv, StartDrill_Inv, DrillVerify_Inv,
  DrillRestore_Inv, TellBackup_Inv, TellDrill_Inv DEF BackupNext

LEMMA BackupInv_Holds ==
  BackupInv => PublishedIsComplete /\ SuccessIsKept /\ RestoredIsSearchable /\ SnapshotsAreRemoved
PROOF
<1>1. SUFFICES ASSUME BackupInv
               PROVE  PublishedIsComplete /\ SuccessIsKept /\ RestoredIsSearchable /\ SnapshotsAreRemoved
  OBVIOUS
<1>2. DOMAIN disk = 1..MaxBackups BY <1>1 DEF BackupInv, BackupTypeOK
<1>3. PublishedIsComplete BY <1>1, <1>2 DEF BackupInv, FinalInv, PublishedIsComplete, Final
<1>4. RestoredIsSearchable BY <1>1, <1>2 DEF BackupInv, FinalInv, RestoredIsSearchable, Final, Searchable
<1>5. SuccessIsKept BY <1>1, <1>2 DEF BackupInv, GaugeInv, Promised, SuccessIsKept, Final
<1>6. SnapshotsAreRemoved
  <2>1. SUFFICES ASSUME backup = Quiet PROVE Cardinality(onServer) <= mishaps.lost
    BY DEF SnapshotsAreRemoved
  <2>2. onServer \ Owned = onServer BY <2>1 DEF Owned
  <2> QED BY <1>1, <2>2 DEF BackupInv, ServerInv
<1> QED BY <1>3, <1>4, <1>5, <1>6

-----------------------------------------------------------------------------
(* Steps of the backup of the secrets.                                     *)

LEMMA PublishedFacts ==
  ASSUME RaftInv
  PROVE  /\ raftRuns \in Nat /\ Published \subseteq 1..raftRuns /\ Published \subseteq Nat
         /\ IsFiniteSet(Published) /\ Cardinality(Published) \in Nat
         /\ \A b : Above(b) \subseteq Published /\ IsFiniteSet(Above(b)) /\ Cardinality(Above(b)) \in Nat
PROOF
<1>1. raftRuns \in 0..MaxRaft /\ Published \subseteq 1..raftRuns BY DEF RaftInv, RaftTypeOK
<1>2. raftRuns \in Nat BY <1>1, RaftKeepAssumption
<1>3. IsFiniteSet(1..raftRuns) BY <1>2, FS_Interval
<1>4. IsFiniteSet(Published) BY <1>1, <1>3, FS_Subset
<1>5. \A b : Above(b) \subseteq Published BY DEF Above
<1>6. \A b : IsFiniteSet(Above(b)) BY <1>4, <1>5, FS_Subset
<1>7. Published \subseteq Nat BY <1>1, <1>2
<1> QED BY <1>1, <1>2, <1>4, <1>5, <1>6, <1>7, FS_CardinalityType

LEMMA RaftJob ==
  ASSUME RaftInv
  PROVE  /\ raftRun # RaftIdle => raftRun \in RaftRows /\ RunOK(raftRun)
         /\ raftRun.at # "idle" => raftRun # RaftIdle
         /\ raftRun = RaftIdle => raftRun.at = "idle"
PROOF
<1>1. RaftIdle.at = "idle" BY DEF RaftIdle
<1> QED BY <1>1 DEF RaftInv, RaftTypeOK, RunningInv

\* A step of the run that leaves the directories alone.
LEMMA RunStep ==
  ASSUME RaftInv, raftRun # RaftIdle, UNCHANGED <<raftDir, older, raftRuns, raftGauge, bundling, bundle>>,
         NEW r \in RaftRows, raftRun' = r, r.id = raftRun.id,
         r.at \in Early => raftRun.at \in Early,
         uses' \in [BundleIds -> 0..2], \A b \in Published : uses'[b] = 0,
         r.at \in {"manifest", "publish"} => uses'[r.id] = 0,
         r.at = "publish" => r.files = Whole,
         r.at \in {"retention", "unlink", "done"} => r.id \in Published,
         r.at = "unlink" => r.old \in Published /\ Cardinality(Above(r.old)) >= RaftKeep,
         r.at = "done" => Cardinality(Published) <= RaftKeep
  PROVE  RaftInv'
PROOF
<1>1. Published' = Published BY DEF Published
<1>2. \A b : Above(b)' = Above(b) BY <1>1 DEF Above
<1>3. r # RaftIdle
  <2>1. RaftIdle.at = "idle" BY DEF RaftIdle
  <2>2. r.at # "idle" BY DEF RaftRows, RaftPlaces
  <2> QED BY <2>1, <2>2
<1>4. RaftTypeOK' BY <1>1 DEF RaftInv, RaftTypeOK
<1>5. PublishedIsRevoked' BY <1>1 DEF PublishedIsRevoked
<1>6. RunOK(raftRun) BY RaftJob
<1>7. RunOK(r)' BY <1>1, <1>2, <1>6 DEF RunOK
<1>8. RunningInv' BY <1>7 DEF RunningInv
<1>9. KeptInv' BY <1>1, <1>2 DEF RaftInv, KeptInv
<1>10. RaftGaugeInv' BY <1>1, <1>3 DEF RaftInv, RaftGaugeInv
<1>11. TimesInv' BY <1>1 DEF RaftInv, TimesInv
<1>12. \A b : Readable(b)' <=> Readable(b) BY <1>1 DEF Readable
<1>13. BundleInv' BY <1>12 DEF RaftInv, BundleInv
<1> QED BY <1>4, <1>5, <1>8, <1>9, <1>10, <1>11, <1>13 DEF RaftInv

\* The run's token is not that of a published backup until it is published.
LEMMA TokenStep ==
  ASSUME RaftInv, raftRun.at \in Early, NEW n \in 0..2,
         uses' \in {uses, [uses EXCEPT ![ThisRaft] = n]}
  PROVE  uses' \in [BundleIds -> 0..2] /\ \A b \in Published : uses'[b] = 0
PROOF
<1>1. raftRun # RaftIdle BY RaftJob DEF Early
<1>2. raftRun \in RaftRows /\ ThisRaft \notin Published BY <1>1, RaftJob DEF RunOK, ThisRaft
<1>3. uses \in [BundleIds -> 0..2] /\ \A b \in Published : uses[b] = 0
  BY DEF RaftInv, RaftTypeOK, PublishedIsRevoked
<1>4. Published \subseteq BundleIds
  <2>1. Published \subseteq 1..raftRuns /\ raftRuns \in 0..MaxRaft BY DEF RaftInv, RaftTypeOK
  <2> QED BY <2>1, RaftKeepAssumption DEF BundleIds
<1>5. PICK t : t = ThisRaft OBVIOUS
<1>6. CASE uses' = uses BY <1>3, <1>6
<1>7. CASE uses' = [uses EXCEPT ![t] = n] BY <1>2, <1>3, <1>4, <1>5, <1>7
<1> QED BY <1>5, <1>6, <1>7

LEMMA RaftBegin_Inv == ASSUME RaftInv, RaftBegin PROVE RaftInv'
PROOF
<1>1. /\ raftRun = RaftIdle /\ raftRuns < MaxRaft /\ raftRuns' = raftRuns + 1
      /\ UNCHANGED <<raftDir, older, uses, raftGauge, bundling, bundle>>
  BY DEF RaftBegin
<1>2. PICK r : r = [at |-> "login", id |-> raftRuns + 1, error |-> FALSE, files |-> {}, old |-> 0] OBVIOUS
<1>3. raftRun' = r BY <1>2 DEF RaftBegin
<1>4. r.at = "login" /\ r.id = raftRuns + 1 BY <1>2
<1>5. raftRuns \in Nat /\ Published \subseteq 1..raftRuns BY PublishedFacts
<1>6. raftRuns + 1 \in 1..MaxRaft /\ raftRuns' \in 0..MaxRaft BY <1>1, <1>5, RaftKeepAssumption
<1>7. r \in RaftRows BY <1>2, <1>6 DEF RaftRows, RaftPlaces, Whole
<1>8. Published' = Published BY <1>1 DEF Published
<1>9. 1..raftRuns \subseteq 1..raftRuns' BY <1>1, <1>5
<1>10. \A b : Above(b)' = Above(b) BY <1>8 DEF Above
<1>11. r # RaftIdle
  <2>1. RaftIdle.at = "idle" BY DEF RaftIdle
  <2> QED BY <1>4, <2>1
<1>12. RaftTypeOK' BY <1>1, <1>3, <1>5, <1>6, <1>7, <1>8, <1>9 DEF RaftInv, RaftTypeOK
<1>13. PublishedIsRevoked' BY <1>1, <1>8 DEF RaftInv, PublishedIsRevoked
<1>14. raftRuns + 1 \notin 1..raftRuns BY <1>5
<1>15. RunOK(r)' BY <1>1, <1>4, <1>5, <1>8, <1>14 DEF RunOK
<1>16. RunningInv' BY <1>3, <1>15 DEF RunningInv
<1>17. KeptInv' BY <1>1, <1>8, <1>10 DEF RaftInv, KeptInv
<1>18. RaftGaugeInv' BY <1>1, <1>3, <1>8, <1>11 DEF RaftInv, RaftGaugeInv
<1>19. TimesInv' BY <1>1, <1>8 DEF RaftInv, TimesInv
<1>20. \A b : Readable(b)' <=> Readable(b) BY <1>1, <1>8 DEF Readable
<1>21. BundleInv' BY <1>1, <1>3, <1>4, <1>9, <1>14, <1>20 DEF RaftInv, BundleInv
<1> QED BY <1>12, <1>13, <1>16, <1>17, <1>18, <1>19, <1>21 DEF RaftInv

\* The run's record after one of its fields, or two, were set.
LEMMA PlaceStep ==
  ASSUME NEW o \in RaftRows, NEW p \in RaftPlaces, NEW r, r = [o EXCEPT !.at = p]
  PROVE  /\ r \in RaftRows /\ r.at = p /\ r.id = o.id /\ r.files = o.files /\ r.old = o.old
         /\ r.error = o.error
BY DEF RaftRows

LEMMA Login_Inv == ASSUME RaftInv, Login PROVE RaftInv'
PROOF
<1>1. raftRun.at = "login" /\ UNCHANGED <<raftDir, older, raftRuns, raftGauge, bundling, bundle>>
  BY DEF Login
<1>2. raftRun # RaftIdle /\ raftRun \in RaftRows BY <1>1, RaftJob
<1>3. PICK p \in {"stream", "failed"} :
        Step(p) /\ uses' \in {uses, [uses EXCEPT ![ThisRaft] = 2]}
  BY DEF Login, Spend
<1>4. raftRun.at \in Early /\ p \in RaftPlaces BY <1>1, <1>3 DEF Early, RaftPlaces
<1>5. uses' \in [BundleIds -> 0..2] /\ \A b \in Published : uses'[b] = 0 BY <1>3, <1>4, TokenStep
<1>6. PICK r : r = [raftRun EXCEPT !.at = p] OBVIOUS
<1>7. raftRun' = r BY <1>3, <1>6 DEF Step
<1>8. r \in RaftRows /\ r.at = p /\ r.id = raftRun.id BY <1>2, <1>4, <1>6, PlaceStep
<1> QED BY <1>1, <1>2, <1>3, <1>4, <1>5, <1>7, <1>8, RunStep

LEMMA Stream_Inv == ASSUME RaftInv, Stream PROVE RaftInv'
PROOF
<1>1. raftRun.at = "stream" /\ UNCHANGED <<raftDir, older, raftRuns, raftGauge, bundling, bundle>>
  BY DEF Stream
<1>2. raftRun # RaftIdle BY <1>1, RaftJob
<1>3. PICK o \in RaftRows : o = raftRun BY <1>2, RaftJob
<1>4. raftRun.at \in Early BY <1>1 DEF Early
<1>5. uses' \in {uses, [uses EXCEPT ![ThisRaft] = 1]} BY DEF Stream, Spend
<1>6. uses' \in [BundleIds -> 0..2] /\ \A b \in Published : uses'[b] = 0 BY <1>4, <1>5, TokenStep
<1>7. PICK r : r = raftRun' OBVIOUS
<1>8. r \in RaftRows /\ r.at = "revoke" /\ r.id = o.id
  <2>1. \/ r = [o EXCEPT !.at = "revoke", !.files = {"snapshot.age"}]
        \/ r = [o EXCEPT !.at = "revoke", !.error = TRUE]
    BY <1>3, <1>7 DEF Stream
  <2>2. "revoke" \in RaftPlaces /\ {"snapshot.age"} \in SUBSET Whole BY DEF RaftPlaces, Whole
  <2> QED BY <2>1, <2>2 DEF RaftRows
<1> QED BY <1>1, <1>2, <1>3, <1>4, <1>6, <1>7, <1>8, RunStep

LEMMA Revoke_Inv == ASSUME RaftInv, Revoke PROVE RaftInv'
PROOF
<1>1. raftRun.at = "revoke" /\ UNCHANGED <<raftDir, older, raftRuns, raftGauge, bundling, bundle>>
  BY DEF Revoke
<1>2. raftRun # RaftIdle /\ raftRun \in RaftRows BY <1>1, RaftJob
<1>3. PICK unanswered \in BOOLEAN :
        /\ IF unanswered THEN RaftFault /\ uses' \in {uses, [uses EXCEPT ![ThisRaft] = 0]}
           ELSE Spend(0) /\ UNCHANGED raftFaults
        /\ Step(IF BundleRefused(unanswered) THEN "failed" ELSE "manifest")
  BY DEF Revoke
<1>4. PICK p : p = IF BundleRefused(unanswered) THEN "failed" ELSE "manifest" OBVIOUS
<1>5. p \in RaftPlaces /\ p \in {"failed", "manifest"} BY <1>4 DEF RaftPlaces
<1>6. uses' \in {uses, [uses EXCEPT ![ThisRaft] = 0]} BY <1>3 DEF Spend
<1>7. raftRun.at \in Early BY <1>1 DEF Early
<1>8. uses' \in [BundleIds -> 0..2] /\ \A b \in Published : uses'[b] = 0 BY <1>6, <1>7, TokenStep
<1>9. PICK r : r = [raftRun EXCEPT !.at = p] OBVIOUS
<1>10. raftRun' = r BY <1>3, <1>4, <1>9 DEF Step
<1>11. r \in RaftRows /\ r.at = p /\ r.id = raftRun.id BY <1>2, <1>5, <1>9, PlaceStep
<1>12. p = "manifest" => uses'[r.id] = 0
  <2>1. SUFFICES ASSUME p = "manifest" PROVE uses'[r.id] = 0 OBVIOUS
  <2>2. ~ unanswered BY <1>4, <2>1 DEF BundleRefused
  <2>3. PICK t : t = ThisRaft OBVIOUS
  <2>4. uses' = [uses EXCEPT ![t] = 0] BY <1>3, <2>2, <2>3 DEF Spend
  <2>5. t \in BundleIds /\ uses \in [BundleIds -> 0..2]
    BY <1>2, <2>3 DEF RaftInv, RaftTypeOK, RaftRows, ThisRaft, BundleIds
  <2>6. t = r.id BY <1>11, <2>3 DEF ThisRaft
  <2> QED BY <2>4, <2>5, <2>6
<1> QED BY <1>1, <1>2, <1>5, <1>7, <1>8, <1>10, <1>11, <1>12, RunStep

LEMMA WriteManifest_Inv == ASSUME RaftInv, WriteManifest PROVE RaftInv'
PROOF
<1>1. raftRun.at = "manifest" /\ UNCHANGED <<raftDir, older, raftRuns, uses, raftGauge, bundling, bundle>>
  BY DEF WriteManifest
<1>2. raftRun # RaftIdle BY <1>1, RaftJob
<1>3. PICK o \in RaftRows : o = raftRun BY <1>2, RaftJob
<1>4. PICK r : r = [o EXCEPT !.files = Whole, !.at = "publish"] OBVIOUS
<1>5. raftRun' = r BY <1>3, <1>4 DEF WriteManifest
<1>6. "publish" \in RaftPlaces BY DEF RaftPlaces
<1>7. r \in RaftRows BY <1>4, <1>6 DEF RaftRows
<1>8. r.at = "publish" /\ r.id = o.id /\ r.files = Whole BY <1>4 DEF RaftRows
<1>9. raftRun.at \in Early BY <1>1 DEF Early
<1>10. uses' \in [BundleIds -> 0..2] /\ \A b \in Published : uses'[b] = 0
  BY <1>1 DEF RaftInv, RaftTypeOK, PublishedIsRevoked
<1>11. uses'[r.id] = 0 BY <1>1, <1>2, <1>3, <1>8, RaftJob DEF RunOK
<1> QED BY <1>1, <1>2, <1>3, <1>5, <1>7, <1>8, <1>9, <1>10, <1>11, RunStep

LEMMA RaftKilled_Inv == ASSUME RaftInv, RaftKilled PROVE RaftInv'
PROOF
<1>1. /\ raftRun.at # "idle" /\ Step("failed")
      /\ UNCHANGED <<raftDir, older, raftRuns, uses, raftGauge, bundling, bundle>>
  BY DEF RaftKilled
<1>2. raftRun # RaftIdle /\ raftRun \in RaftRows BY <1>1, RaftJob
<1>3. PICK r : r = [raftRun EXCEPT !.at = "failed"] OBVIOUS
<1>4. raftRun' = r BY <1>1, <1>3 DEF Step
<1>5. "failed" \in RaftPlaces /\ "failed" \notin Early BY DEF RaftPlaces, Early
<1>6. r \in RaftRows /\ r.at = "failed" /\ r.id = raftRun.id BY <1>2, <1>3, <1>5, PlaceStep
<1>7. uses' \in [BundleIds -> 0..2] /\ \A b \in Published : uses'[b] = 0
  BY <1>1 DEF RaftInv, RaftTypeOK, PublishedIsRevoked
<1> QED BY <1>1, <1>2, <1>4, <1>5, <1>6, <1>7, RunStep

\* With nothing beyond the retention, no more backups than it keeps: the oldest
\* has all the others above it.
LEMMA NothingBeyond ==
  ASSUME RaftInv, BeyondKeep = {}
  PROVE  Cardinality(Published) <= RaftKeep
PROOF
<1>1. /\ Published \subseteq Nat /\ IsFiniteSet(Published) /\ Cardinality(Published) \in Nat
  BY PublishedFacts
<1>2. RaftKeep \in Nat \ {0} BY RaftKeepAssumption
<1>3. CASE Published = {}
  <2>1. Cardinality(Published) = 0 BY <1>3, FS_EmptySet
  <2> QED BY <1>2, <2>1
<1>4. CASE Published # {}
  <2>1. PICK m \in Published : \A c \in Published : m <= c BY <1>1, <1>4, LeastNumber
  <2>2. Above(m) = Published \ {m}
    <3>1. \A c \in Published : c > m <=> c # m BY <1>1, <2>1
    <3> QED BY <3>1 DEF Above
  <2>3. Cardinality(Above(m)) = Cardinality(Published) - 1 BY <1>1, <2>2, FS_RemoveElement
  <2>4. ~ (Cardinality(Above(m)) >= RaftKeep) BY DEF BeyondKeep, Above
  <2> QED BY <1>1, <1>2, <2>3, <2>4
<1> QED BY <1>3, <1>4

LEMMA Retention_Inv == ASSUME RaftInv, Retention PROVE RaftInv'
PROOF
<1>1. raftRun.at = "retention" /\ UNCHANGED <<raftDir, older, raftRuns, uses, raftGauge, bundling, bundle>>
  BY DEF Retention
<1>2. raftRun # RaftIdle BY <1>1, RaftJob
<1>3. PICK o \in RaftRows : o = raftRun BY <1>2, RaftJob
<1>4. o.id \in Published BY <1>1, <1>2, <1>3, RaftJob DEF RunOK
<1>5. uses' \in [BundleIds -> 0..2] /\ \A b \in Published : uses'[b] = 0
  BY <1>1 DEF RaftInv, RaftTypeOK, PublishedIsRevoked
<1>6. /\ "done" \in RaftPlaces /\ "failed" \in RaftPlaces /\ "unlink" \in RaftPlaces
      /\ "done" \notin Early /\ "failed" \notin Early /\ "unlink" \notin Early
  BY DEF RaftPlaces, Early
<1>7. CASE BeyondKeep = {} /\ Step("done")
  <2>1. PICK r : r = [o EXCEPT !.at = "done"] OBVIOUS
  <2>2. raftRun' = r BY <1>3, <1>7, <2>1 DEF Step
  <2>3. r \in RaftRows /\ r.at = "done" /\ r.id = o.id BY <1>6, <2>1, PlaceStep
  <2>4. Cardinality(Published) <= RaftKeep BY <1>7, NothingBeyond
  <2> QED BY <1>1, <1>2, <1>3, <1>4, <1>5, <1>6, <2>2, <2>3, <2>4, RunStep
<1>8. CASE Step("failed")
  <2>1. PICK r : r = [o EXCEPT !.at = "failed"] OBVIOUS
  <2>2. raftRun' = r BY <1>3, <1>8, <2>1 DEF Step
  <2>3. r \in RaftRows /\ r.at = "failed" /\ r.id = o.id BY <1>6, <2>1, PlaceStep
  <2> QED BY <1>1, <1>2, <1>3, <1>5, <1>6, <2>2, <2>3, RunStep
<1>9. CASE BeyondKeep # {} /\ raftRun' = [raftRun EXCEPT !.at = "unlink", !.old = Max(BeyondKeep)]
  <2>1. BeyondKeep \subseteq Published BY DEF BeyondKeep
  <2>2. raftRuns \in Nat /\ Published \subseteq 1..raftRuns BY PublishedFacts
  <2>3. Max(BeyondKeep) \in BeyondKeep BY <1>9, <2>1, <2>2, GreatestNumber
  <2>4. PICK b \in BeyondKeep : b = Max(BeyondKeep) BY <2>3
  <2>5. b \in Published /\ Cardinality(Above(b)) >= RaftKeep BY DEF BeyondKeep, Above
  <2>6. b \in Nat BY <2>5, PublishedFacts
  <2>7. PICK r : r = [o EXCEPT !.at = "unlink", !.old = b] OBVIOUS
  <2>8. raftRun' = r BY <1>3, <1>9, <2>4, <2>7
  <2>9. r \in RaftRows BY <1>6, <2>6, <2>7 DEF RaftRows
  <2>10. r.at = "unlink" /\ r.id = o.id /\ r.old = b BY <2>7 DEF RaftRows
  <2> QED BY <1>1, <1>2, <1>3, <1>4, <1>5, <1>6, <2>5, <2>8, <2>9, <2>10, RunStep
<1> QED BY <1>7, <1>8, <1>9 DEF Retention

LEMMA RaftPublish_Inv == ASSUME RaftInv, RaftPublish PROVE RaftInv'
PROOF
<1>1. /\ raftRun.at = "publish" /\ older' = Touched(ThisRaft) /\ Step("retention")
      /\ UNCHANGED <<raftRuns, uses, raftGauge, bundling, bundle>>
  BY DEF RaftPublish
<1>2. raftRun # RaftIdle BY <1>1, RaftJob
<1>3. PICK o \in RaftRows : o = raftRun BY <1>2, RaftJob
<1>4. PICK n \in 1..MaxRaft : n = o.id BY DEF RaftRows
<1>5. n = ThisRaft BY <1>3, <1>4 DEF ThisRaft
<1>6. n = raftRuns /\ n \notin Published /\ uses[n] = 0 /\ o.files = Whole
  BY <1>1, <1>2, <1>3, <1>4, RaftJob DEF RunOK, Early
<1>7. /\ raftRuns \in Nat /\ Published \subseteq 1..raftRuns /\ Published \subseteq Nat
      /\ \A b : Above(b) \subseteq Published /\ IsFiniteSet(Above(b)) /\ Cardinality(Above(b)) \in Nat
  BY PublishedFacts
<1>8. raftDir' = [b \in Published \union {n} |-> IF b = n THEN Whole ELSE raftDir[b]]
  BY <1>3, <1>5, <1>6 DEF RaftPublish
<1>9. Published' = Published \union {n} BY <1>8 DEF Published
<1>10. raftDir'[n] = Whole /\ \A b \in Published : raftDir'[b] = raftDir[b] BY <1>6, <1>8
<1>11. \A b \in Published : b < n BY <1>6, <1>7
<1>12. \A b \in Published : Cardinality(Above(b))' >= Cardinality(Above(b))
  <2>1. ASSUME NEW b \in Published PROVE Cardinality(Above(b))' >= Cardinality(Above(b))
    <3>1. PICK S : S = Above(b) OBVIOUS
    <3>2. Above(b)' = S \union {n} BY <1>9, <1>11, <3>1 DEF Above
    <3>3. n \notin S BY <1>6, <1>7, <3>1
    <3>4. IsFiniteSet(S) /\ Cardinality(S) \in Nat BY <1>7, <3>1
    <3>5. Cardinality(S \union {n}) = Cardinality(S) + 1 BY <3>3, <3>4, FS_AddElement
    <3>6. Cardinality(Above(b))' = Cardinality(S) + 1 BY <3>2, <3>5
    <3> QED BY <3>1, <3>4, <3>6
  <2> QED BY <2>1
<1>13. PICK r : r = [o EXCEPT !.at = "retention"] OBVIOUS
<1>14. raftRun' = r BY <1>1, <1>3, <1>13 DEF Step
<1>15. "retention" \in RaftPlaces /\ "retention" \notin Early BY DEF RaftPlaces, Early
<1>16. r \in RaftRows /\ r.at = "retention" /\ r.id = n BY <1>4, <1>13, <1>15, PlaceStep
<1>17. r # RaftIdle
  <2>1. RaftIdle.at = "idle" BY DEF RaftIdle
  <2> QED BY <1>16, <2>1
<1>18. older \subseteq Published \X Published BY DEF RaftInv, RaftTypeOK
<1>19. older' \subseteq older \union {<<c, n>> : c \in Published} BY <1>1, <1>5 DEF Touched, Without
<1>20. RaftTypeOK'
  <2>1. Published' \subseteq 1..raftRuns' BY <1>1, <1>4, <1>6, <1>7, <1>9
  <2>2. raftDir \in [Published -> SUBSET Whole] BY DEF RaftInv, RaftTypeOK
  <2>3. raftDir' \in [Published' -> SUBSET Whole] BY <1>8, <1>9, <2>2
  <2>4. older' \subseteq Published' \X Published' BY <1>9, <1>18, <1>19
  <2> QED BY <1>1, <1>14, <1>16, <2>1, <2>3, <2>4 DEF RaftInv, RaftTypeOK
<1>21. PublishedIsRevoked' BY <1>1, <1>6, <1>9 DEF RaftInv, PublishedIsRevoked
<1>22. RunOK(r)' BY <1>1, <1>6, <1>9, <1>15, <1>16 DEF RunOK
<1>23. RunningInv' BY <1>14, <1>22 DEF RunningInv
<1>24. KeptInv'
  <2>1. ASSUME NEW b \in Published', raftDir'[b] # Whole PROVE Cardinality(Above(b))' >= RaftKeep
    <3>1. b \in Published BY <1>9, <1>10, <2>1
    <3>2. raftDir[b] # Whole BY <1>10, <2>1, <3>1
    <3>3. Cardinality(Above(b)) >= RaftKeep BY <3>1, <3>2 DEF RaftInv, KeptInv
    <3>4. PICK k \in Nat : k = Cardinality(Above(b)) BY <1>7
    <3>5. PICK m : m = Cardinality(Above(b))' OBVIOUS
    <3>6. m >= k /\ k >= RaftKeep BY <1>12, <3>1, <3>3, <3>4, <3>5
    <3>7. m \in Nat
      <4>1. Above(b)' \subseteq Published' /\ IsFiniteSet(Published')
        BY <1>9, FS_AddElement, PublishedFacts DEF Above
      <4>2. PICK T : T = Above(b)' OBVIOUS
      <4>3. PICK U : U = Published' OBVIOUS
      <4>4. IsFiniteSet(T) BY <4>1, <4>2, <4>3, FS_Subset
      <4>5. Cardinality(T) \in Nat BY <4>4, FS_CardinalityType
      <4> QED BY <3>5, <4>2, <4>5
    <3>8. m >= RaftKeep BY <3>6, <3>7, RaftKeepAssumption
    <3> QED BY <3>5, <3>8
  <2> QED BY <2>1 DEF KeptInv
<1>25. RaftGaugeInv' BY <1>1, <1>9, <1>14, <1>17 DEF RaftInv, RaftGaugeInv
<1>26. TimesInv'
  <2>1. ASSUME NEW b \in Published', NEW c \in Published', <<b, c>> \in older', "manifest.json" \in raftDir'[c]
        PROVE  b < c
    <3>1. CASE <<b, c>> \in older
      <4>1. b \in Published /\ c \in Published BY <1>18, <3>1
      <4> QED BY <1>10, <2>1, <3>1, <4>1 DEF RaftInv, TimesInv
    <3>2. CASE c = n /\ b \in Published BY <1>11, <3>2
    <3> QED BY <1>19, <2>1, <3>1, <3>2
  <2> QED BY <2>1 DEF TimesInv
<1>27. \A b : b # n => (Readable(b)' <=> Readable(b)) BY <1>9, <1>10 DEF Readable
<1>28. BundleInv'
  <2>1. raftRun.at \in Early BY <1>1 DEF Early
  <2>2. bundling # RaftIdle => bundling.id # n BY <1>2, <1>3, <1>4, <2>1 DEF RaftInv, BundleInv
  <2> QED BY <1>1, <1>14, <1>15, <1>16, <1>27, <2>2 DEF RaftInv, BundleInv
<1> QED BY <1>20, <1>21, <1>23, <1>24, <1>25, <1>26, <1>28 DEF RaftInv

\* What the run removes: an older backup than its own, with enough above it.
LEMMA UnlinkFacts ==
  ASSUME RaftInv, raftRun.at = "unlink"
  PROVE  /\ raftRun # RaftIdle /\ raftRun \in RaftRows /\ raftRun.id = raftRuns /\ raftRun.id \in Published
         /\ raftRun.old \in Published /\ Cardinality(Above(raftRun.old)) >= RaftKeep
         /\ Above(raftRun.old) # {} /\ raftRun.id # raftRun.old
PROOF
<1>1. raftRun # RaftIdle BY RaftJob
<1>2. raftRun \in RaftRows /\ RunOK(raftRun) BY <1>1, RaftJob
<1>3. /\ raftRun.id = raftRuns /\ raftRun.id \in Published /\ raftRun.old \in Published
      /\ Cardinality(Above(raftRun.old)) >= RaftKeep
  BY <1>2 DEF RunOK
<1>4. PICK b \in Published : b = raftRun.old BY <1>3
<1>5. Above(b) # {}
  <2>1. Above(b) = {} => Cardinality(Above(b)) = 0 BY FS_EmptySet
  <2>2. Cardinality(Above(b)) >= RaftKeep /\ RaftKeep \in Nat \ {0} BY <1>3, <1>4, RaftKeepAssumption
  <2> QED BY <2>1, <2>2
<1>6. PICK c \in Published : c > b BY <1>5 DEF Above
<1>7. b # raftRuns
  <2>1. raftRuns \in Nat /\ c \in 1..raftRuns BY PublishedFacts
  <2> QED BY <1>6, <2>1
<1> QED BY <1>1, <1>2, <1>3, <1>4, <1>5, <1>7

LEMMA UnlinkFile_Inv ==
  ASSUME RaftInv, raftRun.at = "unlink", NEW b, b = raftRun.old, NEW i \in DOMAIN UnlinkOrder,
         \A j \in 1..(i - 1) : UnlinkOrder[j] \notin raftDir[b],
         raftDir' = [raftDir EXCEPT ![b] = @ \ {UnlinkOrder[i]}], older' = Touched(b),
         UNCHANGED <<raftRun, raftRuns, uses, raftGauge, bundling, bundle>>
  PROVE  RaftInv'
PROOF
<1>1. raftRun # RaftIdle /\ b \in Published /\ Cardinality(Above(b)) >= RaftKeep BY UnlinkFacts
<1>2. raftDir \in [Published -> SUBSET Whole] BY DEF RaftInv, RaftTypeOK
<1>3. Published' = Published BY <1>2 DEF Published
<1>4. raftDir'[b] = raftDir[b] \ {UnlinkOrder[i]} /\ \A c \in Published : c # b => raftDir'[c] = raftDir[c]
  BY <1>1, <1>2
<1>5. raftDir' \in [Published' -> SUBSET Whole] BY <1>1, <1>2, <1>3
<1>6. \A c : Above(c)' = Above(c) BY <1>3 DEF Above
<1>7. older \subseteq Published \X Published BY DEF RaftInv, RaftTypeOK
<1>8. older' \subseteq {p \in older : p[2] # b} \union {<<c, b>> : c \in Published} BY DEF Touched, Without
<1>9. older' \subseteq Published' \X Published' BY <1>1, <1>3, <1>7, <1>8
<1>10. RaftTypeOK' BY <1>3, <1>5, <1>9 DEF RaftInv, RaftTypeOK
<1>11. PublishedIsRevoked' BY <1>3 DEF RaftInv, PublishedIsRevoked
<1>12. \A r : RunOK(r)' <=> RunOK(r) BY <1>3, <1>6 DEF RunOK
<1>13. RunningInv' BY <1>12 DEF RaftInv, RunningInv
<1>14. KeptInv' BY <1>1, <1>3, <1>4, <1>6 DEF RaftInv, KeptInv
<1>15. RaftGaugeInv' BY <1>3 DEF RaftInv, RaftGaugeInv
<1>16. "manifest.json" \notin raftDir'[b]
  <2>1. UnlinkOrder[1] = "manifest.json" /\ i \in 1..3 BY DEF UnlinkOrder
  <2>2. CASE i = 1 BY <1>4, <2>1, <2>2
  <2>3. CASE i # 1
    <3>1. 1 \in 1..(i - 1) BY <2>1, <2>3
    <3>2. UnlinkOrder[1] \notin raftDir[b] BY <3>1
    <3> QED BY <1>4, <2>1, <3>2
  <2> QED BY <2>2, <2>3
<1>17. TimesInv'
  <2>1. ASSUME NEW x \in Published, NEW y \in Published, <<x, y>> \in older', "manifest.json" \in raftDir'[y]
        PROVE  x < y
    <3>1. y # b BY <1>16, <2>1
    <3>2. <<x, y>> \in older BY <1>8, <2>1, <3>1
    <3> QED BY <1>4, <2>1, <3>1, <3>2 DEF RaftInv, TimesInv
  <2> QED BY <1>3, <2>1 DEF TimesInv
<1>18. \A c : Readable(c)' => Readable(c)
  <2>1. \A c \in Published : raftDir'[c] \subseteq raftDir[c] BY <1>4
  <2> QED BY <1>3, <2>1 DEF Readable
<1>19. BundleInv' BY <1>18 DEF RaftInv, BundleInv
<1> QED BY <1>10, <1>11, <1>13, <1>14, <1>15, <1>17, <1>19 DEF RaftInv

LEMMA UnlinkDirectory_Inv ==
  ASSUME RaftInv, raftRun.at = "unlink", NEW b, b = raftRun.old,
         raftDir' = [c \in Published \ {b} |-> raftDir[c]], older' = Without(b),
         raftRun' = [raftRun EXCEPT !.at = "retention"],
         UNCHANGED <<raftRuns, uses, raftGauge, bundling, bundle>>
  PROVE  RaftInv'
PROOF
<1>1. /\ raftRun # RaftIdle /\ raftRun \in RaftRows /\ raftRun.id = raftRuns /\ raftRun.id \in Published
      /\ b \in Published /\ Cardinality(Above(b)) >= RaftKeep /\ Above(b) # {} /\ raftRun.id # b
  BY UnlinkFacts
<1>2. raftDir \in [Published -> SUBSET Whole] BY DEF RaftInv, RaftTypeOK
<1>3. Published' = Published \ {b} BY DEF Published
<1>4. \A c \in Published' : raftDir'[c] = raftDir[c] BY <1>3
<1>5. raftDir' \in [Published' -> SUBSET Whole] BY <1>2, <1>3
<1>6. /\ raftRuns \in Nat /\ Published \subseteq 1..raftRuns /\ Published \subseteq Nat
      /\ \A c : Above(c) \subseteq Published /\ IsFiniteSet(Above(c)) /\ Cardinality(Above(c)) \in Nat
  BY PublishedFacts
<1>7. older \subseteq Published \X Published BY DEF RaftInv, RaftTypeOK
<1>8. older' \subseteq older /\ older' \subseteq Published' \X Published' BY <1>3, <1>7 DEF Without
<1>9. PICK r : r = raftRun' OBVIOUS
<1>10. "retention" \in RaftPlaces /\ "retention" \notin Early BY DEF RaftPlaces, Early
<1>11. r \in RaftRows /\ r.at = "retention" /\ r.id = raftRun.id BY <1>1, <1>9, <1>10, PlaceStep
<1>12. r # RaftIdle
  <2>1. RaftIdle.at = "idle" BY DEF RaftIdle
  <2> QED BY <1>11, <2>1
<1>13. RaftTypeOK'
  <2>1. Published' \subseteq 1..raftRuns' BY <1>3, <1>6
  <2> QED BY <1>5, <1>8, <1>9, <1>11, <2>1 DEF RaftInv, RaftTypeOK
<1>14. PublishedIsRevoked' BY <1>3 DEF RaftInv, PublishedIsRevoked
<1>15. RunOK(r)' BY <1>1, <1>3, <1>10, <1>11 DEF RunOK
<1>16. RunningInv' BY <1>9, <1>15 DEF RunningInv
<1>17. KeptInv'
  <2>1. ASSUME NEW x \in Published', raftDir'[x] # Whole PROVE Cardinality(Above(x))' >= RaftKeep
    <3>1. x \in Published /\ x # b /\ x \in Nat /\ b \in Nat BY <1>1, <1>3, <1>6
    <3>2. Cardinality(Above(x)) >= RaftKeep BY <1>4, <2>1, <3>1 DEF RaftInv, KeptInv
    <3>3. CASE x > b
      <4>1. Above(x)' = Above(x) BY <1>3, <3>1, <3>3 DEF Above
      <4> QED BY <3>2, <4>1
    <3>4. CASE x < b
      <4>1. PICK S : S = Above(b) OBVIOUS
      <4>2. PICK T : T = Above(x)' OBVIOUS
      <4>3. T \subseteq Above(x) BY <1>3, <4>2 DEF Above
      <4>4. S \subseteq T BY <1>3, <1>6, <3>1, <3>4, <4>1, <4>2 DEF Above
      <4>5. IsFiniteSet(Above(x)) BY <1>6
      <4>6. IsFiniteSet(T) BY <4>3, <4>5, FS_Subset
      <4>7. Cardinality(S) <= Cardinality(T) BY <4>4, <4>6, FS_Subset
      <4>8. Cardinality(T) \in Nat /\ Cardinality(S) \in Nat BY <1>6, <4>1, <4>6, FS_CardinalityType
      <4>9. Cardinality(S) >= RaftKeep BY <1>1, <4>1
      <4>10. Cardinality(T) >= RaftKeep BY <4>7, <4>8, <4>9, RaftKeepAssumption
      <4> QED BY <4>2, <4>10
    <3> QED BY <3>1, <3>3, <3>4
  <2> QED BY <2>1 DEF KeptInv
<1>18. RaftGaugeInv'
  <2>1. ASSUME raftGauge.last # 0 PROVE \E c \in Published' : c >= raftGauge.last
    <3>1. PICK c \in Published : c >= raftGauge.last BY <2>1 DEF RaftInv, RaftGaugeInv
    <3>2. PICK e \in Published : e > b BY <1>1 DEF Above
    <3>3. c \in Nat /\ e \in Nat /\ b \in Nat /\ raftGauge.last \in Nat
      BY <1>1, <1>6 DEF RaftInv, RaftTypeOK
    <3>4. CASE c # b BY <1>3, <3>1, <3>4
    <3>5. CASE c = b
      <4>1. e # b /\ e >= raftGauge.last BY <3>1, <3>2, <3>3, <3>5
      <4> QED BY <1>3, <4>1
    <3> QED BY <3>4, <3>5
  <2> QED BY <1>9, <1>12, <2>1 DEF RaftGaugeInv
<1>19. TimesInv' BY <1>3, <1>4, <1>8 DEF RaftInv, TimesInv
<1>20. \A c : Readable(c)' => Readable(c) BY <1>3, <1>4 DEF Readable
<1>21. BundleInv' BY <1>9, <1>10, <1>11, <1>20 DEF RaftInv, BundleInv
<1> QED BY <1>13, <1>14, <1>16, <1>17, <1>18, <1>19, <1>21 DEF RaftInv

LEMMA Unlink_Inv == ASSUME RaftInv, Unlink PROVE RaftInv'
PROOF
<1>1. raftRun.at = "unlink" /\ UNCHANGED <<raftRuns, uses, raftGauge, bundling, bundle>> BY DEF Unlink
<1>2. PICK b : b = raftRun.old OBVIOUS
<1>3. ASSUME NEW i \in DOMAIN UnlinkOrder, \A j \in 1..(i - 1) : UnlinkOrder[j] \notin raftDir[b],
             raftDir' = [raftDir EXCEPT ![b] = @ \ {UnlinkOrder[i]}], older' = Touched(b), UNCHANGED raftRun
      PROVE  RaftInv'
  BY <1>1, <1>2, <1>3, UnlinkFile_Inv
<1>4. ASSUME raftDir' = [c \in Published \ {b} |-> raftDir[c]], older' = Without(b),
             raftRun' = [raftRun EXCEPT !.at = "retention"]
      PROVE  RaftInv'
  BY <1>1, <1>2, <1>4, UnlinkDirectory_Inv
<1> QED BY <1>2, <1>3, <1>4 DEF Unlink

LEMMA RaftTell_Inv == ASSUME RaftInv, RaftTell PROVE RaftInv'
PROOF
<1>1. /\ raftRun.at \in {"done", "failed"} /\ raftRun' = RaftIdle
      /\ UNCHANGED <<raftDir, older, raftRuns, uses, bundling, bundle>>
      /\ raftGauge' = IF raftRun.at = "failed" THEN [raftGauge EXCEPT !.ok = FALSE]
                      ELSE IF LatestVerified THEN [ok |-> TRUE, last |-> ThisRaft] ELSE raftGauge
  BY DEF RaftTell
<1>2. raftRun # RaftIdle BY <1>1, RaftJob
<1>3. raftRun \in RaftRows /\ RunOK(raftRun) BY <1>2, RaftJob
<1>4. Published' = Published BY <1>1 DEF Published
<1>5. \A b : Above(b)' = Above(b) BY <1>4 DEF Above
<1>6. PICK g \in [ok : BOOLEAN, last : Nat] : g = raftGauge BY DEF RaftInv, RaftTypeOK
<1>7. PICK t : t = ThisRaft OBVIOUS
<1>8. t \in 1..MaxRaft BY <1>3, <1>7 DEF RaftRows, ThisRaft
<1>9. t \in Nat BY <1>8, RaftKeepAssumption
<1>10. PublishedIsRevoked' BY <1>1, <1>4 DEF RaftInv, PublishedIsRevoked
<1>11. RunningInv' BY <1>1 DEF RunningInv
<1>12. KeptInv' BY <1>1, <1>4, <1>5 DEF RaftInv, KeptInv
<1>13. TimesInv' BY <1>1, <1>4 DEF RaftInv, TimesInv
<1>14. \A b : Readable(b)' <=> Readable(b) BY <1>1, <1>4 DEF Readable
<1>15. BundleInv' BY <1>1, <1>14 DEF RaftInv, BundleInv
<1>16. g.last # 0 => \E b \in Published : b >= g.last BY <1>6 DEF RaftInv, RaftGaugeInv
<1>17. CASE raftRun.at = "failed"
  <2>1. raftGauge' = [g EXCEPT !.ok = FALSE] BY <1>1, <1>6, <1>17
  <2>2. raftGauge' \in [ok : BOOLEAN, last : Nat] /\ raftGauge'.ok = FALSE /\ raftGauge'.last = g.last BY <2>1
  <2>3. RaftTypeOK' BY <1>1, <1>4, <2>2 DEF RaftInv, RaftTypeOK
  <2>4. RaftGaugeInv' BY <1>4, <1>16, <2>2 DEF RaftGaugeInv
  <2> QED BY <1>10, <1>11, <1>12, <1>13, <1>15, <2>3, <2>4 DEF RaftInv
<1>18. CASE raftRun.at = "done"
  <2>1. t \in Published /\ Cardinality(Published) <= RaftKeep BY <1>3, <1>7, <1>18 DEF RunOK, ThisRaft
  <2>2. raftGauge' = [ok |-> TRUE, last |-> t] \/ raftGauge' = g BY <1>1, <1>6, <1>7, <1>18
  <2>3. raftGauge' \in [ok : BOOLEAN, last : Nat] /\ raftGauge'.last \in {t, g.last}
    <3>1. CASE raftGauge' = [ok |-> TRUE, last |-> t] BY <1>9, <3>1
    <3>2. CASE raftGauge' = g BY <3>2
    <3> QED BY <2>2, <3>1, <3>2
  <2>4. RaftTypeOK' BY <1>1, <1>4, <2>3 DEF RaftInv, RaftTypeOK
  <2>5. t >= t BY <1>9
  <2>6. raftGauge'.last # 0 => \E b \in Published : b >= raftGauge'.last BY <1>16, <2>1, <2>3, <2>5
  <2>7. RaftGaugeInv' BY <1>4, <2>1, <2>6 DEF RaftGaugeInv
  <2> QED BY <1>10, <1>11, <1>12, <1>13, <1>15, <2>4, <2>7 DEF RaftInv
<1> QED BY <1>1, <1>17, <1>18

\* A step of the recovery bundle.
LEMMA BundlingStep ==
  ASSUME RaftInv, UNCHANGED <<raftDir, older, raftRun, raftRuns, uses, raftGauge>>,
         bundling' \in Bundlings \union {RaftIdle}, bundle' \in [id : Nat, newest : Nat], BundleInv'
  PROVE  RaftInv'
PROOF
<1>1. Published' = Published BY DEF Published
<1>2. \A b : Above(b)' = Above(b) BY <1>1 DEF Above
<1>3. RaftTypeOK' BY <1>1 DEF RaftInv, RaftTypeOK
<1>4. PublishedIsRevoked' BY <1>1 DEF RaftInv, PublishedIsRevoked
<1>5. \A r : RunOK(r)' <=> RunOK(r) BY <1>1, <1>2 DEF RunOK
<1>6. RunningInv' BY <1>5 DEF RaftInv, RunningInv
<1>7. KeptInv' BY <1>1, <1>2 DEF RaftInv, KeptInv
<1>8. RaftGaugeInv' BY <1>1 DEF RaftInv, RaftGaugeInv
<1>9. TimesInv' BY <1>1 DEF RaftInv, TimesInv
<1> QED BY <1>3, <1>4, <1>6, <1>7, <1>8, <1>9 DEF RaftInv

LEMMA Select_Inv == ASSUME RaftInv, Select PROVE RaftInv'
PROOF
<1>1. UNCHANGED <<raftDir, older, raftRun, raftRuns, uses, raftGauge, bundle>> BY DEF Select
<1>2. PICK b \in Published : /\ \A c \in Published \ {b} : <<c, b>> \in older
                             /\ bundling' = [at |-> "check", id |-> b, newest |-> NewestRaft]
  BY DEF Select
<1>3. raftRuns \in Nat /\ Published \subseteq 1..raftRuns /\ Published \subseteq Nat BY PublishedFacts
<1>4. Max(Published) \in Published /\ \A c \in Published : Max(Published) >= c
  BY <1>2, <1>3, GreatestNumber
<1>5. PICK n \in Published : n = Max(Published) BY <1>4
<1>6. n = NewestRaft BY <1>2, <1>5 DEF NewestRaft
<1>7. b \in Nat /\ n \in Nat /\ b \in 1..raftRuns BY <1>3
<1>8. bundling' = [at |-> "check", id |-> b, newest |-> n] BY <1>2, <1>6
<1>9. bundling' \in Bundlings BY <1>7, <1>8 DEF Bundlings
<1>10. bundling'.id = b /\ bundling'.newest = n BY <1>8
<1>11. Readable(b) => b = n
  <2>1. SUFFICES ASSUME Readable(b), b # n PROVE FALSE OBVIOUS
  <2>2. "manifest.json" \in raftDir[b] BY <2>1 DEF Readable, Bundled
  <2>3. <<n, b>> \in older BY <1>2, <1>5, <2>1
  <2>4. n < b BY <2>2, <2>3 DEF RaftInv, TimesInv
  <2>5. n >= b BY <1>4, <1>5
  <2> QED BY <1>7, <2>4, <2>5
<1>12. raftRun # RaftIdle /\ raftRun.at \in Early => b # raftRun.id BY <1>2, RaftJob DEF RunOK
<1>13. \A c : Readable(c)' <=> Readable(c) BY <1>1 DEF Readable, Published
<1>14. bundle' \in [id : Nat, newest : Nat] /\ bundle'.id = bundle'.newest
  BY <1>1 DEF RaftInv, RaftTypeOK, BundleInv
<1>15. BundleInv' BY <1>1, <1>7, <1>10, <1>11, <1>12, <1>13, <1>14 DEF BundleInv
<1> QED BY <1>1, <1>9, <1>14, <1>15, BundlingStep

LEMMA Collect_Inv == ASSUME RaftInv, Collect PROVE RaftInv'
PROOF
<1>1. bundling.at \in {"check", "package"} /\ UNCHANGED <<raftDir, older, raftRun, raftRuns, uses, raftGauge>>
  BY DEF Collect
<1>2. bundling # RaftIdle BY <1>1 DEF RaftIdle
<1>3. PICK o \in Bundlings : o = bundling BY <1>2 DEF RaftInv, RaftTypeOK
<1>4. \A c : Readable(c)' <=> Readable(c) BY <1>1 DEF Readable, Published
<1>5. /\ o.id \in 1..raftRuns /\ (Readable(o.id) => o.id = o.newest)
      /\ raftRun # RaftIdle /\ raftRun.at \in Early => o.id # raftRun.id
  BY <1>2, <1>3 DEF RaftInv, BundleInv
<1>6. bundle \in [id : Nat, newest : Nat] /\ bundle.id = bundle.newest
  BY DEF RaftInv, RaftTypeOK, BundleInv
<1>7. CASE bundling' = RaftIdle /\ UNCHANGED bundle
  <2>1. BundleInv' BY <1>6, <1>7 DEF BundleInv
  <2> QED BY <1>1, <1>6, <1>7, <2>1, BundlingStep
<1>8. CASE bundling' = [o EXCEPT !.at = "package"] /\ UNCHANGED bundle
  <2>1. bundling' \in Bundlings BY <1>8 DEF Bundlings
  <2>2. bundling'.id = o.id /\ bundling'.newest = o.newest BY <1>8 DEF Bundlings
  <2>3. BundleInv' BY <1>1, <1>4, <1>5, <1>6, <1>8, <2>2 DEF BundleInv
  <2> QED BY <1>1, <1>6, <1>8, <2>1, <2>3, BundlingStep
<1>9. CASE /\ Readable(bundling.id) /\ bundling' = RaftIdle
           /\ bundle' = [id |-> bundling.id, newest |-> bundling.newest]
  <2>1. bundle' = [id |-> o.id, newest |-> o.newest] /\ o.id = o.newest BY <1>3, <1>5, <1>9
  <2>2. bundle' \in [id : Nat, newest : Nat] BY <2>1 DEF Bundlings
  <2>3. bundle'.id = bundle'.newest BY <2>1
  <2>4. BundleInv' BY <1>9, <2>3 DEF BundleInv
  <2> QED BY <1>1, <1>9, <2>2, <2>4, BundlingStep
<1> QED BY <1>3, <1>7, <1>8, <1>9 DEF Collect

LEMMA RaftInit_Inv == RaftInit => RaftInv
PROOF
<1>1. SUFFICES ASSUME RaftInit PROVE RaftInv OBVIOUS
<1>2. Published = {} BY <1>1 DEF RaftInit, Published
<1>3. raftDir \in [Published -> SUBSET Whole] BY <1>1, <1>2 DEF RaftInit
<1>4. /\ older = {} /\ raftRun = RaftIdle /\ raftRuns = 0 /\ uses = [b \in BundleIds |-> 0]
      /\ raftGauge = [ok |-> FALSE, last |-> 0] /\ bundling = RaftIdle
      /\ bundle = [id |-> 0, newest |-> 0]
  BY <1>1 DEF RaftInit
<1>5. raftRuns \in 0..MaxRaft BY <1>4, RaftKeepAssumption
<1>6. uses \in [BundleIds -> 0..2] BY <1>4
<1>7. raftGauge \in [ok : BOOLEAN, last : Nat] /\ bundle \in [id : Nat, newest : Nat] BY <1>4
<1>8. RaftTypeOK BY <1>2, <1>3, <1>4, <1>5, <1>6, <1>7 DEF RaftTypeOK
<1>9. PublishedIsRevoked /\ KeptInv /\ TimesInv BY <1>2 DEF PublishedIsRevoked, KeptInv, TimesInv
<1>10. RunningInv /\ RaftGaugeInv /\ BundleInv BY <1>4 DEF RunningInv, RaftGaugeInv, BundleInv
<1> QED BY <1>8, <1>9, <1>10 DEF RaftInv

LEMMA RaftNext_Inv == RaftInv /\ [RaftNext]_raftVars => RaftInv'
PROOF
<1>1. SUFFICES ASSUME RaftInv, [RaftNext]_raftVars PROVE RaftInv' OBVIOUS
<1>2. CASE UNCHANGED raftVars
  <2>1. UNCHANGED <<raftDir, older, raftRun, raftRuns, uses, raftGauge, bundling, bundle>>
    BY <1>2 DEF raftVars
  <2>2. \A c : Readable(c)' <=> Readable(c) BY <2>1 DEF Readable, Published
  <2>3. BundleInv' BY <1>1, <2>1, <2>2 DEF RaftInv, BundleInv
  <2>4. bundling' \in Bundlings \union {RaftIdle} /\ bundle' \in [id : Nat, newest : Nat]
    BY <1>1, <2>1 DEF RaftInv, RaftTypeOK
  <2> QED BY <1>1, <2>1, <2>3, <2>4, BundlingStep
<1> QED BY <1>1, <1>2, RaftBegin_Inv, Login_Inv, Stream_Inv, Revoke_Inv, WriteManifest_Inv,
  RaftPublish_Inv, Retention_Inv, Unlink_Inv, RaftKilled_Inv, RaftTell_Inv, Select_Inv, Collect_Inv
  DEF RaftNext

LEMMA RaftInv_Holds ==
  RaftInv => PublishedIsRevoked /\ RaftSuccessIsKept /\ SuccessIsTidy /\ BundleIsNewest
PROOF
<1>1. SUFFICES ASSUME RaftInv
               PROVE  PublishedIsRevoked /\ RaftSuccessIsKept /\ SuccessIsTidy /\ BundleIsNewest
  OBVIOUS
<1>2. PublishedIsRevoked /\ SuccessIsTidy /\ BundleIsNewest
  BY <1>1 DEF RaftInv, RaftGaugeInv, BundleInv, SuccessIsTidy, BundleIsNewest
<1>3. \A b \in Published : Cardinality(Above(b)) < RaftKeep => raftDir[b] = Whole
  <2>1. \A b : Cardinality(Above(b)) \in Nat BY <1>1, PublishedFacts
  <2>2. ASSUME NEW b \in Published, Cardinality(Above(b)) < RaftKeep PROVE raftDir[b] = Whole
    <3>1. ~ (Cardinality(Above(b)) >= RaftKeep) BY <2>1, <2>2, RaftKeepAssumption
    <3> QED BY <1>1, <3>1 DEF RaftInv, KeptInv
  <2> QED BY <2>2
<1>4. NewestRaft >= raftGauge.last
  <2>1. raftRuns \in Nat /\ Published \subseteq 1..raftRuns /\ Published \subseteq Nat
    BY <1>1, PublishedFacts
  <2>2. PICK g \in Nat : g = raftGauge.last BY <1>1 DEF RaftInv, RaftTypeOK
  <2>3. g # 0 => \E b \in Published : b >= g BY <1>1, <2>2 DEF RaftInv, RaftGaugeInv
  <2>4. CASE Published = {} BY <2>2, <2>3, <2>4 DEF NewestRaft
  <2>5. CASE Published # {}
    <3>1. Max(Published) \in Published /\ \A c \in Published : Max(Published) >= c
      BY <2>1, <2>5, GreatestNumber
    <3>2. PICK n \in Published : n = Max(Published) BY <3>1
    <3>3. n \in Nat /\ \A c \in Published : n >= c /\ c \in Nat BY <2>1, <3>1, <3>2
    <3>4. n >= g
      <4>1. CASE g = 0 BY <3>3, <4>1
      <4>2. CASE g # 0
        <5>1. PICK b \in Published : b >= g BY <2>3, <4>2
        <5>2. n >= b /\ b \in Nat BY <3>3
        <5> QED BY <2>2, <3>3, <5>1, <5>2
      <4> QED BY <4>1, <4>2
    <3> QED BY <2>2, <2>5, <3>2, <3>4 DEF NewestRaft
  <2> QED BY <2>4, <2>5
<1>5. RaftSuccessIsKept BY <1>3, <1>4 DEF RaftSuccessIsKept, Above
<1> QED BY <1>2, <1>5

\* Whatever is interrupted or lost between the two scripts and their servers: a
\* directory with the name of a backup (ops_memory_backup.py, create_backup and
\* _prune) is complete, what the gauge promises is on disk, the catalogue of a
\* backup calls nothing indexed that its snapshot lacks, and no snapshot stays in
\* Qdrant uncounted; no backup of OpenBao (openbao_raft_backup.py) is published
\* with a live token, the newest are whole, a reported success is tidy, and the
\* recovery bundle (backup-recovery-bundle.py) packages the newest backup.
THEOREM BackupsAreSound == BackupSpec /\ RaftSpec => []BackupsHold
PROOF
<1>1. BackupSpec => []BackupInv BY BackupInit_Inv, BackupNext_Inv, PTL DEF BackupSpec
<1>2. RaftSpec => []RaftInv BY RaftInit_Inv, RaftNext_Inv, PTL DEF RaftSpec
<1>3. BackupInv /\ RaftInv => BackupsHold BY BackupInv_Holds, RaftInv_Holds DEF BackupsHold
<1> QED BY <1>1, <1>2, <1>3, PTL
=============================================================================
