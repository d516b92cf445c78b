---------------------------- MODULE MissionLeases ----------------------------
(***************************************************************************)
(* The mission queue and the resource locks of the ops broker: claim_next, *)
(* mission_lease, the lock operations and the lease part of                *)
(* recover_after_restart (mission_control.py), with the status changes of  *)
(* missions (_set_entity_status of service.py) that revoke both.           *)
(*                                                                         *)
(* Every operation is one SQLite transaction, but it samples the clock     *)
(* before it waits for the write lock: Begin(p) is the sample, the         *)
(* operation of p that follows uses it, however late it commits.           *)
(*                                                                         *)
(* claimLeases and lockLeases are what the workers were told in the latest *)
(* reply that was not a replay: a worker goes on working until the lease   *)
(* it was told has passed.                                                 *)
(***************************************************************************)
EXTENDS Naturals

CONSTANTS Procs,      \* threads of control of the broker processes
          Workers,    \* actors that claim missions and lock resources
          Missions,   \* mission ids
          Resources,  \* resource ids
          Ids,        \* request ids of claim operations; bounds their number
          Durations,  \* lease_seconds, at least 30 in the code
          Nobody,     \* SQL NULL
          Idle,       \* no call in progress
          MaxTime     \* bound: the last instant of the clock

ASSUME ConstantsAssumption ==
  /\ Nobody \notin Workers \cup Missions
  /\ Idle \notin Nat
  /\ Durations \subseteq Nat \ {0}
  /\ MaxTime \in Nat

VARIABLES now,          \* the wall clock
          status,       \* missions.status
          runtime,      \* mission_runtime: queue state, claimant, lease_until
          locks,        \* resource_locks, at most one row per resource
          claimOps,     \* mission_claim_operations: stored result of an id
          raised,       \* ids whose retry ended in an unexpected exception
          at,           \* clock sample of the call each thread is in
          claimLeases,  \* mission leases the workers were told
          lockLeases    \* lock leases the workers were told

tables == <<status, runtime, locks, claimOps>>
vars   == <<now, tables, raised, at, claimLeases, lockLeases>>

Transitions == [open      |-> {"paused", "completed"},
                paused    |-> {"open", "completed"},
                completed |-> {}]

QueueOf == [open |-> "queued", paused |-> "blocked", completed |-> "done"]

Unclaimed(q) == [queue |-> q, claimedBy |-> Nobody, lease |-> 0]
NoLock == [mission |-> Nobody, holder |-> Nobody, token |-> 0, lease |-> 0]
Locked(r) == locks[r] # NoLock

Init ==
  /\ now = 0
  /\ status   = [m \in Missions |-> "none"]
  /\ runtime  = [m \in Missions |-> Unclaimed("queued")]
  /\ locks    = [r \in Resources |-> NoLock]
  /\ claimOps = [q \in Ids |-> "none"]
  /\ raised   = {}
  /\ at       = [p \in Procs |-> Idle]
  /\ claimLeases = {}
  /\ lockLeases  = {}

Tick == now < MaxTime /\ now' = now + 1
        /\ UNCHANGED <<tables, raised, at, claimLeases, lockLeases>>

\* A call samples the clock and then waits for its transaction.
Begin(p) ==
  /\ at[p] = Idle
  /\ at' = [at EXCEPT ![p] = now]
  /\ UNCHANGED <<now, tables, raised, claimLeases, lockLeases>>

InCall(p) == at[p] # Idle
End(p) == at' = [at EXCEPT ![p] = Idle]

\* The call raises (not found, conflict, not granted, busy timeout) or its
\* process dies: the transaction is rolled back.
Refused(p) ==
  /\ InCall(p)
  /\ End(p)
  /\ UNCHANGED <<now, tables, raised, claimLeases, lockLeases>>

-----------------------------------------------------------------------------
(* Missions                                                                *)

\* create_mission; a trigger of the schema creates the runtime row.
CreateMission(m) ==
  /\ status[m] = "none"
  /\ status' = [status EXCEPT ![m] = "open"]
  /\ runtime' = [runtime EXCEPT ![m] = Unclaimed("queued")]
  /\ UNCHANGED <<now, locks, claimOps, raised, at, claimLeases, lockLeases>>

\* Mutant: a status change leaves the queue row alone.
QueueRowKept(m, s) == runtime[m]

\* The queue row of a mission that takes status s: nobody holds it any more.
QueueRow(m, s) == Unclaimed(QueueOf[s])

\* _set_entity_status: the claim is dropped, and with it the locks when the
\* mission is paused or completed.  The operator thereby revokes the leases
\* that were given on the mission.
SetMissionStatus(m, s) ==
  LET stops == s \in {"paused", "completed"}
  IN /\ status[m] # "none"
     /\ s \in Transitions[status[m]]
     /\ status' = [status EXCEPT ![m] = s]
     /\ runtime' = [runtime EXCEPT ![m] = QueueRow(m, s)]
     /\ locks' = [r \in Resources |->
                    IF stops /\ locks[r].mission = m THEN NoLock ELSE locks[r]]
     /\ claimLeases' = {l \in claimLeases : l.mission # m}
     /\ lockLeases' = {l \in lockLeases : ~(stops /\ l.mission = m)}
     /\ UNCHANGED <<now, claimOps, raised, at>>

-----------------------------------------------------------------------------
(* The queue                                                               *)

\* Mutant: a lease counts as expired one instant early.
ExpiredEarly(until, t) == until <= t + 1

Expired(until, t) == until <= t

\* What claim_next may take at instant t.  The ORDER BY picks one of these by
\* priority and age, which is left open here.
Candidates(t) ==
  {m \in Missions :
     /\ status[m] = "open"
     /\ \/ runtime[m].queue = "queued"
        \/ runtime[m].queue = "claimed" /\ Expired(runtime[m].lease, t)}

\* The reply to worker w on mission m: leased until u.
TellClaim(m, w, u) ==
  claimLeases' = {l \in claimLeases : ~(l.mission = m /\ l.actor = w)}
                   \cup {[mission |-> m, actor |-> w, until |-> u]}

ForgetClaim(m, w) ==
  claimLeases' = {l \in claimLeases : ~(l.mission = m /\ l.actor = w)}

Fresh(q)   == claimOps[q] = "none"
Stored(q, result) == claimOps' = [claimOps EXCEPT ![q] = result]

ClaimNext(p, w, q, m, d) ==
  LET until == at[p] + d
  IN /\ InCall(p) /\ Fresh(q)
     /\ m \in Candidates(at[p])
     /\ runtime' = [runtime EXCEPT ![m] =
                      [queue |-> "claimed", claimedBy |-> w, lease |-> until]]
     /\ Stored(q, "mission")
     /\ TellClaim(m, w, until)
     /\ End(p)
     /\ UNCHANGED <<now, status, locks, raised, lockLeases>>

\* Nothing to claim: the null result is stored under the request id.
ClaimNothing(p, q) ==
  /\ InCall(p) /\ Fresh(q)
  /\ Candidates(at[p]) = {}
  /\ Stored(q, "null")
  /\ End(p)
  /\ UNCHANGED <<now, status, runtime, locks, raised, claimLeases, lockLeases>>

\* A retry with a known id gets the stored result, marked as a replay.  The
\* mark is set on the decoded result before it is tested for null.
ClaimRetried(p, q) ==
  /\ InCall(p) /\ ~Fresh(q)
  /\ raised' = IF claimOps[q] = "null" THEN raised \cup {q} ELSE raised
  /\ End(p)
  /\ UNCHANGED <<now, tables, claimLeases, lockLeases>>

Holds(w, m) == runtime[m].queue = "claimed" /\ runtime[m].claimedBy = w

\* A heartbeat is accepted from the claimant even after its lease has passed,
\* as long as nobody else has claimed the mission.
Heartbeat(p, w, q, m, d) ==
  LET until == at[p] + d
  IN /\ InCall(p) /\ Fresh(q)
     /\ Holds(w, m)
     /\ runtime' = [runtime EXCEPT ![m].lease = until]
     /\ Stored(q, "mission")
     /\ TellClaim(m, w, until)
     /\ End(p)
     /\ UNCHANGED <<now, status, locks, raised, lockLeases>>

ReleaseClaim(p, w, q, m) ==
  /\ InCall(p) /\ Fresh(q)
  /\ Holds(w, m)
  /\ runtime' = [runtime EXCEPT ![m] =
                   Unclaimed(IF status[m] = "completed" THEN "done" ELSE "queued")]
  /\ Stored(q, "mission")
  /\ ForgetClaim(m, w)
  /\ End(p)
  /\ UNCHANGED <<now, status, locks, raised, lockLeases>>

-----------------------------------------------------------------------------
(* Resource locks.  A replayed lock operation returns its stored result and *)
(* changes nothing: it is a Refused step here.                              *)

Owns(w, m, r) == locks[r].mission = m /\ locks[r].holder = w

TellLock(m, w, r, k, u) ==
  lockLeases' = {l \in lockLeases : ~(l.resource = r /\ l.mission = m /\ l.actor = w)}
                  \cup {[resource |-> r, mission |-> m, actor |-> w,
                         token |-> k, until |-> u]}

\* Mutant: a taken over lock keeps its token.
TokenKept(w, m, r) == IF Locked(r) THEN locks[r].token ELSE 1

\* One for a new row, the next one when the lock is taken over.
TokenFor(w, m, r) ==
  CASE ~Locked(r)                     -> 1
    [] Locked(r) /\ Owns(w, m, r)     -> locks[r].token
    [] Locked(r) /\ ~Owns(w, m, r)    -> locks[r].token + 1

\* The status of the mission is not consulted.
AcquireLock(p, w, m, r, d) ==
  LET until == at[p] + d
      token == TokenFor(w, m, r)
  IN /\ InCall(p)
     /\ status[m] # "none"
     /\ Locked(r) => Expired(locks[r].lease, at[p]) \/ Owns(w, m, r)
     /\ locks' = [locks EXCEPT ![r] =
                    [mission |-> m, holder |-> w, token |-> token, lease |-> until]]
     /\ TellLock(m, w, r, token, until)
     /\ End(p)
     /\ UNCHANGED <<now, status, runtime, claimOps, raised, claimLeases>>

RenewLock(p, w, m, r, d) ==
  LET until == at[p] + d
  IN /\ InCall(p)
     /\ Locked(r) /\ Owns(w, m, r)
     /\ locks' = [locks EXCEPT ![r].lease = until]
     /\ TellLock(m, w, r, locks[r].token, until)
     /\ End(p)
     /\ UNCHANGED <<now, status, runtime, claimOps, raised, claimLeases>>

ReleaseLock(p, w, m, r) ==
  /\ InCall(p)
  /\ Locked(r) /\ Owns(w, m, r)
  /\ locks' = [locks EXCEPT ![r] = NoLock]
  /\ lockLeases' = {l \in lockLeases : ~(l.resource = r /\ l.mission = m /\ l.actor = w)}
  /\ End(p)
  /\ UNCHANGED <<now, status, runtime, claimOps, raised, claimLeases>>

-----------------------------------------------------------------------------
\* Mutant: a restart requeues every claimed mission.
RequeuedAll(t) == {m \in Missions : runtime[m].queue = "claimed"}

Requeued(t) ==
  {m \in Missions : runtime[m].queue = "claimed" /\ Expired(runtime[m].lease, t)}

\* recover_after_restart, at each start of a broker process: expired claims go
\* back to the queue, expired locks are deleted.
Recover(p) ==
  /\ InCall(p)
  /\ runtime' = [m \in Missions |->
                   IF m \in Requeued(at[p]) THEN Unclaimed("queued") ELSE runtime[m]]
  /\ locks' = [r \in Resources |->
                 IF Locked(r) /\ Expired(locks[r].lease, at[p]) THEN NoLock ELSE locks[r]]
  /\ End(p)
  /\ UNCHANGED <<now, status, claimOps, raised, claimLeases, lockLeases>>

-----------------------------------------------------------------------------
Queue(p) ==
  \E q \in Ids :
    \/ ClaimNothing(p, q) \/ ClaimRetried(p, q)
    \/ \E w \in Workers, m \in Missions :
         \/ ReleaseClaim(p, w, q, m)
         \/ \E d \in Durations : ClaimNext(p, w, q, m, d) \/ Heartbeat(p, w, q, m, d)

Locking(p) ==
  \E w \in Workers, m \in Missions, r \in Resources :
    \/ ReleaseLock(p, w, m, r)
    \/ \E d \in Durations : AcquireLock(p, w, m, r, d) \/ RenewLock(p, w, m, r, d)

Next ==
  \/ Tick
  \/ \E m \in Missions : \/ CreateMission(m)
                         \/ \E s \in {"open", "paused", "completed"} : SetMissionStatus(m, s)
  \/ \E p \in Procs : Begin(p) \/ Refused(p) \/ Queue(p) \/ Locking(p) \/ Recover(p)

Spec == Init /\ [][Next]_vars

-----------------------------------------------------------------------------
(* Properties                                                              *)

\* Type invariant: the rows have the columns the schema gives them.
TypeOK ==
  /\ now \in Nat
  /\ status \in [Missions -> {"none", "open", "paused", "completed"}]
  /\ runtime \in [Missions -> [queue : {"queued", "claimed", "blocked", "done"},
                               claimedBy : Workers \cup {Nobody}, lease : Nat]]
  /\ locks \in [Resources -> [mission : Missions \cup {Nobody},
                              holder : Workers \cup {Nobody}, token : Nat, lease : Nat]]
  /\ claimOps \in [Ids -> {"none", "mission", "null"}]
  /\ raised \subseteq Ids
  /\ at \in [Procs -> Nat \cup {Idle}]
  /\ claimLeases \subseteq [mission : Missions, actor : Workers, until : Nat]
  /\ lockLeases \subseteq [resource : Resources, mission : Missions, actor : Workers,
                           token : Nat, until : Nat]

\* The queue row follows the status of the mission, although four operations
\* and the recovery write it: a paused or completed mission is out of the queue
\* and claimed by nobody, an open one is queued or claimed by somebody.
QueueFollowsStatus ==
  \A m \in Missions :
    /\ runtime[m].queue = "blocked" <=> status[m] = "paused"
    /\ runtime[m].queue = "done" <=> status[m] = "completed"
    /\ runtime[m].queue = "claimed" <=> runtime[m].claimedBy # Nobody

\* Two workers are never both entitled to work on a mission: leases given by
\* claim_next and heartbeat do not overlap, whatever stale clock sample, restart
\* or late heartbeat comes in between, unless the operator changed its status.
ClaimExclusive ==
  \A l1, l2 \in claimLeases :
    l1.mission = l2.mission /\ l1.until > now /\ l2.until > now => l1.actor = l2.actor

\* The same for resource locks: one mission and one actor at a time hold an
\* unexpired lease on a resource.
LockExclusive ==
  \A l1, l2 \in lockLeases :
    l1.resource = l2.resource /\ l1.until > now /\ l2.until > now =>
      l1.mission = l2.mission /\ l1.actor = l2.actor

\* Whoever takes a lock over from another holder gets a greater token, as long
\* as the row is not deleted in between.
TakeoverRaisesToken ==
  [][\A r \in Resources :
       /\ locks[r] # NoLock /\ locks'[r] # NoLock
       /\ \/ locks'[r].mission # locks[r].mission
          \/ locks'[r].holder # locks[r].holder
       => locks'[r].token > locks[r].token /\ locks[r].lease <= now]_vars

=============================================================================
