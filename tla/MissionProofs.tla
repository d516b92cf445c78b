---------------------------- MODULE MissionProofs ----------------------------
(***************************************************************************)
(* Proofs about the missions of the broker.  MissionLeases, for every set  *)
(* of workers, missions, resources, threads and lease durations.           *)
(* MissionContext: what the tables, the counters, the resume point, the    *)
(* evidence, the audit trail and the backups tell of the calls, for any    *)
(* missions, actions, callers, request ids and number of events.           *)
(***************************************************************************)
EXTENDS MissionLeases, MissionContext, FiniteSetTheorems, SequenceTheorems, TLAPS

-----------------------------------------------------------------------------
(* QUEUE, LEASES AND LOCKS                                                 *)

\* A clock sample is never ahead of the clock.
SampleInv == \A p \in Procs : InCall(p) => at[p] <= now

\* A lease a worker was told and that has not passed is the one in the table.
ClaimInv ==
  \A l \in claimLeases : l.until > now =>
    /\ runtime[l.mission].queue = "claimed"
    /\ runtime[l.mission].claimedBy = l.actor
    /\ runtime[l.mission].lease = l.until

LockInv ==
  \A l \in lockLeases : l.until > now =>
    /\ locks[l.resource].mission = l.mission
    /\ locks[l.resource].holder = l.actor
    /\ locks[l.resource].lease = l.until

\* A mission nobody created is claimed by nobody.
NewInv == \A m \in Missions : status[m] = "none" => runtime[m].queue # "claimed"

QueueInv == QueueFollowsStatus /\ NewInv

IInv == TypeOK /\ SampleInv /\ QueueInv /\ ClaimInv /\ LockInv

\* The clock sample a thread in a call carries is an instant that has come.
LEMMA Sampled ==
  ASSUME TypeOK, SampleInv, NEW p \in Procs, InCall(p)
  PROVE  at[p] \in Nat /\ at[p] <= now
BY DEF TypeOK, SampleInv, InCall

\* A call that ends leaves no sample.
LEMMA Ends ==
  ASSUME TypeOK, SampleInv, NEW p \in Procs, End(p), now' = now
  PROVE  at' \in [Procs -> Nat \cup {Idle}] /\ SampleInv'
BY DEF TypeOK, SampleInv, End, InCall

LEMMA InitIInv == Init => IInv
BY ConstantsAssumption
   DEF Init, IInv, TypeOK, SampleInv, QueueInv, NewInv, QueueFollowsStatus, ClaimInv, LockInv, InCall,
       Unclaimed, NoLock

\* What a row of the queue and a row of the locks look like.
QueueRows == [queue : {"queued", "claimed", "blocked", "done"},
              claimedBy : Workers \cup {Nobody}, lease : Nat]
LockRows  == [mission : Missions \cup {Nobody}, holder : Workers \cup {Nobody},
              token : Nat, lease : Nat]

LEMMA TableTypes ==
  TypeOK => runtime \in [Missions -> QueueRows] /\ locks \in [Resources -> LockRows]
BY DEF TypeOK, QueueRows, LockRows

\* The queue row of m becomes row, told leases on m of other workers lapsed.
LEMMA QueueStep ==
  ASSUME IInv, NEW m \in Missions, NEW row \in QueueRows, now' = now,
         runtime' = [runtime EXCEPT ![m] = row],
         UNCHANGED status,
         row.queue \in {"queued", "claimed"}, row.queue = "claimed" <=> row.claimedBy # Nobody,
         status[m] = "open",
         claimLeases' \subseteq [mission : Missions, actor : Workers, until : Nat],
         \A l \in claimLeases' : l.mission # m => l \in claimLeases,
         \A l \in claimLeases' : l.mission = m /\ l.until > now =>
           row.queue = "claimed" /\ row.claimedBy = l.actor /\ row.lease = l.until
  PROVE  /\ runtime' \in [Missions -> QueueRows]
         /\ QueueInv'
         /\ ClaimInv'
<1>1. runtime \in [Missions -> QueueRows]
  BY TableTypes DEF IInv
<1>2. runtime' \in [Missions -> QueueRows]
  BY <1>1
<1>3. runtime'[m] = row /\ \A n \in Missions \ {m} : runtime'[n] = runtime[n]
  BY <1>1
<1>4. QueueInv'
  BY <1>3 DEF IInv, QueueInv, NewInv, QueueFollowsStatus
<1>5. ASSUME NEW l \in claimLeases', l.until > now
      PROVE  /\ runtime'[l.mission].queue = "claimed"
             /\ runtime'[l.mission].claimedBy = l.actor
             /\ runtime'[l.mission].lease = l.until
  <2>1. l.mission \in Missions
    OBVIOUS
  <2>2. CASE l.mission = m
    BY <1>3, <1>5, <2>2
  <2>3. CASE l.mission # m
    BY <1>3, <1>5, <2>1, <2>3 DEF IInv, ClaimInv
  <2> QED
    BY <2>2, <2>3
<1> QED
  BY <1>2, <1>4, <1>5 DEF ClaimInv

\* The lock row of r becomes row, told leases on r of other holders lapsed.
LEMMA LockStep ==
  ASSUME IInv, NEW r \in Resources, NEW row \in LockRows, now' = now,
         locks' = [locks EXCEPT ![r] = row],
         lockLeases' \subseteq [resource : Resources, mission : Missions, actor : Workers,
                                token : Nat, until : Nat],
         \A l \in lockLeases' : l.resource # r => l \in lockLeases,
         \A l \in lockLeases' : l.resource = r /\ l.until > now =>
           row.mission = l.mission /\ row.holder = l.actor /\ row.lease = l.until
  PROVE  locks' \in [Resources -> LockRows] /\ LockInv'
<1>1. locks \in [Resources -> LockRows]
  BY TableTypes DEF IInv
<1>2. locks' \in [Resources -> LockRows]
  BY <1>1
<1>3. locks'[r] = row /\ \A n \in Resources \ {r} : locks'[n] = locks[n]
  BY <1>1
<1>4. ASSUME NEW l \in lockLeases', l.until > now
      PROVE  /\ locks'[l.resource].mission = l.mission
             /\ locks'[l.resource].holder = l.actor
             /\ locks'[l.resource].lease = l.until
  <2>1. l.resource \in Resources
    OBVIOUS
  <2>2. CASE l.resource = r
    BY <1>3, <1>4, <2>2
  <2>3. CASE l.resource # r
    BY <1>3, <1>4, <2>1, <2>3 DEF IInv, LockInv
  <2> QED
    BY <2>2, <2>3
<1> QED
  BY <1>2, <1>4 DEF LockInv

\* The steps of one thread on the queue.
LEMMA QueueNext ==
  ASSUME IInv, NEW p \in Procs, Queue(p)
  PROVE  IInv'
<1>t. TypeOK /\ SampleInv /\ QueueInv /\ ClaimInv /\ LockInv
  BY DEF IInv
<1>w. claimLeases \subseteq [mission : Missions, actor : Workers, until : Nat]
  BY <1>t DEF TypeOK
<1>s. ASSUME NEW q \in Ids, NEW x \in {"mission", "null"}, Stored(q, x)
      PROVE  claimOps' \in [Ids -> {"none", "mission", "null"}]
  BY <1>s, <1>t DEF Stored, TypeOK
<1>1. ASSUME NEW q \in Ids, NEW w \in Workers, NEW m \in Missions, NEW d \in Durations,
             ClaimNext(p, w, q, m, d) \/ Heartbeat(p, w, q, m, d)
      PROVE  IInv'
  <2>1. InCall(p) /\ End(p) /\ Stored(q, "mission")
        /\ UNCHANGED <<now, status, locks, raised, lockLeases>>
    BY <1>1 DEF ClaimNext, Heartbeat
  <2>2. at[p] \in Nat /\ at[p] <= now
    BY <1>t, <2>1, Sampled
  <2>3. PICK u \in Nat : u = at[p] + d
    BY <2>2, ConstantsAssumption
  <2>4. TellClaim(m, w, u)
    BY <1>1, <2>3 DEF ClaimNext, Heartbeat
  <2> DEFINE row == [queue |-> "claimed", claimedBy |-> w, lease |-> u]
  <2>5. row \in QueueRows /\ row.queue = "claimed" /\ row.claimedBy = w /\ row.lease = u
    BY DEF QueueRows
  <2>6. w # Nobody
    BY ConstantsAssumption
  <2>7. runtime' = [runtime EXCEPT ![m] = row]
    <3>1. CASE ClaimNext(p, w, q, m, d)
      BY <2>3, <3>1 DEF ClaimNext
    <3>2. CASE Heartbeat(p, w, q, m, d)
      <4>1. runtime[m] \in QueueRows /\ runtime \in [Missions -> QueueRows]
        BY <1>t, TableTypes
      <4>2. runtime' = [runtime EXCEPT ![m] = [runtime[m] EXCEPT !.lease = u]]
        BY <2>3, <3>2, <4>1 DEF Heartbeat
      <4>3. runtime[m].queue = "claimed" /\ runtime[m].claimedBy = w
        BY <3>2 DEF Heartbeat, Holds
      <4>4. [runtime[m] EXCEPT !.lease = u] = row
        BY <4>1, <4>3 DEF QueueRows
      <4> QED
        BY <4>2, <4>4
    <3> QED
      BY <1>1, <3>1, <3>2
  <2>8. status[m] = "open"
    <3>1. CASE ClaimNext(p, w, q, m, d)
      BY <3>1 DEF ClaimNext, Candidates
    <3>2. CASE Heartbeat(p, w, q, m, d)
      BY <1>t, <3>2 DEF Heartbeat, Holds, QueueInv, NewInv, QueueFollowsStatus, TypeOK
    <3> QED
      BY <1>1, <3>1, <3>2
  <2>9. ASSUME NEW l \in claimLeases, l.mission = m, l.until > now PROVE l.actor = w
    <3>1. /\ runtime[m].queue = "claimed" /\ runtime[m].claimedBy = l.actor
          /\ runtime[m].lease = l.until
      BY <1>t, <2>9 DEF ClaimInv
    <3>2. CASE ClaimNext(p, w, q, m, d)
      <4>1. l.until <= at[p]
        BY <3>1, <3>2 DEF ClaimNext, Candidates, Expired
      <4>2. l.until \in Nat /\ now \in Nat
        BY <1>w, <1>t DEF TypeOK
      <4> QED
        BY <2>2, <2>9, <4>1, <4>2
    <3>3. CASE Heartbeat(p, w, q, m, d)
      BY <3>1, <3>3 DEF Heartbeat, Holds
    <3> QED
      BY <1>1, <3>2, <3>3
  <2>10. PICK new : new = [mission |-> m, actor |-> w, until |-> u]
    OBVIOUS
  <2>11. new.mission = m /\ new.actor = w /\ new.until = u
         /\ new \in [mission : Missions, actor : Workers, until : Nat]
    BY <2>10
  <2>12. claimLeases' = {l \in claimLeases : ~(l.mission = m /\ l.actor = w)} \cup {new}
    BY <2>4, <2>10 DEF TellClaim
  <2>13. claimLeases' \subseteq [mission : Missions, actor : Workers, until : Nat]
    BY <1>w, <2>11, <2>12
  <2>14. \A l \in claimLeases' : l.mission # m => l \in claimLeases
    BY <2>11, <2>12
  <2>15. \A l \in claimLeases' : l.mission = m /\ l.until > now => l = new
    BY <2>9, <2>12
  <2> HIDE DEF row
  <2>16. /\ runtime' \in [Missions -> QueueRows]
         /\ QueueInv'
         /\ ClaimInv'
    <3>1. now' = now /\ UNCHANGED status
      BY <2>1
    <3>2. \A l \in claimLeases' : l.mission = m /\ l.until > now =>
            row.queue = "claimed" /\ row.claimedBy = l.actor /\ row.lease = l.until
      BY <2>5, <2>11, <2>15
    <3> QED
      BY <2>5, <2>6, <2>7, <2>8, <2>13, <2>14, <3>1, <3>2, QueueStep
  <2>17. at' \in [Procs -> Nat \cup {Idle}] /\ SampleInv'
    BY <1>t, <2>1, Ends
  <2>18. LockInv'
    BY <1>t, <2>1 DEF LockInv
  <2>19. claimOps' \in [Ids -> {"none", "mission", "null"}]
    BY <1>s, <2>1
  <2>20. TypeOK'
    BY <1>t, <2>1, <2>13, <2>16, <2>17, <2>19 DEF TypeOK, QueueRows
  <2> QED
    BY <2>16, <2>17, <2>18, <2>20 DEF IInv
<1>2. ASSUME NEW q \in Ids, NEW w \in Workers, NEW m \in Missions, ReleaseClaim(p, w, q, m)
      PROVE  IInv'
  <2>1. InCall(p) /\ End(p) /\ Stored(q, "mission") /\ Holds(w, m)
        /\ UNCHANGED <<now, status, locks, raised, lockLeases>>
    BY <1>2 DEF ReleaseClaim
  <2>2. status[m] = "open"
    BY <1>t, <2>1 DEF Holds, QueueInv, NewInv, QueueFollowsStatus, TypeOK
  <2>3. runtime' = [runtime EXCEPT ![m] = Unclaimed("queued")]
    BY <1>2, <2>2 DEF ReleaseClaim
  <2>4. /\ Unclaimed("queued") \in QueueRows
        /\ Unclaimed("queued").queue = "queued" /\ Unclaimed("queued").claimedBy = Nobody
    BY DEF Unclaimed, QueueRows
  <2>5. claimLeases' = {l \in claimLeases : ~(l.mission = m /\ l.actor = w)}
    BY <1>2 DEF ReleaseClaim, ForgetClaim
  <2>6. \A l \in claimLeases' : ~(l.mission = m /\ l.until > now)
    BY <1>t, <2>1, <2>5 DEF ClaimInv, Holds
  <2>7. /\ runtime' \in [Missions -> QueueRows]
        /\ QueueInv'
        /\ ClaimInv'
    <3>1. now' = now /\ UNCHANGED status
      BY <2>1
    <3>2. claimLeases' \subseteq [mission : Missions, actor : Workers, until : Nat]
      BY <1>w, <2>5
    <3>3. \A l \in claimLeases' : l.mission # m => l \in claimLeases
      BY <2>5
    <3> QED
      BY <2>2, <2>3, <2>4, <2>6, <3>1, <3>2, <3>3, QueueStep
  <2>8. at' \in [Procs -> Nat \cup {Idle}] /\ SampleInv'
    BY <1>t, <2>1, Ends
  <2>9. LockInv'
    BY <1>t, <2>1 DEF LockInv
  <2>10. claimOps' \in [Ids -> {"none", "mission", "null"}]
    BY <1>s, <2>1
  <2>11. TypeOK'
    BY <1>t, <1>w, <2>1, <2>5, <2>7, <2>8, <2>10 DEF TypeOK, QueueRows
  <2> QED
    BY <2>7, <2>8, <2>9, <2>11 DEF IInv
<1>3. ASSUME NEW q \in Ids, ClaimNothing(p, q) \/ ClaimRetried(p, q)
      PROVE  IInv'
  <2>1. /\ End(p) /\ raised' \subseteq Ids
        /\ claimOps' \in [Ids -> {"none", "mission", "null"}]
        /\ now' = now /\ status' = status /\ runtime' = runtime /\ locks' = locks
        /\ claimLeases' = claimLeases /\ lockLeases' = lockLeases
    BY <1>3, <1>s, <1>t DEF ClaimNothing, ClaimRetried, tables, TypeOK
  <2>2. at' \in [Procs -> Nat \cup {Idle}] /\ SampleInv'
    BY <1>t, <2>1, Ends
  <2> QED
    BY <1>t, <2>1, <2>2 DEF IInv, TypeOK, QueueInv, NewInv, QueueFollowsStatus, ClaimInv, LockInv
<1> QED
  BY <1>1, <1>2, <1>3 DEF Queue

\* The steps of one thread on the locks.
LEMMA LockingNext ==
  ASSUME IInv, NEW p \in Procs, Locking(p)
  PROVE  IInv'
<1>t. TypeOK /\ SampleInv /\ QueueInv /\ ClaimInv /\ LockInv
  BY DEF IInv
<1>l. lockLeases \subseteq [resource : Resources, mission : Missions, actor : Workers,
                            token : Nat, until : Nat]
  BY <1>t DEF TypeOK
<1>k. locks \in [Resources -> LockRows]
  BY <1>t, TableTypes
<1>1. ASSUME NEW w \in Workers, NEW m \in Missions, NEW r \in Resources,
             \/ ReleaseLock(p, w, m, r)
             \/ \E d \in Durations : AcquireLock(p, w, m, r, d) \/ RenewLock(p, w, m, r, d)
      PROVE  locks' \in [Resources -> LockRows] /\ LockInv' /\
             lockLeases' \subseteq [resource : Resources, mission : Missions, actor : Workers,
                                    token : Nat, until : Nat]
  <2>1. InCall(p) /\ now' = now
    BY <1>1 DEF ReleaseLock, AcquireLock, RenewLock
  <2>2. at[p] \in Nat /\ at[p] <= now /\ now \in Nat
    BY <1>t, <2>1, Sampled DEF TypeOK
  <2>3. CASE ReleaseLock(p, w, m, r)
    <3>1. locks' = [locks EXCEPT ![r] = NoLock] /\ NoLock \in LockRows
      BY <2>3 DEF ReleaseLock, NoLock, LockRows
    <3>2. lockLeases' = {l \in lockLeases :
                           ~(l.resource = r /\ l.mission = m /\ l.actor = w)}
      BY <2>3 DEF ReleaseLock
    <3>3. \A l \in lockLeases' : ~(l.resource = r /\ l.until > now)
      BY <1>t, <2>3, <3>2 DEF LockInv, ReleaseLock, Owns
    <3>4. /\ lockLeases' \subseteq [resource : Resources, mission : Missions,
                                    actor : Workers, token : Nat, until : Nat]
          /\ \A l \in lockLeases' : l.resource # r => l \in lockLeases
      BY <1>l, <3>2
    <3> QED
      BY <2>1, <3>1, <3>3, <3>4, LockStep
  <2>4. ASSUME NEW d \in Durations, AcquireLock(p, w, m, r, d) \/ RenewLock(p, w, m, r, d)
        PROVE  locks' \in [Resources -> LockRows] /\ LockInv' /\
               lockLeases' \subseteq [resource : Resources, mission : Missions,
                                      actor : Workers, token : Nat, until : Nat]
    <3>1. PICK u \in Nat : u = at[p] + d
      BY <2>2, ConstantsAssumption
    <3>2. locks[r] \in LockRows
      BY <1>k
    <3>3. PICK k \in Nat :
            /\ locks' = [locks EXCEPT ![r] = [mission |-> m, holder |-> w,
                                              token |-> k, lease |-> u]]
            /\ TellLock(m, w, r, k, u)
      <4>1. CASE AcquireLock(p, w, m, r, d)
        <5>1. TokenFor(w, m, r) \in Nat
          BY <3>2 DEF TokenFor, LockRows
        <5> QED
          BY <3>1, <4>1, <5>1 DEF AcquireLock
      <4>2. CASE RenewLock(p, w, m, r, d)
        <5>1. locks' = [locks EXCEPT ![r] = [locks[r] EXCEPT !.lease = u]]
          BY <1>k, <3>1, <4>2 DEF RenewLock
        <5>2. [locks[r] EXCEPT !.lease = u] =
                [mission |-> m, holder |-> w, token |-> locks[r].token, lease |-> u]
          BY <3>2, <4>2 DEF RenewLock, Owns, LockRows
        <5>3. locks[r].token \in Nat /\ TellLock(m, w, r, locks[r].token, u)
          BY <3>1, <3>2, <4>2 DEF RenewLock, LockRows
        <5> QED
          BY <5>1, <5>2, <5>3
      <4> QED
        BY <2>4, <4>1, <4>2
    <3>4. ASSUME NEW l \in lockLeases, l.resource = r, l.until > now
          PROVE  l.mission = m /\ l.actor = w
      <4>1. /\ locks[r].mission = l.mission /\ locks[r].holder = l.actor
            /\ locks[r].lease = l.until
        BY <1>t, <3>4 DEF LockInv
      <4>2. l.until \in Nat /\ l.mission \in Missions
        BY <1>l
      <4>3. Locked(r)
        BY <4>1, <4>2, ConstantsAssumption DEF Locked, NoLock
      <4>4. ~Expired(locks[r].lease, at[p])
        BY <2>2, <3>4, <4>1, <4>2 DEF Expired
      <4>5. Owns(w, m, r)
        BY <2>4, <4>3, <4>4 DEF AcquireLock, RenewLock
      <4> QED
        BY <4>1, <4>5 DEF Owns
    <3>5. PICK new : new = [resource |-> r, mission |-> m, actor |-> w,
                            token |-> k, until |-> u]
      OBVIOUS
    <3>6. /\ new.resource = r /\ new.mission = m /\ new.actor = w /\ new.until = u
          /\ new \in [resource : Resources, mission : Missions, actor : Workers,
                      token : Nat, until : Nat]
      BY <3>5
    <3>7. lockLeases' = {l \in lockLeases :
                           ~(l.resource = r /\ l.mission = m /\ l.actor = w)} \cup {new}
      BY <3>3, <3>5 DEF TellLock
    <3>8. /\ lockLeases' \subseteq [resource : Resources, mission : Missions,
                                    actor : Workers, token : Nat, until : Nat]
          /\ \A l \in lockLeases' : l.resource # r => l \in lockLeases
          /\ \A l \in lockLeases' : l.resource = r /\ l.until > now => l = new
      BY <1>l, <3>4, <3>6, <3>7
    <3>9. PICK row : row = [mission |-> m, holder |-> w, token |-> k, lease |-> u]
      OBVIOUS
    <3>10. /\ row \in LockRows /\ row.mission = m /\ row.holder = w /\ row.lease = u
           /\ locks' = [locks EXCEPT ![r] = row]
      BY <3>3, <3>9 DEF LockRows
    <3>11. \A l \in lockLeases' : l.resource = r /\ l.until > now =>
             row.mission = l.mission /\ row.holder = l.actor /\ row.lease = l.until
      BY <3>6, <3>8, <3>10
    <3> QED
      BY <2>1, <3>8, <3>10, <3>11, LockStep
  <2> QED
    BY <1>1, <2>3, <2>4
<1>2. /\ End(p) /\ now' = now /\ status' = status /\ runtime' = runtime
      /\ claimOps' = claimOps /\ raised' = raised /\ claimLeases' = claimLeases
  BY DEF Locking, ReleaseLock, AcquireLock, RenewLock
<1>3. at' \in [Procs -> Nat \cup {Idle}] /\ SampleInv'
  BY <1>t, <1>2, Ends
<1>4. locks' \in [Resources -> LockRows] /\ LockInv' /\
      lockLeases' \subseteq [resource : Resources, mission : Missions, actor : Workers,
                             token : Nat, until : Nat]
  BY <1>1 DEF Locking
<1>5. TypeOK'
  BY <1>t, <1>2, <1>3, <1>4 DEF TypeOK, LockRows
<1>6. QueueInv' /\ ClaimInv'
  BY <1>t, <1>2 DEF QueueInv, NewInv, QueueFollowsStatus, ClaimInv
<1> QED
  BY <1>3, <1>4, <1>5, <1>6 DEF IInv

LEMMA NextIInv == ASSUME IInv, [Next]_vars PROVE IInv'
<1>t. TypeOK /\ SampleInv /\ QueueInv /\ ClaimInv /\ LockInv
  BY DEF IInv
<1>w. claimLeases \subseteq [mission : Missions, actor : Workers, until : Nat]
  BY <1>t DEF TypeOK
<1>l. lockLeases \subseteq [resource : Resources, mission : Missions, actor : Workers,
                            token : Nat, until : Nat]
  BY <1>t DEF TypeOK
<1>r. runtime \in [Missions -> QueueRows] /\ locks \in [Resources -> LockRows]
  BY <1>t, TableTypes
<1>u. \A q \in {"queued", "blocked", "done"} :
        /\ Unclaimed(q) \in QueueRows
        /\ Unclaimed(q).queue = q /\ Unclaimed(q).claimedBy = Nobody
  BY DEF Unclaimed, QueueRows
<1>1. CASE UNCHANGED vars
  BY <1>1, <1>t DEF vars, tables, IInv, TypeOK, SampleInv, QueueInv, NewInv,
                    QueueFollowsStatus, ClaimInv, LockInv, InCall
<1>2. CASE Tick
  <2>1. /\ now' = now + 1 /\ now \in Nat
        /\ status' = status /\ runtime' = runtime /\ locks' = locks /\ claimOps' = claimOps
        /\ raised' = raised /\ at' = at /\ claimLeases' = claimLeases
        /\ lockLeases' = lockLeases
    BY <1>2, <1>t DEF Tick, tables, TypeOK
  <2>2. TypeOK' /\ QueueInv'
    BY <1>t, <2>1 DEF TypeOK, QueueInv, NewInv, QueueFollowsStatus
  <2>3. SampleInv'
    BY <1>t, <2>1 DEF SampleInv, InCall, TypeOK
  <2>4. ClaimInv'
    BY <1>t, <1>w, <2>1 DEF ClaimInv
  <2>5. LockInv'
    BY <1>t, <1>l, <2>1 DEF LockInv
  <2> QED
    BY <2>2, <2>3, <2>4, <2>5 DEF IInv
<1>3. ASSUME NEW m \in Missions, CreateMission(m) PROVE IInv'
  <2>1. /\ status[m] = "none" /\ status' = [status EXCEPT ![m] = "open"]
        /\ runtime' = [runtime EXCEPT ![m] = Unclaimed("queued")]
        /\ now' = now /\ locks' = locks /\ claimOps' = claimOps /\ raised' = raised
        /\ at' = at /\ claimLeases' = claimLeases /\ lockLeases' = lockLeases
    BY <1>3 DEF CreateMission
  <2>2. /\ runtime'[m] = Unclaimed("queued") /\ status'[m] = "open"
        /\ \A n \in Missions \ {m} : runtime'[n] = runtime[n] /\ status'[n] = status[n]
    BY <1>r, <1>t, <2>1 DEF TypeOK
  <2>3. QueueInv'
    BY <1>t, <1>u, <2>2 DEF QueueInv, NewInv, QueueFollowsStatus
  <2>4. \A l \in claimLeases : ~(l.mission = m /\ l.until > now)
    BY <1>t, <2>1 DEF ClaimInv, QueueInv, NewInv
  <2>5. ClaimInv'
    BY <1>t, <1>w, <2>1, <2>2, <2>4 DEF ClaimInv
  <2>6. LockInv' /\ SampleInv'
    BY <1>t, <2>1 DEF LockInv, SampleInv, InCall
  <2>7. /\ status' \in [Missions -> {"none", "open", "paused", "completed"}]
        /\ runtime' \in [Missions -> QueueRows]
    BY <1>t, <1>r, <1>u, <2>1 DEF TypeOK
  <2>8. TypeOK'
    BY <1>t, <2>1, <2>7 DEF TypeOK, QueueRows
  <2> QED
    BY <2>3, <2>5, <2>6, <2>8 DEF IInv
<1>4. ASSUME NEW m \in Missions, NEW s \in {"open", "paused", "completed"},
             SetMissionStatus(m, s)
      PROVE  IInv'
  <2>1. /\ status[m] # "none" /\ status' = [status EXCEPT ![m] = s]
        /\ runtime' = [runtime EXCEPT ![m] = Unclaimed(QueueOf[s])]
        /\ now' = now /\ claimOps' = claimOps /\ raised' = raised /\ at' = at
        /\ claimLeases' = {l \in claimLeases : l.mission # m}
    BY <1>4 DEF SetMissionStatus, QueueRow
  <2>2. /\ QueueOf[s] \in {"queued", "blocked", "done"}
        /\ QueueOf[s] = "blocked" <=> s = "paused"
        /\ QueueOf[s] = "done" <=> s = "completed"
    BY DEF QueueOf
  <2>3. runtime' \in [Missions -> QueueRows]
    BY <1>r, <1>u, <2>1, <2>2
  <2>4. /\ runtime'[m] = Unclaimed(QueueOf[s]) /\ status'[m] = s
        /\ \A n \in Missions \ {m} : runtime'[n] = runtime[n] /\ status'[n] = status[n]
    BY <1>r, <1>t, <2>1 DEF TypeOK
  <2>5. QueueInv'
    BY <1>t, <1>u, <2>2, <2>4 DEF QueueInv, NewInv, QueueFollowsStatus
  <2>6. ClaimInv'
    BY <1>t, <1>w, <2>1, <2>4 DEF ClaimInv
  <2>7. \A r \in Resources : locks'[r] = NoLock \/ locks'[r] = locks[r]
    BY <1>4 DEF SetMissionStatus
  <2>8. locks' \in [Resources -> LockRows]
    BY <1>4, <1>r DEF SetMissionStatus, NoLock, LockRows
  <2>9. lockLeases' \subseteq lockLeases
    BY <1>4 DEF SetMissionStatus
  <2>10. ASSUME NEW l \in lockLeases', l.until > now
         PROVE  locks'[l.resource] = locks[l.resource]
    <3>1. l \in lockLeases /\ l.resource \in Resources
      BY <1>l, <2>9
    <3>2. locks[l.resource].mission = l.mission
      BY <1>t, <2>10, <3>1 DEF LockInv
    <3> QED
      BY <1>4, <3>1, <3>2 DEF SetMissionStatus
  <2>11. LockInv'
    BY <1>t, <2>1, <2>9, <2>10 DEF LockInv
  <2>12. SampleInv'
    BY <1>t, <2>1 DEF SampleInv, InCall
  <2>13. status' \in [Missions -> {"none", "open", "paused", "completed"}]
    BY <1>t, <2>1 DEF TypeOK
  <2>14. TypeOK'
    BY <1>t, <1>w, <1>l, <2>1, <2>3, <2>8, <2>9, <2>13 DEF TypeOK, QueueRows, LockRows
  <2> QED
    BY <2>5, <2>6, <2>11, <2>12, <2>14 DEF IInv
<1>5. ASSUME NEW p \in Procs, Begin(p) PROVE IInv'
  <2>1. /\ at' = [at EXCEPT ![p] = now]
        /\ now' = now /\ status' = status /\ runtime' = runtime /\ locks' = locks
        /\ claimOps' = claimOps /\ raised' = raised /\ claimLeases' = claimLeases
        /\ lockLeases' = lockLeases
    BY <1>5 DEF Begin, tables
  <2>2. SampleInv'
    BY <1>t, <2>1 DEF SampleInv, InCall, TypeOK
  <2> QED
    BY <1>t, <2>1, <2>2 DEF IInv, TypeOK, QueueInv, NewInv, QueueFollowsStatus, ClaimInv, LockInv
<1>6. ASSUME NEW p \in Procs, Refused(p) PROVE IInv'
  <2>1. /\ End(p)
        /\ now' = now /\ status' = status /\ runtime' = runtime /\ locks' = locks
        /\ claimOps' = claimOps /\ raised' = raised /\ claimLeases' = claimLeases
        /\ lockLeases' = lockLeases
    BY <1>6 DEF Refused, tables
  <2>2. at' \in [Procs -> Nat \cup {Idle}] /\ SampleInv'
    BY <1>t, <2>1, Ends
  <2> QED
    BY <1>t, <2>1, <2>2 DEF IInv, TypeOK, QueueInv, NewInv, QueueFollowsStatus, ClaimInv, LockInv
<1>7. ASSUME NEW p \in Procs, Recover(p) PROVE IInv'
  <2>1. /\ InCall(p) /\ End(p)
        /\ now' = now /\ status' = status /\ claimOps' = claimOps /\ raised' = raised
        /\ claimLeases' = claimLeases /\ lockLeases' = lockLeases
    BY <1>7 DEF Recover
  <2>2. at[p] \in Nat /\ at[p] <= now /\ now \in Nat
    BY <1>t, <2>1, Sampled DEF TypeOK
  <2>3. at' \in [Procs -> Nat \cup {Idle}] /\ SampleInv'
    BY <1>t, <2>1, Ends
  <2>4. ASSUME NEW m \in Missions
        PROVE  \/ runtime'[m] = runtime[m]
               \/ /\ runtime'[m] = Unclaimed("queued") /\ runtime[m].queue = "claimed"
                  /\ runtime[m].lease <= at[p]
    BY <1>7 DEF Recover, Requeued, Expired
  <2>5. ASSUME NEW r \in Resources
        PROVE  \/ locks'[r] = locks[r]
               \/ locks'[r] = NoLock /\ locks[r].lease <= at[p]
    BY <1>7 DEF Recover, Expired
  <2>6. runtime' \in [Missions -> QueueRows] /\ locks' \in [Resources -> LockRows]
    BY <1>7, <1>r, <1>u DEF Recover, NoLock, LockRows
  <2>7. QueueInv'
    BY <1>t, <1>u, <2>1, <2>4 DEF QueueInv, NewInv, QueueFollowsStatus
  <2>8. ASSUME NEW l \in claimLeases, l.until > now
        PROVE  runtime'[l.mission] = runtime[l.mission]
    <3>1. l.mission \in Missions /\ l.until \in Nat
      BY <1>w
    <3>2. runtime[l.mission].lease = l.until
      BY <1>t, <2>8 DEF ClaimInv
    <3> QED
      BY <2>2, <2>4, <2>8, <3>1, <3>2
  <2>9. ASSUME NEW l \in lockLeases, l.until > now
        PROVE  locks'[l.resource] = locks[l.resource]
    <3>1. l.resource \in Resources /\ l.until \in Nat
      BY <1>l
    <3>2. locks[l.resource].lease = l.until
      BY <1>t, <2>9 DEF LockInv
    <3> QED
      BY <2>2, <2>5, <2>9, <3>1, <3>2
  <2>10. ClaimInv' /\ LockInv'
    BY <1>t, <2>1, <2>8, <2>9 DEF ClaimInv, LockInv
  <2>11. TypeOK'
    BY <1>t, <2>1, <2>3, <2>6 DEF TypeOK, QueueRows, LockRows
  <2> QED
    BY <2>3, <2>7, <2>10, <2>11 DEF IInv
<1> QED
  BY <1>1, <1>2, <1>3, <1>4, <1>5, <1>6, <1>7, QueueNext, LockingNext DEF Next

\* The row r is taken over from another holder, with a greater token and only
\* after its lease has passed.
Takeover(r) ==
  /\ locks[r] # NoLock /\ locks'[r] # NoLock
  /\ \/ locks'[r].mission # locks[r].mission
     \/ locks'[r].holder # locks[r].holder
RaisesToken(r) == locks'[r].token > locks[r].token /\ locks[r].lease <= now

\* Only acquire_lock puts another holder in a row: the other operations keep
\* the holder or delete the row.
LEMMA TakeoverStep ==
  ASSUME IInv, [Next]_vars, NEW r \in Resources, Takeover(r)
  PROVE  RaisesToken(r)
<1>t. TypeOK /\ SampleInv
  BY DEF IInv
<1>k. locks \in [Resources -> LockRows]
  BY <1>t, TableTypes
<1>1. ASSUME NEW p \in Procs, NEW w \in Workers, NEW m \in Missions, NEW s \in Resources,
             NEW d \in Durations, AcquireLock(p, w, m, s, d)
      PROVE  RaisesToken(r)
  <2>1. at[p] \in Nat /\ at[p] <= now /\ now \in Nat
    BY <1>t, <1>1, Sampled DEF AcquireLock, TypeOK
  <2>2. /\ \A o \in Resources \ {s} : locks'[o] = locks[o]
        /\ locks'[s] = [mission |-> m, holder |-> w, token |-> TokenFor(w, m, s),
                        lease |-> at[p] + d]
    BY <1>1, <1>k DEF AcquireLock
  <2>3. s = r
    BY <2>2 DEF Takeover
  <2>4. Locked(r) /\ ~Owns(w, m, r)
    BY <2>2, <2>3 DEF Takeover, Locked, Owns
  <2>5. locks[r].token \in Nat /\ locks[r].lease \in Nat
    BY <1>k DEF LockRows
  <2>6. TokenFor(w, m, r) = locks[r].token + 1
    BY <2>4 DEF TokenFor
  <2>7. locks[r].lease <= at[p]
    BY <1>1, <2>3, <2>4 DEF AcquireLock, Expired
  <2> QED
    BY <2>1, <2>2, <2>3, <2>5, <2>6, <2>7 DEF RaisesToken
<1>2. ASSUME NEW p \in Procs, NEW w \in Workers, NEW m \in Missions, NEW s \in Resources,
             \/ ReleaseLock(p, w, m, s)
             \/ \E d \in Durations : RenewLock(p, w, m, s, d)
      PROVE  FALSE
  <2>1. CASE ReleaseLock(p, w, m, s)
    BY <1>k, <2>1 DEF ReleaseLock, Takeover
  <2>2. ASSUME NEW d \in Durations, RenewLock(p, w, m, s, d) PROVE FALSE
    <3>1. \A o \in Resources : locks'[o].mission = locks[o].mission
                               /\ locks'[o].holder = locks[o].holder
      BY <1>k, <2>2 DEF RenewLock, LockRows
    <3> QED
      BY <3>1 DEF Takeover
  <2> QED
    BY <1>2, <2>1, <2>2
<1>3. ASSUME NEW p \in Procs, Locking(p) PROVE RaisesToken(r)
  BY <1>1, <1>2, <1>3 DEF Locking
<1>4. ASSUME NEW p \in Procs, Begin(p) \/ Refused(p) \/ Queue(p) PROVE FALSE
  BY <1>4 DEF Begin, Refused, Queue, ClaimNothing, ClaimRetried, ReleaseClaim, ClaimNext,
              Heartbeat, tables, Takeover
<1>5. ASSUME NEW p \in Procs, Recover(p) PROVE FALSE
  BY <1>5 DEF Recover, Takeover
<1>6. ASSUME NEW m \in Missions, NEW s \in {"open", "paused", "completed"},
             SetMissionStatus(m, s)
      PROVE  FALSE
  BY <1>6 DEF SetMissionStatus, Takeover
<1>7. ASSUME Tick \/ (\E m \in Missions : CreateMission(m)) \/ UNCHANGED vars
      PROVE  FALSE
  BY <1>7 DEF Tick, CreateMission, vars, tables, Takeover
<1> QED
  BY <1>3, <1>4, <1>5, <1>6, <1>7 DEF Next

-----------------------------------------------------------------------------
\* Rows, replies and clock samples keep their type.
THEOREM TypeCorrect == Spec => []TypeOK
<1>1. IInv /\ [Next]_vars => IInv'
  BY NextIInv
<1>2. IInv => TypeOK
  BY DEF IInv
<1> QED
  BY InitIInv, <1>1, <1>2, PTL DEF Spec

\* The queue row of a mission and its status never disagree.
THEOREM QueueAndStatus == Spec => []QueueFollowsStatus
<1>1. IInv /\ [Next]_vars => IInv'
  BY NextIInv
<1>2. IInv => QueueFollowsStatus
  BY DEF IInv, QueueInv
<1> QED
  BY InitIInv, <1>1, <1>2, PTL DEF Spec

\* No two workers hold unexpired leases on one mission, for any number of
\* threads, workers, restarts and stale clock samples.
THEOREM OneClaimant == Spec => []ClaimExclusive
<1>1. IInv /\ [Next]_vars => IInv'
  BY NextIInv
<1>2. IInv => ClaimExclusive
  BY DEF IInv, ClaimInv, ClaimExclusive
<1> QED
  BY InitIInv, <1>1, <1>2, PTL DEF Spec

\* No two holders have unexpired leases on one resource.
THEOREM OneHolder == Spec => []LockExclusive
<1>1. IInv /\ [Next]_vars => IInv'
  BY NextIInv
<1>2. IInv => LockExclusive
  BY DEF IInv, LockInv, LockExclusive
<1> QED
  BY InitIInv, <1>1, <1>2, PTL DEF Spec

\* A lock is only taken over after its lease has passed, and the new holder's
\* token is greater, whatever old clock sample the operation carries.
THEOREM FencingTokens == Spec => TakeoverRaisesToken
<1>1. IInv /\ [Next]_vars => IInv'
  BY NextIInv
<1>2. IInv /\ [Next]_vars =>
        [\A r \in Resources :
           /\ locks[r] # NoLock /\ locks'[r] # NoLock
           /\ \/ locks'[r].mission # locks[r].mission
              \/ locks'[r].holder # locks[r].holder
           => locks'[r].token > locks[r].token /\ locks[r].lease <= now]_vars
  BY TakeoverStep DEF Takeover, RaisesToken
<1> QED
  BY InitIInv, <1>1, <1>2, PTL DEF Spec, TakeoverRaisesToken

-----------------------------------------------------------------------------
(* CHECKPOINTS, RECORDS AND THE AUDIT TRAIL                                *)

-----------------------------------------------------------------------------
(* Functions and sequences                                                 *)

\* A sequence and the one that has one more entry.
LEMMA AppendFacts ==
  ASSUME NEW s, s \in Seq(ToSet(s)), NEW e
  PROVE  /\ Len(s) \in Nat /\ DOMAIN s = 1..Len(s)
         /\ DOMAIN Append(s, e) = 1..Len(s) + 1
         /\ Len(Append(s, e)) = Len(s) + 1
         /\ \A i \in 1..Len(s) : Append(s, e)[i] = s[i]
         /\ Append(s, e)[Len(s) + 1] = e
         /\ Append(s, e) \in Seq(ToSet(Append(s, e)))
         /\ \A n \in 0..Len(s) : SubSeq(Append(s, e), 1, n) = SubSeq(s, 1, n)
         /\ SubSeq(s, 1, Len(s)) = s
PROOF
<1> DEFINE S == ToSet(s) \union {e}
           a == Append(s, e)
<1>1. s \in Seq(S) BY SeqMonotonic
<1>2. Len(s) \in Nat /\ DOMAIN s = 1..Len(s) BY <1>1, LenProperties
<1>3. /\ a \in Seq(S) /\ Len(a) = Len(s) + 1
      /\ \A i \in 1..Len(s) : a[i] = s[i]
      /\ a[Len(s) + 1] = e
  BY <1>1, AppendProperties
<1>4. DOMAIN a = 1..Len(s) + 1 BY <1>3, LenProperties
<1>5. a \in Seq(ToSet(a))
  <2>1. Len(a) \in Nat /\ a \in [1..Len(a) -> S] BY <1>3, LenProperties
  <2>2. \A i \in 1..Len(a) : a[i] \in ToSet(a) BY <1>3, <1>4 DEF ToSet
  <2>3. a \in [1..Len(a) -> ToSet(a)] BY <2>1, <2>2
  <2> QED BY <2>1, <2>3, SeqDef
<1>6. SubSeq(s, 1, Len(s)) = s BY <1>1, SubSeqFull
<1>7. ASSUME NEW n \in 0..Len(s) PROVE SubSeq(a, 1, n) = SubSeq(s, 1, n)
  <2>1. n \in Int /\ n <= Len(s) BY <1>2
  <2>2. \A i \in 1..n : s[i] \in S /\ a[i] \in S /\ a[i] = s[i]
    BY <1>1, <1>2, <1>3, <2>1, ElementOfSeq
  <2>3. /\ SubSeq(s, 1, n) \in Seq(S)
        /\ Len(SubSeq(s, 1, n)) = n
        /\ \A i \in 1..n : SubSeq(s, 1, n)[i] = s[i]
    BY <2>1, <2>2, SubSeqProperties
  <2>4. /\ SubSeq(a, 1, n) \in Seq(S)
        /\ Len(SubSeq(a, 1, n)) = n
        /\ \A i \in 1..n : SubSeq(a, 1, n)[i] = a[i]
    BY <2>1, <2>2, SubSeqProperties
  <2> QED BY <2>2, <2>3, <2>4, SeqEqual
<1> QED BY <1>2, <1>3, <1>4, <1>5, <1>6, <1>7

-----------------------------------------------------------------------------
(* The inductive invariant                                                 *)

Contexts == [step : Texts \union {""},
             iterations : Nat, max_iterations : Nat,
             api_calls : Nat, max_api_calls : Nat]
Incidents == [status : DOMAIN IncidentTransitions, cause : Texts \union {""}]

\* The tables are finite and keep their shape.
TablesInv ==
  /\ DOMAIN rows \subseteq Tables \X CallIds
  /\ \A t \in Tables : IsFiniteSet({r \in CallIds : Known(t, r)})
  /\ ctx \in [MissionIds -> Contexts]
  /\ incident \in [CallIds -> {Null} \union Incidents]

\* A column that was given in an accepted call is set, and the columns that are
\* set are those of the table.
EvidenceInv ==
  /\ evidence = [a \in Actions |-> evidence[a]]
  /\ \A a \in Actions : DOMAIN evidence[a] \subseteq {"before_digest", "healthcheck"}
  /\ \A r \in CallIds : Known("artifacts", r) =>
       /\ RowOf("artifacts", r).on \in Actions
       /\ DOMAIN RowOf("artifacts", r).what \subseteq DOMAIN evidence[RowOf("artifacts", r).on]

\* The trail verifies and consists of events.
TrailInv ==
  /\ trail \in Seq(ToSet(trail))
  /\ \A i \in DOMAIN trail : trail[i] = Event(trail[i].seq, trail[i].what, trail[i].prev)
  /\ Verify(trail, head)

\* A copy is a state the trail went through.
IsCopy(b) == Len(b.log) \in Nat /\ IsPrefix(b.log, trail)

BackupInv ==
  /\ published \in 0..MaxBackups
  /\ backup # Null => IsCopy(backup)
  /\ backup # Null /\ backup \notin backups => published < MaxBackups
  /\ \A b \in backups : IsCopy(b) /\ Verify(b.log, b.head)

\* The entries of the trail that set the step of a mission, and the step each
\* one sets; the latest of them, if there is one, set the current step.
SetsStep(m, i) ==
  LET t == trail[i].what[1]
      c == RowOf(t, trail[i].what[2])
  IN  /\ t \in {"update", "checkpoint"} /\ c.on = m
      /\ t = "update" => "step" \in DOMAIN c.what

StepsOf(m) == {i \in DOMAIN trail : SetsStep(m, i)}

StepAt(i) ==
  LET c == RowOf(trail[i].what[1], trail[i].what[2]).what
  IN  IF trail[i].what[1] = "update" THEN c.step ELSE c.phase

ResumeInv ==
  \A m \in MissionIds :
    \/ StepsOf(m) = {} /\ ctx[m].step = ""
    \/ \E i \in StepsOf(m) : /\ \A j \in StepsOf(m) : j <= i
                             /\ ctx[m].step = StepAt(i)

ContextInv ==
  /\ TablesInv /\ EvidenceInv /\ TrailInv /\ BackupInv
  /\ AnswersAreRecorded /\ CountsTellTraces /\ ResumeInv
  /\ CheckpointsAreDense /\ EvidenceStands /\ AuditedOnce

-----------------------------------------------------------------------------
(* What First does to the tables and to the trail                          *)

LEMMA FirstRows ==
  ASSUME NEW t, NEW r, NEW c, First(t, r, c)
  PROVE  /\ <<t, r>> \notin DOMAIN rows
         /\ DOMAIN rows' = DOMAIN rows \union {<<t, r>>}
         /\ rows'[<<t, r>>] = c
         /\ \A k \in DOMAIN rows : rows'[k] = rows[k]
PROOF
<1>1. <<t, r>> \notin DOMAIN rows BY DEF First, Known
<1>2. rows' = Inserted(rows, <<t, r>>, c) BY DEF First
<1> DEFINE k == <<t, r>>
<1>3. k \notin DOMAIN rows /\ rows' = Inserted(rows, k, c) BY <1>1, <1>2
<1> HIDE DEF k
<1>4. /\ DOMAIN rows' = DOMAIN rows \union {k} /\ rows'[k] = c
      /\ \A x \in DOMAIN rows : rows'[x] = rows[x]
  BY <1>3 DEF Inserted
<1> QED BY <1>1, <1>4 DEF k

LEMMA FirstKeys ==
  ASSUME NEW t, NEW r, NEW c, First(t, r, c), NEW u, NEW q
  PROVE  /\ <<u, q>> \in DOMAIN rows' <=> (u = t /\ q = r) \/ <<u, q>> \in DOMAIN rows
         /\ <<u, q>> \in DOMAIN rows => rows'[<<u, q>>] = rows[<<u, q>>]
PROOF
<1>1. /\ DOMAIN rows' = DOMAIN rows \union {<<t, r>>}
      /\ \A k \in DOMAIN rows : rows'[k] = rows[k]
  BY FirstRows
<1> QED BY <1>1

LEMMA FirstTrail ==
  ASSUME NEW t, NEW r, NEW c, First(t, r, c), TrailInv
  PROVE  /\ Len(trail) \in Nat /\ DOMAIN trail = 1..Len(trail)
         /\ DOMAIN trail' = 1..Len(trail) + 1
         /\ \A i \in 1..Len(trail) : trail'[i] = trail[i]
         /\ trail'[Len(trail) + 1].what = <<t, r>>
         /\ \A n \in 0..Len(trail) : SubSeq(trail', 1, n) = SubSeq(trail, 1, n)
         /\ Len(trail') = Len(trail) + 1
PROOF
<1> DEFINE e == Event(head.seq + 1, <<t, r>>, head.hash)
<1>1. trail' = Append(trail, e) BY DEF First, AppendEvent
<1>2. e.what = <<t, r>> BY DEF Event
<1>3. trail \in Seq(ToSet(trail)) BY DEF TrailInv
<1> HIDE DEF e
<1> QED BY <1>1, <1>2, <1>3, AppendFacts

\* Appending to a trail that verifies yields one that verifies.
LEMMA AppendVerifies ==
  ASSUME NEW t, NEW r, NEW c, First(t, r, c), TrailInv
  PROVE  TrailInv'
PROOF
<1> DEFINE e == Event(head.seq + 1, <<t, r>>, head.hash)
           n == Len(trail)
<1>1. trail' = Append(trail, e) BY DEF First, AppendEvent
<1>2. head' = [seq |-> e.seq, hash |-> e.hash] BY DEF First, AppendEvent
<1>3. trail \in Seq(ToSet(trail)) BY DEF TrailInv
<1>4. /\ n \in Nat /\ DOMAIN trail = 1..n /\ DOMAIN trail' = 1..n + 1
      /\ Len(trail') = n + 1
      /\ \A i \in 1..n : trail'[i] = trail[i]
      /\ trail'[n + 1] = e
      /\ trail' \in Seq(ToSet(trail'))
      /\ \A k \in 0..n : SubSeq(trail', 1, k) = SubSeq(trail, 1, k)
      /\ SubSeq(trail, 1, n) = trail
  <2> HIDE DEF e
  <2> QED BY <1>1, <1>3, AppendFacts
<1>5. head.seq = n /\ head.hash = LastHash(trail) BY DEF TrailInv, Verify
<1>E. e = Event(e.seq, e.what, e.prev) BY DEF Event
<1>6. /\ e.seq = n + 1 /\ e.prev = LastHash(trail)
      /\ e.hash = Hash(e.seq, e.what, e.prev)
  BY <1>5 DEF Event
<1> HIDE DEF e
<1>7. \A i \in DOMAIN trail' : trail'[i].seq = i
  BY <1>4, <1>6 DEF TrailInv, Verify
<1>8. ASSUME NEW i \in DOMAIN trail'
      PROVE  /\ trail'[i].prev = LastHash(SubSeq(trail', 1, i - 1))
             /\ trail'[i].hash = Hash(trail'[i].seq, trail'[i].what, trail'[i].prev)
  <2>1. CASE i = n + 1
    <3>1. i - 1 = n /\ n \in 0..n BY <1>4, <2>1
    <3>2. SubSeq(trail', 1, i - 1) = trail BY <1>4, <3>1
    <3> QED BY <1>4, <1>6, <2>1, <3>2
  <2>2. CASE i \in 1..n
    <3>1. i - 1 \in 0..n BY <1>4, <2>2
    <3>2. SubSeq(trail', 1, i - 1) = SubSeq(trail, 1, i - 1) BY <1>4, <3>1
    <3>3. /\ trail[i].prev = LastHash(SubSeq(trail, 1, i - 1))
          /\ trail[i].hash = Hash(trail[i].seq, trail[i].what, trail[i].prev)
      BY <1>4, <2>2 DEF TrailInv, Verify, Linked
    <3> QED BY <1>4, <2>2, <3>2, <3>3
  <2> QED BY <1>4, <2>1, <2>2
<1>9. LastHash(trail') = e.hash
  <2>1. trail' # <<>> BY <1>4
  <2> QED BY <1>4, <2>1 DEF LastHash, Last
<1>10. Linked(trail') BY <1>8 DEF Linked
<1>11. Verify(trail', head') BY <1>2, <1>4, <1>6, <1>7, <1>9, <1>10 DEF Verify
<1>12. \A i \in DOMAIN trail' :
         trail'[i] = Event(trail'[i].seq, trail'[i].what, trail'[i].prev)
  <2>1. \A i \in 1..n : trail[i] = Event(trail[i].seq, trail[i].what, trail[i].prev)
    BY <1>4 DEF TrailInv
  <2> QED BY <1>4, <1>E, <2>1
<1> QED BY <1>4, <1>11, <1>12 DEF TrailInv

-----------------------------------------------------------------------------
(* What every part needs of the step that stores a call                    *)

\* The answer of the call that is stored tells its row, and no row changes.
LEMMA FirstAnswers ==
  ASSUME NEW t, NEW r, NEW c, First(t, r, c), AnswersAreRecorded
  PROVE  AnswersAreRecorded'
PROOF
<1>1. told' \subseteq told \union {<<t, r, c>>} BY DEF First, Answer
<1>2. ASSUME NEW a \in told'
      PROVE  <<a[1], a[2]>> \in DOMAIN rows' /\ rows'[<<a[1], a[2]>>] = a[3]
  <2>1. CASE a = <<t, r, c>>
    <3>1. a[1] = t /\ a[2] = r /\ a[3] = c BY <2>1
    <3>2. <<t, r>> \in DOMAIN rows' /\ rows'[<<t, r>>] = c BY FirstRows
    <3> QED BY <3>1, <3>2
  <2>2. CASE a \in told
    BY <2>2, FirstRows DEF AnswersAreRecorded, Known, RowOf
  <2> QED BY <1>1, <2>1, <2>2
<1> QED BY <1>2 DEF AnswersAreRecorded, Known, RowOf

\* The answer of a retry tells the row that was found.
LEMMA AgainAnswers ==
  ASSUME NEW t, NEW r, NEW c, Again(t, r, c), AnswersAreRecorded
  PROVE  AnswersAreRecorded'
PROOF
<1>1. rows' = rows BY DEF Again
<1>2. \A a \in told' \ told : a = <<t, r, c>> /\ t # "trace" BY DEF Again, Answer
<1>3. t # "trace" => <<t, r>> \in DOMAIN rows /\ rows[<<t, r>>] = c
  BY DEF Again, Known, RowOf, SameCall
<1>4. ASSUME NEW a \in told'
      PROVE  <<a[1], a[2]>> \in DOMAIN rows /\ rows[<<a[1], a[2]>>] = a[3]
  <2>1. CASE a \in told BY <2>1 DEF AnswersAreRecorded, Known, RowOf
  <2>2. CASE a \notin told
    <3>1. a = <<t, r, c>> /\ t # "trace" BY <1>2, <2>2
    <3> QED BY <1>3, <3>1
  <2> QED BY <2>1, <2>2
<1> QED BY <1>1, <1>4 DEF AnswersAreRecorded, Known, RowOf

\* The tables stay finite.
LEMMA FirstTables ==
  ASSUME NEW t \in Tables, NEW r \in CallIds, NEW c, First(t, r, c), TablesInv
  PROVE  /\ DOMAIN rows' \subseteq Tables \X CallIds
         /\ \A u \in Tables : IsFiniteSet({q \in CallIds : <<u, q>> \in DOMAIN rows'})
PROOF
<1>1. DOMAIN rows' = DOMAIN rows \union {<<t, r>>} BY FirstRows
<1>2. ASSUME NEW u \in Tables
      PROVE  IsFiniteSet({q \in CallIds : <<u, q>> \in DOMAIN rows'})
  <2> DEFINE Q == {q \in CallIds : <<u, q>> \in DOMAIN rows}
             P == {q \in CallIds : <<u, q>> \in DOMAIN rows'}
  <2>1. IsFiniteSet(Q) BY DEF TablesInv, Known
  <2>2. P \subseteq Q \union {r} BY <1>1
  <2>3. IsFiniteSet(Q \union {r}) BY <2>1, FS_AddElement
  <2>4. P \in SUBSET (Q \union {r}) BY <2>2
  <2> HIDE DEF P, Q
  <2>5. IsFiniteSet(P) BY <2>3, <2>4, FS_Subset
  <2> QED BY <2>5 DEF P
<1> QED BY <1>1, <1>2 DEF TablesInv

\* The event is the only one of the call, whose request id was new.
LEMMA FirstAudited ==
  ASSUME NEW t \in Tables, NEW r \in CallIds, NEW c, First(t, r, c),
         TablesInv, TrailInv, AuditedOnce
  PROVE  AuditedOnce'
PROOF
<1> DEFINE n == Len(trail)
<1>1. /\ n \in Nat /\ DOMAIN trail = 1..n /\ DOMAIN trail' = 1..n + 1
      /\ \A i \in 1..n : trail'[i] = trail[i]
      /\ trail'[n + 1].what = <<t, r>>
  BY FirstTrail
<1>2. <<t, r>> \notin DOMAIN rows /\ DOMAIN rows' = DOMAIN rows \union {<<t, r>>}
  BY FirstRows
<1>3. \A i \in 1..n : <<trail[i].what[1], trail[i].what[2]>> \in DOMAIN rows
  BY <1>1 DEF AuditedOnce, Known
<1>4. \A i \in DOMAIN trail' : <<trail'[i].what[1], trail'[i].what[2]>> \in DOMAIN rows'
  BY <1>1, <1>2, <1>3
<1>5. ASSUME NEW u \in Tables, NEW q \in CallIds, <<u, q>> \in DOMAIN rows'
      PROVE  Cardinality({i \in DOMAIN trail' : trail'[i].what = <<u, q>>}) = 1
  <2> DEFINE A == {i \in DOMAIN trail : trail[i].what = <<u, q>>}
             B == {i \in DOMAIN trail' : trail'[i].what = <<u, q>>}
  <2>1. CASE <<u, q>> = <<t, r>>
    <3>1. \A i \in 1..n : trail[i].what # <<t, r>> BY <1>2, <1>3
    <3>2. B = {n + 1} BY <1>1, <2>1, <3>1
    <3> QED BY <3>2, FS_Singleton
  <2>2. CASE <<u, q>> # <<t, r>>
    <3>1. B = A BY <1>1, <2>2
    <3>2. <<u, q>> \in DOMAIN rows BY <1>2, <1>5, <2>2
    <3>3. Cardinality(A) = 1 BY <3>2 DEF AuditedOnce, Known
    <3> QED BY <3>1, <3>3
  <2> QED BY <2>1, <2>2
<1> QED BY <1>4, <1>5 DEF AuditedOnce, Known

\* A prefix of the trail is a prefix of a longer one.
LEMMA FirstCopies ==
  ASSUME NEW t, NEW r, NEW c, First(t, r, c), TrailInv, BackupInv
  PROVE  BackupInv'
PROOF
<1>1. UNCHANGED <<backup, backups, published>> BY DEF First, backupVars
<1>2. ASSUME NEW b, IsCopy(b)
      PROVE  Len(b.log) \in Nat /\ IsPrefix(b.log, trail')
  <2>1. Len(b.log) \in 0..Len(trail) BY <1>2, FirstTrail DEF IsCopy, IsPrefix
  <2>2. SubSeq(trail', 1, Len(b.log)) = SubSeq(trail, 1, Len(b.log)) BY <2>1, FirstTrail
  <2>3. Len(b.log) <= Len(trail') BY <2>1, FirstTrail
  <2> QED BY <1>2, <2>2, <2>3 DEF IsCopy, IsPrefix
<1> QED BY <1>1, <1>2 DEF BackupInv, IsCopy

-----------------------------------------------------------------------------
(* Budgets                                                                 *)

TracesOf(m) == {r \in CallIds : Known("trace", r) /\ RowOf("trace", r).on = m}
RemoteOf(m) == {r \in TracesOf(m) : RowOf("trace", r).what.remote}

LEMMA TracesFinite ==
  ASSUME TablesInv, NEW m
  PROVE  IsFiniteSet(TracesOf(m)) /\ IsFiniteSet(RemoteOf(m))
PROOF
<1> DEFINE K == {r \in CallIds : Known("trace", r)}
<1>1. IsFiniteSet(K) BY DEF TablesInv, Tables
<1>2. TracesOf(m) \in SUBSET K /\ RemoteOf(m) \in SUBSET K BY DEF TracesOf, RemoteOf
<1> HIDE DEF K
<1> QED BY <1>1, <1>2, FS_Subset

\* A call of another table leaves the traces alone.
LEMMA FirstCountsOther ==
  ASSUME NEW t, NEW r, NEW c, First(t, r, c), t # "trace", CountsTellTraces,
         \A m \in MissionIds : /\ ctx'[m].iterations = ctx[m].iterations
                               /\ ctx'[m].api_calls = ctx[m].api_calls
  PROVE  CountsTellTraces'
PROOF
<1>1. \A q : /\ <<"trace", q>> \in DOMAIN rows' <=> <<"trace", q>> \in DOMAIN rows
             /\ <<"trace", q>> \in DOMAIN rows =>
                  rows'[<<"trace", q>>] = rows[<<"trace", q>>]
  BY FirstKeys
<1>2. ASSUME NEW m \in MissionIds
      PROVE  TracesOf(m)' = TracesOf(m) /\ RemoteOf(m)' = RemoteOf(m)
  BY <1>1 DEF TracesOf, RemoteOf, Known, RowOf
<1>3. \A m \in MissionIds : /\ ctx[m].iterations = Cardinality(TracesOf(m))
                            /\ ctx[m].api_calls = Cardinality(RemoteOf(m))
  BY DEF CountsTellTraces, TracesOf, RemoteOf
<1>4. \A m \in MissionIds : /\ ctx'[m].iterations = Cardinality(TracesOf(m)')
                            /\ ctx'[m].api_calls = Cardinality(RemoteOf(m)')
  BY <1>2, <1>3
<1> QED BY <1>4 DEF CountsTellTraces, TracesOf, RemoteOf

\* A trace that is stored is counted once, in its mission.
LEMMA FirstCountsTrace ==
  ASSUME NEW r \in CallIds, NEW c \in Calls(MissionIds, [remote : BOOLEAN, parent : CallIds \union {Null}]),
         First("trace", r, c), ctx' = Counted(c), TablesInv, CountsTellTraces
  PROVE  CountsTellTraces'
PROOF
<1>0. <<"trace", r>> \notin DOMAIN rows /\ rows'[<<"trace", r>>] = c BY FirstRows
<1>1. /\ <<"trace", r>> \notin DOMAIN rows
      /\ rows'[<<"trace", r>>] = c
      /\ \A q : <<"trace", q>> \in DOMAIN rows' <=> q = r \/ <<"trace", q>> \in DOMAIN rows
      /\ \A q : <<"trace", q>> \in DOMAIN rows =>
                  rows'[<<"trace", q>>] = rows[<<"trace", q>>]
  BY <1>0, FirstKeys
<1>2. c.on \in MissionIds /\ c.what.remote \in BOOLEAN BY DEF Calls
<1>3. \A m \in MissionIds : /\ ctx[m].iterations = Cardinality(TracesOf(m))
                            /\ ctx[m].api_calls = Cardinality(RemoteOf(m))
  BY DEF CountsTellTraces, TracesOf, RemoteOf
<1>4. ASSUME NEW m \in MissionIds
      PROVE  /\ ctx'[m].iterations = Cardinality(TracesOf(m)')
             /\ ctx'[m].api_calls = Cardinality(RemoteOf(m)')
  <2>1. r \notin TracesOf(m) /\ r \notin RemoteOf(m)
    BY <1>1 DEF TracesOf, RemoteOf, Known
  <2>2. IsFiniteSet(TracesOf(m)) /\ IsFiniteSet(RemoteOf(m)) BY TracesFinite
  <2>3. CASE m # c.on
    <3>1. ctx'[m] = ctx[m] BY <1>2, <2>3 DEF Counted, TablesInv
    <3>2. TracesOf(m)' = TracesOf(m) BY <1>1, <2>3 DEF TracesOf, Known, RowOf
    <3>3. RemoteOf(m)' = RemoteOf(m)
      BY <1>1, <2>3 DEF RemoteOf, TracesOf, Known, RowOf
    <3> QED BY <1>3, <3>1, <3>2, <3>3
  <2>4. CASE m = c.on
    <3>1. ctx[m] \in Contexts BY DEF TablesInv
    <3>2. /\ ctx'[m].iterations = ctx[m].iterations + 1
          /\ ctx'[m].api_calls = ctx[m].api_calls + (IF c.what.remote THEN 1 ELSE 0)
      BY <2>4, <3>1 DEF Counted, TablesInv, Contexts
    <3>3. TracesOf(m)' = TracesOf(m) \union {r}
      BY <1>1, <2>4 DEF TracesOf, Known, RowOf
    <3>4. Cardinality(TracesOf(m)') = Cardinality(TracesOf(m)) + 1
      BY <2>1, <2>2, <3>3, FS_AddElement
    <3>5. CASE c.what.remote
      <4>1. RemoteOf(m)' = RemoteOf(m) \union {r}
        BY <1>1, <2>4, <3>5 DEF RemoteOf, TracesOf, Known, RowOf
      <4>2. Cardinality(RemoteOf(m)') = Cardinality(RemoteOf(m)) + 1
        BY <2>1, <2>2, <4>1, FS_AddElement
      <4> QED BY <1>3, <3>2, <3>4, <3>5, <4>2
    <3>6. CASE ~c.what.remote
      <4>1. RemoteOf(m)' = RemoteOf(m)
        BY <1>1, <2>4, <3>6 DEF RemoteOf, TracesOf, Known, RowOf
      <4>2. ctx[m].api_calls \in Nat BY <3>1 DEF Contexts
      <4> QED BY <1>3, <3>2, <3>4, <3>6, <4>1, <4>2
    <3> QED BY <3>5, <3>6
  <2> QED BY <2>3, <2>4
<1> QED BY <1>4 DEF CountsTellTraces, TracesOf, RemoteOf

-----------------------------------------------------------------------------
(* The resume point                                                        *)

LEMMA ResumeIsLatest ==
  ASSUME ResumeInv, TrailInv
  PROVE  ResumePointIsLatest
PROOF
<1>1. DOMAIN trail \subseteq Int
  BY AppendFacts DEF TrailInv
<1>2. ASSUME NEW m \in MissionIds
      PROVE  LET last == CHOOSE i \in StepsOf(m) : \A j \in StepsOf(m) : j <= i
             IN  ctx[m].step = IF StepsOf(m) = {} THEN "" ELSE StepAt(last)
  <2> DEFINE last == CHOOSE i \in StepsOf(m) : \A j \in StepsOf(m) : j <= i
  <2>1. CASE StepsOf(m) = {} BY <2>1 DEF ResumeInv
  <2>2. CASE StepsOf(m) # {}
    <3>1. PICK i \in StepsOf(m) : /\ \A j \in StepsOf(m) : j <= i
                                  /\ ctx[m].step = StepAt(i)
      BY <2>2 DEF ResumeInv
    <3>2. last \in StepsOf(m) /\ \A j \in StepsOf(m) : j <= last BY <3>1
    <3>3. i \in Int /\ last \in Int BY <1>1, <3>2 DEF StepsOf
    <3>4. i <= last /\ last <= i BY <3>1, <3>2
    <3> HIDE DEF last
    <3>5. last = i BY <3>3, <3>4
    <3> QED BY <2>2, <3>1, <3>5 DEF last
  <2> QED BY <2>1, <2>2
<1> QED BY <1>2 DEF ResumePointIsLatest, StepsOf, SetsStep, StepAt

\* The event is the latest one; older events keep their rows.
LEMMA FirstResume ==
  ASSUME NEW t, NEW r, NEW c, First(t, r, c), TrailInv, AuditedOnce, ResumeInv,
         \A m \in MissionIds :
           ctx'[m].step =
             IF t = "update" /\ c.on = m /\ "step" \in DOMAIN c.what THEN c.what.step
             ELSE IF t = "checkpoint" /\ c.on = m THEN c.what.phase
             ELSE ctx[m].step
  PROVE  ResumeInv'
PROOF
<1>0. PICK n \in Nat : n = Len(trail) BY FirstTrail
<1>1. /\ n \in Nat /\ DOMAIN trail = 1..n /\ DOMAIN trail' = 1..n + 1
      /\ \A i \in 1..n : trail'[i] = trail[i]
      /\ trail'[n + 1].what = <<t, r>>
  BY <1>0, FirstTrail
<1>2. rows'[<<t, r>>] = c /\ \A k \in DOMAIN rows : rows'[k] = rows[k] BY FirstRows
<1>3. \A i \in 1..n : <<trail[i].what[1], trail[i].what[2]>> \in DOMAIN rows
  BY <1>1 DEF AuditedOnce, Known
<1>4. ASSUME NEW i \in 1..n
      PROVE  /\ rows'[<<trail'[i].what[1], trail'[i].what[2]>>]
                  = rows[<<trail[i].what[1], trail[i].what[2]>>]
             /\ trail'[i].what[1] = trail[i].what[1]
  BY <1>1, <1>2, <1>3
<1>5. /\ rows'[<<trail'[n + 1].what[1], trail'[n + 1].what[2]>>] = c
      /\ trail'[n + 1].what[1] = t
  BY <1>1, <1>2
<1>6. ASSUME NEW m \in MissionIds
      PROVE  \/ StepsOf(m)' = {} /\ ctx'[m].step = ""
             \/ \E i \in StepsOf(m)' : /\ \A j \in StepsOf(m)' : j <= i
                                       /\ ctx'[m].step = StepAt(i)'
  <2>1. StepsOf(m) \subseteq 1..n BY <1>1 DEF StepsOf
  <2>2. StepsOf(m)' \subseteq 1..n + 1 BY <1>1 DEF StepsOf
  <2>3. \A i \in 1..n : /\ i \in StepsOf(m)' <=> i \in StepsOf(m)
                        /\ StepAt(i)' = StepAt(i)
    BY <1>1, <1>4 DEF StepsOf, SetsStep, StepAt, RowOf
  <2>4. CASE t = "update" /\ c.on = m /\ "step" \in DOMAIN c.what
    <3>1. n + 1 \in StepsOf(m)' /\ StepAt(n + 1)' = c.what.step
      BY <1>1, <1>5, <2>4 DEF StepsOf, SetsStep, StepAt, RowOf
    <3>2. \A j \in StepsOf(m)' : j <= n + 1 BY <1>1, <2>2
    <3> QED BY <2>4, <3>1, <3>2
  <2>5. CASE t = "checkpoint" /\ c.on = m
    <3>1. n + 1 \in StepsOf(m)' /\ StepAt(n + 1)' = c.what.phase
      BY <1>1, <1>5, <2>5 DEF StepsOf, SetsStep, StepAt, RowOf
    <3>2. \A j \in StepsOf(m)' : j <= n + 1 BY <1>1, <2>2
    <3> QED BY <2>5, <3>1, <3>2
  <2>6. CASE /\ ~(t = "update" /\ c.on = m /\ "step" \in DOMAIN c.what)
             /\ ~(t = "checkpoint" /\ c.on = m)
    <3>1. n + 1 \notin StepsOf(m)'
      <4>1. n + 1 \in StepsOf(m)' =>
              /\ t \in {"update", "checkpoint"} /\ c.on = m
              /\ t = "update" => "step" \in DOMAIN c.what
        BY <1>5 DEF StepsOf, SetsStep, RowOf
      <4> QED BY <2>6, <4>1
    <3>2. StepsOf(m)' = StepsOf(m)
      <4>1. \A i \in 1..n + 1 : i = n + 1 \/ i \in 1..n OBVIOUS
      <4>2. \A i \in StepsOf(m)' : i \in 1..n BY <2>2, <3>1, <4>1
      <4>3. \A i \in 1..n : i \in StepsOf(m)' <=> i \in StepsOf(m) BY <2>3
      <4> QED BY <2>1, <4>2, <4>3
    <3>3. ctx'[m].step = ctx[m].step BY <2>6
    <3>4. CASE StepsOf(m) = {} BY <3>2, <3>3, <3>4 DEF ResumeInv
    <3>5. CASE StepsOf(m) # {}
      <4>1. PICK i \in StepsOf(m) : /\ \A j \in StepsOf(m) : j <= i
                                    /\ ctx[m].step = StepAt(i)
        BY <3>5 DEF ResumeInv
      <4>2. StepAt(i)' = StepAt(i) BY <2>1, <2>3, <4>1
      <4> QED BY <3>2, <3>3, <4>1, <4>2
    <3> QED BY <3>4, <3>5
  <2> QED BY <2>4, <2>5, <2>6
<1> QED BY <1>6 DEF ResumeInv

-----------------------------------------------------------------------------
(* Checkpoints                                                             *)

SequenceOf(r) == RowOf("checkpoint", r).sequence

LEMMA CheckpointsFinite ==
  ASSUME TablesInv, NEW m
  PROVE  IsFiniteSet(CheckpointsOf(m)) /\ Cardinality(CheckpointsOf(m)) \in Nat
PROOF
<1> DEFINE K == {r \in CallIds : Known("checkpoint", r)}
<1>1. IsFiniteSet(K) BY DEF TablesInv, Tables
<1>2. CheckpointsOf(m) \in SUBSET K BY DEF CheckpointsOf
<1> HIDE DEF K
<1>3. IsFiniteSet(CheckpointsOf(m)) BY <1>1, <1>2, FS_Subset
<1> QED BY <1>3, FS_CardinalityType

\* The number of the next checkpoint is one more than there are.
LEMMA NextIsFresh ==
  ASSUME TablesInv, CheckpointsAreDense, NEW m \in MissionIds
  PROVE  NextSequence(m) = Cardinality(CheckpointsOf(m)) + 1
PROOF
<1> DEFINE used == {RowOf("checkpoint", r).sequence : r \in CheckpointsOf(m)}
           max  == CHOOSE s \in used : \A u \in used : u <= s
<1>0. PICK n \in Nat : n = Cardinality(CheckpointsOf(m)) BY CheckpointsFinite
<1>1. used = 1..n BY <1>0 DEF CheckpointsAreDense
<1>2. NextSequence(m) = IF used = {} THEN 1 ELSE max + 1 BY DEF NextSequence
<1> HIDE DEF used
<1>3. CASE n = 0 
  <2>1. used = {} BY <1>1, <1>3
  <2> QED BY <1>0, <1>2, <1>3, <2>1
<1>4. CASE n # 0
  <2>1. n \in used /\ \A u \in used : u <= n BY <1>1, <1>4
  <2>2. max \in used /\ \A u \in used : u <= max BY <2>1
  <2> HIDE DEF max
  <2>3. max = n BY <1>1, <2>1, <2>2
  <2> QED BY <1>0, <1>2, <2>1, <2>3
<1> QED BY <1>3, <1>4

\* A call of another table leaves the checkpoints alone.
LEMMA FirstDenseOther ==
  ASSUME NEW t, NEW r, NEW c, First(t, r, c), t # "checkpoint",
         TrailInv, CheckpointsAreDense
  PROVE  CheckpointsAreDense'
PROOF
<1>0. PICK n \in Nat : n = Len(trail) BY FirstTrail
<1>1. /\ DOMAIN trail = 1..n /\ DOMAIN trail' = 1..n + 1
      /\ \A i \in 1..n : trail'[i] = trail[i]
      /\ trail'[n + 1].what = <<t, r>>
  BY <1>0, FirstTrail
<1>2. \A q : /\ <<"checkpoint", q>> \in DOMAIN rows' <=> <<"checkpoint", q>> \in DOMAIN rows
             /\ <<"checkpoint", q>> \in DOMAIN rows =>
                  rows'[<<"checkpoint", q>>] = rows[<<"checkpoint", q>>]
  BY FirstKeys
<1>3. ASSUME NEW m \in MissionIds
      PROVE  /\ CheckpointsOf(m)' = CheckpointsOf(m)
             /\ \A q \in CheckpointsOf(m) : SequenceOf(q)' = SequenceOf(q)
  BY <1>2 DEF CheckpointsOf, SequenceOf, Known, RowOf
<1>4. ASSUME NEW m \in MissionIds
      PROVE  {SequenceOf(q)' : q \in CheckpointsOf(m)'} = 1..Cardinality(CheckpointsOf(m)')
  <2>1. {SequenceOf(q) : q \in CheckpointsOf(m)} = 1..Cardinality(CheckpointsOf(m))
    BY DEF CheckpointsAreDense, SequenceOf
  <2>2. {SequenceOf(q)' : q \in CheckpointsOf(m)'} = {SequenceOf(q) : q \in CheckpointsOf(m)}
    BY <1>3
  <2> QED BY <1>3, <2>1, <2>2
<1>5. ASSUME NEW m \in MissionIds, NEW i \in DOMAIN trail', NEW j \in DOMAIN trail',
             NEW q \in CheckpointsOf(m)', NEW s \in CheckpointsOf(m)',
             i < j, trail'[i].what = <<"checkpoint", q>>, trail'[j].what = <<"checkpoint", s>>
      PROVE  SequenceOf(q)' < SequenceOf(s)'
  <2>1. i \in 1..n /\ j \in 1..n
    <3>1. j # n + 1 BY <1>1, <1>5
    <3> QED BY <1>1, <1>5, <3>1
  <2>2. trail[i].what = <<"checkpoint", q>> /\ trail[j].what = <<"checkpoint", s>>
    BY <1>1, <1>5, <2>1
  <2>3. q \in CheckpointsOf(m) /\ s \in CheckpointsOf(m) BY <1>3
  <2>4. SequenceOf(q) < SequenceOf(s)
    BY <1>1, <1>5, <2>1, <2>2, <2>3 DEF CheckpointsAreDense, SequenceOf
  <2> QED BY <1>3, <2>3, <2>4
<1> QED BY <1>4, <1>5 DEF CheckpointsAreDense, SequenceOf

\* A checkpoint is numbered after all the others of its mission, and its event is
\* the last one.
LEMMA FirstDenseCheckpoint ==
  ASSUME NEW r \in CallIds, NEW c \in Calls(MissionIds, Checkpoints),
         First("checkpoint", r, Numbered(c, NextSequence(c.on))),
         TablesInv, TrailInv, AuditedOnce, CheckpointsAreDense
  PROVE  CheckpointsAreDense'
PROOF
<1>0. PICK n \in Nat : n = Len(trail) BY FirstTrail
<1>1. /\ DOMAIN trail = 1..n /\ DOMAIN trail' = 1..n + 1
      /\ \A i \in 1..n : trail'[i] = trail[i]
      /\ trail'[n + 1].what = <<"checkpoint", r>>
  BY <1>0, FirstTrail
<1>2. \A q : /\ <<"checkpoint", q>> \in DOMAIN rows' <=> q = r \/ <<"checkpoint", q>> \in DOMAIN rows
             /\ <<"checkpoint", q>> \in DOMAIN rows =>
                  rows'[<<"checkpoint", q>>] = rows[<<"checkpoint", q>>]
  BY FirstKeys
<1>3. /\ <<"checkpoint", r>> \notin DOMAIN rows
      /\ rows'[<<"checkpoint", r>>] = Numbered(c, NextSequence(c.on))
  BY FirstRows
<1>4. c.on \in MissionIds BY DEF Calls
<1>5. PICK k \in Nat : k = Cardinality(CheckpointsOf(c.on)) BY CheckpointsFinite
<1>6. /\ rows'[<<"checkpoint", r>>].on = c.on
      /\ rows'[<<"checkpoint", r>>].sequence = k + 1
  <2>1. NextSequence(c.on) = k + 1 BY <1>4, <1>5, NextIsFresh
  <2> QED BY <1>3, <2>1 DEF Numbered
<1>7. \A i \in 1..n : trail[i].what # <<"checkpoint", r>>
  <2>1. \A i \in 1..n : <<trail[i].what[1], trail[i].what[2]>> \in DOMAIN rows
    BY <1>1 DEF AuditedOnce, Known
  <2> QED BY <1>3, <2>1
<1>8. ASSUME NEW m \in MissionIds
      PROVE  /\ r \notin CheckpointsOf(m)
             /\ \A q \in CheckpointsOf(m) : q \in CheckpointsOf(m)' /\ SequenceOf(q)' = SequenceOf(q)
             /\ \A q \in CheckpointsOf(m)' : q \in CheckpointsOf(m) \/ (q = r /\ m = c.on)
  BY <1>2, <1>3, <1>6 DEF CheckpointsOf, SequenceOf, Known, RowOf
<1>9. r \in CheckpointsOf(c.on)' /\ SequenceOf(r)' = k + 1
  BY <1>2, <1>4, <1>6 DEF CheckpointsOf, SequenceOf, Known, RowOf
<1>10. {SequenceOf(q) : q \in CheckpointsOf(c.on)} = 1..k
  BY <1>4, <1>5 DEF CheckpointsAreDense, SequenceOf
<1>11. ASSUME NEW m \in MissionIds
       PROVE  {SequenceOf(q)' : q \in CheckpointsOf(m)'} = 1..Cardinality(CheckpointsOf(m)')
  <2>1. CASE m # c.on
    <3>1. CheckpointsOf(m)' = CheckpointsOf(m) BY <1>8, <2>1
    <3>2. {SequenceOf(q) : q \in CheckpointsOf(m)} = 1..Cardinality(CheckpointsOf(m))
      BY DEF CheckpointsAreDense, SequenceOf
    <3>3. {SequenceOf(q)' : q \in CheckpointsOf(m)'} = {SequenceOf(q) : q \in CheckpointsOf(m)}
      BY <1>8, <3>1
    <3> QED BY <3>1, <3>2, <3>3
  <2>2. CASE m = c.on
    <3>1. CheckpointsOf(m)' = CheckpointsOf(m) \union {r} BY <1>8, <1>9, <2>2
    <3>2. Cardinality(CheckpointsOf(m)') = k + 1
      <4>1. IsFiniteSet(CheckpointsOf(m)) BY CheckpointsFinite
      <4>2. r \notin CheckpointsOf(m) BY <1>8
      <4> QED BY <1>5, <2>2, <3>1, <4>1, <4>2, FS_AddElement
    <3>3. {SequenceOf(q)' : q \in CheckpointsOf(m)'}
            = {SequenceOf(q) : q \in CheckpointsOf(m)} \union {k + 1}
      BY <1>8, <1>9, <2>2, <3>1
    <3>4. (1..k) \union {k + 1} = 1..k + 1 OBVIOUS
    <3> QED BY <1>10, <2>2, <3>2, <3>3, <3>4
  <2> QED BY <2>1, <2>2
<1>12. ASSUME NEW m \in MissionIds, NEW i \in DOMAIN trail', NEW j \in DOMAIN trail',
             NEW q \in CheckpointsOf(m)', NEW s \in CheckpointsOf(m)',
             i < j, trail'[i].what = <<"checkpoint", q>>, trail'[j].what = <<"checkpoint", s>>
      PROVE  SequenceOf(q)' < SequenceOf(s)'
  <2>1. i \in 1..n BY <1>1, <1>12
  <2>2. trail[i].what = <<"checkpoint", q>> BY <1>1, <1>12, <2>1
  <2>3. q # r BY <1>7, <2>1, <2>2
  <2>4. q \in CheckpointsOf(m) /\ SequenceOf(q)' = SequenceOf(q) BY <1>8, <2>3
  <2>5. CASE s = r
    <3>1. m = c.on BY <1>8, <2>5
    <3>2. SequenceOf(q) \in 1..k BY <1>10, <2>4, <3>1
    <3> QED BY <1>9, <2>4, <2>5, <3>2
  <2>6. CASE s # r
    <3>1. s \in CheckpointsOf(m) /\ SequenceOf(s)' = SequenceOf(s) BY <1>8, <2>6
    <3>2. j \in 1..n
      <4>1. j # n + 1 BY <1>1, <1>12, <2>6
      <4> QED BY <1>1, <1>12, <4>1
    <3>3. trail[j].what = <<"checkpoint", s>> BY <1>1, <1>12, <3>2
    <3>4. SequenceOf(q) < SequenceOf(s)
      BY <1>1, <1>12, <2>1, <2>2, <2>4, <3>1, <3>2, <3>3 DEF CheckpointsAreDense, SequenceOf
    <3> QED BY <2>4, <3>1, <3>4
  <2> QED BY <2>5, <2>6
<1> QED BY <1>11, <1>12 DEF CheckpointsAreDense, SequenceOf

-----------------------------------------------------------------------------
(* Evidence                                                                *)

LEMMA FirstEvidenceOther ==
  ASSUME NEW t, NEW r, NEW c, First(t, r, c), t # "artifacts", evidence' = evidence,
         EvidenceInv, EvidenceStands
  PROVE  EvidenceInv' /\ EvidenceStands'
PROOF
<1>1. \A q : /\ <<"artifacts", q>> \in DOMAIN rows' <=> <<"artifacts", q>> \in DOMAIN rows
             /\ <<"artifacts", q>> \in DOMAIN rows =>
                  rows'[<<"artifacts", q>>] = rows[<<"artifacts", q>>]
  BY FirstKeys
<1>2. EvidenceInv' BY <1>1 DEF EvidenceInv, Known, RowOf
<1>3. EvidenceStands' BY <1>1 DEF EvidenceStands, Known, RowOf
<1> QED BY <1>2, <1>3

\* What was accepted earlier is set and not blank where the new call would
\* disturb it, so the call says the same.
LEMMA FirstEvidenceArtifacts ==
  ASSUME NEW r \in CallIds, NEW c \in Calls(Actions, Evidences),
         First("artifacts", r, c), MayAttach(c),
         evidence' = [evidence EXCEPT ![c.on] = Replacing(c.what, evidence[c.on])],
         EvidenceInv, EvidenceStands
  PROVE  EvidenceInv' /\ EvidenceStands'
PROOF
<1>1. \A q : /\ <<"artifacts", q>> \in DOMAIN rows' <=> q = r \/ <<"artifacts", q>> \in DOMAIN rows
             /\ <<"artifacts", q>> \in DOMAIN rows =>
                  rows'[<<"artifacts", q>>] = rows[<<"artifacts", q>>]
  BY FirstKeys
<1>2. rows'[<<"artifacts", r>>] = c BY FirstRows
<1>3. c.on \in Actions /\ c.what \in Evidences BY DEF Calls
<1>4. DOMAIN c.what \subseteq {"before_digest", "healthcheck"} BY <1>3 DEF Evidences
<1> DEFINE old == evidence[c.on]
           new == Replacing(c.what, old)
<1>5. /\ DOMAIN new = DOMAIN c.what \union DOMAIN old
      /\ \A f \in DOMAIN c.what : new[f] = c.what[f]
      /\ \A f \in DOMAIN old : f \notin DOMAIN c.what => new[f] = old[f]
  BY DEF Replacing
<1>6. /\ evidence' = [a \in Actions |-> evidence'[a]]
      /\ evidence'[c.on] = new
      /\ \A a \in Actions : a # c.on => evidence'[a] = evidence[a]
  <2>1. evidence = [a \in Actions |-> evidence[a]] BY DEF EvidenceInv
  <2> HIDE DEF new
  <2>2. evidence' = [evidence EXCEPT ![c.on] = new] BY DEF new
  <2> QED BY <1>3, <2>1, <2>2
<1> HIDE DEF new
<1>7. DOMAIN old \subseteq {"before_digest", "healthcheck"} BY <1>3 DEF EvidenceInv
<1>8. \A a \in Actions : DOMAIN evidence'[a] \subseteq {"before_digest", "healthcheck"}
  <2>1. \A a \in Actions : DOMAIN evidence[a] \subseteq {"before_digest", "healthcheck"}
    BY DEF EvidenceInv
  <2>2. DOMAIN new \subseteq {"before_digest", "healthcheck"} BY <1>4, <1>5, <1>7
  <2> QED BY <1>6, <2>1, <2>2
<1>9. ASSUME NEW q \in CallIds, <<"artifacts", q>> \in DOMAIN rows'
      PROVE  LET w == rows'[<<"artifacts", q>>]
             IN  /\ w.on \in Actions
                 /\ DOMAIN w.what \subseteq DOMAIN evidence'[w.on]
                 /\ \A col \in DOMAIN w.what :
                      w.what[col] # Blank => evidence'[w.on][col] = w.what[col]
  <2> DEFINE w == rows'[<<"artifacts", q>>]
  <2>1. CASE q = r
    <3>1. w = c BY <1>2, <2>1
    <3> HIDE DEF w
    <3>2. /\ w.on \in Actions /\ DOMAIN w.what \subseteq DOMAIN evidence'[w.on]
          /\ \A col \in DOMAIN w.what : evidence'[w.on][col] = w.what[col]
      BY <1>3, <1>5, <1>6, <3>1
    <3> QED BY <3>2 DEF w
  <2>2. CASE q # r
    <3>1. <<"artifacts", q>> \in DOMAIN rows /\ w = rows[<<"artifacts", q>>]
      BY <1>1, <1>9, <2>2
    <3>2. /\ w.on \in Actions /\ DOMAIN w.what \subseteq DOMAIN evidence[w.on]
          /\ \A col \in DOMAIN w.what : w.what[col] # Blank => evidence[w.on][col] = w.what[col]
      BY <3>1 DEF EvidenceInv, EvidenceStands, Known, RowOf
    <3> HIDE DEF w
    <3>3. CASE w.on # c.on
      <4>1. evidence'[w.on] = evidence[w.on] BY <1>6, <3>2, <3>3
      <4> QED BY <3>2, <4>1 DEF w
    <3>4. CASE w.on = c.on
      <4>1. evidence'[w.on] = new /\ evidence[w.on] = old BY <1>6, <3>4
      <4>2. DOMAIN w.what \subseteq DOMAIN new BY <1>5, <3>2, <4>1
      <4>3. ASSUME NEW col \in DOMAIN w.what, w.what[col] # Blank
            PROVE  new[col] = w.what[col]
        <5>1. col \in DOMAIN old /\ old[col] = w.what[col] BY <3>2, <4>1, <4>3
        <5>2. CASE col \in DOMAIN c.what
          <6>1. old[col] \in {Blank, c.what[col]} BY <5>1, <5>2 DEF MayAttach
          <6> QED BY <1>5, <4>3, <5>1, <5>2, <6>1
        <5>3. CASE col \notin DOMAIN c.what BY <1>5, <5>1, <5>3
        <5> QED BY <5>2, <5>3
      <4> QED BY <3>2, <4>1, <4>2, <4>3 DEF w
    <3> QED BY <3>3, <3>4
  <2> QED BY <2>1, <2>2
<1>10. EvidenceInv' BY <1>6, <1>8, <1>9 DEF EvidenceInv, Known, RowOf
<1>11. EvidenceStands' BY <1>9 DEF EvidenceStands, Known, RowOf
<1> QED BY <1>10, <1>11

-----------------------------------------------------------------------------
(* The operations                                                          *)

\* What First does whatever the operation is.
LEMMA FirstCommon ==
  ASSUME NEW t \in Tables, NEW r \in CallIds, NEW c, First(t, r, c), ContextInv
  PROVE  /\ TrailInv' /\ BackupInv' /\ AnswersAreRecorded' /\ AuditedOnce'
         /\ ctx' \in [MissionIds -> Contexts]
              /\ incident' \in [CallIds -> {Null} \union Incidents] => TablesInv'
PROOF
<1>1. TrailInv' BY AppendVerifies DEF ContextInv
<1>2. BackupInv' BY FirstCopies DEF ContextInv
<1>3. AnswersAreRecorded' BY FirstAnswers DEF ContextInv
<1>4. AuditedOnce' BY FirstAudited DEF ContextInv
<1>5. /\ DOMAIN rows' \subseteq Tables \X CallIds
      /\ \A u \in Tables : IsFiniteSet({q \in CallIds : <<u, q>> \in DOMAIN rows'})
  BY FirstTables DEF ContextInv
<1>6. ctx' \in [MissionIds -> Contexts]
        /\ incident' \in [CallIds -> {Null} \union Incidents] => TablesInv'
  BY <1>5 DEF TablesInv, Known
<1> QED BY <1>1, <1>2, <1>3, <1>4, <1>6

\* A retry changes nothing but what was told.
LEMMA AgainStep ==
  ASSUME NEW t, NEW r, NEW c, Again(t, r, c), ContextInv
  PROVE  ContextInv'
PROOF
<1>1. AnswersAreRecorded' BY AgainAnswers DEF ContextInv
<1>2. UNCHANGED <<rows, trail, head, ctx, evidence, incident, backup, backups, published>>
  BY DEF Again, backupVars, entityVars
<1>3. TablesInv' /\ EvidenceInv' BY <1>2 DEF ContextInv, TablesInv, EvidenceInv, Known, RowOf
<1>4. TrailInv' /\ BackupInv' BY <1>2 DEF ContextInv, TrailInv, BackupInv, IsCopy
<1>5. CountsTellTraces' BY <1>2 DEF ContextInv, CountsTellTraces, Known, RowOf
<1>6. ResumeInv'
  <2>1. ASSUME NEW m \in MissionIds PROVE StepsOf(m)' = StepsOf(m)
    BY <1>2 DEF StepsOf, SetsStep, RowOf
  <2>2. ASSUME NEW i PROVE StepAt(i)' = StepAt(i) BY <1>2 DEF StepAt, RowOf
  <2> QED BY <1>2, <2>1, <2>2 DEF ContextInv, ResumeInv
<1>7. CheckpointsAreDense' BY <1>2 DEF ContextInv, CheckpointsAreDense, CheckpointsOf, Known, RowOf
<1>8. EvidenceStands' /\ AuditedOnce' BY <1>2 DEF ContextInv, EvidenceStands, AuditedOnce, Known, RowOf
<1> QED BY <1>1, <1>3, <1>4, <1>5, <1>6, <1>7, <1>8 DEF ContextInv

\* A call that neither sets a step nor counts.
LEMMA FirstElsewhere ==
  ASSUME NEW t \in Tables \ {"update", "checkpoint", "trace", "artifacts"},
         NEW r \in CallIds, NEW c, First(t, r, c), ContextInv,
         ctx' = ctx, evidence' = evidence,
         incident' \in [CallIds -> {Null} \union Incidents]
  PROVE  ContextInv'
PROOF
<1>1. t \in Tables /\ ctx' \in [MissionIds -> Contexts] BY DEF ContextInv, TablesInv
<1>2. TrailInv' /\ BackupInv' /\ AnswersAreRecorded' /\ AuditedOnce' /\ TablesInv'
  BY <1>1, FirstCommon
<1>3. CountsTellTraces' BY FirstCountsOther DEF ContextInv
<1>4. ResumeInv' BY FirstResume DEF ContextInv
<1>5. CheckpointsAreDense' BY FirstDenseOther DEF ContextInv
<1>6. EvidenceInv' /\ EvidenceStands' BY FirstEvidenceOther DEF ContextInv
<1> QED BY <1>2, <1>3, <1>4, <1>5, <1>6 DEF ContextInv

\* The columns an update gives are those of the context, and no counter.
LEMMA UpdatedContext ==
  ASSUME NEW u \in Contexts, NEW w \in Updates
  PROVE  /\ Replacing(w, u) \in Contexts
         /\ Replacing(w, u).iterations = u.iterations
         /\ Replacing(w, u).api_calls = u.api_calls
         /\ Replacing(w, u).step = IF "step" \in DOMAIN w THEN w.step ELSE u.step
PROOF
<1> DEFINE x == Replacing(w, u)
<1>1. CASE w \in [step : Texts]
  <2>1. x = [u EXCEPT !.step = w.step] BY <1>1 DEF Replacing, Contexts
  <2> HIDE DEF x
  <2> QED BY <1>1, <2>1 DEF Contexts, x
<1>2. CASE w \in [max_iterations : {1}]
  <2>1. x = [u EXCEPT !.max_iterations = 1] BY <1>2 DEF Replacing, Contexts
  <2>2. "step" \notin DOMAIN w BY <1>2
  <2> HIDE DEF x
  <2>3. x \in Contexts /\ x.step = u.step BY <2>1 DEF Contexts
  <2>4. x.iterations = u.iterations /\ x.api_calls = u.api_calls BY <2>1 DEF Contexts
  <2> QED BY <2>2, <2>3, <2>4 DEF x
<1>3. CASE w \in [max_api_calls : {0}]
  <2>1. x = [u EXCEPT !.max_api_calls = 0] BY <1>3 DEF Replacing, Contexts
  <2>2. "step" \notin DOMAIN w BY <1>3
  <2> HIDE DEF x
  <2>3. x \in Contexts /\ x.step = u.step BY <2>1 DEF Contexts
  <2>4. x.iterations = u.iterations /\ x.api_calls = u.api_calls BY <2>1 DEF Contexts
  <2> QED BY <2>2, <2>3, <2>4 DEF x
<1> QED BY <1>1, <1>2, <1>3 DEF Updates

LEMMA UpdateMissionStateStep ==
  ASSUME ContextInv, NEW r \in CallIds, NEW c \in Calls(MissionIds, Updates),
         UpdateMissionState(r, c)
  PROVE  ContextInv'
PROOF
<1>1. CASE Again("update", r, c) BY <1>1, AgainStep
<1>2. CASE /\ First("update", r, c)
           /\ ctx' = [ctx EXCEPT ![c.on] = Replacing(c.what, ctx[c.on])]
           /\ UNCHANGED <<evidence, incident, creating>>
  <2>1. c.on \in MissionIds /\ c.what \in Updates BY DEF Calls
  <2>2. ctx \in [MissionIds -> Contexts] BY DEF ContextInv, TablesInv
  <2> DEFINE new == Replacing(c.what, ctx[c.on])
  <2>3. /\ new \in Contexts /\ new.iterations = ctx[c.on].iterations
        /\ new.api_calls = ctx[c.on].api_calls
        /\ new.step = IF "step" \in DOMAIN c.what THEN c.what.step ELSE ctx[c.on].step
    BY <2>1, <2>2, UpdatedContext
  <2>4. ctx' = [ctx EXCEPT ![c.on] = new] BY <1>2
  <2> HIDE DEF new
  <2>5. ctx' \in [MissionIds -> Contexts] BY <2>1, <2>2, <2>3, <2>4
  <2>6. ctx'[c.on] = new /\ \A m \in MissionIds : m # c.on => ctx'[m] = ctx[m]
    BY <2>1, <2>2, <2>4
  <2>7. TrailInv' /\ BackupInv' /\ AnswersAreRecorded' /\ AuditedOnce' /\ TablesInv'
    <3>1. "update" \in Tables BY DEF Tables
    <3>2. incident' \in [CallIds -> {Null} \union Incidents] BY <1>2 DEF ContextInv, TablesInv
    <3> QED BY <1>2, <2>5, <3>1, <3>2, FirstCommon
  <2>8. CountsTellTraces'
    <3>1. \A m \in MissionIds : /\ ctx'[m].iterations = ctx[m].iterations
                                /\ ctx'[m].api_calls = ctx[m].api_calls
      BY <2>3, <2>6
    <3> QED BY <1>2, <3>1, FirstCountsOther DEF ContextInv
  <2>9. ResumeInv'
    <3>1. ASSUME NEW m \in MissionIds
          PROVE  ctx'[m].step =
                   IF "update" = "update" /\ c.on = m /\ "step" \in DOMAIN c.what THEN c.what.step
                   ELSE IF "update" = "checkpoint" /\ c.on = m THEN c.what.phase
                   ELSE ctx[m].step
      BY <2>3, <2>6
    <3> QED BY <1>2, <3>1, FirstResume DEF ContextInv
  <2>10. CheckpointsAreDense' BY <1>2, FirstDenseOther DEF ContextInv
  <2>11. EvidenceInv' /\ EvidenceStands' BY <1>2, FirstEvidenceOther DEF ContextInv
  <2> QED BY <2>7, <2>8, <2>9, <2>10, <2>11 DEF ContextInv
<1> QED BY <1>1, <1>2 DEF UpdateMissionState

LEMMA CreateCheckpointStep ==
  ASSUME ContextInv, NEW r \in CallIds, NEW c \in Calls(MissionIds, Checkpoints),
         CreateCheckpoint(r, c)
  PROVE  ContextInv'
PROOF
<1> DEFINE row == Numbered(c, NextSequence(c.on))
<1>1. CASE \E s \in 1..Cardinality(CallIds) : Again("checkpoint", r, Numbered(c, s))
  <2>1. PICK s \in 1..Cardinality(CallIds) : Again("checkpoint", r, Numbered(c, s)) BY <1>1
  <2> QED BY <2>1, AgainStep
<1>2. CASE /\ First("checkpoint", r, row)
           /\ ctx' = [ctx EXCEPT ![c.on].step = c.what.phase]
           /\ UNCHANGED <<evidence, incident, creating>>
  <2>1. c.on \in MissionIds /\ c.what.phase \in Texts BY DEF Calls, Checkpoints
  <2>2. ctx \in [MissionIds -> Contexts] BY DEF ContextInv, TablesInv
  <2>3. row.on = c.on /\ row.what = c.what BY DEF Numbered
  <2> HIDE DEF row
  <2>4. ctx' \in [MissionIds -> Contexts] BY <1>2, <2>1, <2>2 DEF Contexts
  <2>5. /\ ctx'[c.on].step = c.what.phase
        /\ ctx'[c.on].iterations = ctx[c.on].iterations
        /\ ctx'[c.on].api_calls = ctx[c.on].api_calls
        /\ \A m \in MissionIds : m # c.on => ctx'[m] = ctx[m]
    BY <1>2, <2>1, <2>2 DEF Contexts
  <2>6. TrailInv' /\ BackupInv' /\ AnswersAreRecorded' /\ AuditedOnce' /\ TablesInv'
    <3>1. "checkpoint" \in Tables BY DEF Tables
    <3>2. incident' \in [CallIds -> {Null} \union Incidents] BY <1>2 DEF ContextInv, TablesInv
    <3> QED BY <1>2, <2>4, <3>1, <3>2, FirstCommon
  <2>7. CountsTellTraces'
    <3>1. \A m \in MissionIds : /\ ctx'[m].iterations = ctx[m].iterations
                                /\ ctx'[m].api_calls = ctx[m].api_calls
      BY <2>5
    <3> QED BY <1>2, <3>1, FirstCountsOther DEF ContextInv
  <2>8. ResumeInv'
    <3>1. ASSUME NEW m \in MissionIds
          PROVE  ctx'[m].step =
                   IF "checkpoint" = "update" /\ row.on = m /\ "step" \in DOMAIN row.what
                   THEN row.what.step
                   ELSE IF "checkpoint" = "checkpoint" /\ row.on = m THEN row.what.phase
                   ELSE ctx[m].step
      BY <2>3, <2>5
    <3> QED BY <1>2, <3>1, FirstResume DEF ContextInv
  <2>9. CheckpointsAreDense' BY <1>2, FirstDenseCheckpoint DEF ContextInv, row
  <2>10. EvidenceInv' /\ EvidenceStands' BY <1>2, FirstEvidenceOther DEF ContextInv
  <2> QED BY <2>6, <2>7, <2>8, <2>9, <2>10 DEF ContextInv
<1> QED BY <1>1, <1>2 DEF CreateCheckpoint

LEMMA RecordModelTraceStep ==
  ASSUME ContextInv, NEW r \in CallIds,
         NEW c \in Calls(MissionIds, [remote : BOOLEAN, parent : CallIds \union {Null}]),
         RecordModelTrace(r, c)
  PROVE  ContextInv'
PROOF
<1>1. CASE Again("trace", r, c) BY <1>1, AgainStep
<1>2. CASE /\ First("trace", r, c)
           /\ ctx' = Counted(c)
           /\ UNCHANGED <<evidence, incident, creating>>
  <2>1. c.on \in MissionIds BY DEF Calls
  <2>2. ctx \in [MissionIds -> Contexts] BY DEF ContextInv, TablesInv
  <2>3. ctx' \in [MissionIds -> Contexts]
    <3>1. PICK d \in Nat : d = IF c.what.remote THEN 1 ELSE 0 OBVIOUS
    <3> DEFINE new == [ctx[c.on] EXCEPT !.iterations = @ + 1, !.api_calls = @ + d]
    <3>2. new \in Contexts
      <4>1. PICK u \in Contexts : u = ctx[c.on] BY <2>1, <2>2
      <4>0. u.iterations \in Nat /\ u.api_calls \in Nat BY DEF Contexts
      <4>2. PICK a \in Nat, b \in Nat : a = u.iterations + 1 /\ b = u.api_calls + d
        BY <4>0
      <4>3. [u EXCEPT !.iterations = a, !.api_calls = b] \in Contexts BY DEF Contexts
      <4> QED BY <4>1, <4>2, <4>3
    <3>3. ctx' = [ctx EXCEPT ![c.on] = new] BY <1>2, <2>1, <2>2, <3>1 DEF Counted, Contexts
    <3> HIDE DEF new
    <3> QED BY <2>1, <2>2, <3>2, <3>3
  <2>4. \A m \in MissionIds : ctx'[m].step = ctx[m].step
    BY <1>2, <2>1, <2>2 DEF Counted, Contexts
  <2>5. TrailInv' /\ BackupInv' /\ AnswersAreRecorded' /\ AuditedOnce' /\ TablesInv'
    <3>1. "trace" \in Tables BY DEF Tables
    <3>2. incident' \in [CallIds -> {Null} \union Incidents] BY <1>2 DEF ContextInv, TablesInv
    <3> QED BY <1>2, <2>3, <3>1, <3>2, FirstCommon
  <2>6. CountsTellTraces' BY <1>2, FirstCountsTrace DEF ContextInv
  <2>7. ResumeInv' BY <1>2, <2>4, FirstResume DEF ContextInv
  <2>8. CheckpointsAreDense' BY <1>2, FirstDenseOther DEF ContextInv
  <2>9. EvidenceInv' /\ EvidenceStands' BY <1>2, FirstEvidenceOther DEF ContextInv
  <2> QED BY <2>5, <2>6, <2>7, <2>8, <2>9 DEF ContextInv
<1> QED BY <1>1, <1>2 DEF RecordModelTrace

LEMMA RecordActionArtifactsStep ==
  ASSUME ContextInv, NEW r \in CallIds, NEW c \in Calls(Actions, Evidences),
         RecordActionArtifacts(r, c)
  PROVE  ContextInv'
PROOF
<1>1. CASE Again("artifacts", r, c) BY <1>1, AgainStep
<1>2. CASE /\ MayAttach(c)
           /\ First("artifacts", r, c)
           /\ evidence' = [evidence EXCEPT ![c.on] = Replacing(c.what, evidence[c.on])]
           /\ UNCHANGED <<ctx, incident, creating>>
  <2>1. TrailInv' /\ BackupInv' /\ AnswersAreRecorded' /\ AuditedOnce' /\ TablesInv'
    <3>1. "artifacts" \in Tables BY DEF Tables
    <3>2. /\ ctx' \in [MissionIds -> Contexts]
          /\ incident' \in [CallIds -> {Null} \union Incidents]
      BY <1>2 DEF ContextInv, TablesInv
    <3> QED BY <1>2, <3>1, <3>2, FirstCommon
  <2>2. CountsTellTraces' BY <1>2, FirstCountsOther DEF ContextInv
  <2>3. ResumeInv' BY <1>2, FirstResume DEF ContextInv
  <2>4. CheckpointsAreDense' BY <1>2, FirstDenseOther DEF ContextInv
  <2>5. EvidenceInv' /\ EvidenceStands' BY <1>2, FirstEvidenceArtifacts DEF ContextInv
  <2> QED BY <2>1, <2>2, <2>3, <2>4, <2>5 DEF ContextInv
<1> QED BY <1>1, <1>2 DEF RecordActionArtifacts

LEMMA AddRecordStep ==
  ASSUME ContextInv, NEW r \in CallIds, NEW c, AddRecord(r, c)
  PROVE  ContextInv'
PROOF
<1>1. CASE Again("record", r, c) BY <1>1, AgainStep
<1>2. CASE First("record", r, c) /\ UNCHANGED entityVars
  <2>1. "record" \in Tables \ {"update", "checkpoint", "trace", "artifacts"} BY DEF Tables
  <2>2. /\ ctx' = ctx /\ evidence' = evidence
        /\ incident' \in [CallIds -> {Null} \union Incidents]
    BY <1>2 DEF entityVars, ContextInv, TablesInv
  <2> QED BY <1>2, <2>1, <2>2, FirstElsewhere
<1> QED BY <1>1, <1>2 DEF AddRecord

\* A step that touches no table, no entity that is counted, no trail, no backup.
LEMMA IdleStep ==
  ASSUME ContextInv,
         UNCHANGED <<rows, told, trail, head, ctx, evidence, incident>>
  PROVE  /\ BackupInv' => ContextInv'
         /\ UNCHANGED <<backup, backups, published>> => ContextInv'
PROOF
<1>1. TablesInv' /\ EvidenceInv' BY DEF ContextInv, TablesInv, EvidenceInv, Known, RowOf
<1>2. TrailInv' BY DEF ContextInv, TrailInv
<1>3. UNCHANGED <<backup, backups, published>> => BackupInv' BY DEF ContextInv, BackupInv, IsCopy
<1>4. AnswersAreRecorded' BY DEF ContextInv, AnswersAreRecorded, Known, RowOf
<1>5. CountsTellTraces' BY DEF ContextInv, CountsTellTraces, Known, RowOf
<1>6. ResumeInv'
  <2>1. ASSUME NEW m \in MissionIds PROVE StepsOf(m)' = StepsOf(m)
    BY DEF StepsOf, SetsStep, RowOf
  <2>2. ASSUME NEW i PROVE StepAt(i)' = StepAt(i) BY DEF StepAt, RowOf
  <2> QED BY <2>1, <2>2 DEF ContextInv, ResumeInv
<1>7. CheckpointsAreDense' BY DEF ContextInv, CheckpointsAreDense, CheckpointsOf, Known, RowOf
<1>8. EvidenceStands' /\ AuditedOnce' BY DEF ContextInv, EvidenceStands, AuditedOnce, Known, RowOf
<1> QED BY <1>1, <1>2, <1>3, <1>4, <1>5, <1>6, <1>7, <1>8 DEF ContextInv

LEMMA CreateIncidentLookupStep ==
  ASSUME ContextInv, NEW r \in CallIds, NEW c, CreateIncidentLookup(r, c)
  PROVE  ContextInv'
PROOF
<1>1. CASE Again("incident", r, c) BY <1>1, AgainStep
<1>2. CASE UNCHANGED <<callVars, ctx, evidence, incident, backupVars>>
  <2>1. /\ UNCHANGED <<rows, told, trail, head, ctx, evidence, incident>>
        /\ UNCHANGED <<backup, backups, published>>
    BY <1>2 DEF callVars, backupVars
  <2> QED BY <2>1, IdleStep
<1> QED BY <1>1, <1>2 DEF CreateIncidentLookup

\* The statuses and causes an operation writes are those of the table.
LEMMA IncidentWrites ==
  ASSUME TablesInv, NEW i \in CallIds
  PROVE  /\ [incident EXCEPT ![i] = [status |-> "open", cause |-> ""]]
              \in [CallIds -> {Null} \union Incidents]
         /\ incident[i] # Null =>
              /\ \A x \in Texts : [incident EXCEPT ![i].cause = x]
                                    \in [CallIds -> {Null} \union Incidents]
              /\ \A x \in DOMAIN IncidentTransitions :
                   [incident EXCEPT ![i].status = x] \in [CallIds -> {Null} \union Incidents]
PROOF
<1>1. incident \in [CallIds -> {Null} \union Incidents] BY DEF TablesInv
<1>2. [status |-> "open", cause |-> ""] \in Incidents BY DEF Incidents, IncidentTransitions
<1>3. ASSUME incident[i] # Null, NEW x \in Texts
      PROVE  [incident EXCEPT ![i].cause = x] \in [CallIds -> {Null} \union Incidents]
  <2>1. [incident[i] EXCEPT !.cause = x] \in Incidents BY <1>1, <1>3 DEF Incidents
  <2> QED BY <1>1, <2>1
<1>4. ASSUME incident[i] # Null, NEW x \in DOMAIN IncidentTransitions
      PROVE  [incident EXCEPT ![i].status = x] \in [CallIds -> {Null} \union Incidents]
  <2>1. [incident[i] EXCEPT !.status = x] \in Incidents BY <1>1, <1>4 DEF Incidents
  <2> QED BY <1>1, <2>1
<1>5. [incident EXCEPT ![i] = [status |-> "open", cause |-> ""]]
        \in [CallIds -> {Null} \union Incidents]
  BY <1>1, <1>2
<1> QED BY <1>3, <1>4, <1>5

LEMMA CreateIncidentInsertStep ==
  ASSUME ContextInv, NEW r \in CallIds, NEW c, CreateIncidentInsert(r, c)
  PROVE  ContextInv'
PROOF
<1>1. CASE UNCHANGED <<callVars, incident, backupVars>> /\ UNCHANGED <<ctx, evidence>>
  <2>1. /\ UNCHANGED <<rows, told, trail, head, ctx, evidence, incident>>
        /\ UNCHANGED <<backup, backups, published>>
    BY <1>1 DEF callVars, backupVars
  <2> QED BY <2>1, IdleStep
<1>2. CASE /\ First("incident", r, c)
           /\ incident' = [incident EXCEPT ![r] = [status |-> "open", cause |-> ""]]
           /\ UNCHANGED <<ctx, evidence>>
  <2>1. "incident" \in Tables \ {"update", "checkpoint", "trace", "artifacts"} BY DEF Tables
  <2>2. incident' \in [CallIds -> {Null} \union Incidents]
    BY <1>2, IncidentWrites DEF ContextInv
  <2> QED BY <1>2, <2>1, <2>2, FirstElsewhere
<1> QED BY <1>1, <1>2 DEF CreateIncidentInsert

LEMMA UpdateIncidentDetailsStep ==
  ASSUME ContextInv, NEW r \in CallIds, NEW c \in Calls(CallIds, [cause : Texts]),
         UpdateIncidentDetails(r, c)
  PROVE  ContextInv'
PROOF
<1>1. CASE Again("details", r, c) BY <1>1, AgainStep
<1>2. CASE /\ incident[c.on] # Null
           /\ First("details", r, c)
           /\ incident' = [incident EXCEPT ![c.on].cause = c.what.cause]
           /\ UNCHANGED <<ctx, evidence, creating>>
  <2>1. "details" \in Tables \ {"update", "checkpoint", "trace", "artifacts"} BY DEF Tables
  <2>2. c.on \in CallIds /\ c.what.cause \in Texts BY DEF Calls
  <2>3. incident' \in [CallIds -> {Null} \union Incidents]
    BY <1>2, <2>2, IncidentWrites DEF ContextInv
  <2> QED BY <1>2, <2>1, <2>3, FirstElsewhere
<1> QED BY <1>1, <1>2 DEF UpdateIncidentDetails

LEMMA SetIncidentStatusStep ==
  ASSUME ContextInv, NEW r \in CallIds, NEW c \in Calls(CallIds, DOMAIN IncidentTransitions),
         SetIncidentStatus(r, c)
  PROVE  ContextInv'
PROOF
<1>1. CASE Again("status", r, c) BY <1>1, AgainStep
<1>2. CASE /\ incident[c.on] # Null
           /\ First("status", r, c)
           /\ incident' = [incident EXCEPT ![c.on].status = c.what]
           /\ UNCHANGED <<ctx, evidence, creating>>
  <2>1. "status" \in Tables \ {"update", "checkpoint", "trace", "artifacts"} BY DEF Tables
  <2>2. c.on \in CallIds /\ c.what \in DOMAIN IncidentTransitions BY DEF Calls
  <2>3. incident' \in [CallIds -> {Null} \union Incidents]
    BY <1>2, <2>2, IncidentWrites DEF ContextInv
  <2> QED BY <1>2, <2>1, <2>3, FirstElsewhere
<1> QED BY <1>1, <1>2 DEF SetIncidentStatus

-----------------------------------------------------------------------------
(* Backups                                                                 *)

LEMMA BackupStep ==
  ASSUME ContextInv, BackupCopy \/ BackupPublish \/ BackupPrune \/ BackupCrash
  PROVE  ContextInv'
PROOF
<1>1. UNCHANGED <<rows, told, trail, head, ctx, evidence, incident>>
  BY DEF BackupCopy, BackupPublish, BackupPrune, BackupCrash, callVars, entityVars
<1>2. BackupInv /\ published \in Nat /\ MaxBackups \in Nat
  BY BudgetAssumption DEF ContextInv, BackupInv
<1>3. ASSUME NEW b PROVE IsCopy(b)' <=> IsCopy(b) BY <1>1 DEF IsCopy
<1>4. CASE BackupCopy
  <2>1. /\ backup' = [at |-> published + 1, log |-> trail, head |-> head]
        /\ backups' = backups /\ published' = published /\ published < MaxBackups
    BY <1>4 DEF BackupCopy
  <2>2. backup'.log = trail BY <2>1
  <2>3. Len(trail) \in Nat /\ trail' = trail BY <1>1, AppendFacts DEF ContextInv, TrailInv
  <2>4. Len(backup'.log) \in Nat /\ IsPrefix(backup'.log, trail') BY <2>2, <2>3 DEF IsPrefix
  <2>5. BackupInv' BY <1>1, <1>2, <2>1, <2>4 DEF BackupInv, IsCopy
  <2> QED BY <1>1, <2>5, IdleStep
<1>5. CASE BackupPublish
  <2>1. /\ backup # Null /\ backup \notin backups /\ Verify(backup.log, backup.head)
        /\ backups' = backups \union {backup}
        /\ published' = published + 1 /\ backup' = backup
    BY <1>5 DEF BackupPublish, VerifyFile
  <2>2. published < MaxBackups /\ IsCopy(backup) BY <1>2, <2>1 DEF BackupInv
  <2>3. published' \in 0..MaxBackups BY <1>2, <2>1, <2>2
  <2>4. backup' \in backups' BY <2>1
  <2>5. \A b \in backups' : IsCopy(b) /\ Verify(b.log, b.head)
    BY <1>2, <2>1, <2>2 DEF BackupInv
  <2>6. BackupInv' BY <1>1, <2>1, <2>2, <2>3, <2>4, <2>5 DEF BackupInv, IsCopy
  <2> QED BY <1>1, <2>6, IdleStep
<1>6. CASE BackupPrune \/ BackupCrash
  <2>1. backup' = Null /\ backups' \subseteq backups /\ published' = published
    BY <1>6 DEF BackupPrune, BackupCrash
  <2>2. BackupInv' BY <1>1, <1>2, <2>1 DEF BackupInv, IsCopy
  <2> QED BY <1>1, <2>2, IdleStep
<1> QED BY <1>4, <1>5, <1>6

-----------------------------------------------------------------------------
(* The theorems                                                            *)

LEMMA ContextInit_Inv == ContextInit => ContextInv
PROOF
<1> SUFFICES ASSUME ContextInit PROVE ContextInv OBVIOUS
<1>1. DOMAIN rows = {} /\ trail = <<>> /\ DOMAIN trail = {} /\ Len(trail) = 0
  <2>1. rows = <<>> /\ trail = <<>> BY DEF ContextInit
  <2>2. DOMAIN <<>> = {} /\ Len(<<>>) = 0 OBVIOUS
  <2> QED BY <2>1, <2>2
<1>2. TablesInv
  <2>1. ctx \in [MissionIds -> Contexts] BY BudgetAssumption DEF ContextInit, Contexts
  <2>2. incident \in [CallIds -> {Null} \union Incidents] BY DEF ContextInit
  <2>3. ASSUME NEW t \in Tables PROVE IsFiniteSet({r \in CallIds : Known(t, r)})
    <3>1. {r \in CallIds : Known(t, r)} = {} BY <1>1 DEF Known
    <3> QED BY <3>1, FS_EmptySet
  <2> QED BY <1>1, <2>1, <2>2, <2>3 DEF TablesInv
<1>3. EvidenceInv
  <2>1. evidence = [a \in Actions |-> <<>>] BY DEF ContextInit
  <2>2. \A a \in Actions : DOMAIN evidence[a] = {} BY <2>1
  <2>3. evidence = [a \in Actions |-> evidence[a]] BY <2>1
  <2> QED BY <1>1, <2>2, <2>3 DEF EvidenceInv, Known
<1>4. TrailInv
  <2>1. trail \in Seq(ToSet(trail)) BY <1>1
  <2>2. head = [seq |-> 0, hash |-> Genesis] BY DEF ContextInit, EmptyHead
  <2>3. LastHash(trail) = Genesis BY <1>1 DEF LastHash
  <2> QED BY <1>1, <2>1, <2>2, <2>3 DEF TrailInv, Verify, Linked
<1>5. BackupInv
  <2>1. backup = Null /\ backups = {} /\ published = 0 BY DEF ContextInit
  <2>2. 0 \in 0..MaxBackups BY BudgetAssumption
  <2> QED BY <2>1, <2>2 DEF BackupInv
<1>6. AnswersAreRecorded BY DEF ContextInit, AnswersAreRecorded
<1>7. CountsTellTraces
  <2>1. ASSUME NEW m \in MissionIds PROVE TracesOf(m) = {} /\ RemoteOf(m) = {}
    BY <1>1 DEF TracesOf, RemoteOf, Known
  <2>2. \A m \in MissionIds : ctx[m].iterations = 0 /\ ctx[m].api_calls = 0 BY DEF ContextInit
  <2>3. \A m \in MissionIds : /\ ctx[m].iterations = Cardinality(TracesOf(m))
                              /\ ctx[m].api_calls = Cardinality(RemoteOf(m))
    BY <2>1, <2>2, FS_EmptySet
  <2> QED BY <2>3 DEF CountsTellTraces, TracesOf, RemoteOf
<1>8. ResumeInv
  <2>1. \A m \in MissionIds : ctx[m].step = "" BY DEF ContextInit
  <2> QED BY <1>1, <2>1 DEF ResumeInv, StepsOf
<1>9. CheckpointsAreDense
  <2>1. ASSUME NEW m \in MissionIds
        PROVE  {RowOf("checkpoint", r).sequence : r \in CheckpointsOf(m)}
                 = 1..Cardinality(CheckpointsOf(m))
    <3>1. CheckpointsOf(m) = {} BY <1>1 DEF CheckpointsOf, Known
    <3>2. Cardinality(CheckpointsOf(m)) = 0 BY <3>1, FS_EmptySet
    <3> QED BY <3>1, <3>2
  <2> QED BY <1>1, <2>1 DEF CheckpointsAreDense
<1>10. EvidenceStands /\ AuditedOnce BY <1>1 DEF EvidenceStands, AuditedOnce, Known
<1> QED BY <1>2, <1>3, <1>4, <1>5, <1>6, <1>7, <1>8, <1>9, <1>10 DEF ContextInv

LEMMA ContextNext_Inv == ContextInv /\ [ContextNext]_contextVars => ContextInv'
PROOF
<1> SUFFICES ASSUME ContextInv, [ContextNext]_contextVars PROVE ContextInv' OBVIOUS
<1>1. CASE UNCHANGED contextVars BY <1>1, IdleStep DEF contextVars
<1>2. ASSUME NEW r \in CallIds, NEW c \in Calls(MissionIds, Updates), UpdateMissionState(r, c)
      PROVE  ContextInv'
  BY <1>2, UpdateMissionStateStep
<1>3. ASSUME NEW r \in CallIds, NEW c \in Calls(MissionIds, Checkpoints), CreateCheckpoint(r, c)
      PROVE  ContextInv'
  BY <1>3, CreateCheckpointStep
<1>4. ASSUME NEW r \in CallIds, NEW c, AddRecord(r, c) PROVE ContextInv'
  BY <1>4, AddRecordStep
<1>5. ASSUME NEW r \in CallIds,
             NEW c \in Calls(MissionIds, [remote : BOOLEAN, parent : CallIds \union {Null}]),
             RecordModelTrace(r, c)
      PROVE  ContextInv'
  BY <1>5, RecordModelTraceStep
<1>6. ASSUME NEW r \in CallIds, NEW c,
             CreateIncidentLookup(r, c) \/ CreateIncidentInsert(r, c)
      PROVE  ContextInv'
  BY <1>6, CreateIncidentLookupStep, CreateIncidentInsertStep
<1>7. ASSUME NEW r \in CallIds, NEW c \in Calls(CallIds, [cause : Texts]),
             UpdateIncidentDetails(r, c)
      PROVE  ContextInv'
  BY <1>7, UpdateIncidentDetailsStep
<1>8. ASSUME NEW r \in CallIds, NEW c \in Calls(CallIds, DOMAIN IncidentTransitions),
             SetIncidentStatus(r, c)
      PROVE  ContextInv'
  BY <1>8, SetIncidentStatusStep
<1>9. ASSUME NEW r \in CallIds, NEW c \in Calls(Actions, Evidences), RecordActionArtifacts(r, c)
      PROVE  ContextInv'
  BY <1>9, RecordActionArtifactsStep
<1>10. CASE BackupCopy \/ BackupPublish \/ BackupPrune \/ BackupCrash BY <1>10, BackupStep
<1> QED BY <1>1, <1>2, <1>3, <1>4, <1>5, <1>6, <1>7, <1>8, <1>9, <1>10 DEF ContextNext

\* The invariant says what ContextHolds says of a state.
LEMMA ContextInvHolds == ContextInv => ContextHolds
PROOF
<1> SUFFICES ASSUME ContextInv PROVE ContextHolds OBVIOUS
<1>1. ContextTypeOK
  <2>1. DOMAIN rows \subseteq Tables \X CallIds /\ DOMAIN ctx = MissionIds
    BY DEF ContextInv, TablesInv
  <2>2. \A m \in MissionIds : /\ ctx[m].iterations \in Nat /\ ctx[m].api_calls \in Nat
                              /\ ctx[m].step \in Texts \union {""}
    BY DEF ContextInv, TablesInv, Contexts
  <2>3. \A a \in Actions : DOMAIN evidence[a] \subseteq {"before_digest", "healthcheck"}
    BY DEF ContextInv, EvidenceInv
  <2>4. ASSUME NEW r \in CallIds, incident[r] # Null
        PROVE  /\ incident[r].status \in DOMAIN IncidentTransitions
               /\ incident[r].cause \in Texts \union {""}
    <3>1. incident[r] \in Incidents BY <2>4 DEF ContextInv, TablesInv
    <3> QED BY <3>1 DEF Incidents
  <2>5. head.seq = Len(trail) BY DEF ContextInv, TrailInv, Verify
  <2>6. published \in 0..MaxBackups BY DEF ContextInv, BackupInv
  <2> QED BY <2>1, <2>2, <2>3, <2>4, <2>5, <2>6 DEF ContextTypeOK
<1>2. ResumePointIsLatest BY ResumeIsLatest DEF ContextInv
<1> QED BY <1>1, <1>2 DEF ContextInv, ContextHolds

\* The mission context tells what the calls did: every answer is what the table
\* holds, the budgets count the recorded traces, a mission resumes from its
\* latest step, its checkpoints are numbered in order and accepted evidence
\* stands, however callers of MissionControlService retry and race.
THEOREM ContextIsTold == ContextSpec => []ContextHolds
PROOF
<1>1. ContextSpec => []ContextInv
  BY ContextInit_Inv, ContextNext_Inv, PTL DEF ContextSpec
<1> QED BY <1>1, ContextInvHolds, PTL

\* Whatever a fault or a hand leaves of a trail that verifies does not verify
\* against the head, unless it is the trail itself.
LEMMA DamageShows ==
  ASSUME TrailInv, NEW d \in Damaged(trail, {e.what : e \in ToSet(trail)}), Verify(d, head)
  PROVE  d = trail
PROOF
<1> DEFINE S == ToSet(trail)
<1>0. PICK n \in Nat : n = Len(trail) /\ DOMAIN trail = 1..n
  BY AppendFacts DEF TrailInv
<1>1. trail \in Seq(S) /\ trail \in [1..n -> S]
  BY <1>0, LenProperties DEF TrailInv
<1>2. head.seq = n /\ Len(d) = n BY <1>0 DEF TrailInv, Verify
<1>3. ASSUME NEW i \in 1..n
      PROVE  /\ Len(SubSeq(trail, 1, i - 1)) = i - 1
             /\ Len(Without(trail, i)) = n - 1
             /\ Len(Renumbered(Without(trail, i))) = n - 1
  <2>1. \A j \in 1..n : trail[j] \in S BY <1>1
  <2>2. \A j \in 1..i - 1 : trail[j] \in S BY <2>1
  <2>3. \A j \in i + 1..n : trail[j] \in S BY <2>1
  <2>4. SubSeq(trail, 1, i - 1) \in Seq(S) /\ Len(SubSeq(trail, 1, i - 1)) = i - 1
    BY <2>2, SubSeqProperties
  <2>5. SubSeq(trail, i + 1, n) \in Seq(S) /\ Len(SubSeq(trail, i + 1, n)) = n - i
    BY <2>3, SubSeqProperties
  <2>6. Without(trail, i) = SubSeq(trail, 1, i - 1) \o SubSeq(trail, i + 1, n)
    BY <1>0 DEF Without, RemoveAt
  <2>7. Without(trail, i) \in Seq(S) /\ Len(Without(trail, i)) = n - 1
    BY <2>4, <2>5, <2>6, ConcatProperties
  <2>8. DOMAIN Without(trail, i) = 1..n - 1 BY <2>7, LenProperties
  <2>9. Len(Renumbered(Without(trail, i))) = n - 1
    <3> DEFINE w == Without(trail, i)
               R == {[w[j] EXCEPT !.seq = j] : j \in 1..n - 1}
    <3>1. Renumbered(w) = [j \in 1..n - 1 |-> [w[j] EXCEPT !.seq = j]] BY <2>8 DEF Renumbered
    <3>2. Renumbered(w) \in [1..n - 1 -> R] BY <3>1
    <3>3. n - 1 \in Nat OBVIOUS
    <3> HIDE DEF w, R
    <3>4. Renumbered(w) \in Seq(R) BY <3>2, <3>3, SeqDef
    <3>5. /\ DOMAIN Renumbered(w) = 1..n - 1
          /\ DOMAIN Renumbered(w) = 1..Len(Renumbered(w))
          /\ Len(Renumbered(w)) \in Nat
      BY <3>2, <3>4, LenProperties
    <3>6. Len(Renumbered(w)) = n - 1 BY <3>3, <3>5
    <3> QED BY <3>6 DEF w
  <2> QED BY <2>4, <2>7, <2>9
<1>4. ASSUME NEW i \in 1..n, NEW w, d = Altered(trail, i, w)
      PROVE  d = trail
  <2> DEFINE e == trail[i]
             x == [e EXCEPT !.what = w]
  <2>1. e = Event(e.seq, e.what, e.prev) BY <1>0 DEF TrailInv
  <2>2. DOMAIN d = 1..n /\ d[i] = x BY <1>1, <1>4 DEF Altered
  <2>3. x.hash = Hash(x.seq, x.what, x.prev) BY <2>2 DEF Verify, Linked
  <2>4. e.hash = Hash(e.seq, e.what, e.prev) BY <2>1 DEF Event
  <2> HIDE DEF e
  <2>5. x.hash = e.hash /\ x.seq = e.seq /\ x.what = w /\ x.prev = e.prev
    BY <2>1 DEF Event
  <2>6. w = e.what BY <2>3, <2>4, <2>5 DEF Hash
  <2>7. x = e BY <2>1, <2>6 DEF Event
  <2>8. d = [trail EXCEPT ![i] = x] BY <1>4 DEF e, Altered
  <2> QED BY <1>1, <2>7, <2>8 DEF e
<1>5. CASE \E i \in 1..n : d = Without(trail, i)
  <2>1. PICK i \in 1..n : d = Without(trail, i) BY <1>5
  <2> QED BY <1>2, <1>3, <2>1
<1>6. CASE \E i \in 1..n : d = Renumbered(Without(trail, i))
  <2>1. PICK i \in 1..n : d = Renumbered(Without(trail, i)) BY <1>6
  <2> QED BY <1>2, <1>3, <2>1
<1>7. CASE \E i \in 1..n : d = SubSeq(trail, 1, i - 1)
  <2>1. PICK i \in 1..n : d = SubSeq(trail, 1, i - 1) BY <1>7
  <2> QED BY <1>2, <1>3, <2>1
<1>8. CASE \E i \in 1..n : \E w : d = Altered(trail, i, w) BY <1>4, <1>8
<1> QED BY <1>0, <1>5, <1>6, <1>7, <1>8 DEF Damaged

\* The audit trail holds every stored call exactly once, no loss, renumbering,
\* cut or alteration of its rows verifies (Database._verify_snapshot), and every
\* published backup verifies and is a state the trail went through.
THEOREM TrailIsSound == ContextSpec => []TrailHolds
PROOF
<1>1. ContextSpec => []ContextInv
  BY ContextInit_Inv, ContextNext_Inv, PTL DEF ContextSpec
<1>2. ContextInv => TrailHolds
  <2> SUFFICES ASSUME ContextInv PROVE TrailHolds OBVIOUS
  <2>1. DamageIsNoticed BY DamageShows DEF ContextInv, TrailInv, DamageIsNoticed
  <2>2. BackupsVerify BY DEF ContextInv, BackupInv, IsCopy, BackupsVerify
  <2> QED BY <2>1, <2>2 DEF ContextInv, TrailHolds
<1> QED BY <1>1, <1>2, PTL
=============================================================================
