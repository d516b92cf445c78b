SPECIFICATION Spec
CONSTANTS
  Procs = {p1, p2}
  Workers = {w1, w2}
  Missions = {m1}
  Resources = {r1}
  Ids = {q1, q2, q3}
  Durations = {1, 2}
  Nobody = Nobody
  Idle = Idle
  MaxTime = 3
SYMMETRY QueueSymmetry
INVARIANTS
  QueueFollowsStatus
  ClaimExclusive
  LockExclusive
PROPERTIES
  TakeoverRaisesToken
