------------------------------ MODULE AuditChain ------------------------------
(***************************************************************************)
(* The two hash chains of the platform.  The broker's log (database.py)    *)
(* keeps, beside the events, a head with the number of the last event and  *)
(* its hash; the orchestrator's model trace (trace.py) is a chain per      *)
(* mission without a head.                                                 *)
(*                                                                         *)
(* An event is [seq, what, prev, hash].  The hash is SHA-256 over the      *)
(* canonical JSON of the other fields; here it is those fields themselves, *)
(* an injective function: the properties assume that no collision is met.  *)
(***************************************************************************)
EXTENDS Integers, SequencesExt

Genesis == <<>>
Hash(seq, what, prev) == <<seq, what, prev>>
EmptyHead == [seq |-> 0, hash |-> Genesis]

LastHash(chain) == IF chain = <<>> THEN Genesis ELSE Last(chain).hash

Event(seq, what, prev) ==
  [seq |-> seq, what |-> what, prev |-> prev, hash |-> Hash(seq, what, prev)]

-----------------------------------------------------------------------------
(* Database.append_event and _verify_snapshot: the broker's log            *)

\* The log and its head once an entry is appended.
AppendEvent(log, head, what) ==
  LET event == Event(head.seq + 1, what, head.hash)
  IN  [log  |-> Append(log, event),
       head |-> [seq |-> event.seq, hash |-> event.hash]]

Linked(chain) ==
  \A i \in DOMAIN chain :
    /\ chain[i].prev = LastHash(SubSeq(chain, 1, i - 1))
    /\ chain[i].hash = Hash(chain[i].seq, chain[i].what, chain[i].prev)

Verify(log, head) ==
  /\ \A i \in DOMAIN log : log[i].seq = i
  /\ Linked(log)
  /\ head = [seq |-> Len(log), hash |-> LastHash(log)]

-----------------------------------------------------------------------------
(* ModelTrace.append and verify: the orchestrator's trace of a mission     *)

TraceAppend(trace, what) ==
  LET seq == IF trace = <<>> THEN 1 ELSE Last(trace).seq + 1
  IN  Append(trace, Event(seq, what, LastHash(trace)))

TraceVerify(trace) == Linked(trace)

-----------------------------------------------------------------------------
(* What a fault of the storage, or a hand that edits the table, may leave  *)
(* of a chain: a row lost, lost with the later rows renumbered, the rows   *)
(* from one on lost, or a row whose content is another one's.              *)
Without(chain, i) == RemoveAt(chain, i)
Altered(chain, i, what) == [chain EXCEPT ![i].what = what]
Renumbered(chain) == [i \in DOMAIN chain |-> [chain[i] EXCEPT !.seq = i]]

Damaged(chain, Contents) ==
  {Without(chain, i) : i \in DOMAIN chain}
    \union {Renumbered(Without(chain, i)) : i \in DOMAIN chain}
    \union {SubSeq(chain, 1, i - 1) : i \in DOMAIN chain}
    \union {Altered(chain, i, w) : i \in DOMAIN chain, w \in Contents}
=============================================================================
