------------------------------- MODULE MCMemory -------------------------------
(***************************************************************************)
(* The memory service, its collector and the two backup jobs beside it.    *)
(* The five modules share no state; a behaviour is one of the store, of    *)
(* the paid index, of the collector, of the backup of the memory or of the *)
(* backup of the secrets, by the choice of part.                           *)
(***************************************************************************)
EXTENDS MemoryStore, SemanticIndex, MemorySync, MemoryBackup, RaftBackup

VARIABLE part

MCActors == {[roles |-> {"r1", "r2"}, rank |-> 1, grants |-> {"r1", "r2"}, declassify |-> FALSE]}
MCDrafts == {[key |-> "k1", rank |-> 1, roles |-> {"r1"}, ttl |-> FALSE],
             [key |-> "k1", rank |-> 1, roles |-> {"r1", "r2"}, ttl |-> TRUE]}
MCUnusable == {<<"record", 3>>, <<"mission", 2>>}
MCPrivate == {<<"record", 2>>, <<"mission", 3>>}
MCSeeds == {[key |-> "k1", rank |-> 1, roles |-> {"r1"}, ttl |-> FALSE]}

Init ==
  /\ part \in {"store", "index", "sync", "backup", "raft"}
  /\ StoreInit /\ IndexInit /\ SyncInit /\ BackupInit /\ RaftInit
  /\ part # "sync" => kept = <<>>

jobVars == <<backupVars, raftVars>>

InStore(A) == part = "store" /\ A /\ UNCHANGED <<part, indexVars, syncVars, jobVars>>
InIndex(A) == part = "index" /\ A /\ UNCHANGED <<part, storeVars, syncVars, jobVars>>
InSync(A) == part = "sync" /\ A /\ UNCHANGED <<part, storeVars, indexVars, jobVars>>
InBackup(A) ==
  part = "backup" /\ A /\ UNCHANGED <<part, storeVars, indexVars, syncVars, raftVars>>
InRaft(A) ==
  part = "raft" /\ A /\ UNCHANGED <<part, storeVars, indexVars, syncVars, backupVars>>

Next ==
  \/ InStore(StoreNext) \/ InIndex(IndexNext) \/ InSync(SyncNext)
  \/ InBackup(BackupNext) \/ InRaft(RaftNext)

vars == <<part, storeVars, indexVars, syncVars, jobVars>>

\* StoreFairness and the fairness of SyncSpec, each in its part.
Fairness ==
  /\ WF_vars(InStore(MaintenanceSteps))
  /\ WF_vars(InStore(Erase(Maintainer)))
  /\ SF_vars(InStore(ListDeletions))
  /\ SF_vars(InStore(Upsert(Maintainer)))
  /\ WF_vars(InSync(Steps))

Spec == Init /\ [][Next]_vars /\ Fairness

\* A backup of the memory holds all it needs to be restored, and what the gauge
\* calls a success is still there, whatever was lost or killed; a backup of the
\* secrets is published after its token was revoked, is kept whole as long as it
\* is to be kept, and no bundle passes an older one for the newest.
BackupsHold ==
  /\ PublishedIsComplete /\ SuccessIsKept /\ RestoredIsSearchable /\ SnapshotsAreRemoved
  /\ PublishedIsRevoked /\ RaftSuccessIsKept /\ SuccessIsTidy /\ BundleIsNewest

\* The maintenance indexes every current memory in the end, and the collector
\* captures every record that is neither refused for good nor behind a refusal.
MemorySettles == EventuallyIndexed /\ EveryRecordCaptured
=============================================================================
