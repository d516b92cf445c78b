----------------------------- MODULE MemoryBackup -----------------------------
(***************************************************************************)
(* Backup of the shared memory (ops_memory_backup.py) while the service    *)
(* runs: the catalogue is copied, then a snapshot of the index is made,    *)
(* fetched and removed from Qdrant, and the directory is published by a    *)
(* rename, verified and pruned.  A restore test reads the latest backup    *)
(* without the lock.  systemd publishes the outcome of each as a gauge.    *)
(*                                                                         *)
(* Backups are numbered in the order of their names, which are timestamps. *)
(***************************************************************************)
EXTENDS Integers, Sequences, FiniteSetsExt

CONSTANTS
  Items,               \* memories
  Retain,              \* retention_count
  MaxBackups, MaxMishaps   \* bounds of the model

ASSUME RetainAssumption == Retain \in Nat \ {0} /\ MaxBackups \in Nat

VARIABLES
  catalogue,   \* the state of each memory in SQLite
  index,       \* the points in Qdrant
  disk,        \* the directory of the backups
  backup,      \* the running backup
  onServer,    \* snapshots that Qdrant keeps, by backup
  drill,       \* the running restore test
  gauge,       \* the text file of each job: its last success (not its last outcome)
  mishaps      \* how much was lost so far (answers, the process), and how much spoiled

backupVars == <<catalogue, index, disk, backup, onServer, drill, gauge, mishaps>>

Absent == [at |-> "absent"]
Quiet == [at |-> "quiet"]

BackupInit ==
  /\ catalogue = [i \in Items |-> "absent"] /\ index = {}
  /\ disk = [b \in 1..MaxBackups |-> Absent]
  /\ backup = Quiet /\ onServer = {} /\ drill = Quiet
  /\ gauge = [backup |-> 0, drill |-> 0]
  /\ mishaps = [lost |-> 0, spoiled |-> 0]

-----------------------------------------------------------------------------
(* The memory service meanwhile: the catalogue first, Qdrant next.         *)

Serve(i) ==
  /\ LET Becomes(old, new) == /\ catalogue[i] = old
                              /\ catalogue' = [catalogue EXCEPT ![i] = new] /\ UNCHANGED index
         Index(new) == index' = new /\ index' # index /\ UNCHANGED catalogue
     IN \/ Becomes("absent", "pending")
        \/ catalogue[i] = "pending" /\ Index(index \union {i})
        \/ i \in index /\ Becomes("pending", "indexed")
        \/ Becomes("indexed", "delete_pending")
        \/ catalogue[i] = "delete_pending" /\ Index(index \ {i})
        \/ i \notin index /\ Becomes("delete_pending", "deleted")
  /\ UNCHANGED <<disk, backup, onServer, drill, gauge, mishaps>>

-----------------------------------------------------------------------------
(* create_backup                                                           *)

Final == {b \in DOMAIN disk : disk[b].at = "final"}
AllFiles == {"sqlite", "snapshot", "manifest"}
Mishap(kind) ==
  /\ mishaps.lost + mishaps.spoiled < MaxMishaps
  /\ mishaps' = [mishaps EXCEPT ![kind] = @ + 1]
To(place) == backup' = [backup EXCEPT !.at = place]
This == backup.id
Put(field, v) == disk' = [disk EXCEPT ![This][field] = v]

\* Under the lock of the directory; the name is the time of the start.
Begin ==
  /\ backup = Quiet
  /\ \E b \in 1..MaxBackups :
       /\ disk[b] = Absent /\ \A c \in 1..(b - 1) : disk[c] # Absent
       /\ disk' = [disk EXCEPT ![b] = [at |-> "pending", copy |-> <<>>, snap |-> {}, points |-> 0,
                                      files |-> {}, whole |-> TRUE]]
       /\ backup' = [at |-> "sqlite", id |-> b]
  /\ UNCHANGED <<catalogue, index, onServer, drill, gauge, mishaps>>

\* _backup_sqlite: the online copy of the catalogue.
CopySqlite ==
  /\ backup.at = "sqlite"
  /\ disk' = [disk EXCEPT ![This].copy = catalogue, ![This].files = @ \union {"sqlite"}]
  /\ To("info")
  /\ UNCHANGED <<catalogue, index, onServer, drill, gauge, mishaps>>

\* collection_info: the points are counted by a request of its own.
CollectionInfo ==
  /\ backup.at = "info"
  /\ Put("points", Cardinality(index)) /\ To("snapshot")
  /\ UNCHANGED <<catalogue, index, onServer, drill, gauge, mishaps>>

\* create_snapshot: when the answer is lost, so is the name of the snapshot.
CreateSnapshot ==
  /\ backup.at = "snapshot"
  /\ \/ /\ Put("snap", index) /\ onServer' = onServer \union {This}
        /\ To("download") /\ UNCHANGED mishaps
     \/ /\ Mishap("lost") /\ onServer' \in {onServer, onServer \union {This}}
        /\ To("abort, unnamed") /\ UNCHANGED disk
  /\ UNCHANGED <<catalogue, index, drill, gauge>>

\* The checksum the server gave is compared; the snapshot is removed either way.
Download ==
  /\ backup.at = "download"
  /\ \/ /\ disk' = [disk EXCEPT ![This].files = @ \union {"snapshot"}]
        /\ To("cleanup") /\ UNCHANGED mishaps
     \/ Mishap("spoiled") /\ To("cleanup, failed") /\ UNCHANGED disk
  /\ UNCHANGED <<catalogue, index, onServer, drill, gauge>>

\* Either way, before the error goes on.
DeleteSnapshot ==
  /\ backup.at \in {"cleanup", "cleanup, failed"}
  /\ onServer' = onServer \ {This}
  /\ To(IF backup.at = "cleanup" THEN "manifest" ELSE "abort, unnamed")
  /\ UNCHANGED <<catalogue, index, disk, drill, gauge, mishaps>>

\* The answer says it was not removed, or is lost; it is tried again on the way out.
DeleteSnapshotFails ==
  /\ backup.at \in {"cleanup", "cleanup, failed"}
  /\ Mishap("lost") /\ onServer' \in {onServer, onServer \ {This}}
  /\ To("abort")
  /\ UNCHANGED <<catalogue, index, disk, drill, gauge>>

\* Mutant: the catalogue is copied after the index.
ManifestCopiesSqlite ==
  /\ backup.at = "manifest"
  /\ disk' = [disk EXCEPT ![This].files = @ \union {"manifest"}, ![This].copy = catalogue]
  /\ To("publish")
  /\ UNCHANGED <<catalogue, index, onServer, drill, gauge, mishaps>>

\* The storage may have damaged what was written; only verification can tell.
Manifest ==
  /\ backup.at = "manifest"
  /\ \E ok \in BOOLEAN :
       /\ disk' = [disk EXCEPT ![This].files = @ \union {"manifest"}, ![This].whole = ok]
       /\ IF ok THEN UNCHANGED mishaps ELSE Mishap("spoiled")
  /\ To("publish")
  /\ UNCHANGED <<catalogue, index, onServer, drill, gauge>>

Publish ==
  /\ backup.at = "publish"
  /\ Put("at", "final") /\ To("verify")
  /\ UNCHANGED <<catalogue, index, onServer, drill, gauge, mishaps>>

\* verify_backup
Verifies(b) == disk[b].at = "final" /\ disk[b].files = AllFiles /\ disk[b].whole

Verify ==
  /\ backup.at = "verify"
  /\ IF Verifies(This) THEN To("prune") /\ UNCHANGED disk
     ELSE Put("at", "invalid") /\ To("failed")
  /\ UNCHANGED <<catalogue, index, onServer, drill, gauge, mishaps>>

\* _prune: the oldest beside this one, renamed and then removed.
Others == Final \ {This}

Expired == IF Cardinality(Others) + 1 > Retain THEN {Min(Others)} ELSE {}

Prune ==
  /\ backup.at = "prune"
  /\ \/ \E b \in Expired : disk' = [disk EXCEPT ![b].at = "expired"] /\ To("remove")
     \/ Expired = {} /\ To("done") /\ UNCHANGED disk
  /\ UNCHANGED <<catalogue, index, onServer, drill, gauge, mishaps>>

RemoveExpired ==
  /\ backup.at = "remove"
  /\ disk' = [b \in DOMAIN disk |->
                IF disk[b].at = "expired" THEN [at |-> "removed"] ELSE disk[b]]
  /\ To("prune")
  /\ UNCHANGED <<catalogue, index, onServer, drill, gauge, mishaps>>

\* The finally clause: a second try at the snapshot, and the pending directory.
Abort ==
  /\ backup.at \in {"abort", "abort, unnamed"}
  /\ \/ backup.at = "abort" /\ onServer' = onServer \ {This} /\ UNCHANGED mishaps
     \/ backup.at = "abort" /\ This \in onServer /\ Mishap("lost") /\ UNCHANGED onServer
     \/ backup.at = "abort, unnamed" /\ UNCHANGED <<onServer, mishaps>>
  /\ disk' = [disk EXCEPT ![This] = [at |-> "removed"]]
  /\ To("failed")
  /\ UNCHANGED <<catalogue, index, drill, gauge>>

BackupKilled ==
  /\ backup # Quiet /\ backup.at \notin {"done", "failed"} /\ Mishap("lost")
  /\ To("failed")
  /\ UNCHANGED <<catalogue, index, disk, onServer, drill, gauge>>

-----------------------------------------------------------------------------
(* restore_test of the latest backup, and the gauges                       *)

StartDrill ==
  /\ drill = Quiet /\ Final # {}
  /\ drill' = [at |-> "selected", id |-> Max(Final)]
  /\ UNCHANGED <<catalogue, index, disk, backup, onServer, gauge, mishaps>>

\* verify_backup, before anything is copied.
DrillVerify ==
  /\ drill.at = "selected"
  /\ drill' = [drill EXCEPT !.at = IF Verifies(drill.id) THEN "verified" ELSE "failed"]
  /\ UNCHANGED <<catalogue, index, disk, backup, onServer, gauge, mishaps>>

\* The points of the uploaded snapshot are counted against the manifest; the
\* files may have gone since they were verified.
Restores(b) == disk[b].at = "final" /\ Cardinality(disk[b].snap) = disk[b].points

DrillRestore ==
  /\ drill.at = "verified"
  /\ \/ /\ drill' = [drill EXCEPT !.at = IF Restores(drill.id) THEN "done" ELSE "failed"]
        /\ UNCHANGED mishaps
     \/ Mishap("spoiled") /\ drill' = [drill EXCEPT !.at = "failed"]
  /\ UNCHANGED <<catalogue, index, disk, backup, onServer, gauge>>

Previous(last) == last

Content(last, j) == IF j.at = "done" THEN j.id ELSE Previous(last)

\* OnSuccess and OnFailure start the metric when the job has ended.
TellBackup ==
  /\ backup # Quiet /\ backup.at \in {"done", "failed"}
  /\ gauge' = [gauge EXCEPT !.backup = Content(@, backup)] /\ backup' = Quiet
  /\ UNCHANGED <<catalogue, index, disk, onServer, drill, mishaps>>

TellDrill ==
  /\ drill.at \in {"done", "failed"}
  /\ gauge' = [gauge EXCEPT !.drill = Content(@, drill)] /\ drill' = Quiet
  /\ UNCHANGED <<catalogue, index, disk, backup, onServer, mishaps>>

BackupNext ==
  \/ \E i \in Items : Serve(i)
  \/ Begin \/ CopySqlite \/ CollectionInfo \/ CreateSnapshot \/ Download \/ DeleteSnapshot
  \/ DeleteSnapshotFails \/ Manifest \/ Publish \/ Verify \/ Prune \/ RemoveExpired \/ Abort \/ BackupKilled
  \/ StartDrill \/ DrillVerify \/ DrillRestore \/ TellBackup \/ TellDrill

BackupSpec == BackupInit /\ [][BackupNext]_backupVars

-----------------------------------------------------------------------------
(* Properties                                                              *)

\* A directory with the name of a backup holds all of a backup, whatever was
\* interrupted: publication and expiry are renames.
PublishedIsComplete == \A b \in Final : disk[b].files = AllFiles

\* The backup of the last reported success is on disk and intact, or newer
\* backups have taken its place: no retention run, interrupted or not, leaves
\* the machine without what the gauge promises.
SuccessIsKept ==
  gauge.backup # 0 =>
    \E b \in Final : b >= gauge.backup /\ (b = gauge.backup => disk[b].whole)

\* The catalogue of a backup calls nothing indexed that its snapshot lacks,
\* unless the memory was given up while the backup ran: a restored service,
\* which indexes only what is pending or failed, finds all the others.
RestoredIsSearchable ==
  \A b \in Final : \A i \in Items :
    disk[b].copy[i] = "indexed" =>
      i \in disk[b].snap \/ catalogue[i] \in {"delete_pending", "deleted"}

\* No snapshot is left in Qdrant by a run that was neither killed nor refused
\* an answer by Qdrant: a download that fails cleans up behind it.
SnapshotsAreRemoved == backup = Quiet => Cardinality(onServer) <= mishaps.lost
=============================================================================
