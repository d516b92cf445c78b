------------------------------ MODULE RaftBackup ------------------------------
(***************************************************************************)
(* Backup of OpenBao (openbao_raft_backup.py): log in for a token of two   *)
(* uses, stream a snapshot through age, revoke the token, publish by a     *)
(* rename, remove old backups file by file.  The metric verifies the       *)
(* newest backup and publishes the gauge; the recovery bundle packages the *)
(* backup whose directory was modified last, and takes no lock.            *)
(*                                                                         *)
(* Backups are numbered in the order of their names, which are timestamps. *)
(***************************************************************************)
EXTENDS Integers, FiniteSetsExt

CONSTANTS
  RaftKeep,                  \* retention_count
  MaxRaft, MaxRaftFaults     \* bounds of the model

ASSUME RaftKeepAssumption == RaftKeep \in Nat \ {0} /\ MaxRaft \in Nat

VARIABLES
  raftDir,     \* the files of the published backups
  older,       \* <<b, c>>: directory b was modified before directory c
  raftRun,     \* the running backup
  raftRuns,    \* the runs so far
  uses,        \* the uses left of the token of each run
  raftGauge,   \* the text file of the metric
  bundling,    \* the running recovery bundle
  bundle,      \* the backup in the latest bundle, and the newest at its selection
  raftFaults

raftVars == <<raftDir, older, raftRun, raftRuns, uses, raftGauge, bundling, bundle, raftFaults>>

BundleIds == 1..MaxRaft
Whole == {"manifest.json", "snapshot.age", "snapshot.age.sha256"}
RaftIdle == [at |-> "idle"]
Published == DOMAIN raftDir
NewestRaft == IF Published = {} THEN 0 ELSE Max(Published)

RaftInit ==
  /\ raftDir = [b \in {} |-> {}] /\ older = {}
  /\ raftRun = RaftIdle /\ raftRuns = 0 /\ uses = [b \in BundleIds |-> 0]
  /\ raftGauge = [ok |-> FALSE, last |-> 0]
  /\ bundling = RaftIdle /\ bundle = [id |-> 0, newest |-> 0]
  /\ raftFaults = 0

-----------------------------------------------------------------------------
(* create_backup                                                           *)

RaftFault == raftFaults < MaxRaftFaults /\ raftFaults' = raftFaults + 1
Step(place) == raftRun' = [raftRun EXCEPT !.at = place]
ThisRaft == raftRun.id
Spend(n) == uses' = [uses EXCEPT ![ThisRaft] = n]

\* The directories but b, in the order of their modification.
Without(b) == {p \in older : p[1] # b /\ p[2] # b}
Touched(b) == Without(b) \union {<<c, b>> : c \in Published \ {b}}

RaftBegin ==
  /\ raftRun = RaftIdle /\ raftRuns < MaxRaft
  /\ raftRuns' = raftRuns + 1
  /\ raftRun' = [at |-> "login", id |-> raftRuns + 1, error |-> FALSE, files |-> {}, old |-> 0]
  /\ UNCHANGED <<raftDir, older, uses, raftGauge, bundling, bundle, raftFaults>>

\* _login: a token of any other shape is refused, and so is never revoked.
Login ==
  /\ raftRun.at = "login"
  /\ \/ Spend(2) /\ Step("stream") /\ UNCHANGED raftFaults
     \/ RaftFault /\ uses' \in {uses, [uses EXCEPT ![ThisRaft] = 2]} /\ Step("failed")
  /\ UNCHANGED <<raftDir, older, raftRuns, raftGauge, bundling, bundle>>

\* _stream_snapshot: the first use; an error is kept for after the revocation.
Stream ==
  /\ raftRun.at = "stream"
  /\ \/ /\ Spend(1) /\ UNCHANGED raftFaults
        /\ raftRun' = [raftRun EXCEPT !.at = "revoke", !.files = {"snapshot.age"}]
     \/ /\ RaftFault /\ uses' \in {uses, [uses EXCEPT ![ThisRaft] = 1]}
        /\ raftRun' = [raftRun EXCEPT !.at = "revoke", !.error = TRUE]
  /\ UNCHANGED <<raftDir, older, raftRuns, raftGauge, bundling, bundle>>

BundleRefused(unanswered) == raftRun.error \/ unanswered

\* revoke-self, whether the snapshot came or not.
Revoke ==
  /\ raftRun.at = "revoke"
  /\ \E unanswered \in BOOLEAN :
       /\ IF unanswered THEN RaftFault /\ uses' \in {uses, [uses EXCEPT ![ThisRaft] = 0]}
          ELSE Spend(0) /\ UNCHANGED raftFaults
       /\ Step(IF BundleRefused(unanswered) THEN "failed" ELSE "manifest")
  /\ UNCHANGED <<raftDir, older, raftRuns, raftGauge, bundling, bundle>>

\* The digest and then the manifest are written beside the snapshot.
WriteManifest ==
  /\ raftRun.at = "manifest"
  /\ raftRun' = [raftRun EXCEPT !.files = Whole, !.at = "publish"]
  /\ UNCHANGED <<raftDir, older, raftRuns, uses, raftGauge, bundling, bundle, raftFaults>>

\* The rename; the directory keeps the time of its last file.
RaftPublish ==
  /\ raftRun.at = "publish"
  /\ raftDir' = [b \in Published \union {ThisRaft} |->
                   IF b = ThisRaft THEN raftRun.files ELSE raftDir[b]]
  /\ older' = Touched(ThisRaft) /\ Step("retention")
  /\ UNCHANGED <<raftRuns, uses, raftGauge, bundling, bundle, raftFaults>>

BeyondKeep == {b \in Published : Cardinality({c \in Published : c > b}) >= RaftKeep}

\* _retention: the newest of those to remove first; _remove_backup refuses a
\* directory that is not whole, and that ends the run.
Retention ==
  /\ raftRun.at = "retention"
  /\ \/ BeyondKeep = {} /\ Step("done")
     \/ /\ BeyondKeep # {}
        /\ LET b == Max(BeyondKeep)
           IN IF raftDir[b] = Whole THEN raftRun' = [raftRun EXCEPT !.at = "unlink", !.old = b]
              ELSE Step("failed")
  /\ UNCHANGED <<raftDir, older, raftRuns, uses, raftGauge, bundling, bundle, raftFaults>>

\* sorted(expected)
UnlinkOrder == <<"manifest.json", "snapshot.age", "snapshot.age.sha256">>

\* One file, or the empty directory, at a time: each time it becomes the last modified.
Unlink ==
  /\ raftRun.at = "unlink"
  /\ LET b == raftRun.old IN
     \/ \E i \in DOMAIN UnlinkOrder :
          /\ UnlinkOrder[i] \in raftDir[b] /\ \A j \in 1..(i - 1) : UnlinkOrder[j] \notin raftDir[b]
          /\ raftDir' = [raftDir EXCEPT ![b] = @ \ {UnlinkOrder[i]}]
          /\ older' = Touched(b) /\ UNCHANGED raftRun
     \/ /\ raftDir[b] = {}
        /\ raftDir' = [c \in Published \ {b} |-> raftDir[c]]
        /\ older' = Without(b)
        /\ raftRun' = [raftRun EXCEPT !.at = "retention"]
  /\ UNCHANGED <<raftRuns, uses, raftGauge, bundling, bundle, raftFaults>>

\* A published backup stays; what is pending stays too, under a hidden name.
RaftKilled ==
  /\ raftRun.at \notin {"idle", "done", "failed"} /\ RaftFault
  /\ Step("failed")
  /\ UNCHANGED <<raftDir, older, raftRuns, uses, raftGauge, bundling, bundle>>

-----------------------------------------------------------------------------
(* openbao_backup_metric.py                                                *)

\* _latest_verified
LatestVerified == Published # {} /\ raftDir[NewestRaft] = Whole

\* OnSuccess and OnFailure; a success that cannot be verified changes nothing.
RaftTell ==
  /\ raftRun.at \in {"done", "failed"}
  /\ raftGauge' = IF raftRun.at = "failed" THEN [raftGauge EXCEPT !.ok = FALSE]
                  ELSE IF LatestVerified THEN [ok |-> TRUE, last |-> ThisRaft] ELSE raftGauge
  /\ raftRun' = RaftIdle
  /\ UNCHANGED <<raftDir, older, raftRuns, uses, bundling, bundle, raftFaults>>

-----------------------------------------------------------------------------
(* backup-recovery-bundle.py                                               *)

\* latest: the directory that was modified last.
Select ==
  /\ bundling = RaftIdle
  /\ \E b \in Published :
       /\ \A c \in Published \ {b} : <<c, b>> \in older
       /\ bundling' = [at |-> "check", id |-> b, newest |-> NewestRaft]
  /\ UNCHANGED <<raftDir, older, raftRun, raftRuns, uses, raftGauge, bundle, raftFaults>>

Bundled == {"manifest.json", "snapshot.age"}
Readable(b) == b \in Published /\ Bundled \subseteq raftDir[b]

\* sources examines the members, package opens them again later.
Collect ==
  /\ bundling.at \in {"check", "package"}
  /\ IF ~ Readable(bundling.id) THEN bundling' = RaftIdle /\ UNCHANGED bundle
     ELSE IF bundling.at = "check" THEN bundling' = [bundling EXCEPT !.at = "package"] /\ UNCHANGED bundle
     ELSE bundle' = [id |-> bundling.id, newest |-> bundling.newest] /\ bundling' = RaftIdle
  /\ UNCHANGED <<raftDir, older, raftRun, raftRuns, uses, raftGauge, raftFaults>>

RaftNext ==
  \/ RaftBegin \/ Login \/ Stream \/ Revoke \/ WriteManifest \/ RaftPublish \/ Retention \/ Unlink
  \/ RaftKilled \/ RaftTell \/ Select \/ Collect

RaftSpec == RaftInit /\ [][RaftNext]_raftVars

-----------------------------------------------------------------------------
(* Properties                                                              *)

\* "Publication is refused unless the two-use OpenBao token was revoked": no
\* published backup was read with a token that still has a use.
PublishedIsRevoked == \A b \in Published : uses[b] = 0

\* The newest RaftKeep backups are whole whatever was interrupted, and the
\* backup of the last reported success has not gone without a newer one.
RaftSuccessIsKept ==
  /\ \A b \in Published : Cardinality({c \in Published : c > b}) < RaftKeep => raftDir[b] = Whole
  /\ NewestRaft >= raftGauge.last

\* A reported success left no backup beyond the retention.
SuccessIsTidy == raftGauge.ok /\ raftRun = RaftIdle => Cardinality(Published) <= RaftKeep

\* The recovery bundle never passes an older backup for the newest one, although
\* removing the files of an old backup makes its directory the last modified:
\* the manifest is the first file to go.
BundleIsNewest == bundle.id = bundle.newest
=============================================================================
