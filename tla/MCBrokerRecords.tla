--------------------------- MODULE MCBrokerRecords ---------------------------
(***************************************************************************)
(* What the broker records of calls that come more than once, and of two   *)
(* calls that meet: the approvals and budgets of the actions, and the      *)
(* context of the missions with its backups.  The properties of the one    *)
(* read no table of the other: a behaviour is of one of them, by part.     *)
(*                                                                         *)
(* For the actions: two threads, two requests and two decision ids.  For   *)
(* the context: two missions, one action and two request ids per table,    *)
(* enough for a call, its retry, another call under its id, and a second   *)
(* call.                                                                   *)
(***************************************************************************)
EXTENDS MCBrokerActions, MissionContext

VARIABLE part   \* what this behaviour is about

RecordsInit == part \in {"actions", "context"} /\ Init /\ ContextInit

RecordsNext ==
  \/ part = "actions" /\ Next /\ UNCHANGED <<part, contextVars>>
  \/ part = "context" /\ ContextNext /\ UNCHANGED <<part, vars>>

RecordsSpec == RecordsInit /\ [][RecordsNext]_<<part, vars, contextVars>>

\* Two pairs exchanged together: as a behaviour is of one part, the symmetry of
\* each part is kept and the group is no larger than that of the actions.
Together(A, B) ==
  {f \in Permutations(A \union B) :
     /\ \A a \in A : f[a] \in A
     /\ \A x, y \in A \union B : f[x] = x <=> f[y] = y}

RecordsSymmetry ==
  Together(Procs, MissionIds) \union Together(Requests, CallIds) \union Permutations(DecisionIds)
=============================================================================
