----------------------------- MODULE ActionGate -----------------------------
(***************************************************************************)
(* What the broker promises about an operational action, whatever the      *)
(* processes, crashes and clocks underneath: its helper is let through at  *)
(* most once, only after it was granted, and an action that needs a human  *)
(* is granted by an allowlisted person other than its requester.           *)
(* BrokerActions is shown to implement this specification.                 *)
(***************************************************************************)
CONSTANTS Requests,     \* request ids; the broker keeps one action per id
          Actors,       \* identities that may request an action
          Approvers,    \* humans allowed to decide
          Nobody        \* stands for "no actor"

VARIABLES phase,        \* phase[r]: how far the action of request r has come
          human,        \* human[r]: it needs a human decision (class C)
          owner,        \* owner[r]: who asked for it
          approver      \* approver[r]: who granted it, if a human did

gateVars == <<phase, human, owner, approver>>

GateInit ==
  /\ phase    = [r \in Requests |-> "none"]
  /\ human    = [r \in Requests |-> FALSE]
  /\ owner    = [r \in Requests |-> Nobody]
  /\ approver = [r \in Requests |-> Nobody]

\* An action is recorded: it waits for a human, or policy settles it at once.
Ask(r, o, h) ==
  /\ phase[r] = "none"
  /\ \E f \in (IF h THEN {"waiting"} ELSE {"granted", "closed"}) :
        phase' = [phase EXCEPT ![r] = f]
  /\ human' = [human EXCEPT ![r] = h]
  /\ owner' = [owner EXCEPT ![r] = o]
  /\ UNCHANGED approver

\* A person other than the requester grants a waiting action.
Grant(r, h) ==
  /\ phase[r] = "waiting"
  /\ h # owner[r]
  /\ phase' = [phase EXCEPT ![r] = "granted"]
  /\ approver' = [approver EXCEPT ![r] = h]
  /\ UNCHANGED <<human, owner>>

\* A refusal or an expiry ends an action that has not been let through.
Close(r) ==
  /\ phase[r] \in {"waiting", "granted"}
  /\ phase' = [phase EXCEPT ![r] = "closed"]
  /\ UNCHANGED <<human, owner, approver>>

\* The one time the action is let through.
Pass(r) ==
  /\ phase[r] = "granted"
  /\ phase' = [phase EXCEPT ![r] = "passed"]
  /\ UNCHANGED <<human, owner, approver>>

GateNext ==
  \E r \in Requests :
    \/ \E o \in Actors, h \in BOOLEAN : Ask(r, o, h)
    \/ \E h \in Approvers : Grant(r, h)
    \/ Close(r)
    \/ Pass(r)

GateSpec == GateInit /\ [][GateNext]_gateVars
=============================================================================
