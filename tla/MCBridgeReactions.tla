------------------------- MODULE MCBridgeReactions -------------------------
(***************************************************************************)
(* What the bridge makes of events that come late, twice or not at all:    *)
(* the reactions and the mobile commands of its event queue, and the       *)
(* alerts of its producer when any POST may arrive after the client gave   *)
(* it up.  A behaviour is about one of the three.                          *)
(***************************************************************************)
EXTENDS BridgeReactions, MobileCommands, BridgePublisher

AnyKey == Keys

VARIABLE part    \* what this behaviour is about

Order(by, verb, arg) == [by |-> by, verb |-> verb, arg |-> arg]

\* One command of every kind, a second title, a refused one and a stranger's, then
\* an answer, a question or nothing.
SomeOrders ==
  << {Order("approver", v, "a") : v \in Verbs \ {"chat"}}
       \cup {Order("approver", "mission", x) : x \in {"b", "denied"}}
       \cup {Order("stranger", "mission", "a")},
     {Order("approver", "repondre", "a"), Order("approver", "statut", "a")} >>

InReactions(A) == part = "reactions" /\ A /\ UNCHANGED <<part, mvars, vars>>
InCommands(A)  == part = "commands" /\ A /\ UNCHANGED <<part, reactionVars, vars>>
InAlerts(A)    == part = "alerts" /\ A /\ UNCHANGED <<part, reactionVars, mvars>>

all == <<part, reactionVars, mvars, vars>>

MCInit ==
  /\ part \in {"reactions", "commands", "alerts"}
  /\ ReactionsInit /\ MobileInit /\ Init
  /\ part # "commands" => mission = "open" /\ artifact = "good"

MCNext == InReactions(ReactionsNext) \/ InCommands(MobileNext) \/ InAlerts(Next)

\* The consumer thread goes on and systemd starts the bridge again; Zulip, people,
\* the mission and the artifacts are not fair.
MCSpec ==
  /\ MCInit /\ [][MCNext]_all
  /\ WF_all(InReactions(Consumer)) /\ WF_all(InCommands(Work))

\* The event queue is worked off again and again, its reactions and its commands:
\* EventsSettled and CommandsSettled.
EverythingSettled == EventsSettled /\ CommandsSettled
=============================================================================
