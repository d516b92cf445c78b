-------------------------- MODULE BridgePublisher --------------------------
(***************************************************************************)
(* The producers of the Zulip bridge: the durable publisher publish_once   *)
(* and the loop that feeds it with pending approvals, Alertmanager alerts  *)
(* and daily reports (publishers.py, runtime.py, state.py).                *)
(*                                                                         *)
(* The bridge process has one producer thread.  A step is one transaction  *)
(* of its SQLite state or one request to a remote service; the process may *)
(* die and a request may fail between any two steps.  Zulip and            *)
(* Alertmanager are external: a POST creates a message each time it        *)
(* arrives, whether or not its answer comes back, and the search sees the  *)
(* messages that have arrived.                                             *)
(*                                                                         *)
(* The text of a message is left out; its marker is the key itself.        *)
(***************************************************************************)
EXTENDS Naturals

CONSTANTS Fingerprints,  \* alerts, identified by their labels
          Approvals,     \* ids of actions that wait for a person
          Reports,       \* digests of daily reports
          Nothing,       \* no publication in progress
          Late,          \* keys whose POST may arrive after the client gave up on it or died
          MaxEpisode,    \* bound: episodes of one alert
          MaxFailures    \* bound: failed requests and deaths of the process

ASSUME ConstantsAssumption ==
  /\ MaxEpisode \in Nat
  /\ MaxFailures \in Nat

VARIABLES firing,    \* Alertmanager: current episode of an alert, 0 if none
          last,      \* Alertmanager: latest episode of an alert
          posted,    \* Zulip: messages that arrived
          lastId,    \* Zulip: latest message id
          inflight,  \* POSTs given up by the client that may still arrive
          pubs,      \* publications table
          alerts,    \* alert_state table; episode 0 when there is no row
          failures,  \* failures so far
          pc,        \* where the producer thread stands
          stage,     \* which publisher it is running
          todo,      \* approvals or reports still to publish in this stage
          seen,      \* snapshot of active alerts
          key,       \* the publication in progress
          msg        \* its message id, once known

external == <<firing, last>>
zulip    == <<posted, lastId, inflight>>
local    == <<stage, todo, seen, key, msg>>
vars     == <<external, zulip, pubs, alerts, failures, pc, local>>

\* Publication keys.  The firing and the resolution of an episode are keyed by
\* fingerprint and episode, an approval by its action, a report by its digest.
Firing(f, e)   == [kind |-> "alert_firing", of |-> f, episode |-> e]
Resolved(f, e) == [kind |-> "alert_resolved", of |-> f, episode |-> e]
Document(k, o) == [kind |-> k, of |-> o, episode |-> 0]

Episodes == 1 .. MaxEpisode

Keys == {Firing(f, e) : f \in Fingerprints, e \in Episodes}
          \cup {Resolved(f, e) : f \in Fingerprints, e \in Episodes}
          \cup {Document("approval", o) : o \in Approvals}
          \cup {Document("daily", o) : o \in Reports}

Stages == {"approvals", "alerts", "daily"}
Sites  == {"down", "poll", "loop", "begin", "search", "send", "mark", "save"}

Unpublished == [status |-> "none", message |-> 0]
Intent      == [status |-> "intent", message |-> 0]
NoAlert     == [episode |-> 0, active |-> FALSE]
NoSnapshot  == [f \in Fingerprints |-> 0]

Init ==
  /\ firing = [f \in Fingerprints |-> 0]
  /\ last   = [f \in Fingerprints |-> 0]
  /\ posted = {} /\ lastId = 0 /\ inflight = {}
  /\ pubs   = [k \in Keys |-> Unpublished]
  /\ alerts = [f \in Fingerprints |-> NoAlert]
  /\ failures = 0
  /\ pc = "down" /\ stage = "approvals" /\ todo = {} /\ seen = NoSnapshot
  /\ key = Nothing /\ msg = 0

-----------------------------------------------------------------------------
(* Alertmanager and Zulip (external)                                       *)

\* A new episode; startsAt tells it from the earlier ones.
StartAlert(f) ==
  /\ firing[f] = 0 /\ last[f] < MaxEpisode
  /\ firing' = [firing EXCEPT ![f] = last[f] + 1]
  /\ last' = [last EXCEPT ![f] = last[f] + 1]
  /\ UNCHANGED <<zulip, pubs, alerts, failures, pc, local>>

EndAlert(f) ==
  /\ firing[f] # 0
  /\ firing' = [firing EXCEPT ![f] = 0]
  /\ UNCHANGED <<last, zulip, pubs, alerts, failures, pc, local>>

\* An alert that was missing for a while comes back with the same startsAt.
Reappear(f) ==
  /\ firing[f] = 0 /\ last[f] # 0
  /\ firing' = [firing EXCEPT ![f] = last[f]]
  /\ UNCHANGED <<last, zulip, pubs, alerts, failures, pc, local>>

\* Zulip creates a message with the next id.
Post(k) ==
  /\ posted' = posted \cup {[id |-> lastId + 1, key |-> k]}
  /\ lastId' = lastId + 1

\* A POST the client gave up arrives after all.
Arrive(k) ==
  /\ k \in inflight
  /\ inflight' = inflight \ {k}
  /\ Post(k)
  /\ UNCHANGED <<external, pubs, alerts, failures, pc, local>>

\* find_own_marker: the messages of the bot that carry the marker of k.
Matches(k) == {m \in posted : m.key = k}

-----------------------------------------------------------------------------
(* Failures                                                                *)

NextStage == [approvals |-> "alerts", alerts |-> "daily", daily |-> "approvals"]

\* A retryable error ends the publisher that met it; the loop goes on with the
\* next one.
GiveUp ==
  /\ pc' = "poll"
  /\ stage' = NextStage[stage]
  /\ todo' = {} /\ key' = Nothing /\ msg' = 0
  /\ UNCHANGED seen

MayFail == failures < MaxFailures /\ failures' = failures + 1

\* A request without an answer.  For the POST this tells nothing: it was refused or
\* lost, it arrived and its answer was lost, or it is still on its way.
Unanswered ==
  \/ UNCHANGED zulip
  \/ pc = "send" /\ Post(key) /\ UNCHANGED inflight
  \/ pc = "send" /\ key \in Late /\ inflight' = inflight \cup {key}
     /\ UNCHANGED <<posted, lastId>>

\* The process dies, of itself or on a permanent rejection by a service, maybe in
\* the middle of a request.
Crash ==
  /\ pc # "down"
  /\ MayFail
  /\ Unanswered
  /\ pc' = "down" /\ stage' = "approvals" /\ todo' = {} /\ seen' = NoSnapshot
  /\ key' = Nothing /\ msg' = 0
  /\ UNCHANGED <<external, pubs, alerts>>

Restart ==
  /\ pc = "down"
  /\ pc' = "poll"
  /\ UNCHANGED <<external, zulip, pubs, alerts, failures, local>>

-----------------------------------------------------------------------------
(* publish_once                                                            *)

\* Mutant: an existing intent is sent again without a search.
BlindResend(k) ==
  CASE pubs[k].status = "none"      -> "send"
    [] pubs[k].status = "intent"    -> "send"
    [] pubs[k].status = "published" -> "save"

\* Mutant: an existing intent passes for a publication.
IntentTrusted(k) == IF pubs[k].status = "none" THEN "send" ELSE "save"

\* A new intent is sent at once, an earlier one is reconciled first.
AfterBegin(k) ==
  CASE pubs[k].status = "none"      -> "send"
    [] pubs[k].status = "intent"    -> "search"
    [] pubs[k].status = "published" -> "save"

BeginPublication ==
  /\ pc = "begin"
  /\ pc' = AfterBegin(key)
  /\ pubs' = IF pubs[key] = Unpublished THEN [pubs EXCEPT ![key] = Intent] ELSE pubs
  /\ UNCHANGED <<external, zulip, alerts, failures, local>>

\* Nothing found: send.  One message: it is ours.  Several: an error.
Search ==
  /\ pc = "search"
  /\ \/ Matches(key) = {} /\ pc' = "send" /\ UNCHANGED <<stage, todo, seen, key, msg>>
     \/ \E m \in Matches(key) :
          /\ Matches(key) = {m}
          /\ pc' = "mark" /\ msg' = m.id
          /\ UNCHANGED <<stage, todo, seen, key>>
     \/ \E m, n \in Matches(key) : m # n /\ GiveUp
  /\ UNCHANGED <<external, zulip, pubs, alerts, failures>>

\* The answer to the POST comes back.
Send ==
  /\ pc = "send"
  /\ Post(key)
  /\ pc' = "mark" /\ msg' = lastId + 1
  /\ UNCHANGED <<external, inflight, pubs, alerts, failures, stage, todo, seen, key>>

\* A request fails.
RequestFails ==
  /\ pc \in {"search", "send"}
  /\ MayFail
  /\ Unanswered
  /\ GiveUp
  /\ UNCHANGED <<external, pubs, alerts>>

IdStored(m) == m

MarkPublished ==
  /\ pc = "mark"
  /\ pubs' = [pubs EXCEPT ![key] = [status |-> "published", message |-> IdStored(msg)]]
  /\ pc' = "save"
  /\ UNCHANGED <<external, zulip, alerts, failures, local>>

-----------------------------------------------------------------------------
(* The publishers                                                          *)

OfKind(k) == {d \in Keys : d.kind = k}

\* The pending approvals of the broker.  Their pages are read as one, and those
\* whose deadline has passed are left out: any set may come out.
PollApprovals ==
  /\ pc = "poll" /\ stage = "approvals"
  /\ todo' \in SUBSET OfKind("approval")
  /\ pc' = "loop"
  /\ UNCHANGED <<external, zulip, pubs, alerts, failures, stage, seen, key, msg>>

\* The report of the day, if there is one and it is recent.
PollReport ==
  /\ pc = "poll" /\ stage = "daily"
  /\ todo' \in {{}} \cup {{d} : d \in OfKind("daily")}
  /\ pc' = "loop"
  /\ UNCHANGED <<external, zulip, pubs, alerts, failures, stage, seen, key, msg>>

PollDocuments == PollApprovals \/ PollReport

\* A snapshot of the active alerts.
PollAlerts ==
  /\ pc = "poll" /\ stage = "alerts"
  /\ seen' = firing
  /\ pc' = "loop"
  /\ UNCHANGED <<external, zulip, pubs, alerts, failures, stage, todo, key, msg>>

\* A poll that fails or returns nonsense publishes nothing.
PollFails ==
  /\ pc = "poll"
  /\ MayFail
  /\ stage' = NextStage[stage]
  /\ UNCHANGED <<external, zulip, pubs, alerts, pc, todo, seen, key, msg>>

\* What the alert loop has to publish next.  Alerts of the snapshot come first:
\* an earlier episode is resolved, then the current one is announced.
Superseded == {f \in Fingerprints : /\ seen[f] # 0 /\ alerts[f].active
                                    /\ alerts[f].episode # seen[f]}
New == {f \in Fingerprints : seen[f] # 0 /\ ~alerts[f].active}

\* Mutant: alerts missing from the snapshot are left alone.
NoneGone == {}

\* Then stored alerts that are missing from the snapshot are resolved.
Gone == {f \in Fingerprints : seen[f] = 0 /\ alerts[f].active}

NextKeys ==
  IF stage # "alerts" THEN todo
  ELSE IF Superseded \cup New # {}
       THEN {Resolved(f, alerts[f].episode) : f \in Superseded}
              \cup {Firing(f, seen[f]) : f \in New}
       ELSE {Resolved(f, alerts[f].episode) : f \in Gone}

Publish(k) ==
  /\ pc = "loop"
  /\ k \in NextKeys
  /\ key' = k
  /\ pc' = "begin"
  /\ UNCHANGED <<external, zulip, pubs, alerts, failures, stage, todo, seen, msg>>

\* publish_once returned: the alert state is saved, or the document is done.
Save ==
  /\ pc = "save"
  /\ CASE key.kind = "alert_firing" ->
            alerts' = [alerts EXCEPT ![key.of] = [episode |-> key.episode, active |-> TRUE]]
       [] key.kind = "alert_resolved" ->
            alerts' = [alerts EXCEPT ![key.of] = [episode |-> key.episode, active |-> FALSE]]
       [] key.kind \in {"approval", "daily"} -> UNCHANGED alerts
  /\ todo' = todo \ {key}
  /\ key' = Nothing /\ msg' = 0
  /\ pc' = "loop"
  /\ UNCHANGED <<external, zulip, pubs, failures, stage, seen>>

EndStage ==
  /\ pc = "loop"
  /\ NextKeys = {}
  /\ pc' = "poll"
  /\ stage' = NextStage[stage]
  /\ UNCHANGED <<external, zulip, pubs, alerts, failures, todo, seen, key, msg>>

-----------------------------------------------------------------------------
Producer ==
  \/ Restart \/ PollDocuments \/ PollAlerts \/ EndStage
  \/ \E k \in Keys : Publish(k)
  \/ BeginPublication \/ Search \/ Send \/ MarkPublished \/ Save

Failure == Crash \/ RequestFails \/ PollFails

Environment ==
  \/ \E f \in Fingerprints : StartAlert(f) \/ EndAlert(f) \/ Reappear(f)
  \/ \E k \in Keys : Arrive(k)

Next == Producer \/ Failure \/ Environment

Spec == Init /\ [][Next]_vars

\* The producer thread goes on, and systemd starts the bridge again after it
\* died.  Failures are finitely many; nothing else is assumed.
FairSpec == Spec /\ WF_vars(Producer)

-----------------------------------------------------------------------------
(* Properties                                                              *)

\* Type invariant, with the CHECK of the publications table: a row is published
\* if and only if it has a positive message id.
TypeOK ==
  /\ firing \in [Fingerprints -> 0 .. MaxEpisode]
  /\ last \in [Fingerprints -> 0 .. MaxEpisode]
  /\ lastId \in Nat
  /\ posted \subseteq [id : Nat \ {0}, key : Keys]
  /\ inflight \subseteq Keys
  /\ pubs \in [Keys -> [status : {"published"}, message : Nat \ {0}]
                         \cup {Unpublished, Intent}]
  /\ alerts \in [Fingerprints -> [episode : 0 .. MaxEpisode, active : BOOLEAN]]
  /\ failures \in Nat
  /\ pc \in Sites /\ stage \in Stages
  /\ todo \subseteq Keys
  /\ seen \in [Fingerprints -> 0 .. MaxEpisode]
  /\ key \in Keys \cup {Nothing}
  /\ msg \in Nat

\* publish_once recovers exactly once: whatever is lost and wherever the process
\* dies, Zulip holds at most one message per marker, and what the table calls
\* published is that message.  Only a marker whose POST arrives after the search
\* has found nothing is posted again, beside its repetition; late posts of other
\* markers do no harm.
ExactlyOnce ==
  /\ \A m, n \in posted : m.key = n.key /\ m.key \notin Late => m = n
  /\ \A k \in Keys : pubs[k].status = "published" =>
                       [id |-> pubs[k].message, key |-> k] \in posted

\* The resolution of an episode is never on Zulip without its announcement
\* (AlertPublisher.poll_once publishes before it saves).
AnnouncedBeforeResolved ==
  \A m \in posted : m.key.kind = "alert_resolved" =>
    \E n \in posted : n.key = Firing(m.key.of, m.key.episode)

OnZulip(k) == \E m \in posted : m.key = k

\* An alert that goes on firing is announced in the end.
FiringIsAnnounced ==
  \A f \in Fingerprints, e \in Episodes :
    <>[](firing[f] = e) => <>OnZulip(Firing(f, e))

\* An episode that was recorded as active and is over for good is resolved on
\* Zulip in the end, superseded or not, whatever fails in between.
RecordedIsResolved ==
  \A f \in Fingerprints, e \in Episodes :
    <>[](firing[f] # e) =>
      ((alerts[f] = [episode |-> e, active |-> TRUE]) ~> OnZulip(Resolved(f, e)))

\* AlertPublisher brings every alert to Zulip that lasts, and its end.
AlertsReachZulip == FiringIsAnnounced /\ RecordedIsResolved
=============================================================================
