----------------------------- MODULE MemoryPolicy -----------------------------
(***************************************************************************)
(* Who may write what into the shared memory and who may read it: the      *)
(* checks of SecurityPolicy and MemoryService as operators.                *)
(*                                                                         *)
(* An actor is a record [projects, rank, roles, grants, caps, sources]; a  *)
(* memory [project, rank, roles, kind, current, matches], where matches    *)
(* says that the query shares a word with it.  A project stands for a      *)
(* project and an environment, which are compared alike; "*" is any.       *)
(***************************************************************************)
EXTENDS Integers, FiniteSetsExt

ReviewRequired == {"decision", "rule", "procedure"}
Durable == ReviewRequired \union {"information", "incident", "summary"}

PermitsScope(a, project, rank) == {project, "*"} \intersect a.projects # {} /\ rank <= a.rank

RecordVisible(a, m) == PermitsScope(a, m.project, m.rank) /\ m.roles \intersect a.roles # {}

\* authorize_ingest
MayIngest(a, q) ==
  /\ "write" \in a.caps
  /\ PermitsScope(a, q.project, q.rank)
  /\ q.roles \subseteq a.grants
  /\ q.source \in a.sources
  /\ q.reviewed => "review" \in a.caps

\* ingest, up to the catalogue.
IngestOutcome(a, q) ==
  CASE ~MayIngest(a, q) -> "denied"
    [] q.source = "openbao-secret" -> "invalid"
    [] q.kind \in {"noise", "conversation"} /\ ~q.promote -> "ignored"
    [] q.kind \in ReviewRequired /\ ~q.reviewed -> "invalid"
    [] q.source = "zulip" /\ q.kind \in Durable /\ ~q.promote -> "invalid"
    [] OTHER -> "stored"

-----------------------------------------------------------------------------
(* search                                                                  *)

MaySearch(a, q) == "read" \in a.caps /\ PermitsScope(a, q.project, q.rank)

InScope(q, m) == m.project = q.project /\ m.rank <= q.rank /\ (q.kinds # {} => m.kind \in q.kinds)

\* Qdrant filters by the payload of the point; the catalogue is asked again.
QdrantCandidates(a, q, ms) == {m \in ms : InScope(q, m) /\ m.current /\ RecordVisible(a, m)}

\* Without Qdrant the catalogue is scanned, for the roles of the actor.
FallbackCandidates(a, q, ms) ==
  {m \in ms : InScope(q, m) /\ m.current /\ m.matches /\ m.roles \intersect a.roles # {}}

Found(a, q, ms, degraded) ==
  IF ~MaySearch(a, q) THEN {}
  ELSE IF degraded THEN FallbackCandidates(a, q, ms) ELSE QdrantCandidates(a, q, ms)

-----------------------------------------------------------------------------
(* summarize                                                               *)

Scopes(ms) == {m.project : m \in ms}

CommonRoles(ms) == {r \in UNION {m.roles : m \in ms} : \A m \in ms : r \in m.roles}

MaySummarize(a, ms) ==
  /\ "summarize" \in a.caps
  /\ ms # {} /\ \A m \in ms : RecordVisible(a, m)
  /\ Cardinality(Scopes(ms)) = 1
  /\ CommonRoles(ms) \intersect a.grants # {}

\* The request that is handed to ingest.
Summary(a, ms) ==
  [project |-> CHOOSE p \in Scopes(ms) : TRUE, rank |-> Max({m.rank : m \in ms}),
   roles |-> CommonRoles(ms) \intersect a.grants, kind |-> "summary",
   source |-> "memory-consolidation", reviewed |-> TRUE, promote |-> TRUE]

Summarized(a, ms) == MaySummarize(a, ms) /\ IngestOutcome(a, Summary(a, ms)) = "stored"

-----------------------------------------------------------------------------
(* Properties, of actors a and b, a request q and memories ms              *)

\* A search, also the degraded one, which does not ask record_visible, finds
\* only current memories that a get would show.
SearchAgreesWithGet(a, q, ms) ==
  \A degraded \in BOOLEAN : \A m \in Found(a, q, ms, degraded) : m.current /\ RecordVisible(a, m)

\* Who can read a summary can read every memory it was made of.
SummaryKeepsAudience(a, b, ms) ==
  Summarized(a, ms) /\ RecordVisible(b, Summary(a, ms)) => \A m \in ms : RecordVisible(b, m)
=============================================================================
