---------------------------- MODULE SemanticIndex ----------------------------
(***************************************************************************)
(* Calls of the memory service to the paid providers: the embedding API,   *)
(* for a reindex (SemanticIndex.reindex) or for the query of a search      *)
(* (_embed), and the reranking API (_rerank).  A call is reserved in the   *)
(* catalogue within a daily budget, sent, and settled; a vector that was   *)
(* paid for is kept so that it need not be paid for again.  A step is one  *)
(* transaction or one request, and the clock may move between any two.     *)
(***************************************************************************)
EXTENDS Integers, Sequences, FiniteSets

CONSTANTS
  Clients,            \* threads of the service
  NoClient,           \* the lock is free
  Records,            \* memories to index, numbered
  Budget,             \* daily_call_budget
  MaxDay, MaxRequests, MaxDeaths   \* bounds of the model

ASSUME IndexAssumption ==
  NoClient \notin Clients /\ Records \subseteq Nat \ {0} /\ Budget \in Nat

VARIABLES
  today,          \* days of the clock
  providerCalls,  \* table provider_calls
  vectors,        \* table api_vectors: the memories it has a vector of
  mutex,          \* SemanticIndex.lock
  client,         \* what each thread is doing
  billed,         \* answers of the embedding API for each memory
  requests, deaths

indexVars == <<today, providerCalls, vectors, mutex, client, billed, requests, deaths>>

Free == [at |-> "free"]
Providers == {"embedding", "reranker"}

IndexInit ==
  /\ today = 0 /\ providerCalls = <<>> /\ vectors = {} /\ mutex = NoClient
  /\ client = [c \in Clients |-> Free]
  /\ billed = [r \in Records |-> 0]
  /\ requests = 0 /\ deaths = 0

Go(c, state) == client' = [client EXCEPT ![c] = state]

\* reindex_api: a batch of memories; the call waits for the lock.
ReindexApi(c, batch) ==
  /\ client[c] = Free /\ requests < MaxRequests /\ requests' = requests + 1
  /\ Go(c, [at |-> "lock", todo |-> batch])
  /\ UNCHANGED <<today, providerCalls, vectors, mutex, billed, deaths>>

Acquire(c) == client[c].at = "lock" /\ mutex = NoClient /\ mutex' = c

\* ensure_collection, once the lock is held; without Qdrant the call ends.
Enter(c) ==
  /\ Acquire(c)
  /\ Go(c, [at |-> "next", todo |-> client[c].todo])
  /\ UNCHANGED <<today, providerCalls, vectors, billed, requests, deaths>>

Release(c) == mutex' = IF mutex = c THEN NoClient ELSE mutex

Leave(c) == Release(c) /\ Go(c, Free)

NoCollection(c) ==
  /\ client[c].at = "lock" /\ mutex = NoClient
  /\ Go(c, Free)
  /\ UNCHANGED <<today, providerCalls, vectors, mutex, billed, requests, deaths>>

\* The next memory of the batch: its vector is in the cache, or is to be bought.
NextRecord(c) ==
  /\ client[c].at = "next"
  /\ LET todo == client[c].todo IN
     \/ todo = {} /\ Leave(c)
     \/ \E r \in todo :
          /\ Go(c, IF r \in vectors THEN [at |-> "upsert", todo |-> todo \ {r}]
                   ELSE [at |-> "reserve", for |-> r, todo |-> todo \ {r},
                         provider |-> "embedding", since |-> today])
          /\ UNCHANGED mutex
  /\ UNCHANGED <<today, providerCalls, vectors, billed, requests, deaths>>

\* _embed and _rerank for a search: 0 stands for the query.
Search(c, p) ==
  /\ client[c] = Free /\ requests < MaxRequests /\ requests' = requests + 1
  /\ p = "embedding" => vectors # {}
  /\ Go(c, [at |-> "reserve", for |-> 0, todo |-> {}, provider |-> p, since |-> today])
  /\ UNCHANGED <<today, providerCalls, vectors, mutex, billed, deaths>>

Made(p, since) ==
  {i \in DOMAIN providerCalls : /\ providerCalls[i].provider = p
                                /\ providerCalls[i].day >= since
                                /\ providerCalls[i].outcome # "budget_denied"}

\* Mutant: a call that is not settled does not count.
UsedSettled(p, since) ==
  Cardinality({i \in Made(p, since) : providerCalls[i].outcome # "reserved"})

Used(p, since) == Cardinality(Made(p, since))

\* reserve_provider_call.  The day was read before the transaction.
Reserve(c) ==
  LET w == client[c]
      granted == Budget > 0 /\ Used(w.provider, w.since) < Budget
      outcome == IF granted THEN "reserved" ELSE "budget_denied"
  IN
  /\ w.at = "reserve"
  /\ providerCalls' = Append(providerCalls, [day |-> today, provider |-> w.provider,
                                            outcome |-> outcome])
  /\ IF granted
     THEN /\ Go(c, [at |-> "embed", for |-> w.for, todo |-> w.todo, id |-> Len(providerCalls')])
          /\ UNCHANGED mutex
     ELSE Leave(c)
  /\ UNCHANGED <<today, vectors, billed, requests, deaths>>

\* The provider answers, or not.
Embed(c) ==
  /\ client[c].at = "embed"
  /\ billed' = [r \in Records |-> IF r = client[c].for THEN billed[r] + 1 ELSE billed[r]]
  /\ client' = [client EXCEPT ![c].at = "success"]
  /\ UNCHANGED <<today, providerCalls, vectors, mutex, requests, deaths>>

EmbedFails(c) ==
  /\ client[c].at = "embed"
  /\ client' = [client EXCEPT ![c].at = "failed"]
  /\ UNCHANGED <<today, providerCalls, vectors, mutex, billed, requests, deaths>>

\* complete_provider_call; a failed memory is left for a later batch.
Complete(c) ==
  /\ client[c].at \in {"success", "failed"}
  /\ providerCalls[client[c].id].outcome = "reserved"
  /\ providerCalls' = [providerCalls EXCEPT ![client[c].id].outcome = client[c].at]
  /\ \/ client[c].for = 0 /\ Go(c, Free)
     \/ client[c].for # 0 /\ client[c].at = "success" /\ client' = [client EXCEPT ![c].at = "cache"]
     \/ client[c].for # 0 /\ client[c].at = "failed" /\ Go(c, [at |-> "next", todo |-> client[c].todo])
  /\ UNCHANGED <<today, vectors, mutex, billed, requests, deaths>>

Cache(c) ==
  /\ client[c].at = "cache"
  /\ vectors' = vectors \union {client[c].for}
  /\ Go(c, [at |-> "upsert", todo |-> client[c].todo])
  /\ UNCHANGED <<today, providerCalls, mutex, billed, requests, deaths>>

\* Indexed, or pending: the batch goes on either way.
UpsertVector(c) ==
  /\ client[c].at = "upsert"
  /\ Go(c, [at |-> "next", todo |-> client[c].todo])
  /\ UNCHANGED <<today, providerCalls, vectors, mutex, billed, requests, deaths>>

Midnight ==
  /\ today < MaxDay /\ today' = today + 1
  /\ UNCHANGED <<providerCalls, vectors, mutex, client, billed, requests, deaths>>

\* The service dies: its reservations stay.
Die ==
  /\ deaths < MaxDeaths /\ deaths' = deaths + 1
  /\ \E c \in Clients : client[c] # Free
  /\ client' = [c \in Clients |-> Free] /\ mutex' = NoClient
  /\ UNCHANGED <<today, providerCalls, vectors, billed, requests>>

IndexNext ==
  \/ \E c \in Clients :
       \/ \E batch \in SUBSET Records \ {{}} : ReindexApi(c, batch)
       \/ \E p \in Providers : Search(c, p)
       \/ Enter(c) \/ NoCollection(c) \/ NextRecord(c) \/ Reserve(c) \/ Embed(c)
       \/ EmbedFails(c) \/ Complete(c) \/ Cache(c) \/ UpsertVector(c)
  \/ Midnight \/ Die

IndexSpec == IndexInit /\ [][IndexNext]_indexVars

-----------------------------------------------------------------------------
(* Properties                                                              *)

\* No day has more calls to a provider than its budget, sent, settled or lost,
\* whatever runs side by side and also for a call reserved around midnight.
DailyBudgetHolds ==
  \A d \in 0..today, p \in Providers :
    Cardinality({i \in Made(p, d) : providerCalls[i].day = d}) <= Budget

\* "Serialize reserve / cache / upsert so a concurrent retry cannot double
\* bill": a vector is paid for once, and once more only when the service died
\* between the answer and the cache.
BilledOnce == \A r \in Records : billed[r] <= 1 + deaths

\* Paid calls stay in the budget of their day, and none is paid twice.
PaidCallsHold == DailyBudgetHolds /\ BilledOnce
=============================================================================
