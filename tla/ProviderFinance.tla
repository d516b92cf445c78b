---------------------------- MODULE ProviderFinance ----------------------------
(***************************************************************************)
(* The balances of the provider accounts.  Threads of the orchestrator ask *)
(* a worker, a process with credentials of its own, for the balance of one *)
(* account or of all; the worker asks the providers one after the other,   *)
(* under a lock that it does not wait for; the orchestrator checks the     *)
(* whole answer and then stores it result by result.  Both processes read  *)
(* the registry of providers when they start, and it may be edited.        *)
(*                                                                         *)
(* A registry is [revision, mode], mode the way to each account's balance. *)
(* A result is [account, revision, mode, status, balance, sight]: balance  *)
(* is [schema, amount], and sight numbers the snapshots of the worker (0   *)
(* for a result without one: snapshot_id is null).  Amounts are told apart *)
(* as the three checks do: "plain"; "limit", 10^15 itself; "minus zero";   *)
(* what is negative or larger is malformed.  An "uncaught" answer makes    *)
(* the worker's HTTP client or JSON reader raise what nobody expects.      *)
(***************************************************************************)
EXTENDS Integers, Sequences, FiniteSets, SequencesExt

CONSTANTS Callers,           \* threads of the orchestrator
          Order,             \* REVIEWED_PROVIDER_IDS
          Parsers,           \* accounts with a reviewed endpoint and parser
          FinanceRegistries,        \* what the registry may say
          Replies,           \* what a provider may answer
          Capacity,          \* MAX_FINANCE_SNAPSHOTS_PER_ACCOUNT
          MaxRefreshes, MaxFaults   \* bounds of the model

\* The answers that _refresh_one_locked tells apart, and those it does not catch.
ASSUME FinanceAssumption ==
  /\ Replies \subseteq {"no credential", "error", "malformed", "plain", "limit", "minus zero",
                         "uncaught"}
  /\ Order \in Seq(ToSet(Order)) /\ Capacity \in Nat

VARIABLES file,              \* the registry on disk
          keeper,            \* the orchestrator: the registry it has read
          worker,            \* the worker: its registry and the job under its lock
          refreshes,         \* refresh_provider_finance, per thread
          table,             \* provider_finance_snapshots, by captured_at
          asks, sights, faults

financeVars == <<file, keeper, worker, refreshes, table, asks, sights, faults>>

NotRunning == [revision |-> 0]
NoJob      == [caller |-> "none"]
NoBalance  == [schema |-> "none", amount |-> "none"]
Quiet      == [at |-> "idle", asked |-> "none"]

FinanceInit ==
  /\ file \in FinanceRegistries
  /\ keeper = NotRunning /\ worker = [registry |-> NotRunning, job |-> NoJob]
  /\ refreshes = [c \in Callers |-> Quiet]
  /\ table = <<>> /\ asks = 0 /\ sights = 0 /\ faults = 0

-----------------------------------------------------------------------------
(* load_provider_integrations: an account is [inference, admin, access,    *)
(* endpoints, discovery], the first two references to credentials          *)
(* [prefix, name], access the way to each financial capability, and an     *)
(* endpoint [capabilities, access, scope]                                  *)

NoReference == [prefix |-> "none", name |-> "none"]

\* _credential
CredentialAccepted(reference, inference) ==
  IF reference = NoReference THEN ~ inference
  ELSE reference.prefix = IF inference THEN "llm" ELSE "llm-admin"

ScopeOf(access) == IF access = "direct_api" THEN "inference" ELSE "admin_finance"

EndpointAccepted(account, e) ==
  /\ e.capabilities # {} /\ e.access \in {"direct_api", "admin_api", "cloud_billing_api"}
  /\ \A capability \in e.capabilities : account.access[capability] = e.access
  /\ e.scope = ScopeOf(e.access)

DirectCapabilities(account) ==
  {capability \in DOMAIN account.access : account.access[capability] = "direct_api"}

AccountAccepted(account) ==
  /\ CredentialAccepted(account.inference, TRUE) /\ CredentialAccepted(account.admin, FALSE)
  /\ account.discovery = "admin_finance" => account.admin # NoReference
  /\ (\E capability \in DOMAIN account.access :
        account.access[capability] \in {"admin_api", "cloud_billing_api"})
       => account.admin # NoReference
  /\ \A e \in account.endpoints : EndpointAccepted(account, e)
  /\ UNION {e.capabilities : e \in {f \in account.endpoints : f.access = "direct_api"}}
       = DirectCapabilities(account)

\* The accounts in their order, each compared with those before it.
RegistryAccepted(accounts) ==
  \A i \in DOMAIN accounts :
    /\ AccountAccepted(accounts[i])
    /\ accounts[i].admin # accounts[i].inference
    /\ \A j \in 1 .. i - 1 :
         /\ accounts[j].inference # accounts[i].inference
         /\ accounts[j].admin = accounts[i].admin => accounts[i].admin = NoReference

\* The references of all accounts, with what each is for.
Uses(accounts) ==
  ({<<i, "inference", accounts[i].inference>> : i \in DOMAIN accounts}
     \union {<<i, "admin_finance", accounts[i].admin>> : i \in DOMAIN accounts})

\* In an accepted registry no credential serves two purposes or two accounts,
\* although it is compared only with those of its own kind and with the other
\* one of its account, and every endpoint has the credential it needs.
CredentialsServeOnePurpose(accounts) ==
  RegistryAccepted(accounts) =>
    /\ \A u, v \in Uses(accounts) : u[3] = v[3] /\ u[3] # NoReference => u = v
    /\ \A i \in DOMAIN accounts : \A e \in accounts[i].endpoints :
         \E u \in Uses(accounts) : u[1] = i /\ u[2] = e.scope /\ u[3] # NoReference

-----------------------------------------------------------------------------
(* ProviderFinanceManager, in the worker                                   *)

\* _validate_direct_connectors, in both processes.
ConnectorsReviewed(registry) == \A a \in Parsers : registry.mode[a] = "direct_api"

StatusOfMode(mode) ==
  CASE mode \in {"admin_api", "cloud_billing_api"} -> "requires_admin_credential"
    [] mode = "console_only"                       -> "console_only"
    [] mode \in {"not_applicable", "unknown"}      -> "unsupported"
    [] OTHER                                       -> "never_refreshed"

\* _static_status of the worker: it knows which schemas it can parse.
StaticStatus(registry, a) ==
  IF registry.mode[a] = "direct_api" /\ a \notin Parsers
  THEN "unsupported_schema" ELSE StatusOfMode(registry.mode[a])

ResultOf(registry, a, status, balance, sight) ==
  [account |-> a, revision |-> registry.revision, mode |-> registry.mode[a],
   status |-> status, balance |-> balance, sight |-> sight]

StatusOfReply(reply) ==
  CASE reply = "no credential" -> "credential_unavailable"
    [] reply = "error"         -> "provider_unavailable"
    [] reply = "malformed"     -> "unsupported_schema"
    [] OTHER                   -> "ok"

\* _amount and the parsers: an amount is rendered, anything else leaves no balance.
BalanceOf(a, reply) ==
  IF StatusOfReply(reply) = "ok" THEN [schema |-> a, amount |-> reply] ELSE NoBalance

\* _refresh_one_locked
Examined(registry, a, reply) ==
  LET static == StaticStatus(registry, a) IN
  IF static # "never_refreshed" THEN ResultOf(registry, a, static, NoBalance, 0)
  ELSE ResultOf(registry, a, StatusOfReply(reply), BalanceOf(a, reply), sights + 1)

\* The next account of the job.
Examine(reply) ==
  /\ reply # "uncaught"
  /\ worker.job # NoJob /\ worker.job.left # <<>>
  /\ LET a      == Head(worker.job.left)
         result == Examined(worker.registry, a, reply) IN
     /\ result.sight = 0 => reply = "plain"
     /\ worker' = [worker EXCEPT !.job.left = Tail(@), !.job.results = Append(@, result)]
     /\ sights' = IF result.sight = 0 THEN sights ELSE sights + 1
  /\ UNCHANGED <<file, keeper, refreshes, table, asks, faults>>

-----------------------------------------------------------------------------
(* validate_refresh_response, in the orchestrator                          *)

Expected(asked) == IF asked = "all" THEN Order ELSE <<asked>>

\* A result without a snapshot.
StaticValid(registry, r) ==
  r.balance = NoBalance /\ r.status = StatusOfMode(registry.mode[r.account])

AmountValid(amount) == amount \in {"plain", "limit"}

BalanceValid(r) == r.balance.schema = r.account /\ AmountValid(r.balance.amount)

SnapshotValid(r) ==
  IF r.status = "ok" THEN BalanceValid(r)
  ELSE /\ r.status \in {"credential_unavailable", "provider_unavailable", "unsupported_schema"}
       /\ r.balance = NoBalance

SameContract(registry, r) ==
  r.revision = registry.revision /\ r.mode = registry.mode[r.account]

ResponseValid(registry, asked, results) ==
  /\ \A i \in DOMAIN results :
       /\ SameContract(registry, results[i])
       /\ IF results[i].sight = 0
          THEN StaticValid(registry, results[i]) ELSE SnapshotValid(results[i])
  /\ [i \in DOMAIN results |-> results[i].account] = Expected(asked)

-----------------------------------------------------------------------------
(* ProviderFinanceClient and the worker's server                           *)

Waits(c) == refreshes[c].at = "wait"

Ended(c, how) == [refreshes EXCEPT ![c] = [at |-> how, asked |-> @.asked, kept |-> <<>>]]

\* refresh in the worker: the lock is not waited for.
WorkerTakes == worker.registry # NotRunning /\ worker.job = NoJob

\* The request reaches a worker whose lock is free, or is refused.
AskWorker(c, asked) ==
  /\ keeper # NotRunning /\ refreshes[c].at \in {"idle", "failed", "completed"}
  /\ asks < MaxRefreshes /\ asks' = asks + 1
  /\ IF WorkerTakes
     THEN /\ refreshes' = [refreshes EXCEPT ![c] = [at |-> "wait", asked |-> asked]]
          /\ worker' = [worker EXCEPT !.job =
               [caller |-> c, asked |-> asked, left |-> Expected(asked), results |-> <<>>]]
     ELSE /\ refreshes' = [refreshes EXCEPT ![c] = [at |-> "failed", asked |-> asked, kept |-> <<>>]]
          /\ UNCHANGED worker
  /\ UNCHANGED <<file, keeper, table, sights, faults>>

\* Nobody reads the answer of a job whose caller has given up.
Heard(job) == job.caller \in Callers /\ Waits(job.caller)

\* An exception that _refresh_one_locked does not catch, such as
\* http.client.IncompleteRead: it ends the job for all its accounts, the lock is
\* released by the finally, and the caller gets a 500.
ExamineRaises ==
  /\ "uncaught" \in Replies
  /\ worker.job # NoJob /\ worker.job.left # <<>>
  /\ StaticStatus(worker.registry, Head(worker.job.left)) = "never_refreshed"
  /\ refreshes' = IF Heard(worker.job) THEN Ended(worker.job.caller, "failed") ELSE refreshes
  /\ worker' = [worker EXCEPT !.job = NoJob]
  /\ UNCHANGED <<file, keeper, table, asks, sights, faults>>

Delivered(job) ==
  IF ~ Heard(job) THEN refreshes
  ELSE IF ResponseValid(keeper, job.asked, job.results)
       THEN [refreshes EXCEPT ![job.caller] =
               [at |-> "store", asked |-> job.asked, results |-> job.results, kept |-> <<>>]]
       ELSE Ended(job.caller, "failed")

\* Mutant: the lock stays taken when nobody reads the answer.
AnswerHeld ==
  /\ worker.job # NoJob /\ worker.job.left = <<>>
  /\ Heard(worker.job)
  /\ refreshes' = Delivered(worker.job)
  /\ worker' = [worker EXCEPT !.job = NoJob]
  /\ UNCHANGED <<file, keeper, table, asks, sights, faults>>

\* The lock is released, the answer sent and checked as a whole.
Answer ==
  /\ worker.job # NoJob /\ worker.job.left = <<>>
  /\ refreshes' = Delivered(worker.job)
  /\ worker' = [worker EXCEPT !.job = NoJob]
  /\ UNCHANGED <<file, keeper, table, asks, sights, faults>>

\* WORKER_CLIENT_TIMEOUT_SECONDS: the job goes on without its caller.
AskTimeout(c) ==
  /\ Waits(c) /\ faults < MaxFaults /\ faults' = faults + 1
  /\ refreshes' = Ended(c, "failed")
  /\ worker' = IF worker.job # NoJob /\ worker.job.caller = c
               THEN [worker EXCEPT !.job.caller = "gone"] ELSE worker
  /\ UNCHANGED <<file, keeper, table, asks, sights>>

\* health, and the reads of the registry and of the history: they do not take
\* the lock and change nothing.
Look == keeper # NotRunning /\ UNCHANGED financeVars

-----------------------------------------------------------------------------
(* refresh_provider_finance and record_provider_finance_snapshot           *)

RowsOf(a) == {i \in DOMAIN table : table[i].account = a}

Room(a) == Cardinality(RowsOf(a)) < Capacity

\* The table takes amounts of at most fifteen digits.
Storable(r) == r.mode = "direct_api" /\ (r.status = "ok" => r.balance.amount = "plain")

\* record_provider_finance_snapshot does not raise.
Taken(r) == r.sight = 0 \/ (Storable(r) /\ Room(r.account))

Store(c) ==
  /\ refreshes[c].at = "store" /\ refreshes[c].results # <<>>
  /\ LET r == Head(refreshes[c].results) IN
     /\ refreshes' =
          IF Taken(r)
          THEN [refreshes EXCEPT ![c].results = Tail(@), ![c].kept = Append(@, r)]
          ELSE Ended(c, "failed")
     /\ table' = IF r.sight # 0 /\ Storable(r) /\ Room(r.account)
                 THEN Append(table, r) ELSE table
  /\ UNCHANGED <<file, keeper, worker, asks, sights, faults>>

Completed(c) ==
  /\ refreshes[c].at = "store" /\ refreshes[c].results = <<>>
  /\ refreshes' = [refreshes EXCEPT ![c] =
       [at |-> "completed", asked |-> @.asked, kept |-> @.kept]]
  /\ UNCHANGED <<file, keeper, worker, table, asks, sights, faults>>

-----------------------------------------------------------------------------
(* Starts, crashes and edits                                               *)

StartKeeper ==
  /\ keeper = NotRunning /\ ConnectorsReviewed(file)
  /\ keeper' = file
  /\ UNCHANGED <<file, worker, refreshes, table, asks, sights, faults>>

StartWorker ==
  /\ worker.registry = NotRunning /\ ConnectorsReviewed(file)
  /\ worker' = [registry |-> file, job |-> NoJob]
  /\ UNCHANGED <<file, keeper, refreshes, table, asks, sights, faults>>

KeeperDies ==
  /\ keeper # NotRunning /\ faults < MaxFaults /\ faults' = faults + 1
  /\ keeper' = NotRunning /\ refreshes' = [c \in Callers |-> Quiet]
  /\ worker' = IF worker.job = NoJob THEN worker ELSE [worker EXCEPT !.job.caller = "gone"]
  /\ UNCHANGED <<file, table, asks, sights>>

\* Whoever waits for the worker sees the connection end.
WorkerDies ==
  /\ worker.registry # NotRunning /\ faults < MaxFaults /\ faults' = faults + 1
  /\ worker' = [registry |-> NotRunning, job |-> NoJob]
  /\ refreshes' = [c \in Callers |-> IF Waits(c) THEN Ended(c, "failed")[c] ELSE refreshes[c]]
  /\ UNCHANGED <<file, keeper, table, asks, sights>>

EditRegistry ==
  /\ faults < MaxFaults /\ faults' = faults + 1
  /\ file' \in FinanceRegistries \ {file}
  /\ UNCHANGED <<keeper, worker, refreshes, table, asks, sights>>

\* The worker goes on with its job.
Works == (\E reply \in Replies : Examine(reply)) \/ ExamineRaises

FinanceNext ==
  \/ \E c \in Callers : \/ \E asked \in {"all"} \union ToSet(Order) : AskWorker(c, asked)
                        \/ AskTimeout(c) \/ Store(c) \/ Completed(c)
  \/ Works
  \/ Answer \/ Look \/ StartKeeper \/ StartWorker \/ KeeperDies \/ WorkerDies \/ EditRegistry

-----------------------------------------------------------------------------
(* Properties                                                              *)

\* A thread stores nothing that was observed under another registry than the
\* one the orchestrator runs with, even when the worker was not restarted
\* after an edit.
OneRegistry ==
  \A c \in Callers : refreshes[c].at = "store" =>
    \A i \in DOMAIN refreshes[c].results : refreshes[c].results[i].revision = keeper.revision

\* Threads that store at the same time do not exceed the capacity.
CapacityKept == \A a \in Parsers : Cardinality(RowsOf(a)) <= Capacity

\* A refresh that reports completion has one result for every account that
\* was asked for, in order, and every balance it reports is in the table.
CompletedIsStored ==
  \A c \in Callers : refreshes[c].at = "completed" =>
    LET kept == refreshes[c].kept IN
    /\ [i \in DOMAIN kept |-> kept[i].account] = Expected(refreshes[c].asked)
    /\ \A i \in DOMAIN kept : kept[i].sight # 0 => kept[i] \in ToSet(table)

\* With one registry the orchestrator takes every answer that the worker puts
\* together: a provider that cannot be reached or answers nonsense does not spoil
\* the results of the others, when the worker catches it.  (ExamineRaises is what
\* it does not catch: then there is no answer, and all results are lost.  Two
\* answers are put together and not taken: an amount of minus zero, and an account
\* whose balance could be asked for but has no parser.)
WorkerUnderstood ==
  worker.job # NoJob /\ worker.job.left = <<>> /\ keeper = worker.registry =>
    \/ ResponseValid(keeper, worker.job.asked, worker.job.results)
    \/ \E i \in DOMAIN worker.job.results :
         LET r == worker.job.results[i] IN
         r.balance.amount = "minus zero" \/ (r.mode = "direct_api" /\ r.account \notin Parsers)

\* Every refresh ends, whoever dies or gives up, and the worker is free again
\* once no more are asked for.
RefreshesEnd ==
  []<>(worker.job = NoJob /\ \A c \in Callers : refreshes[c].at \notin {"wait", "store"})

\* A refresh of the balances stores what it reports, within the capacity of the
\* table, and refuses only what the two registries tell apart.
RefreshesHold == OneRegistry /\ CapacityKept /\ CompletedIsStored /\ WorkerUnderstood
=============================================================================
