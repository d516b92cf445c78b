---------------------------- MODULE ModelAdmission ----------------------------
(***************************************************************************)
(* The start of the orchestrator: which models it may call, at which price *)
(* and on whose account.  Three files that people edit are read in turn    *)
(* (the configuration, the catalogue of models, the registry of provider   *)
(* accounts), the catalogue and the registry twice, and the reservations   *)
(* of earlier lives are bound to accounts in between.                      *)
(*                                                                         *)
(* A deployment id is [kind, name]: "static" ids are written by people,    *)
(* "catalog" ids are generated from a card's name.  A configuration is     *)
(* [providers, aux, budgets, runtime], providers a set of [id, account,    *)
(* profile]; a catalogue is [cards, accounts, profiles], cards a function  *)
(* from names to [stage, deployments, model, provenance, account, prices,  *)
(* profile]; a registry is [accounts, contracts], the accounts it knows    *)
(* and those whose protocol, site and authentication match the table that  *)
(* the code was reviewed with.  (Two cards of one name are refused.)       *)
(***************************************************************************)
EXTENDS Integers, Sequences, FiniteSetsExt

CONSTANTS Configurations, Catalogues, Registries,   \* what the files may say
          Reviewed,           \* accounts with a reviewed adapter
          RoutableProfiles,   \* profiles that have a role
          MaxEdits            \* bound of the model

\* load_config: no two providers of one id; _rates: no price is negative.
ASSUME AdmissionAssumption ==
  /\ \A c \in Configurations : \A p, q \in c.providers : p.id = q.id => p = q
  /\ \A c \in Catalogues : \A name \in DOMAIN c.cards :
       LET prices == c.cards[name].prices IN
       IsFiniteSet(prices) /\ prices \subseteq Nat \X Nat

Nobody == "none"

VARIABLES conf, cat, reg,   \* the files
          proc,             \* the orchestrator
          rows,             \* usage_reservations: [provider, account]
          edits

admissionVars == <<conf, cat, reg, proc, rows, edits>>

Down == [at |-> "down"]

StaticIds == UNION {{p.id : p \in c.providers} : c \in Configurations}

\* Reservations from before accounts were recorded have no account.
AdmissionInit ==
  /\ conf \in Configurations /\ cat \in Catalogues /\ reg \in Registries
  /\ proc = Down /\ edits = 0
  /\ rows \in SUBSET {[provider |-> id, account |-> Nobody] : id \in StaticIds}

-----------------------------------------------------------------------------
(* load_config                                                             *)

AccountsOf(providers) == {p.account : p \in providers} \ {Nobody}

ConfigAccepted(c) ==
  /\ c.aux \subseteq {p.id : p \in c.providers}
  /\ AccountsOf(c.providers) = c.budgets

-----------------------------------------------------------------------------
(* _parse_price_tiers and price_microusd_per_million: tiers is a sequence  *)
(* of [most, rates], rates the prices of the two directions                *)

TiersAccepted(tiers) ==
  \A i \in DOMAIN tiers :
    /\ tiers[i].rates[1] > 0 /\ tiers[i].rates[2] > 0
    /\ tiers[i].most > (IF i = 1 THEN 0 ELSE tiers[i - 1].most)
    /\ i > 1 => \A d \in 1 .. 2 : tiers[i].rates[d] >= tiers[i - 1].rates[d]

\* The tiers that a number of input tokens fits; the first of them is taken.
Fitting(tiers, tokens) == {i \in DOMAIN tiers : tokens <= tiers[i].most}

Bill(tiers, tokens) ==
  LET rates == tiers[Min(Fitting(tiers, tokens[1]))].rates
  IN tokens[1] * rates[1] + tokens[2] * rates[2]

\* A call that used no more tokens than were estimated costs no more than was
\* reserved for it, although it is priced again by the tokens it used.
ReservationCovers(tiers, estimated, used) ==
  TiersAccepted(tiers) /\ Fitting(tiers, estimated[1]) # {}
    /\ used[1] <= estimated[1] /\ used[2] <= estimated[2]
  => Bill(tiers, used) <= Bill(tiers, estimated)

-----------------------------------------------------------------------------
(* _parse_provider: what an adapter needs of a remote chat provider        *)
(* [kind, auth, path, family, dialect, thinking, model], and the providers *)
(* that build_catalogue_runtime_plan writes                                *)

DialectAccepted(p) ==
  /\ p.family \in {"qwen", "deepseek"} => p.dialect \in {"alibaba", "deepseek"}
  /\ p.thinking # "none" <=> p.dialect \in {"alibaba", "deepseek"}
  /\ p.dialect = "alibaba" => p.family \in {"qwen", "deepseek"}
  /\ p.dialect = "deepseek" => p.family = "deepseek"
  /\ p.dialect = "moonshot_k3" => p.family = "moonshot" /\ p.model = "kimi-k3"
  /\ p.dialect = "openai_reasoning" => p.family = "openai"

AdapterAccepted(p) ==
  /\ p.kind = "anthropic_chat" => p.auth = "anthropic" /\ p.path = "/v1/messages"
  /\ p.kind = "openai_chat" => p.auth # "anthropic"
  /\ p.kind = "openai_responses" =>
       p.auth = "bearer" /\ p.path = "/responses" /\ p.family = "openai"
  /\ DialectAccepted(p)

\* _INTEGRATIONS: how the accounts of the reviewed table are called.
Integrations ==
  [a \in {"alibaba", "moonshot", "openai", "xai", "anthropic"} |->
     IF a = "anthropic" THEN [auth |-> "anthropic", path |-> "/v1/messages"]
     ELSE [auth |-> "bearer", path |-> "/chat/completions"]]

GeneratedKind(account) ==
  IF Integrations[account].auth = "anthropic" THEN "anthropic_chat"
  ELSE IF account = "openai" THEN "openai_responses" ELSE "openai_chat"

GeneratedAdapter(account, card, model) ==
  [kind |-> GeneratedKind(account), auth |-> Integrations[account].auth,
   path |-> IF account = "openai" THEN "/responses" ELSE Integrations[account].path,
   family |-> account, thinking |-> "none", model |-> model,
   dialect |-> IF card = "kimi-k3" THEN "moonshot_k3" ELSE "generic"]

\* A card whose model and prices are verified never keeps the orchestrator from
\* starting: what the plan writes for it, the parser of the configuration takes.
\* The one card with a dialect of its own is taken only as it was reviewed.
GeneratedIsAccepted(account, card, model) ==
  AdapterAccepted(GeneratedAdapter(account, card, model))
    <=> (card = "kimi-k3" => account = "moonshot" /\ model = "kimi-k3")

-----------------------------------------------------------------------------
(* build_catalogue_runtime_plan and expand_catalogue_runtime               *)

\* Why a card gets a deployment of its own or does not.
Reason(card, r) ==
  CASE card.stage = "quarantined"        -> "quarantined"
    [] card.deployments # {}             -> "configured_static_priority"
    [] card.model = "none"               -> "exact_model_id_unverified"
    [] card.provenance # "official"      -> "exact_model_id_provenance_unverified"
    [] card.prices = {}                  -> "token_prices_not_officially_verified"
    [] card.account \notin Reviewed \intersect r.accounts -> "provider_adapter_not_reviewed"
    [] card.account \notin r.contracts   -> "provider_contract_mismatch"
    [] card.profile \notin RoutableProfiles -> "capability_profile_not_routable"
    [] OTHER                             -> "generated"

\* _rates: the most expensive one of either direction.
PeakRates(prices) == <<Max({p[1] : p \in prices}), Max({p[2] : p \in prices})>>

Generated(name) == [kind |-> "catalog", name |-> name]

GeneratedProvider(name, card) ==
  [id |-> Generated(name), account |-> card.account, profile |-> card.profile]

Bound(c, r) == {name \in DOMAIN c.cards : Reason(c.cards[name], r) = "generated"}

\* reasons names every card that was seen; rates has the prices of the bound ones.
PlanOf(c, r) ==
  [providers |-> {GeneratedProvider(name, c.cards[name]) : name \in Bound(c, r)},
   bindings |-> Bound(c, r),
   reasons |-> DOMAIN c.cards,
   rates |-> [name \in Bound(c, r) |-> PeakRates(c.cards[name].prices)]]

NoPlan == [providers |-> {}, bindings |-> {}, reasons |-> {}, rates |-> <<>>]

Collides(c, plan) ==
  {p.id : p \in plan.providers} \intersect {p.id : p \in c.providers} # {}

\* An account without a budget gets the one of the configuration's catalogue_runtime.
Expanded(c, plan) ==
  [providers |-> c.providers \union plan.providers,
   budgets |-> c.budgets \union AccountsOf(c.providers \union plan.providers),
   aux |-> c.aux, runtime |-> c.runtime]

-----------------------------------------------------------------------------
(* Database.bind_provider_accounts                                         *)

\* Mutant: an account that has changed is not noticed.
ConflictRemoved(providers) ==
  \E p \in providers : \E r \in rows :
    r.provider = p.id /\ r.account # Nobody /\ p.account = Nobody

Conflict(providers) ==
  \E p \in providers : \E r \in rows :
    r.provider = p.id /\ r.account # Nobody /\ r.account # p.account

Backfilled(providers) ==
  LET owner(r) == {p \in providers : p.id = r.provider /\ p.account # Nobody}
  IN {IF r.account = Nobody /\ owner(r) # {}
      THEN [r EXCEPT !.account = (CHOOSE p \in owner(r) : TRUE).account] ELSE r : r \in rows}

-----------------------------------------------------------------------------
(* ModelCatalogue.load                                                     *)

\* A generated deployment: the card must still be what the plan took it for.
BindingSafe(card, id, ids, aux) ==
  /\ card.stage = "catalogued" /\ card.deployments = {} /\ card.model # "none"
  /\ id \in ids /\ id \notin aux

\* What the cards claim, with the generated deployments filled in.
Claims(c, plan, name) ==
  IF name \in plan.bindings THEN {Generated(name)} ELSE c.cards[name].deployments

StageOf(c, plan, name) ==
  IF name \in plan.bindings THEN "configured" ELSE c.cards[name].stage

CardAccepted(c, plan, ids, aux, name) ==
  LET card == c.cards[name] claims == Claims(c, plan, name) IN
  /\ card.account \in c.accounts /\ card.profile \in c.profiles
  /\ name \in plan.bindings => BindingSafe(card, Generated(name), ids, aux)
  /\ claims \subseteq ids
  /\ \A other \in DOMAIN c.cards \ {name} : Claims(c, plan, other) \intersect claims = {}
  /\ IF StageOf(c, plan, name) = "configured"
     THEN claims # {} /\ card.model # "none" ELSE claims = {}
  /\ card.provenance # "other model"

CatalogueAccepted(c, plan, ids, aux) ==
  /\ aux \subseteq ids
  /\ \A name \in DOMAIN c.cards : CardAccepted(c, plan, ids, aux, name)
  /\ ids \ UNION {Claims(c, plan, name) : name \in DOMAIN c.cards} = aux
  /\ plan.bindings \subseteq DOMAIN c.cards
  /\ plan.reasons # {} => plan.reasons = DOMAIN c.cards

-----------------------------------------------------------------------------
(* OrchestratorService.__init__, step by step                              *)

Ids(c) == {p.id : p \in c.providers}

\* A step of the start: the next one, or the process gives up.
Proceed(ok, next) == proc' = IF ok THEN next ELSE Down

Start ==
  /\ proc.at = "down"
  /\ Proceed(ConfigAccepted(conf), [at |-> "expand", conf |-> conf])
  /\ UNCHANGED <<conf, cat, reg, rows, edits>>

\* An edit between the two readings of this step counts as one before or after it.
Expand ==
  /\ proc.at = "expand"
  /\ LET plan == IF proc.conf.runtime THEN PlanOf(cat, reg) ELSE NoPlan IN
     Proceed(~ Collides(proc.conf, plan),
             [at |-> "bind", conf |-> Expanded(proc.conf, plan), plan |-> plan, read |-> cat])
  /\ UNCHANGED <<conf, cat, reg, rows, edits>>

\* One transaction; it is not undone when a later step of the start fails.
Bind ==
  /\ proc.at = "bind"
  /\ Proceed(~ Conflict(proc.conf.providers), [proc EXCEPT !.at = "load"])
  /\ rows' = IF Conflict(proc.conf.providers) THEN rows ELSE Backfilled(proc.conf.providers)
  /\ UNCHANGED <<conf, cat, reg, edits>>

LoadCatalogue ==
  /\ proc.at = "load"
  /\ Proceed(/\ CatalogueAccepted(cat, proc.plan, Ids(proc.conf), proc.conf.aux)
             /\ AccountsOf(proc.conf.providers) \subseteq cat.accounts,
             [at |-> "register", conf |-> proc.conf, plan |-> proc.plan, read |-> proc.read,
              served |-> cat])
  /\ UNCHANGED <<conf, cat, reg, rows, edits>>

LoadRegistry ==
  /\ proc.at = "register"
  /\ Proceed(/\ reg.accounts = proc.served.accounts
             /\ \A p \in proc.conf.providers : p.profile \in proc.served.profiles,
             [proc EXCEPT !.at = "up"])
  /\ UNCHANGED <<conf, cat, reg, rows, edits>>

\* A call is reserved on the account of its provider.
Reserve(p) ==
  /\ proc.at = "up" /\ p \in proc.conf.providers
  /\ rows' = rows \union {[provider |-> p.id, account |-> p.account]}
  /\ UNCHANGED <<conf, cat, reg, proc, edits>>

Stop == proc.at # "down" /\ proc' = Down /\ UNCHANGED <<conf, cat, reg, rows, edits>>

Edit ==
  /\ edits < MaxEdits /\ edits' = edits + 1
  /\ \/ conf' \in Configurations \ {conf} /\ UNCHANGED <<cat, reg>>
     \/ cat' \in Catalogues \ {cat} /\ UNCHANGED <<conf, reg>>
     \/ reg' \in Registries \ {reg} /\ UNCHANGED <<conf, cat>>
  /\ UNCHANGED <<proc, rows>>

AdmissionNext ==
  \/ Start \/ Expand \/ Bind \/ LoadCatalogue \/ LoadRegistry \/ Stop \/ Edit
  \/ \E p \in (IF proc.at = "up" THEN proc.conf.providers ELSE {}) : Reserve(p)

-----------------------------------------------------------------------------
(* Properties                                                              *)

\* Whoever edits the files between two readings of them, a running
\* orchestrator calls only what is auxiliary or claimed by exactly one card of
\* the catalogue it shows, never for a card that catalogue has in quarantine,
\* and it has a budget for every account it calls on.
RunningIsReviewed ==
  proc.at = "up" =>
    LET c == proc.served IN
    /\ \A id \in Ids(proc.conf) \ proc.conf.aux :
         Cardinality({name \in DOMAIN c.cards : id \in Claims(c, proc.plan, name)}) = 1
    /\ \A name \in DOMAIN c.cards : c.cards[name].stage = "quarantined" =>
         Claims(c, proc.plan, name) \intersect Ids(proc.conf) = {}
    /\ AccountsOf(proc.conf.providers) \subseteq proc.conf.budgets

\* A generated provider reserves at least what any price of its card, as the
\* plan read it, can cost for any number of tokens in either direction.
ReservesThePeak ==
  proc.at = "up" =>
    \A name \in proc.plan.bindings : \A price \in proc.read.cards[name].prices :
      \A i \in 1 .. 2 : proc.plan.rates[name][i] >= price[i]

\* The reservations of a provider that may be called all belong to the account
\* it is called on, those from before accounts were recorded too: moving a
\* provider to another account does not free what it has spent.
SpendingStaysOnAccount ==
  proc.at = "up" =>
    \A p \in proc.conf.providers : \A r \in rows : r.provider = p.id => r.account = p.account
=============================================================================
