------------------------------ MODULE MCPolicies ------------------------------
(***************************************************************************)
(* The rules that admit things, in one run: the promotion of local models  *)
(* ("bench"), the start of the orchestrator ("start"), the refresh of      *)
(* provider balances ("balance"), and the pure policies, each asked about  *)
(* every input of a small set ("ask").                                     *)
(***************************************************************************)
EXTENDS LocalPromotion, ModelAdmission, RoutingPolicy, MemoryPolicy, AuditChain, BrokerPolicy,
        ProviderFinance

VARIABLES part,    \* which of the four this behaviour is about
          asked    \* "ask": the question of the moment

vars == <<localVars, admissionVars, financeVars, part, asked>>
Nothing == [what |-> "nothing"]

-----------------------------------------------------------------------------
(* Instances                                                               *)

TwoModels == <<"m1", "m2">>

Static(n) == [kind |-> "static", name |-> n]
Deployed(id, a) == [id |-> id, account |-> a, profile |-> "fast"]

SmallConfigurations ==
  {[providers |-> {Deployed(Static("d1"), "acc1")}, aux |-> {}, budgets |-> {"acc1"},
    runtime |-> TRUE],
   [providers |-> {Deployed(Static("d1"), "acc2")}, aux |-> {}, budgets |-> {"acc2"},
    runtime |-> TRUE],
   [providers |-> {Deployed(Static("d1"), "none"), Deployed(Generated("k2"), "acc1")},
    aux |-> {Static("d1")}, budgets |-> {"acc1"}, runtime |-> TRUE],
   [providers |-> {Deployed(Static("d1"), "acc1")}, aux |-> {Static("d1")},
    budgets |-> {"acc1"}, runtime |-> FALSE],
   [providers |-> {Deployed(Static("d1"), "acc1")}, aux |-> {Static("d2")},
    budgets |-> {"acc1"}, runtime |-> TRUE]}

K1 == [stage |-> "configured", deployments |-> {Static("d1")}, model |-> "m1",
       provenance |-> "none", account |-> "acc1", prices |-> {}, profile |-> "fast"]
K2 == [stage |-> "catalogued", deployments |-> {}, model |-> "m2", provenance |-> "official",
       account |-> "acc2", prices |-> {<<1, 3>>, <<2, 2>>}, profile |-> "fast"]

\* What an editor may make of the second card.
Edited(k) ==
  {k, [k EXCEPT !.stage = "quarantined"], [k EXCEPT !.account = "acc1"],
   [k EXCEPT !.provenance = "other source"], [k EXCEPT !.prices = {}],
   [k EXCEPT !.deployments = {Static("d1")}, !.stage = "configured"],
   [k EXCEPT !.model = "none"], [k EXCEPT !.profile = "odd"]}

CatalogueOf(cards, accounts) ==
  [cards |-> cards, accounts |-> accounts, profiles |-> {"fast", "odd"}]

SmallCatalogues ==
  {CatalogueOf([k1 |-> K1, k2 |-> k], {"acc1", "acc2"}) : k \in Edited(K2)}
    \union {CatalogueOf([k1 |-> [K1 EXCEPT !.stage = "catalogued", !.deployments = {}],
                         k2 |-> K2], {"acc1", "acc2"}),
            CatalogueOf([k1 |-> K1], {"acc1", "acc2"}),
            CatalogueOf([k1 |-> K1, k2 |-> K2], {"acc1"})}

SmallRegistries ==
  {[accounts |-> {"acc1", "acc2"}, contracts |-> {"acc1", "acc2"}],
   [accounts |-> {"acc1", "acc2"}, contracts |-> {"acc1"}],
   [accounts |-> {"acc1"}, contracts |-> {"acc1"}]}

SmallOrder == <<"deepseek", "openai", "stepfun">>
Modes(mode) == [deepseek |-> "direct_api", openai |-> mode, stepfun |-> "direct_api"]
SmallFinanceRegistries ==
  {[revision |-> 1, mode |-> Modes("console_only")], [revision |-> 2, mode |-> Modes("direct_api")]}

-----------------------------------------------------------------------------
(* Questions                                                               *)

Requests ==
  [what : {"route"}, task : {"OBSERVE", "SUMMARIZE", "PLAN", "CODE", "RERANK", "ANALYZE"},
   risk : {"LOW", "MEDIUM", "HIGH", "CRITICAL"}, impact : {0, 50, 75}, size : {0, 75},
   confidence : {20, 59, 70, 95}, complexity : {10, 50, 90},
   urgency : {"NORMAL", "EMERGENCY"}, deterministic : {FALSE}]

AskRoute == \E q \in Requests : asked' = q

Validations == [succeeded : BOOLEAN, quality : {0, 250, 1000}, corrections : {0, 6}]
Paces == {<<0, 0>>, <<2000, 8000>>, <<300000, 300000>>}

\* Every completed call has its latency.
History(c, urgency, a, k, pace, n, v) ==
  [what |-> "history", cost |-> c, urgency |-> urgency, attempts |-> a, completed |-> k,
   times |-> [i \in 1 .. k |-> pace[(i % 2) + 1]], validations |-> [i \in 1 .. n |-> v]]

Histories ==
  {History(c, urgency, a, IF all THEN a ELSE 0, pace, n, v) :
     c \in {1, 1000}, urgency \in DOMAIN LatencyPolicy, a \in {0, 5, 8}, all \in BOOLEAN,
     pace \in Paces, n \in {1, 5}, v \in Validations}

AskHistory == \E h \in Histories : asked' = h

Caps == {"read", "write", "review", "summarize"}
Roles == {{"r"}, {"s"}, {"r", "s"}}
Actors == [projects : {{"p"}, {"*"}, {"p", "q"}}, rank : 1 .. 2, roles : Roles, grants : Roles,
           caps : {Caps}, sources : {{"memory-consolidation"}}]
Memories == [project : {"p", "q"}, rank : 1 .. 2, roles : Roles, kind : {"rule"},
             current : {TRUE}, matches : {TRUE}]
Queries == [project : {"p", "q"}, rank : 1 .. 2, kinds : {{}, {"rule"}, {"incident"}}]

AskSummary ==
  \E a \in Actors : \E m \in Memories : \E n \in Memories :
    asked' = [what |-> "summary", actor |-> a, memories |-> {m, n}]
AskSearch ==
  \E a \in Actors : \E q \in Queries :
    asked' = [what |-> "search", actor |-> a, query |-> q]

Longer(traces) == {TraceAppend(t, w) : t \in traces, w \in {"x", "y"}}
Traces == LET one == Longer({<<>>}) two == Longer(one) IN one \union two \union Longer(two)
AskTrace == \E t \in Traces : asked' = [what |-> "trace", chain |-> t]

Budgets == [attempts : 1 .. 3, window : 1 .. 3]
AskBudget == \E b \in Budgets : \E c \in Budgets :
  asked' = [what |-> "budget", budget |-> b, ceiling |-> c]
Times == {t \in [1 .. 4 -> 0 .. 5] : \A i \in 1 .. 3 : t[i] <= t[i + 1]}

RoleSets == [projects : SUBSET {"p", "q"}, runbooks : SUBSET {"x"}, classes : SUBSET {"A", "C"}]
AskGrant == \E r \in RoleSets : \E s \in RoleSets : asked' = [what |-> "grant", roles |-> {r, s}]

Executables ==
  {[executables |-> {"/x"}, sudo |-> "/sudo", helpers |-> {"/h"}],
   [executables |-> {"/x", "/sh"}, sudo |-> "none", helpers |-> {}],
   [executables |-> {"/x", "/sudo"}, sudo |-> "/sudo", helpers |-> {}],
   [executables |-> {"x"}, sudo |-> "none", helpers |-> {}]}

Literal(t) == [kind |-> "literal", text |-> t]
Placed == [kind |-> "parameter", text |-> "u"]
Templates ==
  LET first  == {Literal("/x"), Literal("/sudo"), Literal("/sh"), Literal("x"), Placed}
      second == {Literal("-n"), Placed, [kind |-> "mixed", text |-> "u"]}
      third  == {Literal("/h"), Literal("/sh"), Placed} IN
  {<<>>} \union {<<a>> : a \in first} \union (first \X second)
    \union (first \X second \X third) \union (first \X second \X third \X {Placed})

Runbook(class, argv, spec) ==
  [class |-> class, argv |-> argv, parameters |-> [u |-> spec], budget |-> class = "B", key |-> {"u"}]
Runbooks ==
  {Runbook(c, t, spec) :
     c \in {"A", "B", "C"}, t \in Templates,
     spec \in [kind : {"uuid", "string", "integer", "boolean"}, values : {{}}]
                \union [kind : {"enum"}, values : {{"on"}, {"on", "-f"}}]}

AskRunbook == \E exe \in Executables : \E rb \in Runbooks :
  asked' = [what |-> "runbook", exe |-> exe, runbook |-> rb]

Given(type, text, uuid, clean) ==
  [type |-> type, text |-> text, uuid |-> uuid, dash |-> text \in {"-f", "-1"}, clean |-> clean]
Values ==
  {Given("str", t, "none", TRUE) : t \in {"on", "-f", "free text"}}
    \union {Given("str", t, "u-1", TRUE) : t \in {"u-1", "U-1", "urn:U1"}}
    \union {Given("int", t, "none", TRUE) : t \in {"1", "-1"}}
    \union {Given("bool", "True", "none", TRUE), Given("str", "two lines", "none", FALSE)}

Tier == [most : 1 .. 3, rates : (0 .. 2) \X (0 .. 2)]
AskTiers == \E n \in 1 .. 2 : \E t \in [1 .. n -> Tier] : asked' = [what |-> "tiers", tiers |-> t]
Tokens == (0 .. 3) \X (0 .. 2)

AskAdapter ==
  \E a \in DOMAIN Integrations : \E card, model \in {"kimi-k3", "other"} :
    asked' = [what |-> "adapter", account |-> a, card |-> card, model |-> model]

References == [prefix : {"llm", "llm-admin"}, name : {"x", "y"}]
Endpoints == [capabilities : {{"balance"}}, access : {"direct_api", "admin_api"},
              scope : {"inference", "admin_finance"}]
Integrated ==
  [inference : References, admin : References \union {NoReference},
   access : [{"balance"} -> {"direct_api", "admin_api", "console_only"}],
   endpoints : {{}} \union {{e} : e \in Endpoints}, discovery : {"none", "admin_finance"}]
Other == [inference |-> [prefix |-> "llm", name |-> "x"], admin |-> [prefix |-> "llm-admin", name |-> "x"],
          access |-> [balance |-> "console_only"], endpoints |-> {}, discovery |-> "none"]
AskRegistry ==
  \E a \in Integrated : \E i, j \in References :
    asked' = [what |-> "registry",
              accounts |-> <<a, [Other EXCEPT !.inference = i, !.admin = j]>>]

Ask ==
  /\ asked = Nothing
  /\ AskRoute \/ AskHistory \/ AskSummary \/ AskSearch \/ AskTrace \/ AskBudget
     \/ AskGrant \/ AskRunbook \/ AskTiers \/ AskAdapter \/ AskRegistry

Return == asked # Nothing /\ asked' = Nothing

-----------------------------------------------------------------------------
InBench(A)   == part = "bench" /\ A /\ UNCHANGED <<admissionVars, financeVars, asked, part>>
InStart(A)   == part = "start" /\ A /\ UNCHANGED <<localVars, financeVars, asked, part>>
InBalance(A) == part = "balance" /\ A /\ UNCHANGED <<localVars, admissionVars, asked, part>>
InAsk(A)     == part = "ask" /\ A /\ UNCHANGED <<localVars, admissionVars, financeVars, part>>

Init ==
  /\ LocalInit /\ asked = Nothing
  /\ \/ part = "start" /\ AdmissionInit
     \/ /\ part \in {"bench", "balance", "ask"}
        /\ conf = <<>> /\ cat = <<>> /\ reg = <<>> /\ proc = Down /\ rows = {} /\ edits = 0
  /\ FinanceInit
  /\ part # "balance" => file.revision = 1

\* The benchmark reads neither the registry nor the reports: it is enough to
\* promote once the campaigns are over.  The last one finds its models installed and
\* may be a simulation, or a flat report takes its place when a model is eligible
\* already.
Campaigning ==
  /\ registry = NoRecord /\ reports[0] = NoReport
  /\ LaunchNext /\ simulations' \subseteq {MaxCampaigns}
  /\ started' > started /\ started' = MaxCampaigns =>
       \A m \in DOMAIN bench'.found : bench'.found[m] = "installed"

FlatInstead ==
  /\ bench.at = "idle" /\ started = MaxCampaigns - 1
  /\ \E i \in DOMAIN reports : reports[i].kind = "report" /\ reports[i].eligible # {}

Over == bench.at = "idle" /\ (started = MaxCampaigns \/ reports[0] # NoReport)

Promoting ==
  \/ Campaigning
  \/ BenchNext
  \/ FlatInstead /\ FlatNext
  \/ Over /\ PromotionNext

Next ==
  \/ InBench(Promoting)
  \/ InStart(AdmissionNext)
  \/ InBalance(FinanceNext)
  \/ InAsk(Ask) \/ InAsk(Return)

Fairness ==
  /\ WF_vars(InBench(BenchNext))
  /\ WF_vars(InBalance(Works)) /\ WF_vars(InBalance(Answer))
  /\ \A c \in Callers : WF_vars(InBalance(Store(c))) /\ WF_vars(InBalance(Completed(c)))

Spec == Init /\ [][Next]_vars /\ Fairness

Asked(what) == asked.what = what

-----------------------------------------------------------------------------
(* The properties of the pure policies, for the question of the moment     *)

\* RoutingPolicy.plan: StakesReachExperts for every request.
StakesRouted == Asked("route") => StakesReachExperts(asked)

\* requirements_for: DoubtRaisesTheBar against every harder variant.
BarFollowsDoubt ==
  Asked("route") =>
    \A r \in DOMAIN Reliability : \A cx \in {10, 50, 90} : \A sure \in {20, 59, 70, 95} :
      DoubtRaisesTheBar(asked, [asked EXCEPT !.risk = r, !.complexity = cx, !.confidence = sure])

\* candidate_score: FailuresEarnNothing.
FailuresNotRewarded == Asked("history") => FailuresEarnNothing(asked, asked.urgency, asked.cost)

\* MemoryService.search: SearchAgreesWithGet for every memory.
SearchIsSafe ==
  Asked("search") => SearchAgreesWithGet(asked.actor, asked.query, Memories)

\* MemoryService.summarize: SummaryKeepsAudience for every reader.
SummaryIsSafe ==
  Asked("summary") =>
    \A b \in Actors : SummaryKeepsAudience(asked.actor, b, asked.memories)

\* ModelTrace.verify: a lost, changed or renumbered record is noticed; only
\* records missing at the end are not, the trace having no head.
TraceDamageNoticed ==
  Asked("trace") =>
    /\ TraceVerify(asked.chain)
    /\ \A d \in Damaged(asked.chain, {"x", "y"}) :
         TraceVerify(d) <=> d = SubSeq(asked.chain, 1, Len(d))

\* validate_runbook_budget: CeilingHolds for every schedule of attempts.
CeilingKept == Asked("budget") => \A t \in Times : CeilingHolds(asked.budget, asked.ceiling, t)

\* RBACPolicy.require_runbook: NoCombinedGrant.
GrantsStaySeparate ==
  Asked("grant") =>
    \A p \in {"p", "q"} : \A c \in {"A", "C"} : NoCombinedGrant(asked.roles, p, "x", c)

\* RunbookRegistry and render_argv: RenderedIsReviewed for every value.
CommandsReviewed ==
  Asked("runbook") => \A v \in Values : RenderedIsReviewed(asked.exe, asked.runbook, [u |-> v])

\* Runbook.budget_key: SpellingsShareBudget.
BudgetNotRespelled ==
  Asked("runbook") =>
    \A v, w \in Values : SpellingsShareBudget(asked.runbook, [u |-> v], [u |-> w])

\* _parse_price_tiers: ReservationCovers for every number of tokens.
TiersCover ==
  Asked("tiers") => \A e, u \in Tokens : ReservationCovers(asked.tiers, e, u)

\* load_provider_integrations: CredentialsServeOnePurpose.
CredentialsSeparate == Asked("registry") => CredentialsServeOnePurpose(asked.accounts)

\* build_catalogue_runtime_plan against _parse_provider: GeneratedIsAccepted.
AdaptersFit == Asked("adapter") => GeneratedIsAccepted(asked.account, asked.card, asked.model)

\* The pure policies answer every question rightly.  The orchestrator: the stakes,
\* the doubt and the record of failures of a request count in its routing, and its
\* trace shows damage.  The broker and the memory let nothing through that a
\* reviewed policy, taken as a whole, does not: no budget above the ceiling, no
\* grant put together from several roles, no command that was not reviewed, no
\* second budget for another spelling, no memory found or summarised for people
\* who may not read it.
PoliciesHold ==
  /\ StakesRouted /\ BarFollowsDoubt /\ FailuresNotRewarded /\ TraceDamageNoticed
  /\ CeilingKept /\ GrantsStaySeparate /\ CommandsReviewed /\ BudgetNotRespelled
  /\ SearchIsSafe /\ SummaryIsSafe

\* What the orchestrator starts with was reviewed, is paid from one account, and
\* reserves as much as it may cost; what it takes for the balance of a provider was
\* answered for the registry it has loaded; and no credential of the administration
\* serves an inference or the other way round.
AdmissionHolds ==
  /\ RunningIsReviewed /\ ReservesThePeak /\ SpendingStaysOnAccount
  /\ TiersCover /\ AdaptersFit
  /\ RefreshesHold /\ CredentialsSeparate

\* Campaigns and refreshes end, however hot the machine and whoever dies.
PoliciesEnd == CampaignEnds /\ RefreshesEnd
=============================================================================
