------------------------ MODULE MCOrchestratorRoutes ------------------------
(***************************************************************************)
(* A small instance of OrchestratorRoutes for TLC ("route"): a local model,*)
(* a remote one that executes important requests, and two of another       *)
(* account and model family that can verify it, one more than the calls    *)
(* that are left; an important request, one that must stay on the machine, *)
(* and one that a deterministic tool can serve.  And of ModelOutcomes      *)
(* ("outcome"): two routes that rank and ask the same two models.          *)
(***************************************************************************)
EXTENDS OrchestratorRoutes, ModelOutcomes

VARIABLE part   \* which of the two this behaviour is about

CONSTANTS r1, r2, m1, local, expert, coder, premium, acctA, acctB, famF, famG, pr1, pr2,
          ask, fix, NULL

MCCalls == Routes \X (1..2)
MCAccountOf == [p \in Providers |-> CASE p = local   -> NoAccount
                                     [] p = premium -> acctB
                                     [] OTHER       -> acctA]
MCFamilyOf == [p \in Providers |-> CASE p = local   -> NoAccount
                                    [] p = premium -> famG
                                    [] OTHER       -> famF]
MCRoleOf == (local :> "LOCAL_OPS") @@ (expert :> "REASONING")
              @@ (coder :> "CODER") @@ (premium :> "PREMIUM")
Strong == [instructions |-> 9, reliability |-> 9, reasoning |-> 10,
           factuality |-> 9, general |-> 9]
MCProfile == [p \in Providers |-> Strong]
MCPriceOf == [p \in Providers |->
                IF p \in Local THEN [input |-> 0, output |-> 0]
                ELSE [input |-> 1, output |-> 2]]
Cap(n, tokens, cost) == [calls |-> n, tokens |-> tokens, cost |-> cost]
MCProviderBudget ==
  [p \in Providers |-> [day |-> Cap(1, 3, 3), month |-> Cap(2, 4, 4), mission |-> 4]]
MCAccountBudget ==
  [a \in {acctA, acctB} |-> [day |-> Cap(2, 2, 3), month |-> Cap(2, 4, 3),
                             task |-> Cap(1, 2, 2)]]

Request(task, risk, remote, deterministic, project) ==
  [task |-> task, risk |-> risk, urgency |-> "NORMAL", complexity |-> 50,
   impact |-> 50, confidence |-> 90, size |-> 1, deterministic |-> deterministic,
   remote |-> remote, mission |-> m1, project |-> project, maxCost |-> 4]
MCRequests == {Request("ANALYZE", "CRITICAL", TRUE, FALSE, pr1),
               Request("ANALYZE", "LOW", FALSE, FALSE, pr1),
               Request("OBSERVE", "LOW", TRUE, TRUE, pr2)}
MCReports == {[input |-> 1, output |-> 0], [input |-> 2, output |-> 1]}

MCAccountConfigs == {[p \in Ranked |-> a] : a \in {acctA, acctB}}
                      \cup {[p \in Ranked |-> IF p = expert THEN NULL ELSE acctB]}
FirstDaemon == [phase |-> "down", version |-> "none", account |-> [p \in Ranked |-> acctA]]

MCInit ==
  /\ part \in {"route", "outcome"}
  /\ Init /\ OutcomesInit
  /\ part = "route" => daemon = FirstDaemon

InRoute(A)   == part = "route" /\ A /\ UNCHANGED <<outcomeVars, part>>
InOutcome(A) == part = "outcome" /\ A /\ UNCHANGED <<vars, part>>
MCNext == InRoute(Next) \/ InOutcome(OutcomesNext)
MCSpec == MCInit /\ [][MCNext]_<<vars, outcomeVars, part>>

RouteSymmetry == Permutations(Routes)
=============================================================================
