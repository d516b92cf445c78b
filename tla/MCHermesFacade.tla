--------------------------- MODULE MCHermesFacade ---------------------------
(* A small instance of HermesFacade for TLC: two providers of one account, *)
(* the second in configuration order the cheaper one, and two chats.       *)
EXTENDS HermesFacade, TLC

CONSTANTS c1, c2, dear, cheap, acct

MCCalls == Chats \X Providers
MCMissions == 0..MaxDay
MCAccountOf == [p \in Providers |-> acct]
MCPool == <<dear, cheap>>
MCPriceOf == (dear :> [input |-> 2, output |-> 3]) @@ (cheap :> [input |-> 1, output |-> 1])
Cap(calls, tokens, cost) == [calls |-> calls, tokens |-> tokens, cost |-> cost]
MCProviderBudget ==
  (dear :> [day |-> Cap(1, 3, 4), month |-> Cap(2, 6, 6), mission |-> 5])
    @@ (cheap :> [day |-> Cap(1, 4, 2), month |-> Cap(2, 4, 3), mission |-> 2])
MCAccountBudget ==
  [a \in {acct} |-> [day |-> Cap(2, 5, 4), month |-> Cap(2, 6, 5), task |-> Cap(1, 4, 4)]]
MCBodies == {[wellFormed |-> TRUE, stream |-> s, size |-> 1, output |-> 2] : s \in BOOLEAN}
              \cup {[wellFormed |-> FALSE, stream |-> FALSE, size |-> 1, output |-> 1]}
MCReports == {[input |-> 1, output |-> 1], [input |-> 1, output |-> 2]}
=============================================================================
