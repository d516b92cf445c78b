-------------------------- MODULE MCBrokerActions --------------------------
(* Small instances of BrokerActions for TLC.                               *)
EXTENDS BrokerActions, TLC

CONSTANTS agent, human,            \* an agent and an allowlisted person
          observe, restart, change \* runbooks of class A, B and C

MCClassOf == [k \in Runbooks |-> CASE k = observe -> "A"
                                   [] k = restart -> "B"
                                   [] k = change  -> "C"]

\* The person may also request, so that self-approval can be attempted; the
\* agent is granted everything, the person only the change.
MCGranted == {<<agent, k>> : k \in Runbooks} \cup ({<<human, change>>} \cap (Actors \X Runbooks))

ProcSymmetry == Permutations(Procs)
Symmetry == ProcSymmetry \cup Permutations(Requests) \cup Permutations(DecisionIds)
=============================================================================
