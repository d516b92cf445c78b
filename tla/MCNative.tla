------------------------------- MODULE MCNative -------------------------------
(***************************************************************************)
(* The connector and the workflows share only the broker, which keeps their*)
(* missions apart: each behaviour is of one of them.                       *)
(***************************************************************************)
EXTENDS NativeConnector, NativeWorkflow

MCAsks == {<<"any", "codex">>, <<"unknown", "codex">>}
MCSteps == <<"control", "vault", "nas">>
MCAfter == [s \in {"control", "vault", "nas"} |-> IF s = "control" THEN {} ELSE {"control"}]

VARIABLE part

mcVars == <<nativeVars, flowVars, part>>

InConnector(A) == part = "connector" /\ A /\ UNCHANGED <<flowVars, part>>
InWorkflow(A) == part = "workflow" /\ A /\ UNCHANGED <<nativeVars, part>>

MCInit ==
  /\ part \in {"connector", "workflow"} /\ NativeInit /\ FlowInit
  /\ part = "workflow" => mode = "cli" /\ online /\ asks = <<"any", "codex">>

MCNext == InConnector(NativeNext) \/ InWorkflow(FlowNext)

\* The worker is a service that systemd restarts, and goes round its loop.
MCSpec == MCInit /\ [][MCNext]_mcVars /\ WF_mcVars(InConnector(WorkerNext))
=============================================================================
