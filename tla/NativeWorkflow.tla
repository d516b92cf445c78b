---------------------------- MODULE NativeWorkflow ----------------------------
(***************************************************************************)
(* The durable workflows of native_ops (workflows.py): steps with          *)
(* dependencies, each an action of the broker under a request id derived   *)
(* from the run.  A run that fails or is killed is started again with the  *)
(* same run id; the installed definition may have changed in between.      *)
(***************************************************************************)
EXTENDS Integers, Sequences

CONSTANTS
  Steps,       \* the steps of the definition, in order
  After,       \* the steps each one waits for
  MaxUpgrades, MaxInterruptions   \* bounds of the model

VARIABLES
  installed,   \* the digest of the installed definition
  recorded,    \* the digest stored with the workflow, 0 if there is none
  steps,       \* the table workflow_steps
  flow,        \* the running process
  actions,     \* the broker's actions, by step
  created,     \* how many actions each step has caused, and from which definitions
  report,      \* what the last run that ended reported
  interruptions

flowVars == <<installed, recorded, steps, flow, actions, created, report, interruptions>>

All == {Steps[n] : n \in DOMAIN Steps}

\* A definition is a list of steps, and a step waits for steps of the list.
ASSUME FlowAssumption == Steps \in Seq(All) /\ After \in [All -> SUBSET All]

Stopped == [at |-> "stopped", n |-> 0]

FlowInit ==
  /\ installed = 1 /\ recorded = 0 /\ flow = Stopped /\ report = "none" /\ interruptions = 0
  /\ steps = [s \in All |-> [phase |-> "pending", known |-> FALSE]]
  /\ actions = [s \in All |-> "none"]
  /\ created = [s \in All |-> [times |-> 0, by |-> {}]]

-----------------------------------------------------------------------------

Enter(place) == flow' = [flow EXCEPT !.at = place]
Current == Steps[flow.n]

MayResume == recorded \in {0, installed}

\* The lock is taken, and the workflow stored unless it is.
StartFlow ==
  /\ flow = Stopped /\ MayResume
  /\ recorded' = IF recorded = 0 THEN installed ELSE recorded
  /\ flow' = [at |-> "next", n |-> 1]
  /\ UNCHANGED <<installed, steps, actions, created, report, interruptions>>

MayRun(s) == \A d \in After[s] : steps[d].phase = "succeeded"

TakeStep ==
  /\ flow.at = "next" /\ flow.n <= Len(Steps)
  /\ IF steps[Current].phase \in {"succeeded", "needs_review"} \/ ~ MayRun(Current)
     THEN flow' = [flow EXCEPT !.n = @ + 1] /\ UNCHANGED steps
     ELSE Enter("request") /\ steps' = [steps EXCEPT ![Current].phase = "requesting"]
  /\ UNCHANGED <<installed, recorded, actions, created, report, interruptions>>

\* Mutant: every run makes up its own request ids.
IsRepliedNever(s) == FALSE

\* The broker answers a request id it has seen with the action of that id.
IsReplied(s) == actions[s] # "none"

\* get_action or request_runbook_action; the latter runs an observation to its end.
RequestStep ==
  /\ flow.at = "request"
  /\ IF steps[Current].known \/ IsReplied(Current)
     THEN UNCHANGED <<actions, created>> /\ Enter("outcome")
     ELSE /\ actions' = [actions EXCEPT ![Current] = "running"] /\ Enter("await")
          /\ created' = [created EXCEPT ![Current].times = @ + 1, ![Current].by = @ \union {installed}]
  /\ UNCHANGED <<installed, recorded, steps, report, interruptions>>

AwaitAction ==
  /\ flow.at = "await" /\ actions[Current] # "running" /\ Enter("outcome")
  /\ UNCHANGED <<installed, recorded, steps, actions, created, report, interruptions>>

BrokerRuns(s) ==
  /\ actions[s] = "running"
  /\ \E r \in {"succeeded", "failed"} : actions' = [actions EXCEPT ![s] = r]
  /\ UNCHANGED <<installed, recorded, steps, flow, created, report, interruptions>>

\* outcome: an action that still runs is left to a person, for good.
Outcome(status) == IF status = "succeeded" THEN "succeeded" ELSE "needs_review"

\* The phase is computed, put on the mission's record, and then stored.
StoreOutcome ==
  /\ flow.at = "outcome"
  /\ steps' = [steps EXCEPT ![Current] = [phase |-> Outcome(actions[Current]), known |-> TRUE]]
  /\ flow' = [at |-> "next", n |-> flow.n + 1]
  /\ UNCHANGED <<installed, recorded, actions, created, report, interruptions>>

Complete == \A s \in All : steps[s].phase = "succeeded"

EndFlow ==
  /\ flow.at = "next" /\ flow.n > Len(Steps)
  /\ report' = IF Complete THEN "succeeded" ELSE "needs_review"
  /\ flow' = Stopped
  /\ UNCHANGED <<installed, recorded, steps, actions, created, interruptions>>

\* A call fails or the process is killed; the tables stay as they are.
Interrupt ==
  /\ flow # Stopped /\ interruptions < MaxInterruptions
  /\ interruptions' = interruptions + 1 /\ flow' = Stopped
  /\ UNCHANGED <<installed, recorded, steps, actions, created, report>>

Upgrade ==
  /\ flow = Stopped /\ installed <= MaxUpgrades /\ installed' = installed + 1
  /\ UNCHANGED <<recorded, steps, flow, actions, created, report, interruptions>>

FlowNext ==
  \/ StartFlow \/ TakeStep \/ RequestStep \/ AwaitAction \/ StoreOutcome \/ EndFlow
  \/ Interrupt \/ Upgrade \/ \E s \in All : BrokerRuns(s)

FlowSpec == FlowInit /\ [][FlowNext]_flowVars

-----------------------------------------------------------------------------
(* Properties                                                              *)

\* "A durable request ID makes interrupted requests safe to reconcile without
\* creating a second action": however often the run is resumed, a step causes
\* one action.
StepActsOnce == \A s \in All : created[s].times <= 1

\* No step is requested unless the action of every step before it succeeded.
StepsInOrder ==
  \A s \in All : created[s].times > 0 => \A d \in After[s] : actions[d] = "succeeded"

\* "A recorded workflow cannot be changed during resumption": the actions of
\* one workflow come from one definition.
OneDefinition == \A s \in All : created[s].by \subseteq {recorded}

\* A workflow reports success only if the action of every step succeeded.
ReportIsTrue == report = "succeeded" => \A s \in All : actions[s] = "succeeded"

\* The steps of a workflow act once, in order, from one definition, and the report
\* of it is true.
StepsHold == StepActsOnce /\ StepsInOrder /\ OneDefinition /\ ReportIsTrue
=============================================================================
