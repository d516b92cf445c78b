----------------------------- MODULE BrokerPolicy -----------------------------
(***************************************************************************)
(* What the broker's configuration admits: the budgets and the grants of   *)
(* policy.py, and the runbooks and the commands rendered from them of      *)
(* runbooks.py.                                                            *)
(*                                                                         *)
(* A word of a command is [kind, text]: a literal, a parameter (a          *)
(* placeholder that fills the whole argument) or "mixed" (a brace within a *)
(* word).  A value that a caller supplies is [type, text, uuid, dash,      *)
(* clean]: its JSON type, its text, the canonical spelling if it is a      *)
(* UUID, whether it starts with a dash and whether it is free of control   *)
(* characters.  A runbook is [class, argv, parameters, budget, key]:       *)
(* parameters maps names to [kind, values], key is the set of names in the *)
(* budget's key, and argv is <<>> when there is no command.                *)
(***************************************************************************)
EXTENDS Integers, FiniteSets, Sequences

CONSTANTS Absolute,     \* the texts that are absolute paths
          Shells,       \* shells and env
          SafeValues    \* texts that an enumeration may list

\* A policy without sudo has "none" for its path.
ASSUME AbsoluteAssumption == "none" \notin Absolute

-----------------------------------------------------------------------------
(* ActionPolicy                                                            *)

\* validate_runbook_budget
BudgetAccepted(b, ceiling) == b.attempts <= ceiling.attempts /\ b.window >= ceiling.window

\* The attempts at these times were all admitted by a budget: fewer than its
\* number lie within the window that ends with each.
AllAdmitted(times, b) ==
  \A i \in DOMAIN times :
    Cardinality({j \in 1 .. i - 1 : times[j] >= times[i] - b.window}) < b.attempts

\* require_approval_actor: without configured actors nobody approves.
MayApprove(actors, actor) == actors # {} /\ actor \in actors

-----------------------------------------------------------------------------
(* RBACPolicy: a role is [projects, runbooks, classes], an actor a set of  *)
(* roles                                                                   *)

HasProject(roles, project) == \E r \in roles : project \in r.projects

\* require_runbook
MayRun(roles, project, runbook, class) ==
  /\ HasProject(roles, project)
  /\ \E r \in roles : project \in r.projects /\ runbook \in r.runbooks /\ class \in r.classes

-----------------------------------------------------------------------------
(* ExecutablePolicy: [executables, sudo, helpers]                          *)

\* _validate_paths
PathsAccepted(exe) ==
  exe.executables \union exe.helpers \union ({exe.sudo} \ {"none"}) \subseteq Absolute \ Shells

\* validate_argv_template, of a template whose first word is absolute.
TemplateAccepted(exe, argv) ==
  /\ argv[1].text \notin Shells
  /\ IF exe.sudo # "none" /\ argv[1].text = exe.sudo
     THEN /\ Len(argv) > 2 /\ argv[2].kind = "literal" /\ argv[2].text = "-n"
          /\ argv[3].kind = "literal" /\ argv[3].text \in exe.helpers
     ELSE argv[1].text \in exe.executables

-----------------------------------------------------------------------------
(* _parameter_spec and _load_runbook                                       *)

SpecAccepted(spec) == spec.kind = "enum" => spec.values # {} /\ spec.values \subseteq SafeValues

WordAccepted(word, parameters) ==
  \/ word.kind = "literal"
  \/ /\ word.kind = "parameter" /\ word.text \in DOMAIN parameters
     /\ parameters[word.text].kind # "string"

RunbookAccepted(exe, rb) ==
  /\ \A name \in DOMAIN rb.parameters : SpecAccepted(rb.parameters[name])
  /\ IF rb.argv = <<>> THEN rb.class = "C"
     ELSE /\ \A i \in DOMAIN rb.argv : WordAccepted(rb.argv[i], rb.parameters)
          /\ rb.argv[1].kind = "literal" /\ rb.argv[1].text \in Absolute
          /\ TemplateAccepted(exe, rb.argv)
  /\ rb.budget <=> rb.class = "B"
  /\ rb.budget => rb.key \subseteq DOMAIN rb.parameters

-----------------------------------------------------------------------------
(* validate_parameters, render_argv and budget_key                         *)

\* ParameterSpec.validate; the bounds of integers and texts are left out.
ValueAccepted(spec, v) ==
  CASE spec.kind = "enum"    -> v.type = "str" /\ v.text \in spec.values
    [] spec.kind = "uuid"    -> v.type = "str" /\ v.uuid # "none"
    [] spec.kind = "string"  -> v.type = "str" /\ v.clean
    [] spec.kind = "integer" -> v.type = "int"
    [] spec.kind = "boolean" -> v.type = "bool"

\* A UUID is spelled canonically from here on; canonical UUIDs have no dash first.
Normalized(spec, v) ==
  IF spec.kind = "uuid" THEN [v EXCEPT !.text = v.uuid, !.dash = FALSE, !.clean = TRUE] ELSE v

ParametersAccepted(rb, supplied) ==
  /\ DOMAIN supplied = DOMAIN rb.parameters
  /\ \A name \in DOMAIN supplied : ValueAccepted(rb.parameters[name], supplied[name])

Validated(rb, supplied) ==
  [name \in DOMAIN supplied |-> Normalized(rb.parameters[name], supplied[name])]

\* render_argv refuses a value that looks like an option or has a control character.
Renderable(rb, values) ==
  \A i \in DOMAIN rb.argv : rb.argv[i].kind = "parameter" =>
    LET v == values[rb.argv[i].text] IN ~ v.dash /\ v.clean

RenderArgv(rb, values) ==
  [i \in DOMAIN rb.argv |->
     IF rb.argv[i].kind = "parameter" THEN values[rb.argv[i].text].text ELSE rb.argv[i].text]

BudgetKey(rb, values) == [name \in rb.key |-> values[name].text]

-----------------------------------------------------------------------------
(* Properties                                                              *)

\* A runbook's own budget, once accepted, never lets a sequence of attempts
\* through that the global ceiling would stop.
CeilingHolds(b, ceiling, times) ==
  BudgetAccepted(b, ceiling) /\ AllAdmitted(times, b) => AllAdmitted(times, ceiling)

\* Roles do not combine: whoever may run a runbook could do so with one of
\* his roles alone.
NoCombinedGrant(roles, project, runbook, class) ==
  MayRun(roles, project, runbook, class) =>
    \E r \in roles : MayRun({r}, project, runbook, class)

\* What an accepted runbook renders for any accepted parameters: the program,
\* and the one that sudo starts, are on the list and no shell, and every other
\* word is in the runbook, is one of the values it enumerates, or is a UUID, a
\* number or a boolean that does not look like an option.
RenderedIsReviewed(exe, rb, supplied) ==
  LET values == Validated(rb, supplied)
      argv   == RenderArgv(rb, values) IN
  PathsAccepted(exe) /\ RunbookAccepted(exe, rb) /\ rb.argv # <<>>
    /\ ParametersAccepted(rb, supplied) /\ Renderable(rb, values)
  => /\ argv[1] \in (exe.executables \union {exe.sudo}) \ Shells
     /\ argv[1] = exe.sudo => argv[3] \in exe.helpers \ Shells
     /\ \A i \in DOMAIN argv :
          \/ argv[i] = rb.argv[i].text /\ rb.argv[i].kind = "literal"
          \/ argv[i] \in SafeValues
          \/ supplied[rb.argv[i].text].type \in {"int", "bool"}
          \/ argv[i] = supplied[rb.argv[i].text].uuid

\* Two spellings of the same parameters draw on the same budget, so that a
\* budget cannot be used twice by writing a UUID in another way.
SpellingsShareBudget(rb, supplied, other) ==
  LET same(a, b) == a.type = b.type /\ a.uuid = b.uuid /\ (a.uuid = "none" => a.text = b.text)
      uuids == {name \in DOMAIN rb.parameters : rb.parameters[name].kind = "uuid"} IN
  /\ ParametersAccepted(rb, supplied) /\ ParametersAccepted(rb, other)
  /\ rb.key \subseteq uuids
  /\ \A name \in DOMAIN rb.parameters : same(supplied[name], other[name])
  => BudgetKey(rb, Validated(rb, supplied)) = BudgetKey(rb, Validated(rb, other))
=============================================================================
