--------------------------- MODULE CommandExecution ---------------------------
(***************************************************************************)
(* The last checks of a command and the command that takes it back            *)
(* (backend/app/actions/executor.py, environment_executor.py,                 *)
(* rollback_executor.py).  A command is a sequence of tokens; a flag is a     *)
(* record of its name and of the value glued to it with "=", or "".           *)
(***************************************************************************)
EXTENDS Naturals, Sequences, SequencesExt, FiniteSets, FiniteSetsExt

Flag(name) == [flag |-> name, glued |-> ""]
Glued(name, value) == [flag |-> name, glued |-> value]
Word(w) == [word |-> w]
IsFlagAt(tokens, i) == i \in DOMAIN tokens /\ "flag" \in DOMAIN tokens[i]
IsWordAt(tokens, i) == i \in DOMAIN tokens /\ "word" \in DOMAIN tokens[i]

-----------------------------------------------------------------------------
\* The tables of CommandExecutor.
Allowed(binary) ==
  CASE binary = "kubectl" ->
         {"get", "describe", "logs", "apply", "delete", "create", "top", "auth",
          "rollout", "scale", "o", "l", "f", "force", "replicas", "wait",
          "n", "namespace", "context"}
    [] binary = "helm" ->
         {"list", "install", "upgrade", "uninstall", "status", "history",
          "rollback", "get", "set", "version", "wait", "n", "namespace"}
    [] binary = "argocd" -> {"app", "repository", "project", "cluster"}
    [] OTHER -> {}
ValueFlags(binary) ==
  CASE binary = "kubectl" -> {"n", "namespace", "context", "o", "l", "f", "replicas"}
    [] binary = "helm" -> {"n", "namespace", "set"}
    [] OTHER -> {}

\* _first_positional: the first word that is not the value of a flag.
IsValue(tokens, i, flags) ==
  /\ IsWordAt(tokens, i) /\ IsFlagAt(tokens, i - 1)
  /\ tokens[i - 1].glued = "" /\ tokens[i - 1].flag \in flags
FirstPositional(binary, tokens) ==
  LET at == {i \in DOMAIN tokens :
               IsWordAt(tokens, i) /\ ~IsValue(tokens, i, ValueFlags(binary))}
  IN  IF at = {} THEN "" ELSE tokens[Min(at)].word

\* validate_command_flags: the command after its binary.
Accepted(binary, tokens) ==
  /\ Allowed(binary) # {}
  /\ FirstPositional(binary, tokens) \in Allowed(binary) \cup {""}
  /\ \A i \in DOMAIN tokens : IsFlagAt(tokens, i) => tokens[i].flag \in Allowed(binary)

\* execute and _execute_safe: what becomes of a command that was accepted.
Execution(binary, tokens, dryRun, ends) ==
  IF tokens = <<>> \/ ~Accepted(binary, tokens) THEN "refused"
  ELSE IF dryRun THEN "passed"
  ELSE CASE ends = "zero" -> "success" [] ends = "hangs" -> "timeout" [] OTHER -> "failure"

\* read_stream_capped: the bytes kept of what a command writes, chunk by chunk.
Captured(chunks, limit) ==
  FoldLeft(LAMBDA kept, chunk : IF kept + chunk > limit THEN limit ELSE kept + chunk, 0, chunks)

-----------------------------------------------------------------------------
\* _generate_rollback_command: the second token is the operation; after it, a
\* flag takes the word behind it, even a flag that has a value glued to it.
Operation(tokens) == IF IsWordAt(tokens, 1) THEN tokens[1].word ELSE ""
Taken(tokens, i) == i > 2 /\ IsWordAt(tokens, i) /\ IsFlagAt(tokens, i - 1)
Arguments(tokens) ==
  LET at == {i \in 2..Len(tokens) : IsWordAt(tokens, i) /\ ~Taken(tokens, i)}
  IN  [n \in 1..Cardinality(at) |->
         tokens[CHOOSE i \in at : Cardinality({j \in at : j <= i}) = n].word]
\* The last value of a flag, "" without the flag; a glued one has another name.
FlagValue(tokens, name) ==
  LET at == {i \in 2..Len(tokens) : tokens[i] = Flag(name)}
  IN  IF at = {} THEN "" ELSE IF IsWordAt(tokens, Max(at) + 1)
                              THEN tokens[Max(at) + 1].word ELSE "True"
Namespace(tokens) ==
  IF FlagValue(tokens, "n") # "" THEN <<Flag("n"), Word(FlagValue(tokens, "n"))>>
  ELSE IF FlagValue(tokens, "namespace") # ""
       THEN <<Flag("namespace"), Word(FlagValue(tokens, "namespace"))>> ELSE <<>>

NoPlan == <<>>
KubectlRollback(tokens) ==
  LET args == Arguments(tokens) file == FlagValue(tokens, "f")
  IN  CASE Operation(tokens) = "apply" /\ file # "" ->
             <<Word("delete"), Flag("f"), Word(file)>> \o Namespace(tokens)
        [] Operation(tokens) = "apply" /\ file = "" /\ args # <<>> ->
             <<Word("delete"), Word(args[1])>> \o Namespace(tokens)
        [] Operation(tokens) = "rollout" /\ Contains(args, "restart") /\ Len(args) >= 3 ->
             <<Word("rollout"), Word("undo"), Word("deployment"), Word(args[3])>>
               \o Namespace(tokens)
        [] OTHER -> NoPlan

HelmRollback(tokens) ==
  LET args == Arguments(tokens)
  IN  CASE Operation(tokens) = "upgrade" /\ args # <<>> ->
             <<Word("rollback"), Word(args[1])>> \o Namespace(tokens)
        [] Operation(tokens) = "install" /\ args # <<>> ->
             <<Word("uninstall"), Word(args[1])>> \o Namespace(tokens)
        [] OTHER -> NoPlan

\* The rule for argocd looks for "app" behind the operation "app".
ArgocdRollback(tokens) ==
  LET args == Arguments(tokens)
      at == {i \in DOMAIN args : args[i] = "app"}
  IN  IF Operation(tokens) = "app" /\ Contains(args, "sync") /\ at # {}
         /\ Min(at) < Len(args)
      THEN <<Word("app"), Word("rollback"), Word(args[Min(at) + 1])>> ELSE NoPlan

Rollback(binary, tokens) ==
  CASE binary = "kubectl" -> KubectlRollback(tokens)
    [] binary = "helm" -> HelmRollback(tokens)
    [] binary = "argocd" -> ArgocdRollback(tokens)
    [] OTHER -> NoPlan

\* should_rollback: the conditions that hold.
Triggered(outcome) ==
  (IF outcome.failed THEN {"action_failed"} ELSE {})
    \cup (IF outcome.errorRate > 50 THEN {"high_error_rate"} ELSE {})
    \cup (IF outcome.unhealthy THEN {"health_check_failed"} ELSE {})
    \cup (IF outcome.latencyRatio > 2 THEN {"latency_spike"} ELSE {})

-----------------------------------------------------------------------------
(* The command that takes an accepted one back is accepted itself, and acts   *)
(* in the namespace that a flag of the first one named                        *)
(* (rollback_executor.py 135-260, executor.py 78-157).                        *)
Given(tokens) == {FlagValue(tokens, "n"), FlagValue(tokens, "namespace")} \ {""}
PlanIsRunnable(binary, tokens) ==
  LET plan == Rollback(binary, tokens)
  IN  Accepted(binary, tokens) /\ plan # NoPlan =>
        /\ Accepted(binary, plan)
        /\ Given(tokens) # {} => Given(plan) # {} /\ Given(plan) \subseteq Given(tokens)
=============================================================================
