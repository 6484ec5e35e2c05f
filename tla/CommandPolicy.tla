---------------------------- MODULE CommandPolicy ----------------------------
(* What is decided about a command before it runs: how it is parsed, which    *)
(* permission it needs, who has it, how much it is thought to affect and when *)
(* it may run.  Pure functions of their inputs (backend/app/actions/parser,   *)
(* validator, impact_estimator, time_window_enforcer and                      *)
(* backend/app/governance).  A command is a sequence of tokens; the words     *)
(* that matter are named, "x" stands for any other word.                      *)
EXTENDS Windows, SequencesExt, FiniteSetsExt

NoWord == "none"
Rest(s, i) == SubSeq(s, i, Len(s))
WordAt(s, i) == IF i \in 1..Len(s) THEN s[i] ELSE NoWord

Flags == {"-n", "--namespace", "--force", "-A", "--grpc-web", "--server", "--debug"}
IsFlag(token) == token \in Flags

------------------------------------------------------------------------------
(* The parser. *)

KubectlVerbs == {"get", "describe", "logs", "delete", "exec", "rollout",
                 "scale", "top", "apply"}
KubectlTypes == {"pod", "pods", "deployment", "nodes", "namespaces", "secrets"}
HelmVerbs == {"install", "upgrade", "uninstall", "rollback", "list", "status"}
ArgoTypes == {"app", "cluster", "project"}
BooleanFlags(binary) == IF binary = "kubectl" THEN {"-A", "--force"} ELSE {}
TakesValue(binary) ==
    CASE binary = "helm"   -> {"-n", "--namespace"}
      [] binary = "argocd" -> {"--server"}
      [] OTHER             -> {}

(* The words of a command that are neither flags nor the value of one: a flag *)
(* that is not known to be boolean takes the next word as its value.          *)
Positionals(tokens, boolean) ==
    LET at == {i \in DOMAIN tokens :
                 /\ ~IsFlag(tokens[i])
                 /\ i > 1 => tokens[i-1] \notin Flags \ boolean}
        words == Kept([i \in DOMAIN tokens |-> i], at)
    IN  [k \in DOMAIN words |-> tokens[words[k]]]

\* A slip: the value of a global flag is taken for the action.
SkipFlagsOnly(tokens, first, valued) ==
    LET at == {i \in first..Len(tokens) : ~IsFlag(tokens[i])}
    IN  IF at = {} THEN Len(tokens) + 1 ELSE Min(at)

\* The first token at or after first that is no global flag and no value of one.
SkipGlobalFlags(tokens, first, valued) ==
    LET at == {i \in first..Len(tokens) :
                 ~IsFlag(tokens[i]) /\ (i > first => tokens[i-1] \notin valued)}
    IN  IF at = {} THEN Len(tokens) + 1 ELSE Min(at)

ParseKubectl(tokens) ==
    LET args == Positionals(Tail(tokens), BooleanFlags("kubectl"))
        verbs == Kept(args, KubectlVerbs)
        types == Kept(args, KubectlTypes)
        others == Kept(args, Range(args) \ (KubectlVerbs \cup KubectlTypes))
    IN  [action |-> WordAt(verbs, 1), type |-> WordAt(types, 1),
         name |-> WordAt(others, 1), args |-> args]

\* The token at i, unless it is a flag.
PlainAt(tokens, i) == IF IsFlag(WordAt(tokens, i)) THEN NoWord ELSE WordAt(tokens, i)

ParseHelm(tokens) ==
    LET at == SkipGlobalFlags(tokens, 2, TakesValue("helm"))
        known == WordAt(tokens, at) \in HelmVerbs
        next == IF known THEN at + 1 ELSE 2
        name == PlainAt(tokens, next)
        chart == IF name # NoWord THEN PlainAt(tokens, next + 1) ELSE NoWord
    IN  [action |-> IF known THEN tokens[at] ELSE NoWord, type |-> NoWord,
         name |-> name,
         args |-> (IF chart = NoWord THEN <<>> ELSE <<chart>>)
                    \o Positionals(Tail(tokens), {})]

ParseArgocd(tokens) ==
    LET at == SkipGlobalFlags(tokens, 2, TakesValue("argocd"))
        known == WordAt(tokens, at) \in ArgoTypes
        next == IF known THEN at + 1 ELSE 2
    IN  [action |-> PlainAt(tokens, next), type |-> IF known THEN tokens[at] ELSE NoWord,
         name |-> WordAt(tokens, next + 1), args |-> Positionals(Tail(tokens), {})]

Parse(tokens) ==
    CASE tokens[1] = "kubectl" -> ParseKubectl(tokens)
      [] tokens[1] = "helm"    -> ParseHelm(tokens)
      [] tokens[1] = "argocd"  -> ParseArgocd(tokens)
      [] OTHER -> [action |-> NoWord, type |-> NoWord, name |-> NoWord,
                   args |-> Positionals(tokens, {})]

------------------------------------------------------------------------------
(* Permissions. *)

Environment == {"development", "staging", "production", "production-read-only"}
AllPermissions == {"view", "modify", "create", "delete", "execute", "scale",
                   "rollback", "approve"}
Matrix(environment) ==
    CASE environment \in {"development", "dev"} -> AllPermissions
      [] environment \in {"staging", "stage"}   -> AllPermissions \ {"delete"}
      [] environment \in {"production", "prod"} -> {"view", "scale", "approve"}
      [] environment \in {"production-read-only", "prod-read-only"} -> {"view"}
      [] OTHER -> {}

ActionPermissions ==
    << <<"view",     {"get", "describe", "list", "logs", "top"}>>,
       <<"create",   {"apply", "create", "run", "install"}>>,
       <<"modify",   {"update", "patch", "edit", "upgrade", "sync"}>>,
       <<"delete",   {"delete", "remove", "uninstall"}>>,
       <<"scale",    {"scale", "autoscale"}>>,
       <<"rollback", {"rollout", "rollback", "undo"}>>,
       <<"execute",  {"exec", "attach", "cp"}>>,
       <<"approve",  {"approve"}>> >>

\* An action nobody listed needs the permission to execute.
RequiredPermission(action) ==
    LET rows == {i \in DOMAIN ActionPermissions : action \in ActionPermissions[i][2]}
    IN  IF rows = {} THEN "execute" ELSE ActionPermissions[Min(rows)][1]

\* The action of a command: the verb the parser found, else its first word.
ExtractAction(tokens) ==
    LET parsed == Parse(tokens)
        words == Kept(parsed.args, Range(parsed.args) \ {tokens[1]})
    IN  IF parsed.action # NoWord THEN parsed.action
        ELSE IF words # <<>> THEN words[1] ELSE "exec"

\* A local role narrows the matrix of the environment; no role leaves it.
RoleAllows(role, permission, environment) ==
    \/ role \in {"admin", NoWord}
    \/ role = "operator" /\ environment \in {"development", "staging"}
    \/ role = "operator" /\ permission \in {"view", "scale"}
    \/ role = "viewer" /\ permission = "view"

CheckCommand(tokens, environment, role) ==
    LET required == RequiredPermission(ExtractAction(tokens))
    IN  required \in Matrix(environment) /\ RoleAllows(role, required, environment)

\* The Kubernetes account an agent acts with, by environment.
ServiceAccount(environment) ==
    CASE environment \in {"development", "dev"} -> "ai-dev-admin"
      [] environment = "staging"                -> "ai-staging-operator"
      [] OTHER                                  -> "ai-prod-viewer"

------------------------------------------------------------------------------
(* Impact.  The estimator has a parser of its own. *)

Operation(tokens) ==
    LET args == Positionals(Tail(tokens), {})
    IN  [name |-> WordAt(args, 1), args |-> Rest(args, 2)]

ClusterWide(tokens) ==
    LET op == Operation(tokens)
    IN  \/ "-A" \in Range(tokens)
        \/ /\ tokens[1] = "kubectl" /\ op.name \in {"delete", "get"}
           /\ Range(op.args) \cap {"nodes", "namespaces"} # {}
        \/ tokens[1] = "argocd" /\ op.name \in {"repo", "cluster"}

NamespaceWide(tokens) ==
    LET op == Operation(tokens)
    IN  \/ op.name = "delete" /\ WordAt(op.args, 1) \in {"pods", "nodes", "namespaces", "secrets"}
        \/ op.name = "rollout" /\ "restart" \in Range(op.args)

HeuristicCount(type) ==
    CASE type = "pods" -> 20 [] type = "deployments" -> 10
      [] type = "secrets" -> 15 [] OTHER -> 5

\* counts is what the cluster reports by type; Unknown stands for no answer.
Affected(tokens, counts) ==
    LET op == Operation(tokens)
        type == IF op.name = "rollout" THEN "pods" ELSE WordAt(op.args, 1)
    IN  IF type \in DOMAIN counts THEN counts[type]
        ELSE IF Len(op.args) > 1 THEN 1
        ELSE IF op.name \in {"delete", "remove"} /\ op.args # <<>>
             THEN HeuristicCount(op.args[1])
        ELSE IF op.name = "rollout" /\ "restart" \in Range(op.args) THEN 10
        ELSE 1

ImpactLevel(total, clusterWide, namespaceWide) ==
    IF clusterWide \/ (namespaceWide /\ total > 20) \/ total > 100 THEN "critical"
    ELSE IF total <= 5 THEN "low" ELSE IF total <= 20 THEN "medium" ELSE "high"

Impact(tokens, counts) ==
    ImpactLevel(Affected(tokens, counts), ClusterWide(tokens), NamespaceWide(tokens))

------------------------------------------------------------------------------
(* Time windows.  Time is counted in hours from a Monday 00:00; a window has  *)
(* a first hour, an hour it ends before, and the days it is open on.          *)

Hour(t) == t % 24
Day(t) == (t \div 24) % 7

DefaultWindow(environment) ==
    CASE environment = "production" -> [start |-> 9, end |-> 17, days |-> 0..4]
      [] environment \in {"development", "staging"} -> [start |-> 0, end |-> 24, days |-> 0..6]

InWindow(window, t) ==
    /\ Day(t) \in window.days
    /\ IF window.start <= window.end
         THEN window.start <= Hour(t) /\ Hour(t) < window.end
         ELSE Hour(t) >= window.start \/ Hour(t) < window.end

(* The first start of the window strictly after t on a day it is open. *)
NextAllowed(window, t) ==
    LET start(offset) == ((t \div 24) + offset) * 24 + (window.start % 24)
        found == {o \in 0..7 : Day(start(o)) \in window.days /\ start(o) > t}
    IN  IF found = {} THEN start(1) ELSE start(Min(found))

\* An environment without a window of its own is closed.
WindowCheck(environment, t) ==
    /\ environment \in {"production", "development", "staging"}
    /\ InWindow(DefaultWindow(environment), t)

------------------------------------------------------------------------------
(* Properties, over the inputs of the check. *)

\* The flags that take the word behind them.
Valued(binary) ==
  IF binary = "kubectl" THEN Flags \ BooleanFlags(binary) ELSE TakesValue(binary)

\* Flags with their values.
ClosedFlags(binary, flags) ==
  /\ flags \in Seq(STRING)
  /\ \A i \in DOMAIN flags :
       IsFlag(flags[i]) \/ (i > 1 /\ flags[i - 1] \in Valued(binary))
  /\ flags # <<>> => flags[Len(flags)] \notin Valued(binary)

\* Words of which the first ones name what a command does.
NamesAction(binary, words) ==
  /\ words \in Seq(STRING)
  /\ CASE binary = "kubectl" -> words # <<>> /\ words[1] \in KubectlVerbs
       [] binary = "helm"    -> words # <<>> /\ words[1] \in HelmVerbs
       [] binary = "argocd"  -> /\ Len(words) > 1 /\ words[1] \in ArgoTypes
                                /\ ~IsFlag(words[2]) /\ words[2] # NoWord
       [] OTHER              -> FALSE

(* Global flags before the verb and flags at the end of a command change      *)
(* neither the permission it needs nor, therefore, who may run it.            *)
FlagsKeepTheTier(binary, words, front, back) ==
    RequiredPermission(ExtractAction(<<binary>> \o front \o words \o back))
      = RequiredPermission(ExtractAction(<<binary>> \o words))

(* When a command is outside its window, the time announced for a retry is in *)
(* the future and inside the window, and (for a window that does not span     *)
(* midnight) no earlier hour is.                                              *)
NextStartIsAllowed(window, t) ==
    ~InWindow(window, t) =>
        /\ NextAllowed(window, t) > t
        /\ InWindow(window, NextAllowed(window, t))
        /\ window.start <= window.end =>
             \A u \in t..(NextAllowed(window, t) - 1) : ~InWindow(window, u)
==============================================================================
