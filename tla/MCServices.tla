----------------------------- MODULE MCServices -----------------------------
(* Values of the constants of Services that a .cfg cannot write.             *)
EXTENDS Services

\* A chat sender is mapped by its stable id, or else by its display name: to
\* the action's creator from Slack, to another user from Telegram.
ChatSender == {[id |-> "ana", name |-> "bo"]}
Approvers == [slack |-> [ana |-> "u", bo |-> "v"], telegram |-> [ana |-> "nobody", bo |-> "v"]]
AgentName == [log |-> "log-analyst", metrics |-> "metrics-analyst", k8s |-> "k8s-expert"]
AdviceForm == [x |-> "x"]
AgentTimeout == [log |-> 1, metrics |-> 2, k8s |-> 2]
None == <<>>
\* Two threads have a query each, and one may ask either.
QueriesOf == <<{"q"}, {"r"}, {"q", "r"}>>
AlertRule == {[name |-> "cpu", severity |-> "warning"], [name |-> "cpu", severity |-> "critical"],
              [name |-> "disk", severity |-> "warning"]}
HomePod == [a |-> "A", b |-> "A"]

-----------------------------------------------------------------------------
(* Inputs of the pure functions                                              *)

Job == [failed : BOOLEAN, age : 0..3]
Jobs == {jobs \in [{"j", "k", "l"} -> Job] : \A m, n \in {"j", "k", "l"} : jobs[m].age = jobs[n].age => m = n}
MCTargetsInput ==
  [jobs : Jobs, hours : 0..1, keep : 0..2]
    \cup [current : 0..4, asked : [relative : BOOLEAN, by : -3..5], low : 0..2, high : 0..4]

Key == [class : {"plain", "secret", "pii"}, index : {FALSE}] \cup {[class |-> "plain", index |-> TRUE]}
Path == {p \in UNION {[1..n -> Key] : n \in 1..2} : ~p[1].index}
Leaf == [path : Path, value : [is : {"text", "number"}, wraps : {0}]]
\* Two leaves of one configuration: their paths part below a common object or list.
Apart(leaf, other) == \E n \in DOMAIN leaf.path \cap DOMAIN other.path :
  /\ \A i \in 1..n - 1 : leaf.path[i] = other.path[i]
  /\ leaf.path[n] # other.path[n] /\ leaf.path[n].index = other.path[n].index
Value == [kind : {"integer", "string", "boolean"}, n : 0..2]
RuleOf(type, required, fields) ==
  [type |-> type, required |-> required, low |-> 1, high |-> 1, fields |-> fields]
Rules(port, needed) ==
  [project |-> RuleOf("object", TRUE, [name |-> RuleOf("string", TRUE, <<>>), port |-> RuleOf(port, needed, <<>>)]),
   monitoring |-> RuleOf("object", FALSE, [name |-> RuleOf("string", FALSE, <<>>)]),
   alerting |-> RuleOf("object", FALSE, [name |-> RuleOf("string", TRUE, <<>>)])]
Object(fields, n) == [kind |-> "object", n |-> n, fields |-> fields]
Fields == UNION {[names -> Value] : names \in SUBSET {"name", "port"}}
Text == [kind |-> "string", n |-> 1, fields |-> <<>>]
Configuration ==
  {<<>>} \cup [{"project"} -> {Object(f, 0) : f \in Fields} \cup {Text}]
    \cup [{"project", "monitoring"} -> {Object(f, n) : f \in {[name |-> v] : v \in Value}, n \in 0..1} \cup {Text}]
    \cup [project : {Object([name |-> [kind |-> "string", n |-> 1]], 0)}, monitoring : {Object(<<>>, 1)},
          alerting : {Text} \cup {Object(f, 0) : f \in {<<>>} \cup {[name |-> v] : v \in Value}}]
MCChecksInput ==
  [leaves : {{p[1], p[2]} : p \in {q \in Leaf \X Leaf : q[1] = q[2] \/ Apart(q[1], q[2])}},
   level : Checks!Level]
    \cup [config : Configuration, rules : {Rules(port, needed) : port \in {"integer", "number"}, needed \in BOOLEAN}]

Service == {s \in [external : BOOLEAN, database : BOOLEAN, auth : BOOLEAN, primary : BOOLEAN,
                   answer : {"ok", "error", "none"}, slow : {FALSE}] :
              /\ s.external => ~s.database /\ ~s.auth /\ ~s.primary
              /\ s.primary => s.database # s.auth}
MCHealthInput ==
  [configured : SUBSET Health!Source, ends : [Health!Source -> {"answers", "hangs"}],
   services : {<<>>}, failing : {0}]
    \cup [configured : {{}}, ends : {[s \in Health!Source |-> "hangs"]},
          services : [1..2 -> Service], failing : {2}]

Command ==
  {<<"kubectl", <<"delete", "pods", "x">>>>, <<"kubectl", <<"get", "pods">>>>,
   <<"kubectl", <<"scale", "deployment", "x">>>>, <<"helm", <<"uninstall", "x">>>>,
   <<"helm", <<"list">>>>, <<"argocd", <<"app", "sync", "x">>>>, <<"argocd", <<"app", "get", "x">>>>}
FlagsOf(binary) ==
  CASE binary = "kubectl" -> {<<>>, <<"-n", "x">>, <<"--force">>, <<"-A", "-n", "x">>}
    [] binary = "helm" -> {<<>>, <<"-n", "x">>, <<"--debug">>, <<"--debug", "-n", "x">>}
    [] binary = "argocd" -> {<<>>, <<"--grpc-web">>, <<"--server", "x">>}
MCCommandsInput ==
  [command : Command]
    \cup [at : 0..168, start : {0, 9, 18}, end : {2, 17, 24}, days : {{0}, {4, 5}, 0..4, 0..6}]

PlanToken ==
  {Plans!Word(w) : w \in {"apply", "rollout", "restart", "upgrade", "deployment", "x", "sync"}}
    \cup {Plans!Flag("n"), Plans!Flag("f"), Plans!Glued("namespace", "x")}
MCPlansInput ==
  [binary : {"kubectl", "helm", "argocd"}, tokens : UNION {[1..n -> PlanToken] : n \in 0..3}]
    \cup [binary : {"kubectl"}, tokens : {<<Plans!Word("rollout"), Plans!Word("restart")>> \o t :
                                            t \in [1..3 -> PlanToken]}]

\* "p" and "q" are trusted proxies.
Hop == {"a", "p", "bad", ""}
MCBucketInput ==
  [direct : {"p", "a", ""}, seen : {"a", "b", "p", "bad"}, real : {"b", "bad", ""},
   written : UNION {[1..n -> Hop] : n \in 0..2}]

\* The quotas of a prompt, and the rungs they are tightened to, in small.
Rung(trigger, error, info) ==
  [trigger |-> trigger, quota |-> [critical |-> 3, error |-> error, warning |-> 0, info |-> info]]
MCBudgetInput ==
  [logs : UNION {[1..n -> [level : {"fatal", "err", "debug"}, size : {1, 3}]] : n \in 0..3},
   low : {1, 2, 4}, high : {2, 4, 7}]
MCLadder == <<Rung(2, 1, 1), Rung(0, 1, 0)>>
=============================================================================
