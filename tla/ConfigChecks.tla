----------------------------- MODULE ConfigChecks -----------------------------
(***************************************************************************)
(* The checks of a configuration before it is stored or shown (backend/app/   *)
(* configmgmt/security.py and validation.py).  A configuration is a set of    *)
(* leaves: the path of keys to a value, and the value.  A key is a record of   *)
(* its name's class and of whether it is a position in a list; a value has a   *)
(* kind, and a string has been encrypted so many times.                       *)
(***************************************************************************)
EXTENDS Naturals, Sequences, SequencesExt

\* _is_secret_field, _is_pii_field: the name contains a listed word.
IsSecret(key) == key.class = "secret" /\ ~key.index
IsPii(key) == key.class = "pii" /\ ~key.index
Level == {"public", "internal", "confidential", "secret"}

\* sanitize_config replaces everything under a secret key, and at the public
\* level everything under a personal one.
Hides(key, level) == IsSecret(key) \/ (level = "public" /\ IsPii(key))
\* A plausible slip: only the last key is looked at.
HiddenAtEnd(path, level) == IF Hides(Last(path), level) THEN Len(path) ELSE 0
HiddenAt(path, level) ==
  SelectInSeq(path, LAMBDA key : Hides(key, level))
Redacted == [is |-> "redacted", wraps |-> 0]
SanitizeLeaf(leaf, level) ==
  LET at == HiddenAt(leaf.path, level)
  IN  IF at = 0 THEN leaf
      ELSE [path |-> SubSeq(leaf.path, 1, at), value |-> Redacted]
Sanitize(config, level) == {SanitizeLeaf(leaf, level) : leaf \in config}

\* encrypt_secrets and decrypt_secrets: strings right under a secret key.
IsString(value) == value.is # "number"
IsToken(value) == value.wraps > 0
Encrypts(leaf) == IsSecret(Last(leaf.path)) /\ IsString(leaf.value)
Encrypt(config) ==
  {IF Encrypts(leaf) THEN [leaf EXCEPT !.value.wraps = @ + 1] ELSE leaf : leaf \in config}
Decrypt(config) ==
  {IF Encrypts(leaf) /\ IsToken(leaf.value) THEN [leaf EXCEPT !.value.wraps = @ - 1] ELSE leaf : leaf \in config}

\* scan_for_secrets does not enter lists.
Scan(config) ==
  {path \in UNION {{SubSeq(leaf.path, 1, n) : n \in DOMAIN leaf.path} : leaf \in config} :
     IsSecret(Last(path)) /\ \A i \in DOMAIN path : ~path[i].index}

-----------------------------------------------------------------------------
(* validation.py: a value has a kind, a number and, when it is an object, its  *)
(* fields; a rule has a type, limits and, for an object, the rules inside.    *)

\* In the code's language a boolean is an integer as well.
Numeric(rule) == IF rule.type = "integer" THEN {"integer", "boolean"}
                 ELSE {"integer", "number", "boolean"}
Fits(value, rule) ==
  CASE rule.type \in {"integer", "number"} ->
         value.kind \in Numeric(rule) /\ rule.low <= value.n /\ value.n <= rule.high
    [] rule.type = "string" -> value.kind = "string" /\ value.n >= rule.low
    [] rule.type = "boolean" -> value.kind = "boolean"
    [] rule.type = "object" -> TRUE

\* _validate_schema: the fields of one object.
FieldErrors(fields, rules) ==
  {f \in DOMAIN rules : \/ rules[f].required /\ f \notin DOMAIN fields
                        \/ f \in DOMAIN fields /\ ~Fits(fields[f], rules[f])}
NestedErrors(fields, rules) ==
  UNION {{<<f, g>> : g \in FieldErrors(fields[f].fields, rules[f].fields)} :
           f \in {f \in DOMAIN rules \cap DOMAIN fields :
                    rules[f].type = "object" /\ fields[f].kind = "object"}}
\* _custom_validations of a project: what the schema let pass.  A section that
\* is not an object raises, and the request fails; n counts the monitoring
\* sources of the monitoring section.
Section(config, name) ==
  IF name \in DOMAIN config THEN config[name] ELSE [kind |-> "object", n |-> 0, fields |-> <<>>]
ProjectVerdict(config, rules) ==
  LET project == Section(config, "project")
      monitoring == Section(config, "monitoring")
      named == "name" \in DOMAIN project.fields /\ project.fields["name"].n > 0
  IN  IF project.kind # "object" \/ monitoring.kind # "object" THEN "raises"
      ELSE IF /\ FieldErrors(config, rules) = {} /\ NestedErrors(config, rules) = {}
              /\ named /\ monitoring.n > 0
           THEN "valid" ELSE "invalid"

-----------------------------------------------------------------------------
(* What is logged or shown never holds a secret, however deep it lies, looks   *)
(* the same whether or not it was encrypted, and is left as it is when it is   *)
(* sanitised twice; a secret outside a list is reported by the scan; and what  *)
(* is decrypted is what was encrypted (security.py 70-105, 138-237, 333-369).  *)
SecretsStayHidden(config, level) ==
  /\ \A leaf \in Sanitize(config, level) :
       (\E i \in DOMAIN leaf.path : IsSecret(leaf.path[i])) => leaf.value = Redacted
  /\ Sanitize(Sanitize(config, level), level) = Sanitize(config, level)
  /\ Sanitize(Encrypt(config), level) = Sanitize(config, level)
  /\ (\A leaf \in config : ~IsToken(leaf.value)) => Decrypt(Encrypt(config)) = config
  /\ \A leaf \in Sanitize(config, "secret") :
       leaf.value = Redacted /\ (\A i \in DOMAIN leaf.path : ~leaf.path[i].index)
         => leaf.path \in Scan(config)

(* A valid project has all it needs: the sections it opens are objects, and   *)
(* never taken for one when they are not; every required section is there and *)
(* fits its rule, as does every field of a section; and something is monitored *)
(* (validation.py 286-381).                                                   *)
ValidIsComplete(config, rules) ==
  ProjectVerdict(config, rules) = "valid" =>
    /\ "monitoring" \in DOMAIN config
    /\ \A f \in DOMAIN config \cap {"project", "monitoring"} : config[f].kind = "object"
    /\ \A f \in DOMAIN rules : rules[f].required => f \in DOMAIN config
    /\ \A f \in DOMAIN rules \cap DOMAIN config :
         /\ Fits(config[f], rules[f])
         /\ config[f].kind = "object" /\ rules[f].type = "object" =>
              \A g \in DOMAIN rules[f].fields :
                /\ rules[f].fields[g].required => g \in DOMAIN config[f].fields
                /\ g \in DOMAIN config[f].fields => Fits(config[f].fields[g], rules[f].fields[g])
=============================================================================
