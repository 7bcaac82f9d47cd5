--------------------------- MODULE DataQueryConfig ---------------------------
(***************************************************************************)
(* What data questions are configured with (tau_coding/dataquery:          *)
(* config.py and the setup of extension.py): environment variables over a  *)
(* user file over defaults, two secrets, and a settings page that writes   *)
(* the file. A session that loads registers the data tools only when the   *)
(* configuration is complete.                                              *)
(***************************************************************************)
EXTENDS Naturals, FiniteSets

CONSTANTS
    None,
    Overrides,  \* what the environment may set: a set of functions from some fields
    Payloads    \* what the page may send: functions from some fields and secrets

VARIABLES
    env,      \* environment variables: a function from those that are set
    file,     \* dataquery.json: None, or a function from fields
    secrets,  \* the credentials that are stored
    reply,    \* the answer to the page
    tools     \* the planning mode whose tools the session has, or None

vars == <<env, file, secrets, reply, tools>>

\* Fields that behave alike stand for the others: user for host, database, the
\* modes and names; limit for all numbers.
Default == [user |-> "", endpoint |-> "", source |-> "std", origin |-> "", agent |-> "",
            mode |-> "unconfigured", limit |-> "2"]
Fields  == DOMAIN Default
Secrets == {"password", "token"}
Modes   == {"unconfigured", "legacy", "agent"}
Limits  == {"1", "2"}

Init ==
    /\ env \in Overrides
    /\ file = None /\ secrets = {} /\ reply = "none" /\ tools = None
-----------------------------------------------------------------------------
(* Reading.                                                                *)

\* _string_field, _int_field: "#" is a value of another type.
Parsed(f, v) == IF v = "" THEN Default[f] ELSE v
Parses(f, v) ==
    CASE f = "limit" -> v \in Limits
      [] f = "mode"  -> Parsed(f, v) \in Modes
      [] OTHER       -> v # "#"

FromJson(raw) == [f \in Fields |-> Parsed(f, raw[f])]
ValidJson(raw) == \A f \in Fields : Parses(f, raw[f])

\* load_user_config
User == IF file = None THEN Default ELSE FromJson(file)

\* _env_str, _env_int: an empty variable is no variable.
Override(f) == IF f \in DOMAIN env /\ env[f] # "" THEN env[f] ELSE None
ValidEnv == Override("limit") \in Limits \cup {None}

\* An origin is "bad" when it is not scheme://host:port; "a/" only ends in a slash.
Normal(f, v) == IF f = "origin" /\ v = "a/" THEN "a" ELSE v

First(f) == IF Override(f) # None THEN Override(f) ELSE User[f]

\* resolve_data_query_config
Resolves == ValidEnv /\ (file # None => ValidJson(file)) /\ First("mode") \in Modes
Resolved(f) ==
    IF f = "endpoint" /\ First(f) = "" /\ First("mode") = "legacy" THEN "std" ELSE Normal(f, First(f))

SourceOf(f) == IF Override(f) # None THEN "env" ELSE IF User[f] = Default[f] THEN "default" ELSE "config"

Has(s) == s \in secrets \/ (s = "token" /\ Override(s) # None)

\* Fault: an origin that is set is good enough.
Reachable_Set == Resolved("origin") # "" /\ Resolved("agent") \notin {"", "bad"}

Reachable == Resolved("origin") \notin {"", "bad"} /\ Resolved("agent") \notin {"", "bad"}

Common == Resolved("user") # "" /\ Has("password")

\* ResolvedDataQueryConfig.complete
Complete ==
    /\ Common /\ Has("token")
    /\ \/ Resolved("mode") = "legacy" /\ Resolved("endpoint") # "" /\ Resolved("source") # ""
       \/ Resolved("mode") = "agent" /\ Reachable

\* configuration_diagnostics
Diagnostics ==
    IF Resolved("mode") = "unconfigured" THEN {"mode"}
    ELSE (IF Has("token") THEN {} ELSE {"token"})
         \cup (IF Resolved("mode") = "legacy" THEN {f \in {"endpoint", "source"} : Resolved(f) = ""}
               ELSE {f \in {"origin", "agent"} : Resolved(f) \in {"", "bad"}})
-----------------------------------------------------------------------------
(* The settings page.                                                      *)

\* Fault: what the environment controls is stored as well.
Taken_All(payload) == Fields \cap DOMAIN payload

Taken(payload) == {f \in Fields \cap DOMAIN payload : SourceOf(f) # "env"}

Merged(payload) == [f \in Fields |-> IF f \in Taken(payload) THEN payload[f] ELSE User[f]]

\* Fault: the file is written as sent.
Stored_Raw(payload) == Merged(payload)

Stored(payload) == [f \in Fields |-> Normal(f, FromJson(Merged(payload))[f])]

\* Fault: only the fields are looked at.
Accepts_Fields(payload) == ValidJson(Merged(payload))

\* from_json and _validate_agent_path_inputs
Accepts(payload) ==
    ValidJson(Merged(payload)) /\ \A f \in {"origin", "agent"} : Merged(payload)[f] # "bad"

Given(payload) == {s \in Secrets \cap DOMAIN payload : payload[s] # ""}

\* apply_config_api_update: the file, then the password, then the token.
Update(payload) ==
    LET writes == Taken(payload) # {}
        wrong  == {s \in Secrets \cap DOMAIN payload : payload[s] = "#"}
    IN  /\ IF ~Resolves \/ (writes /\ ~Accepts(payload))
           THEN reply' = "refused" /\ UNCHANGED <<file, secrets>>
           ELSE /\ file' = IF writes THEN Stored(payload) ELSE file
                /\ secrets' = secrets \cup (Given(payload) \ (wrong \cup IF "password" \in wrong THEN {"token"} ELSE {}))
                /\ reply' = IF wrong = {} THEN "saved" ELSE "refused"
        /\ UNCHANGED <<env, tools>>

\* dataquery_configured
Configured == file # None \/ \E f \in DOMAIN env : env[f] # ""

\* A session loads its extensions; setup registers the tools, or a diagnostic.
\* A configuration that does not resolve makes setup raise.
Load ==
    /\ tools' = IF Configured /\ Resolves /\ Complete THEN Resolved("mode") ELSE None
    /\ UNCHANGED <<env, file, secrets, reply>>

\* Tau starts again, with other variables.
Restart ==
    /\ env' \in Overrides /\ tools' = None
    /\ UNCHANGED <<file, secrets, reply>>

Next == (\E payload \in Payloads : Update(payload)) \/ Load \/ Restart

Spec == Init /\ [][Next]_vars
-----------------------------------------------------------------------------
(* Properties.                                                             *)

\* The types of the variables.
TypeOK ==
    /\ env \in Overrides /\ secrets \subseteq Secrets
    /\ file # None => DOMAIN file = Fields
    /\ tools \in {None, "legacy", "agent"} /\ reply \in {"none", "saved", "refused"}

\* What the page stored can be read back as it is, now and after a restart:
\* only the environment can keep the configuration from resolving.
StoredLoads ==
    file # None => ValidJson(file) /\ FromJson(file) = file /\ file["origin"] # "bad" /\ file["agent"] # "bad"

\* "Env-controlled fields are ignored on write": a variable that goes away
\* uncovers what the user chose, not what the variable said.
EnvNotStored ==
    [][\A f \in Fields : Override(f) # None /\ env' = env /\ file' # None
          => file'[f] = User[f]]_vars

\* The page is told complete exactly when nothing is left to diagnose and the user and
\* password of the database are known, whose absence yields no diagnostic.
DiagnosticsAgree == Resolves => (Complete <=> Common /\ Diagnostics = {})
=============================================================================
