----------------------------- MODULE MCBackends -----------------------------
(***************************************************************************)
(* What stands between a session and the services it asks, for TLC in one  *)
(* run. Providers: the stream of a response, the items of a request, the   *)
(* credential it is sent with, a login with a device code, and the choice  *)
(* of provider, model and level. Data questions: the plans of a session,   *)
(* the configuration, the database and the knowledge services. They share  *)
(* nothing that a step of another changes, so `which` says whose steps a   *)
(* behaviour takes, and the others keep their initial state.               *)
(***************************************************************************)
EXTENDS DataQuery, TLC

CONSTANT Apis

VARIABLES
    which,
    api, attempt, at, sent, parser, out, cancelled,
    history, vision, nests,
    stored, expired, newest, lost, rotates, request, login, flows, tabs, port,
    now, interval, asked, polled, wakes, stopped, phase,
    overlay, prefs, keys, session, said, edits, steps,
    env, file, secrets, reply, tools,
    current, links, calls, threads, call,
    limit, knowledge, evidence, outcome, asking, planning, watcher, signalled, turn

streamVars     == <<api, attempt, at, sent, parser, out, cancelled>>
requestVars    == <<history, vision, nests>>
credentialVars == <<stored, expired, newest, lost, rotates, request, login, flows, tabs, port>>
deviceVars     == <<now, interval, asked, polled, wakes, stopped, phase>>
settingsVars   == <<overlay, prefs, keys, session, said, edits, steps>>
configVars     == <<env, file, secrets, reply, tools>>
databaseVars   == <<current, links, calls, threads, call>>
sagVars        == <<limit, knowledge, evidence, outcome, asking, planning, watcher, signalled, turn>>

providerVars == <<streamVars, requestVars, credentialVars, deviceVars, settingsVars>>
queryVars    == <<vars, configVars, databaseVars, sagVars>>

Stream == INSTANCE ProviderStream WITH Calls <- {0, 1}, MaxChunks <- 4, MaxRetries <- 1
Conversion == INSTANCE ProviderRequest WITH MaxMessages <- 4
Credential == INSTANCE Credentials WITH Requests <- {"r1", "r2"}, MaxLogins <- 2, MaxTokens <- 2
Device == INSTANCE DeviceLogin WITH
    Expiry <- 7, Default <- 2, MaxTime <- 9, cancelled <- stopped, at <- phase

\* A built-in provider with one model that reasons, and two definitions a user might
\* write: one adds a model, the other has no levels.
Reasoning(models, m, levels) ==
    [models |-> models, default |-> m, levels |-> [x \in {"m", "n"} |-> IF x = m THEN levels ELSE {}]]

Settings == INSTANCE ProviderSettings WITH
    Builtin <- "openai", Custom <- "own", Models <- {"m", "n"}, Levels <- {"low", "high"},
    Shipped <- Reasoning({"m"}, "m", {"low", "high"}),
    HandWritten <- {Reasoning({"m", "n"}, "n", {"low"}), Reasoning({"n"}, "n", {})},
    MaxEdits <- 1, MaxSteps <- 3

\* What the environment may say, and what the page may send.
Overrides ==
    {<<>>, [limit |-> "3"], [mode |-> "agent", origin |-> "bad"], [mode |-> "other"],
     [origin |-> "a/", agent |-> "a", token |-> "t"], [user |-> "b", limit |-> "1", endpoint |-> ""]}
Payloads ==
    {[user |-> "a"], [user |-> "#"], [mode |-> "legacy"], [mode |-> "agent"], [origin |-> "a/", agent |-> "a"],
     [origin |-> "bad"], [agent |-> ""], [agent |-> "bad", user |-> "a"], [endpoint |-> "a"],
     [source |-> "", limit |-> "1"], [limit |-> "0"],
     [password |-> "s", token |-> "s"], [password |-> ""], [user |-> "a", password |-> "#", token |-> "s"]}

Config == INSTANCE DataQueryConfig

\* Tables of up to three rows of one cell, in characters of one or two bytes.
Cells  == {[chars |-> 1, bytes |-> 1], [chars |-> 2, bytes |-> 2], [chars |-> 1, bytes |-> 2]}
Tables == {<<>>} \cup UNION {[1 .. n -> {<<c>> : c \in Cells}] : n \in 1 .. 3}

Database == INSTANCE QueryBackend WITH MaxRows <- 2, MaxResult <- 3, MaxCell <- 1, MaxCalls <- 3

Sag == INSTANCE SagBackends WITH
    request <- planning,
    Texts <- {"t"}, Chunks <- {"c"}, Others <- {"o"}, Transcripts <- {4, 8, 32}, DefaultTranscript <- 32,
    Answer <- 8, Snippet <- 1, Title <- 1, Request <- 1, Repair <- 1, Citations <- 2,
    AnswerSizes <- {0, 1, 9, 23}, SnippetSizes <- {0, 1, 2}

\* What the knowledge service knows is interchangeable.
Symmetry == Permutations(Items)

MCInit ==
    /\ which \in {"stream", "request", "credential", "device", "settings",
                 "plans", "config", "database", "knowledge", "planner"}
    /\ Stream!Init /\ (which # "stream" => api = "chat")
    /\ Conversion!Init /\ (which # "request" => ~vision /\ ~nests)
    /\ Credential!Init /\ (which # "credential" => stored = None /\ ~expired /\ ~rotates)
    /\ Device!Init /\ (which # "device" => asked = 0 /\ ~stopped)
    /\ Settings!Init /\ (which # "settings" => keys = {})
    /\ Init /\ (which # "plans" => mode = "legacy")
    /\ Config!Init /\ (which # "config" => env = <<>>)
    /\ Database!Init
    /\ Sag!Init /\ (which # "planner" => limit = 32)

MCNext ==
    \/ which = "stream" /\ Stream!Next
       /\ UNCHANGED <<which, queryVars, requestVars, credentialVars, deviceVars, settingsVars>>
    \/ which = "request" /\ Conversion!Next
       /\ UNCHANGED <<which, queryVars, streamVars, credentialVars, deviceVars, settingsVars>>
    \/ which = "credential" /\ Credential!Next
       /\ UNCHANGED <<which, queryVars, streamVars, requestVars, deviceVars, settingsVars>>
    \/ which = "device" /\ Device!Next
       /\ UNCHANGED <<which, queryVars, streamVars, requestVars, credentialVars, settingsVars>>
    \/ which = "settings" /\ Settings!Next
       /\ UNCHANGED <<which, queryVars, streamVars, requestVars, credentialVars, deviceVars>>
    \/ which = "plans" /\ Next
       /\ UNCHANGED <<which, providerVars, configVars, databaseVars, sagVars>>
    \/ which = "config" /\ Config!Next
       /\ UNCHANGED <<which, providerVars, vars, databaseVars, sagVars>>
    \/ which = "database" /\ Database!Next
       /\ UNCHANGED <<which, providerVars, vars, configVars, sagVars>>
    \/ /\ \/ which = "knowledge" /\ Sag!KnowledgeNext
          \/ which = "planner" /\ Sag!PlannerNext
       /\ UNCHANGED <<which, providerVars, vars, configVars, databaseVars>>

MCSpec == MCInit /\ [][MCNext]_<<which, providerVars, queryVars>>
-----------------------------------------------------------------------------
\* ProviderStream, ProviderRequest: every adapter yields one well-formed message
\* with text and arguments where the service sent them, an answer that was shown
\* is not started again, and a request carries the whole transcript with each
\* result directly behind its call.
AnswersFaithful ==
    /\ which = "stream" =>
        Stream!TypeOK /\ Stream!StreamWellFormed /\ Stream!OneAttempt /\ Stream!AsSent
    /\ which = "request" =>
        Conversion!TypeOK /\ Conversion!ConversationSent /\ Conversion!ResultsFollowCalls

\* Credentials, DeviceLogin: what is stored can be refreshed, no login that is
\* over holds the callback port, a code of another login is never exchanged, and
\* polls keep the distance the service asked for and end with the code.
CredentialsKept ==
    /\ [](which = "credential" =>
            /\ Credential!TypeOK /\ Credential!StoredUsable /\ Credential!PortReleased
            /\ Credential!CodeOfFlow)
    /\ [](which = "device" => Device!TypeOK /\ Device!ExpiryNoticed)
    /\ Device!PollsSpaced

\* ProviderSettings: requests go to the provider the session names, each model
\* that is offered can be chosen, a change for one provider leaves the others
\* alone, and the next start uses the model chosen last.
SettingsConsistent ==
    /\ [](which = "settings" =>
            Settings!TypeOK /\ Settings!ClientMatches /\ Settings!OfferedWorks)
    /\ Settings!OthersKept /\ Settings!ChoiceRemembered

\* DataQueryConfig, QueryBackend: what the settings page stored can be read back
\* and holds no value of the environment, complete means nothing to diagnose beside
\* the user and password of the database; a query runs on one connection marked
\* read-only, a failure leaves it usable, and rows keep the limits or say that they
\* were cut.
QueriesContained ==
    /\ [](which = "config" => Config!TypeOK /\ Config!StoredLoads /\ Config!DiagnosticsAgree)
    /\ Config!EnvNotStored
    /\ [](which = "database" =>
            /\ Database!TypeOK /\ Database!QueriesReadOnly /\ Database!FailureClears
            /\ Database!OneConnection /\ Database!RowsHonest)

\* QueryBackend!QueryRuns: no query fails because of the transaction of an
\* earlier one.
DatabaseQueryRuns == Database!QueryRuns

\* SagBackends: an answer without hits can be read and of hits only those without
\* a chunk id cannot, no request of the planner outlives its call, and a turn
\* stays within its limit with room for an answer, if a citation within the
\* limit on their number is usable, and for a correction that was earned.
SagBounded ==
    which \in {"knowledge", "planner"} =>
        /\ Sag!TypeOK /\ Sag!EvidenceReads /\ Sag!NothingLeft
        /\ Sag!TranscriptFits /\ Sag!AnswersKept /\ Sag!CorrectionsFit
=============================================================================
