---------------------------- MODULE ProviderSettings ----------------------------
(***************************************************************************)
(* Providers, models and thinking levels: the user's catalog (catalog.toml)*)
(* over the built-in one, the preferences (providers.json), the stored     *)
(* keys, and a session that chooses among them (tau_coding/provider_config,*)
(* catalog_loader and session). Each operation is one handler; its writes  *)
(* happen one after the other, and the process may die between them.       *)
(***************************************************************************)
EXTENDS Naturals, Sequences, FiniteSets, SequencesExt

CONSTANTS
    Builtin, Custom,    \* a provider of the built-in catalog, and one of the user
    Models, Levels, None,
    Shipped,            \* the definition of Builtin that Tau comes with
    HandWritten,        \* definitions a user writes into catalog.toml
    MaxEdits, MaxSteps  \* bounds

Providers == {Builtin, Custom}

VARIABLES
    overlay,    \* catalog.toml: definitions [models, default, levels of a model]
    prefs,      \* providers.json: [default, of: [model, thinking], scoped], or None
    keys,       \* credentials.json
    session,    \* [provider, model, level, client, settings], or None
    said,       \* the last operation: [op, of, ok]
    edits, steps

disk == [overlay |-> overlay, prefs |-> prefs, keys |-> keys]
vars == <<overlay, prefs, keys, session, said, edits, steps>>

NoLevels == [m \in Models |-> {}]
With(f, x, v) == [y \in DOMAIN f \cup {x} |-> IF y = x THEN v ELSE f[y]]

\* effective_catalog: overlay models add to the shipped ones, other values win, and
\* the fields of thinking are replaced as a group.
Catalog(o) ==
    [p \in DOMAIN o \cup {Builtin} |->
        IF p = Custom THEN o[p]
        ELSE IF p \notin DOMAIN o THEN Shipped
        ELSE [models  |-> o[p].models \cup Shipped.models,
              default |-> o[p].default,
              levels  |-> IF o[p].levels # NoLevels THEN o[p].levels ELSE Shipped.levels]]

Configured(def) == [models |-> def.models, default |-> def.default, levels |-> def.levels, thinking |-> <<>>]

\* _thinking_defaults_dict accepts what a preference remembers.
Valid(def, pref) ==
    \A m \in DOMAIN pref.thinking : m \in def.models /\ pref.thinking[m] \in def.levels[m]

\* _apply_provider_preference
Preferred(def, pref) ==
    [models |-> def.models \cup {pref.model}, default |-> pref.model,
     levels |-> def.levels, thinking |-> pref.thinking]

\* Fault: the default of the catalog wins.
Merged_Incoming(existing, incoming) ==
    [existing EXCEPT !.models = @ \cup incoming.models, !.default = incoming.default]

\* _merge_openai_compatible_provider
Merged(existing, incoming) ==
    [models   |-> incoming.models \cup existing.models,
     default  |-> existing.default,
     levels   |-> IF existing.levels # NoLevels THEN existing.levels ELSE incoming.levels,
     thinking |-> existing.thinking]

\* provider_has_usable_credentials
Usable(d, p) == p \in d.keys

\* _append_catalog_providers: the user's own always, built-in ones with a key.
Present(d, kept) == kept \cup {p \in DOMAIN Catalog(d.overlay) : p = Custom \/ Usable(d, p)}

Broken == [default |-> None]

\* load_provider_settings: Broken when it raises.
Load(d) ==
    LET cat     == Catalog(d.overlay)
        kept    == DOMAIN d.prefs.of \cap DOMAIN cat
        present == Present(d, kept)
    IN  IF d.prefs = None
        THEN [default |-> Builtin, of |-> [p \in DOMAIN cat |-> Configured(cat[p])], scoped |-> {}]
        ELSE IF \E p \in kept : ~Valid(cat[p], d.prefs.of[p]) THEN Broken
        ELSE [default |-> IF d.prefs.default \in present \/ present = {} THEN d.prefs.default
                          ELSE CHOOSE p \in present : TRUE,
              of      |-> [p \in present |->
                             IF p \in kept THEN Merged(Preferred(cat[p], d.prefs.of[p]), Configured(cat[p]))
                             ELSE Configured(cat[p])],
              scoped  |-> d.prefs.scoped]

\* _provider_definition_differs_from_catalog
Differs(config, entry) == config.models # entry.models \/ config.levels # entry.levels

\* _catalog_entry_from_provider: an existing entry keeps its default model.
Entry(config, entries) ==
    [models |-> config.models, levels |-> config.levels,
     default |-> IF \E e \in entries : e.default \in config.models
                 THEN (CHOOSE e \in entries : TRUE).default ELSE config.default]

\* _save_provider_definitions_to_catalog
Definitions(o, st) ==
    LET cat == Catalog(o)
        entries(p) == {cat[q] : q \in DOMAIN cat \cap {p}}
        new == {p \in DOMAIN st.of : p \in DOMAIN cat => Differs(st.of[p], cat[p])}
    IN  [p \in DOMAIN o \cup new |-> IF p \in new THEN Entry(st.of[p], entries(p)) ELSE o[p]]

\* The preferences of a provider: _provider_preference_to_json.
Preference(config) == [model |-> config.default, thinking |-> config.thinking]

\* save_provider_settings: what is on disk after each of its writes.
Saves(d, st) ==
    LET defined == [d EXCEPT !.overlay = Definitions(@, st)]
    IN  <<defined,
          [defined EXCEPT !.prefs = [default |-> st.default, scoped |-> st.scoped,
                                     of |-> [p \in DOMAIN st.of |-> Preference(st.of[p])]]]>>

\* Fault: what the session loaded before is changed and saved.
ForWrite_Loaded(d, s) == s.settings

\* _load_provider_settings_for_write
ForWrite(d, s) == IF d.prefs = None THEN s.settings ELSE Load(d)
-----------------------------------------------------------------------------
\* An operation leaves a trail of disks, a session, and succeeds or raises.
Raises(trail, s) == [trail |-> trail, s |-> s, ok |-> FALSE]
Done(trail, s) == [trail |-> trail, s |-> s, ok |-> TRUE]
Now(d, r) == IF r.trail = <<>> THEN d ELSE Last(r.trail)

Known(s) == s.provider \in DOMAIN s.settings.of

\* Fault: the level is kept.
Coerced_Kept(config, m, current, preferred) == current

\* _coerced_thinking_level
Coerced(config, m, current, preferred) ==
    IF config.levels[m] = {} \/ current \in config.levels[m] THEN current
    ELSE IF preferred \in config.levels[m] THEN preferred
    ELSE CHOOSE l \in config.levels[m] : TRUE

\* _sync_thinking_level_to_active_model
Synced(s) ==
    IF ~Known(s) THEN s
    ELSE LET config == s.settings.of[s.provider] IN
         [s EXCEPT !.level = Coerced(config, s.model, @,
              IF s.model \in DOMAIN config.thinking THEN config.thinking[s.model] ELSE None)]

\* create_model_provider raises without a key, or for a level that is not offered.
Creatable(d, p, config, m, l) ==
    m \in config.models /\ Usable(d, p) /\ (config.levels[m] = {} \/ l \in config.levels[m])
Client(p, config, m, l) == [provider |-> p, config |-> config, model |-> m, level |-> l]

\* _refresh_runtime_provider
Refreshed(d, s) ==
    IF s.client = None THEN Done(<<>>, s)
    ELSE LET config == IF Known(s) THEN s.settings.of[s.provider] ELSE s.client.config IN
         IF Creatable(d, s.provider, config, s.model, s.level)
         THEN Done(<<>>, [s EXCEPT !.client = Client(s.provider, config, s.model, s.level)])
         ELSE Raises(<<>>, s)

\* reload_provider_settings
Reloaded(d, s) ==
    LET r == Refreshed(d, Synced([s EXCEPT !.settings = Load(d)]))
    IN  IF Load(d) # Broken /\ r.ok THEN r ELSE Raises(<<>>, s)

\* validate_provider_model
Offers(st, p, m) == st # Broken /\ p \in DOMAIN st.of /\ m \in st.of[p].models

\* save_default_provider_model
DefaultSaved(d, s) ==
    LET st == ForWrite(d, s)
        new == [st EXCEPT !.default = s.provider, !.of[s.provider].default = s.model]
    IN  IF Offers(st, s.provider, s.model) THEN Done(Saves(d, new), Synced([s EXCEPT !.settings = new]))
        ELSE Raises(<<>>, s)

\* set_model: the model is changed before the client, which may fail.
ModelSet(d, s, m) ==
    LET r == Refreshed(d, Synced([s EXCEPT !.model = m])) IN
    IF Known(s) /\ m \notin s.settings.of[s.provider].models THEN Raises(<<>>, s)
    ELSE IF r.ok THEN DefaultSaved(d, r.s) ELSE r

\* Fault: the session is switched before its client is there.
Unswitched_Already(s, p, m) == [s EXCEPT !.provider = p, !.model = m]

Unswitched(s, p, m) == s

\* _set_provider_model
Switched(d, s, p, m, persist) ==
    IF p \notin DOMAIN s.settings.of THEN Raises(<<>>, s)
    ELSE LET config == s.settings.of[p]
             l == Coerced(config, m, s.level, None)
             new == [s EXCEPT !.provider = p, !.model = m, !.level = l, !.client = Client(p, config, m, l)]
         IN  IF m \notin config.models THEN Raises(<<>>, s)
             ELSE IF ~Creatable(d, p, config, m, l) THEN Raises(<<>>, Unswitched(s, p, m))
             ELSE IF persist THEN DefaultSaved(d, new) ELSE Done(<<>>, new)

\* available_model_choices
Offered(d, s) == {<<p, m>> \in Providers \X Models : Usable(d, p) /\ Offers(s.settings, p, m)}

\* cycle_scoped_model: the next of these, in an order that is left out.
Scoped(d, s) == Offered(d, s) \cap s.settings.scoped

\* set_model_choice
Chosen(d, s, p, m) == IF p = s.provider THEN ModelSet(d, s, m) ELSE Switched(d, s, p, m, TRUE)

\* /model with a name: _model_command
ModelCommand(d, s, m) ==
    LET r == Reloaded(d, s)
        offered == {c \in Offered(d, r.s) : c[1] = r.s.provider}
    IN  IF ~r.ok \/ (offered # {} /\ <<r.s.provider, m>> \notin offered) THEN Raises(<<>>, r.s)
        ELSE ModelSet(d, r.s, m)

\* toggle_scoped_model
ScopeToggled(d, s, p, m) ==
    LET st == ForWrite(d, s)
        new == [st EXCEPT !.scoped = IF <<p, m>> \in @ THEN @ \ {<<p, m>>} ELSE @ \cup {<<p, m>>}]
    IN  IF <<p, m>> \notin Offered(d, s) THEN Raises(<<>>, s)
        ELSE IF ~Offers(st, p, m) THEN Raises(<<>>, s)
        ELSE Done(Saves(d, new), Synced([s EXCEPT !.settings = new]))

\* save_provider_thinking_level; what cannot be saved is not an error.
ThinkingSaved(d, s) ==
    LET st == ForWrite(d, s)
        new == [st EXCEPT !.of[s.provider].thinking = With(@, s.model, s.level)]
    IN  IF ~Offers(st, s.provider, s.model) THEN Done(<<>>, s)
        ELSE IF s.level \notin st.of[s.provider].levels[s.model] THEN Done(<<>>, s)
        ELSE Done(Saves(d, new), [s EXCEPT !.settings = new])

\* set_thinking_level
ThinkingSet(d, s, l) ==
    LET r == Refreshed(d, [s EXCEPT !.level = l])
    IN  IF ~Known(s) \/ l = s.level THEN Raises(<<>>, s)
        ELSE IF l \notin s.settings.of[s.provider].levels[s.model] \/ ~r.ok THEN Raises(<<>>, s)
        ELSE ThinkingSaved(d, r.s)

\* upsert_provider: a built-in one keeps what was customized.
Upserted(st, p, config) ==
    [st EXCEPT !.of = With(@, p, IF p = Builtin /\ p \in DOMAIN @ THEN Merged(@[p], config) ELSE config)]

\* The end of a login: reload_provider_settings, and set_provider.
LoginEnds(trail, d, s, p) ==
    LET r == Reloaded(d, s) IN
    IF ~r.ok \/ p \notin DOMAIN r.s.settings.of THEN Raises(trail, r.s)
    ELSE [Switched(d, r.s, p, r.s.settings.of[p].default, FALSE) EXCEPT !.trail = trail]

\* _handle_login_result
LoggedIn(d, s, p) ==
    LET keyed == [d EXCEPT !.keys = @ \cup {p}]
        st == IF keyed.prefs = None THEN Load(keyed) ELSE ForWrite(keyed, s)
        saves == Saves(keyed, Upserted(st, p, Configured(Shipped)))
    IN  IF st = Broken THEN Raises(<<keyed>>, s) ELSE LoginEnds(<<keyed>> \o saves, Last(saves), s, p)

\* _handle_custom_provider_login_result
Registered(d, s, def) ==
    LET defined == [d EXCEPT !.overlay = With(@, Custom, def)]
        keyed == [defined EXCEPT !.keys = @ \cup {Custom}]
        st == Load(keyed)
        saves == Saves(keyed, Upserted(st, Custom, Configured(def)))
    IN  IF st = Broken THEN Raises(<<defined, keyed>>, s)
        ELSE LoginEnds(<<defined, keyed>> \o saves, Last(saves), s, Custom)

\* _logout
LoggedOut(d, s, p) ==
    LET gone == [d EXCEPT !.keys = @ \ {p}]
    IN  [Reloaded(gone, s) EXCEPT !.trail = <<gone>>]

\* _resolve_tui_startup_selection: the default provider, or one that has a key.
Selected(d, st) ==
    LET usable == {p \in DOMAIN st.of : Usable(d, p)}
    IN  IF st.default \in usable \/ usable = {} THEN st.default ELSE CHOOSE p \in usable : TRUE

\* resolve_startup_thinking_level
StartupLevel(config, m) ==
    IF m \in DOMAIN config.thinking /\ config.thinking[m] \in config.levels[m] THEN config.thinking[m]
    ELSE CHOOSE l \in Levels : config.levels[m] = {} \/ l \in config.levels[m]

\* run_tui_app: without a client the user is asked to log in.
Started(d) ==
    LET st == Load(d)
        p == Selected(d, st)
        config == st.of[p]
        m == config.default
        l == StartupLevel(config, m)
    IN  [provider |-> p, model |-> m, level |-> l, settings |-> st,
         client |-> IF Creatable(d, p, config, m, l) THEN Client(p, config, m, l) ELSE None]
-----------------------------------------------------------------------------
Init ==
    /\ overlay = <<>> /\ prefs = None /\ keys \in SUBSET {Builtin} /\ session = None
    /\ said = [op |-> "none", of |-> None, ok |-> TRUE] /\ edits = 0 /\ steps = 0

OnDisk(d) == overlay' = d.overlay /\ prefs' = d.prefs /\ keys' = d.keys

Start ==
    /\ session = None /\ Load(disk) # Broken /\ Load(disk).default \in DOMAIN Load(disk).of
    /\ session' = Started(disk) /\ said' = [op |-> "start", of |-> None, ok |-> TRUE]
    /\ UNCHANGED <<overlay, prefs, keys, edits, steps>>

Quit ==
    /\ session # None /\ session' = None /\ said' = [op |-> "quit", of |-> None, ok |-> TRUE]
    /\ UNCHANGED <<overlay, prefs, keys, edits, steps>>

\* The handler runs to its end, or the process dies after one of its writes.
Performs(op, p, r) ==
    /\ steps < MaxSteps /\ steps' = steps + 1
    /\ \/ /\ OnDisk(Now(disk, r)) /\ session' = r.s
          /\ said' = [op |-> op, of |-> p, ok |-> r.ok]
       \/ \E i \in 1 .. Len(r.trail) - 1 :
            /\ OnDisk(r.trail[i]) /\ session' = None
            /\ said' = [op |-> "crash", of |-> p, ok |-> TRUE]
    /\ UNCHANGED edits

Operation ==
    /\ session # None
    /\ \/ \E m \in Models : Performs("model", session.provider, ModelCommand(disk, session, m))
       \/ \E p \in DOMAIN session.settings.of : \E m \in session.settings.of[p].models :
            \/ Performs("model", p, Chosen(disk, session, p, m))
            \/ Performs("scope", None, ScopeToggled(disk, session, p, m))
       \/ \E c \in Scoped(disk, session) : Performs("model", c[1], Chosen(disk, session, c[1], c[2]))
       \/ \E l \in Levels : Performs("think", session.provider, ThinkingSet(disk, session, l))
       \/ Performs("login", Builtin, LoggedIn(disk, session, Builtin))
       \/ \E ms \in SUBSET Models \ {{}}, m \in Models :
            /\ m \in ms
            /\ Performs("login", Custom, Registered(disk, session, [models |-> ms, default |-> m, levels |-> NoLevels]))
       \/ Builtin \in keys /\ Performs("logout", Builtin, LoggedOut(disk, session, Builtin))

\* The user edits catalog.toml.
Edit ==
    /\ edits < MaxEdits /\ edits' = edits + 1
    /\ \E p \in Providers, def \in HandWritten : overlay' = With(overlay, p, def)
    /\ said' = [op |-> "edit", of |-> None, ok |-> TRUE]
    /\ UNCHANGED <<prefs, keys, session, steps>>

\* Another process of Tau chooses a model, or removes a key while a picker is open here.
Elsewhere ==
    /\ edits < MaxEdits /\ edits' = edits + 1
    /\ \/ /\ prefs # None /\ Load(disk) # Broken
          /\ \E p \in DOMAIN Load(disk).of : \E m \in Load(disk).of[p].models :
                OnDisk(Last(Saves(disk, [Load(disk) EXCEPT !.default = p, !.of[p].default = m])))
       \/ \E p \in keys : OnDisk([disk EXCEPT !.keys = @ \ {p}])
    /\ said' = [op |-> "elsewhere", of |-> None, ok |-> TRUE]
    /\ UNCHANGED <<session, steps>>

Next == Start \/ Quit \/ Operation \/ Edit \/ Elsewhere

Spec == Init /\ [][Next]_vars
-----------------------------------------------------------------------------
TypeOK ==
    /\ DOMAIN overlay \subseteq Providers /\ keys \subseteq Providers
    /\ session # None => session.provider \in Providers /\ session.model \in Models /\ session.level \in Levels

\* Requests go to the provider the session names, whichever step of a switch failed.
ClientMatches == session # None /\ session.client # None => session.client.provider = session.provider

\* Each model that is offered can be chosen, when the settings are those on disk: its
\* level is adapted, its client created and the choice saved.
OfferedWorks ==
    session # None /\ session.settings = Load(disk) =>
        \A c \in Offered(disk, session) : Chosen(disk, session, c[1], c[2]).ok

Remembers(st, p) == IF p \in DOMAIN st.of THEN <<st.of[p].default, st.of[p].thinking>> ELSE None

\* A change for one provider leaves what is remembered of the others
\* (configuration.md:188), also of what another process saved meanwhile, and wherever
\* the process dies.
OthersKept ==
    [][ said'.op \in {"model", "think", "login", "crash"} /\ prefs # None =>
            \A was \in {Load(disk)} \ {Broken}, is \in {Load(disk')} \ {Broken} :
            \A p \in DOMAIN prefs.of \ {said'.of} : Remembers(was, p) = Remembers(is, p) ]_vars

\* The next start uses the model that was chosen last.
ChoiceRemembered ==
    [][ said'.op = "model" /\ said'.ok =>
            \A next \in {Started(disk')} :
                next.provider = session'.provider /\ next.model = session'.model ]_vars

\* A logout that fails removed no key (tests/test_tui_app.py:6024). The code breaks it
\* for the provider in use: the key is deleted, then its client cannot be created.
LogoutReported == said.op = "logout" /\ ~said.ok => said.of \in keys
=============================================================================
