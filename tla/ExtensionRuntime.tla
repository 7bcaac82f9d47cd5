-------------------------- MODULE ExtensionRuntime --------------------------
(***************************************************************************)
(* Extensions (tau_coding/extensions/runtime.py, api.py, and session.py    *)
(* where a session loads, reloads and replaces): each load is a generation *)
(* with its own API objects, which extension code may keep for ever; what  *)
(* an extension registers is composed into the tools and commands of a     *)
(* harness; hooks of all extensions guard every tool call.                 *)
(*                                                                         *)
(* A reload is one step of the event loop, a hook may wait, and a session  *)
(* is replaced in two steps between which anything may happen.             *)
(***************************************************************************)
EXTENDS Naturals, Sequences, FiniteSets, SequencesExt

CONSTANTS
    Names,          \* extensions
    Kinds,          \* the tool, command or renderer names they compete for
    None,
    MaxGen, MaxHooks, MaxHarness  \* bounds

VARIABLES
    gen,        \* the number of the active ExtensionGeneration
    loaded,     \* _extensions, in load order
    apis,       \* API objects that were handed to a setup
    hooks,      \* the tool_call handlers of each extension
    owner,      \* _tools, _commands, _message_renderers: who registered each
    views,      \* who registered an authorization view
    reported,   \* _renderer_failures_reported
    failures,   \* diagnostics about renderers
    harness,    \* the harness of the session
    heard,      \* harnesses that the event fan-out is subscribed to
    attached,   \* the one that _harness_unsubscribe would leave
    composed,   \* the owners composed into the tools of each harness
    switch,     \* a replacement that is loaded and not yet adopted
    overtaken,  \* history: the last replacement was loaded before a reload
    call        \* a tool call that the hooks examine

registryVars == <<gen, loaded, apis, hooks, owner, views>>
sessionVars  == <<harness, heard, attached, composed, switch, overtaken>>
vars == <<registryVars, reported, failures, sessionVars, call>>

\* An extension of one generation, and its API object.
Extension == Names \X (1 .. MaxGen)
NameOf(x) == x[1]
GenOf(x)  == x[2]

Idle == [at |-> "idle"]
Smallest(S) == CHOOSE n \in S : \A k \in S : n <= k
-----------------------------------------------------------------------------
(* Loading.                                                                *)

\* What is found on disk: the extensions in the order they are set up, and
\* what the setup of each does.
Disk == {d \in UNION {[1 .. n -> [name : Names, fails : BOOLEAN, hook : 0 .. MaxHooks, wants : SUBSET Kinds]] :
                          n \in 0 .. Cardinality(Names)} :
             \A i, j \in DOMAIN d : d[i].name = d[j].name => i = j}

\* Fault: the registrations of a failed setup stay.
Withdrawn_Not(owners, x) == owners

\* _remove_registrations
Withdrawn(owners, x) == [k \in Kinds |-> IF owners[k] = x THEN None ELSE owners[k]]

\* Fault: the last registration wins.
Claimed_Last(owners, x, wants) == [k \in Kinds |-> IF k \in wants THEN x ELSE owners[k]]

\* The first registration of a name wins.
Claimed(owners, x, wants) ==
    [k \in Kinds |-> IF k \in wants /\ owners[k] = None THEN x ELSE owners[k]]

\* An authorization view that a failed setup registered stays.
SetUp(r, e, g) ==
    LET x == <<e.name, g>>
        owners == Claimed(r.owner, x, e.wants)
    IN  [loaded |-> IF e.fails THEN r.loaded ELSE Append(r.loaded, x),
         apis   |-> r.apis \cup {x},
         hooks  |-> IF e.fails THEN r.hooks ELSE [r.hooks EXCEPT ![x] = e.hook],
         owner  |-> IF e.fails THEN Withdrawn(owners, x) ELSE owners,
         views  |-> IF e.wants = {} THEN r.views ELSE x]

\* reset_for_reload clears every registration.
Emptied == [loaded |-> <<>>, apis |-> apis, hooks |-> hooks,
            owner |-> [k \in Kinds |-> None], views |-> None]

Install(r) ==
    /\ loaded' = r.loaded /\ apis' = r.apis /\ hooks' = r.hooks
    /\ owner' = r.owner /\ views' = r.views

\* Fault: the earlier subscription is forgotten, not ended.
Detached_Not == heard

\* attach_harness_listener ends the earlier subscription.
Detached == heard \ {attached}

Attach(h) == heard' = Detached \cup {h} /\ attached' = h

\* The first load of a session.
Init ==
    /\ gen = 1
    /\ \E disk \in Disk :
          LET none == [loaded |-> <<>>, apis |-> {}, hooks |-> [x \in Extension |-> 0],
                       owner |-> [k \in Kinds |-> None], views |-> None]
              r    == FoldLeft(LAMBDA q, e : SetUp(q, e, 1), none, disk)
          IN  /\ loaded = r.loaded /\ apis = r.apis /\ hooks = r.hooks
              /\ owner = r.owner /\ views = r.views
    /\ reported = {} /\ failures = 0
    /\ harness = 1 /\ heard = {1} /\ attached = 1
    /\ composed = <<owner>>
    /\ switch = None /\ overtaken = FALSE
    /\ call = Idle

\* The outgoing generation is invalidated, then everything is set up anew, also
\* in the middle of a tool call. Wrapped tools and commands are rebuilt in place
\* on the harness in use.
Reload(disk) ==
    /\ gen < MaxGen
    /\ gen' = gen + 1
    /\ Install(FoldLeft(LAMBDA r, e : SetUp(r, e, gen'), Emptied, disk))
    /\ reported' = {} /\ failures' = 0
    /\ composed' = [composed EXCEPT ![harness] = owner']
    /\ overtaken' = FALSE
    /\ Attach(harness)
    /\ call' = IF call = Idle THEN Idle ELSE [call EXCEPT !.moved = TRUE]
    /\ UNCHANGED <<harness, switch>>
-----------------------------------------------------------------------------
(* API objects in the hands of extension code, background tasks included.  *)

\* Fault: an API object is not asked for its generation.
Active_Any(x) == x \in apis

\* assert_active
Active(x) == x \in apis /\ GenOf(x) = gen

RegisterLate(x, k) ==
    /\ Active(x)
    /\ owner' = Claimed(owner, x, {k})
    /\ UNCHANGED <<gen, loaded, apis, hooks, views, reported, failures, sessionVars, call>>

RegisterView(x) ==
    /\ Active(x)
    /\ views' = x
    /\ UNCHANGED <<gen, loaded, apis, hooks, owner, reported, failures, sessionVars, call>>

\* An extension whose setup failed has an API but cannot subscribe.
SubscribeLate(x) ==
    /\ Active(x) /\ x \in ToSet(loaded) /\ hooks[x] < MaxHooks
    /\ hooks' = [hooks EXCEPT ![x] = @ + 1]
    /\ UNCHANGED <<gen, loaded, apis, owner, views, reported, failures, sessionVars, call>>

\* A renderer raises, or returns no string; the raw text is shown instead. It is
\* tried again at every redraw.
RenderFails(k) ==
    /\ owner[k] # None
    /\ reported' = reported \cup {k}
    /\ failures' = failures + (IF k \in reported THEN 0 ELSE 1)
    /\ UNCHANGED <<registryVars, sessionVars, call>>
-----------------------------------------------------------------------------
(* Another session takes the place of the one in use (resume, new_session). *)

\* The replacement is loaded with a harness of its own.
LoadReplacement ==
    /\ switch = None /\ Len(composed) < MaxHarness
    /\ composed' = Append(composed, owner)
    /\ switch' = [harness |-> Len(composed'), gen |-> gen]
    /\ UNCHANGED <<registryVars, reported, failures, harness, heard, attached, overtaken, call>>

\* It cannot be loaded, or its model is not available.
DropReplacement ==
    /\ switch # None
    /\ switch' = None
    /\ UNCHANGED <<registryVars, reported, failures, harness, heard, attached, composed, overtaken, call>>

\* Once the handlers of session_shutdown are done.
Adopt ==
    /\ switch # None
    /\ harness' = switch.harness
    /\ Attach(switch.harness)
    /\ overtaken' = (switch.gen # gen)
    /\ switch' = None
    /\ UNCHANGED <<registryVars, reported, failures, composed, call>>
-----------------------------------------------------------------------------
(* A tool call passes the hooks of all extensions, one after the other. The *)
(* loop runs over the live list by position and, inside it, over the live   *)
(* list of handlers of the extension it has reached.                        *)

\* Positions that still have handlers.
After(c) == {j \in c.i + 1 .. Len(loaded) : hooks[loaded[j]] > 0}

\* The call goes on to its next hook, or to the tool. The context of a handler
\* belongs to the extension of its name that is loaded now; without one the hook
\* counts as failed.
Proceed(c) ==
    LET next == IF c.k <= hooks[c.ext] THEN c
                ELSE [c EXCEPT !.i = Smallest(After(c)), !.ext = loaded[Smallest(After(c))], !.k = 1]
    IN  IF c.k > hooks[c.ext] /\ After(c) = {} THEN [c EXCEPT !.at = "executing"]
        ELSE IF \E x \in ToSet(loaded) : NameOf(x) = NameOf(next.ext) THEN next
        ELSE Idle

StartCall ==
    /\ call = Idle
    /\ LET due   == {<<x, k>> \in ToSet(loaded) \X (1 .. MaxHooks) : k <= hooks[x]}
           first == [at |-> "hook", i |-> 1, k |-> 1, ext |-> loaded[1],
                     due |-> due, passed |-> {}, moved |-> FALSE]
       IN  call' = IF loaded = <<>>
                   THEN [at |-> "executing", due |-> {}, passed |-> {}, moved |-> FALSE]
                   ELSE Proceed(first)
    /\ UNCHANGED <<registryVars, reported, failures, sessionVars>>

Passed(c) == [c EXCEPT !.k = @ + 1, !.passed = @ \cup {<<c.ext, c.k>>}]

\* It returns nothing, new arguments, or something that is ignored.
HookPasses ==
    /\ call.at = "hook"
    /\ call' = Proceed(Passed(call))
    /\ UNCHANGED <<registryVars, reported, failures, sessionVars>>

\* Fault: a hook that raises is skipped.
AfterCrash_Skips(c) == Proceed([c EXCEPT !.k = @ + 1])

AfterCrash(c) == Idle

\* It blocks the tool, or it raises, which blocks the tool as well.
HookBlocks ==
    /\ call.at = "hook"
    /\ call' = AfterCrash(call)
    /\ UNCHANGED <<registryVars, reported, failures, sessionVars>>

\* The tool ends; result hooks may replace what it returns, and are skipped when
\* they fail.
Return ==
    /\ call.at = "executing"
    /\ call' = Idle
    /\ UNCHANGED <<registryVars, reported, failures, sessionVars>>

Next ==
    \/ \E disk \in Disk : Reload(disk)
    \/ \E x \in Extension : RegisterView(x) \/ SubscribeLate(x) \/ \E k \in Kinds : RegisterLate(x, k)
    \/ \E k \in Kinds : RenderFails(k)
    \/ LoadReplacement \/ DropReplacement \/ Adopt
    \/ StartCall \/ HookPasses \/ HookBlocks \/ Return

Spec == Init /\ [][Next]_vars
-----------------------------------------------------------------------------
(* Properties.                                                             *)

\* The types of the variables; the diagnostics about renderers do not grow with
\* the redraws (render_custom_message).
TypeOK ==
    /\ gen \in 1 .. MaxGen
    /\ ToSet(loaded) \subseteq apis /\ apis \subseteq Extension
    /\ hooks \in [Extension -> 0 .. MaxHooks]
    /\ owner \in [Kinds -> Extension \cup {None}] /\ views \in Extension \cup {None}
    /\ reported \subseteq Kinds /\ failures \in 0 .. Cardinality(Kinds)
    /\ composed \in Seq([Kinds -> Extension \cup {None}])
    /\ harness \in DOMAIN composed /\ heard \subseteq DOMAIN composed
    /\ overtaken \in BOOLEAN
    /\ call.at \in {"idle", "hook", "executing"}

\* After a reload nothing of an older generation is left or comes back, not even
\* from a background task that kept its API object (reset_for_reload,
\* ExtensionGeneration).
OldGone ==
    /\ \A x \in ToSet(loaded) : GenOf(x) = gen
    /\ \A k \in Kinds : owner[k] # None => GenOf(owner[k]) = gen
    /\ views # None => GenOf(views) = gen

\* Within a generation a name never changes hands, whoever registers it later
\* ("first registration wins": register_tool, register_command).
KeepsItsOwner ==
    [][gen' = gen => \A k \in DOMAIN owner : owner[k] # None => owner'[k] = owner[k]]_vars

\* A failed setup leaves no tool, command or renderer, and takes none from those
\* set up before and after it: what a load registers belongs to extensions whose
\* setup succeeded (_setup_extension, _remove_registrations).
OwnersLoaded ==
    [][gen' # gen => \A k \in DOMAIN owner : owner'[k] # None => owner'[k] \in ToSet(loaded')]_vars

\* A tool runs only after every hook that was registered when the call began has
\* let it pass, also when hooks are added on the way; a hook that raises does not
\* let it pass (_run_tool_call_hooks). A reload in the middle of the call moves
\* the positions, and a hook may then be skipped.
GuardedCalls ==
    call.at = "executing" /\ ~call.moved => call.due \subseteq call.passed

\* Extensions hear the harness that the session uses and no other, and its tools
\* are of the current generation, unless the session was loaded before a reload
\* and adopted after it (_reload_extensions, _adopt_replacement).
Followed ==
    /\ heard = {harness}
    /\ ~overtaken => \A k \in Kinds :
          composed[harness][k] # None => GenOf(composed[harness][k]) = gen
=============================================================================
