----------------------------- MODULE MCServices -----------------------------
(***************************************************************************)
(* The services around a session for TLC, in one run: the session index,   *)
(* extensions, resources, the built-in tools, and what a start announces.  *)
(* They share nothing that a step of another changes, so `which` says      *)
(* whose steps a behaviour takes, and the others keep their initial state. *)
(***************************************************************************)
EXTENDS SessionIndex, TLC

CONSTANTS ExtensionNames

VARIABLES
    which,
    gen, loaded, apis, hooks, owner, views, reported, failures,
    harness, heard, attached, composed, switch, overtaken, call,
    options, disk, edits, session, at, read,
    file, page,
    bashAt, alive, holding, output, signalled, watch, cause, swallowed, result,
    source, supported, imageAt, image, attempt, encoded,
    notedVersion, writable, lastSeen, told, lost, base, settled, repeated,
    installed, environment, enabled, releases, since, now, cache, notice, asked, turned, ran

\* Two sessions share a project.
SessionHomes == [s \in Sessions |-> IF s = "c" THEN "q" ELSE "p"]

extensionVars == <<gen, loaded, apis, hooks, owner, views, reported, failures,
                   harness, heard, attached, composed, switch, overtaken, call>>

\* What extensions register, and the hooks they add: each in a model of its own.
Registry == INSTANCE ExtensionRuntime WITH
    Names <- ExtensionNames, Kinds <- {"tool"}, MaxGen <- 2, MaxHooks <- 0, MaxHarness <- 2
Hooks == INSTANCE ExtensionRuntime WITH
    Names <- ExtensionNames, Kinds <- {}, MaxGen <- 2, MaxHooks <- 2, MaxHarness <- 2

\* Where and how Tau is started.
Options ==
    {[home |-> FALSE, root |-> "parent", dirs |-> TRUE, trusted |-> TRUE, fixed |-> FALSE],
     [home |-> TRUE, root |-> "cwd", dirs |-> TRUE, trusted |-> FALSE, fixed |-> FALSE],
     [home |-> FALSE, root |-> "cwd", dirs |-> FALSE, trusted |-> FALSE, fixed |-> TRUE]}

resourceVars == <<options, disk, edits, session, at, read>>
Resources == INSTANCE SessionResources WITH
    Levels <- 1, Skills <- {"s"}, Stems <- {"a", "Tools"}, MaxEdits <- 2

filesVars == <<file, page>>
imageVars == <<source, supported, imageAt, image, attempt, encoded>>
Files == INSTANCE FileTools WITH
    at <- imageAt, MaxLines <- 2, MaxBytes <- 2, MaxChars <- 4, MaxLimit <- 2,
    MaxImageBytes <- 2, MaxSide <- 4, MaxSource <- 5, MaxPixels <- 40,
    Attempts <- 3, Sides <- {1, 3, 5, 7}, Sizes <- {1, 2, 3, 6}

bashVars == <<bashAt, alive, holding, output, signalled, watch, cause, swallowed, result>>
Bash == INSTANCE BashTool WITH at <- bashAt, MaxLines <- 2, MaxBytes <- 2, MaxWrites <- 4

notesVars == <<notedVersion, writable, lastSeen, told, lost, base, settled, repeated>>
Notes == INSTANCE ReleaseNotes WITH
    installed <- notedVersion, MaxVersion <- 4, Noted <- 2 .. 4

updateVars == <<installed, environment, enabled, releases, since, now, cache, notice, asked, turned, ran>>
Updates == INSTANCE UpdateCheck WITH
    index <- releases, MaxVersion <- 2, MaxClock <- 2, Interval <- 1

In(maker, installer, direct) == [maker |-> maker, installer |-> installer, direct |-> direct]

\* Environments whose receipts and metadata agree, and some where they do not.
SampleEnvironments ==
    {In("uv-tool", "uv", FALSE), In("uv-tool", "pip", FALSE), In("pipx", "pip", FALSE),
     In("venv", "uv", FALSE), In("venv", "none", FALSE), In("venv", "pip", TRUE),
     In("conda", "conda", FALSE), In("conda", "pip", FALSE)}

startVars == <<notesVars, updateVars>>
toolsVars == <<resourceVars, filesVars, bashVars, imageVars, startVars>>

\* Extensions are interchangeable.
Symmetry == Permutations(ExtensionNames)

MCInit ==
    /\ which \in {"index", "registry", "hooks", "resources", "files", "bash", "images",
                "notes", "updates"}
    /\ Init /\ (which # "index" => files = {})
    /\ IF which = "hooks" THEN Hooks!Init
       ELSE Registry!Init /\ (which # "registry" => apis = {})
    /\ Resources!Init
    /\ (which # "resources" => options.home /\ options.dirs)
    /\ Files!TextInit /\ (which # "files" => file = <<>>)
    /\ Bash!Init /\ (which # "bash" => signalled)
    /\ IF which = "images" THEN Files!ImageInit
       ELSE /\ source = [kind |-> "png", w |-> 1, h |-> 1, bytes |-> 1, animated |-> FALSE, intact |-> TRUE]
            /\ supported = TRUE /\ imageAt = "reading" /\ image = [w |-> 1, h |-> 1]
            /\ attempt = 0 /\ encoded = 0
    /\ Notes!Init /\ (which # "notes" => notedVersion = 1 /\ writable)
    /\ Updates!Init
    /\ IF which = "updates" THEN environment \in SampleEnvironments
       ELSE environment = In("venv", "pip", FALSE) /\ enabled

MCNext ==
    \/ which = "index" /\ Next /\ UNCHANGED <<which, extensionVars, toolsVars>>
    \/ which = "registry" /\ Registry!Next /\ UNCHANGED <<which, vars, toolsVars>>
    \/ which = "hooks" /\ Hooks!Next /\ UNCHANGED <<which, vars, toolsVars>>
    \/ which = "resources" /\ Resources!Next
       /\ UNCHANGED <<which, vars, extensionVars, filesVars, bashVars, imageVars, startVars>>
    \/ which = "files" /\ Files!TextNext
       /\ UNCHANGED <<which, vars, extensionVars, resourceVars, bashVars, imageVars, startVars>>
    \/ which = "bash" /\ Bash!Next
       /\ UNCHANGED <<which, vars, extensionVars, resourceVars, filesVars, imageVars, startVars>>
    \/ which = "images" /\ Files!ImageNext
       /\ UNCHANGED <<which, vars, extensionVars, resourceVars, filesVars, bashVars, startVars>>
    \/ which = "notes" /\ Notes!Next
       /\ UNCHANGED <<which, vars, extensionVars, resourceVars, filesVars, bashVars,
                       imageVars, updateVars>>
    \/ which = "updates" /\ Updates!Next
       /\ UNCHANGED <<which, vars, extensionVars, resourceVars, filesVars, bashVars,
                       imageVars, notesVars>>

MCSpec == MCInit /\ [][MCNext]_<<which, vars, extensionVars, toolsVars>>
-----------------------------------------------------------------------------
\* ExtensionRuntime: a reload leaves nothing of the generation before, extensions
\* hear the harness in use and no other, the first registration of a name wins, a
\* failed setup leaves none, and a tool runs only after all hooks passed it.
ExtensionsContained ==
    /\ [](which = "registry" => Registry!TypeOK /\ Registry!OldGone /\ Registry!Followed)
    /\ [](which = "hooks" => Hooks!TypeOK /\ Hooks!GuardedCalls)
    /\ Registry!KeepsItsOwner /\ Registry!OwnersLoaded

\* SessionResources: later directories override earlier ones, an extension loads
\* or is diagnosed, the system prompt names what the session has, a reload takes
\* everything, or fails and leaves nothing half read, reserved commands are no
\* templates, and instructions come in order and from nowhere outside.
ResourcesExact ==
    which = "resources" =>
        /\ Resources!TypeOK /\ Resources!HighestWins /\ Resources!NothingSilent
        /\ Resources!PromptFresh /\ Resources!OneReading
        /\ Resources!CommandsReachable /\ Resources!ContextNarrows

\* FileTools, BashTool: who follows the hints of read sees each line that keeps
\* the limit, the edits of one call match the text as it was, a command that is
\* stopped once it is waited for leaves no process of its session and shows the
\* end of its output, and an attached image keeps every limit.
ToolsExact ==
    /\ which = "files"  => Files!TypeOK /\ Files!PagesCover /\ Files!EditsExact
    /\ which = "bash"   => Bash!TypeOK /\ Bash!NoOrphans /\ Bash!TailShown
    /\ which = "images" => Files!TypeOK /\ Files!SentFits

\* ReleaseNotes, UpdateCheck: no version's notes are skipped or shown twice, a
\* release is announced once its day is over, the index is not asked more than
\* once a day, and an update runs the manager that owns the install.
StartInforms ==
    /\ [](which = "notes" => Notes!TypeOK /\ Notes!NotesComplete) /\ Notes!NotesOnce
    /\ [](which = "updates" => Updates!TypeOK /\ Updates!OwnerUpdates)
    /\ Updates!NewsArrives /\ Updates!AskedDaily
=============================================================================
