----------------------------- MODULE MCFrontends -----------------------------
(***************************************************************************)
(* What the frontends do, for TLC in one run: the event trace of a web     *)
(* session and the web runtime above its sessions; and of the terminal the *)
(* prompts, the transcript and its window, the widgets of extensions, the  *)
(* pickers, the session tree and the login screens. They share nothing     *)
(* that a step of another changes, so `which` says whose steps a behaviour *)
(* takes, and the others keep their initial state.                         *)
(***************************************************************************)
EXTENDS WebTrace, TLC

CONSTANTS Prompts, Calls, None, Sessions, Requests, Models, Levels

VARIABLES
    which,
    input, tasks, run, worker, harness, items, running, pending,
    compactions, compacting, switching, used, submitted, answered, astray,
    messages, rows, text, start, rowOf, phase, calls, deltas, kept, base, cancels,
    history, serial, loud, flowing, since, doing, window, told, follow, spot, shift, due, redraws,
    placeOf, target, mounted, screen, leaving, fresh, ghosts, swaps, over, hidden, refused, blamed, clears,
    web, co, host, visited, size,
    kind, mode, field, search, visible, light, waiting, saved, scoped, chosen,
    tree, shown, branches, place, toggles, posted, noted, branched, wanted, moved, busy, branch, view,
    page, method, entry, covered, login, heard, code, credential

promptVars == <<input, tasks, run, worker, harness, items, running, pending,
                compactions, compacting, switching, used, submitted, answered, astray>>
viewVars == <<messages, rows, text, start, rowOf, phase, calls, deltas, kept, base, cancels>>
windowVars == <<history, serial, loud, flowing, since, doing, window, told, follow, spot, shift, due, redraws>>
widgetVars == <<placeOf, target, mounted, screen, leaving, fresh, ghosts, swaps, over, hidden,
                refused, blamed, clears>>
hostVars == <<web, co, host, visited, size>>
pickerVars == <<kind, mode, field, search, visible, light, waiting, saved, scoped, chosen>>
treeVars == <<tree, shown, branches, place, toggles, posted, noted, branched, wanted, moved,
              busy, branch, view>>
loginVars == <<page, method, entry, covered, login, heard, code, credential>>
frontVars == <<which, vars, promptVars, viewVars, windowVars, widgetVars, hostVars, pickerVars, treeVars,
              loginVars>>

Terminal == INSTANCE TuiPrompts WITH
    MaxTasks <- 3, MaxRuns <- 3, MaxCompactions <- 1, MaxSwitches <- 1, MaxTerminal <- 1
Screen == INSTANCE TuiView WITH
    items <- rows, buffer <- text, at <- rowOf,
    MaxMessages <- 4, MaxBlocks <- 2, MaxDeltas <- 1, MaxCancels <- 1
\* A longer session, with one block a message, whose calls all have the same id.
Reused == INSTANCE TuiView WITH
    items <- rows, buffer <- text, at <- rowOf, Calls <- {"t"},
    MaxMessages <- 5, MaxBlocks <- 1, MaxDeltas <- 1, MaxCancels <- 1
Mounts == INSTANCE TranscriptWindow WITH
    items <- history, buffer <- flowing, from <- since, phase <- doing, view <- window, toggles <- redraws,
    Window <- 2, Page <- 1, Overscan <- 2, MaxSerial <- 6, MaxToggles <- 1
Components == INSTANCE TuiComponents WITH MaxWidgets <- 3, MaxSwaps <- 3, MaxClears <- 1
Host == INSTANCE WebHost WITH Offers <- [m \in Models |-> IF m = "m" THEN Levels ELSE {"low"}]
Pickers == INSTANCE TuiPickers WITH
    text <- field, index <- light, pending <- waiting, result <- chosen,
    Rows <- <<"a", "b", "c">>, Current <- "c", MaxPending <- 2,
    Matches <- "x" :> {"b", "c"} @@ "y" :> {}
Tree == INSTANCE TreePicker WITH
    screen <- tree, rows <- branches, index <- place, kept <- noted, result <- branched, running <- busy,
    Entries <- <<"t", "u", "a">>, ToolCalls <- {"t"}, Active <- "a", MaxToggles <- 2, MaxPosts <- 1
Logins == INSTANCE LoginScreens WITH
    screen <- page, stored <- credential, Providers <- {"codex", "copilot", "anthropic", "openai"},
    OAuth <- {"codex", "copilot", "anthropic"}, Device <- {"copilot"}, Key <- {"anthropic", "openai"}

\* Browsers are interchangeable, and so are prompts and the ids of tool calls.
Symmetry == Permutations(Clients) \cup Permutations(Prompts) \cup Permutations(Calls)

MCInit ==
    /\ which \in {"trace", "prompts", "view", "reused", "window", "widgets", "host", "pickers", "tree", "logins"}
    /\ Init /\ Terminal!Init /\ Screen!Init /\ Mounts!Init /\ Components!Init
    /\ Host!Init /\ (which # "host" => web.records = Host!Empty)
    /\ Pickers!Init /\ Tree!Init /\ Logins!Init

MCNext ==
    \/ which = "trace" /\ Next
       /\ UNCHANGED <<which, promptVars, viewVars, windowVars, widgetVars, hostVars, pickerVars, treeVars, loginVars>>
    \/ which = "prompts" /\ Terminal!Next
       /\ UNCHANGED <<which, vars, viewVars, windowVars, widgetVars, hostVars, pickerVars, treeVars, loginVars>>
    \/ which = "view" /\ Screen!Next
       /\ UNCHANGED <<which, vars, promptVars, windowVars, widgetVars, hostVars, pickerVars, treeVars, loginVars>>
    \/ which = "reused" /\ Reused!Next
       /\ UNCHANGED <<which, vars, promptVars, windowVars, widgetVars, hostVars, pickerVars, treeVars, loginVars>>
    \/ which = "window" /\ Mounts!Next
       /\ UNCHANGED <<which, vars, promptVars, viewVars, widgetVars, hostVars, pickerVars, treeVars, loginVars>>
    \/ which = "widgets" /\ Components!Next
       /\ UNCHANGED <<which, vars, promptVars, viewVars, windowVars, hostVars, pickerVars, treeVars, loginVars>>
    \/ which = "host" /\ Host!Next
       /\ UNCHANGED <<which, vars, promptVars, viewVars, windowVars, widgetVars, pickerVars, treeVars, loginVars>>
    \/ which = "pickers" /\ Pickers!Next
       /\ UNCHANGED <<which, vars, promptVars, viewVars, windowVars, widgetVars, hostVars, treeVars, loginVars>>
    \/ which = "tree" /\ Tree!Next
       /\ UNCHANGED <<which, vars, promptVars, viewVars, windowVars, widgetVars, hostVars, pickerVars, loginVars>>
    \/ which = "logins" /\ Logins!Next
       /\ UNCHANGED <<which, vars, promptVars, viewVars, windowVars, widgetVars, hostVars, pickerVars, treeVars>>

MCSpec == MCInit /\ [][MCNext]_frontVars
-----------------------------------------------------------------------------
\* TuiPrompts: each message of the session is on the screen once and in order,
\* Enter queues while a run goes on, and no prompt is in two places.
PromptsFaithful ==
    which = "prompts" =>
        Terminal!TypeOK /\ Terminal!ViewFaithful /\ Terminal!BusyShown /\ Terminal!OnePlace

\* TuiView: what was shown live is what a reload shows, and a run changes no row
\* of an earlier message. TranscriptWindow: what is mounted of it stays a stretch of
\* the items in all steps but two, and is no more than the window may have, and who
\* follows sees the last.
ScreenFaithful ==
    /\ [](which = "view" => Screen!TypeOK /\ Screen!LiveIsRestored)
    /\ [](which = "reused" => Reused!TypeOK /\ Reused!LiveIsRestored)
    /\ [](which = "window" => Mounts!TypeOK /\ Mounts!RowsBounded /\ Mounts!FollowerSeesLast)
    /\ [][which = "window" => Mounts!StaysContiguous]_windowVars
    /\ Screen!EarlierRowsStay

\* TuiComponents: a widget that crashes is known to the application, who awaits
\* a view that is gone has its answer, what was set last is shown in the end,
\* and no widget is refused for the one it replaces.
WidgetsContained ==
    which = "widgets" =>
        /\ Components!TypeOK /\ Components!CrashesContained /\ Components!NobodyWaits
        /\ Components!LastWriterShown /\ Components!ReplacementsMount

\* WebHost: a session has a level its model offers, the index has the model it
\* works with, and a creation that fails leaves nothing behind.
HostConsistent ==
    which = "host" =>
        Host!TypeOK /\ Host!LevelFits /\ Host!ModelRecorded /\ Host!FailedCreateGone

\* TuiPickers and TreePicker: what was typed or highlighted before Enter is what
\* is taken, a tab and a toggle show what the session has, and a Ctrl+T that
\* rebuilds the list leaves the rows of the last flag and the highlight.
PickersExact ==
    /\ [](which = "pickers" =>
            Pickers!TypeOK /\ Pickers!HighlightInside /\ Pickers!ScopedAsSaved)
    /\ Pickers!TakesWhatWasTyped /\ Pickers!ScopedTabTakesScoped
    /\ [](which = "tree" => Tree!TypeOK /\ Tree!TakesHighlighted /\ Tree!RowsOfFlag)
    /\ Tree!KeepsHighlight

\* LoginScreens: what is stored is what the provider accepts, nobody is asked
\* again for a text that was given, and a login ends with its screen.
LoginsExact ==
    which = "logins" => Logins!LoginInv
=============================================================================
