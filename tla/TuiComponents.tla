----------------------------- MODULE TuiComponents -----------------------------
(***************************************************************************)
(* Widgets of extensions in the terminal frontend (tau_coding/tui/app.py): *)
(* a slot next to the prompt, and the view that takes the transcript's     *)
(* place. What should be shown is recorded at once; tasks that wait for    *)
(* each other on a lock bring the screen there, since a widget leaves      *)
(* later than it is asked to, and the screen refuses a second widget with  *)
(* the id of one it still has. All widgets of a place share one id here.   *)
(***************************************************************************)
EXTENDS Naturals, Sequences, FiniteSets, SequencesExt

CONSTANTS MaxWidgets, MaxSwaps, MaxClears    \* bounds

Places == {"slot", "view"}
Nobody == 0

VARIABLES
    placeOf,    \* where each widget made so far belongs
    target,     \* _extension_slot_widgets, _extension_main_view
    mounted,    \* _extension_slot_mounted, _extension_main_view_mounted
    screen,     \* widgets on screen
    leaving,    \* those whose removal was asked for
    fresh,      \* those whose on_mount is not over
    ghosts,     \* those that were quarantined
    swaps,      \* calls of _reconcile_slot and _reconcile_main_view, in order: [place, old]
    over,       \* handles of views that are closed, whose wait() returns
    hidden,     \* the transcript is hidden
    refused,    \* history: [new, old]: a widget the screen refused, for another
    blamed,     \* history: views that were closed when another widget crashed
    clears

intent == <<placeOf, target, over>>
display == <<mounted, screen, leaving, fresh, ghosts, hidden>>
history == <<refused, blamed>>
vars == <<intent, display, swaps, history, clears>>

Widgets == DOMAIN placeOf
Current == target["view"]

Init ==
    /\ placeOf = <<>> /\ target = [p \in Places |-> Nobody] /\ mounted = target
    /\ screen = {} /\ leaving = {} /\ fresh = {} /\ ghosts = {} /\ swaps = <<>>
    /\ over = {} /\ hidden = FALSE /\ refused = {} /\ blamed = {} /\ clears = 0

\* _schedule_extension_swap
Schedules(ps) ==
    /\ Len(swaps) + Len(ps) <= MaxSwaps
    /\ swaps' = swaps \o [i \in DOMAIN ps |-> [place |-> ps[i], old |-> Nobody]]

\* Fault: a view that is replaced is forgotten.
Released_Never(w) == over

\* _release_main_view_handle
Released(w) == over \cup ({w} \ {Nobody})

\* _set_extension_slot_widget and _open_extension_main_view
Show(p) ==
    /\ Len(placeOf) < MaxWidgets /\ placeOf' = Append(placeOf, p)
    /\ target' = [target EXCEPT ![p] = Len(placeOf) + 1]
    /\ over' = IF p = "view" THEN Released(Current) ELSE over
    /\ Schedules(<<p>>)
    /\ UNCHANGED <<display, history, clears>>

UnsetSlot ==
    /\ target["slot"] # Nobody
    /\ target' = [target EXCEPT !["slot"] = Nobody] /\ Schedules(<<"slot">>)
    /\ UNCHANGED <<placeOf, over, display, history, clears>>

\* close of a handle, and _close_extension_main_view.
CloseView ==
    /\ Current # Nobody
    /\ target' = [target EXCEPT !["view"] = Nobody] /\ over' = over \cup {Current}
    /\ Schedules(<<"view">>)
    /\ UNCHANGED <<placeOf, display, history, clears>>

\* _clear_extension_components: a reload, another session, the end.
Clear ==
    /\ clears < MaxClears /\ clears' = clears + 1
    /\ target' = [p \in Places |-> Nobody] /\ over' = Released(Current)
    /\ Schedules(IF target["slot"] = Nobody /\ mounted["slot"] = Nobody THEN <<"view">> ELSE <<"slot", "view">>)
    /\ UNCHANGED <<placeOf, display, history>>
-----------------------------------------------------------------------------
\* The task that has, or gets, the lock of its place.
First(i) == \A j \in 1 .. i - 1 : swaps[j].place # swaps[i].place

\* Fault: the new widget is mounted without waiting.
Outgoing_None(p) == Nobody

\* The widget to take away first.
Outgoing(p) == IF mounted[p] # target[p] THEN mounted[p] ELSE Nobody

\* The widgets that have the id of those of the place.
Namesakes(p) == {w \in screen : placeOf[w] = p}

\* What follows the removal, with what is mounted then.
Mount(p, current) ==
    LET w == target[p] IN
    IF w = Nobody \/ current[p] = w
    THEN /\ mounted' = current
         /\ hidden' = (hidden /\ ~(p = "view" /\ w = Nobody /\ current[p] = Nobody))
         /\ UNCHANGED <<target, over, screen, fresh, refused>>
    ELSE IF Namesakes(p) # {}
    THEN /\ mounted' = current /\ target' = [target EXCEPT ![p] = Nobody]
         /\ over' = IF p = "view" THEN Released(w) ELSE over
         /\ hidden' = (hidden /\ p # "view")
         /\ refused' = refused \cup {[new |-> w, old |-> o] : o \in Namesakes(p)}
         /\ UNCHANGED <<screen, fresh>>
    ELSE /\ mounted' = [current EXCEPT ![p] = w]
         /\ screen' = screen \cup {w} /\ fresh' = fresh \cup {w}
         /\ hidden' = (hidden \/ p = "view")
         /\ UNCHANGED <<target, over, refused>>

\* _reconcile_slot and _reconcile_main_view, up to the removal of what is shown.
Reconcile(i) ==
    LET p == swaps[i].place
        old == Outgoing(p)
    IN  /\ First(i) /\ swaps[i].old = Nobody
        /\ IF old # Nobody
           THEN /\ swaps' = [swaps EXCEPT ![i].old = old] /\ leaving' = leaving \cup {old}
                /\ UNCHANGED <<mounted, hidden, target, over, screen, fresh, refused>>
           ELSE swaps' = RemoveAt(swaps, i) /\ Mount(p, mounted) /\ UNCHANGED leaving
        /\ UNCHANGED <<placeOf, ghosts, blamed, clears>>

\* After the removal: what should be shown is read again.
Replace(i) ==
    LET s == swaps[i] IN
    /\ s.old # Nobody /\ s.old \notin screen
    /\ swaps' = RemoveAt(swaps, i)
    /\ Mount(s.place, IF mounted[s.place] = s.old THEN [mounted EXCEPT ![s.place] = Nobody] ELSE mounted)
    /\ UNCHANGED <<placeOf, leaving, ghosts, blamed, clears>>

\* The screen: a widget is told that it is mounted, and leaves after that.
Started(w) ==
    /\ w \in fresh \ ghosts /\ fresh' = fresh \ {w}
    /\ UNCHANGED <<intent, mounted, screen, leaving, ghosts, hidden, swaps, history, clears>>

Leaves(w) ==
    /\ w \in (screen \cap leaving) \ fresh /\ screen' = screen \ {w}
    /\ UNCHANGED <<intent, mounted, leaving, fresh, ghosts, hidden, swaps, history, clears>>

\* Fault: only what should be shown is tracked.
Tracked_Intended == {target[p] : p \in Places}

\* _tracked_extension_widgets
Tracked == {target[p] : p \in Places} \cup {mounted[p] : p \in Places}

\* Fault: a widget that crashes is hidden, and stays where it was.
Without_Tracked(f, w) == f

Without(f, w) == [p \in Places |-> IF f[p] = w THEN Nobody ELSE f[p]]

\* _quarantine_extension_widget: a widget raised in render or on_mount.
Crash(w) ==
    /\ w \in (screen \ ghosts) \cap Tracked
    /\ ghosts' = ghosts \cup {w} /\ leaving' = leaving \cup {w}
    /\ mounted' = Without(mounted, w)
    /\ IF placeOf[w] = "slot"
       THEN target' = Without(target, w) /\ UNCHANGED <<over, hidden, blamed>>
       ELSE /\ target' = [target EXCEPT !["view"] = Nobody] /\ over' = Released(Current)
            /\ hidden' = FALSE /\ blamed' = blamed \cup ({Current} \ {Nobody, w})
    /\ UNCHANGED <<placeOf, screen, fresh, swaps, refused, clears>>

Next ==
    \/ \E p \in Places : Show(p)
    \/ UnsetSlot \/ CloseView \/ Clear
    \/ \E i \in DOMAIN swaps : Reconcile(i) \/ Replace(i)
    \/ \E w \in screen : Started(w) \/ Leaves(w) \/ Crash(w)

Spec == Init /\ [][Next]_vars
-----------------------------------------------------------------------------
TypeOK ==
    /\ placeOf \in Seq(Places) /\ target \in [Places -> 0 .. Len(placeOf)]
    /\ mounted \in [Places -> 0 .. Len(placeOf)] /\ screen \subseteq Widgets /\ over \subseteq Widgets

\* A widget on screen that crashes is found among the tracked ones, so that it
\* never takes the application down (extensions.md:287), nor survives the session it
\* was mounted in, whichever replacements and removals are under way.
CrashesContained == \A w \in screen \ ghosts : w \in Tracked

\* Whoever awaits a view that is not shown any more has its answer
\* (app.py:4225: "a pending wait() never leaks unresolved").
NobodyWaits == \A w \in Widgets : placeOf[w] = "view" /\ w # Current => w \in over

\* When the tasks of a place are done, the last writer's widget is the one shown, and
\* the transcript is hidden just while a view is.
LastWriterShown ==
    \A p \in Places :
        (\A i \in DOMAIN swaps : swaps[i].place # p) =>
            /\ mounted[p] = target[p]
            /\ Namesakes(p) \ ghosts = {mounted[p]} \ {Nobody}
            /\ p = "view" => hidden = (mounted[p] # Nobody)

\* The screen refuses no widget for the one it replaces (app.py:4083), only for one
\* that was quarantined.
ReplacementsMount == \A r \in refused : r.old \in ghosts

\* A widget is isolated when it crashes (extensions.md:287). The code breaks it: a
\* view that crashes while another replaces it closes that other one.
OthersStay == blamed = {}
=============================================================================
