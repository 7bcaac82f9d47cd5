----------------------------- MODULE TreePicker -----------------------------
(***************************************************************************)
(* The picker of /tree and the branch it starts (tui/app.py). Ctrl+T shows *)
(* or hides tool calls in a worker of its own, which waits for the list to *)
(* be emptied; Enter posts a message; S reads the highlight at once; C     *)
(* keeps it while a dialog asks for instructions. The branch itself is in  *)
(* CodingSession.                                                          *)
(***************************************************************************)
EXTENDS Naturals, Sequences, SequencesExt

CONSTANTS
    Entries,        \* The branchable entries of the session, in their order.
    ToolCalls,      \* Those that are tool calls.
    Active,         \* The active leaf; it need not be listed.
    MaxToggles,     \* Bound: presses of Ctrl+T while the picker is open,
    MaxPosts        \*   and Enter messages under way.

No == <<>>
Toggles == 1 .. MaxToggles

VARIABLES
    screen,         \* "closed", "list", "dialog" over the list, or "crashed".
    shown,          \* show_tool_calls.
    rows,           \* The rows of the list,
    index,          \*   and the highlighted one; 0 without one.
    toggles,        \* The workers of Ctrl+T: [at, selected], and as history
                    \*   what was highlighted in a list that was whole.
    posted,         \* Enter's messages: the index, and what was highlighted.
    kept,           \* What C keeps: the same.
    result,         \* What the picker was dismissed with, <<entry>>, or No,
    wanted,         \*   and what was highlighted when the key was pressed.
    moved,          \* History: a Ctrl+T was under way meanwhile.
    running,        \* A run or a queued message.
    branch,         \* The worker of the branch.
    view            \* What the transcript shows.

vars == <<screen, shown, rows, index, toggles, posted, kept, result, wanted, moved,
          running, branch, view>>
listVars == <<shown, rows, index, toggles>>
pickVars == <<screen, listVars, posted, kept, result, wanted, moved>>

Idle == [at |-> "none", selected |-> No, was |-> No]
Picks == [index : 1 .. (MaxToggles + 1) * Len(Entries), entry : ToSet(Entries)]

TypeOK ==
    /\ screen \in {"closed", "list", "dialog", "crashed"} /\ shown \in BOOLEAN
    /\ ToSet(rows) \subseteq ToSet(Entries) /\ index \in 0 .. Len(rows)
    /\ \A t \in Toggles :
        /\ toggles[t].at \in {"none", "start", "clearing", "extending", "done"}
        /\ {toggles[t].selected, toggles[t].was} \subseteq {No} \cup {<<e>> : e \in ToSet(Entries)}
    /\ ToSet(posted) \subseteq Picks /\ kept \in {No} \cup {<<p>> : p \in Picks}
    /\ result \in {No} \cup {<<e>> : e \in ToSet(Entries)} /\ moved \in BOOLEAN
    /\ wanted \in {No} \cup {<<e>> : e \in ToSet(Entries)}
    /\ running \in BOOLEAN /\ branch \in {"none", "start", "summarizing"}
    /\ view \in {"session", "summarizing"}

\* The entries to show.
Visible(show) == SelectSeq(Entries, LAMBDA e : show \/ e \notin ToolCalls)

\* Where an entry is; without it where the active leaf is, otherwise the first.
ChoiceIndex(choices, selected) ==
    LET At(e) == CHOOSE i \in DOMAIN choices : choices[i] = e
    IN IF selected # No /\ Contains(choices, selected[1]) THEN At(selected[1])
       ELSE IF Contains(choices, Active) THEN At(Active) ELSE 1

Init ==
    /\ screen = "closed" /\ shown = TRUE /\ rows = <<>> /\ index = 0
    /\ toggles = [t \in Toggles |-> Idle] /\ posted = <<>> /\ kept = No
    /\ result = No /\ wanted = No /\ moved = FALSE
    /\ running = FALSE /\ branch = "none" /\ view = "session"

\* /tree, refused while a run is active or a message queued; the entries are
\* read before the picker is there.
Open ==
    /\ screen = "closed" /\ branch = "none" /\ ~running
    /\ screen' = "list" /\ rows' = Visible(shown) /\ index' = ChoiceIndex(Visible(shown), No)
    /\ result' = No /\ wanted' = No /\ moved' = FALSE
    /\ UNCHANGED <<shown, toggles, posted, kept, running, branch, view>>

\* The picker is gone, with its workers and the messages to it.
Close ==
    /\ screen' = "closed" /\ shown' = TRUE /\ rows' = <<>> /\ index' = 0
    /\ toggles' = [t \in Toggles |-> Idle] /\ posted' = <<>> /\ kept' = No

Move(i) ==
    /\ screen = "list" /\ index' = i
    /\ UNCHANGED <<screen, shown, rows, toggles, posted, kept, result, wanted, moved,
                   running, branch, view>>

\* Ctrl+T starts another worker, also while one is under way.
Toggle(t) ==
    /\ screen = "list" /\ toggles[t].at = "none" /\ \A u \in 1 .. t - 1 : toggles[u].at # "none"
    /\ toggles' = [toggles EXCEPT ![t].at = "start"]
    /\ moved' = (moved \/ posted # <<>>)
    /\ UNCHANGED <<screen, shown, rows, index, posted, kept, result, wanted, running, branch, view>>

\* Fault: the entry is read after the flag was changed.
Selected_After(show) ==
    IF index \in DOMAIN Visible(~show) THEN <<Visible(~show)[index]>> ELSE No

\* The entry the highlight is on.
Selected(show) ==
    IF index \in DOMAIN Visible(show) THEN <<Visible(show)[index]>> ELSE No

\* The worker runs to its first wait, the removal of the rows; the highlight is
\* gone at once.
Flip(t) ==
    /\ toggles[t].at = "start" /\ \A u \in 1 .. t - 1 : toggles[u].at # "start"
    /\ toggles' = [toggles EXCEPT ![t] =
        [at |-> "clearing", selected |-> Selected(shown),
         was |-> IF index = 0 \/ rows # Visible(shown) THEN No ELSE <<rows[index]>>]]
    /\ shown' = ~shown /\ rows' = <<>> /\ index' = 0
    /\ UNCHANGED <<screen, posted, kept, result, wanted, moved, running, branch, view>>

\* Fault: the rows were chosen before the wait.
Added_Early(t) == Visible(t % 2 = 0)

\* The rows a worker adds.
Added(t) == Visible(shown)

\* The rows are removed: rows are added to whatever another worker added.
Extend(t) ==
    /\ toggles[t].at = "clearing"
    /\ toggles' = [toggles EXCEPT ![t].at = "extending"]
    /\ rows' = rows \o Added(t)
    /\ UNCHANGED <<screen, shown, index, posted, kept, result, wanted, moved, running, branch, view>>

\* The rows are there, and the entry is highlighted again (a place beyond the
\* rows becomes the last one).
Highlight(t) ==
    /\ toggles[t].at = "extending"
    /\ toggles' = [toggles EXCEPT ![t].at = "done"]
    /\ index' = Min({ChoiceIndex(Visible(shown), toggles[t].selected), Len(rows)})
    /\ UNCHANGED <<screen, shown, rows, posted, kept, result, wanted, moved, running, branch, view>>

Toggling == \E t \in Toggles : toggles[t].at \in {"start", "clearing", "extending"}

\* The highlighted row.
Here == [index |-> index, entry |-> rows[index]]

\* Enter on a highlighted row.
Enter ==
    /\ screen = "list" /\ index # 0 /\ Len(posted) < MaxPosts
    /\ posted' = Append(posted, Here)
    /\ moved' = (moved \/ Toggling)
    /\ UNCHANGED <<screen, listVars, kept, result, wanted, running, branch, view>>

\* Fault: all entries, hidden ones too.
Listed_All == Entries

\* What a place in the list stands for.
Listed == Visible(shown)

\* An entry is taken by its place among the entries to show now; a place beyond
\* them is an error nobody catches, except after the dialog.
Take(pick) ==
    /\ pick.index \in DOMAIN Listed
    /\ result' = <<Listed[pick.index]>> /\ wanted' = <<pick.entry>>
    /\ branch' = "start" /\ Close /\ UNCHANGED <<running, view>>

Fail(pick) ==
    /\ pick.index \notin DOMAIN Listed
    /\ screen' = "crashed"
    /\ UNCHANGED <<listVars, posted, kept, result, wanted, moved, running, branch, view>>

EnterHandled ==
    /\ screen = "list" /\ posted # <<>>
    /\ (Take(Head(posted)) /\ UNCHANGED moved) \/ Fail(Head(posted))

\* A screen that is covered is not dismissed: the message has no effect.
EnterIgnored ==
    /\ screen = "dialog" /\ posted # <<>> /\ Head(posted).index \in DOMAIN Listed
    /\ posted' = Tail(posted)
    /\ UNCHANGED <<screen, listVars, kept, result, wanted, moved, running, branch, view>>

EnterFails == screen = "dialog" /\ posted # <<>> /\ Fail(Head(posted))

\* S: with the default summary.
Summarize ==
    /\ screen = "list" /\ index # 0
    /\ (Take(Here) /\ moved' = (moved \/ Toggling)) \/ Fail(Here)

\* C: a dialog asks for instructions, and is submitted or left.
Ask ==
    /\ screen = "list" /\ index # 0 /\ screen' = "dialog" /\ kept' = <<Here>>
    /\ moved' = (moved \/ Toggling)
    /\ UNCHANGED <<listVars, posted, result, wanted, running, branch, view>>

Instruct == screen = "dialog" /\ Take(kept[1]) /\ UNCHANGED moved

\* It is left, or the place it kept is no longer there.
LeaveDialog ==
    /\ screen = "dialog" /\ screen' = "list" /\ kept' = No
    /\ UNCHANGED <<listVars, posted, result, wanted, moved, running, branch, view>>

Escape ==
    /\ screen = "list" /\ Close /\ result' = No
    /\ UNCHANGED <<wanted, moved, running, branch, view>>

\* The branch is refused when a run started meanwhile. Before a summary the
\* transcript is emptied.
Branch(summarize) ==
    /\ branch = "start"
    /\ branch' = IF running THEN "none" ELSE "summarizing"
    /\ view' = IF ~running /\ summarize THEN "summarizing" ELSE view
    /\ UNCHANGED <<pickVars, running>>

\* It succeeds, and the transcript is built again, or it fails.
Branched(succeeds) ==
    /\ branch = "summarizing" /\ branch' = "none"
    /\ view' = IF succeeds THEN "session" ELSE view
    /\ UNCHANGED <<pickVars, running>>

\* Runs come and go: extensions start them under the picker, the user after it.
Run == running' = ~running /\ UNCHANGED <<pickVars, branch, view>>

Next ==
    \/ Open \/ Enter \/ EnterHandled \/ EnterIgnored \/ EnterFails \/ Summarize \/ Ask \/ Instruct \/ LeaveDialog
    \/ Escape \/ Run
    \/ \E i \in DOMAIN rows : Move(i)
    \/ \E t \in Toggles : Toggle(t) \/ Flip(t) \/ Extend(t) \/ Highlight(t)
    \/ \E summarize, succeeds \in BOOLEAN : Branch(summarize) \/ Branched(succeeds)

Spec == Init /\ [][Next]_vars
-----------------------------------------------------------------------------
\* With no Ctrl+T under way when the key was pressed or since, Enter, S and C
\* branch from the row that was highlighted.
TakesHighlighted == result # No /\ ~moved => result = wanted

\* "`Enter` moves the active leaf to the selected entry"
\* (phase-24-session-tree-branching.md:18), whatever Ctrl+T does meanwhile. The code
\* breaks it: a flag flipped before the message is handled names another row.
EnterTakesSelected == result # No => result = wanted

\* A Ctrl+T that finds the list whole, and no other follows, keeps the highlight
\* on its entry if that one is still shown.
KeepsHighlight ==
    [][\A t \in Toggles :
        /\ toggles[t].at = "extending" /\ toggles'[t].at = "done"
        /\ \A u \in Toggles \ {t} : toggles[u].at \in {"none", "start", "done"}
        /\ toggles[t].was # No /\ Contains(rows, toggles[t].was[1])
        /\ Len(rows) = Len(Visible(shown))
        => rows[index'] = toggles[t].was[1]]_vars

\* The workers leave the list with the rows of the last flag and no others.
RowsOfFlag ==
    screen \in {"list", "dialog"} /\ ~Toggling
    => ToSet(rows) = {e \in ToSet(Entries) : shown \/ e \notin ToolCalls}
=============================================================================
