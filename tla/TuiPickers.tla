----------------------------- MODULE TuiPickers -----------------------------
(***************************************************************************)
(* The pickers with a search field (tui/app.py): templates, sessions,      *)
(* skills, login providers, models and scoped models. The search field     *)
(* tells the screen of an edit by a message, Enter is a message as well,   *)
(* while the arrow keys, Tab and, in the skill picker, Enter are bindings  *)
(* that act at once, before messages that still wait.                      *)
(***************************************************************************)
EXTENDS Naturals, Sequences, SequencesExt

CONSTANTS
    Rows,           \* The choices of a picker, in their order.
    Current,        \* The row of the model in use; it need not be listed.
    Matches,        \* For each text but the empty one, the rows it matches.
    MaxPending      \* Bound on the messages that wait.

No == <<>>
Kinds == {"templates", "sessions", "skills", "providers", "model", "scoped"}
Texts == DOMAIN Matches \cup {""}

VARIABLES
    kind,           \* The picker on the screen.
    mode,           \* The tab of the model picker.
    text,           \* What the search field holds.
    search,         \* The text the list was filtered by.
    visible,        \* The rows the list shows,
    index,          \*   and the highlighted one; 0 without one.
    pending,        \* Messages on their way to the screen.
    saved,          \* The scoped models of the session.
    scoped,         \* The scoped models the picker shows.
    result          \* What it was dismissed with, <<row>>, or No.

vars == <<kind, mode, text, search, visible, index, pending, saved, scoped, result>>

IsScope(s) == ToSet(s) \subseteq ToSet(Rows) /\ IsInjective(s)

TypeOK ==
    /\ kind \in Kinds \cup {"closed"} /\ mode \in {"all", "scoped"}
    /\ text \in Texts /\ search \in Texts
    /\ IsScope(visible) /\ index \in 0 .. Len(visible)
    /\ \A i \in DOMAIN pending : pending[i].message \in {"changed", "submitted", "clicked"}
    /\ IsScope(saved) /\ IsScope(scoped)
    /\ result \in {No} \cup {<<r>> : r \in ToSet(Rows)}

\* The rows that match a text, names and descriptions compared without case.
Filter(rows, t) ==
    IF t = "" THEN rows ELSE SelectSeq(rows, LAMBDA r : r \in Matches[t])

\* Fault: the tab stays on all models.
Base_All(m, s) == Rows

\* What there is to filter: the models of a tab.
Base(m, s) == IF m = "scoped" THEN s ELSE Rows

\* Where the highlight goes: to the model in use, otherwise to the first row.
Reset(k, rows) ==
    IF rows = <<>> THEN 0
    ELSE IF k \in {"model", "scoped"} /\ Contains(rows, Current)
         THEN CHOOSE i \in DOMAIN rows : rows[i] = Current
         ELSE 1

\* Fault: the highlight stays where it was.
Refreshed_Kept(k, m, s, t) ==
    /\ visible' = Filter(Base(m, s), t)
    /\ index' = IF index = 0 THEN Reset(k, visible') ELSE index

\* The list is built again.
Refreshed(k, m, s, t) ==
    /\ visible' = Filter(Base(m, s), t)
    /\ index' = Reset(k, visible')

Init ==
    /\ kind = "closed" /\ mode = "all" /\ text = "" /\ search = ""
    /\ visible = <<>> /\ index = 0 /\ pending = <<>>
    /\ saved = <<>> /\ scoped = <<>> /\ result = No

\* A picker opens with all its rows; the model pickers are not opened without
\* any, the others say so in their help line.
Open(k) ==
    /\ kind = "closed" /\ kind' = k /\ mode' = "all" /\ text' = "" /\ search' = ""
    /\ scoped' = saved /\ Refreshed(k, "all", saved, "")
    /\ pending' = <<>> /\ result' = No /\ UNCHANGED saved

Post(m) == Len(pending) < MaxPending /\ pending' = Append(pending, m)

\* The field is edited; the screen hears of it later.
Type(t) ==
    /\ kind # "closed" /\ text # t /\ text' = t
    /\ Post([message |-> "changed", text |-> t])
    /\ UNCHANGED <<kind, mode, search, visible, index, saved, scoped, result>>

\* A scoped model is added or taken out.
Toggled(s, r) == IF Contains(s, r) THEN Remove(s, r) ELSE Append(s, r)

\* Fault: the picker toggles a list of its own.
Answered_Own(now, r) == Toggled(scoped, r)

\* The list the session answers a toggle with.
Answered(now, r) == now

\* A row is dismissed with, or toggled in the scoped-model picker; the session
\* may refuse (the model is gone, the settings cannot be written) and then its
\* own list is shown.
Select(refuses) ==
    IF index = 0 THEN UNCHANGED <<kind, mode, search, visible, index, saved, scoped, result>>
    ELSE IF kind = "scoped"
    THEN /\ saved' = IF refuses THEN saved ELSE Toggled(saved, visible[index])
         /\ scoped' = Answered(saved', visible[index])
         /\ Refreshed(kind, mode, scoped', search)
         /\ UNCHANGED <<kind, mode, search, result>>
    ELSE /\ result' = <<visible[index]>> /\ kind' = "closed"
         /\ UNCHANGED <<mode, search, visible, index, saved, scoped>>

\* Fault: Enter acts before what was typed is heard.
Waits_Not(k) == FALSE

\* Enter goes through the search field; the skill picker binds it first.
Waits(k) == k # "skills"

Enter ==
    /\ kind # "closed" /\ UNCHANGED text
    /\ IF Waits(kind)
       THEN /\ Post([message |-> "submitted", text |-> text])
            /\ UNCHANGED <<kind, mode, search, visible, index, saved, scoped, result>>
       ELSE /\ \E refuses \in BOOLEAN : Select(refuses)
            /\ UNCHANGED pending

\* A row is clicked: highlighted at once, taken when the message arrives.
Click(i) ==
    /\ kind # "closed" /\ index' = i
    /\ Post([message |-> "clicked", text |-> text])
    /\ UNCHANGED <<kind, mode, text, search, visible, saved, scoped, result>>

\* The screen handles the oldest message.
Handle(refuses) ==
    /\ kind # "closed" /\ pending # <<>> /\ pending' = Tail(pending)
    /\ IF Head(pending).message = "changed"
       THEN /\ search' = Head(pending).text
            /\ Refreshed(kind, mode, scoped, search')
            /\ UNCHANGED <<kind, mode, text, saved, scoped, result>>
       ELSE Select(refuses) /\ UNCHANGED text

\* The arrow keys act at once.
Down ==
    /\ kind # "closed" /\ index \in 1 .. Len(visible) - 1 /\ index' = index + 1
    /\ UNCHANGED <<kind, mode, text, search, visible, pending, saved, scoped, result>>

Up ==
    /\ kind # "closed" /\ index > 1 /\ index' = index - 1
    /\ UNCHANGED <<kind, mode, text, search, visible, pending, saved, scoped, result>>

\* Tab changes between all and scoped models, with the text that was heard.
ToggleMode ==
    /\ kind = "model" /\ mode' = (IF mode = "all" THEN "scoped" ELSE "all")
    /\ Refreshed(kind, mode', scoped, search)
    /\ UNCHANGED <<kind, text, search, pending, saved, scoped, result>>

\* Escape closes the picker without a row.
Escape ==
    /\ kind # "closed" /\ kind' = "closed" /\ result' = No
    /\ UNCHANGED <<mode, text, search, visible, index, pending, saved, scoped>>

Next ==
    \/ \E k \in Kinds : Open(k)
    \/ \E t \in Texts : Type(t)
    \/ \E i \in DOMAIN visible : Click(i)
    \/ \E refuses \in BOOLEAN : Handle(refuses)
    \/ Enter \/ Down \/ Up \/ ToggleMode \/ Escape

Spec == Init /\ [][Next]_vars
-----------------------------------------------------------------------------
\* The message a step acts on: the oldest one, or the key itself.
Heard == IF pending' = pending THEN [message |-> "submitted", text |-> text] ELSE Head(pending)

\* What was typed before Enter decides, however late the field's messages are
\* heard: the row taken matches the text. The skill picker is the exception,
\* its Enter overtakes what was typed.
TakesWhatWasTyped ==
    [][kind # "skills" /\ result' # result /\ result' # No /\ Heard.message = "submitted"
       => result'[1] \in ToSet(Filter(Rows, Heard.text))]_vars

\* A row taken from the scoped tab is a scoped model.
ScopedTabTakesScoped ==
    [][kind = "model" /\ mode = "scoped" /\ result' # result /\ result' # No
       => Contains(saved, result'[1])]_vars

\* Whatever is typed, filtered, toggled or refused in between, a list with rows
\* has one highlighted, and it exists.
HighlightInside == (index = 0) = (visible = <<>>) /\ index <= Len(visible)

\* One Enter in the scoped-model picker changes one membership, and the picker
\* shows what the session has, also when the session refuses.
ScopedAsSaved ==
    kind \in {"model", "scoped"} => scoped = saved
=============================================================================
