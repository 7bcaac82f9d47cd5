--------------------------- MODULE TranscriptWindow ---------------------------
(***************************************************************************)
(* TranscriptView of tau_coding/tui/widgets.py: which of the items of a    *)
(* session are mounted as rows, while a run streams into them, a reader    *)
(* scrolls and pages, and the thinking is hidden and shown.  The scroll    *)
(* offset is abstracted to where the reader is, and a handler of an event  *)
(* is one step, though another can begin while it waits for a row.         *)
(***************************************************************************)
EXTENDS Naturals, Sequences, SequencesExt, FiniteSetsExt

CONSTANTS
    Window, Page, Overscan,   \* TRANSCRIPT_WINDOW_ITEMS, _PAGE_ITEMS and _OVERSCAN_ITEMS
    MaxSerial, MaxToggles     \* bounds

VARIABLES
    items,      \* state.items: [id, thinking]
    serial,     \* the ids given so far
    loud,       \* state.show_thinking
    buffer,     \* whether state.assistant_buffer has text
    from,       \* where the rows of this message begin, while it streams
    phase,      \* of the run: ready, reply, streaming, calling, halted
    view,       \* what is mounted: [rows, lo, hi, thinking, veiled]
    told,       \* the last item that the view was given, to mount it or to draw all
    follow, spot, shift, due,    \* _follow_output, the reader, a page, the scrolls to come
    toggles

itemVars == <<items, serial, loud, buffer, from, phase>>
scrollVars == <<follow, spot, shift, due>>
vars == <<itemVars, view, told, scrollVars, toggles>>

Row(kind, id, live) == [kind |-> kind, item |-> id, live |-> live]
Idle(rows) == [i \in DOMAIN rows |-> [rows[i] EXCEPT !.live = FALSE]]
Monus(a, b) == IF a > b THEN a - b ELSE 0
Least(a, b) == Min({a, b})

\* The rows of items: what is thought is one row while it is hidden.
Rows(its, shows) ==
    LET Hides(k) == its[k].thinking /\ ~shows
        shown == SelectSeq([k \in DOMAIN its |-> k], LAMBDA k : Hides(k) => k = 1 \/ ~its[k - 1].thinking)
    IN  [j \in DOMAIN shown |->
            Row(IF Hides(shown[j]) THEN "hidden" ELSE "item", its[shown[j]].id, FALSE)]

Drawn(its, lo, hi) == Rows(SubSeq(its, lo + 1, hi), loud)
EndsHidden(rows) == rows # <<>> /\ Last(rows).kind = "hidden"

\* The window that _redraw draws.
Bounds(v, total, keep) ==
    LET lo == Least(v.lo, total)
        hi == Least(Max({v.hi, lo}), total)
    IN  IF ~keep \/ v.hi <= v.lo THEN [lo |-> Monus(total, Window), hi |-> total]
        ELSE [lo |-> IF hi - lo > Window THEN hi - Window ELSE lo, hi |-> hi]

\* _redraw
Redrawn(v, its, text, keep) ==
    LET w == Bounds(v, Len(its), keep)
        latest == w.hi = Len(its)
        rows == Drawn(its, w.lo, w.hi)
    IN  [rows |-> IF latest /\ text THEN Append(rows, Row("text", 0, TRUE)) ELSE rows,
         lo |-> w.lo, hi |-> w.hi, thinking |-> FALSE, veiled |-> latest /\ EndsHidden(rows)]

\* The streaming widget of the assistant, which is last among the rows that are live.
Texts == {i \in DOMAIN view.rows : view.rows[i].kind = "text" /\ view.rows[i].live}
Mounted(rows, row) == Append(rows, row)
BeforeText(row) ==
    IF Texts = {} THEN Mounted(view.rows, row)
    ELSE LET i == Min(Texts) IN SubSeq(view.rows, 1, i - 1) \o <<row>> \o SubSeq(view.rows, i, Len(view.rows))

\* Fault: what was appended is never trimmed.
Trimmed_Never(v, its, text) == v

Trimmed(v, its, text) ==
    IF v.hi - v.lo <= Window + Overscan THEN v
    ELSE Redrawn([v EXCEPT !.hi = Len(its), !.lo = Monus(Len(its), Window)], its, text, TRUE)

\* Fault: rows that follow what is out of the window are mounted behind it.
Appended_Behind(v, its, at, following, text) ==
    Trimmed([v EXCEPT !.rows = Append(Idle(@), Row("item", its[at].id, FALSE)), !.hi = Max({@, at}),
                      !.thinking = FALSE, !.veiled = FALSE], its, text)

\* append_item of the item at a position: behind what is out of the window it is not mounted.
Appended(v, its, at, following, text) ==
    LET finished == [v EXCEPT !.thinking = FALSE] IN
    IF v.hi < at - 1 /\ following THEN Redrawn(finished, its, text, FALSE)
    ELSE IF at - 1 < v.lo \/ v.hi < at - 1 THEN finished
    ELSE Trimmed([finished EXCEPT !.rows = Append(Idle(@), Row("item", its[at].id, FALSE)),
                                  !.hi = Max({@, at}), !.veiled = FALSE], its, text)

Told == told' = IF items' = <<>> THEN 0 ELSE Last(items').id

ShouldFollow == follow \/ spot = "end"
\* _request_follow_scroll
Asks(kind, wanted) == due' = IF wanted /\ (due = {} \/ kind = "forced") THEN due \cup {kind} ELSE due
\* What is mounted below moves the end away from the reader.
Moves == spot' = IF spot = "end" /\ view'.rows # view.rows THEN "middle" ELSE spot
Latest == view.hi >= Len(items)

\* Whether the message that streams has items of its own by now.
Provisional == phase = "streaming" /\ from < Len(items)
-----------------------------------------------------------------------------
Fresh(n) == serial + n <= MaxSerial /\ serial' = serial + n
Item(k, thinking) == [id |-> serial + k, thinking |-> thinking]
NewItems(blocks) == [k \in DOMAIN blocks |-> Item(k, blocks[k] = "thinking")]

Init ==
    /\ serial = Window + 1    \* a session that is longer than the window
    /\ items = [k \in 1 .. serial |-> [id |-> k, thinking |-> FALSE]]
    /\ loud = TRUE /\ buffer = FALSE /\ from = 0 /\ phase = "ready"
    /\ view = Redrawn([rows |-> <<>>, lo |-> 0, hi |-> 0, thinking |-> FALSE, veiled |-> FALSE],
                      items, FALSE, FALSE)
    /\ told = serial
    /\ follow = TRUE /\ spot = "end" /\ shift = "none" /\ due = {} /\ toggles = 0

\* The reader is taken to the end for what the user does.
Says ==
    /\ Fresh(1) /\ items' = Append(items, Item(1, FALSE))
    /\ follow' = TRUE /\ view' = Appended(view, items', Len(items'), TRUE, buffer)
    /\ Told /\ Asks("forced", TRUE) /\ Moves
    /\ UNCHANGED <<loud, buffer, from, shift, toggles>>

\* _append_optimistic_user_message: a prompt, or one that was queued for the run.
UserSays == phase \in {"ready", "reply"} /\ phase' = "reply" /\ Says

\* _run_terminal_command, whose worker cancels that of a run. The message that streams
\* is neither ended nor taken back, and the state is that of a run, once it has begun.
TerminalCommand ==
    /\ phase' \in {"ready", "halted"}
    /\ phase' = "ready" => phase \in {"ready", "reply"}
    /\ phase' = "halted" => phase # "ready"
    /\ Says

\* _queue_prompt: for that state a prompt is queued, but runs at once, and its events
\* do not reach the view.
QueuePrompt ==
    /\ phase = "halted" /\ phase' = "ready"
    /\ Fresh(2) /\ items' = items \o NewItems(<<"prompt", "text">>)
    /\ buffer' = FALSE /\ from' = 0
    /\ UNCHANGED <<loud, view, told, scrollVars, toggles>>

MessageStart ==
    /\ phase = "reply" /\ phase' = "streaming" /\ from' = Len(items)
    /\ UNCHANGED <<items, serial, loud, buffer, view, told, scrollVars, toggles>>

\* append_assistant_delta, start_assistant_message
TextDelta ==
    /\ phase = "streaming" /\ buffer' = TRUE
    /\ IF Latest /\ Texts = {}
       THEN /\ view' = [view EXCEPT !.rows = Mounted(@, Row("text", 0, TRUE)), !.thinking = FALSE]
            /\ Asks("soft", ShouldFollow)
       ELSE UNCHANGED <<view, due>>
    /\ Moves
    /\ UNCHANGED <<items, serial, loud, from, phase, told, follow, shift, toggles>>

\* append_thinking_delta
ThoughtShown(w) ==
    IF ~loud /\ view.veiled THEN w
    ELSE IF ~loud THEN [w EXCEPT !.rows = BeforeText(Row("hidden", 0, TRUE)), !.thinking = FALSE, !.veiled = TRUE]
    ELSE IF view.thinking THEN [w EXCEPT !.veiled = FALSE]
    ELSE [w EXCEPT !.rows = BeforeText(Row("thought", 0, TRUE)), !.thinking = TRUE, !.veiled = FALSE]

ThinkingDelta ==
    /\ phase = "streaming"
    /\ IF items # <<>> /\ Last(items).thinking THEN UNCHANGED <<items, serial>>
       ELSE Fresh(1) /\ items' = Append(items, Item(1, TRUE))
    /\ IF view.hi >= Monus(Len(items'), 1)
       THEN view' = ThoughtShown([view EXCEPT !.hi = Len(items')]) /\ Asks("soft", ShouldFollow)
       ELSE UNCHANGED <<view, due>>
    /\ Moves
    /\ UNCHANGED <<loud, buffer, from, phase, told, follow, shift, toggles>>

\* finish_assistant_message: the streaming widget becomes the row of the item.
TextFinished(its) ==
    IF Texts # {}
    THEN LET i == Min(Texts) IN
         [view EXCEPT !.rows[i] = Row("item", Last(its).id, FALSE), !.veiled = FALSE]
    ELSE Appended(view, its, Len(its), ShouldFollow, FALSE)

\* Fault: what was mounted for the deltas stays.
Settled_Kept(rows) == Idle(rows)
Settled(rows) == SelectSeq(rows, LAMBDA r : ~r.live)

\* finish_structured_assistant_message
BlocksFinished(its, n) ==
    LET new == Drawn(its, Len(its) - n, Len(its)) IN
    Trimmed([rows |-> Settled(view.rows) \o new, lo |-> view.lo, hi |-> Len(its),
             thinking |-> FALSE, veiled |-> EndsHidden(new)], its, FALSE)

\* MessageEndEvent of an assistant message that has at least the blocks that were streamed.
MessageEnd(blocks, calls) ==
    LET structured == Len(blocks) > 1 \/ "thinking" \in ToSet(blocks) IN
    /\ phase = "streaming" /\ Fresh(Len(blocks))
    /\ buffer => "text" \in ToSet(blocks)
    /\ Provisional => "thinking" \in ToSet(blocks)
    /\ items' = SubSeq(items, 1, from) \o NewItems(blocks) /\ buffer' = FALSE /\ from' = 0
    /\ phase' = IF calls THEN "calling" ELSE "ready"
    /\ view' = IF blocks = <<>> THEN view
               ELSE IF structured THEN BlocksFinished(items', Len(blocks)) ELSE TextFinished(items')
    /\ Asks("soft", blocks # <<>> /\ ShouldFollow /\ (structured \/ Texts = {}))
    /\ (IF blocks = <<>> THEN UNCHANGED told ELSE Told) /\ Moves
    /\ UNCHANGED <<loud, follow, shift, toggles>>

Blocks == {<<>>, <<"text">>, <<"thinking">>, <<"thinking", "text">>, <<"text", "text">>}

\* update_from_state: whoever reads above stays there.
Refreshes(its, text) ==
    LET retained  == \E r \in ToSet(view.rows) : \E i \in ToSet(its) : r.item = i.id
        following == ShouldFollow \/ ~retained
    IN  /\ follow' = (follow \/ ~retained)
        /\ view' = Redrawn(view, its, text, ~following) /\ Told
        /\ Asks("soft", following) /\ Moves

\* A message that failed, and _cancel_active_prompt.
Fail(cut) ==
    /\ phase # "ready" /\ (cut => phase = "streaming")
    /\ IF cut THEN Fresh(1) /\ items' = Append(SubSeq(items, 1, from), Item(1, FALSE))
       ELSE UNCHANGED <<items, serial>>
    /\ buffer' = FALSE /\ from' = 0 /\ phase' = "ready"
    /\ Refreshes(items', FALSE)
    /\ UNCHANGED <<loud, shift, toggles>>

\* ToolExecutionStartEvent
ToolStart ==
    /\ phase = "calling" /\ Fresh(1)
    /\ items' = Append(items, Item(1, FALSE)) /\ phase' = "reply"
    /\ view' = Appended(view, items', Len(items'), ShouldFollow, FALSE)
    /\ Told /\ Asks("soft", ShouldFollow) /\ Moves
    /\ UNCHANGED <<loud, buffer, from, follow, shift, toggles>>

\* _refresh, of a theme, a command or a rewritten prompt.
Refresh ==
    /\ toggles < MaxToggles /\ toggles' = toggles + 1
    /\ UNCHANGED <<itemVars, shift>>
    /\ Refreshes(items, buffer)

\* clear, and load_messages of another session.
Load ==
    /\ phase = "ready" /\ toggles < MaxToggles /\ toggles' = toggles + 1 /\ Fresh(1)
    /\ items' = <<Item(1, FALSE)>>
    /\ Refreshes(items', FALSE)
    /\ UNCHANGED <<loud, buffer, from, phase, shift>>

\* The rows that update_thinking_visibility leaves: rows of thinking are taken away, and
\* those of the window are mounted before the next row of an item that follows them.
Rethought(shows) ==
    LET old == SelectSeq(view.rows, LAMBDA r :
                   r.kind = "text" \/ (r.kind = "item" /\ ~\E i \in ToSet(items) : i.id = r.item /\ i.thinking))
        Place(a, i) ==
            LET at == {k \in a.next .. Len(old) : old[k].item = i.id}
            IN  IF i.thinking
                THEN [a EXCEPT !.run = TRUE,
                               !.wait = IF shows THEN Append(@, Row("item", i.id, FALSE))
                                        ELSE IF a.run THEN @ ELSE Append(@, Row("hidden", i.id, FALSE))]
                ELSE IF at = {} THEN [a EXCEPT !.run = FALSE, !.next = Len(old) + 1]
                ELSE [rows |-> a.rows \o SubSeq(old, a.done + 1, Min(at) - 1) \o a.wait \o <<old[Min(at)]>>,
                      wait |-> <<>>, done |-> Min(at), next |-> Min(at) + 1, run |-> FALSE]
        last == FoldLeft(Place, [rows |-> <<>>, wait |-> <<>>, done |-> 0, next |-> 1, run |-> FALSE],
                         SubSeq(items, view.lo + 1, view.hi))
    IN  last.rows \o SubSeq(old, last.done + 1, Len(old)) \o last.wait

ToggleThinking ==
    /\ toggles < MaxToggles /\ toggles' = toggles + 1
    /\ loud' = ~loud
    /\ LET rows == Rethought(~loud) IN
       view' = [view EXCEPT !.rows = rows, !.thinking = FALSE, !.veiled = EndsHidden(rows)]
    /\ Asks("soft", ShouldFollow) /\ Moves
    /\ UNCHANGED <<items, serial, buffer, from, phase, told, follow, shift>>
-----------------------------------------------------------------------------
\* watch_scroll_y, of a reader who goes up.
ScrollUp(to) ==
    /\ spot # "top" /\ spot' = to /\ follow' = FALSE
    /\ shift' = IF to = "top" /\ view.lo > 0 /\ shift = "none" THEN "earlier" ELSE shift
    /\ UNCHANGED <<itemVars, view, told, due, toggles>>

\* Fault: who follows is taken to have the end.
AtEnd_Unpaged ==
    /\ spot' = "end" /\ follow' = (follow \/ Latest)
    /\ shift' = IF ~follow /\ spot # "end" /\ ~Latest /\ shift = "none" THEN "later" ELSE shift

\* watch_scroll_y, at the end of what is mounted.
AtEnd ==
    /\ spot' = "end"
    /\ follow' = IF spot # "end" /\ Latest THEN TRUE ELSE follow
    /\ shift' = IF spot # "end" /\ ~Latest /\ shift = "none" THEN "later" ELSE shift

ScrollDown == spot # "end" /\ AtEnd /\ UNCHANGED <<itemVars, view, told, due, toggles>>

\* scroll_if_still_following, after the layout.
FollowScroll(kind) ==
    /\ kind \in due /\ due' = due \ {kind}
    /\ IF kind = "forced" \/ ShouldFollow THEN AtEnd ELSE UNCHANGED <<follow, spot, shift>>
    /\ UNCHANGED <<itemVars, view, told, toggles>>

\* The window of a page.
Paged ==
    LET hi == Least(Len(items), view.hi + Page)
        lo == Monus(view.lo, Page)
    IN  IF shift = "earlier" THEN [view EXCEPT !.lo = lo, !.hi = Least(Len(items), lo + Window)]
        ELSE [view EXCEPT !.lo = Monus(hi, Window), !.hi = hi]

\* _shift_window: the row the reader was at is brought back, with a page beyond it.
Shift ==
    /\ shift # "none" /\ shift' = "none"
    /\ IF IF shift = "earlier" THEN view.lo > 0 ELSE view.hi < Len(items)
       THEN /\ view' = Redrawn(Paged, items, buffer, TRUE)
            /\ spot' = "middle"
            /\ follow' \in {FALSE, follow}
       ELSE UNCHANGED <<view, spot, follow>>
    /\ UNCHANGED <<itemVars, told, due, toggles>>

Next ==
    \/ UserSays \/ TerminalCommand \/ QueuePrompt \/ MessageStart \/ TextDelta \/ ThinkingDelta \/ ToolStart
    \/ \E blocks \in Blocks, calls \in BOOLEAN : MessageEnd(blocks, calls)
    \/ \E cut \in BOOLEAN : Fail(cut)
    \/ Refresh \/ Load \/ ToggleThinking
    \/ \E to \in {"top", "middle"} : ScrollUp(to)
    \/ ScrollDown \/ (\E kind \in {"soft", "forced"} : FollowScroll(kind)) \/ Shift

Spec == Init /\ [][Next]_vars
-----------------------------------------------------------------------------
TypeOK ==
    /\ view.lo <= view.hi /\ shift \in {"none", "earlier", "later"}
    /\ phase \in {"ready", "reply", "streaming", "calling", "halted"}

\* What is mounted, without the rows of a message that streams, are the items from the
\* start of the window on, in order and none twice; what is not mounted is above the
\* window, or below its end, where scrolling down finds it.
Contiguous ==
    \E hi \in view.lo .. Len(items) :
        /\ hi < Len(items) => ~Latest \/ phase = "streaming"
        /\ Settled(view.rows) = Drawn(items, view.lo, hi)

\* The end of a message that has items in rows, since the window was drawn anew while
\* it streamed, or of one that began below the window: their blocks are mounted behind
\* what is there (finish_structured_assistant_message).
EndsApart ==
    /\ \/ view.hi < from
       \/ \E r \in ToSet(view.rows) : \E k \in from + 1 .. Len(items) : r.item = items[k].id
    /\ \E blocks \in Blocks, calls \in BOOLEAN : MessageEnd(blocks, calls)

\* A terminal command cuts a message, whose rows stay.
CutsMessage == TerminalCommand /\ \E r \in ToSet(view.rows) : r.live

\* tui-long-transcript-performance.md:21 has "a contiguous frontend window". The window
\* stays contiguous in every step but the two above, however the rows come: appended,
\* made of deltas, paged, trimmed or toggled.
StaysContiguous == Contiguous => Contiguous' \/ EndsApart \/ CutsMessage
WindowContiguous == [][StaysContiguous]_vars

\* No more items are mounted than the window, what may go over it, and one that ended
\* or was drawn while it streamed, torn or not; and between messages the window spans
\* no more either.
RowsBounded ==
    /\ Len(SelectSeq(view.rows, LAMBDA r : \E i \in ToSet(items) : i.id = r.item))
           <= Window + Overscan + 1
    /\ phase # "streaming" => view.hi - view.lo <= Window + Overscan

\* Who follows the output and is at its end has the last item that the view was given on
\* the screen, or a later one, also when a page was asked for before and where the window
\* is torn. What is thought has one row while it is hidden.
FollowerSeesLast ==
    phase # "streaming" /\ follow /\ spot = "end" /\ shift = "none" /\ due = {} =>
        \E r \in ToSet(view.rows) :
            \/ r.item >= told
            \/ /\ r.kind = "hidden"
               /\ \A i \in ToSet(items) : i.id \in r.item .. told => i.thinking
=============================================================================
