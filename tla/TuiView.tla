------------------------------- MODULE TuiView -------------------------------
(***************************************************************************)
(* The transcript on screen: what tau_coding/tui/adapter.py and state.py   *)
(* make of the events of runs as they arrive, and of the messages of a     *)
(* session when they are loaded.                                           *)
(***************************************************************************)
EXTENDS Naturals, Sequences, SequencesExt, FiniteSetsExt

CONSTANTS Calls, MaxMessages, MaxBlocks, MaxDeltas, MaxCancels    \* bounds

VARIABLES
    messages,   \* of the session
    items,      \* state.items: [role, size, call, result, update]
    buffer,     \* the length of state.assistant_buffer
    start,      \* _assistant_start_item_index, or -1
    at,         \* _tool_items_by_call_id: positions in items; 0 once the item is gone
    phase,      \* what the run does: idle, streaming, calling, executing, stopping
    calls,      \* the tool calls it has yet to make
    deltas,     \* deltas of this message so far
    kept,       \* the items when events were last lost, or the session loaded
    base,       \* how many messages there were then
    cancels

vars == <<messages, items, buffer, start, at, phase, calls, deltas, kept, base, cancels>>

Block == {"thinking", "text"} \cup Calls
Contents == BoundedSeq(Block, MaxBlocks)

Item(role, size) == [role |-> role, size |-> size, call |-> "none", result |-> FALSE, update |-> FALSE]
CallItem(c) == [Item("tool", 0) EXCEPT !.call = c]

\* A view is [items, at]: the items, and where the item of a call is.
Nothing == [items |-> <<>>, at |-> <<>>]
Added(v, item) == [v EXCEPT !.items = Append(@, item)]
Registered(v, c) == [v EXCEPT !.at = [x \in DOMAIN @ \cup {c} |-> IF x = c THEN Len(v.items) ELSE @[x]]]
Found(v, c) == c \in DOMAIN v.at

\* add_tool_call
ToolCallAdded(v, c) == Registered(Added(v, CallItem(c)), c)

\* add_assistant_message: blocks in order, sizes do not matter there.
AssistantAdded(v, blocks, withCalls) ==
    FoldLeft(LAMBDA u, b : IF b \in {"thinking", "text"} THEN Added(u, Item(b, 0))
                           ELSE IF withCalls THEN ToolCallAdded(u, b) ELSE u,
             v, blocks)

\* add_assistant_error
ErrorAdded(v, blocks) == Added(AssistantAdded(v, blocks, FALSE), Item("error", 0))

\* Fault: a result goes to the first item of its call.
ResultAdded_First(v, c) ==
    LET i == Min({k \in DOMAIN v.items : v.items[k].call = c} \cup {Len(v.items) + 1})
    IN  IF i \in DOMAIN v.items THEN [v EXCEPT !.items[i].result = TRUE, !.items[i].update = FALSE] ELSE v

\* record_tool_result: an orphan gets an item of its own.
ResultAdded(v, c) ==
    IF ~Found(v, c)
    THEN Registered(Added(v, [CallItem(c) EXCEPT !.role = "orphan", !.result = TRUE]), c)
    ELSE IF v.at[c] = 0 THEN v
    ELSE [v EXCEPT !.items[v.at[c]].result = TRUE, !.items[v.at[c]].update = FALSE]

\* load_messages, of one message.
Loaded(v, m) ==
    CASE m.role = "user"   -> Added(v, Item("user", 0))
      [] m.role = "skill"  -> Added(Added(v, Item("skill", 0)), Item("user", 0))
      [] m.role = "result" -> ResultAdded(v, m.call)
      [] m.role = "failed" -> ErrorAdded(v, m.blocks)
      [] OTHER             -> AssistantAdded(v, m.blocks, TRUE)

View == [items |-> items, at |-> at]
Shows(v) == items' = v.items /\ at' = v.at

Message(role, blocks, c) == [role |-> role, blocks |-> blocks, call |-> c]
Saved(m) == Len(messages) < MaxMessages /\ messages' = Append(messages, m)
-----------------------------------------------------------------------------
Init ==
    /\ messages = <<>> /\ items = <<>> /\ buffer = 0 /\ start = -1 /\ at = <<>>
    /\ phase = "idle" /\ calls = <<>> /\ deltas = 0 /\ kept = <<>> /\ base = 0 /\ cancels = 0

\* A prompt, or a queued message when the calls are made.
UserSays(role) ==
    /\ phase \in {"idle", "stopping"} \/ (phase = "calling" /\ calls = <<>>)
    /\ Saved(Message(role, <<>>, "none"))
    /\ Shows(Loaded(View, Message(role, <<>>, "none")))
    /\ phase' = "calling"
    /\ UNCHANGED <<buffer, start, calls, deltas, kept, base, cancels>>

\* MessageStartEvent of an assistant message.
MessageStart ==
    /\ phase = "calling" /\ calls = <<>>
    /\ start' = Len(items) /\ buffer' = 0 /\ deltas' = 0
    /\ phase' = "streaming"
    /\ UNCHANGED <<messages, items, at, calls, kept, base, cancels>>

TextDelta ==
    /\ phase = "streaming" /\ deltas < MaxDeltas
    /\ buffer' = buffer + 1 /\ deltas' = deltas + 1
    /\ UNCHANGED <<messages, items, start, at, phase, calls, kept, base, cancels>>

\* Fault: thinking goes on in the last thinking row, wherever it is.
Thought_Anywhere ==
    LET rows == {i \in DOMAIN items : items[i].role = "thinking"}
    IN  IF rows = {} THEN Append(items, Item("thinking", 1)) ELSE [items EXCEPT ![Max(rows)].size = @ + 1]

\* add_thinking_delta
Thought ==
    IF items # <<>> /\ Last(items).role = "thinking" THEN [items EXCEPT ![Len(items)].size = @ + 1]
    ELSE Append(items, Item("thinking", 1))

ThinkingDelta ==
    /\ phase = "streaming" /\ deltas < MaxDeltas
    /\ items' = Thought
    /\ deltas' = deltas + 1
    /\ UNCHANGED <<messages, buffer, start, at, phase, calls, kept, base, cancels>>

\* Fault: the rows of the deltas stay.
WithoutDeltas_Keep == View

\* del items[start:]
WithoutDeltas ==
    IF start < 0 THEN View
    ELSE [items |-> SubSeq(items, 1, start), at |-> [c \in DOMAIN at |-> IF at[c] > start THEN 0 ELSE at[c]]]

\* MessageEndEvent of an assistant message, whatever the provider made of it.
MessageEnd(blocks, failed) ==
    /\ phase = "streaming"
    /\ \A i, j \in DOMAIN blocks : blocks[i] \in Calls /\ blocks[i] = blocks[j] => i = j
    /\ Saved(Message(IF failed THEN "failed" ELSE "assistant", blocks, "none"))
    /\ Shows(IF failed THEN ErrorAdded(WithoutDeltas, blocks) ELSE AssistantAdded(WithoutDeltas, blocks, FALSE))
    /\ buffer' = 0 /\ start' = -1
    /\ calls' = IF failed THEN <<>> ELSE SelectSeq(blocks, LAMBDA b : b \in Calls)
    /\ phase' = IF failed THEN "idle" ELSE IF calls' = <<>> THEN "stopping" ELSE "calling"
    /\ UNCHANGED <<deltas, kept, base, cancels>>

Flushed(v) == IF buffer > 0 THEN Added(v, Item("text", buffer)) ELSE v

ToolStart ==
    /\ phase = "calling" /\ calls # <<>>
    /\ Shows(ToolCallAdded(Flushed(View), Head(calls))) /\ buffer' = 0
    /\ phase' = "executing"
    /\ UNCHANGED <<messages, start, calls, deltas, kept, base, cancels>>

\* record_tool_update
ToolUpdate ==
    /\ phase = "executing"
    /\ LET c == Head(calls) IN
       items' = IF Found(View, c) /\ at[c] # 0 /\ ~items[at[c]].result
                THEN [items EXCEPT ![at[c]].update = TRUE] ELSE items
    /\ UNCHANGED <<messages, buffer, start, at, phase, calls, deltas, kept, base, cancels>>

\* ToolExecutionEndEvent, and the message of the result.
ToolEnd ==
    /\ phase = "executing"
    /\ Saved(Message("result", <<>>, Head(calls)))
    /\ Shows(ResultAdded(View, Head(calls)))
    /\ calls' = Tail(calls) /\ phase' = "calling"
    /\ UNCHANGED <<buffer, start, deltas, kept, base, cancels>>

\* AgentEndEvent
RunEnds ==
    /\ phase = "stopping"
    /\ phase' = "idle" /\ Shows(Flushed(View)) /\ buffer' = 0
    /\ UNCHANGED <<messages, start, calls, deltas, kept, base, cancels>>

\* A status row: the output of /system, a skill that is read, a notice of a retry.
Inform ==
    /\ cancels < MaxCancels /\ cancels' = cancels + 1
    /\ Shows(Added(View, Item("status", 0)))
    /\ UNCHANGED <<messages, buffer, start, phase, calls, deltas, kept, base>>

\* _cancel_active_prompt: later events of the run are not applied.
Cancel ==
    /\ phase # "idle" /\ cancels < MaxCancels /\ cancels' = cancels + 1
    /\ phase' = "idle" /\ calls' = <<>> /\ buffer' = 0
    /\ kept' = items /\ base' = Len(messages)
    /\ UNCHANGED <<messages, items, start, at, deltas>>

\* clear, and load_messages: also of a session that was left in the middle.
Load ==
    /\ phase = "idle" /\ cancels < MaxCancels /\ cancels' = cancels + 1
    /\ Shows(FoldLeft(Loaded, Nothing, messages)) /\ buffer' = 0
    /\ kept' = items' /\ base' = Len(messages)
    /\ UNCHANGED <<messages, start, phase, calls, deltas>>

Next ==
    \/ \E role \in {"user", "skill"} : UserSays(role)
    \/ MessageStart \/ TextDelta \/ ThinkingDelta
    \/ \E blocks \in Contents, failed \in BOOLEAN : MessageEnd(blocks, failed)
    \/ ToolStart \/ ToolUpdate \/ ToolEnd \/ RunEnds \/ Inform \/ Cancel \/ Load

Spec == Init /\ [][Next]_vars
-----------------------------------------------------------------------------
Rows(s) == SelectSeq(s, LAMBDA i : i.role # "status")

TypeOK ==
    /\ start >= -1 /\ phase \in {"idle", "streaming", "calling", "executing", "stopping"}
    /\ DOMAIN at \subseteq Calls /\ \A c \in DOMAIN at : at[c] \in 0 .. Len(items)

CallsLast(m) ==
    [m EXCEPT !.blocks = SelectSeq(@, LAMBDA b : b \notin Calls) \o SelectSeq(@, LAMBDA b : b \in Calls)]

Since == [i \in 1 .. Len(messages) - base |-> CallsLast(messages[base + i])]

\* Between turns, and when no run goes on, the screen shows what loading its messages would show
\* (adapter.py:62 "persisted block boundaries and ordering win"; state.py:419 "for
\* live and restored transcript blocks"), behind what was kept from an interrupted
\* one: deltas leave nothing, each result is at its call, also when a later message
\* uses the id of an earlier call. Only a text that follows a call of its message
\* is shown before it.
LiveIsRestored ==
    phase \in {"idle", "stopping"} \/ (phase = "calling" /\ calls = <<>>) =>
        Rows(items) = Rows(kept) \o FoldLeft(Loaded, Nothing, Since).items

\* Nothing that a run does later changes a row of an earlier message: deltas are
\* not added to its thinking, and a stale start does not delete it.
EarlierRowsStay ==
    [][cancels' = cancels => IsPrefix(Rows(kept), Rows(items'))]_vars
=============================================================================
