------------------------------ MODULE WebTrace ------------------------------
(***************************************************************************)
(* The event trace of one web session (tau_coding/web.py): the buffer that *)
(* is replayed to a browser, the file that carries it over a restart, and  *)
(* the bounded queues between the event loop and the browsers' threads.    *)
(*                                                                         *)
(* Events are numbered in the order they are published. The process may    *)
(* die at any time, also inside a write; every other step is one stretch   *)
(* of the event loop, or one item a browser's thread takes.                *)
(***************************************************************************)
EXTENDS Naturals, Integers, Sequences

CONSTANTS
    Clients,     \* event-stream connections
    Limit,       \* TRACE_BUFFER_LIMIT
    Keep,        \* TRACE_FILE_KEEP_LINES
    CompactAt,   \* TRACE_FILE_COMPACT_LINES
    QueueItems,  \* _SSE_QUEUE_ITEMS
    Snapshots,   \* most run, queue and authorization items on connecting
    MaxEvents, MaxStarts, MaxFaults  \* bounds

\* A replay fits a fresh queue, so connecting never blocks the event loop.
ASSUME TraceAssumption ==
    /\ Limit \in Nat \ {0} /\ Keep \in Nat \ {0} /\ CompactAt \in Nat
    /\ Limit <= Keep /\ Keep <= CompactAt
    /\ Snapshots \in Nat /\ QueueItems \in Nat /\ 1 + Limit + Snapshots <= QueueItems
    /\ MaxEvents \in Nat /\ MaxStarts \in Nat \ {0} /\ MaxFaults \in Nat

VARIABLES
    published,   \* number of events published
    buffer,      \* slot.trace_buffer
    backfilled,  \* slot.trace_backfilled
    counter,     \* slot.trace_file_lines: -1 when the file is given up
    lines,       \* the file: events, and Junk that does not parse
    ended,       \* the last line has its newline
    undecodable, \* some bytes of the file are not text
    connected,   \* slot.subscribers
    queue,       \* what each subscriber has not taken
    taken,       \* history: the event up to which each subscriber is served
    starts, faults,  \* how often the process started, and what went wrong
    epoch,       \* history: events published before this process
    early,       \* history: this process published before it backfilled
    stored,      \* history: events whose line was whole when last written
    unsent       \* history: events whose publication raised

disk    == <<lines, ended, undecodable, stored>>
slot    == <<buffer, backfilled, counter, early>>
streams == <<connected, queue, taken>>
vars    == <<published, slot, disk, streams, starts, faults, epoch, unsent>>

Junk   == 0
Events == 1 .. MaxEvents
Item(k, e) == [kind |-> k, event |-> e]
Kinds  == {"connected", "replay", "snapshot", "live", "resync"}

Least(m, n) == IF m <= n THEN m ELSE n
Newest(s, n) == SubSeq(s, Len(s) - Least(n, Len(s)) + 1, Len(s))
In(s) == {s[i] : i \in DOMAIN s}

\* _backfill_trace_from_disk: the lines of s that parse, in order.
Readable(s) ==
    LET read[i \in 0 .. Len(s)] ==
            IF i = 0 THEN <<>>
            ELSE IF s[i] = Junk THEN read[i - 1] ELSE Append(read[i - 1], s[i])
    IN  read[Len(s)]
-----------------------------------------------------------------------------
Init ==
    /\ published = 0
    /\ buffer = <<>> /\ backfilled = FALSE /\ counter = 0 /\ early = FALSE
    /\ lines = <<>> /\ ended = TRUE /\ undecodable = FALSE /\ stored = {}
    /\ connected = {}
    /\ queue = [c \in Clients |-> <<>>] /\ taken = [c \in Clients |-> 0]
    /\ starts = 1 /\ faults = 0 /\ epoch = 0 /\ unsent = {}

Fault == faults < MaxFaults /\ faults' = faults + 1
-----------------------------------------------------------------------------
(* Publishing.                                                             *)

\* Fault: a deque without a limit.
Recorded_Unbounded(e) == Append(buffer, e)

Recorded(e) == Newest(Append(buffer, e), Limit)

Record(e) ==
    /\ published' = e
    /\ buffer' = Recorded(e)
    /\ early' = (early \/ ~backfilled)
    /\ UNCHANGED <<backfilled, epoch>>

\* Text that begins where the file ends: on the last line, if a crash left
\* that line without its newline.
Appended(text) ==
    IF ended THEN lines \o text
    ELSE SubSeq(lines, 1, Len(lines) - 1) \o <<Junk>> \o Tail(text)

\* An event whose text holds a line separator is read back as two lines.
WriteEvent(e, splits) ==
    LET fused == IF ended THEN {} ELSE {lines[Len(lines)]}
    IN  /\ stored' = (stored \ fused) \cup (IF ended /\ ~splits THEN {e} ELSE {})
        /\ ended' = TRUE
        /\ UNCHANGED undecodable

\* Part of an event, or all of it but the newline.
WritePart(e) ==
    LET fused == IF ended THEN {} ELSE {lines[Len(lines)]}
    IN  /\ ended' = FALSE
        /\ Fault
        /\ \/ /\ lines' = Appended(<<Junk>>)
              /\ stored' = stored \ fused
              /\ undecodable' \in {undecodable, TRUE}
           \/ /\ lines' = Appended(<<e>>)
              /\ stored' = (stored \ fused) \cup (IF ended THEN {e} ELSE {})
              /\ UNCHANGED undecodable

\* Fault: the oldest lines survive.
Compacted_Oldest(s) == SubSeq(s, 1, Least(Keep, Len(s)))

Compacted(s) == Newest(s, Keep)

\* Fault: an event for which there is no room is dropped.
Served_Silently(q, e) ==
    IF Len(q) < QueueItems THEN Append(q, Item("live", e)) ELSE q

\* A full queue is emptied; what its thread takes meanwhile changes nothing,
\* since the resync stands for everything before the event.
Served(q, e) ==
    IF Len(q) < QueueItems THEN Append(q, Item("live", e))
    ELSE <<Item("resync", e), Item("live", e)>>

Serve(e) ==
    /\ queue' = [c \in Clients |-> IF c \in connected THEN Served(queue[c], e) ELSE queue[c]]
    /\ UNCHANGED <<connected, taken, unsent>>

\* The file has been given up: the event is only buffered.
PublishUnstored ==
    /\ published < MaxEvents /\ counter = -1
    /\ Record(published + 1) /\ Serve(published + 1)
    /\ UNCHANGED <<counter, disk, starts, faults>>

\* The write raises OSError, perhaps half-way.
PublishWriteFails ==
    /\ published < MaxEvents /\ counter >= 0
    /\ Record(published + 1) /\ Serve(published + 1)
    /\ counter' = -1
    /\ \/ WritePart(published + 1)
       \/ Fault /\ UNCHANGED disk
    /\ UNCHANGED starts

PublishStored(splits) ==
    /\ published < MaxEvents /\ counter >= 0
    /\ Record(published + 1)
    /\ WriteEvent(published + 1, splits)
    /\ LET e       == published + 1
           text    == Appended(IF splits THEN <<Junk, Junk>> ELSE <<e>>)
           written == IF splits THEN Fault ELSE UNCHANGED faults
       IN  \/ /\ counter < CompactAt
              /\ counter' = counter + 1 /\ lines' = text
              /\ Serve(e) /\ written
           \/ \* Compaction, by way of a temporary file.
              /\ counter >= CompactAt /\ ~undecodable
              /\ lines' = Compacted(text) /\ counter' = Len(Compacted(text))
              /\ Serve(e) /\ written
           \/ \* Compaction raises OSError: the next event will try again.
              /\ counter >= CompactAt /\ ~splits /\ Fault
              /\ counter' = counter + 1 /\ lines' = text
              /\ Serve(e)
           \/ \* Reading the file back raises UnicodeDecodeError, which nothing
              \* in the publication catches.
              /\ counter >= CompactAt /\ undecodable
              /\ counter' = counter + 1 /\ lines' = text
              /\ unsent' = unsent \cup {e}
              /\ UNCHANGED streams /\ written
    /\ UNCHANGED starts
-----------------------------------------------------------------------------
(* Browsers.                                                               *)

\* Fault: the loaded events are pushed one by one, newest first.
Backfill_Backwards(s) ==
    LET loaded == Readable(Newest(s, Limit))
        turned == [i \in DOMAIN loaded |-> loaded[Len(loaded) + 1 - i]]
        all    == turned \o buffer
    IN  SubSeq(all, 1, Least(Limit, Len(all)))

\* extendleft on a full deque drops at the right end.
Backfill(s) ==
    LET all == Readable(Newest(s, Limit)) \o buffer
    IN  SubSeq(all, 1, Least(Limit, Len(all)))

Connect(c, replayed) ==
    \E k \in 0 .. Snapshots :
        /\ connected' = connected \cup {c}
        /\ queue' = [queue EXCEPT ![c] =
               <<Item("connected", 0)>>
               \o [i \in DOMAIN replayed |-> Item("replay", replayed[i])]
               \o [i \in 1 .. k |-> Item("snapshot", 0)]]
        /\ taken' = [taken EXCEPT ![c] = published]

Subscribe(c) ==
    /\ c \notin connected
    /\ backfilled' = TRUE
    /\ \/ /\ backfilled
          /\ Connect(c, buffer) /\ UNCHANGED <<buffer, faults>>
       \/ /\ ~backfilled /\ ~undecodable
          /\ buffer' = Backfill(lines) /\ Connect(c, Backfill(lines))
          /\ UNCHANGED faults
       \/ \* The file cannot be read.
          /\ ~backfilled /\ Fault
          /\ Connect(c, buffer) /\ UNCHANGED buffer
       \/ \* It can be read but not decoded: the subscription raises.
          /\ ~backfilled /\ undecodable
          /\ UNCHANGED <<buffer, streams, faults>>
    /\ UNCHANGED <<published, counter, early, disk, starts, epoch, unsent>>

Take(c) ==
    /\ c \in connected /\ queue[c] # <<>>
    /\ queue' = [queue EXCEPT ![c] = Tail(@)]
    /\ LET item == Head(queue[c])
       IN  taken' = [taken EXCEPT ![c] =
               CASE item.kind = "live"   -> item.event
                 [] item.kind = "resync" -> item.event - 1
                 [] OTHER                -> @]
    /\ UNCHANGED <<published, slot, disk, connected, starts, faults, epoch, unsent>>

\* The denials of pending authorizations, when the last browser leaves, are
\* published without a record: they are buffered and not stored.
Unsubscribe(c) ==
    /\ c \in connected
    /\ connected' = connected \ {c}
    /\ queue' = [queue EXCEPT ![c] = <<>>] /\ taken' = [taken EXCEPT ![c] = 0]
    /\ \/ UNCHANGED <<published, buffer, backfilled, early, epoch>>
       \/ connected = {c} /\ published < MaxEvents /\ Record(published + 1)
    /\ UNCHANGED <<counter, disk, starts, faults, unsent>>
-----------------------------------------------------------------------------
(* The process.                                                            *)

Restarted ==
    /\ starts < MaxStarts /\ starts' = starts + 1
    /\ buffer' = <<>> /\ backfilled' = FALSE /\ counter' = 0 /\ early' = FALSE
    /\ connected' = {}
    /\ queue' = [c \in Clients |-> <<>>] /\ taken' = [c \in Clients |-> 0]
    /\ UNCHANGED unsent

Restart ==
    /\ Restarted
    /\ epoch' = published
    /\ UNCHANGED <<published, disk, faults>>

\* The process dies while it writes an event.
CrashInWrite ==
    /\ published < MaxEvents /\ counter >= 0
    /\ Restarted
    /\ published' = published + 1 /\ epoch' = published + 1
    /\ WritePart(published + 1)

Next ==
    \/ PublishUnstored \/ PublishWriteFails
    \/ \E splits \in BOOLEAN : PublishStored(splits)
    \/ \E c \in Clients : Subscribe(c) \/ Take(c) \/ Unsubscribe(c)
    \/ Restart \/ CrashInWrite

Spec == Init /\ [][Next]_vars
-----------------------------------------------------------------------------
(* Properties.                                                             *)

\* The types of the variables; in particular the buffer and the queues keep
\* to their limits whatever is published, loaded and replayed.
TypeOK ==
    /\ published \in 0 .. MaxEvents /\ epoch \in 0 .. published
    /\ buffer \in Seq(Events) /\ Len(buffer) <= Limit
    /\ backfilled \in BOOLEAN /\ early \in BOOLEAN
    /\ counter \in Nat \cup {-1}
    /\ lines \in Seq(Events \cup {Junk})
    /\ ended \in BOOLEAN /\ (ended \/ lines # <<>>)
    /\ undecodable \in BOOLEAN
    /\ connected \subseteq Clients
    /\ queue \in [Clients -> Seq([kind : Kinds, event : 0 .. MaxEvents])]
    /\ \A c \in Clients : Len(queue[c]) <= QueueItems
    /\ taken \in [Clients -> 0 .. MaxEvents]
    /\ starts \in 1 .. MaxStarts /\ faults \in 0 .. MaxFaults
    /\ stored \subseteq Events /\ unsent \subseteq Events

\* A browser that falls behind is told so: every event published since what it
\* last took is waiting in its queue, or a resync before a later event waits
\* there, however often the queue overflowed. The exception is an event whose
\* publication raised because the file did not decode.
NoSilentGap ==
    \A c \in connected : \A e \in (taken[c] + 1 .. published) \ unsent :
        \E i \in DOMAIN queue[c] :
            \/ queue[c][i] = Item("live", e)
            \/ queue[c][i].kind = "resync" /\ e < queue[c][i].event

\* The file has no hole: appends, failed writes, crashes and compactions leave
\* the stored events in order, and only events older than all others are gone,
\* for a file of at least Keep lines.
Kept == In(lines) \ {Junk}
FileKeepsTail ==
    /\ \A i, j \in DOMAIN lines :
          i < j /\ lines[i] # Junk /\ lines[j] # Junk => lines[i] < lines[j]
    /\ Kept \subseteq stored
    /\ \A e \in stored \ Kept : Len(lines) >= Keep /\ \A k \in Kept : e < k

\* What a browser is shown again is the newest of what was stored and what
\* this process published, in order, over any number of restarts, provided the
\* process did not publish before its first browser connected.
ReplayKeepsTail ==
    backfilled /\ ~early =>
        /\ \A i, j \in DOMAIN buffer : i < j => buffer[i] < buffer[j]
        /\ \A e \in (stored \cup (epoch + 1 .. published)) \ In(buffer) :
              /\ \A b \in In(buffer) : e < b
              /\ Len(buffer) = Limit \/ faults > 0

\* What the three rest on: a queue holds what comes after the event up to which
\* its subscriber is served, in order; a damaged file has a fault behind it; and
\* before the first browser connects nothing is buffered that is not early.
Ahead(item) == item.kind \in {"live", "resync"}
InOrder(q, last, newest) ==
    /\ last <= newest
    /\ \A i \in DOMAIN q : Ahead(q[i]) => last < q[i].event /\ q[i].event <= newest
    /\ \A i, j \in DOMAIN q : i < j /\ Ahead(q[i]) /\ Ahead(q[j]) =>
          /\ q[i].event <= q[j].event
          /\ q[i].kind = "live" => q[i].event < q[j].event
TraceTracked ==
    /\ \A c \in Clients : InOrder(queue[c], taken[c], published)
    /\ stored \subseteq 1 .. published /\ \A b \in In(buffer) : b <= published
    /\ Junk \in In(lines) \/ ~ended \/ undecodable => faults > 0
    /\ ~backfilled /\ ~early => buffer = <<>> /\ published = epoch

TraceFaithful == TypeOK /\ NoSilentGap /\ FileKeepsTail /\ ReplayKeepsTail /\ TraceTracked

\* A browser is shown no event twice ("backfill only if the buffer is empty"). The
\* code breaks it: an event before the first subscription is replayed twice.
ReplayOnce == \A i, j \in DOMAIN buffer : i # j => buffer[i] # buffer[j]
=============================================================================
