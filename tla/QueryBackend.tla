---------------------------- MODULE QueryBackend ----------------------------
(***************************************************************************)
(* The database behind data questions (tau_coding/dataquery/backends:      *)
(* dws.py, and the truncation of base.py): one lazy connection, statements *)
(* that run in threads, a monitor that interrupts them. The tools of a run *)
(* call one at a time, but a call whose task is cancelled leaves its       *)
(* thread behind, and the next call shares the connection with it.         *)
(*                                                                         *)
(* The driver (psycopg 3) and the server are external: the first statement *)
(* begins a transaction, read-only if the connection says so; only an idle *)
(* connection may change that; nothing commits but commit().               *)
(***************************************************************************)
EXTENDS Integers, Sequences, FiniteSetsExt, SequencesExt

CONSTANTS
    MaxRows,    \* max_rows
    MaxResult,  \* max_result_bytes
    MaxCell,    \* max_cell_bytes
    Tables,     \* what a query may select: rows of cells [chars, bytes]
    MaxCalls    \* bound

VARIABLES
    current,  \* self._connection, 0 for none
    links,    \* the connections: their transaction, their mark, whether a call abandoned them
    calls,    \* the number of calls of execute
    threads,  \* the thread that works for each call, also after the call is gone
    call      \* the last call

vars == <<current, links, calls, threads, call>>

Fresh  == [tx |-> "idle", readOnly |-> FALSE, left |-> FALSE]
NoRows == [rows |-> <<>>, reasons |-> {}]
Thread(does, c) == [does |-> does, link |-> c, at |-> "start", blame |-> "none"]
Ended  == [does |-> "none", link |-> 0, at |-> "end", blame |-> "none"]
Called(at) == [at |-> at, outcome |-> "none", signalled |-> FALSE, told |-> FALSE,
               table |-> <<>>, result |-> NoRows]

Init ==
    /\ current = 0 /\ links = <<>>
    /\ calls = 0 /\ threads = [n \in 1 .. MaxCalls |-> Ended]
    /\ call = Called("done")
-----------------------------------------------------------------------------
(* What is shown of a table.                                               *)

Note == 1   \* the bytes of "…[+n bytes omitted]", in some unit

\* text[:max_cell_bytes] cuts characters, the size counts bytes.
Previewed(cell) ==
    IF cell.bytes <= MaxCell THEN cell.bytes
    ELSE (cell.bytes \div cell.chars) * Min({cell.chars, MaxCell}) + Note

RowBytes(row) == FoldLeft(LAMBDA n, cell : n + Previewed(cell), Len(row) - 1, row)
Bytes(rows)   == FoldLeft(LAMBDA n, row : n + RowBytes(row), 0, rows)

\* Fault: a row is kept when the rows before it fit.
Fits_Before(rows, n) == Bytes(SubSeq(rows, 1, n - 1)) <= MaxResult

Fits(rows, n) == Bytes(SubSeq(rows, 1, n)) <= MaxResult

\* truncate_result_rows: rows are dropped from the first that does not fit.
Truncated(rows) ==
    LET n    == Max({k \in 0 .. Min({Len(rows), MaxRows}) : \A j \in 1 .. k : Fits(rows, j)})
        seen == SubSeq(rows, 1, Min({Len(rows), MaxRows, n + 1}))
    IN  [rows    |-> SubSeq(rows, 1, n),
         reasons |-> {r \in {"cell_limit", "byte_limit", "row_limit"} :
                         \/ r = "cell_limit" /\ \E row \in ToSet(seen) : \E i \in 1 .. Len(row) : row[i].bytes > MaxCell
                         \/ r = "byte_limit" /\ n < Min({Len(rows), MaxRows})
                         \/ r = "row_limit"  /\ n = MaxRows /\ Len(rows) > MaxRows}]

\* Fault: as many rows are fetched as may be shown.
Fetched_Shown(table) == SubSeq(table, 1, Min({Len(table), MaxRows}))

\* One row more than may be shown tells that there are more.
Fetched(table) == SubSeq(table, 1, Min({Len(table), MaxRows + 1}))
-----------------------------------------------------------------------------
(* The call of execute, a coroutine.                                       *)

Mine == threads[calls]
Start(does, c) == threads' = [threads EXCEPT ![calls] = Thread(does, c)]

Execute ==
    /\ call.at = "done" /\ calls < MaxCalls
    /\ calls' = calls + 1
    /\ IF current # 0
       THEN call' = Called("running") /\ threads' = [threads EXCEPT ![calls'] = Thread("statement", current)]
       ELSE call' = Called("connecting") /\ threads' = [threads EXCEPT ![calls'] = Thread("connect", 0)]
    /\ UNCHANGED <<current, links>>

\* Fault: the connection is used and not kept.
Kept_Not(c) == 0

Kept(c) == c

\* _connection_or_raise: the lock is free, one call at a time.
Connected ==
    /\ call.at = "connecting" /\ Mine.at = "end"
    /\ IF Mine.blame = "none"
       THEN /\ call' = [call EXCEPT !.at = "running"]
            /\ Start("statement", Mine.link) /\ current' = Kept(Mine.link)
       ELSE /\ call' = [call EXCEPT !.at = "done", !.outcome = "infrastructure"]
            /\ threads' = [threads EXCEPT ![calls] = Ended] /\ UNCHANGED current
    /\ UNCHANGED <<links, calls>>

Signal ==
    /\ call.at # "done" /\ ~call.signalled
    /\ call' = [call EXCEPT !.signalled = TRUE]
    /\ UNCHANGED <<current, links, calls, threads>>

Ends(n, why) == threads' = [threads EXCEPT ![n] = [Ended EXCEPT !.blame = IF n = calls THEN why ELSE "none",
                                                                !.link = IF n = calls THEN threads[n].link ELSE 0]]
Enters(c, tx) == links' = [links EXCEPT ![c].tx = tx]
Usable(c) == links[c].tx \notin {"lost", "closed"}

\* _watch_cancel: once. What it interrupts is the statement at work on the
\* connection, if there is one at that moment.
Interrupt ==
    /\ call.at = "running" /\ call.signalled /\ ~call.told
    /\ call' = [call EXCEPT !.told = TRUE]
    /\ \/ UNCHANGED <<links, threads>>
       \/ \E n \in 1 .. calls :
             /\ threads[n].link = Mine.link /\ threads[n].at \in {"timeout", "path", "sql"} /\ Usable(Mine.link)
             /\ Ends(n, "interrupted") /\ Enters(Mine.link, "aborted")
    /\ UNCHANGED <<current, calls>>

\* Fault: rows that came before the interruption are returned.
Answered_Anyway == Mine.blame = "none"

Answered == Mine.blame = "none" /\ ~call.signalled

Answer(table) ==
    /\ call.at = "running" /\ Mine.at = "end" /\ Answered
    /\ call' = [call EXCEPT !.at = "done", !.outcome = "rows",
                            !.table = table, !.result = Truncated(Fetched(table))]
    /\ threads' = [threads EXCEPT ![calls] = Ended]
    /\ UNCHANGED <<current, links, calls>>

\* Fault: a failed call leaves its transaction.
Clears_Not == FALSE

\* Any Exception rolls the connection back first.
Clears == TRUE

Fail ==
    /\ call.at = "running" /\ Mine.at = "end" /\ ~Answered
    /\ call' = [call EXCEPT !.at = IF Clears THEN "clearing" ELSE "done",
                            !.outcome = IF Mine.blame = "none" THEN "cancelled" ELSE Mine.blame]
    /\ IF Clears THEN Start("rollback", Mine.link) ELSE threads' = [threads EXCEPT ![calls] = Ended]
    /\ UNCHANGED <<current, links, calls>>

Cleared ==
    /\ call.at = "clearing" /\ Mine.at = "end"
    /\ call' = [call EXCEPT !.at = "done"]
    /\ threads' = [threads EXCEPT ![calls] = Ended]
    /\ UNCHANGED <<current, links, calls>>

\* The task of the run is cancelled: no rollback, and the thread goes on.
Abandon ==
    /\ call.at # "done"
    /\ call' = [Called("done") EXCEPT !.outcome = "abandoned"]
    /\ IF Mine.link # 0 THEN links' = [links EXCEPT ![Mine.link].left = TRUE] ELSE UNCHANGED links
    /\ threads' = IF Mine.at = "end" THEN [threads EXCEPT ![calls] = Ended] ELSE threads
    /\ UNCHANGED <<current, calls>>

\* session_shutdown
Close ==
    /\ call.at = "done" /\ current # 0
    /\ current' = 0 /\ Enters(current, "closed")
    /\ UNCHANGED <<calls, threads, call>>
-----------------------------------------------------------------------------
(* The threads.                                                            *)

Works(n, does, at) == threads[n].does = does /\ threads[n].at = at

Connect(n) ==
    /\ Works(n, "connect", "start")
    /\ \/ /\ links' = Append(links, [Fresh EXCEPT !.left = ~(n = calls /\ call.at = "connecting")])
          /\ threads' = [threads EXCEPT ![n] =
                IF n = calls /\ call.at = "connecting" THEN [Ended EXCEPT !.link = Len(links) + 1] ELSE Ended]
       \/ Ends(n, "refused") /\ UNCHANGED links
    /\ UNCHANGED <<current, calls, call>>

Rollback(n) ==
    /\ Works(n, "rollback", "start")
    /\ IF Usable(threads[n].link) THEN Enters(threads[n].link, "idle") ELSE UNCHANGED links
    /\ Ends(n, "none")
    /\ UNCHANGED <<current, calls, call>>

\* Fault: a connection is not marked.
Marked_Not(link) == link

\* conn.read_only = True
Marked(link) == [link EXCEPT !.readOnly = TRUE]

Mark(n) ==
    /\ Works(n, "statement", "start")
    /\ LET c == threads[n].link IN
       IF links[c].tx = "idle"
       THEN links' = [links EXCEPT ![c] = Marked(@)] /\ threads' = [threads EXCEPT ![n].at = "timeout"]
       ELSE Ends(n, IF Usable(c) THEN "transaction" ELSE "connection") /\ UNCHANGED links
    /\ UNCHANGED <<current, calls, call>>

Following == [timeout |-> "path", path |-> "sql"]

\* SET LOCAL statement_timeout, SET LOCAL search_path and the query: the first
\* begins a transaction where there is none, all fail in one that failed.
Issue(n) ==
    /\ threads[n].at \in {"timeout", "path", "sql"}
    /\ LET c == threads[n].link IN
       IF links[c].tx \in {"idle", "open"}
       THEN /\ Enters(c, "open")
            /\ IF threads[n].at = "sql" THEN Ends(n, "none")
               ELSE threads' = [threads EXCEPT ![n].at = Following[@]]
       ELSE Ends(n, IF Usable(c) THEN "transaction" ELSE "connection") /\ UNCHANGED links
    /\ UNCHANGED <<current, calls, call>>

\* The server rejects the query, or the statement reaches its timeout.
Reject(n) ==
    /\ Works(n, "statement", "sql") /\ links[threads[n].link].tx \in {"idle", "open"}
    /\ Enters(threads[n].link, "aborted") /\ Ends(n, "rejected")
    /\ UNCHANGED <<current, calls, call>>

\* The server or the network drops the connection.
Lose(c) ==
    /\ links[c].tx \in {"idle", "open", "aborted"}
    /\ Enters(c, "lost")
    /\ UNCHANGED <<current, calls, threads, call>>

Next ==
    \/ Execute \/ Connected \/ Signal \/ Interrupt \/ Fail \/ Cleared \/ Abandon \/ Close
    \/ \E table \in Tables : Answer(table)
    \/ \E n \in 1 .. calls : Connect(n) \/ Rollback(n) \/ Mark(n) \/ Issue(n) \/ Reject(n)
    \/ \E c \in 1 .. Len(links) : Lose(c)

Spec == Init /\ [][Next]_vars
-----------------------------------------------------------------------------
(* Properties.                                                             *)

\* The types of the variables.
TypeOK ==
    /\ current \in 0 .. Len(links) /\ calls \in 0 .. MaxCalls
    /\ \A c \in 1 .. Len(links) : links[c].tx \in {"idle", "open", "aborted", "lost", "closed"}
    /\ \A n \in 1 .. MaxCalls : threads[n].at \in {"start", "timeout", "path", "sql", "end"}
    /\ call.at \in {"connecting", "running", "clearing", "done"}
    /\ current # 0 => links[current].tx # "closed"

\* dws.py: "every execution runs in a database-forced read-only transaction",
\* also on a connection that an abandoned call is still using.
QueriesReadOnly ==
    \A n \in 1 .. calls : threads[n].at = "sql" => links[threads[n].link].readOnly

Failures == {"rejected", "interrupted", "transaction", "connection"}

\* A call that failed leaves its connection ready for the next one, unless the
\* connection is gone or an abandoned call has used it.
FailureClears ==
    current # 0 /\ call.at = "done" /\ call.outcome \in Failures \cup {"cancelled"} /\ ~links[current].left
        => links[current].tx \in {"idle", "lost"}

\* "Lazy single-connection": the connection in use is the only one, except for
\* what a call opened that was abandoned while it connected.
OneConnection ==
    \A c \in 1 .. Len(links) :
        \/ c = current \/ links[c].tx \in {"closed", "lost"}
        \/ links[c].left \/ (call.at = "connecting" /\ Mine.link = c)

\* Rows are the first rows of the table, within the limits, and a result that
\* misses something says so; a cancelled call returns none.
RowsHonest ==
    call.outcome = "rows" =>
        /\ ~call.signalled
        /\ call.result.rows = SubSeq(call.table, 1, Len(call.result.rows))
        /\ Len(call.result.rows) <= MaxRows /\ Bytes(call.result.rows) <= MaxResult
        /\ call.result.reasons = {} =>
              /\ call.result.rows = call.table
              /\ \A row \in ToSet(call.table) : \A i \in 1 .. Len(row) : row[i].bytes <= MaxCell

\* The service takes a failed query for a rejected one and has the planner
\* correct it: the server did reject it, or it was interrupted or cut off.
QueryRuns == current # 0 /\ ~links[current].left => call.outcome # "transaction"
=============================================================================
