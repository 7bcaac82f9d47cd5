----------------------------- MODULE SessionTree -----------------------------
(***************************************************************************)
(* The append-only session file (tau_agent/session) and the transcript     *)
(* that a replay of it gives.  A file is a sequence of entries; an entry's *)
(* id is its position in the file and a parent of 0 is no parent.          *)
(***************************************************************************)
EXTENDS Integers, Sequences, FiniteSets, Functions, SequencesExt

(* Messages, as far as persistence and replay tell them apart. *)
User(n)             == [kind |-> "user", id |-> n]
Assistant(n, calls, stop) ==
    [kind |-> "assistant", id |-> n, calls |-> calls, stop |-> stop]
Result(c)           == [kind |-> "result", call |-> c]
\* The user message that stands for the messages entry n summarizes.
Summary(n)          == [kind |-> "user", summarizes |-> n]
IsSummary(m)        == "summarizes" \in DOMAIN m
None                == [kind |-> "none"]

UserMessages      == [kind : {"user"}, id : Nat] \cup [kind : {"user"}, summarizes : Nat]
AssistantMessages == [kind : {"assistant"}, id : Nat, calls : Seq(Nat), stop : {"done", "failed", "overflow"}]
ResultMessages    == [kind : {"result"}, call : Nat]
Message == UserMessages \cup AssistantMessages \cup ResultMessages

(* Entries.  `target' of a leaf is the entry it makes the active one. *)
MessageEntry(p, m)       == [type |-> "message", parent |-> p, message |-> m]
CompactionEntry(p, ids)  == [type |-> "compaction", parent |-> p, replaces |-> ids]
BranchSummaryEntry(p)    == [type |-> "branch_summary", parent |-> p]
LeafEntry(p)             == [type |-> "leaf", parent |-> p, target |-> p]
\* session_info, model, thinking level, label and custom entries
MetaEntry(p)             == [type |-> "meta", parent |-> p]

Entry == [type : {"message"}, parent : Nat, message : Message]
            \cup [type : {"compaction"}, parent : Nat, replaces : SUBSET Nat]
            \cup [type : {"leaf"}, parent : Nat, target : Nat]
            \cup [type : {"branch_summary", "meta"}, parent : Nat]

\* Parents and leaf targets are entries that come before, so no replay runs into
\* a cycle or a missing entry.
IsTree(file) ==
    \A i \in DOMAIN file :
        /\ file[i].parent \in 0..i - 1
        /\ file[i].type = "leaf" => file[i].target \in 0..i - 1

-----------------------------------------------------------------------------
(* Replay. *)

\* _apply_compaction: the summary takes the place of the first replaced row,
\* or the end when no row of the path is replaced.
Compacted(rows, ids, row) ==
    LET gone    == {i \in DOMAIN rows : rows[i].id \in ids}
        Now(i)  == CASE i \notin gone -> <<rows[i]>>
                     [] i \in gone /\ (\A j \in gone : i <= j) -> <<row>>
                     [] OTHER -> <<>>
    IN  FlattenSeq([i \in DOMAIN rows |-> Now(i)]) \o (IF gone = {} THEN <<row>> ELSE <<>>)

Row(i, m) == [id |-> i, message |-> m]

\* What entry i adds to the rows of the path that leads to it.
Extended(rows, i, e) ==
    CASE e.type = "message"        -> Append(rows, Row(i, e.message))
      [] e.type = "branch_summary" -> Append(rows, Row(i, Summary(i)))
      [] e.type = "compaction"     ->
            Compacted(rows, e.replaces, Row(i, Summary(i)))
      [] OTHER                     -> rows

\* SessionState.from_entries along path_to_entry: the rows at entry `leaf'.
Replay(file) ==
    LET rows[i \in 0..Len(file)] ==
            IF i = 0 THEN <<>> ELSE Extended(rows[file[i].parent], i, file[i])
    IN  rows
Rows(file, leaf) == Replay(file)[leaf]

\* path_to_entry: entry `leaf' and those above it.
Path(file, leaf) ==
    LET path[i \in 0..Len(file)] == IF i = 0 THEN {} ELSE {i} \cup path[file[i].parent]
    IN  path[leaf]

Messages(rows)         == [i \in DOMAIN rows |-> rows[i].message]
Transcript(file, leaf) == Messages(Rows(file, leaf))

\* The entry a load resumes from: the target of the last leaf entry; a file
\* without one is replayed as a line.
ActiveLeaf(file) ==
    LET leaves == {i \in DOMAIN file : file[i].type = "leaf"}
    IN  IF leaves = {} THEN Len(file) ELSE file[Max(leaves)].target

HasLeaf(file) == \E i \in DOMAIN file : file[i].type = "leaf"

\* What a load of the file finds.
Saved(file) == Transcript(file, ActiveLeaf(file))

-----------------------------------------------------------------------------
\* The elements of s at the places in `kept' occur in t, once and in the same order.
Scattered(s, kept, t) ==
    \A j \in kept : \E b \in DOMAIN t :
        /\ t[b] = s[j]
        /\ \A i \in kept, a \in DOMAIN t :
              s[i] = t[a] => (i < j <=> a < b) /\ (i = j <=> a = b)

(* Repairs. *)

CallsOf(m)  == IF m.kind = "assistant" THEN Range(m.calls) ELSE {}
Asked(s)    == UNION {CallsOf(s[i]) : i \in DOMAIN s}
Returned(s) == {s[i].call : i \in {j \in DOMAIN s : s[j].kind = "result"}}
Open(s)     == Asked(s) \ Returned(s)

\* A failed result for each call of m without one. Ids of calls are fresh and a
\* path holds a message once, so no call is met twice.
Answers(s, m) ==
    LET Answer(c) == IF c \in Open(s) THEN <<Result(c)>> ELSE <<>>
    IN  IF m.kind # "assistant" THEN <<>>
        ELSE FlattenSeq([i \in DOMAIN m.calls |-> Answer(m.calls[i])])

\* The harness's repair: failed results at the end of the transcript.
Repaired(s) == s \o FlattenSeq([i \in DOMAIN s |-> Answers(s, s[i])])

\* Fault: only a call at the end of the transcript is answered.
Recovered_Trailing(s) == IF s = <<>> THEN s ELSE s \o Answers(s, s[Len(s)])

\* _interrupted_tool_repair_plan, on load: failed results right behind the
\* assistant message that asked.
Recovered(s) == FlattenSeq([i \in DOMAIN s |-> <<s[i]>> \o Answers(s, s[i])])

-----------------------------------------------------------------------------
(* Where an automatic compaction cuts. *)

NextUser(rows, start) ==
    LET after == {i \in start..Len(rows) : rows[i].message.kind = "user"}
    IN  IF after = {} THEN 0 ELSE CHOOSE i \in after : \A j \in after : i <= j

\* Fault: the cut falls on the candidate, whatever its role.
CutAt_Anywhere(rows, candidate) == candidate - 1

\* _first_recent_context_index: how many rows to replace, given the row
\* `candidate' where the recent token budget is used up.
CutAt(rows, candidate) ==
    LET isUser   == rows[candidate].message.kind = "user"
        nextUser == NextUser(rows, candidate + 1)
        kept     == {i \in candidate..Len(rows) :
                        rows[i].message.kind # "result"}
    IN  CASE isUser /\ candidate > 1                   -> candidate - 1
          [] ~(isUser /\ candidate > 1) /\ nextUser > 0 -> nextUser - 1
          [] isUser /\ candidate = 1 /\ nextUser = 0     -> 0
          [] ~isUser /\ nextUser = 0 /\ kept = {}        -> Len(rows)
          [] OTHER -> (CHOOSE i \in kept : \A j \in kept : i <= j) - 1

\* The sets of entries an automatic compaction may replace: token counts are
\* abstracted to the row where the budget ends.
Plans(rows) ==
    {{rows[i].id : i \in 1..CutAt(rows, candidate)} :
        candidate \in {c \in 1..Len(rows) : Len(rows) >= 2 /\ CutAt(rows, c) > 0}}
=============================================================================
