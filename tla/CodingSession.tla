---------------------------- MODULE CodingSession ----------------------------
(***************************************************************************)
(* How CodingSession (tau_coding/session.py) keeps its session file in     *)
(* step with the transcript of the agent run: messages are persisted while *)
(* the run yields its events, compactions and branches rewrite the         *)
(* transcript, and a process that dies leaves the file to the next load.   *)
(*                                                                         *)
(* Writing is synchronous, so a burst of entries is one step of the event  *)
(* loop; the process may still die between two of them.                    *)
(***************************************************************************)
EXTENDS SessionTree

CONSTANTS
    TaskCancel,  \* TRUE: the frontend cancels the task of a run (the TUI);
                 \* FALSE: it only sets the run's signal (the web runtime)
    PartialCalls, \* TRUE: a reply that failed may carry tool calls
    MaxBatch,    \* bound: tool calls in one assistant message
    MaxReplies,  \* bound: assistant messages in a behaviour
    MaxUsers,    \* bound: user messages in a behaviour
    MaxCommands, \* bound: terminal commands in a behaviour
    MaxMetas,    \* bound: other entries stored in a behaviour
    MaxRewrites, \* bound: compactions and branches in a behaviour
    MaxCrashes   \* bound: crashes in a behaviour

ASSUME SessionAssumption ==
    /\ TaskCancel \in BOOLEAN /\ PartialCalls \in BOOLEAN
    /\ {MaxBatch, MaxReplies, MaxUsers, MaxCommands, MaxMetas, MaxRewrites,
         MaxCrashes} \subseteq Nat

VARIABLES
    file,       \* the entries on disk
    stored,     \* history: Saved(file), what a load of the file finds
    up,         \* the process is alive
    live,       \* the harness's messages
    lastParent, \* _last_parent_id
    at,         \* where the session's coroutine is suspended
    then,       \* what follows a compaction
    count,      \* persisted_count of the run
    reply,      \* the run's last assistant message
    todo,       \* its calls without a result in the transcript
    cancelled,  \* the run's signal is set
    retried,    \* this run is the retry after an overflow
    plan,       \* the entries the compaction in progress will replace
    branch,     \* the entry of the branch being summarized, or 0
    shown,      \* history: messages whose MessageEnd was delivered
    unwound,    \* history: the task of a run was cancelled
    users, replies, calls, commands, metas, rewrites, crashes   \* counters

runVars  == <<count, reply, todo, cancelled, retried>>
counters == <<users, replies, calls, commands, metas, rewrites, crashes>>
disk     == <<file, stored>>
history  == <<shown, unwound>>
vars     == <<disk, up, live, lastParent, at, then, runVars, plan, branch,
              history, counters>>

RunPlaces == {"injecting",  \* a user message was appended, its MessageEnd is next
              "streaming",  \* awaiting the provider
              "answered",   \* the assistant's MessageEnd was delivered
              "tool",       \* a tool runs
              "returned",   \* the result's MessageEnd was delivered
              "turnEnd",    \* the turn is over
              "closing"}    \* the loop is over
Places == RunPlaces \cup
          {"idle", "prompting", "overflowed", "retrying", "settling", "summarizing"}

Init ==
    /\ file = <<>> /\ stored = <<>> /\ up = FALSE
    /\ live = <<>> /\ lastParent = 0
    /\ at = "idle" /\ then = "idle"
    /\ count = 0 /\ reply = None /\ todo = <<>>
    /\ cancelled = FALSE /\ retried = FALSE
    /\ plan = {} /\ branch = 0 /\ shown = {} /\ unwound = FALSE
    /\ users = 0 /\ replies = 0 /\ calls = 0
    /\ commands = 0 /\ metas = 0 /\ rewrites = 0 /\ crashes = 0

-----------------------------------------------------------------------------
(* Writing. *)

\* The deferred initial entries are written before the first other entry.
Base == IF file = <<>> THEN <<MetaEntry(0)>> ELSE file

\* Append entries; the process may die before the last of them.
Store(entries) ==
    \E n \in 0..Len(entries) :
        /\ n < Len(entries) => crashes < MaxCrashes
        /\ file' = Base \o SubSeq(entries, 1, n)
        /\ stored' = Saved(file')
        /\ up' = (n = Len(entries))
        /\ crashes' = IF n = Len(entries) THEN crashes ELSE crashes + 1

\* Each new message is an entry below the one before, with a leaf behind it.
MessageEntries(parent, messages) ==
    [k \in 1..2 * Len(messages) |->
        LET n == Len(Base) + k
        IN  IF k % 2 = 0 THEN LeafEntry(n - 1)
            ELSE MessageEntry(IF k = 1 THEN parent ELSE n - 2,
                              messages[(k + 1) \div 2])]

\* Fault: the count that was read before the run stays the same.
NewSince_All(s, n)    == s
\* Fault: only the newest message is written.
NewSince_Newest(s, n) == SubSeq(s, IF n < Len(s) THEN Len(s) ELSE n + 1, Len(s))
NewSince(s, n)        == SubSeq(s, n + 1, Len(s))

\* Fault: the parent of the next entry is one that does not exist yet.
Persist_PastEnd(s) ==
    LET new == NewSince(s, count)
    IN  IF new = <<>>
          THEN UNCHANGED <<disk, up, lastParent, count, crashes>>
          ELSE /\ Store(MessageEntries(lastParent, new))
               /\ lastParent' = Len(Base) + 2 * Len(new) + 1
               /\ count' = Len(s)

\* _persist_messages_since, for the transcript s.
Persist(s) ==
    LET new == NewSince(s, count)
    IN  IF new = <<>>
          THEN UNCHANGED <<disk, up, lastParent, count, crashes>>
          ELSE /\ Store(MessageEntries(lastParent, new))
               /\ lastParent' = Len(Base) + 2 * Len(new) - 1
               /\ count' = Len(s)

-----------------------------------------------------------------------------
(* Load. *)

\* The entries that put the repair of the active branch on disk: everything
\* behind the first message that changes, and one leaf.
RecoveryEntries(rows) ==
    LET old  == Messages(rows)
        new  == Recovered(old)
        same == CHOOSE n \in 0..Len(old) :
                   /\ SubSeq(old, 1, n) = SubSeq(new, 1, n)
                   /\ n = Len(old) \/ old[n + 1] # new[n + 1]
        more == SubSeq(new, same + 1, Len(new))
    IN  [k \in 1..Len(more) + 1 |->
            LET n == Len(file) + k
            IN  IF k > Len(more) THEN LeafEntry(n - 1)
                ELSE MessageEntry(IF k = 1 THEN rows[same].id ELSE n - 1, more[k])]

\* CodingSession.load in a new process.  After a repair the transcript is what
\* a replay gives at the new leaf.  A file that has no leaf yet is replayed as a
\* line (session.py:326), the same as the path of its last entry until a repair
\* of it is cut short: that the process dies just then is left out.
Load ==
    /\ ~up
    /\ LET leaf == IF file = <<>> THEN 1 ELSE ActiveLeaf(file)
           rows == Rows(Base, leaf)
           more == RecoveryEntries(rows)
           end  == Len(file) + Len(more) - 1
       IN  IF Recovered(Messages(rows)) = Messages(rows)
             THEN /\ up' = TRUE
                  /\ live' = Messages(rows)
                  /\ lastParent' = leaf
                  /\ UNCHANGED <<disk, crashes>>
             ELSE /\ Store(more)
                  /\ HasLeaf(file) \/ up'
                  /\ live' = Transcript(file \o more, end)
                  /\ lastParent' = end
    /\ at' = "idle" /\ then' = "idle"
    /\ count' = 0 /\ reply' = None /\ todo' = <<>>
    /\ cancelled' = FALSE /\ retried' = FALSE
    /\ plan' = {} /\ branch' = 0 /\ shown' = {} /\ unwound' = FALSE
    /\ UNCHANGED <<users, replies, calls, commands, metas, rewrites>>

-----------------------------------------------------------------------------
(* A prompt, up to the first event that completes a message. *)

\* Compaction plans over the rows of _state.
ContextRows == Rows(Base, lastParent)

StartCompaction(plans, next) ==
    /\ rewrites < MaxRewrites
    /\ rewrites' = rewrites + 1
    /\ plan' \in plans
    /\ at' = "summarizing"
    /\ then' = next
    /\ UNCHANGED <<disk, up, live, lastParent, runVars, branch, history, users,
                   replies, calls, commands, metas, crashes>>

\* The automatic compaction before a prompt may or may not be due.
Prompt ==
    /\ up /\ at = "idle"
    /\ branch = 0
    /\ users < MaxUsers
    /\ \/ StartCompaction(Plans(ContextRows), "prompting")
       \/ /\ at' = "prompting"
          /\ UNCHANGED <<disk, up, live, lastParent, then, runVars, plan, branch,
                         history, counters>>

\* Fault: the count is read when the run has begun.
StartRun_CountLate(prompts, isRetry, place) ==
    /\ live' = Repaired(live) \o prompts
    /\ count' = Len(live')
    /\ reply' = None /\ todo' = <<>>
    /\ cancelled' = FALSE /\ retried' = isRetry
    /\ at' = place
    /\ UNCHANGED <<disk, up, lastParent, then, plan, branch, history, replies,
                   calls, commands, metas, rewrites, crashes>>

StartRun(prompts, isRetry, place) ==
    /\ count' = Len(live)
    /\ live' = Repaired(live) \o prompts
    /\ reply' = None /\ todo' = <<>>
    /\ cancelled' = FALSE /\ retried' = isRetry
    /\ at' = place
    /\ UNCHANGED <<disk, up, lastParent, then, plan, branch, history, replies,
                   calls, commands, metas, rewrites, crashes>>

StartPrompt ==
    /\ up /\ at = "prompting"
    /\ users < MaxUsers
    /\ users' = users + 1
    /\ StartRun(<<User(users + 1)>>, FALSE, "injecting")

Continue ==
    /\ up /\ at = "idle"
    /\ branch = 0
    /\ replies < MaxReplies
    /\ StartRun(<<>>, FALSE, "streaming")
    /\ UNCHANGED users

Retry ==
    /\ up /\ at = "retrying"
    /\ StartRun(<<>>, TRUE, "streaming")
    /\ UNCHANGED users

-----------------------------------------------------------------------------
(* The run: each MessageEnd persists what the transcript holds by then.    *)

UserMessageEnd ==
    /\ up /\ at = "injecting"
    /\ Persist(live)
    /\ shown' = shown \cup {live[Len(live)]}
    /\ at' = "streaming"
    /\ UNCHANGED <<unwound, live, then, reply, todo, cancelled, retried, plan, branch,
                   users, replies, calls, commands, metas, rewrites>>

\* The loop appends the message only after its MessageEnd.
ReplyEnd ==
    /\ up /\ at = "streaming"
    /\ replies < MaxReplies
    /\ Persist(live)
    /\ replies' = replies + 1
    /\ \E n \in 0..MaxBatch, stop \in {"done", "failed", "overflow"} :
          /\ stop # "done" /\ ~PartialCalls => n = 0
          /\ reply' = Assistant(replies + 1, [i \in 1..n |-> calls + i], stop)
          /\ calls' = calls + n
    /\ shown' = shown \cup {reply'}
    /\ at' = "answered"
    /\ UNCHANGED <<unwound, live, then, todo, cancelled, retried, plan, branch, users,
                   commands, metas, rewrites>>

AppendReply ==
    /\ up /\ at = "answered"
    /\ live' = Append(live, reply)
    /\ todo' = IF reply.stop = "done" THEN reply.calls ELSE <<>>
    /\ at' = IF reply.stop # "done" THEN "closing"
             ELSE IF reply.calls = <<>> THEN "turnEnd" ELSE "tool"
    /\ UNCHANGED <<disk, up, lastParent, then, count, reply, cancelled, retried,
                   plan, branch, history, counters>>

ResultEnd ==
    /\ up /\ at = "tool"
    /\ Persist(live)
    /\ shown' = shown \cup {Result(Head(todo))}
    /\ at' = "returned"
    /\ UNCHANGED <<unwound, live, then, reply, todo, cancelled, retried, plan, branch,
                   users, replies, calls, commands, metas, rewrites>>

AppendResult ==
    /\ up /\ at = "returned"
    /\ live' = Append(live, Result(Head(todo)))
    /\ todo' = Tail(todo)
    /\ at' = IF Tail(todo) = <<>> THEN "turnEnd" ELSE "tool"
    /\ UNCHANGED <<disk, up, lastParent, then, count, reply, cancelled, retried,
                   plan, branch, history, counters>>

\* A queued message is injected, the tool results go to the provider, or the
\* run is over.
TurnEnd ==
    /\ up /\ at = "turnEnd"
    /\ \/ /\ users < MaxUsers
          /\ users' = users + 1
          /\ live' = Append(live, User(users + 1))
          /\ at' = "injecting"
       \/ /\ at' = IF reply.calls # <<>> THEN "streaming" ELSE "closing"
          /\ UNCHANGED <<users, live>>
    /\ UNCHANGED <<disk, up, lastParent, then, runVars, plan, branch, history,
                   replies, calls, commands, metas, rewrites, crashes>>

\* The harness's cleanup, and the session's last persist.
Close ==
    /\ up /\ at = "closing"
    /\ live' = IF cancelled THEN Repaired(live) ELSE live
    /\ Persist(live')
    /\ at' = IF reply.stop = "overflow" /\ ~retried THEN "overflowed" ELSE "settling"
    /\ UNCHANGED <<then, reply, todo, cancelled, retried, plan, branch, history,
                   users, replies, calls, commands, metas, rewrites>>

-----------------------------------------------------------------------------
(* After the run. *)

Settled == at' = "idle" /\ UNCHANGED <<disk, up, live, lastParent, then, runVars,
                                       plan, branch, history, counters>>

\* An overflow is compacted and retried once, if there is anything to compact.
Overflowed ==
    /\ up /\ at = "overflowed"
    /\ StartCompaction(Plans(ContextRows), "retrying") \/ Settled

Settle ==
    /\ up /\ at = "settling"
    /\ StartCompaction(Plans(ContextRows), "idle") \/ Settled

-----------------------------------------------------------------------------
(* Compaction and branching. *)

\* compact(): everything is replaced.
Compact ==
    /\ up /\ at = "idle"
    /\ branch = 0
    /\ ContextRows # <<>>
    /\ StartCompaction({{ContextRows[i].id : i \in DOMAIN ContextRows}}, "idle")

\* _append_compaction, with the plan made before the summary was awaited.
FinishCompaction ==
    /\ up /\ at = "summarizing"
    /\ LET id      == Len(Base) + 1
           entries == <<CompactionEntry(lastParent, plan), LeafEntry(id)>>
       IN  /\ Store(entries)
           /\ lastParent' = id
           /\ live' = Transcript(Base \o entries, id)
    /\ plan' = {}
    /\ at' = then /\ then' = "idle"
    /\ UNCHANGED <<runVars, branch, history, users, replies, calls, commands, metas,
                   rewrites>>

\* The summary could not be made, or the compaction was cancelled; an overflow
\* is not retried then.
AbandonCompaction ==
    /\ up /\ at = "summarizing"
    /\ plan' = {}
    /\ at' \in {"idle", IF then = "retrying" THEN "idle" ELSE then}
    /\ then' = "idle"
    /\ UNCHANGED <<disk, up, live, lastParent, runVars, branch, history, counters>>

IsBranchable(e) ==
    \/ e.type \in {"compaction", "branch_summary"}
    \/ e.type = "message" /\ e.message.kind \in {"user", "assistant"}

\* Fault: the next entry still goes below the old leaf.
Activate_KeepsParent(entries, target) ==
    /\ Store(Append(entries, LeafEntry(target)))
    /\ live' = Transcript(Base \o entries, target)
    /\ UNCHANGED lastParent

\* The rest of branch_to_entry once the entry to make active is known.
Activate(entries, target) ==
    /\ Store(Append(entries, LeafEntry(target)))
    /\ lastParent' = target
    /\ live' = Transcript(Base \o entries, target)

\* The branch at entry i leaves messages of the active path behind.
LeavesMessages(i) ==
    LET path == Path(file, lastParent)
    IN  i \in path /\ \E j \in path : j > i /\ file[j].type = "message"

\* The entries that a branch at entry i may make active: one before a user
\* message, unless a summary was asked for and nothing is left behind.
Targets(i) ==
    IF file[i].type # "message" \/ file[i].message.kind # "user" THEN {i}
    ELSE {file[i].parent} \cup {j \in {i} : ~LeavesMessages(i)}

\* branch_to_entry without a summary.
Branch ==
    /\ up /\ at = "idle" /\ branch = 0
    /\ rewrites < MaxRewrites
    /\ rewrites' = rewrites + 1
    /\ \E i \in DOMAIN file :
          /\ IsBranchable(file[i])
          /\ \E target \in Targets(i) : Activate(<<>>, target)
    /\ UNCHANGED <<at, then, runVars, plan, branch, history, users, replies, calls,
                   commands, metas>>

\* branch_to_entry awaits the summary of what the branch leaves behind ...
StartBranchSummary ==
    /\ up /\ at = "idle" /\ branch = 0
    /\ rewrites < MaxRewrites
    /\ rewrites' = rewrites + 1
    /\ branch' \in {i \in DOMAIN file : IsBranchable(file[i]) /\ LeavesMessages(i)}
    /\ UNCHANGED <<disk, up, live, lastParent, at, then, runVars, plan, history,
                   users, replies, calls, commands, metas, crashes>>

\* ... and then moves the leaf, without looking at the run again.
FinishBranchSummary ==
    /\ up /\ branch # 0
    /\ Activate(<<BranchSummaryEntry(branch)>>, Len(Base) + 1)
    /\ branch' = 0
    /\ UNCHANGED <<at, then, runVars, plan, history, users, replies, calls, commands, metas,
                   rewrites>>

\* A prompt or a command that the frontend runs exclusively cancels the branch.
AbandonBranch ==
    /\ up /\ branch # 0
    /\ branch' = 0
    /\ UNCHANGED <<disk, up, live, lastParent, at, then, runVars, plan, history,
                   counters>>

-----------------------------------------------------------------------------
(* Everything else that writes. *)

\* run_terminal_command returns: its output joins the transcript.
TerminalCommand ==
    /\ up /\ at \in {"idle", "summarizing"}
    /\ commands < MaxCommands /\ users < MaxUsers
    /\ commands' = commands + 1 /\ users' = users + 1
    /\ live' = Append(live, User(users + 1))
    /\ Store(MessageEntries(lastParent, <<User(users + 1)>>))
    /\ lastParent' = Len(Base) + 1
    /\ UNCHANGED <<at, then, runVars, plan, branch, history, replies, calls, metas, rewrites>>

\* A thinking level, a model choice or an extension's custom entry is stored.
StoreMeta ==
    /\ up
    /\ metas < MaxMetas
    /\ metas' = metas + 1
    /\ Store(<<MetaEntry(lastParent), LeafEntry(Len(Base) + 1)>>)
    /\ lastParent' = Len(Base) + 1
    /\ UNCHANGED <<live, at, then, runVars, plan, branch, history, users, replies,
                   calls, commands, rewrites>>

Cancel ==
    /\ up /\ at \in RunPlaces /\ ~cancelled
    /\ cancelled' = TRUE
    /\ UNCHANGED <<disk, up, live, lastParent, at, then, count, reply, todo,
                   retried, plan, branch, history, counters>>

\* The task that consumes the run is cancelled: the harness cleans up, prompt()
\* does not get to its last persist.
CancelTask ==
    /\ TaskCancel
    /\ up /\ at \in RunPlaces
    /\ live' = IF cancelled THEN Repaired(live) ELSE live
    /\ at' = "idle"
    /\ unwound' = TRUE
    /\ UNCHANGED <<disk, up, lastParent, then, runVars, plan, branch, shown,
                   counters>>

Crash ==
    /\ up
    /\ crashes < MaxCrashes
    /\ crashes' = crashes + 1
    /\ up' = FALSE
    /\ UNCHANGED <<disk, live, lastParent, at, then, runVars, plan, branch, history,
                   users, replies, calls, commands, metas, rewrites>>

-----------------------------------------------------------------------------
RunStep == \/ Prompt \/ StartPrompt \/ Continue \/ Retry
           \/ UserMessageEnd \/ ReplyEnd \/ AppendReply
           \/ ResultEnd \/ AppendResult \/ TurnEnd \/ Close
           \/ Overflowed \/ Settle

Rewriting == \/ Compact \/ FinishCompaction \/ AbandonCompaction
             \/ Branch \/ StartBranchSummary \/ FinishBranchSummary
             \/ AbandonBranch

Other == \/ Load \/ TerminalCommand \/ StoreMeta
         \/ Cancel \/ CancelTask \/ Crash

Next == RunStep \/ Rewriting \/ Other

Spec == Init /\ [][Next]_vars

-----------------------------------------------------------------------------
(* Properties. *)

InFile == {file[i].message : i \in {j \in DOMAIN file : file[j].type = "message"}}

\* The file is a tree that grows at its end, and memory and disk hold messages.
TypeOK ==
    /\ file \in Seq(Entry) /\ IsTree(file)
    /\ stored \in Seq(Message) /\ live \in Seq(Message) /\ shown \subseteq Message
    /\ up \in BOOLEAN /\ unwound \in BOOLEAN /\ cancelled \in BOOLEAN /\ retried \in BOOLEAN
    /\ at \in Places /\ then \in {"idle", "prompting", "retrying"}
    /\ lastParent \in Nat /\ (up => lastParent <= Len(Base))
    /\ count \in Nat /\ (up /\ at \in RunPlaces => count <= Len(live))
    /\ plan \subseteq DOMAIN file /\ branch \in 0..Len(file)
    /\ reply \in AssistantMessages \cup {None} /\ todo \in Seq(Nat)
    /\ users \in Nat /\ replies \in Nat /\ calls \in Nat
    /\ commands \in Nat /\ metas \in Nat /\ rewrites \in Nat /\ crashes \in Nat

\* Until the task of a run is cancelled: outside a run, a restart would find
\* exactly what the harness holds.  Every message, compaction and branch of the
\* transcript is on disk, in order and once (_persist_messages_since,
\* _append_compaction, branch_to_entry, load).
SettledDurable ==
    up /\ ~unwound /\ at \notin RunPlaces => live = stored

\* During a run the file holds the transcript up to persisted_count, whatever
\* was compacted, injected or cancelled before.
SavedUpToCount ==
    up /\ ~unwound /\ at \in RunPlaces => stored = SubSeq(live, 1, count)

\* Of the messages the frontend was told are complete, at most the latest is
\* not on disk, and none once the run is over.
Unsaved == shown \ InFile
AtMostOneUnsaved ==
    up /\ ~unwound =>
          /\ Cardinality(Unsaved) <= 1
          /\ at \notin RunPlaces => shown \subseteq InFile

\* The three together: the file keeps up with the run, message by message.
SavesKeepUp == SettledDurable /\ SavedUpToCount /\ AtMostOneUnsaved

\* What is on disk is in memory too, in the same order and once, even when the
\* tasks of runs are cancelled.
SavedInOrder == up => Scattered(stored, DOMAIN stored, live)

\* A load would resume from the entry the session writes below.
SavedBranch ==
    /\ stored = Saved(file)
    /\ up => lastParent = ActiveLeaf(Base)

\* What the run announced and the file lacks is what it appends next, or was
\* appended after the last write.
UnsavedAhead ==
    up /\ ~unwound /\ at \in RunPlaces =>
        CASE at = "answered" -> Unsaved \subseteq {reply}
          [] at = "returned" -> Unsaved \subseteq {Result(Head(todo))}
          [] OTHER -> Unsaved = {} \/ \E i \in count + 1..Len(live) : Unsaved = {live[i]}

\* What a run holds where it is suspended; a branch is only summarized in between.
RunShape ==
    /\ at = "injecting" => count < Len(live)
    /\ at = "answered" => reply # None
    /\ at \in {"tool", "returned"} => todo # <<>>
    /\ branch # 0 => at = "idle"

\* The invariant that carries the proof.
SessionInv == TypeOK /\ SavesKeepUp /\ SavedBranch /\ UnsavedAhead /\ RunShape

\* A message that the frontend was told is complete survives a cancellation.
CancellationPreserves == up /\ at = "idle" => shown \subseteq InFile

\* What entry i says, if it says anything.
Speaks(e)   == e.type \in {"message", "compaction", "branch_summary"}
Value(f, i) == IF f[i].type = "message" THEN f[i].message ELSE Summary(i)
\* What was said on the path to entry i, compacted away or not.
Said(f, i) == {Value(f, k) : k \in {j \in Path(f, i) : Speaks(f[j])}}

FirstRows(rows, ids) == \E n \in 1..Len(rows) : ids = {rows[k].id : k \in 1..n}

\* An entry says something new on its path, asks for calls that have no result
\* there, and a compaction replaces the first rows.
EntryInOrder(f, i) ==
    LET p == f[i].parent
    IN  /\ Speaks(f[i]) => Value(f, i) \notin Said(f, p)
        /\ f[i].type = "message" =>
              /\ \A c \in CallsOf(f[i].message) : Result(c) \notin Said(f, p)
              /\ IsSummary(f[i].message) => f[i].message.summarizes < i
        /\ f[i].type = "compaction" => FirstRows(Rows(f, p), f[i].replaces)
FileInOrder(f) == \A i \in DOMAIN f : EntryInOrder(f, i)

\* The messages there are.
Known == InFile \cup
    (IF up THEN Range(live) \cup (IF at = "answered" THEN {reply} ELSE {}) ELSE {})

Issued(m) ==
    /\ m.kind = "user" => IF IsSummary(m) THEN m.summarizes \in 1..Len(file) ELSE m.id \in 1..users
    /\ m.kind = "assistant" => m.id \in 1..replies /\ CallsOf(m) \subseteq 1..calls
    /\ m.kind = "result" => m.call \in 1..calls

Distinct(s) == \A i, j \in DOMAIN s : s[i] = s[j] => i = j

KnownInOrder ==
    \A m \in Known :
        /\ Issued(m)
        /\ m.kind = "assistant" =>
              Distinct(m.calls) /\ \A n \in Known : CallsOf(m) \cap CallsOf(n) # {} => m = n

ResultsAfter(s) ==
    \A i, j \in DOMAIN s : \A c \in CallsOf(s[i]) : s[j] = Result(c) => i < j

\* No message twice, results behind their calls, and what was said in answer to a
\* call of s is in s.
Tidy(s, said) ==
    /\ Distinct(s) /\ ResultsAfter(s)
    /\ \A c \in Asked(s) : Result(c) \in said => Result(c) \in Range(s)

\* What s holds behind place n was not said yet, nor answered.
Unsaid(s, n, said) ==
    \A k \in n + 1..Len(s) :
        s[k] \notin said /\ \A c \in CallsOf(s[k]) : Result(c) \notin said

LiveInOrder ==
    up =>
      LET said == Said(Base, lastParent)
      IN  /\ Tidy(live, said)
          /\ at \in RunPlaces => Unsaid(live, count, said)
          /\ at \in {"tool", "returned"} =>
                /\ Distinct(todo)
                /\ \A k \in DOMAIN todo : todo[k] \in 1..calls /\ Result(todo[k]) \notin Known
          /\ at = "answered" =>
                /\ reply \notin InFile \cup Range(live)
                /\ \A c \in CallsOf(reply) : Result(c) \notin Known
          /\ at = "summarizing" => FirstRows(ContextRows, plan)

OrderInv == FileInOrder(file) /\ KnownInOrder /\ LiveInOrder

\* An assistant message follows a transcript without open calls.
EntryClosed(f, i) ==
    f[i].type = "message" /\ f[i].message.kind = "assistant" =>
        Open(Transcript(f, f[i].parent)) = {}
FileClosed(f) == \A i \in DOMAIN f : EntryClosed(f, i)

\* So it does in s behind place n.
ClosedFrom(s, n) ==
    \A k \in n + 1..Len(s) : s[k].kind = "assistant" => Open(SubSeq(s, 1, k - 1)) = {}

\* What a run holds where it is suspended.
RunClosed ==
    up /\ at \in RunPlaces =>
        /\ ClosedFrom(live, count)
        /\ at \in {"injecting", "streaming", "answered", "turnEnd"} => Open(live) = {}
        /\ at \in {"tool", "returned"} => Open(live) \subseteq Range(todo)

\* As long as no task of a run is cancelled, the calls of a message are answered
\* before the next assistant message, on every branch and in memory.
CallsClosed == FileClosed(file) /\ RunClosed

\* What is left of the rows behind ids does not begin with a result.
CleanCut(rows, ids) ==
    \A k \in 2..Len(rows) :
        rows[k - 1].id \in ids /\ rows[k].id \notin ids => rows[k].message.kind # "result"

\* While the summary is awaited, whatever is written in the meantime.
PlanClean == up /\ at = "summarizing" => CleanCut(ContextRows, plan)

\* A session that is loaded leaves no call of the active branch open, however
\* the last process ended (_persist_loaded_interrupted_tool_repairs), unless tasks
\* of runs were cancelled: the repair may go back on a compaction, and what that
\* brings back may then have calls whose results were never saved.
LoadAnswers == [][~TaskCancel /\ ~up /\ up' => Open(live') = {}]_vars

\* What the active branch of a file holds besides messages.
Marks(f) == {i \in Path(f, ActiveLeaf(f)) : f[i].type \in {"meta", "compaction"}}

\* A load restores the compactions, model changes, thinking levels and custom
\* entries of the saved branch.
LoadRestores == [][~up /\ up' => Marks(file) \subseteq Marks(file')]_vars

\* No assistant message before the result at i asked for it.
Orphaned(s, i) ==
    s[i].kind = "result" /\ \A j \in 1..i - 1 : s[i].call \notin CallsOf(s[j])

\* The result at i is orphaned, or a message that is no result stands between it
\* and the assistant message that asked for it.
Loose(s, i) ==
    /\ s[i].kind = "result"
    /\ \A j \in 1..i - 1 : s[i].call \in CallsOf(s[j]) => \E k \in j + 1..i : s[k].kind # "result"

\* The calls of the results in s that are.
Orphans(s) == {s[i].call : i \in {j \in DOMAIN s : Orphaned(s, j)}}
LooseResults(s) == {s[i].call : i \in {j \in DOMAIN s : Loose(s, j)}}

\* What the next load finds has no other results without their call than, after a
\* compaction, results that were loose before it, and after a load, results that
\* lacked their call on some branch of the file.
KeepsPairs ==
    /\ up /\ at = "summarizing" => Orphans(stored') \subseteq LooseResults(stored)
    /\ ~up => Orphans(stored') \subseteq UNION {Orphans(Transcript(file, i)) : i \in DOMAIN file}

\* No compaction cuts a result that follows its call with only results between from
\* that call, and no load cuts any result from its call (_first_recent_context_index,
\* _apply_compaction, load). A result behind terminal output is cut from its call by
\* a compaction at that output: the first clause excludes it, and nothing else.
RewritesKeepPairs == [][KeepsPairs]_vars

\* The session is a saved transcript: memory grows, the disk follows, and only a
\* cancelled task leaves messages behind that are in memory alone.
Abstract == INSTANCE SavedTranscript
            WITH memory <- IF up THEN live ELSE <<>>, lossy <- unwound,
                 IsSummary <- IsSummary
SavesTranscript == Abstract!Spec
=============================================================================
