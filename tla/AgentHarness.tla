---------------------------- MODULE AgentHarness ----------------------------
(***************************************************************************)
(* The agent brain of Tau: AgentHarness (tau_agent/harness.py) driving the *)
(* provider/tool loop run_agent_loop (tau_agent/loop.py).                  *)
(*                                                                         *)
(* A run is an async generator.  Between two of its resumptions anything   *)
(* may happen on the event loop: the user cancels, queues or takes back    *)
(* messages, a terminal command appends to the transcript, a branch or a   *)
(* compaction replaces it, the consumer is cancelled.  A value of `at'     *)
(* names the place where the generator is suspended; consecutive yields    *)
(* between which the loop changes no state are one place.                  *)
(***************************************************************************)
EXTENDS Integers, Sequences, FiniteSets, Functions, SequencesExt

CONSTANTS
    QueueMode,   \* "one_at_a_time" or "all": how much of a queue a drain takes
    MaxTurns,    \* AgentHarnessConfig.max_turns, or NoLimit
    NoLimit,     \* max_turns = None
    CallIds,     \* "fresh": the provider names every call anew;
                 \* "positional": the adapter's default id, tool-call-<index>
    MaxBatch,    \* bound: tool calls in one assistant message
    MaxCalls,    \* bound: tool calls in a behaviour, when ids are fresh
    MaxUsers,    \* bound: user messages created in a behaviour
    MaxRuns      \* bound: runs in a behaviour

ASSUME HarnessAssumption ==
    /\ QueueMode \in {"one_at_a_time", "all"}
    /\ NoLimit \notin Int
    /\ MaxTurns \in Nat \cup {NoLimit}
    /\ CallIds \in {"fresh", "positional"}
    /\ MaxBatch \in Nat /\ MaxCalls \in Nat /\ MaxUsers \in Nat
    /\ MaxRuns \in Nat

VARIABLES
    lists,       \* the list objects that can hold a transcript
    own,         \* which of them is harness._messages
    loop,        \* which of them the suspended run was given
    running,     \* harness._running
    signal,      \* harness._current_signal: "none", "live" or "cancelled"
    steering,    \* harness._steering_queue
    followUp,    \* harness._follow_up_queue
    at,          \* where the run is suspended
    pending,     \* drained from a queue, not yet in the transcript
    turn,        \* the loop's turn counter
    reply,       \* the assistant message of the current turn
    todo,        \* its tool calls that have no recorded result yet
    context,     \* the messages handed to the provider while it streams
    newMessages, \* the loop's new_messages, delivered with AgentEndEvent
    runs,        \* how many runs were started
    users,       \* how many user messages were created (their ids)
    calls,       \* how many tool calls were issued (their ids, when fresh)
    injected,    \* history: queued messages that reached a transcript
    queued,      \* history: ids of the messages that were ever queued
    withdrawn,   \* history: queued messages popped or cleared by the user
    lost         \* history: drained messages of a run that was unwound

runVars   == <<loop, running, signal, at, pending, turn, reply, todo, context,
               newMessages>>
queueVars == <<steering, followUp, queued, withdrawn>>
counters  == <<runs, users, calls>>
history   == <<injected, lost>>
vars == <<lists, own, runVars, queueVars, counters, history>>

-----------------------------------------------------------------------------
(* Messages. *)

User(n, via)      == [kind |-> "user", id |-> n, via |-> via]
Assistant(cs, st) == [kind |-> "assistant", calls |-> cs, stop |-> st]
Result(c)         == [kind |-> "result", call |-> c]

\* _error_message: an assistant message with no content
ErrorMessage == Assistant(<<>>, "failed")
NoReply      == ErrorMessage

Ids(s) == {s[i].id : i \in DOMAIN s}

CallsOf(m)  == IF m.kind = "assistant" THEN Range(m.calls) ELSE {}
Asked(s)    == UNION {CallsOf(s[i]) : i \in DOMAIN s}
Returned(s) == {s[i].call : i \in {j \in DOMAIN s : s[j].kind = "result"}}

\* Fault: the repair forgets to skip the calls that have a result.
Open_All(s) == Asked(s)

\* The call ids that _append_interrupted_tool_results finds without a result.
Open(s) == Asked(s) \ Returned(s)

\* The numbers of a finite set in ascending order.
Ascending(S) ==
    [k \in 1..Cardinality(S) |->
        CHOOSE x \in S : Cardinality(S \cap (0..x)) = k]

\* The elements of s at the places of K, in the order of s.
Picked(s, K) ==
    LET kept == Ascending(K) IN [k \in DOMAIN kept |-> s[kept[k]]]

\* _append_interrupted_tool_results: one failed result per open call, appended
\* at the END of the transcript; fresh ids ascend with the transcript, so this
\* is the order in which the code meets the calls.  Fault: it does nothing.
Repaired_Not(s) == s
Repaired(s) ==
    s \o [i \in 1..Cardinality(Open(s)) |-> Result(Ascending(Open(s))[i])]

\* _provider_context drops the assistant messages that failed with no content.
\* Content other than tool calls is not modelled.
Replayable(m) == ~(m.kind = "assistant" /\ m.stop = "failed" /\ m.calls = <<>>)
ProviderContext(s) == Picked(s, {i \in DOMAIN s : Replayable(s[i])})

-----------------------------------------------------------------------------
(* Places. *)

Places == {"idle",       \* no run
           "opening",    \* AgentStart, TurnStart and the prompt's events
           "turnStart",  \* TurnStart of a later turn; `pending' is in hand
           "injecting",  \* events of a queued message just appended
           "streaming",  \* awaiting the provider
           "answered",   \* the assistant's MessageEnd; not appended yet
           "hook",       \* ToolExecutionStart, awaiting before_tool_call
           "executing",  \* awaiting tool.execute
           "returned",   \* ToolExecutionEnd and the result's MessageEnd
           "turnEnd",    \* TurnEnd
           "agentEnd"}   \* the closing events of the run

Transcript == lists[own]
RunList    == lists[loop]

\* Fault: the run writes to the list the harness holds now.
Record_ToOwn(m) ==
    /\ lists' = [lists EXCEPT ![own] = Append(@, m)]
    /\ newMessages' = Append(newMessages, m)

\* The loop appends a message to its list and to new_messages.
Record(m) ==
    /\ lists' = [lists EXCEPT ![loop] = Append(@, m)]
    /\ newMessages' = Append(newMessages, m)

\* _drain_queue.  Faults: it takes the newest message, or only one of all; it
\* clears the queue, or leaves it as it was.
Drained_Newest(q) == IF q = <<>> THEN <<>> ELSE <<q[Len(q)]>>
Drained_One(q)    == IF q = <<>> THEN <<>> ELSE <<Head(q)>>
Remaining_None(q) == <<>>
Remaining_All(q)  == q
Drained(q) ==
    IF q = <<>> THEN <<>> ELSE IF QueueMode = "all" THEN q ELSE <<Head(q)>>
Remaining(q) ==
    IF q = <<>> \/ QueueMode = "all" THEN <<>> ELSE Tail(q)

TurnsExhausted == MaxTurns # NoLimit /\ turn > MaxTurns

-----------------------------------------------------------------------------
Init ==
    /\ lists = [l \in {1, 2} |-> <<>>] /\ own = 1 /\ loop = 1
    /\ running = FALSE /\ signal = "none"
    /\ at = "idle" /\ turn = 1 /\ reply = NoReply
    /\ pending = <<>> /\ todo = <<>> /\ context = <<>> /\ newMessages = <<>>
    /\ steering = <<>> /\ followUp = <<>> /\ queued = {} /\ withdrawn = {}
    /\ runs = 0 /\ users = 0 /\ calls = 0
    /\ injected = <<>> /\ lost = {}

-----------------------------------------------------------------------------
(* Starting a run.  Every caller iterates the generator as soon as it has  *)
(* it, so prompt_message and the first step up to AgentStart are one step. *)

StartRun(prompts) ==
    /\ ~running
    /\ runs < MaxRuns
    /\ runs' = runs + 1
    /\ running' = TRUE
    /\ signal' = "live"
    /\ lists' = [lists EXCEPT ![own] = Repaired(@) \o prompts]
    /\ loop' = own
    /\ newMessages' = prompts
    /\ pending' = <<>>
    /\ turn' = 1
    /\ reply' = NoReply
    /\ todo' = <<>>
    /\ context' = <<>>
    /\ at' = "opening"
    /\ UNCHANGED <<own, queueVars, calls, history>>

Prompt ==
    /\ users < MaxUsers
    /\ users' = users + 1
    /\ StartRun(<<User(users + 1, "prompt")>>)

Continue ==
    /\ StartRun(<<>>)
    /\ UNCHANGED users

-----------------------------------------------------------------------------
(* The run. *)

\* The top of the inner loop once TurnStart has been handled, with `batch' the
\* drained messages still to inject: append the next one, or stop at the turn
\* limit, or call the provider.
Proceed(batch) ==
    \/ /\ batch # <<>>
       /\ Record(Head(batch))
       /\ injected' = Append(injected, Head(batch))
       /\ pending' = Tail(batch)
       /\ at' = "injecting"
       /\ UNCHANGED context
    \/ /\ batch = <<>>
       /\ TurnsExhausted
       /\ Record(ErrorMessage)
       /\ pending' = <<>>
       /\ at' = "agentEnd"
       /\ UNCHANGED <<context, injected>>
    \/ /\ batch = <<>>
       /\ ~TurnsExhausted
       /\ context' = ProviderContext(RunList)
       /\ pending' = <<>>
       /\ at' = "streaming"
       /\ UNCHANGED <<lists, newMessages, injected>>

\* After the opening events: the max_turns < 1 error, or the first steering
\* drain and the first turn.
FirstTurn ==
    /\ at = "opening"
    /\ IF MaxTurns # NoLimit /\ MaxTurns < 1
         THEN /\ Record(ErrorMessage)
              /\ at' = "agentEnd"
              /\ UNCHANGED <<steering, pending, context, injected>>
         ELSE /\ steering' = Remaining(steering)
              /\ Proceed(Drained(steering))
    /\ UNCHANGED <<own, loop, running, signal, turn, reply, todo, followUp,
                   queued, withdrawn, counters, lost>>

\* After the TurnStart of a later turn, or the events of an injected message.
NextStep ==
    /\ at \in {"turnStart", "injecting"}
    /\ Proceed(pending)
    /\ UNCHANGED <<own, loop, running, signal, turn, reply, todo, queueVars,
                   counters, lost>>

\* The batches of call ids a response may carry.
Batches ==
    IF CallIds = "fresh"
      THEN {[i \in 1..n |-> calls + i] :
                n \in {k \in 0..MaxBatch : calls + k <= MaxCalls}}
      ELSE {[i \in 1..n |-> i] : n \in 0..MaxBatch}

\* The stream ends: its last event, MessageEnd, is yielded before the message
\* is appended.
Respond ==
    /\ at = "streaming"
    /\ \E batch \in Batches, stop \in {"done", "failed"} :
          /\ reply' = Assistant(batch, stop)
          /\ calls' = IF CallIds = "fresh" THEN calls + Len(batch) ELSE calls
    /\ context' = <<>>
    /\ at' = "answered"
    /\ UNCHANGED <<lists, own, loop, running, signal, pending, turn, todo,
                   newMessages, queueVars, runs, users, history>>

\* The assistant message is appended; a failed one ends the run, its calls
\* unexecuted.
RecordReply ==
    /\ at = "answered"
    /\ Record(reply)
    /\ IF reply.stop = "failed"
         THEN /\ at' = "agentEnd"
              /\ todo' = <<>>
         ELSE /\ at' = IF reply.calls = <<>> THEN "turnEnd" ELSE "hook"
              /\ todo' = reply.calls
    /\ UNCHANGED <<own, loop, running, signal, pending, turn, reply, context,
                   queueVars, counters, history>>

\* The run moves on and changes nothing else.
Move(place) ==
    /\ at' = place
    /\ UNCHANGED <<lists, own, loop, running, signal, pending, turn, reply,
                   todo, context, newMessages, queueVars, counters, history>>

\* before_tool_call returns.  No tool runs when it blocks the call, when the
\* run was cancelled by then, or when the tool is unknown.
Refuse == at = "hook" /\ Move("returned")

Execute == at = "hook" /\ signal # "cancelled" /\ Move("executing")

\* The tool returns or raises; either way its result is yielded.
Return == at = "executing" /\ Move("returned")

\* The result is appended; the next call of the batch, or the end of the turn.
RecordResult ==
    /\ at = "returned"
    /\ Record(Result(Head(todo)))
    /\ todo' = Tail(todo)
    /\ at' = IF Tail(todo) = <<>> THEN "turnEnd" ELSE "hook"
    /\ UNCHANGED <<own, loop, running, signal, pending, turn, reply, context,
                   queueVars, counters, history>>

\* After TurnEnd: count the turn and drain steering; go on while there are
\* tools or steering; drain follow-ups only when the run would stop.
NextTurn ==
    /\ at = "turnEnd"
    /\ turn' = turn + 1
    /\ steering' = Remaining(steering)
    /\ IF reply.calls # <<>> \/ steering # <<>>
         THEN /\ pending' = Drained(steering)
              /\ at' = "turnStart"
              /\ UNCHANGED followUp
         ELSE /\ pending' = Drained(followUp)
              /\ followUp' = Remaining(followUp)
              /\ at' = IF followUp # <<>> THEN "turnStart" ELSE "agentEnd"
    /\ UNCHANGED <<lists, own, loop, running, signal, reply, todo, context,
                   newMessages, queued, withdrawn, counters, history>>

\* The harness gives the signal and the run up.
\* Faults: the signal outlives the run; a cancelled run stays running.
Release_KeepsSignal   == signal' = signal /\ running' = FALSE
Release_WhenCancelled == signal' = "none" /\ running' = (signal = "cancelled")
Release               == signal' = "none" /\ running' = FALSE

\* The finally block of _run.
Cleanup ==
    /\ lists' = IF signal = "cancelled"
                  THEN [lists EXCEPT ![own] = Repaired(@)] ELSE lists
    /\ Release
    /\ at' = "idle"
    /\ turn' = 1
    /\ reply' = NoReply
    /\ pending' = <<>> /\ todo' = <<>>
    /\ context' = <<>> /\ newMessages' = <<>>

\* The generator is exhausted.
Finish ==
    /\ at = "agentEnd"
    /\ Cleanup
    /\ UNCHANGED <<own, loop, queueVars, counters, history>>

\* The consumer is cancelled or closes the generator, or the provider, a hook
\* or a listener raises: the run unwinds from wherever it is suspended.
Unwind ==
    /\ running
    /\ Cleanup
    /\ lost' = lost \cup Ids(pending)
    /\ UNCHANGED <<own, loop, queueVars, counters, injected>>

-----------------------------------------------------------------------------
(* The rest of the process, between two resumptions of the run. *)

Cancel ==
    /\ signal = "live"
    /\ signal' = "cancelled"
    /\ UNCHANGED <<lists, own, loop, running, at, pending, turn, reply, todo,
                   context, newMessages, queueVars, counters, history>>

Steer ==
    /\ users < MaxUsers
    /\ users' = users + 1
    /\ steering' = Append(steering, User(users + 1, "steer"))
    /\ queued' = queued \cup {users + 1}
    /\ UNCHANGED <<lists, own, runVars, followUp, withdrawn, runs, calls,
                   history>>

FollowUp ==
    /\ users < MaxUsers
    /\ users' = users + 1
    /\ followUp' = Append(followUp, User(users + 1, "follow_up"))
    /\ queued' = queued \cup {users + 1}
    /\ UNCHANGED <<lists, own, runVars, steering, withdrawn, runs, calls,
                   history>>

AllButLast(s) == SubSeq(s, 1, Len(s) - 1)

PopLatestSteering ==
    /\ steering # <<>>
    /\ withdrawn' = withdrawn \cup {steering[Len(steering)].id}
    /\ steering' = AllButLast(steering)
    /\ UNCHANGED <<lists, own, runVars, followUp, queued, counters, history>>

PopLatestFollowUp ==
    /\ followUp # <<>>
    /\ withdrawn' = withdrawn \cup {followUp[Len(followUp)].id}
    /\ followUp' = AllButLast(followUp)
    /\ UNCHANGED <<lists, own, runVars, steering, queued, counters, history>>

ClearQueues ==
    /\ steering # <<>> \/ followUp # <<>>
    /\ withdrawn' = withdrawn \cup Ids(steering) \cup Ids(followUp)
    /\ steering' = <<>>
    /\ followUp' = <<>>
    /\ UNCHANGED <<lists, own, runVars, queued, counters, history>>

\* append_message: CodingSession.run_terminal_command adds a command's output.
AppendMessage ==
    /\ users < MaxUsers
    /\ users' = users + 1
    /\ lists' = [lists EXCEPT ![own] = Append(@, User(users + 1, "append"))]
    /\ UNCHANGED <<own, runVars, queueVars, runs, calls, history>>

\* replace_messages binds harness._messages to a NEW list; a suspended run
\* keeps the one it was given.  Callers pass an earlier state of the
\* transcript (a branch).
ReplaceMessages ==
    /\ \E n \in 0..Len(Transcript) - 1 :
          LET l == IF running /\ own = loop THEN 3 - own ELSE own
          IN  /\ own' = l
              /\ lists' = [lists EXCEPT ![l] = SubSeq(Transcript, 1, n)]
    /\ UNCHANGED <<runVars, queueVars, counters, history>>

-----------------------------------------------------------------------------
RunStep ==
    \/ FirstTurn
    \/ NextStep
    \/ Respond
    \/ RecordReply
    \/ Refuse
    \/ Execute
    \/ Return
    \/ RecordResult
    \/ NextTurn
    \/ Finish

Environment ==
    \/ Prompt
    \/ Continue
    \/ Unwind
    \/ Cancel
    \/ Steer
    \/ FollowUp
    \/ PopLatestSteering
    \/ PopLatestFollowUp
    \/ ClearQueues
    \/ AppendMessage
    \/ ReplaceMessages

Next == RunStep \/ Environment

Spec == Init /\ [][Next]_vars

\* The consumer keeps iterating, and providers, hooks and tools return.
FairSpec == Spec /\ WF_vars(RunStep)

-----------------------------------------------------------------------------
(* Properties. *)

CallId  == Nat
UserMsg == [kind : {"user"}, id : Nat,
            via : {"prompt", "steer", "follow_up", "append"}]
AssistantMsg == [kind : {"assistant"}, calls : Seq(CallId),
                 stop : {"done", "failed"}]
ResultMsg == [kind : {"result"}, call : CallId]
Message   == UserMsg \cup AssistantMsg \cup ResultMsg

\* The state has its type, and no run is suspended exactly when the harness is
\* not running and holds no cancellation signal.
TypeOK ==
    /\ lists \in [{1, 2} -> Seq(Message)]
    /\ own \in {1, 2} /\ loop \in {1, 2}
    /\ running \in BOOLEAN
    /\ signal \in {"none", "live", "cancelled"}
    /\ steering \in Seq(UserMsg) /\ followUp \in Seq(UserMsg)
    /\ at \in Places
    /\ pending \in Seq(UserMsg)
    /\ turn \in Nat
    /\ reply \in AssistantMsg
    /\ todo \in Seq(CallId)
    /\ context \in Seq(Message) /\ newMessages \in Seq(Message)
    /\ runs \in Nat /\ users \in Nat /\ calls \in Nat
    /\ injected \in Seq(UserMsg)
    /\ queued \subseteq Nat /\ withdrawn \subseteq Nat /\ lost \subseteq Nat
    /\ (at = "idle") <=> ~running
    /\ (signal = "none") <=> ~running

\* The calls of message i of s that no result answers before the next
\* assistant message.
Unanswered(s, i) ==
    {c \in CallsOf(s[i]) :
        ~ \E j \in DOMAIN s :
            /\ j > i
            /\ s[j] = Result(c)
            /\ \A k \in (i + 1)..j : s[k].kind # "assistant"}

\* Whatever was interrupted, replaced or appended before, every tool call in a
\* provider request is answered before the next assistant message: a provider
\* rejects a request with a dangling call (_append_interrupted_tool_results,
\* the tool loop, the append order of assistant and results).
ContextAnswered ==
    at = "streaming" => \A i \in DOMAIN context : Unanswered(context, i) = {}

\* No two results in s are of the same call.
AnsweredOnce(s) ==
    \A i \in DOMAIN s : s[i].kind = "result" =>
        \A j \in DOMAIN s :
            (i < j /\ s[j].kind = "result") => s[i].call # s[j].call

\* No request answers one tool call twice: a repair never answers a call that
\* the loop answered or will still answer.
ContextAnsweredOnce == at = "streaming" => AnsweredOnce(context)

\* In the sequence s, the messages that came in by way of `via' are in the
\* order they were created, each once.
InOrder(s, via) ==
    \A i, j \in DOMAIN s :
        (i < j /\ s[i].via = via /\ s[j].via = via) => s[i].id < s[j].id

\* Each queue is first-in first-out across runs, cancellations and partial
\* drains, and delivers nothing twice: what was injected, what is in hand and
\* what is still queued follow the order of queueing (_drain_queue,
\* pop_latest_*, clear_queues).
QueueOrder ==
    /\ InOrder(injected \o pending \o steering, "steer")
    /\ InOrder(injected \o pending \o followUp, "follow_up")

\* No queued message disappears: whatever was queued is still queued, in hand,
\* injected, taken back by the user, or was in hand of a run that was unwound.
NothingVanishes ==
    queued \subseteq Ids(steering \o followUp \o pending \o injected)
                     \cup withdrawn \cup lost

\* What the run itself put into a list: everything but appended messages.
ByRun(m)    == ~(m.kind = "user" /\ m.via = "append")
Recorded(s) == Picked(s, {i \in DOMAIN s : ByRun(s[i])})

\* AgentEndEvent reports what the run added to its list, all of it and in list
\* order, while others append to the list or replace the harness's own.
RunRecord ==
    at # "idle" => IsSuffix(newMessages, Recorded(RunList))

\* A cancelled run leaves no open tool call in the transcript, wherever it was
\* suspended when it ended (the finally block of _run).
CancelledRunRepaired ==
    [][running /\ ~running' /\ signal = "cancelled"
           => Open(lists'[own']) = {}]_vars

\* With a turn limit, every run ends: each turn is counted, and no provider
\* reply, steering or follow-up keeps it alive beyond the limit.
RunEnds == running ~> ~running

-----------------------------------------------------------------------------
(* The inductive invariant behind ContextAnswered, for fresh call ids. *)

AllAnswered(s) == \A i \in DOMAIN s : Unanswered(s, i) = {}

\* Only the last assistant message of a list may have unanswered calls.
AnsweredBut(s) ==
    \A k \in DOMAIN s : s[k].kind = "assistant" =>
        \A i \in DOMAIN s : i < k => Unanswered(s, i) = {}

\* A result follows every message that asks for its call.
ResultsFollow(s) ==
    \A j \in DOMAIN s : s[j].kind = "result" =>
        \A i \in DOMAIN s : s[j].call \in CallsOf(s[i]) => i < j

ListsOrdered ==
    \A l \in {1, 2} :
        /\ AnsweredBut(lists[l])
        /\ ResultsFollow(lists[l])
        /\ \A c \in Asked(lists[l]) \cup Returned(lists[l]) : c <= calls

\* What the suspended run still owes to its list.
RunOwes ==
    /\ at \in {"opening", "turnStart", "injecting", "streaming", "answered",
              "turnEnd"} => AllAnswered(RunList)
    /\ at = "streaming" => AllAnswered(context)
    /\ at = "answered" =>
          \A c \in Range(reply.calls) :
              c <= calls /\ \A l \in {1, 2} : c \notin Returned(lists[l])
    /\ at \in {"hook", "executing", "returned"} =>
          /\ todo # <<>>
          /\ \A i \in DOMAIN RunList : Unanswered(RunList, i) \subseteq Range(todo)
          /\ \A c \in Range(todo) : c <= calls

\* Fresh call ids keep every list and every request answered.
AnswerInv == TypeOK /\ ListsOrdered /\ RunOwes

-----------------------------------------------------------------------------
(* The inductive invariants behind the other properties. *)

\* A list never holds two results of one call, and the suspended run holds no
\* call that it would answer again.
OnceInv ==
    /\ \A l \in {1, 2} : AnsweredOnce(lists[l])
    /\ at = "streaming" => AnsweredOnce(context)
    /\ at = "answered" => IsInjective(reply.calls)
    /\ at \in {"hook", "executing", "returned"} =>
          IsInjective(todo) /\ Range(todo) \cap Returned(RunList) = {}

Vias(s) == {s[i].via : i \in DOMAIN s}

\* Where queued messages can be, and that no id is used before it is created.
QueueTypes ==
    /\ users \in Nat
    /\ steering \in Seq(UserMsg) /\ followUp \in Seq(UserMsg)
    /\ pending \in Seq(UserMsg) /\ injected \in Seq(UserMsg)
    /\ Vias(steering) \subseteq {"steer"} /\ Vias(followUp) \subseteq {"follow_up"}
    /\ Vias(pending) \subseteq {"steer", "follow_up"}
    /\ Ids(steering) \cup Ids(followUp) \cup Ids(pending) \cup Ids(injected)
         \subseteq 0..users
    /\ pending # <<>> => at \in {"turnStart", "injecting"}
    /\ at # "idle" => running

\* With QueueOrder, NothingVanishes and RunRecord, what TLAPS proves of every
\* reachable state, for fresh call ids (what concerns the queues: for any ids).
HarnessInv == AnswerInv /\ OnceInv /\ QueueTypes
=============================================================================
