---------------------------- MODULE ContextBudget ----------------------------
(***************************************************************************)
(* How a session keeps its context within the window of the model          *)
(* (context_window.py, session.py, model_limits.py): the cached estimate,  *)
(* the limits discovered for a model, the threshold, the plan that keeps a *)
(* recent suffix, and summaries that build on the summary before. What is  *)
(* persisted is CodingSession's subject; here the context alone counts.    *)
(***************************************************************************)
EXTENDS Naturals, Sequences, SequencesExt, FiniteSetsExt

CONSTANTS
    Windows,        \* The configured context window of each model.
    Live,           \* The limits a provider may report for a model.
    Reserve,        \* DEFAULT_COMPACTION_RESERVE_TOKENS.
    Keep,           \* DEFAULT_COMPACTION_KEEP_RECENT_TOKENS.
    Sizes,          \* The tokens a row may have.
    ToolSizes,      \* The tokens the tool definitions may have.
    MaxSaid         \* Bound on the messages of a behaviour.

Models == DOMAIN Windows
Kinds == {"user", "assistant", "toolResult"}

VARIABLES
    rows,           \* The context: [kind, size, facts]; a summary is a user row.
    said,           \* History: the number of messages; message n says fact n.
    system, tools,  \* Tokens of the prompt and of the tool definitions.
    cache,          \* _context_usage_cache: [own, tools], or <<>>.
    model,
    key,            \* The model the limits were asked for, <<model>> or <<>>.
    limits,         \* What the provider reported: [model, limit], or <<>>.
    asked,          \* The model the pending request is about.
    at,             \* Where the prompt under way stands.
    unsaved         \* The loop has appended a message not yet persisted.

vars == <<rows, said, system, tools, cache, model, key, limits, asked, at, unsaved>>

Row == [kind : Kinds, size : Nat, facts : SUBSET (1 .. MaxSaid), summary : BOOLEAN]

TypeOK ==
    /\ rows \in Seq(Row) /\ said \in 0 .. MaxSaid
    /\ system \in {1, 2} /\ tools \in ToolSizes
    /\ cache \in {<<>>} \cup [own : Nat, tools : ToolSizes]
    /\ model \in Models /\ asked \in Models /\ key \in {<<>>} \cup {<<m>> : m \in Models}
    /\ limits \in {<<>>} \cup [model : Models, limit : Live]
    /\ at \in {"idle", "discovering", "deciding", "summarizing", "running", "settling", "closing"}
    /\ unsaved \in BOOLEAN

Init ==
    /\ rows = <<>> /\ said = 0 /\ system = 1 /\ tools \in ToolSizes /\ cache = <<>>
    /\ model \in Models /\ asked = model /\ key = <<>> /\ limits = <<>>
    /\ at = "idle" /\ unsaved = FALSE

Tokens(s) == FoldSeq(LAMBDA row, sum : row.size + sum, 0, s)
Own == system + Tokens(rows)

\* The estimate a reader gets: the cached one, or a new one, which is kept.
Usage == IF cache = <<>> THEN [own |-> Own, tools |-> tools] ELSE cache

Look ==
    /\ cache' = Usage /\ cache' # cache
    /\ UNCHANGED <<rows, said, system, tools, model, key, limits, asked, at, unsaved>>

\* Fault: limits count whichever model they were asked for.
Known_Any == limits # <<>>

\* The limits are those of the active model.
Known == key = <<model>> /\ limits # <<>>

\* The estimate above which a session compacts by itself.
Threshold ==
    IF Known THEN limits.limit
    ELSE IF Windows[model] > Reserve THEN Windows[model] - Reserve ELSE 1

\* Fault: the oldest row that has Keep tokens after it.
Recent_Oldest(s) ==
    IF \E i \in 1 .. Len(s) : Tokens(SubSeq(s, i, Len(s))) >= Keep THEN 1 ELSE 0

\* Where the newest rows of at least Keep tokens begin, 0 when there are fewer.
Recent(s) ==
    Max({0} \cup {i \in 1 .. Len(s) : Tokens(SubSeq(s, i, Len(s))) >= Keep})

\* The first row a compaction keeps; 1 means there is nothing to replace. The
\* kept part begins with a user row if there is one, never with a tool result.
FirstKept(s) ==
    LET c == Recent(s)
        users(from) == {i \in from .. Len(s) : s[i].kind = "user"}
    IN IF c = 0 THEN 1
       ELSE IF s[c].kind = "user"
            THEN IF c > 1 THEN c ELSE IF users(2) # {} THEN Min(users(2)) ELSE 1
       ELSE IF users(c + 1) # {} THEN Min(users(c + 1))
       ELSE Min({i \in c .. Len(s) : s[i].kind # "toolResult"} \cup {Len(s) + 1})

\* Fault: the summary before is taken off the messages and not shown.
Shown_New(s) == UNION {s[i].facts : i \in {j \in 1 .. Len(s) : j > 1 \/ ~s[j].summary}}

\* What the request for a summary shows: a summary in front as the previous
\* summary to update, the other rows as the conversation.
Shown(s) ==
    UNION {s[i].facts : i \in {j \in 1 .. Len(s) : j > 1 \/ ~s[j].summary}}
        \cup (IF s # <<>> /\ s[1].summary THEN s[1].facts ELSE {})

\* External: a summary of one token that says what it was shown.
Summary(s) == [kind |-> "user", size |-> 1, facts |-> Shown(s), summary |-> TRUE]

\* A prompt is accepted. Limits are asked for once for a model, also when the
\* request was cancelled or failed.
Ask ==
    /\ at = "idle" /\ said < MaxSaid
    /\ IF key = <<model>> THEN at' = "deciding" /\ UNCHANGED <<key, limits, asked>>
       ELSE at' = "discovering" /\ key' = <<model>> /\ limits' = <<>> /\ asked' = model
    /\ UNCHANGED <<rows, said, system, tools, cache, model, unsaved>>

\* The provider answers, has no limits for the model, or fails.
Discovered(limit) ==
    /\ at = "discovering"
    /\ limits' = IF limit = 0 THEN limits ELSE [model |-> asked, limit |-> limit]
    /\ at' = "deciding"
    /\ UNCHANGED <<rows, said, system, tools, cache, model, key, asked, unsaved>>

\* The prompt is cancelled while the provider has not answered.
CancelDiscovery ==
    /\ at = "discovering" /\ at' = "idle"
    /\ UNCHANGED <<rows, said, system, tools, cache, model, key, limits, asked, unsaved>>

\* Another model is chosen: no run may be active, a discovery may.
SwitchModel(m) ==
    /\ at \in {"idle", "discovering"} /\ m # model
    /\ model' = m /\ key' = <<>> /\ limits' = <<>>
    /\ UNCHANGED <<rows, said, system, tools, cache, asked, at, unsaved>>

Over == Usage.own + Usage.tools > Threshold
After(phase) == IF phase = "deciding" THEN "running" ELSE "idle"

\* Before a prompt and after a run: compact when the estimate is over the
\* threshold and there is something to replace.
Decide ==
    /\ at \in {"deciding", "settling"}
    /\ cache' = IF Len(rows) < 2 THEN cache ELSE Usage
    /\ at' = IF Len(rows) >= 2 /\ Over /\ FirstKept(rows) > 1
             THEN IF at = "deciding" THEN "summarizing" ELSE "closing"
             ELSE After(at)
    /\ UNCHANGED <<rows, said, system, tools, model, key, limits, asked, unsaved>>

Compacted(k) == <<Summary(SubSeq(rows, 1, k - 1))>> \o SubSeq(rows, k, Len(rows))

\* The summary arrives and replaces the older rows, or the request fails and
\* the context stays.
Summarize(ok) ==
    /\ at \in {"summarizing", "closing"}
    /\ IF ok THEN rows' = Compacted(FirstKept(rows)) /\ cache' = <<>>
       ELSE UNCHANGED <<rows, cache>>
    /\ at' = IF at = "summarizing" THEN "running" ELSE "idle"
    /\ UNCHANGED <<said, system, tools, model, key, limits, asked, unsaved>>

\* /compact replaces the whole context.
Compact ==
    /\ at = "idle" /\ rows # <<>>
    /\ rows' = Compacted(Len(rows) + 1) /\ cache' = <<>>
    /\ UNCHANGED <<said, system, tools, model, key, limits, asked, at, unsaved>>

Message(kind, size) ==
    [kind |-> kind, size |-> size, facts |-> {said + 1}, summary |-> FALSE]

\* The loop appends a message; its end reaches the session in a step of its own.
Say(kind, size) ==
    /\ at = "running" /\ ~unsaved /\ said < MaxSaid
    /\ rows' = Append(rows, Message(kind, size)) /\ said' = said + 1 /\ unsaved' = TRUE
    /\ UNCHANGED <<system, tools, cache, model, key, limits, asked, at>>

\* Fault: what was counted stays in the cache.
Dirty_Kept == cache

\* A message that was persisted makes the estimate stale.
Dirty == <<>>

Persist ==
    /\ at = "running" /\ unsaved
    /\ unsaved' = FALSE /\ cache' = Dirty
    /\ UNCHANGED <<rows, said, system, tools, model, key, limits, asked, at>>

Finish ==
    /\ at = "running" /\ ~unsaved /\ at' = "settling"
    /\ UNCHANGED <<rows, said, system, tools, cache, model, key, limits, asked, unsaved>>

\* A terminal command whose output goes into the context.
TerminalCommand(size) ==
    /\ at = "idle" /\ said < MaxSaid
    /\ rows' = Append(rows, Message("user", size)) /\ said' = said + 1 /\ cache' = Dirty
    /\ UNCHANGED <<system, tools, model, key, limits, asked, at, unsaved>>

\* /reload: the prompt is rebuilt when what it is made of changed, the names of
\* the tools among it, not when a tool of the same name is described otherwise.
Reload(toolSize, rebuilt) ==
    /\ at = "idle" /\ tools' = toolSize
    /\ IF rebuilt THEN system' \in {1, 2} /\ cache' = <<>>
       ELSE UNCHANGED <<system, cache>>
    /\ UNCHANGED <<rows, said, model, key, limits, asked, at, unsaved>>

Next ==
    \/ Look \/ Ask \/ CancelDiscovery \/ Decide \/ Compact \/ Persist \/ Finish
    \/ \E limit \in Live \cup {0} : Discovered(limit)
    \/ \E m \in Models : SwitchModel(m)
    \/ \E ok \in BOOLEAN : Summarize(ok)
    \/ \E kind \in Kinds, size \in Sizes : Say(kind, size)
    \/ \E size \in Sizes : TerminalCommand(size)
    \/ \E size \in ToolSizes, rebuilt \in BOOLEAN : Reload(size, rebuilt)

Spec == Init /\ [][Next]_vars
-----------------------------------------------------------------------------
\* Whatever a user or the model said is in the context, as a row or in a
\* summary, after any number of compactions.
FactsKept == UNION {rows[i].facts : i \in 1 .. Len(rows)} = 1 .. said

\* When a session decides whether to compact, it counts the messages and the
\* prompt as they are, whoever looked at the estimate in between.
EstimateCurrent ==
    at \in {"deciding", "settling"} /\ cache # <<>> => cache.own = Own

\* A threshold that a provider reported is applied to its own model only, also
\* when another model is chosen while the provider is asked.
LimitsOfModel == at \in {"deciding", "settling"} /\ Known => limits.model = model

\* An automatic compaction leaves fewer than Keep tokens and one row of the
\* conversation, and tool results only after the call they answer.
RecentBounded ==
    [][\A ok \in BOOLEAN : Summarize(ok) /\ rows' # rows =>
        LET kept == Tail(rows')
        IN kept = <<>> \/ (Tokens(Tail(kept)) < Keep /\ kept[1].kind # "toolResult")]_vars
=============================================================================
