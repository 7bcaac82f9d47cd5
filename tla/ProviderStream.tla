--------------------------- MODULE ProviderStream ---------------------------
(***************************************************************************)
(* One model response (tau_ai): an adapter posts a request, resends it     *)
(* after a transient failure, parses the chunks of the body into provider  *)
(* events, and canonicalize_provider_stream (stream.py) turns those into   *)
(* one sequence of assistant message events.                               *)
(*                                                                         *)
(* A fragment of text, thinking or arguments is named by the attempt and   *)
(* the place of the chunk that carried it.                                 *)
(***************************************************************************)
EXTENDS Naturals, Sequences, FiniteSets, SequencesExt

CONSTANTS
    Apis,           \* the adapters to examine
    Calls,          \* the output indices of tool calls, numbers
    None,
    MaxChunks, MaxRetries   \* bounds

VARIABLES
    api,        \* the adapter
    attempt,    \* attempt in _stream
    at,         \* connect, stream, wait (wait_for_retry), ended, raised
    sent,       \* the chunks of this attempt
    parser,     \* the parser of this attempt
    out,        \* canonicalize_provider_stream: its partial message and what it yielded
    cancelled   \* the signal

vars == <<api, attempt, at, sent, parser, out, cancelled>>

\* The chunks an adapter's service sends; what, once shown, forbids to resend
\* the request after a lost connection; and a credential_resolver that fails:
\* before the loop it raises, inside it becomes an error event.
Chat      == [sends |-> {"text", "thinking", "args", "finish", "stop", "bad"},
              counts |-> {"text", "thinking", "args"}, credentials |-> "raise"]
Responses == [sends |-> {"text", "thinking", "open", "args", "whole", "close", "stop", "fail", "bad"},
              counts |-> {"text", "thinking", "args"}, credentials |-> "raise"]
Anthropic == [sends |-> {"text", "thinking", "open", "args", "finish", "fail", "bad"},
              counts |-> {"text", "thinking", "open", "args"}, credentials |-> "raise"]
Google    == [sends |-> {"text", "thinking", "call", "finish", "bad"},
              counts |-> {"text", "thinking", "call"}, credentials |-> "none"]
Mistral   == [sends |-> {"text", "thinking", "args", "finish", "stop", "bad"},
              counts |-> {"text", "thinking", "args"}, credentials |-> "none"]
Codex     == [sends |-> {"text", "thinking", "open", "args", "whole", "close", "message", "stop", "fail", "bad"},
              counts |-> {"text", "call"}, credentials |-> "error"]

Adapter == [chat |-> Chat, responses |-> Responses, anthropic |-> Anthropic,
            google |-> Google, mistral |-> Mistral, codex |-> Codex][api]
-----------------------------------------------------------------------------
(* What the service sends. `more` says that a chunk names its call, that   *)
(* it carries the whole arguments, that a failure is transient, or that    *)
(* the response was cut short.                                             *)

Chunk == [k : Adapter.sends \cap {"open", "args", "whole", "close", "call"}, i : Calls, more : BOOLEAN]
    \cup [k : Adapter.sends \cap {"fail", "finish", "stop"}, i : {None}, more : BOOLEAN]
    \cup [k : Adapter.sends \cap {"text", "thinking", "message", "bad"}, i : {None}, more : {FALSE}]

Places(s, kinds, i) == {n \in DOMAIN s : s[n].k \in kinds /\ s[n].i = i}
Ascending(S) == SetToSortSeq(S, LAMBDA a, b : a < b)
First(S) == CHOOSE n \in S : \A k \in S : n <= k

\* The arguments of call i: in fragments, or else whole at its end.
Arguments(s, i) ==
    LET parts == Places(s, {"args", "call"}, i)
        whole == {n \in Places(s, {"whole", "close"}, i) : s[n].more}
        where == IF parts = {} /\ whole # {} THEN {First(whole)} ELSE parts
    IN  [n \in 1 .. Cardinality(where) |-> <<attempt, Ascending(where)[n]>>]

\* A call is opened, gets arguments and is closed, once each; its first chunk
\* may name it; a chunk of Codex that does not name its call is followed by the
\* whole arguments. A text that was streamed is repeated by the message.
MaySend(c) ==
    /\ c.k \in {"args", "whole", "close"} /\ "open" \in Adapter.sends =>
          Places(sent, {"open"}, c.i) # {} /\ Places(sent, {"close"}, c.i) = {}
    /\ c.k \in {"open", "whole", "call"} => Places(sent, {c.k}, c.i) = {}
    /\ c.k = "args" => Places(sent, {"whole"}, c.i) = {}
    /\ c.k = "args" /\ api \in {"chat", "mistral"} /\ c.more => Places(sent, {"args"}, c.i) = {}
    /\ c.k = "close" /\ ~c.more => \A n \in Places(sent, {"args"}, c.i) : sent[n].more
    /\ c.more => ~(c.k = "args" /\ api \in {"anthropic", "responses"}) /\ ~(c.k = "open" /\ api # "anthropic")
    /\ c.k = "fail" /\ api # "codex" => ~c.more
    /\ c.k = "text" => Places(sent, {"message"}, None) = {}
    /\ c.k = "message" => Places(sent, {"message"}, None) = {}
-----------------------------------------------------------------------------
(* The parsers: [tools: the builders by index, shown: the kinds of content *)
(* yielded or collected, cut]. Each feed returns the parser, the provider  *)
(* events, and whether to read on, to finish or to end without finishing.  *)

Fresh == [tools |-> <<>>, shown |-> {}, cut |-> FALSE]
Fed(p, events, next) == [p |-> p, events |-> events, next |-> next]
Shown(p, k) == [p EXCEPT !.shown = @ \cup {k}]

NewBuilder == [named |-> FALSE, parts |-> <<>>, final |-> None]
Builder(p, i) == IF i \in DOMAIN p.tools THEN p.tools[i] ELSE NewBuilder
Put(p, i, b) == [p EXCEPT !.tools = [j \in {i} \cup DOMAIN p.tools |-> IF j = i THEN b ELSE p.tools[j]]]

Here(s) == <<attempt, Len(s)>>
Delta(p, s, c) == Fed(Shown(p, c.k), <<[k |-> c.k, at |-> Here(s)]>>, "more")
Ignored(p) == Fed(p, <<>>, "more")
Failure == [k |-> "error"]
CallOf(i, place, b) == [k |-> "call", i |-> i, id |-> IF b.named THEN <<"id", i>> ELSE <<"tool-call", place>>,
                        args |-> IF b.final # None THEN b.final ELSE b.parts]

\* Fault: a delta goes to the builder that was opened last.
ChatBuilt_Last(p, s, c) ==
    LET i == IF DOMAIN p.tools = {} THEN c.i ELSE CHOOSE j \in DOMAIN p.tools : \A k \in DOMAIN p.tools : k <= j
        b == Builder(p, i)
    IN  Put(p, i, [b EXCEPT !.named = @ \/ c.more, !.parts = Append(@, Here(s))])

\* _ToolCallBuilder.add_delta
ChatBuilt(p, s, c) ==
    LET b == Builder(p, c.i)
    IN  Put(p, c.i, [b EXCEPT !.named = @ \/ c.more, !.parts = Append(@, Here(s))])

ChatFeed(p, s, c) ==
    CASE c.k \in {"text", "thinking"} -> Delta(p, s, c)
      [] c.k = "args"   -> Ignored(Shown(ChatBuilt(p, s, c), "args"))
      [] c.k = "finish" -> Ignored([p EXCEPT !.cut = c.more])
      [] c.k = "stop"   -> Fed(p, <<>>, "finish")
      [] c.k = "bad"    -> Fed(p, <<Failure>>, "over")

MistralBuilt(p, s, c) ==
    LET b == Builder(p, c.i)
    IN  Put(p, c.i, [b EXCEPT !.named = @ \/ c.more, !.parts = Append(@, Here(s))])

MistralFeed(p, s, c) ==
    CASE c.k \in {"text", "thinking"} -> Delta(p, s, c)
      [] c.k = "args"   -> Ignored(Shown(MistralBuilt(p, s, c), "args"))
      [] c.k = "finish" -> Ignored([p EXCEPT !.cut = c.more])
      [] c.k = "stop"   -> Fed(p, <<>>, "finish")
      [] c.k = "bad"    -> Ignored(p)

\* set_final and add_arguments_delta
ResponsesBuilt(p, s, c) ==
    LET b == [Builder(p, c.i) EXCEPT !.named = @ \/ c.k # "args"]
    IN  CASE c.k = "open" -> b
          [] c.k = "args" -> [b EXCEPT !.parts = Append(@, Here(s))]
          [] OTHER        -> IF c.more THEN [b EXCEPT !.final = Arguments(s, c.i)] ELSE b

ResponsesFeed(p, s, c) ==
    CASE c.k \in {"text", "thinking"} -> Delta(p, s, c)
      [] c.k = "args" -> Ignored(Shown(Put(p, c.i, ResponsesBuilt(p, s, c)), "args"))
      [] c.k \in {"open", "whole", "close"} -> Ignored(Put(p, c.i, ResponsesBuilt(p, s, c)))
      [] c.k = "stop" -> Fed([p EXCEPT !.cut = c.more], <<>>, "finish")
      [] c.k = "fail" -> Fed(p, <<Failure>>, "over")
      [] c.k = "bad"  -> Ignored(p)

AnthropicFeed(p, s, c) ==
    LET b == Builder(p, c.i)
    IN  CASE c.k \in {"text", "thinking"} -> Delta(p, s, c)
          [] c.k = "open"   -> Ignored(Shown(Put(p, c.i, [b EXCEPT !.named = c.more]), "open"))
          [] c.k = "args"   -> Ignored(Shown(Put(p, c.i, [b EXCEPT !.parts = Append(@, Here(s))]), "args"))
          [] c.k = "finish" -> Ignored([p EXCEPT !.cut = c.more])
          [] c.k \in {"fail", "bad"} -> Fed(p, <<Failure>>, "over")

\* A call of Gemini comes whole and is yielded at once; its place numbers it.
GoogleFeed(p, s, c) ==
    LET b == [named |-> c.more, parts |-> <<Here(s)>>, final |-> None]
    IN  CASE c.k \in {"text", "thinking"} -> Delta(p, s, c)
          [] c.k = "call"   -> Fed(Shown(Put(p, c.i, b), "call"), <<CallOf(c.i, Cardinality(DOMAIN p.tools), b)>>, "more")
          [] c.k = "finish" -> Ignored([p EXCEPT !.cut = c.more])
          [] c.k = "bad"    -> Ignored(p)

\* _tool_builder_for_event: by name, or the only one that is open. tools holds
\* the tracked builders.
CodexTarget(p, c) ==
    IF c.more \/ c.k \in {"whole", "close"} THEN {c.i} \cap DOMAIN p.tools
    ELSE IF Cardinality(DOMAIN p.tools) = 1 THEN DOMAIN p.tools ELSE {}

CodexAdded(p, s, c) ==
    LET T == CodexTarget(p, c)
    IN  [p EXCEPT !.tools = [j \in DOMAIN @ |-> IF j \in T THEN [@[j] EXCEPT !.parts = Append(@, Here(s))] ELSE @[j]]]

\* set_arguments replaces the fragments.
CodexWhole(p, s, c) ==
    LET b == Builder(p, c.i)
    IN  [b EXCEPT !.named = TRUE, !.parts = IF c.more THEN Arguments(s, c.i) ELSE @]

Untracked(p, i) == [p EXCEPT !.tools = [j \in DOMAIN @ \ {i} |-> @[j]]]

CodexFeed(p, s, c) ==
    CASE c.k \in {"text", "thinking"} -> Delta(p, s, c)
      [] c.k = "open"    -> Ignored(Put(p, c.i, [NewBuilder EXCEPT !.named = TRUE]))
      [] c.k = "args"    -> Ignored(CodexAdded(p, s, c))
      [] c.k = "whole"   -> Ignored(Put(p, c.i, CodexWhole(p, s, c)))
      [] c.k = "close"   -> Fed(Shown(Untracked(p, c.i), "call"), <<CallOf(c.i, 0, CodexWhole(p, s, c))>>, "more")
      [] c.k = "message" -> IF "text" \in p.shown THEN Ignored(p)
                            ELSE Fed(Shown(p, "text"), <<[k |-> "text", at |-> Here(s)]>>, "more")
      [] c.k = "stop"    -> Fed([p EXCEPT !.cut = c.more], <<>>, "finish")
      [] c.k = "fail"    -> Fed(p, <<Failure>>, "over")
      [] c.k = "bad"     -> Ignored(p)

Feed(p, s, c) ==
    CASE api = "chat"      -> ChatFeed(p, s, c)
      [] api = "responses" -> ResponsesFeed(p, s, c)
      [] api = "anthropic" -> AnthropicFeed(p, s, c)
      [] api = "google"    -> GoogleFeed(p, s, c)
      [] api = "mistral"   -> MistralFeed(p, s, c)
      [] api = "codex"     -> CodexFeed(p, s, c)

\* finalize: the collected calls by index, then the end of the response.
Finalized(p) ==
    LET built == Ascending(DOMAIN p.tools)
        place(n) == IF api = "responses" THEN n - 1 ELSE built[n]
        calls == IF api \in {"google", "codex"} THEN <<>>
                 ELSE [n \in DOMAIN built |-> CallOf(built[n], place(n), p.tools[built[n]])]
    IN  Append(calls, [k |-> "end", cut |-> p.cut])
-----------------------------------------------------------------------------
(* canonicalize_provider_stream.                                           *)

Silent == [content |-> <<>>, active |-> None, log |-> <<>>, end |-> None]
Logged(o, e, n) == [o EXCEPT !.log = Append(@, <<e, n>>)]

\* Fault: the block stays open.
EndActive_Not(o) == o

\* _end_active_block
EndActive(o) == IF o.active = None THEN o ELSE Logged([o EXCEPT !.active = None], "block_end", o.active)

\* A delta continues the open block of its kind, or ends it and opens another.
Extended(o, e) ==
    LET same == o.active # None /\ o.content[o.active].k = e.k
        q    == EndActive(o)
        n    == Len(q.content) + 1
        r    == IF same THEN o
                ELSE Logged([q EXCEPT !.content = Append(@, [k |-> e.k, parts |-> <<>>]), !.active = n],
                            "block_start", n)
    IN  Logged([r EXCEPT !.content[r.active].parts = Append(@, e.at)], "delta", r.active)

Called(o, e) ==
    LET q == EndActive(o)
        n == Len(q.content) + 1
    IN  Logged(Logged([q EXCEPT !.content = Append(@, e)], "call_start", n), "call_end", n)

\* _finish_reason
Reason(o, e) ==
    IF \E n \in DOMAIN o.content : o.content[n].k = "call" THEN "toolUse"
    ELSE IF e.cut THEN "length" ELSE "stop"

Completed(o, e) == LET q == EndActive(o) IN Logged([q EXCEPT !.end = Reason(o, e)], "done", 0)
Failed(o) == Logged([o EXCEPT !.end = "error"], "error", 0)

Canonical(o, e) ==
    LET q == IF o.log = <<>> THEN Logged(o, "start", 0) ELSE o
    IN  CASE e.k = "start" -> q
          [] e.k \in {"text", "thinking"} -> Extended(q, e)
          [] e.k = "call"  -> Called(q, e)
          [] e.k = "end"   -> Completed(q, e)
          [] e.k = "error" -> Failed(q)

Yielded(events) == FoldLeft(Canonical, out, events)

\* The stream of the adapter is over: an error unless it said how it ended.
Ended(o) == LET q == IF o.log = <<>> THEN Logged(o, "start", 0) ELSE o
            IN  IF q.end = None THEN Failed(q) ELSE q
-----------------------------------------------------------------------------
Init ==
    /\ api \in Apis
    /\ attempt = 0 /\ at = "connect"
    /\ sent = <<>> /\ parser = Fresh
    /\ out = Silent /\ cancelled = FALSE

\* A retry event, then the backoff.
Retry ==
    /\ at' = "wait" /\ attempt' = attempt + 1
    /\ sent' = <<>> /\ parser' = Fresh
    /\ UNCHANGED out

End(events) == at' = "ended" /\ out' = Ended(Yielded(events)) /\ UNCHANGED attempt

CanRetry == attempt < MaxRetries

\* An error status. "quota": a 429 that only Codex knows not to pass.
Refused(status) ==
    /\ at = "connect"
    /\ IF CanRetry /\ status \in {"transient"} \cup (IF api = "codex" THEN {} ELSE {"quota"})
       THEN Retry
       ELSE End(<<Failure>>) /\ UNCHANGED <<sent, parser>>
    /\ UNCHANGED <<api, cancelled>>

CredentialsFail ==
    /\ at = "connect" /\ Adapter.credentials # "none"
    /\ IF Adapter.credentials = "error" THEN End(<<Failure>>)
       ELSE attempt = 0 /\ at' = "raised" /\ UNCHANGED <<attempt, out>>
    /\ UNCHANGED <<api, sent, parser, cancelled>>

Opened ==
    /\ at = "connect"
    /\ at' = "stream" /\ out' = Yielded(<<[k |-> "start"]>>)
    /\ UNCHANGED <<api, attempt, sent, parser, cancelled>>

\* Fault: a lost connection is always resent.
Resendable_Always == CanRetry

\* Nothing that counts as content was shown.
Resendable == CanRetry /\ parser.shown \cap Adapter.counts = {}

\* httpx.HTTPError
Lost ==
    /\ at \in {"connect", "stream"}
    /\ IF Resendable THEN Retry ELSE End(<<Failure>>) /\ UNCHANGED <<sent, parser>>
    /\ UNCHANGED <<api, cancelled>>

\* Codex resends after a transient failure in the stream, if nothing was shown.
ResendsFailure(c) ==
    /\ api = "codex" /\ c.k = "fail" /\ c.more
    /\ CanRetry /\ parser.shown \cap {"text", "thinking", "call"} = {}

Receive(c) ==
    /\ at = "stream" /\ ~cancelled /\ Len(sent) < MaxChunks /\ MaySend(c)
    /\ LET s == Append(sent, c)
           r == Feed(parser, s, c)
       IN  IF ResendsFailure(c) THEN Retry
           ELSE /\ sent' = s /\ parser' = r.p
                /\ CASE r.next = "more"   -> out' = Yielded(r.events) /\ UNCHANGED <<at, attempt>>
                     [] r.next = "finish" -> End(r.events \o Finalized(r.p))
                     [] r.next = "over"   -> End(r.events)
    /\ UNCHANGED <<api, cancelled>>

\* The next line finds the signal set.
NoticeCancel ==
    /\ at = "stream" /\ cancelled
    /\ End(<<>>)
    /\ UNCHANGED <<api, sent, parser, cancelled>>

\* The body ends; a response that is cut off cleanly passes as complete.
BodyEnds ==
    /\ at = "stream"
    /\ End(Finalized(parser))
    /\ UNCHANGED <<api, sent, parser, cancelled>>

\* wait_for_retry
Resume ==
    /\ at = "wait"
    /\ IF cancelled THEN End(<<>>) ELSE at' = "connect" /\ UNCHANGED <<attempt, out>>
    /\ UNCHANGED <<api, sent, parser, cancelled>>

Cancel ==
    /\ ~cancelled /\ at \notin {"ended", "raised"}
    /\ cancelled' = TRUE
    /\ UNCHANGED <<api, attempt, at, sent, parser, out>>

Next ==
    \/ \E status \in {"transient", "quota", "terminal"} : Refused(status)
    \/ CredentialsFail \/ Opened \/ Lost
    \/ \E c \in Chunk : Receive(c)
    \/ NoticeCancel \/ BodyEnds \/ Resume \/ Cancel

Spec == Init /\ [][Next]_vars
-----------------------------------------------------------------------------
TypeOK ==
    /\ api \in Apis /\ attempt \in 0 .. MaxRetries
    /\ at \in {"connect", "stream", "wait", "ended", "raised"}
    /\ Len(sent) <= MaxChunks
    /\ DOMAIN parser.tools \subseteq Calls
    /\ \A n \in DOMAIN out.content : out.content[n].k \in {"text", "thinking", "call"}
    /\ out.end \in {None, "error", "stop", "length", "toolUse"}

Events(e) == {n \in DOMAIN out.log : out.log[n][1] = e}

\* The events are well formed, over all attempts (stream.py:84-208): one start,
\* first; blocks begin in order and each one ends before the next begins and
\* before the message is done; at the end one terminal event, and it is last.
StreamWellFormed ==
    /\ Events("start") = DOMAIN out.log \cap {1}
    /\ \A n \in Events("block_start") : \A k \in Events("block_start") \cup Events("call_start") \cup Events("done") :
          n < k => \E m \in n .. k : out.log[m] = <<"block_end", out.log[n][2]>>
    /\ \A n \in Events("delta") :
          /\ \E k \in 1 .. n : out.log[k] = <<"block_start", out.log[n][2]>>
          /\ \A k \in 1 .. n : out.log[k] # <<"block_end", out.log[n][2]>>
    /\ Events("done") \cup Events("error") \subseteq {Len(out.log)}
    /\ at = "ended" => out.end # None

FragmentsOf(block) ==
    IF block.k = "call" THEN ToSet(block.args) ELSE ToSet(block.parts)

\* What was shown of a response is of one attempt: a request is not resent
\* after content was shown (the retry guards of every adapter). Codex shows
\* thinking and resends all the same.
OneAttempt ==
    \A n \in DOMAIN out.content :
        (out.content[n].k = "thinking" /\ api = "codex") \/
        \A f \in FragmentsOf(out.content[n]) : f[1] = attempt

Shows == {n \in DOMAIN sent :
            \/ sent[n].k \in {"text", "thinking"}
            \/ sent[n].k = "message" /\ \A m \in 1 .. n - 1 : sent[m].k # "text"}
Made == {i \in Calls : Places(sent, IF api = "codex" THEN {"close"} ELSE {"open", "args", "call"}, i) # {}}

\* A completed message is what the service sent (the feed and finalize of the
\* parsers): text and thinking in the order they came, every call once, with
\* its own arguments in their order although calls interleave, under an id of
\* its own; and its reason says whether tools run and whether it was cut.
AsSent ==
    out.end \in {"stop", "length", "toolUse"} =>
        LET parts == FlattenSeq([n \in 1 .. Len(out.content) |->
                        IF out.content[n].k = "call" THEN <<>> ELSE out.content[n].parts])
            shown == SelectSeq(parts, LAMBDA f : f[1] = attempt)
            calls == {n \in DOMAIN out.content : out.content[n].k = "call"}
        IN  /\ [n \in DOMAIN shown |-> shown[n][2]] = Ascending(Shows)
            /\ {out.content[n].i : n \in calls} = Made
            /\ \A n \in calls : out.content[n].args = Arguments(sent, out.content[n].i)
            /\ \A n, m \in calls : n # m => out.content[n].i # out.content[m].i /\ out.content[n].id # out.content[m].id
            /\ out.end = IF Made # {} THEN "toolUse" ELSE IF parser.cut THEN "length" ELSE "stop"
=============================================================================
