-------------------------- MODULE ProviderRequest --------------------------
(***************************************************************************)
(* How each adapter of tau_ai turns the transcript into the items of a     *)
(* request: text_and_images (content.py) and the message conversions of    *)
(* the adapters. The transcript grows as the harness lets it: the calls of *)
(* an assistant message are answered, in their order, before anything else.*)
(*                                                                         *)
(* An item is a role and parts; a part is <<kind, message>> or             *)
(* <<"call" or "result", message, call>>.                                  *)
(***************************************************************************)
EXTENDS Naturals, Sequences, FiniteSets, SequencesExt

CONSTANTS MaxMessages   \* bound

VARIABLES
    history,    \* the transcript
    vision,     \* supports_images
    nests       \* _supports_multimodal_function_response

vars == <<history, vision, nests>>

\* signed: the signature of a thinking block is a reasoning item (or names a
\* field of a chat message).
UserMessage   == [role : {"user"}, text : BOOLEAN, image : BOOLEAN] \ [role : {"user"}, text : {FALSE}, image : {FALSE}]
CustomMessage == [role : {"custom"}, text : {TRUE}, image : {FALSE}]
Assistant     == [role : {"assistant"}, thinks : BOOLEAN, signed : BOOLEAN, text : BOOLEAN, calls : 0 .. 2]
ToolResult    == [role : {"result"}, of : Nat \X (1 .. 2), text : BOOLEAN, image : BOOLEAN]

\* The calls of the last assistant message that have no result yet.
Asked(h) == {n \in DOMAIN h : h[n].role = "assistant"}
Unanswered(h) ==
    IF Asked(h) = {} THEN 0
    ELSE LET n == CHOOSE n \in Asked(h) : \A k \in Asked(h) : k <= n
         IN  h[n].calls - Cardinality({k \in n + 1 .. Len(h) : h[k].role = "result"})

NextCall(h) ==
    LET n == CHOOSE n \in Asked(h) : \A k \in Asked(h) : k <= n
    IN  <<n, h[n].calls - Unanswered(h) + 1>>
-----------------------------------------------------------------------------
Flag(b, part) == IF b THEN <<part>> ELSE <<>>
Item(role, parts) == <<[role |-> role, parts |-> parts]>>

\* text_and_images: without vision a placeholder stands for the images.
Text(n)    == Flag(history[n].text \/ (history[n].image /\ ~vision), <<"text", n>>)
Images(n)  == Flag(history[n].image /\ vision, <<"image", n>>)
Visible(n) == Text(n) \o Images(n)

CallParts(n)  == [c \in 1 .. history[n].calls |-> <<"call", n, c>>]
ResultPart(n) == <<"result", history[n].of[1], history[n].of[2]>>

\* OpenAI chat completions: images of results wait until all results are there.
ChatAssistant(n) ==
    LET m == history[n]
    IN  Item("assistant", Flag(m.thinks /\ ~m.signed, <<"thinking", n>>) \o Flag(m.text, <<"text", n>>) \o CallParts(n))

\* Fault: the images of a result follow it at once.
ChatFlushed_Always(r, n) ==
    IF r.images = <<>> THEN r ELSE [items |-> r.items \o Item("user", r.images), images |-> <<>>]

ChatFlushed(r, n) ==
    IF r.images = <<>> \/ history[n].role = "result" THEN r
    ELSE [items |-> r.items \o Item("user", r.images), images |-> <<>>]

ChatStep(r, n) ==
    LET q == ChatFlushed(r, n)
        role == history[n].role
    IN  CASE role = "result"    -> [items |-> q.items \o Item("tool", <<ResultPart(n)>>), images |-> q.images \o Images(n)]
          [] role = "assistant" -> [q EXCEPT !.items = @ \o ChatAssistant(n)]
          [] OTHER              -> [q EXCEPT !.items = @ \o Item("user", Visible(n))]

\* Fault: images of the last results are forgotten.
ChatItems_NoTail(h) == FoldLeft(ChatStep, [items |-> <<>>, images |-> <<>>], [n \in DOMAIN h |-> n]).items

ChatItems(h) ==
    LET r == FoldLeft(ChatStep, [items |-> <<>>, images |-> <<>>], [n \in DOMAIN h |-> n])
    IN  IF r.images = <<>> THEN r.items ELSE r.items \o Item("user", r.images)

\* Mistral: the same, and thinking always goes along.
MistralStep(r, n) ==
    LET m == history[n]
        q == IF r.images = <<>> \/ m.role = "result" THEN r
             ELSE [items |-> r.items \o Item("user", r.images), images |-> <<>>]
    IN  CASE m.role = "result" -> [items |-> q.items \o Item("tool", <<ResultPart(n)>>), images |-> q.images \o Images(n)]
          [] m.role = "assistant" ->
                [q EXCEPT !.items = @ \o Item("assistant",
                    Flag(m.text, <<"text", n>>) \o Flag(m.thinks, <<"thinking", n>>) \o CallParts(n))]
          [] OTHER -> [q EXCEPT !.items = @ \o Item("user", Visible(n))]

MistralItems(h) ==
    LET r == FoldLeft(MistralStep, [items |-> <<>>, images |-> <<>>], [n \in DOMAIN h |-> n])
    IN  IF r.images = <<>> THEN r.items ELSE r.items \o Item("user", r.images)

\* OpenAI Responses: an item for every reasoning item, text, call and result.
\* Nothing stands for a custom message.
ResponsesItems(n) ==
    LET m == history[n]
    IN  CASE m.role = "user"      -> Item("user", Visible(n))
          [] m.role = "result"    -> Item("output", <<ResultPart(n)>> \o Images(n))
          [] m.role = "assistant" ->
                (IF m.thinks /\ m.signed THEN Item("reasoning", <<<<"thinking", n>>>>) ELSE <<>>)
                \o (IF m.text THEN Item("assistant", <<<<"text", n>>>>) ELSE <<>>)
                \o [c \in 1 .. m.calls |-> Item("call", <<<<"call", n, c>>>>)[1]]
          [] m.role = "custom"    -> <<>>

\* Codex: the same kinds of items; a text names its place among the texts.
CodexItems(n) ==
    LET m == history[n]
    IN  CASE m.role = "user"   -> Item("user", Visible(n))
          [] m.role = "custom" -> <<>>
          [] m.role = "result" -> Item("output", <<ResultPart(n)>> \o Images(n))
          [] OTHER ->
                LET thinking == IF m.thinks /\ m.signed THEN Item("reasoning", <<<<"thinking", n>>>>) ELSE <<>>
                    text     == IF m.text THEN Item("assistant", <<<<"text", n>>>>) ELSE <<>>
                    calls    == [c \in 1 .. m.calls |-> [role |-> "call", parts |-> <<CallParts(n)[c]>>]]
                IN  thinking \o text \o calls

\* Anthropic: one item for every message, blocks in their order.
AnthropicItems(n) ==
    LET m == history[n]
    IN  CASE m.role = "assistant" ->
                Item("assistant", Flag(m.thinks, <<"thinking", n>>) \o Flag(m.text, <<"text", n>>) \o CallParts(n))
          [] m.role = "result" -> Item("user", <<ResultPart(n)>> \o Images(n))
          [] OTHER -> Item("user", Visible(n))

\* Gemini: models that cannot nest images in a response get them in an item after it.
GoogleItems(n) ==
    LET m == history[n]
    IN  CASE m.role = "assistant" ->
                Item("model", Flag(m.thinks, <<"thinking", n>>) \o Flag(m.text, <<"text", n>>) \o CallParts(n))
          [] m.role = "result" ->
                IF nests THEN Item("user", <<ResultPart(n)>> \o Images(n))
                ELSE Item("user", <<ResultPart(n)>>) \o (IF Images(n) = <<>> THEN <<>> ELSE Item("user", Images(n)))
          [] OTHER -> Item("user", Visible(n))

Adapters == {"chat", "mistral", "responses", "codex", "anthropic", "google"}

Payload(api) ==
    LET each(F(_)) == FlattenSeq([n \in DOMAIN history |-> F(n)])
    IN  CASE api = "chat"      -> ChatItems(history)
          [] api = "mistral"   -> MistralItems(history)
          [] api = "responses" -> each(ResponsesItems)
          [] api = "codex"     -> each(CodexItems)
          [] api = "anthropic" -> each(AnthropicItems)
          [] api = "google"    -> each(GoogleItems)
-----------------------------------------------------------------------------
Init == history = <<>> /\ vision \in BOOLEAN /\ nests \in BOOLEAN

Say(m) ==
    /\ Len(history) < MaxMessages
    /\ Unanswered(history) = 0
    /\ m.role = "assistant" => history # <<>> /\ history[Len(history)].role # "assistant" /\ (m.text \/ m.calls > 0)
    /\ history' = Append(history, m)
    /\ UNCHANGED <<vision, nests>>

Answer(text, image) ==
    /\ Len(history) < MaxMessages
    /\ Unanswered(history) > 0
    /\ history' = Append(history, [role |-> "result", of |-> NextCall(history), text |-> text, image |-> image])
    /\ UNCHANGED <<vision, nests>>

Next ==
    \/ \E m \in UserMessage \cup CustomMessage \cup Assistant : Say(m)
    \/ \E text, image \in BOOLEAN : Answer(text, image)

Spec == Init /\ [][Next]_vars
-----------------------------------------------------------------------------
TypeOK == Len(history) <= MaxMessages /\ vision \in BOOLEAN /\ nests \in BOOLEAN

\* What a request must carry of message n, however it is laid out.
Needed(n) ==
    LET m == history[n]
    IN  CASE m.role = "assistant" -> ToSet(Flag(m.text, <<"text", n>>) \o CallParts(n))
          [] m.role = "result"    -> ToSet(<<ResultPart(n)>> \o Images(n))
          [] OTHER                -> ToSet(Visible(n))

Custom == {n \in DOMAIN history : history[n].role = "custom"}
AllParts(items) == FlattenSeq([k \in DOMAIN items |-> items[k].parts])
Occurrences(parts, p) == {k \in DOMAIN parts : parts[k] = p}

\* A request carries the whole conversation (the conversions of every adapter):
\* every text, image, call and result once, and, images of results apart, in
\* the order of the transcript. Custom messages are the matter of
\* CustomMessagesSent.
ConversationSent ==
    Unanswered(history) = 0 =>
    \A api \in Adapters :
        LET parts == AllParts(Payload(api))
            said(k) == parts[k][1] # "image"
        IN  /\ \A n \in DOMAIN history \ Custom : \A p \in Needed(n) : Cardinality(Occurrences(parts, p)) = 1
            /\ \A j, k \in DOMAIN parts : j < k /\ said(j) /\ said(k) => parts[j][2] <= parts[k][2]

\* A service takes a result only next to its call: between an item with calls
\* and the results of these there are only calls and results (Gemini, which
\* does not ask for it, also gets images there).
ResultsFollowCalls ==
    Unanswered(history) = 0 =>
    \A api \in Adapters :
        LET items == Payload(api)
            has(k, kinds) == \E p \in ToSet(items[k].parts) : p[1] \in kinds
        IN  \A j \in DOMAIN items : \A p \in ToSet(items[j].parts) :
                p[1] = "result" =>
                \E i \in 1 .. j - 1 :
                    /\ <<"call", p[2], p[3]>> \in ToSet(items[i].parts)
                    /\ \A k \in i + 1 .. j - 1 : has(k, {"call", "result"} \cup (IF api = "google" THEN {"image"} ELSE {}))

\* A custom message of an extension still enters the model's context
\* (website/content/guides/extensions.md on send_custom_message). The Responses
\* and Codex conversions leave it out.
CustomMessagesSent ==
    Unanswered(history) = 0 =>
    \A api \in Adapters : \A n \in Custom :
        Occurrences(AllParts(Payload(api)), <<"text", n>>) # {}
=============================================================================
