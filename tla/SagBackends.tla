----------------------------- MODULE SagBackends -----------------------------
(***************************************************************************)
(* The knowledge services behind data questions (tau_coding/dataquery:     *)
(* backends/sag.py, backends/sag_agent.py, planner.py and what service.py  *)
(* makes of a planner's answer): an MCP client that initializes once and   *)
(* keeps direct answers as evidence, and a planner whose request races a   *)
(* watcher of the run's signal and whose transcript has a byte budget.     *)
(* The services are external: any answer is possible.                      *)
(***************************************************************************)
EXTENDS Integers, Sequences, FiniteSetsExt, SequencesExt

CONSTANTS
    Texts,       \* what the service may answer in plain text
    Chunks,      \* the chunks it knows
    Others,      \* what _hit_id makes of a hit without a chunk id: a document, a URI, a hash
    Transcripts, \* what planner_transcript_max_bytes may be configured to, in some unit
    DefaultTranscript,
    Answer, Snippet, Title, Request, Repair, Citations,  \* the other limits
    AnswerSizes, SnippetSizes  \* what the planner may send

VARIABLES
    limit,      \* planner_transcript_max_bytes
    knowledge,  \* the MCP client: its calls, _initialized, _direct_answers
    evidence,   \* what searches returned and may be read
    outcome,    \* the last reply of the MCP client
    asking,     \* the coroutine of plan
    request,    \* its request task: none, running, cancelling, ended
    watcher,    \* its watcher: none, running, fired, ended
    signalled,
    turn        \* the conversation and what the last turn returned

mcpVars  == <<limit, knowledge, evidence, outcome>>
taskVars == <<asking, request, watcher, signalled>>
vars     == <<mcpVars, taskVars, turn>>

Unopened == [at |-> "idle", initialized |-> FALSE, answers |-> {}, wants |-> "none"]
NoTurn   == [attempt |-> 0, asked |-> 0, kept |-> <<>>, pending |-> FALSE, shown |-> 0,
             refused |-> "no", usable |-> 0]

Init ==
    /\ limit \in Transcripts
    /\ knowledge = Unopened /\ evidence = {} /\ outcome = "none"
    /\ asking = "idle" /\ request = "none" /\ watcher = "none" /\ signalled = FALSE
    /\ turn = NoTurn
-----------------------------------------------------------------------------
(* The MCP client.                                                         *)

\* search and read go through _ensure_initialized and _call, unless a direct
\* answer is read.
Call(wants) ==
    /\ knowledge.at = "idle"
    /\ IF wants \in knowledge.answers
       THEN outcome' = wants /\ UNCHANGED knowledge
       ELSE /\ knowledge' = [knowledge EXCEPT !.wants = wants, !.at =
                                IF knowledge.initialized THEN "calling" ELSE "initializing"]
            /\ outcome' = "none"
    /\ UNCHANGED <<limit, evidence, taskVars, turn>>

Initialize(ok) ==
    /\ knowledge.at = "initializing"
    /\ knowledge' = [knowledge EXCEPT !.initialized = ok, !.at = IF ok THEN "calling" ELSE "idle"]
    /\ outcome' = IF ok THEN "none" ELSE "failed"
    /\ UNCHANGED <<limit, evidence, taskVars, turn>>

\* Fault: a direct answer is returned and not kept.
Remembered_Not(t) == {}

\* _direct_answers, by a digest of the text
Remembered(t) == {t}

\* Hits are evidence, by whatever they have for an id; text without hits is
\* evidence of its own.
Found(hits, t) ==
    /\ knowledge.at = "calling" /\ knowledge.wants = "search"
    /\ hits # {} \/ t # "none"
    /\ evidence' = evidence \cup (IF hits # {} THEN hits ELSE {t})
    /\ knowledge' = [knowledge EXCEPT !.at = "idle", !.answers =
                         @ \cup (IF hits = {} THEN Remembered(t) ELSE {})]
    /\ outcome' = "found"
    /\ UNCHANGED <<limit, taskVars, turn>>

\* The read tool knows the chunks and nothing else.
ReadChunk ==
    /\ knowledge.at = "calling" /\ knowledge.wants # "search"
    /\ knowledge' = [knowledge EXCEPT !.at = "idle"]
    /\ outcome' = IF knowledge.wants \in Chunks THEN knowledge.wants ELSE "unknown"
    /\ UNCHANGED <<limit, evidence, taskVars, turn>>

\* An HTTP or RPC error, a timeout or invalid JSON; a cancelled task.
CallFails ==
    /\ knowledge.at # "idle"
    /\ knowledge' = [knowledge EXCEPT !.at = "idle"] /\ outcome' = "failed"
    /\ UNCHANGED <<limit, evidence, taskVars, turn>>

\* session_shutdown; a session that loads has clients and evidence of its own.
Close ==
    /\ knowledge.at = "idle" /\ asking = "idle"
    /\ knowledge' = Unopened /\ evidence' = {} /\ outcome' = "none"
    /\ turn' = NoTurn
    /\ UNCHANGED <<limit, taskVars>>
-----------------------------------------------------------------------------
(* The transcript of the planner.                                          *)

Total(sizes) == FoldLeft(LAMBDA n, m : n + m, 0, sizes)
Messages(size) == Append(turn.kept, size)
Reserve == Min({Answer + Snippet, Max({1, limit \div 2})})

\* The first question, or a correction that a rejected query has paid for.
MayAsk(size) ==
    \/ turn.kept = <<>> /\ size \in 1 .. Request
    \/ turn.pending /\ turn.attempt < 3 /\ size \in 1 .. Repair

Ask(size) ==
    /\ asking = "idle" /\ MayAsk(size)
    /\ turn' = [turn EXCEPT !.asked = size,
                            !.usable = 0,
                            !.refused = IF Total(Messages(size)) + Reserve > limit THEN "before" ELSE "no"]
    /\ IF turn'.refused = "before" THEN UNCHANGED <<asking, request, watcher>>
       ELSE /\ asking' = IF signalled THEN "raising" ELSE "waiting"
            /\ request' = IF signalled THEN "cancelling" ELSE "running"
            /\ watcher' = IF signalled THEN "none" ELSE "running"
    /\ UNCHANGED <<mcpVars, signalled>>

\* Fault: the answer may take all that is left.
CitationReserve_None(rest) == 0

CitationReserve(rest) == Min({Snippet, Max({1, rest \div 2})})

\* Fault: the answer is kept as it came.
AnswerSize_Raw(a, rest) == a

AnswerSize(a, rest) == Min({a, Answer, rest - CitationReserve(rest)})

\* Fault: titles are not charged.
Charged_Snippet(size, rest) == size

Charged(size, rest) == size + Min({Title, rest - size})

\* What plan accepts, and where its first usable citation stands.
NotBlank(n) == n > 0
Usable(a, snippets) == a > 0 /\ \E i \in DOMAIN snippets : NotBlank(snippets[i])
FirstUsable(snippets) == Min({i \in DOMAIN snippets : NotBlank(snippets[i])})

\* Snippets until nothing is left, each with its title.
Cite(acc, s) ==
    LET size == Min({s, Snippet, acc.rest})
    IN  IF size = 0 THEN acc
        ELSE [cited |-> acc.cited + 1, rest |-> acc.rest - Charged(size, acc.rest),
              shown |-> acc.shown + size + Min({Title, acc.rest - size})]

\* A planner's answer of a bytes with snippets of these sizes: the list is cut
\* before its blank snippets are dropped. The exchange, which is shown as well,
\* takes what is left.
Planned(a, snippets) ==
    LET sent   == Total(Messages(turn.asked))
        rest   == limit - sent
        answer == AnswerSize(a, rest)
        cites  == FoldLeft(Cite, [cited |-> 0, rest |-> rest - answer, shown |-> 0],
                           SelectSeq(SubSeq(snippets, 1, Min({Citations, Len(snippets)})), NotBlank))
        traced == Min({Request + Answer, cites.rest})
    IN  IF answer = 0 \/ cites.cited = 0 THEN [turn EXCEPT !.refused = "after", !.asked = 0, !.usable = FirstUsable(snippets)]
        ELSE [attempt |-> turn.attempt + 1, pending |-> FALSE, refused |-> "no", usable |-> 0, asked |-> 0,
              kept    |-> IF turn.kept = <<>> THEN <<turn.asked, answer>> ELSE <<turn.kept[1], answer>>,
              shown   |-> sent + answer + cites.shown + traced]

\* A plan of the last answer is rejected by the database.
Rejected ==
    /\ asking = "idle" /\ turn.kept # <<>> /\ ~turn.pending
    /\ turn' = [turn EXCEPT !.pending = TRUE]
    /\ UNCHANGED <<mcpVars, taskVars>>
-----------------------------------------------------------------------------
(* The request of the planner and its watcher.                             *)

Signal ==
    /\ ~signalled /\ signalled' = TRUE
    /\ UNCHANGED <<mcpVars, asking, request, watcher, turn>>

\* The watcher looks every 50 ms.
Fire ==
    /\ watcher = "running" /\ signalled
    /\ watcher' = "fired"
    /\ UNCHANGED <<mcpVars, asking, request, signalled, turn>>

\* The response arrives or fails; a cancelled request unwinds.
RequestEnds(end) ==
    /\ \/ request = "running" /\ end \in {"answered", "failed"}
       \/ request = "cancelling" /\ end = "cancelled"
    /\ request' = end
    /\ UNCHANGED <<mcpVars, asking, watcher, signalled, turn>>

Stop == IF request = "running" THEN "cancelling" ELSE request

\* asyncio.wait returns: the watcher goes before the response.
Woken ==
    /\ asking = "waiting" /\ (watcher = "fired" \/ request \in {"answered", "failed"})
    /\ IF watcher = "fired" THEN asking' = "raising" /\ request' = Stop
       ELSE asking' = "leaving" /\ UNCHANGED request
    /\ UNCHANGED <<mcpVars, watcher, signalled, turn>>

\* The task is cancelled while it waits.
Cancelled ==
    /\ asking = "waiting"
    /\ asking' = "raising" /\ request' = Stop
    /\ UNCHANGED <<mcpVars, watcher, signalled, turn>>

\* Fault: the caller does not wait for the request it cancelled.
Unwound_Now == TRUE

Unwound == request \notin {"running", "cancelling"}

\* The finally clause ends the watcher; then the answer is used, or an error
\* goes up and the conversation stays as it was.
Leave(a, snippets) ==
    /\ \/ asking = "leaving"
       \/ asking = "raising" /\ Unwound
    /\ asking' = "idle"
    /\ watcher' = "none"
    /\ request' = IF request \in {"running", "cancelling"} THEN request ELSE "none"
    /\ turn' = IF asking = "leaving" /\ request = "answered" /\ Usable(a, snippets) THEN Planned(a, snippets)
               ELSE [turn EXCEPT !.asked = 0]
    /\ UNCHANGED <<mcpVars, signalled>>

\* A new run has a signal, and a conversation, of its own.
NextRun ==
    /\ asking = "idle" /\ knowledge.at = "idle"
    /\ signalled' = FALSE /\ turn' = NoTurn /\ evidence' = {}
    /\ UNCHANGED <<limit, knowledge, outcome, asking, request, watcher>>

\* Searches and reads, as in a session with planning mode "legacy"; and the planner,
\* as in one with mode "agent". They share the start of a run and the shutdown alone.
KnowledgeNext ==
    \/ Call("search") \/ \E e \in evidence : Call(e)
    \/ \E ok \in BOOLEAN : Initialize(ok)
    \/ \E hits \in SUBSET (Chunks \cup Others), t \in Texts \cup {"none"} : Found(hits, t)
    \/ ReadChunk \/ CallFails \/ Close \/ NextRun

PlannerNext ==
    \/ \E size \in 1 .. Max({Request, Repair}) : Ask(size)
    \/ Rejected \/ Signal \/ Fire \/ Woken \/ Cancelled \/ Close \/ NextRun
    \/ \E end \in {"answered", "failed", "cancelled"} : RequestEnds(end)
    \/ \E a \in AnswerSizes, snippets \in SeqOf(SnippetSizes, Citations + 1) : Leave(a, snippets)

Next == KnowledgeNext \/ PlannerNext

Spec == Init /\ [][Next]_vars
-----------------------------------------------------------------------------
(* Properties.                                                             *)

\* The types of the variables.
TypeOK ==
    /\ knowledge.at \in {"idle", "initializing", "calling"} /\ knowledge.answers \subseteq Texts
    /\ evidence \subseteq Chunks \cup Texts \cup Others
    /\ asking \in {"idle", "waiting", "raising", "leaving"}
    /\ turn.attempt \in 0 .. 3 /\ Len(turn.kept) \in {0, 2}

\* An answer without hits can be read as the text it was, in later runs and
\* after a handshake that failed, and the server is never asked for it: of what
\* a search of the run listed, only a hit without a chunk id is unknown to it.
EvidenceReads == outcome = "unknown" => knowledge.wants \in Others

\* Whoever leaves plan, by an answer, an error or a cancellation at any wait,
\* leaves no request behind.
NothingLeft == asking = "idle" => request = "none" /\ watcher = "none"

\* Messages, answer, citations and exchange of a turn stay within the
\* transcript's limit ...
TranscriptFits == turn.shown <= limit

\* ... and the room that is checked before the request suffices: an answer the
\* planner gave is refused only if the citations within the limit are all blank,
\* the usable one behind them being cut off first.
AnswersKept == turn.refused = "after" => turn.usable > Citations

\* With the default limits a correction that was earned can be asked.
CorrectionsFit == limit = DefaultTranscript => turn.refused # "before"
=============================================================================
