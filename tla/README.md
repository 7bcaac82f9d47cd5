# A TLA+ development for Tau

Tau is a coding agent in Python: a provider layer (`src/src/tau_ai`), the agent
loop and its sessions (`src/src/tau_agent`), and the application
(`src/src/tau_coding`: the terminal frontend, a web runtime, extensions, data
queries). This directory holds TLA+ modules translated from that source, TLC
configurations that check them on small instances, and TLAPS proofs. Paths below
are relative to `src/src`.

    tlc  -workers 2 -config Session.cfg MCSession
    tlapm AgentHarness_proofs.tla

## 1. Inventory

Everything in Tau runs on one asyncio event loop per process. There are few data
races (database calls run in threads); what is hard is what happens between two
awaits of one coroutine: cancels, queued messages, browsers leaving, deletions,
tasks that are cancelled, a process that dies. Two processes may share the files
under `~/.tau`.

| Component | State | Operations | Hard behaviour | Correct when |
|---|---|---|---|---|
| Agent harness and loop (`tau_agent/harness.py`, `loop.py`) | transcript, two queues, running flag, cancellation signal, the suspended run | prompt, continue, steer, follow up, pop, clear, cancel, append, replace | a run suspended at any yield while the rest is called; cancellation; unwinding; call ids that repeat | every provider request is well-formed; queued messages arrive once, in order, or are accounted for; runs end |
| Session entries, tree, storage (`tau_agent/session`) | an append-only JSONL file | append, replay a path, compact rows | torn writes, entries that refer to others | a replay is defined for every file that can exist |
| Coding session (`tau_coding/session.py`) | the file, the transcript, `_last_parent_id`, `persisted_count` | prompt, continue, compact, branch, terminal command, load, other entries | messages are written while the run yields; compaction awaits a model; crash between entries; task cancelled before the last write | what a restart finds is what the session holds |
| Context budget (`context_window.py`, `session.py`) | cached estimate, discovered limits, threshold | estimate, discover, compact, switch the model | limits arrive for a model that is no longer in use, an estimate read between an append and its persistence | decisions rest on the whole context and the model in use |
| Web session (`tau_coding/web.py`) | per session a slot: handle, run task, subscribers, pending authorizations | submit, cancel, respond, subscribe, unsubscribe, delete | requests, the run task, browsers and timeouts interleave at every await | one run at a time, denials hold, runs are reported finished |
| Web trace (`web.py`) | ring buffer, trace file, subscriber queues | publish, backfill, compact, resync | overflow, reconnection, restart | no silent gap, a replay is the newest tail |
| Web host (`web.py`) | slots, index records, loads under way | create, configure, prompt, delete, shut down | two first requests load one session, a failure half-way, a thread that gives up | index and session agree |
| Data query (`dataquery/service.py`, `ledger.py`, `extension.py`) | run scope, evidence, bundles, plans, budget | search, read, prepare, execute, run start and end | cancelled runs that leave their state behind, late failures of older plans | nothing of one run is used in another, corrections and reads are bounded |
| Data backends (`dataquery/backends`, `config.py`) | a connection and its threads, a planner transcript, settings in three layers | query, interrupt, search, plan, save settings | an abandoned call shares the connection with the next; a byte budget that several parts share | read-only, no query outlives its error, limits hold |
| Extension runtime (`extensions/runtime.py`, `api.py`) | generation, registrations, hooks, bound session | load, reload, hook chains, views | setup that fails half-way, code of an old generation | hooks fail closed, old generations are inert |
| Resources (`skills.py`, `prompt_templates.py`, `context.py`, `extensions/loader.py`) | what was read, the system prompt | load, reload | files change meanwhile, a reload that fails | precedence, nothing is dropped silently |
| Session index (`session_manager.py`) | index files | upsert, touch, delete, list | several files, a deletion cut short | the files behave as one map |
| Terminal: prompts (`tui/app.py`) | workers, prompt queue, optimistic rows | submit, queue, recall, escape, compact, switch | exclusive workers that cancel each other | nothing typed is lost, shown twice or in two places |
| Terminal: transcript (`tui/adapter.py`, `state.py`) | rows, buffer of deltas | apply events, load messages | rows cut off from a remembered position | live and restored views agree |
| Terminal: window of the transcript (`tui/widgets.py`) | mounted rows, window, follow mode, a page to come | append, stream, settle, refresh, page, toggle thinking | a reader scrolls, pages and toggles while rows stream in | a stretch of the items is mounted, none missing or twice |
| Terminal: widgets, pickers, logins (`tui/app.py`) | intended and mounted widgets, highlights, login screens | set, replace, clear, filter, select, branch, log in | widgets leave later than asked; keys overtake messages | what was highlighted or typed is what is taken |
| Provider adapters, transport (`tau_ai`) | stream accumulators, attempts | translate transcript and chunks, retry | fragments that interleave, broken streams, retries after output | one well-formed answer, requests carry the whole transcript |
| Credentials (`credentials.py`, `oauth*.py`, `provider_runtime.py`) | the stored credential, a login | refresh, log in, log out, poll | two refreshes, a login beside a refresh | what is stored can be refreshed |
| Provider settings (`provider_config.py`, `catalog_loader.py`) | catalog, preferences, session's choice | choose, save, remove | writes that fail half-way, two processes | client, session and settings name one provider |
| Tools (`tools.py`, `image_processing.py`) | a file, a process group, an image | read, write, edit, bash | overlapping edits, children that hold the pipe | pages cover the file, edits are exact, nothing is left running |
| Start (`update_check.py`, `updater.py`) | state file, cache | notes, check, update | a cache that hides a release | each release and its notes are announced once |

Interaction: a frontend (terminal or web) calls `CodingSession.prompt`, which
drives `AgentHarness.prompt_message`, which drives `run_agent_loop`; events flow
back through the same generators, and the session writes entries as they pass.
The harness asks the host before a tool runs (`before_tool_call`), which in the
web runtime waits for a browser. Extensions listen to the harness and hook the
prompt and the tools. `PROJECT.json` lists every component with its status, and
under `hazards` each place where the code is hard to test.

## 2. Modules

| Module | Models | Lines up with the code like this |
|---|---|---|
| `AgentHarness` | `harness.py`, `loop.py` | `lists`/`own`/`loop` are the list objects: `replace_messages` binds a new one while a suspended run appends to its own. `at` names the yield where the run is suspended. Each method is an action; each stretch of the loop between two yields is an action. |
| `AgentHarness_proofs`, `CodingSession_proofs`, `SessionOrder_proofs`, `WebRuntime_proofs`, `WebTrace_proofs`, `SessionIndex_proofs`, `DataQuery_proofs` | theorems (those of `LoginScreens` are in the module itself) | section 5 |
| `SessionTree` | `tau_agent/session` and the pure helpers of `session.py` | entries are records with a parent position; `Compacted`, `CutAt`, `Recovered` are the replay, the cut of a compaction and the repair on load |
| `SavedTranscript` | the abstract promise | memory grows, the store follows it, rewrites happen only when both agree, a restart keeps what was stored |
| `CodingSession` | `session.py`: everything that writes | `file`, `live`, `lastParent`, `count` (`persisted_count`), `at`; a burst of synchronous writes is one action, except that the process may die between two entries (`Store`) |
| `ContextBudget` | `context_window.py`, limits, compaction plans | `rows` are messages and summaries with sizes, `cache` the cached estimate, `limits` what is known of models, `asked` the model a discovery awaits |
| `WebRuntime` | `web.py`: one session's slot | `at[o]` is the await at which a request or the run task is suspended; an action is what happens up to the next await |
| `WebTrace` | `web.py`: how events reach the browsers and the trace file | `buffer`, `lines` and the queues are the slot's deque, the JSONL file and the subscribers' queues; the writes that fail or tear are variants |
| `WebHost` | `web.py`: requests above the slots | `co` holds the coroutine of each request, `web` the index records, slots and handles, `host` whether the server is closing; a step ends where a coroutine really suspends |
| `DataQuery` | `dataquery/service.py`, `ledger.py`, `extension.py` | `run` is the ledger's scope, `tool` the tool call at its await |
| `DataQueryConfig` | `config.py`, setup in `extension.py` | environment over file over defaults, field by field; a session loads with or without the data tools |
| `QueryBackend` | `backends/dws.py`, `base.py` | each call is a coroutine and a thread; the driver's transaction state is external |
| `SagBackends` | `backends/sag.py`, `sag_agent.py`, budget of `service.py` | the client's handshake, the request that races a watcher, the bytes of the transcript |
| `ExtensionRuntime` | `extensions/runtime.py`, `api.py`, parts of `session.py` | API objects with their generation, who owns what, the hook chain of one call over the live list |
| `SessionResources` | skills, templates, context, discovery, reload | `disk` is what the directories hold, `session` what was taken from them, `read` a reload under way |
| `SessionIndex`, `SessionCatalog` | `session_manager.py`, and its abstract map | a set of records per file; `Catalogued` is the refinement mapping |
| `ProviderStream` | the adapters' streaming loops, `retry.py`, `stream.py` | one attempt, its chunks and the blocks made of them, per API |
| `ProviderRequest` | the adapters' message conversion | a transcript as the harness lets it grow, and the items of each API |
| `Credentials`, `DeviceLogin` | `credentials.py`, `provider_runtime.py`, `oauth.py`, `oauth_anthropic.py`; `oauth_device.py` | families of tokens; requests and logins suspended where they await |
| `ProviderSettings` | `provider_config.py`, `catalog_loader.py`, choices in `session.py` | catalog, preferences and keys as three stores, written one after the other |
| `Truncation`, `FileTools` (text and images), `BashTool` | `tools.py`, `image_processing.py` | text is a sequence of characters; a command is the tool's await, the shell, its children and the pipe |
| `TuiPrompts`, `TuiView`, `TuiComponents` | `tui/app.py`, `adapter.py`, `state.py` | workers and their group; rows and the positions remembered; intent, lock and what the screen still has |
| `TranscriptWindow` | `TranscriptView` of `tui/widgets.py` | `view` is the rows, `_window_start`, `_window_end` and what streams; `spot` is where the reader is, `due` the scrolls after layout, `shift` a page to come |
| `TuiPickers`, `TreePicker`, `LoginScreens` | the screens of `tui/app.py` | the field, the message it posts and the keys that act before it; the worker of Ctrl+T; the login behind its screen |
| `ReleaseNotes`, `UpdateCheck` | `update_check.py`, `updater.py`, `cli.py` | the state file, and the daily cache |
| `MC…` | instances for TLC | section 3 |

`CodingSession` instantiates `SavedTranscript` (`SavesTranscript` is its
specification under the mapping up/memory/stored, with memory empty while the
process is down and `lossy` set while the task of a run was cancelled since the
last load), and `SessionIndex` instantiates `SessionCatalog`.
`CodingSession` models the run loop again at the grain the session sees (what a
`MessageEnd` delivers and what is in the list at that moment) instead of
composing with `AgentHarness`: the composition would multiply two state spaces to
no new effect. `WebRuntime` takes from the two what it needs: a prompt passes
`hooks`, `preparing`, `running`, `settling`, and only `running` holds a signal.
`TuiPrompts` has the harness's queues and running flag beside the workers.

Definitions named `X_Something` beside `X`, marked "Fault", are what a plausible
bug would make of `X`. No specification uses them; `PROJECT.json` says which
property each one breaks.

## 3. What TLC checks

Components that share no state do not gain from being interleaved, so one run
holds several of them: `which` is chosen at the start and says whose steps a
behaviour takes; the rest keeps its initial state. The state space is the sum of
the parts, every part is checked under the bounds given for it in the MC module,
and a property of such a run is the conjunction of the properties the component's
module states and comments one by one.

| Run | Holds | Properties |
|---|---|---|
| `transcript` | `AgentHarness` twice: queues drained whole (two turns, two runs, batches of two calls) and one message at a time | requests are well-formed (`ContextAnswered`, `ContextAnsweredOnce`), a run reports what it recorded (`RunRecord`), queues keep order (`QueueOrder`) and lose only what `lost` says (`NothingVanishes`), a cancelled run leaves no open call (`CancelledRunRepaired`); the inductive invariant of the proofs (`HarnessInv`) |
| `liveness` | `WebRuntime` with two submissions and two authorizations, and `AgentHarness` with a turn limit | a denied tool never runs and no question is left without a browser (`AuthorizationsHold`), one run at a time (`OneRun`), a cancelled run is not reported completed (`CancelReported`); every announced run is reported finished (`RunsEnd`), every run of the loop ends (`RunEnds`); the inductive invariant of the proofs (`WebInv`) |
| `session` | `CodingSession` four times: with cancelled tasks; with cancelled tasks, a terminal command and a stored setting; with a crash, loads and two rewrites; and with a crash and failed replies that carry calls. `ContextBudget` | what is saved keeps up with memory, message by message, and outside a run is all of it, until a task is cancelled (`SavesKeepUp`); it is never reordered or repeated, even then (`SavedInOrder`); until a task is cancelled, a load leaves no call open (`LoadAnswers`); no compaction cuts a result from a call it follows directly or behind other results, and no load cuts any (`RewritesKeepPairs`); the session implements `SavedTranscript` (`SavesTranscript`); estimates, limits, suffixes and summaries (`BudgetSound`); the inductive invariants of the proofs (`SessionInv`, `PlanClean`, and in one of the four `OrderInv` and `CallsClosed`, in `Types`) |
| `frontends` | `WebTrace`, `WebHost`, `TuiPrompts`, `TuiView` (twice), `TranscriptWindow`, `TuiComponents`, `TuiPickers`, `TreePicker`, `LoginScreens` | no silent gap and faithful replays (`TraceFaithful`), index and session agree and failed creations vanish (`HostConsistent`), messages on screen once and in order (`PromptsFaithful`), live view = restored view, and a window that stays contiguous in every step but the three of section 6 (`ScreenFaithful`), the last widget set is shown and crashes are known (`WidgetsContained`), what was typed or highlighted is taken (`PickersExact`), logins store what the provider accepts (`LoginsExact`) |
| `services` | `SessionIndex`, `ExtensionRuntime` (registrations, and hooks), `SessionResources`, the tools, `ReleaseNotes`, `UpdateCheck` | `IndexConsistent`, the refinement `ImplementsCatalog`, `ExtensionsContained`, `ResourcesExact`, `ToolsExact`, `StartInforms` |
| `backends` | `ProviderStream`, `ProviderRequest`, `Credentials`, `DeviceLogin`, `ProviderSettings`, `DataQuery`, `DataQueryConfig`, `QueryBackend`, `SagBackends` | `AnswersFaithful`, `CredentialsKept`, `SettingsConsistent`, `PlansEarned` (of `DataQuery`), `QueriesContained`, `SagBounded` |
| `positional_ids`, `session_preserves`, `session_restores`, `web_steer`, `prompt_lost`, `query_runs` | one module each | expected violations, section 6 |

The passing runs take between one and a half and four minutes each.

**Bounds.** All counters that the code leaves open are bounded by constants named
`Max…`, given in the `.cfg` files or in the `INSTANCE` of an MC module. Two runs
and two users are needed for a call that an earlier run left open and for a queue
that outlives a run; two calls in a batch for a run that is cut between two
results; two turns for a call id that repeats; two rewrites for a compaction over
a summary and for a branch to before a compaction; three messages for a summary
of a summary with a suffix kept; two submissions for a second load, for a marked
message beside a run, and for a run that starts during a deletion; two
authorizations for one in the task and one in a hidden run. In `trace`, queues of
three items and a buffer of two let the same queue overflow twice and the buffer
drop what the file still has; with five events the file is compacted; the second
start follows a crash inside a write. In `plans` two attempts stand for the three
of the code (one that is earned, one that must be refused), two plans are what
both attempts need, and two searches give an item two bundles; the read budget is
one full read or two smaller ones. Two prompts with three tasks are a prompt that
cancels another beside a compaction or a terminal command; three widgets and
three swaps are a replacement of a replacement; three rows and two filters leave
a highlight outside the result; four messages of two blocks, and five of one block
with one call id, are a call, its result and a later message that repeats the id.
A session one item longer than the window of two rows, with pages of one row and
three more items, is paged up, appended to behind what is mounted, and trimmed.
Two requests and a configuration suffice for two competing loads. Two extensions
and two generations are one that fails and one that stays, before and after a
reload. Three calls of the database are one that is abandoned, one beside it and
one after both; tables of three rows exceed the row limit of two. A stream of four
chunks has two fragments of two calls interleaved. Two requests and two logins
share a credential. The symmetries (browsers, prompts, call ids, extensions,
evidence items) are of values no module tells apart, in runs without liveness.
`CHECK_DEADLOCK FALSE` stands in every configuration because a
bounded behaviour ends when its counters are used up.

**Fairness.** Only `liveness` has temporal properties that need it. `AgentHarness`
assumes weak fairness of the run's own step: the
consumer keeps iterating, and providers, hooks and tools return. `RunEnds` needs
a turn limit: without one (the default) an agent may call tools for ever.
`WebRuntime` assumes weak fairness of the run task: the event loop resumes what
is ready, `RunEnds` holds of the loop below, and an authorization nobody answers
times out after 120 seconds (`_TOOL_AUTHORIZATION_TIMEOUT_SECONDS`). Nothing is
assumed of users, browsers or requests. In `MCLiveness` each is fair in its own
behaviours. All other modules state safety only: "in the end" (as in
`LastWriterShown`) is said of states in which no task can take a step.

## 4. What the abstractions leave out

Message text, event payloads, timestamps and ids are members of small sets or
numbers. A provider's answer is a batch of calls and a stop reason; a tool's
result is the id of its call. Listeners are not modelled: they see events and
hold no state of the harness. In `CodingSession` a write never fails without the
process dying, and a torn line is not a state of the file. A file without any leaf entry
is replayed as a line by the code and as the path of its last entry by the model;
the two differ only when the process dies while it stores the repair of such a
file, and `Load` leaves that death out. In `WebRuntime` the
tools approved without a browser are stutters, and a run's status is a choice
between completed and failed where the code reads it off the last message. In
`WebTrace` an event is its number; the removal of the file with its session and
the sequence ids are left out. In `DataQuery` the SQL policy and the rendering of
a template are choices between acceptance and refusal; evidence that the service
cannot expand is not read; audit records are left out. A tool call ends with its
task because the loop awaits one tool at a time and starts no task for it.
In `TranscriptWindow` the scroll offset is where the reader is (top, middle, end),
sessions are longer than the screen, and a handler is one step although a page can
be drawn while it waits for a row. `SessionIndex` has one process: two overwrite
each other's files, which no lock prevents (`session_manager.py:290`). An index is
rewritten in place: a death inside the write leaves the first of its lines, with a
torn one behind them or not. In `BashTool` what the shell does while the tool still
awaits its creation is a choice. In `SagBackends` an id the server does not know is
one value, whatever `_hit_id` made it of, and a citation is the size of its snippet.
In `UpdateCheck` who made the environment, what `INSTALLER` names and where the
package came from are independent choices; the receipts are those of the maker.

**Not modelled**, and why:

* `dataquery/policy.py` walks the syntax tree of a third-party SQL parser; what it
  accepts is what that parser makes of a text. The fake and the unavailable
  backend are fixtures.
* the drawing of rows in `tui/widgets.py`, themes, completion, terminal titles and
  notifications: layout and text matching, without state that outlives a call.
* `session_export.py`, `rendering/`, `cli.py`, `commands.py`, `self_docs.py`:
  parsing of arguments and formatting of output. What commands do is modelled with
  the components they act on.
* `branch_summary.py`, `session_stats.py`: the wording of a prompt, and sums.
* the HTTP server of `web.py` and its page: routing, decoding and drawing.
* validation of catalog files and of token fields, URLs, headers and temperatures:
  each is a function of one text to acceptance or refusal, which the modules take
  as a choice.

## 5. What is proved

Each result below holds for every value of the constants that the module's named
assumption allows. Every invariant was first checked by a run of section 3.

**Agent harness** (`AgentHarness_proofs`; assumption
`HarnessAssumption`: the queue mode is one of two, the bounds are naturals, the
turn limit is a natural or absent).

* For fresh call ids: `HarnessTypes`, `RequestsAnswered`, `RequestsAnsweredOnce`,
  `RunsRecorded`, `HarnessInvariance` and the action property
  `CancelledRunsRepaired`. With positional ids `RequestsAnswered` fails
  (section 6).
* For fresh and for positional ids: `QueuesInOrder`, `NothingDisappears`.

`ContextAnswered` is not inductive: a request is made from a transcript that an
earlier run, a replacement or an append shaped. `AnswerInv` says of every list
that calls are answered before the next assistant message, except those that the
suspended run still owes (`todo`) or the next repair will answer; that results
never come before their calls; and that call ids are below the counter. `OnceInv`
adds that a call has one result at most and none that the run still owes.
`QueueInv` orders everything by id: delivered before in hand before queued.
`RunRecord` needs to know that the run's record is a suffix of its own list at
each of its yields, although the harness may have another list by then. The
lemmas before these say what `Repaired`, appending and truncating do; they are
stated with quantifiers over positions, so that no induction over sequences is
needed.

**Coding session** (`CodingSession_proofs`; `SessionAssumption`: flags and
bounds). `SessionInvariance` and `SessionSaves`: with or without cancelled tasks,
failed replies and crashes, `SavesKeepUp` holds in every state. `SessionInv` adds
to it that the session writes below the entry a load would resume from
(`SavedBranch`), which message may be announced and not on disk at each place
where a run is suspended (`UnsavedAhead`), and the shape of a suspended run. The
heart is `BurstTranscript`: appending message entries below the active leaf
appends exactly their messages to what a replay of the file gives. The replay
is a recursive function over the entries of the file, and no prover here can
instantiate the library's induction theorems (their parameter is an operator);
instead `Least` and `Greatest`, facts about sets of naturals, give the first
entry that breaks a claim, and the step for that entry refutes it. The types of
the rows (`RowsTyped`) and the fact that later entries leave the replay of earlier
ones alone (`RowsPrefix`) are proved so. `RecoveryFits` is the repair on load,
`PlansFit` the compaction plan made before a summary is awaited.

**Order of the conversation** (`SessionOrder_proofs`, on top of the former).
`SessionKeepsOrder`: `SavedInOrder` holds in every state, also after the task of a
run was cancelled and the file has lost messages that memory has, when no counter
says any more what is missing. `SavedInOrder` compares the replay of one branch
with memory, and a load, a branch or a compaction changes which branch that is;
so `OrderInv` speaks of the whole tree. `FileInOrder`: an entry says nothing that
was said on its path before (`Said`, compacted away or not), asks for no call that
was answered there, and a compaction replaces the first rows of its path.
`LiveInOrder`: memory is free of repetitions, has results behind their calls
(`Tidy`), and what it holds behind the count was neither said nor answered on the
path the session writes below (`Unsaid`); what a suspended run holds was never
stored. `KnownInOrder`: a call belongs to one message, and ids are below their
counters, which makes a new message new. The proof has three parts: paths and
rows of the tree (`RowShapes`, `TranscriptOrder`: what a replay gives is in order);
what a burst and the repair of a load add to it (`ChainAdds`, `RecoveryChain`,
which weaves the answers into the transcript); and one lemma per action.

Three more theorems follow from the same invariant. `SessionImplements`: every step
of the session is a step of `SavedTranscript` or a stutter. A step of a run is
`Grow` or `Save`, also when the process dies inside a burst (`StorePart`: what is
stored then is a prefix of what was to be stored); a cancelled task is `Unwind`;
compaction and branching are `Rewrite`, because they put into memory what a load
would find; a load is `Restart`, and what it repairs keeps every message but the
summaries in its order, although the transcript it stores may be that of another
branch (`RecoversScattered`). A load that dies inside its repair leaves what
the file held (`RepairCut`).

`PairsKept`: `RewritesKeepPairs`, for all constants, result by result. The cut of an
automatic compaction never leaves a result at the head of what it keeps
(`CutAtClean`), and it stays so while the summary is awaited, although terminal
commands and settings are stored in the meantime (`NextPlanClean`): so a result it
does cut from its call stood behind a message that is no result. A repair puts
each result behind its call on the branch it goes back to, and orphans none.

`LoadsAnswer`: `LoadAnswers`, for all constants. `CallsClosed` is inductive as long as
no task is cancelled: on every path of the file, and in what a run has not saved
yet, an assistant message follows answered calls only. So the open calls of a
branch are those of its last assistant message; a repair goes back to that
message, below any compaction of what preceded it, and answers what was open on
the branch it then makes active (`RepairAnswers`). Section 6 has the run where a
cancelled task breaks this.

**Web session** (`WebRuntime_proofs`; `WebAssumption`: the task and `None` are no
requests). `WebInvariance`, `WebTypes`, and from them `AuthorizationsKept` (a
denied tool never runs, what is undecided has a browser), `RunsOneAtATime` and
`CancelsReported`, for any number of requests, browsers and authorizations. The
properties are not inductive, because a request that waits for the session to
load, or a deletion that waits for the run, acts later on what it read before:
`WebInv` ties each coroutine's place to the slot's task, run and cancel flag
(`TaskTracked`) and each open authorization to the coroutine that waits for it
(`AsksTracked`).

**Session index** (`SessionIndex_proofs`; `IndexAssumption`: every session has a
home project, `legacy` is not one). `IndexInvariance`, `IndexIsConsistent` (lists
and lookups agree, what is listed can be opened, an update stored whole is what the
next lookup finds) and `IndexImplementsCatalog`: the step-by-step refinement of
`SessionCatalog` by the files, including a deletion that dies between two files
and a write that dies inside one. The catalog allows such a death to forget or set
back sessions of the same project, and those the legacy file alone has, because
that is what the code does (section 6); every other step changes the session it
names and no other. The invariant says which file may hold a record of a session,
that each holds one at most, and that records are no newer than the clock.

**Data query** (`DataQuery_proofs`; `DataQueryAssumption`: budgets are naturals,
at least one attempt). `QueryInvariance` and `PlansAreEarned`: a plan that can be
executed cites evidence of one bundle issued in its run and a template read in
it, attempts are bounded, and a correction is asked for only after the database
rejected a plan of the latest answer. The invariant says of the ledger, of the
tool call at its await and of the planner that they belong to the run in progress.

**Event trace** (`WebTrace_proofs`; `TraceAssumption`: the limits are in order, and
a replay with its snapshots fits into a fresh queue). `TraceIsFaithful`: for any
limits, browsers, restarts and failed or torn writes, no browser misses an event
without being told to load the session again, the file keeps the newest lines, and
the buffer that a new browser is sent is the newest tail of what is readable. The
invariant has four parts, because most steps touch one of them: counters
(`ScalarsOK`), queues (`StreamsOK`: what is queued is in order, ahead of what was
taken), the file (`FileOK`: an event that is not in it is older than those kept,
and at least `Keep` lines are) and the buffer (`ReplayOK`). What a reader makes of
torn lines (`Readable`) is a subsequence of the file; its facts are proved from
the first position that breaks a claim, as in the session.

**Logins** (`LoginScreens`; its methods and providers are any sets). `LoginsKeepPromises`:
what a login stores is of a kind its provider accepts, a browser is not asked
twice, a worker runs behind its own screen only, whatever is typed, dismissed or
answered late. `LoginInv` ties the provider and the method that a screen
was opened for to the worker, and the code heard to what was typed.

**Only model-checked**, and why:

* Liveness (`RunsEnd`, `RunEnds`) and everything that needs `ENABLED`: out of
  reach of the prover.
* `BudgetSound`: estimates are sums over the transcript, and the prover has no
  induction over sequences.
* The other modules of `frontends`, and those of `backends` and `services`: not
  tried yet.

## 6. Disagreements with the repository's documents

Shown by a run that TLC must find violated:

* `positional_ids`: adapters number calls by position when a provider sends no
  ids. The repair of an interrupted transcript looks ids up over the whole
  transcript, so an old result hides a new open call.
* `session_preserves`: the terminal frontend cancels the task of a run, and the
  last write of the run never happens; the next prompt counts from the transcript
  in memory and skips it, although the design document promises that cancellation
  preserves completed messages.
* `session_restores`: the repair on load hangs its results below the interrupted
  message, and the branch it makes active leaves out the compactions and settings
  stored after it.
* `web_steer`: a message marked steer that arrives while the run task prepares or
  settles is not queued: it runs in the coroutine of the submission.
* `prompt_lost`: a prompt submitted while the one before it is still in its hooks
  or its compaction cancels that one instead of being queued.
* `query_runs`: a query that succeeded leaves its transaction open, and the next
  one fails when it marks the connection read-only again.

Stated in a module as a property the code breaks, without a run of its own:
`WebTrace!ReplayOnce` (the backfill on the first subscription runs whatever the
buffer holds: `web.py:1317`), `WebHost!ChangedIdle` and `ShutdownCloses` (a
configuration is accepted beside a run, and a handle stays open after shutdown,
when two first requests load the session at once: `web.py:590`),
`FileTools!EndingRestored` (`tools.py:513`),
`ProviderRequest!CustomMessagesSent` (`openai_compatible.py:823`),
`TuiComponents!OthersStay` (a failure of one widget is put down to
another), `ProviderSettings!LogoutReported` (`tui/app.py:5335`),
`TreePicker!EnterTakesSelected` (Enter was posted, Ctrl+T changes the rows before
it is handled).

Seen while modelling, and not a run of its own: `session.py:1864` says of the
repair on load "Repair the active branch on load so resume/tree branches are
durable and provider-safe". With cancelled tasks (`TaskCancel = TRUE`, two replies, two
user messages, one rewrite, one crash) a load can leave a call open: the task of a
run is cancelled, the harness answers the call of its reply in memory only, and the
next run skips the answer because it counts from memory; a compaction replaces
that reply; a later reply with a call is saved, and the process dies. The repair
hangs its answer below that later reply, but when the cut of the compaction fell
behind that reply's row, the branch it makes active starts above the compaction
and brings the first reply back, with its call open. `LoadAnswers` excludes
cancelled tasks for this reason.

Promises that the code breaks in named cases, which the property about them leaves
out by name, and no others:

* `dev-notes/architecture/tui-long-transcript-performance.md:21` promises "a contiguous
  frontend window". Three steps tear it. A message ends that has items in rows
  since the window was drawn anew while it streamed: those rows are not in
  `_active_message_widgets` and stay beside those of the finished message
  (`widgets.py:1194`). A message ends that began below the window, under a reader
  who paged up: its blocks are mounted behind items that are not
  (`widgets.py:1207`). A terminal command cuts a message that streams
  (`app.py:3678`): its worker cancels that of the run, and nothing takes the rows
  of deltas away; `state.running` stays set, so the next prompt goes through
  `_queue_prompt` and runs without the view seeing its events. The next drawing
  mends the rows. `StaysContiguous` names the three as `EndsApart` and
  `CutsMessage`; without either TLC finds it violated.
* `session.py:2237` moves the cut of an automatic compaction off tool results, so that
  none loses its call. A result that a repair appended behind the output of a
  terminal command loses it: the cut may fall at that output. `KeepsPairs` leaves
  out, result by result, those that are apart from their call already.
* `tools.py:371` tells the model to continue with offset until complete. For a line
  longer than the byte limit the hint is `sed | head -c`, which shows its first
  50 KB and no next offset (`tools.py:328`); and a file with lone carriage returns
  has more lines for the tool than for `sed`. `PagesCover` speaks of the other lines.
* `tools.py:597` has the whole process group killed on a timeout, so that children "do
  not continue running", and the other ways to stop do the same. A task cancelled
  while `create_subprocess_shell` is awaited (`tools.py:626`) leaves what the shell
  had started.
* `updater.py:48` says that Tau in an environment somebody else manages is not
  updated. With a package that pip installed into a Conda environment the update
  runs pip (`updater.py:98`).
* A reload that raises once the extensions were reset leaves none of them loaded
  (`session.py:1261`, `loader.py:178`, `loader.py:207`), the prompt with their guidelines, and all
  else as it was (`OneReading`). A tool that keeps its name keeps its old snippet in the prompt
  (`session.py:1277`).
* `session_manager.py:288` writes an index in place. A death inside the write, or a
  full disk, loses or sets back sessions of that project that nobody named, and a
  torn line makes every later lookup and listing raise. `SessionCatalog!Die`
  says what may be lost.
* The planner accepts an answer if any citation has a snippet (`sag_agent.py:93`);
  the service takes the first citations and then drops blank ones
  (`service.py:764`), so a usable one behind blank ones is refused after the answer was
  paid for. A hit without a chunk id becomes evidence that the server cannot
  read (`sag.py:407`).

Also seen:

* Session and trace: the loop delivers `MessageEnd` before it appends the message,
  so the file is one message behind what is shown; after a cancelled task the
  repair on load may meet a result whose call was never saved; a torn line makes
  every later load raise (`jsonl.py:24`); a cancel that comes before the harness
  runs sets no signal (`web.py:734`); the denial that follows the last browser's
  leaving is published without being recorded (`web.py:492`); the counter that
  triggers the compaction of the trace starts at zero in each process.
* Context: a reload with other tool descriptions but the same names leaves the
  estimate stale; a discovery that was cancelled or failed is not tried again for
  that model (`session.py:1221`); when tool results at the end fill the recent
  budget, nothing recent is kept; windows of 16,385 tokens or less give a
  threshold of one.
* Data query: a template cited without a bundle may have been read from another
  bundle than the plan's (`service.py:510`); an abandoned call's thread may run its
  statement without the limits of the next; a lost connection is never replaced;
  the MCP client never initializes again after the server forgot it; a cancel
  between two statements is lost.
* Web host: `_shutdown` iterates over slots that may change meanwhile; a provider
  setting stores its key before it is validated; loaded sessions keep the settings
  they were loaded with.
* Providers: with rotating tokens two concurrent refreshes make the second fail; a
  refresh in flight undoes a logout; a stream that ends cleanly without its
  terminal event passes as stopped; replayed signatures of interleaved thinking
  blocks are joined onto the first; a thinking default of a model that is dropped
  makes every later load raise (`provider_config.py:1218`).
* Terminal: rows added while a message streams are deleted when it ends; a block
  that follows a call in one message is shown before it live and after it when
  restored; a terminal command during a run cancels the run's worker and leaves
  `state.running` set; `/resume` with an id is not refused during a run; two
  presses of Ctrl+T before the rows are removed list every entry twice; a
  cancelled summary leaves its status on screen.
* Extensions and resources: an instruction file that is not UTF-8 keeps Tau from
  starting (`context.py` catches `OSError` only); authorization views of a failed
  setup stay; template names are compared without case, so a user's `Review.md`
  hides a project's `review.md`.
* Tools and start: overlapping occurrences of an edit's text count once; a child
  that left the process group keeps the pipe open after a timeout, and the tool
  waits for it; release notes are marked as seen before there is a screen to show
  them on; with a clock set back a cached answer is used until the clock catches
  up.

## 7. Plan

Done: all modules of section 2, with the proofs of section 5.

Next is proving, in this order:

1. `Credentials!PortReleased` and `StoredUsable`, `QueryBackend!OneConnection`:
   small state machines over records and sets.
2. `WebHost` (index and slots agree), `ExtensionRuntime!OldGone` and `GuardedCalls`.

Worth modelling later: two processes on one session index, the removal of a trace
file with its session, and the custom entries of extensions.
