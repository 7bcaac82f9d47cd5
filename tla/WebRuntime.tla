----------------------------- MODULE WebRuntime -----------------------------
(***************************************************************************)
(* One session of the web runtime (tau_coding/web.py): its slot, the       *)
(* requests that submit to it, the one run task, the browsers subscribed   *)
(* to it and the tool authorizations they answer, and its deletion.        *)
(*                                                                         *)
(* Everything runs on one event loop: a step below is what a coroutine     *)
(* does between two of its awaits, and the coroutines interleave there.    *)
(* A request that loads the session names the handle it loads, and the run *)
(* a request starts has that request for its id.                           *)
(***************************************************************************)
EXTENDS Naturals, FiniteSets

CONSTANTS
    Requests,  \* calls of submit
    Clients,   \* event-stream connections
    Task,      \* the slot's run task, beside the requests' own coroutines
    None,      \* no handle, no run
    MaxAsks    \* bound: tool authorizations in a behaviour

ASSUME WebAssumption ==
    /\ Task \notin Requests /\ None \notin Requests
    /\ MaxAsks \in Nat

VARIABLES
    indexed,   \* the session manager has a record of the session
    deletion,  \* a delete request: "none", "closing" (in aclose) or "done"
    handle,    \* slot.handle
    runId, taskId, runKind,  \* slot.run_id, the id its task carries, its kind
    cancelRequested,         \* slot.cancel_requested
    at,        \* where each coroutine is suspended
    kind,      \* what each request asks for
    on,        \* the handle each coroutine prompts
    signalled, \* coroutines whose run's cancellation signal is set
    retried,   \* coroutines whose prompt has retried after an overflow
    clients,   \* slot.subscribers
    leaving,   \* streams that a delete has ended and that are to unsubscribe
    asking,    \* the authorization a coroutine awaits, or 0
    decision,  \* state of each authorization's future
    denied,    \* history: authorizations somebody denied or let lapse
    executed,  \* history: authorizations whose tool ran
    started,   \* history: runs announced by run_started
    finished,  \* history: the status in each run's run_finished
    cancelled  \* history: runs whose cancellation was accepted

slotVars == <<runId, taskId, runKind, cancelRequested, finished>>
askVars  == <<asking, decision, denied, executed>>
runVars  == <<at, on, signalled, retried>>
peers    == <<clients, leaving>>
vars     == <<indexed, deletion, handle, slotVars, runVars, kind, peers,
              askVars, started, cancelled>>

Owners    == Requests \cup {Task}
Asks      == 1 .. MaxAsks
Kinds     == {"prompt", "marked", "compact"}
Answers   == {"allow", "deny", "cancel"}
Ends      == {"completed", "failed"}
Statuses  == Ends \cup {"cancelled"}
Prompting == {"hooks", "preparing", "running", "settling"}

Active  == at[Task] \notin {"none", "done"}
Runs(h) == \E o \in Owners : at[o] = "running" /\ on[o] = h
Pending == {asking[o] : o \in Owners} \ {0}
Undecided == {a \in Pending : decision[a] = "undecided"}

\* The run whose signal session.cancel() sets: none before the harness runs.
Interrupted(h) == {o \in Owners : at[o] = "running" /\ on[o] = h}

\* Set the futures of the authorizations in S that are not done.
Decide(S, d) ==
    /\ decision' = [a \in Asks |-> IF a \in S THEN d ELSE decision[a]]
    /\ denied' = IF d = "allow" THEN denied ELSE denied \cup S
-----------------------------------------------------------------------------
Init ==
    /\ indexed = TRUE /\ deletion = "none" /\ handle = None
    /\ runId = None /\ taskId = None /\ runKind = None
    /\ cancelRequested = FALSE
    /\ at = [o \in Owners |-> IF o = Task THEN "none" ELSE "new"]
    /\ kind = [r \in Requests |-> None]
    /\ on = [o \in Owners |-> None]
    /\ signalled = {} /\ retried = {}
    /\ clients = {} /\ leaving = {}
    /\ asking = [o \in Owners |-> 0]
    /\ decision = [a \in Asks |-> "new"]
    /\ denied = {} /\ executed = {}
    /\ started = {} /\ cancelled = {}
    /\ finished = [r \in Requests |-> "none"]
-----------------------------------------------------------------------------
(* Submitting.                                                             *)

\* A free slot announces a run and creates its task.
StartTask(r, k) ==
    /\ started' = started \cup {r}
    /\ runId' = r /\ taskId' = r
    /\ runKind' = IF k = "compact" THEN "compact" ELSE "prompt"
    /\ cancelRequested' = FALSE
    /\ at' = [at EXCEPT ![r] = "done", ![Task] = "created"]
    /\ UNCHANGED <<on, finished>>

\* On a busy slot a marked message goes to the session, which decides whether
\* to queue it; any other submission is refused.
Join(r, k, h) ==
    LET queues == k = "marked" /\ runKind = "prompt"
    IN  /\ at' = [at EXCEPT ![r] = IF queues THEN "hooks" ELSE "done"]
        /\ on' = [on EXCEPT ![r] = IF queues THEN h ELSE None]
        /\ UNCHANGED <<slotVars, started>>

\* Fault: nothing looks at the task that is running.
Dispatch_Anytime(r, k, h) == StartTask(r, k)

Dispatch(r, k, h) == IF Active THEN Join(r, k, h) ELSE StartTask(r, k)

Submit(r, k) ==
    /\ at[r] = "new" /\ indexed
    /\ kind' = [kind EXCEPT ![r] = k]
    /\ \/ /\ handle = None
          /\ at' = [at EXCEPT ![r] = "loading"]
          /\ UNCHANGED <<on, slotVars, started>>
       \/ /\ handle # None
          /\ Dispatch(r, k, handle)
    /\ UNCHANGED <<indexed, deletion, handle, signalled, retried, peers, askVars,
                   cancelled>>

\* The loader returns; the last one to return owns the slot.
Loaded(r) ==
    /\ at[r] = "loading"
    /\ handle' = r
    /\ Dispatch(r, kind[r], r)
    /\ UNCHANGED <<indexed, deletion, signalled, retried, kind, peers, askVars, cancelled>>

\* Fault: the authorization of a cancelled coroutine is not withdrawn.
Abandon_KeepsAsk(r) ==
    /\ at[r] \in {"loading"} \cup Prompting
    /\ at' = [at EXCEPT ![r] = "done"]
    /\ on' = [on EXCEPT ![r] = None]
    /\ signalled' = signalled \ {r} /\ retried' = retried \ {r}
    /\ UNCHANGED <<indexed, deletion, handle, slotVars, kind, peers, askVars,
                   started, cancelled>>

\* The loader, or the session-start hooks, raise; or _call's caller has waited
\* too long and cancels the coroutine, wherever it is.
Abandon(r) ==
    /\ at[r] \in {"loading"} \cup Prompting
    /\ at' = [at EXCEPT ![r] = "done"]
    /\ asking' = [asking EXCEPT ![r] = 0]
    /\ on' = [on EXCEPT ![r] = None]
    /\ signalled' = signalled \ {r} /\ retried' = retried \ {r}
    /\ Decide({asking[r]} \ {0}, "read")
    /\ UNCHANGED <<indexed, deletion, handle, slotVars, kind, peers, executed,
                   started, cancelled>>
-----------------------------------------------------------------------------
(* A prompt, in the run task or in the coroutine of a marked submission.   *)

\* Fault: a requested cancellation is forgotten.
Reported_AsIs(s) == s

\* The status run_finished carries.
Reported(s) == IF cancelRequested /\ s = "completed" THEN "cancelled" ELSE s

\* _finish_run raises, and resets nothing, when the session is gone.
FinishRun(s) ==
    IF indexed
    THEN /\ finished' = [finished EXCEPT ![taskId] = Reported(s)]
         /\ runId' = None /\ runKind' = None /\ cancelRequested' = FALSE
         /\ UNCHANGED taskId
    ELSE UNCHANGED slotVars

\* The prompt of o returns or raises, for the task with a status of S.
Leave(o, S) ==
    /\ at' = [at EXCEPT ![o] = "done"]
    /\ on' = [on EXCEPT ![o] = None]
    /\ signalled' = signalled \ {o} /\ retried' = retried \ {o}
    /\ IF o = Task THEN \E s \in S : FinishRun(s)
                   ELSE UNCHANGED slotVars

Move(o, place) == at' = [at EXCEPT ![o] = place]

TaskStart ==
    /\ at[Task] = "created"
    /\ \/ /\ indexed /\ handle # None
          /\ Move(Task, IF runKind = "compact" THEN "summarizing" ELSE "hooks")
          /\ on' = [on EXCEPT ![Task] = handle]
       \/ /\ ~ (indexed /\ handle # None)
          /\ Move(Task, "done")
          /\ UNCHANGED on
    /\ UNCHANGED <<slotVars, signalled, retried>>
    /\ UNCHANGED <<indexed, deletion, handle, kind, peers, askVars, started, cancelled>>

RunFrame == UNCHANGED <<indexed, deletion, handle, kind, peers, started, cancelled>>

\* The input hooks return. They may have handled the message; a session that
\* runs queues a marked one and refuses the task's.
AfterHooks(o) ==
    /\ at[o] = "hooks"
    /\ \/ Leave(o, Ends)
       \/ /\ ~ Runs(on[o])
          /\ Move(o, "preparing")
          /\ UNCHANGED <<slotVars, on, signalled, retried>>
    /\ UNCHANGED askVars /\ RunFrame

\* Model limits and automatic compaction are done, and the harness starts a
\* run with a signal of its own, unless it runs already.
BeginRun(o) ==
    /\ at[o] = "preparing"
    /\ \/ Runs(on[o]) /\ Leave(o, {"failed"})
       \/ /\ ~ Runs(on[o])
          /\ Move(o, "running")
          /\ UNCHANGED <<slotVars, on, signalled, retried>>
    /\ UNCHANGED askVars /\ RunFrame

\* A tool call needs a browser's consent. Without a client it is refused at
\* once, and the run goes on.
AskTool(o) ==
    LET a == 1 + Cardinality({b \in Asks : decision[b] # "new"})
    IN  /\ at[o] = "running" /\ asking[o] = 0
        /\ a \in Asks /\ clients # {}
        /\ asking' = [asking EXCEPT ![o] = a]
        /\ decision' = [decision EXCEPT ![a] = "undecided"]
        /\ UNCHANGED <<denied, executed, slotVars, runVars>> /\ RunFrame

\* The authorization's future is done and its coroutine resumes: the tool runs
\* if it was allowed, unless the run was cancelled meanwhile.
Resolved(o) ==
    LET a == asking[o]
    IN  /\ a # 0 /\ decision[a] \in Answers
        /\ asking' = [asking EXCEPT ![o] = 0]
        /\ executed' = IF decision[a] = "allow" /\ o \notin signalled
                       THEN executed \cup {a} ELSE executed
        /\ IF decision[a] = "cancel"
           THEN /\ cancelRequested' = TRUE
                /\ signalled' = signalled \cup Interrupted(handle)
           ELSE UNCHANGED <<cancelRequested, signalled>>
        /\ decision' = [decision EXCEPT ![a] = "read"]
        /\ UNCHANGED <<denied, runId, taskId, runKind, finished, at, on, retried>>
        /\ RunFrame

\* Fault: the timeout runs only while no browser is connected.
AuthTimeout_Unseen(o) ==
    LET a == asking[o]
    IN  /\ a # 0 /\ clients = {}
        /\ asking' = [asking EXCEPT ![o] = 0]
        /\ Decide({a}, "read")
        /\ UNCHANGED <<executed, slotVars, runVars>> /\ RunFrame

\* Nobody has answered in time; an answer that is not yet read is overruled.
AuthTimeout(o) ==
    LET a == asking[o]
    IN  /\ a # 0
        /\ asking' = [asking EXCEPT ![o] = 0]
        /\ Decide({a}, "read")
        /\ UNCHANGED <<executed, slotVars, runVars>> /\ RunFrame

\* The agent loop ends, or raises.
EndRun(o) ==
    /\ at[o] = "running" /\ asking[o] = 0
    /\ \/ Leave(o, Ends)
       \/ /\ Move(o, "settling")
          /\ signalled' = signalled \ {o}
          /\ UNCHANGED <<slotVars, on, retried>>
    /\ UNCHANGED askVars /\ RunFrame

\* The compactions and events after a run; an overflow is retried once.
Settle(o) ==
    /\ at[o] = "settling"
    /\ \/ Leave(o, Ends)
       \/ /\ o \notin retried /\ ~ Runs(on[o])
          /\ Move(o, "running")
          /\ retried' = retried \cup {o}
          /\ UNCHANGED <<slotVars, on, signalled>>
    /\ UNCHANGED askVars /\ RunFrame

\* A manual compaction returns, fails, or receives its cancellation; one that
\* was cancelled before its first step never reaches its finally.
EndCompaction ==
    /\ \/ /\ at[Task] = "summarizing"
          /\ Leave(Task, Ends)
       \/ /\ at[Task] = "cancelling"
          /\ Move(Task, "done") /\ on' = [on EXCEPT ![Task] = None]
          /\ FinishRun("cancelled")
          /\ UNCHANGED <<signalled, retried>>
       \/ /\ at[Task] = "unstarted"
          /\ Move(Task, "done")
          /\ UNCHANGED <<slotVars, on, signalled, retried>>
    /\ UNCHANGED askVars /\ RunFrame
-----------------------------------------------------------------------------
(* The browser.                                                            *)

Subscribe(c) ==
    /\ indexed /\ c \notin clients \cup leaving
    /\ clients' = clients \cup {c}
    /\ UNCHANGED <<indexed, deletion, handle, slotVars, runVars, kind, leaving,
                   askVars, started, cancelled>>

\* Fault: a browser leaves and nobody looks whether it was the last.
Unsubscribe_Silent(c) ==
    /\ c \in clients \cup leaving
    /\ clients' = clients \ {c} /\ leaving' = leaving \ {c}
    /\ UNCHANGED <<indexed, deletion, handle, slotVars, runVars, kind, askVars,
                   started, cancelled>>

\* The last client to leave denies what is still undecided.
Unsubscribe(c) ==
    /\ c \in clients \cup leaving
    /\ clients' = clients \ {c} /\ leaving' = leaving \ {c}
    /\ IF deletion # "done" /\ clients' = {}
       THEN Decide(Undecided, "deny")
       ELSE UNCHANGED <<decision, denied>>
    /\ UNCHANGED <<indexed, deletion, handle, slotVars, runVars, kind, asking,
                   executed, started, cancelled>>

\* Fault: a later answer replaces one that is not read yet.
Respond_Again(a, d) ==
    /\ indexed /\ a \in Pending
    /\ Decide({a}, d)
    /\ UNCHANGED <<indexed, deletion, handle, slotVars, runVars, kind, peers,
                   asking, executed, started, cancelled>>

Respond(a, d) ==
    /\ indexed /\ a \in Undecided
    /\ Decide({a}, d)
    /\ UNCHANGED <<indexed, deletion, handle, slotVars, runVars, kind, peers,
                   asking, executed, started, cancelled>>

\* Cancel reaches the harness only while it runs; a compaction's task is
\* cancelled itself.
Cancel ==
    /\ indexed /\ handle # None /\ Active
    /\ cancelRequested' = TRUE
    /\ cancelled' = cancelled \cup {taskId}
    /\ Decide(Undecided, "cancel")
    /\ signalled' = signalled \cup Interrupted(handle)
    /\ IF runKind = "compact"
       THEN Move(Task, CASE at[Task] = "created" -> "unstarted"
                         [] at[Task] = "summarizing" -> "cancelling"
                         [] OTHER -> at[Task])
       ELSE UNCHANGED at
    /\ UNCHANGED <<indexed, deletion, handle, runId, taskId, runKind, finished, on,
                   retried, kind, peers, asking, executed, started>>

\* A delete is refused while the task runs; it ends the streams, and then
\* awaits the handle's aclose.
Delete ==
    /\ indexed /\ deletion = "none" /\ ~ Active
    /\ clients' = {} /\ leaving' = leaving \cup clients
    /\ deletion' = IF handle = None THEN "done" ELSE "closing"
    /\ indexed' = (handle # None)
    /\ UNCHANGED <<handle, slotVars, runVars, kind, askVars, started, cancelled>>

\* aclose returns and the record goes, or it raises and everything stays.
DeleteDone ==
    /\ deletion = "closing"
    /\ \/ deletion' = "done" /\ handle' = None /\ indexed' = FALSE
       \/ deletion' = "none" /\ UNCHANGED <<handle, indexed>>
    /\ UNCHANGED <<slotVars, runVars, kind, peers, askVars, started, cancelled>>
-----------------------------------------------------------------------------
PromptStep(o) == \/ AfterHooks(o) \/ BeginRun(o) \/ Resolved(o) \/ AuthTimeout(o)
                 \/ EndRun(o) \/ Settle(o)

TaskStep == TaskStart \/ EndCompaction \/ PromptStep(Task)

Next ==
    \/ \E r \in Requests : \/ \E k \in Kinds : Submit(r, k)
                           \/ Loaded(r) \/ Abandon(r) \/ PromptStep(r)
    \/ TaskStep
    \/ \E o \in Owners : AskTool(o)
    \/ \E c \in Clients : Subscribe(c) \/ Unsubscribe(c)
    \/ \E a \in Asks, d \in Answers : Respond(a, d)
    \/ Cancel \/ Delete \/ DeleteDone

Spec == Init /\ [][Next]_vars

\* The event loop resumes what is ready, hooks and model calls return, the agent
\* loop ends (RunEnds of AgentHarness) and an authorization times out.
FairSpec == Spec /\ WF_vars(TaskStep)
-----------------------------------------------------------------------------
(* Properties.                                                             *)

\* Every part of the slot has its type, and only a coroutine whose run is under
\* way awaits an authorization.
TypeOK ==
    /\ indexed \in BOOLEAN /\ deletion \in {"none", "closing", "done"}
    /\ handle \in Requests \cup {None}
    /\ {runId, taskId} \subseteq Requests \cup {None}
    /\ runKind \in {"prompt", "compact", None} /\ cancelRequested \in BOOLEAN
    /\ at \in [Owners -> Prompting \cup
                {"none", "new", "loading", "created", "summarizing",
                 "cancelling", "unstarted", "done"}]
    /\ kind \in [Requests -> Kinds \cup {None}]
    /\ on \in [Owners -> Requests \cup {None}]
    /\ signalled \subseteq Owners /\ retried \subseteq Owners
    /\ clients \subseteq Clients /\ leaving \subseteq Clients
    /\ asking \in [Owners -> 0 .. MaxAsks]
    /\ decision \in [Asks -> Answers \cup {"new", "undecided", "read"}]
    /\ denied \subseteq Asks /\ executed \subseteq Asks
    /\ started \subseteq Requests /\ cancelled \subseteq Requests
    /\ finished \in [Requests -> Statuses \cup {"none"}]
    /\ \A o \in Owners : asking[o] # 0 => at[o] = "running"

\* A tool the user was asked about never runs once anyone has denied that
\* request: by an answer, a cancel, the last browser leaving, or in time
\* (web.py _respond_tool_authorization, _authorize_tool_call).
DenialsHold == executed \cap denied = {}

\* An undecided request always has a browser to answer it, unless the session
\* is being deleted (web.py _unsubscribe, _authorize_tool_call).
UndecidedSeen == Undecided # {} => clients # {} \/ deletion # "none" \/ leaving # {}

\* The two together: nobody denied what is executed, and somebody can still decide
\* what is asked.
AuthorizationsHold == DenialsHold /\ UndecidedSeen

\* One run at a time: while the task is alive the slot names that task's run,
\* and every other run that was announced has been reported finished, save what
\* a deletion or the cancellation of a compaction cut off (web.py _submit,
\* _finish_run).
OneRun ==
    /\ Active => runId = taskId /\ taskId \in started /\ finished[taskId] = "none"
    /\ indexed => \A r \in started \ {taskId} :
                     \/ finished[r] # "none"
                     \/ kind[r] = "compact" /\ r \in cancelled

\* A run whose cancellation was accepted is never reported completed
\* (web.py _cancel, _run_prompt's finally).
CancelReported == \A r \in cancelled : finished[r] # "completed"

\* How far each authorization is: they are asked in order, each by one coroutine
\* that awaits it until it is read, and only an allowed one may still run.
AsksTracked ==
    /\ \E n \in 0 .. MaxAsks : \A a \in Asks : decision[a] = "new" <=> n < a
    /\ \A o, p \in Owners : asking[o] # 0 /\ asking[o] = asking[p] => o = p
    /\ \A o \in Owners :
          asking[o] # 0 => decision[asking[o]] \in Answers \cup {"undecided"}
    /\ \A a \in Asks :
          /\ decision[a] \in {"new", "undecided", "allow"} => a \notin denied
          /\ decision[a] # "read" => a \notin executed

\* A delete takes the browsers from an undecided request only with the session.
UndecidedKept == Undecided # {} => clients # {} \/ leaving # {} \/ deletion = "done"

\* The slot's run is settled: reported, or a compaction that was cut off.
CutOff(r)  == kind[r] = "compact" /\ r \in cancelled
Settled(r) == finished[r] # "none" \/ CutOff(r)

\* What the slot knows of its task: a run is reported and cancelled only after it
\* was announced, and a task that ends leaves its run settled.
TaskTracked ==
    /\ \A r \in Requests : finished[r] # "none" => r \in started
    /\ cancelled \subseteq started
    /\ \A r \in started : at[r] = "done"
    /\ taskId \in started \cup {None}
    /\ Active => /\ indexed => handle # None
                 /\ runKind = "compact" => kind[taskId] = "compact"
                 /\ at[Task] = "unstarted" => CutOff(taskId)
                 /\ taskId \in cancelled => cancelRequested
    /\ indexed /\ ~ Active /\ taskId # None => Settled(taskId)

\* The inductive invariant behind the three above.
WebInv ==
    /\ TypeOK /\ AsksTracked /\ DenialsHold /\ UndecidedKept
    /\ TaskTracked /\ OneRun /\ CancelReported

\* Every run that was announced is reported finished, unless the session is
\* deleted under it or it is a compaction somebody cancels (web.py _run_prompt,
\* _run_compaction).
RunsEnd ==
    \A r \in Requests :
        r \in started ~>
            \/ finished[r] # "none" \/ ~ indexed
            \/ kind[r] = "compact" /\ r \in cancelled

\* A submission marked steer or follow_up is queued on the run in progress: it
\* never becomes a run of its own, outside the task
\* (dev-notes/architecture/tau-web-live-session-adapter.md:132).
SteerQueues == \A r \in Requests : at[r] # "running"
=============================================================================
