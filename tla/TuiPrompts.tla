------------------------------ MODULE TuiPrompts ------------------------------
(***************************************************************************)
(* Prompts in the terminal frontend (tau_coding/tui/app.py): the editor,   *)
(* the workers that run prompts, compactions and session switches side by  *)
(* side with it, the queues of the harness, and the transcript on screen,  *)
(* of which the user's messages are kept here. Workers of the application  *)
(* share one group: an exclusive one cancels all others.                   *)
(***************************************************************************)
EXTENDS Naturals, Sequences, FiniteSets, SequencesExt

CONSTANTS
    Prompts, None,
    MaxTasks, MaxRuns, MaxCompactions, MaxSwitches, MaxTerminal    \* bounds

VARIABLES
    input,      \* the prompt in the editor, or None
    tasks,      \* calls of _run_prompt and _queue_prompt: [prompt, run, home, stage, doomed]
    run,        \* _prompt_run_id
    worker,     \* _prompt_worker: a task, or 0
    harness,    \* the harness of each session adopted so far: [busy, taken, steering, followUp]
    items,      \* the user's messages on screen
    running,    \* state.running
    pending,    \* _optimistic_user_messages, by their run
    compactions,    \* calls of _run_compaction: live, doomed or over
    compacting, \* _compaction_worker: one of them, or 0
    switching,  \* a worker resumes a session
    used,       \* terminal commands so far
    submitted, answered,    \* prompts given to Tau; those it reported, or the user gave up
    astray      \* the screen shows something else than the session has

queueVars == <<input, tasks, run, worker, harness>>
viewVars == <<items, running, pending, astray>>
workVars == <<compactions, compacting, switching, used>>
vars == <<queueVars, viewVars, workVars, submitted, answered>>

NewHarness == [busy |-> 0, taken |-> <<>>, steering |-> <<>>, followUp |-> <<>>]
home == Len(harness)
Queued(h) == harness[h].steering \o harness[h].followUp

Init ==
    /\ input = None /\ tasks = <<>> /\ run = 0 /\ worker = 0 /\ harness = <<NewHarness>>
    /\ items = <<>> /\ running = FALSE /\ pending = {} /\ astray = FALSE
    /\ compactions = <<>> /\ compacting = 0 /\ switching = FALSE /\ used = 0
    /\ submitted = {} /\ answered = {}

Live(t) == tasks[t].stage # "over"
Inline(t) == tasks[t].run = 0
\* The handler of a key awaits _queue_prompt: nothing else is handled meanwhile.
Blocked == \E t \in DOMAIN tasks : Live(t) /\ Inline(t)

\* Fault: events of a superseded run are applied too.
Applies_Always(t) == TRUE

\* The events of a task change the screen.
Applies(t) == Inline(t) \/ tasks[t].run = run

\* _is_compaction_active
CompactionActive == compacting # 0 /\ compactions[compacting] = "live"

\* What is shown of a task does not match what it did, if it ends now.
Strays(t) ==
    \/ tasks[t].stage = "starting" /\ tasks[t].run \in pending
    \/ tasks[t].stage = "confirming" /\ tasks[t].run \notin pending

Cancelled(ts) == [t \in DOMAIN tasks |-> IF t \in ts /\ Live(t) THEN [tasks[t] EXCEPT !.doomed = TRUE] ELSE tasks[t]]
-----------------------------------------------------------------------------
\* What an exclusive worker does to the workers there are.
Workers == {t \in DOMAIN tasks : Live(t) /\ ~Inline(t)}
CancelOthers ==
    /\ compactions' = [c \in DOMAIN compactions |-> IF compactions[c] = "live" THEN "doomed" ELSE compactions[c]]
    /\ switching' = FALSE
    /\ UNCHANGED <<compacting>>

\* _submit_prompt. Messages of extensions with a type are shown when confirmed.
Launch(p, shown) ==
    /\ Len(tasks) < MaxTasks
    /\ run' = run + 1
    /\ tasks' = Append(Cancelled(Workers), [prompt |-> p, run |-> run + 1, home |-> home, stage |-> "starting", doomed |-> FALSE])
    /\ worker' = Len(tasks) + 1
    /\ items' = IF shown THEN Append(items, p) ELSE items
    /\ pending' = IF shown THEN pending \cup {run + 1} ELSE pending
    /\ astray' = (astray \/ \E t \in Workers : Strays(t))
    /\ CancelOthers /\ submitted' = submitted \cup {p}
    /\ UNCHANGED <<harness, running, used, answered>>

Type(p) ==
    /\ input = None /\ p \notin submitted /\ input' = p
    /\ UNCHANGED <<tasks, run, worker, harness, viewVars, workVars, submitted, answered>>

\* _submit_prompt_from_editor, and _queue_prompt: the harness decides later
\* whether the prompt is queued.
Submit(follow) ==
    /\ input # None /\ ~Blocked /\ ~CompactionActive
    /\ input' = None
    /\ \/ ~running /\ Launch(input, TRUE)
       \/ /\ running /\ Len(tasks) < MaxTasks
          /\ tasks' = Append(tasks, [prompt |-> input, run |-> 0, home |-> home,
                                     stage |-> IF follow THEN "following" ELSE "steering", doomed |-> FALSE])
          /\ submitted' = submitted \cup {input}
          /\ UNCHANGED <<run, worker, harness, viewVars, workVars, answered>>

\* _deliver_extension_message
Deliver(p, shown) ==
    /\ p \notin submitted /\ p # input /\ ~Blocked
    /\ \/ harness[home].busy = 0 /\ worker = 0 /\ Launch(p, shown)
       \/ /\ harness[home].busy # 0 \/ worker # 0
          /\ harness' = [harness EXCEPT ![home].followUp = Append(@, p)]
          /\ submitted' = submitted \cup {p}
          /\ UNCHANGED <<tasks, run, worker, viewVars, workVars, answered>>
    /\ UNCHANGED input

\* A command that starts with "!": its worker is exclusive.
Terminal ==
    /\ ~Blocked /\ ~CompactionActive /\ used < MaxTerminal
    /\ used' = used + 1 /\ tasks' = Cancelled(Workers) /\ CancelOthers
    /\ astray' = (astray \/ \E t \in Workers : Strays(t))
    /\ UNCHANGED <<input, run, worker, harness, items, running, pending, submitted, answered>>

\* Fault: the queue keeps the message that is edited.
Popped_Copy(h) == h

\* pop_latest_follow_up_message, else pop_latest_steering_message.
Popped(h) == IF h.followUp # <<>> THEN [h EXCEPT !.followUp = Front(@)] ELSE [h EXCEPT !.steering = Front(@)]

\* action_edit_queued_message
EditQueued ==
    /\ running /\ ~Blocked /\ input = None /\ Queued(home) # <<>>
    /\ LET h == harness[home] IN input' = IF h.followUp # <<>> THEN Last(h.followUp) ELSE Last(h.steering)
    /\ harness' = [harness EXCEPT ![home] = Popped(@)]
    /\ UNCHANGED <<tasks, run, worker, viewVars, workVars, submitted, answered>>
-----------------------------------------------------------------------------
\* clear, and _load_session_messages_from_session. Messages of a run that is
\* under way may still be added to what is loaded.
Reload(h) ==
    /\ items' = h.taken
    /\ astray' = \E t \in DOMAIN tasks' : tasks'[t].stage # "over" /\ ~tasks'[t].doomed

\* _cancel_active_prompt
StopPrompt ==
    /\ run < MaxRuns /\ run' = run + 1
    /\ tasks' = Cancelled({worker})
    /\ worker' = 0 /\ running' = FALSE
    /\ answered' = answered \cup {tasks[t].prompt : t \in {worker} \cap Workers}

\* action_cancel
Escape ==
    /\ ~Blocked
    /\ \/ /\ CompactionActive
          /\ compactions' = [compactions EXCEPT ![compacting] = "doomed"] /\ compacting' = 0
          /\ UNCHANGED <<queueVars, answered>> /\ Reload(harness[home])
          /\ UNCHANGED <<running, pending>>
       \/ /\ ~CompactionActive /\ (running \/ harness[home].busy # 0 \/ worker # 0)
          /\ StopPrompt
          /\ astray' = (astray \/ \E t \in {worker} \cap Workers : Strays(t))
          /\ UNCHANGED <<input, harness, items, pending, compactions, compacting>>
    /\ UNCHANGED <<switching, used, submitted>>

\* /compact, unless _is_agent_or_queue_active.
Compact ==
    /\ ~Blocked /\ ~CompactionActive /\ Len(compactions) < MaxCompactions
    /\ ~running /\ harness[home].busy = 0 /\ Queued(home) = <<>>
    /\ \A t \in {worker} \cap Workers : tasks[t].doomed
    /\ compactions' = Append(compactions, "live") /\ compacting' = Len(compactions) + 1
    /\ items' = <<>> /\ astray' = TRUE
    /\ UNCHANGED <<queueVars, running, pending, switching, used, submitted, answered>>

\* The end of _run_compaction; its finally clears _compaction_worker, whosever it is.
CompactionEnds(c, ok) ==
    /\ compactions[c] \in {"live", "doomed"} /\ (ok => compactions[c] = "live")
    /\ compactions' = [compactions EXCEPT ![c] = "over"] /\ compacting' = 0
    /\ UNCHANGED queueVars
    /\ IF ok THEN Reload(harness[home]) ELSE UNCHANGED <<items, astray>>
    /\ UNCHANGED <<running, pending, switching, used, submitted, answered>>

\* Another session is adopted, with a harness of its own; the old one is left.
Adopt ==
    /\ harness' = Append(harness, NewHarness)
    /\ Reload(NewHarness)

\* _new_session: the prompt is cancelled first.
NewSession ==
    /\ ~Blocked /\ ~CompactionActive /\ Len(harness) <= MaxSwitches
    /\ IF running \/ harness[home].busy # 0 \/ worker # 0
       THEN run' = run + 1 /\ tasks' = Cancelled({worker}) /\ worker' = 0 /\ running' = FALSE
       ELSE UNCHANGED <<run, tasks, worker, running>>
    /\ answered' = answered \cup ToSet(Queued(home)) \cup {tasks[t].prompt : t \in {worker} \cap Workers}
    /\ Adopt
    /\ UNCHANGED <<input, pending, workVars, submitted>>

\* /resume with a session, which looks at no run.
ResumeCommand ==
    /\ ~Blocked /\ ~CompactionActive /\ Len(harness) <= MaxSwitches
    /\ UNCHANGED <<tasks, run, worker, input, running, pending, workVars, submitted>>
    /\ answered' = answered \cup ToSet(Queued(home))
    /\ Adopt

\* The session picker opens while nothing runs; a worker resumes what it returns.
Pick ==
    /\ ~Blocked /\ ~running /\ ~switching /\ Len(harness) <= MaxSwitches
    /\ switching' = TRUE
    /\ UNCHANGED <<queueVars, viewVars, compactions, compacting, used, submitted, answered>>

PickedResumes ==
    /\ switching /\ switching' = FALSE
    /\ UNCHANGED <<tasks, run, worker, input, running, pending, compactions, compacting, used, submitted>>
    /\ answered' = answered \cup ToSet(Queued(home))
    /\ Adopt
-----------------------------------------------------------------------------
\* The end of a task, with the finally of _run_prompt.
Ends(t, told) ==
    /\ tasks' = [tasks EXCEPT ![t].stage = "over"]
    /\ pending' = pending \ {tasks[t].run}
    /\ worker' = IF tasks[t].run = run THEN 0 ELSE worker
    /\ answered' = IF told THEN answered \cup {tasks[t].prompt} ELSE answered

taskFrame == <<input, run, workVars, submitted>>
Starting(t) == tasks[t].stage \in {"starting", "steering", "following"}
Held(t) == harness[tasks[t].home].busy = t

\* CodingSession.prompt queues the prompt of a handler while the harness runs.
Enqueue(t) ==
    /\ ~tasks[t].doomed /\ tasks[t].stage \in {"steering", "following"} /\ harness[home].busy # 0
    /\ harness' = IF tasks[t].stage = "steering" THEN [harness EXCEPT ![home].steering = Append(@, tasks[t].prompt)]
                  ELSE [harness EXCEPT ![home].followUp = Append(@, tasks[t].prompt)]
    /\ Ends(t, FALSE) /\ UNCHANGED <<taskFrame, items, running, astray>>

\* It refuses one without a behaviour, a hook handles it or fails: a message tells.
Refuse(t) ==
    /\ ~tasks[t].doomed /\ Starting(t)
    /\ Ends(t, TRUE)
    /\ running' = (IF Applies(t) /\ ~Inline(t) THEN FALSE ELSE running)
    /\ astray' = (astray \/ Strays(t))
    /\ UNCHANGED <<taskFrame, harness, items>>

\* The harness starts with the prompt; AgentStartEvent.
Begin(t) ==
    /\ ~tasks[t].doomed /\ Starting(t) /\ harness[home].busy = 0
    /\ harness' = [harness EXCEPT ![home].busy = t, ![home].taken = Append(@, tasks[t].prompt)]
    /\ tasks' = [tasks EXCEPT ![t].stage = "confirming", ![t].home = home]
    /\ running' = (running \/ Applies(t))
    /\ astray' = (astray \/ ~Applies(t) \/ (Inline(t) /\ Workers # {}))
    /\ UNCHANGED <<taskFrame, worker, items, pending, answered>>

\* Fault: the message is shown again when it is confirmed.
Confirmed_Again(t) == Append(items, tasks[t].prompt)

\* _consume_optimistic_user_event, else _append_confirmed_user_message.
Confirmed(t) == IF tasks[t].run \in pending THEN items ELSE Append(items, tasks[t].prompt)

\* A user message was saved: MessageEndEvent.
Confirm(t) ==
    /\ ~tasks[t].doomed /\ tasks[t].stage = "confirming" /\ Applies(t)
    /\ tasks' = [tasks EXCEPT ![t].stage = "running"]
    /\ items' = Confirmed(t) /\ pending' = pending \ {tasks[t].run}
    /\ UNCHANGED <<taskFrame, worker, harness, running, astray, answered>>

\* The loop takes a queued message.
Drain(t) ==
    /\ ~tasks[t].doomed /\ tasks[t].stage = "running" /\ Applies(t) /\ Queued(tasks[t].home) # <<>>
    /\ LET h == harness[tasks[t].home]
           p == Head(Queued(tasks[t].home))
       IN  /\ harness' = [harness EXCEPT ![tasks[t].home] =
                  IF h.steering # <<>> THEN [h EXCEPT !.taken = Append(@, p), !.steering = Tail(@)]
                  ELSE [h EXCEPT !.taken = Append(@, p), !.followUp = Tail(@)]]
           /\ items' = Append(items, p)
    /\ astray' = (astray \/ tasks[t].home # home)
    /\ UNCHANGED <<taskFrame, tasks, worker, running, pending, answered>>

\* AgentEndEvent, though the session may still compact or name itself.
Finish(t) ==
    /\ ~tasks[t].doomed /\ tasks[t].stage = "running" /\ Applies(t)
    /\ harness' = [harness EXCEPT ![tasks[t].home].busy = 0]
    /\ tasks' = [tasks EXCEPT ![t].stage = "settling"]
    /\ running' = FALSE
    /\ UNCHANGED <<taskFrame, worker, items, pending, astray, answered>>

Settle(t) ==
    /\ ~tasks[t].doomed /\ tasks[t].stage = "settling"
    /\ Ends(t, FALSE) /\ UNCHANGED <<taskFrame, harness, items, running, astray>>

\* A cancelled task unwinds, and so does one that finds its run superseded.
Unwind(t) ==
    /\ tasks[t].doomed \/ (~Applies(t) /\ tasks[t].stage \in {"confirming", "running"})
    /\ harness' = IF Held(t) THEN [harness EXCEPT ![tasks[t].home].busy = 0] ELSE harness
    /\ Ends(t, FALSE) /\ UNCHANGED <<taskFrame, items, running, astray>>

\* A tool swallows the cancellation (BashTool).
Swallow(t) ==
    /\ tasks[t].doomed /\ tasks[t].stage = "running"
    /\ tasks' = [tasks EXCEPT ![t].doomed = FALSE]
    /\ UNCHANGED <<taskFrame, worker, harness, viewVars, answered>>

Step(t) ==
    /\ Live(t)
    /\ \/ Enqueue(t) \/ Refuse(t) \/ Begin(t) \/ Confirm(t) \/ Drain(t)
       \/ Finish(t) \/ Settle(t) \/ Unwind(t) \/ Swallow(t)

Next ==
    \/ \E p \in Prompts : Type(p) \/ \E shown \in BOOLEAN : Deliver(p, shown)
    \/ \E follow \in BOOLEAN : Submit(follow)
    \/ Terminal \/ EditQueued \/ Escape \/ Compact \/ NewSession \/ ResumeCommand \/ Pick \/ PickedResumes
    \/ \E c \in DOMAIN compactions, ok \in BOOLEAN : CompactionEnds(c, ok)
    \/ \E t \in DOMAIN tasks : Step(t)

Spec == Init /\ [][Next]_vars
-----------------------------------------------------------------------------
TypeOK ==
    /\ input \in Prompts \cup {None} /\ worker \in 0 .. Len(tasks) /\ compacting \in 0 .. Len(compactions)
    /\ running \in BOOLEAN /\ pending \subseteq 1 .. run /\ items \in Seq(Prompts)

\* The screen shows each message of the session once and in order, and the prompt
\* that waits for its run behind them (custom-frontend.md:57, app.py:3895): the
\* optimistic copy and the confirming event never make two, nor none.
ViewFaithful ==
    LET taken  == harness[home].taken
        hidden == {t \in DOMAIN tasks : ~tasks[t].doomed /\ tasks[t].stage = "confirming" /\ tasks[t].run \notin pending}
        early  == {t \in DOMAIN tasks : ~tasks[t].doomed /\ tasks[t].stage = "starting" /\ tasks[t].run \in pending}
    IN  ~astray =>
            IF hidden # {} THEN taken = Append(items, Last(taken))
            ELSE IF early # {} THEN \E t \in early : items = Append(taken, tasks[t].prompt)
            ELSE items = taken

\* While the worker's run uses the harness of this session, Enter queues: no late
\* event of an older run makes the screen say that nothing runs.
BusyShown ==
    \A t \in Workers :
        tasks[t].stage \in {"confirming", "running"} /\ tasks[t].run = run /\ tasks[t].home = home => running

\* A prompt is in one place: the editor, a task, a queue or a session.
Kept(h) == harness[h].taken \o Queued(h)
Places(p) ==
    Cardinality({t \in Workers : tasks[t].stage = "starting" /\ tasks[t].prompt = p /\ ~tasks[t].doomed})
    + Cardinality({t \in DOMAIN tasks : tasks[t].stage \in {"steering", "following"} /\ tasks[t].prompt = p})
    + (IF input = p THEN 1 ELSE 0)
    + FoldSet(LAMBDA h, n : n + Cardinality({i \in DOMAIN Kept(h) : Kept(h)[i] = p}), 0, DOMAIN harness)
OnePlace == \A p \in Prompts : Places(p) <= 1

\* "Enter (while running) queues your text" (tui.md:45), and a run must not start
\* while another is active (custom-frontend.md:48): a prompt that was submitted
\* reaches the session or comes back, unless the user gives it up. The code breaks
\* it: until AgentStartEvent the screen does not know of the run, and the next
\* prompt cancels the one that is starting.
NoPromptLost == \A p \in submitted \ answered : Places(p) >= 1
=============================================================================
