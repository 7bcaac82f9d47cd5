------------------------------- MODULE WebHost -------------------------------
(***************************************************************************)
(* The web runtime above its slots (tau_coding/web.py): HTTP requests that *)
(* create, configure, prompt and delete sessions, the sessions they load   *)
(* into memory, and the shutdown of the server. A step is what a coroutine *)
(* does between two points at which it really suspends (a write to the     *)
(* session file does not); a thread waits for each coroutine, and gives up *)
(* after a while. A slot, and a loaded session (a handle), has the name of *)
(* the request that made it.                                               *)
(***************************************************************************)
EXTENDS Naturals, FiniteSets

CONSTANTS Sessions, Requests, Models, Levels, None,
          Offers    \* the thinking levels of each model

VARIABLES
    web,      \* [records: model of each indexed session, file: the last [model, level] in
              \*  its file (None: no file), slots: slot of a session, held: handle of each
              \*  slot, task: its run task, on: the handle it runs, open: open handles, chosen: [model, level] of
              \*  each handle, loads: the session of each handle loaded so far]
    co,       \* the coroutine of each request, with its arguments and its HTTP answer
    host,     \* "up", "waiting", "closing" or "stopped"
    visited, size   \* the loop of _shutdown over the slots

vars == <<web, co, host, visited, size>>

With(f, x, v) == [y \in DOMAIN f \cup {x} |-> IF y = x THEN v ELSE f[y]]
Without(f, x) == [y \in DOMAIN f \ {x} |-> f[y]]
Empty == [x \in {} |-> None]

\* Fault: the level is kept when the model is switched.
Coerced_Kept(m, l) == l

\* _coerced_thinking_level, without a remembered preference.
Coerced(m, l) == IF Offers[m] = {} \/ l \in Offers[m] THEN l ELSE CHOOSE x \in Offers[m] : TRUE

\* resolve_startup_thinking_level
Startup(m) == CHOOSE l \in Levels : Offers[m] = {} \/ l \in Offers[m]

Init ==
    /\ \E known \in {{}, Sessions} : \E m \in Models :
          web = [records |-> [s \in known |-> m], file |-> [s \in Sessions |-> None],
                 slots |-> Empty, held |-> [r \in Requests |-> None],
                 task |-> [r \in Requests |-> "none"], on |-> [r \in Requests |-> None],
                 open |-> {}, chosen |-> Empty, loads |-> Empty]
    /\ co = [r \in Requests |-> [at |-> "none", kind |-> None, session |-> None, model |-> None,
                 level |-> None, slot |-> None, handle |-> None, read |-> None, answer |-> None]]
    /\ host = "up" /\ visited = {} /\ size = 0
-----------------------------------------------------------------------------
\* A coroutine and what it works on, after its step: <<web, coroutine>>.
Waits(w, c, where) == <<w, [c EXCEPT !.at = where]>>
Over(w, c, answer) == <<w, [c EXCEPT !.at = "over", !.answer = IF @ = None THEN answer ELSE @]>>

\* What CodingSession.load reads: the file decides, if there is one.
Reads(w, c) ==
    IF w.file[c.session] # None THEN w.file[c.session]
    ELSE [model |-> w.records[c.session], level |-> Startup(w.records[c.session])]
Loads(w, c) == Waits(w, [c EXCEPT !.read = Reads(w, c)], "loading")

\* _create_session cleans up: the handle is closed first, if there is one.
Undone(w, c) == Over([w EXCEPT !.records = Without(@, c.session)], c, "failed")
CreateFails(w, c) ==
    LET popped == [w EXCEPT !.slots = Without(@, c.session)]
    IN  IF c.handle = None THEN Undone(popped, c) ELSE Waits(popped, c, "undoing")

\* Fault: the index keeps the old model.
Record_Kept(w, s, m) == w.records

\* _persist_active_model_metadata
Record(w, s, m) == [x \in DOMAIN w.records |-> IF x = s THEN m ELSE w.records[x]]

\* _update_session_configuration, once the session is loaded; its harness does not run
\* then. What is chosen is appended to the file, if it changes.
Configured(w, c) ==
    LET was == w.chosen[c.handle]
        new == [model |-> c.model, level |-> IF c.level # None THEN c.level ELSE Coerced(c.model, was.level)]
    IN  Over([w EXCEPT !.chosen[c.handle] = new, !.records = Record(w, c.session, c.model),
                       !.file[c.session] = IF new = was THEN @ ELSE new],
             c, IF c.session \in DOMAIN w.records THEN "ok" ELSE "not_found")

\* _submit, once the session is loaded.
Submitted(w, c) ==
    IF w.task[c.slot] = "none" THEN Over([w EXCEPT !.task[c.slot] = "created"], c, "accepted")
    ELSE Over(w, c, "busy")

\* _create_session, once the session is loaded: level and initial entries are written.
Created(w, c) ==
    LET new == [w.chosen[c.handle] EXCEPT !.level = c.level]
    IN  Over([w EXCEPT !.chosen[c.handle] = new, !.file[c.session] = new], c, "created")

Continues(w, c) ==
    CASE c.kind = "create" -> Created(w, c) [] c.kind = "configure" -> Configured(w, c) [] OTHER -> Submitted(w, c)

\* _ensure_handle does not suspend when the slot has a handle.
Ensures(w, c) ==
    IF w.held[c.slot] = None THEN Loads(w, c) ELSE Continues(w, [c EXCEPT !.handle = w.held[c.slot]])

\* The slot of the session, a new one if it has none.
Slotted(w, r, s) == IF s \in DOMAIN w.slots THEN w ELSE [w EXCEPT !.slots = With(@, s, r)]

Step(r, result) == web' = result[1] /\ co' = [co EXCEPT ![r] = result[2]]

Asked(r, kind, s, m, l) == [co[r] EXCEPT !.kind = kind, !.session = s, !.model = m, !.level = l]
-----------------------------------------------------------------------------
Fresh(s) == s \notin DOMAIN web.records /\ \A q \in Requests : co[q].session # s

\* _create_session: the session is indexed, then loaded if a level was asked for.
Create(r, s, m, l) ==
    LET c == [Asked(r, "create", s, m, l) EXCEPT !.slot = r]
        indexed == [web EXCEPT !.records = With(@, s, m)]
    IN  /\ Fresh(s)
        /\ IF l = None THEN Step(r, Over(indexed, c, "created"))
           ELSE IF l \notin Offers[m] THEN Step(r, Over(web, c, "invalid"))
           ELSE Step(r, Loads(Slotted(indexed, r, s), c))

\* _update_session_configuration
Configure(r, s, m, l) ==
    LET w == Slotted(web, r, s)
        c == [Asked(r, "configure", s, m, l) EXCEPT !.slot = w.slots[s]]
    IN  IF s \notin DOMAIN web.records THEN Step(r, Over(web, Asked(r, "configure", s, m, l), "not_found"))
        ELSE IF w.task[w.slots[s]] # "none" THEN Step(r, Over(w, c, "busy"))
        ELSE IF l # None /\ l \notin Offers[m] THEN Step(r, Over(w, c, "invalid"))
        ELSE Step(r, Ensures(w, c))

\* _submit, without commands and marked messages.
Submit(r, s) ==
    LET w == Slotted(web, r, s)
        c == [Asked(r, "submit", s, None, None) EXCEPT !.slot = w.slots[s]]
    IN  IF s \notin DOMAIN web.records THEN Step(r, Over(web, Asked(r, "submit", s, None, None), "not_found"))
        ELSE Step(r, Ensures(w, c))

\* The end of _delete_session.
Removed(w, c) ==
    LET popped == [w EXCEPT !.slots = Without(@, c.session), !.records = Without(@, c.session)]
    IN  Over(popped, c, IF c.session \in DOMAIN w.records THEN "deleted" ELSE "not_found")

\* _delete_session
Delete(r, s) ==
    LET o == IF s \in DOMAIN web.slots THEN web.slots[s] ELSE None
        c == [Asked(r, "delete", s, None, None) EXCEPT !.slot = o]
    IN  IF s \notin DOMAIN web.records THEN Step(r, Over(web, c, "not_found"))
        ELSE IF o = None THEN Step(r, Removed(web, c))
        ELSE IF web.task[o] # "none" THEN Step(r, Over(web, c, "busy"))
        ELSE IF web.held[o] = None THEN Step(r, Removed(web, c))
        ELSE Step(r, Waits(web, [c EXCEPT !.handle = web.held[o]], "deleting"))

\* _call: a closed runtime takes no more calls.
Receive(r) ==
    /\ host = "up" /\ co[r].at = "none"
    /\ \E s \in Sessions :
          \/ \E m \in Models, l \in Levels \cup {None} : Create(r, s, m, l) \/ Configure(r, s, m, l)
          \/ Submit(r, s)
          \/ Delete(r, s)
    /\ UNCHANGED <<host, visited, size>>
-----------------------------------------------------------------------------
\* _ensure_handle, when the session is loaded and its extensions have started: the handle
\* takes the slot, whatever the slot holds by now.
Load(r, w, c) ==
    [w EXCEPT !.held[c.slot] = r, !.open = @ \cup {r}, !.loads = With(@, r, c.session),
              !.chosen = With(@, r, [c.read EXCEPT !.level = Coerced(c.read.model, @)])]
Loaded(r) ==
    /\ co[r].at = "loading"
    /\ Step(r, Continues(Load(r, web, co[r]), [co[r] EXCEPT !.handle = r]))

\* The coroutine resumes after an aclose.
Resumes(r) ==
    LET c == co[r]
        closed == [web EXCEPT !.open = @ \ {c.handle}]
    IN  \/ c.at = "undoing" /\ Step(r, Undone(closed, c))
        \/ c.at = "deleting" /\ Step(r, Removed([closed EXCEPT !.held[c.slot] = None], c))

\* Fault: a creation that is cancelled is left as it is.
Raised_Left(c) == FALSE

\* What cleans up after an exception: a creation, BaseException included.
Raised(c) == c.kind = "create"

\* A load fails, the first write of a creation does, or the coroutine is cancelled in a
\* load or in a delete; while a creation is undone all this is suppressed.
Raises(r) ==
    LET c == co[r]
        loaded == Load(r, web, c)
    IN  \/ /\ c.at \in {"loading", "deleting"}
           /\ Step(r, IF Raised(c) THEN CreateFails(web, c) ELSE Over(web, c, "failed"))
        \/ /\ c.at = "loading" /\ c.kind = "create"
           /\ Step(r, CreateFails(loaded, [c EXCEPT !.handle = r]))

Proceed(r) == (Loaded(r) \/ Resumes(r) \/ Raises(r)) /\ UNCHANGED <<host, visited, size>>

\* _call: the thread answers 503; the coroutine is cancelled later (Raises), if it still runs.
GiveUp(r) ==
    /\ co[r].at \notin {"none", "over"} /\ co[r].answer = None
    /\ co' = [co EXCEPT ![r].answer = "unavailable"]
    /\ UNCHANGED <<web, host, visited, size>>

\* The run task of a slot, which takes the handle that the slot has when it begins; the
\* work around the run of the harness is one phase. What a run writes goes to the branch
\* of its handle, whose model and level then count.
Began(o) ==
    IF \E s \in DOMAIN web.records : s \in DOMAIN web.slots /\ web.slots[s] = o /\ web.held[o] # None
    THEN [web EXCEPT !.task[o] = "around", !.on[o] = web.held[o]] ELSE [web EXCEPT !.task[o] = "none"]

RunGoes(o) ==
    /\ web' \in CASE web.task[o] = "created" -> {Began(o)}
        [] web.task[o] = "around" ->
            {[web EXCEPT !.task[o] = "none"],
             [web EXCEPT !.task[o] = "running", !.file[web.loads[web.on[o]]] = web.chosen[web.on[o]]]}
        [] web.task[o] = "running" -> {[web EXCEPT !.task[o] = t] : t \in {"around", "none"}}
        [] OTHER -> {}
    /\ UNCHANGED <<co, host, visited, size>>
-----------------------------------------------------------------------------
SlotsNow == {web.slots[s] : s \in DOMAIN web.slots}
Busy == {o \in SlotsNow : web.held[o] # None /\ web.task[o] # "none"}

\* close and _shutdown: runs are cancelled and awaited for two seconds.
Shutdown ==
    /\ host = "up"
    /\ host' = IF Busy = {} THEN "closing" ELSE "waiting"
    /\ size' = Cardinality(DOMAIN web.slots) /\ UNCHANGED <<web, co, visited>>

Awaited ==
    /\ host = "waiting" /\ host' = "closing" /\ size' = Cardinality(DOMAIN web.slots)
    /\ web' = [web EXCEPT !.task = [o \in Requests |-> IF o \in Busy THEN "none" ELSE @[o]]]
    /\ UNCHANGED <<co, visited>>

\* The loop that closes the handles: it suspends in aclose, and it raises when the
\* dictionary has changed its size meanwhile.
CloseNext ==
    /\ host = "closing"
    /\ IF Cardinality(DOMAIN web.slots) # size \/ DOMAIN web.slots \subseteq visited
       THEN host' = "stopped" /\ UNCHANGED <<web, visited>>
       ELSE \E s \in DOMAIN web.slots \ visited :
              /\ visited' = visited \cup {s} /\ UNCHANGED host
              /\ web' = [web EXCEPT !.open = @ \ {web.held[web.slots[s]]}, !.held[web.slots[s]] = None]
    /\ UNCHANGED <<co, size>>

Next ==
    /\ host # "stopped"
    /\ \/ \E r \in Requests : Receive(r) \/ Proceed(r) \/ GiveUp(r) \/ RunGoes(r)
       \/ Shutdown \/ Awaited \/ CloseNext

Spec == Init /\ [][Next]_vars
-----------------------------------------------------------------------------
TypeOK ==
    /\ DOMAIN web.records \cup DOMAIN web.slots \subseteq Sessions /\ web.open \subseteq DOMAIN web.loads
    /\ \A r \in Requests : web.held[r] \in DOMAIN web.chosen \cup {None}

\* Whatever requests interleave, a session has a level that its model offers.
LevelFits == \A h \in web.open : web.chosen[h].level \in Offers[web.chosen[h].model]

\* A creation that fails, at whichever await, leaves no session in the index, and the
\* session it loaded is closed.
FailedCreateGone ==
    \A r \in Requests : co[r].kind = "create" /\ co[r].at = "over" /\ co[r].answer \in {"failed", "invalid"} =>
        co[r].session \notin DOMAIN web.records /\ co[r].handle \notin web.open

\* The index has the model that a session which was loaded once works with.
ModelRecorded ==
    \A h \in web.open : \A s \in DOMAIN web.records :
        web.loads[h] = s /\ (\A g \in DOMAIN web.loads \ {h} : web.loads[g] # s) =>
            web.records[s] = web.chosen[h].model

\* "A change is allowed only while the session is idle" (tau-web-agent-controls.md:48).
\* The code breaks it when two first requests load the session at once.
ChangedIdle ==
    [][ \A r \in Requests : co[r].kind = "configure" /\ co[r].answer = None /\ co'[r].answer = "ok"
            => web.task[co[r].slot] = "none" ]_vars

\* "Server shutdown ... closes all `CodingSession` instances and provider clients"
\* (tau-web-live-session-adapter.md:140). The code breaks it for a session that is
\* loaded by two requests at once.
ShutdownCloses == host = "stopped" => web.open = {}
=============================================================================
