------------------------- MODULE WebRuntime_proofs -------------------------
(***************************************************************************)
(* Proofs about WebRuntime: WebInv is an inductive invariant, for every    *)
(* number of requests, browsers and authorizations.                        *)
(***************************************************************************)
EXTENDS WebRuntime, FiniteSetTheorems, TLAPS

Places == Prompting \cup {"none", "new", "loading", "created", "summarizing",
                          "cancelling", "unstarted", "done"}

-----------------------------------------------------------------------------
(* The types.                                                              *)

LEMMA InitTypes == Init => TypeOK
<1> SUFFICES ASSUME Init PROVE TypeOK
  OBVIOUS
<1> USE DEF Init
<1>1. at \in [Owners -> Places]
  BY DEF Places
<1>2. asking \in [Owners -> 0 .. MaxAsks]
  BY WebAssumption
<1>3. on \in [Owners -> Requests \cup {None}] /\ kind \in [Requests -> Kinds \cup {None}]
  OBVIOUS
<1> QED
  BY <1>1, <1>2, <1>3 DEF TypeOK, Places

\* A run is reported with a status, and the slot keeps its type.
LEMMA FinishTypes ==
    ASSUME TypeOK, NEW s \in Statuses, FinishRun(s)
    PROVE  /\ {runId', taskId'} \subseteq Requests \cup {None}
           /\ runKind' \in {"prompt", "compact", None} /\ cancelRequested' \in BOOLEAN
           /\ finished' \in [Requests -> Statuses \cup {"none"}]
<1>1. Reported(s) \in Statuses
  BY DEF Reported, Statuses
<1> QED
  BY <1>1 DEF FinishRun, TypeOK, slotVars

\* Whatever a coroutine leaves with, the slot keeps its type.
LEMMA LeaveTypes ==
    ASSUME TypeOK, NEW o \in Owners, NEW S, S \subseteq Statuses, Leave(o, S)
    PROVE  /\ at' \in [Owners -> Places] /\ on' \in [Owners -> Requests \cup {None}]
           /\ signalled' \subseteq Owners /\ retried' \subseteq Owners
           /\ {runId', taskId'} \subseteq Requests \cup {None}
           /\ runKind' \in {"prompt", "compact", None} /\ cancelRequested' \in BOOLEAN
           /\ finished' \in [Requests -> Statuses \cup {"none"}]
           /\ \A p \in Owners : at'[p] = IF p = o THEN "done" ELSE at[p]
<1>1. at' \in [Owners -> Places] /\ \A p \in Owners : at'[p] = IF p = o THEN "done" ELSE at[p]
  BY DEF Leave, TypeOK, Places
<1>2. on' \in [Owners -> Requests \cup {None}] /\ signalled' \subseteq Owners /\ retried' \subseteq Owners
  BY DEF Leave, TypeOK
<1>3. \/ UNCHANGED slotVars
      \/ \E s \in Statuses : FinishRun(s)
  BY DEF Leave
<1> QED
  BY <1>1, <1>2, <1>3, FinishTypes DEF TypeOK, slotVars

\* A coroutine awaits an authorization there is.
LEMMA AskTypes ==
    ASSUME TypeOK
    PROVE  /\ \A o \in Owners : asking[o] # 0 => asking[o] \in Asks
           /\ Pending \subseteq Asks
           /\ 0 \notin Asks
<1>1. \A o \in Owners : asking[o] # 0 => asking[o] \in Asks
  <2> SUFFICES ASSUME NEW o \in Owners, asking[o] # 0
               PROVE  asking[o] \in Asks
    OBVIOUS
  <2>1. asking[o] \in 0 .. MaxAsks
    BY DEF TypeOK
  <2> QED
    BY <2>1, WebAssumption DEF Asks
<1>2. 0 \notin Asks
  BY WebAssumption DEF Asks
<1> QED
  BY <1>1, <1>2 DEF Pending

LEMMA DecideTypes ==
    ASSUME TypeOK, NEW S, S \subseteq Asks, NEW d \in Answers \cup {"read"}, Decide(S, d)
    PROVE  /\ decision' \in [Asks -> Answers \cup {"new", "undecided", "read"}]
           /\ denied' \subseteq Asks
BY DEF Decide, TypeOK

LEMMA DispatchTypes ==
    ASSUME TypeOK, NEW r \in Requests, at[r] \in {"new", "loading"},
           NEW k, NEW h \in Requests, Dispatch(r, k, h)
    PROVE  /\ at' \in [Owners -> Places] /\ on' \in [Owners -> Requests \cup {None}]
           /\ started' \subseteq Requests
           /\ {runId', taskId'} \subseteq Requests \cup {None}
           /\ runKind' \in {"prompt", "compact", None} /\ cancelRequested' \in BOOLEAN
           /\ finished' \in [Requests -> Statuses \cup {"none"}]
           /\ \A o \in Owners : at[o] = "running" => at'[o] = "running"
<1> USE WebAssumption DEF TypeOK, Places, Prompting, Owners, slotVars
<1>1. CASE Active
  BY <1>1 DEF Dispatch, Join
<1>2. CASE ~ Active
  <2>1. StartTask(r, k)
    BY <1>2 DEF Dispatch
  <2>2. at' = [at EXCEPT ![r] = "done", ![Task] = "created"]
    BY <2>1 DEF StartTask
  <2>3. at' \in [Owners -> Places]
    BY <2>2
  <2>4. \A o \in Owners : at[o] = "running" => o # Task /\ o # r
    BY <1>2 DEF Active
  <2>5. \A o \in Owners : at[o] = "running" => at'[o] = "running"
    BY <2>2, <2>4
  <2> QED
    <3>1. /\ started' = started \cup {r} /\ runId' = r /\ taskId' = r
          /\ runKind' \in {"prompt", "compact"} /\ cancelRequested' = FALSE
          /\ UNCHANGED <<on, finished>>
      BY <2>1 DEF StartTask
    <3> QED
      BY <3>1, <2>3, <2>5
<1> QED
  BY <1>1, <1>2

LEMMA TypesKept == TypeOK /\ (Active => taskId \in Requests) /\ [Next]_vars => TypeOK'
<1> SUFFICES ASSUME TypeOK, Active => taskId \in Requests, [Next]_vars PROVE TypeOK'
  OBVIOUS
<1> USE WebAssumption DEF TypeOK, slotVars, askVars, runVars, peers
<1>1. ASSUME NEW r \in Requests, NEW k \in Kinds, Submit(r, k)
      PROVE  TypeOK'
  <2>1. CASE handle = None
    BY <1>1, <2>1 DEF Submit, Owners
  <2>2. CASE handle # None
    <3>1. Dispatch(r, k, handle) /\ handle \in Requests /\ at[r] \in {"new", "loading"}
      BY <1>1, <2>2 DEF Submit
    <3> QED
      BY <1>1, <3>1, DispatchTypes DEF Submit, Places
  <2> QED
    BY <2>1, <2>2
<1>2. ASSUME NEW r \in Requests, Loaded(r)
      PROVE  TypeOK'
  <2>1. Dispatch(r, kind[r], r) /\ at[r] \in {"new", "loading"}
    BY <1>2 DEF Loaded
  <2> QED
    BY <1>2, <2>1, DispatchTypes DEF Loaded, Places
<1>3. ASSUME NEW r \in Requests, Abandon(r)
      PROVE  TypeOK'
  <2>1. {asking[r]} \ {0} \subseteq Asks
    BY AskTypes DEF Owners
  <2>2. /\ decision' \in [Asks -> Answers \cup {"new", "undecided", "read"}]
        /\ denied' \subseteq Asks
    BY <1>3, <2>1, DecideTypes DEF Abandon
  <2>3. /\ at' = [at EXCEPT ![r] = "done"] /\ asking' = [asking EXCEPT ![r] = 0]
        /\ on' = [on EXCEPT ![r] = None]
        /\ signalled' = signalled \ {r} /\ retried' = retried \ {r}
    BY <1>3 DEF Abandon
  <2> QED
    BY <1>3, <2>2, <2>3 DEF Abandon, Owners
<1>4. CASE TaskStart
  BY <1>4 DEF TaskStart, Move, Owners, Prompting
<1>5. CASE EndCompaction
  <2>1. CASE at[Task] = "summarizing" /\ Leave(Task, Ends)
    BY <1>5, <2>1, LeaveTypes DEF EndCompaction, RunFrame, Owners, Places, Statuses
  <2>2. CASE at[Task] = "cancelling" /\ Move(Task, "done")
    <3>1. /\ FinishRun("cancelled") /\ on' = [on EXCEPT ![Task] = None]
          /\ UNCHANGED <<signalled, retried, askVars>> /\ RunFrame
      BY <1>5, <2>2 DEF EndCompaction
    <3>2. "cancelled" \in Statuses
      BY DEF Statuses
    <3> QED
      BY <2>2, <3>1, <3>2, FinishTypes DEF RunFrame, Move, Owners
  <2>3. CASE at[Task] = "unstarted" /\ Move(Task, "done") /\ UNCHANGED <<slotVars, on, signalled, retried>>
    BY <1>5, <2>3 DEF EndCompaction, RunFrame, Move, Owners
  <2> QED
    BY <1>5, <2>1, <2>2, <2>3 DEF EndCompaction
<1>6. ASSUME NEW o \in Owners, PromptStep(o)
      PROVE  TypeOK'
  <2>1. CASE AfterHooks(o)
    <3>1. CASE Leave(o, Ends)
      BY <2>1, <3>1, LeaveTypes DEF AfterHooks, RunFrame, Places, Statuses
    <3>2. CASE ~ Leave(o, Ends)
      BY <2>1, <3>2 DEF AfterHooks, RunFrame, Move, Prompting
    <3> QED
      BY <3>1, <3>2
  <2>2. CASE BeginRun(o)
    <3>1. CASE Leave(o, {"failed"})
      BY <2>2, <3>1, LeaveTypes DEF BeginRun, RunFrame, Places, Statuses, Ends
    <3>2. CASE ~ Leave(o, {"failed"})
      BY <2>2, <3>2 DEF BeginRun, RunFrame, Move, Prompting
    <3> QED
      BY <3>1, <3>2
  <2>3. CASE Resolved(o)
    <3>1. asking[o] \in Asks
      BY <2>3, AskTypes DEF Resolved
    <3>2. Interrupted(handle) \subseteq Owners
      BY DEF Interrupted
    <3> QED
      <4>1. /\ asking' = [asking EXCEPT ![o] = 0]
            /\ decision' = [decision EXCEPT ![asking[o]] = "read"]
            /\ executed' \in {executed, executed \cup {asking[o]}}
            /\ signalled' \in {signalled, signalled \cup Interrupted(handle)}
            /\ cancelRequested' \in BOOLEAN
            /\ UNCHANGED <<denied, runId, taskId, runKind, finished, at, on, retried>>
            /\ RunFrame
        BY <2>3 DEF Resolved
      <4> HIDE DEF runVars, slotVars, askVars
      <4> QED
        BY <3>1, <3>2, <4>1 DEF RunFrame
  <2>4. CASE AuthTimeout(o)
    <3>1. {asking[o]} \subseteq Asks /\ Decide({asking[o]}, "read")
      BY <2>4, AskTypes DEF AuthTimeout
    <3>2. /\ decision' \in [Asks -> Answers \cup {"new", "undecided", "read"}]
          /\ denied' \subseteq Asks
      BY <3>1, DecideTypes
    <3> QED
      BY <2>4, <3>2 DEF AuthTimeout, RunFrame
  <2>5. CASE EndRun(o)
    <3>1. CASE Leave(o, Ends)
      BY <2>5, <3>1, LeaveTypes DEF EndRun, RunFrame, Places, Statuses
    <3>2. CASE ~ Leave(o, Ends)
      BY <2>5, <3>2 DEF EndRun, RunFrame, Move, Prompting
    <3> QED
      BY <3>1, <3>2
  <2>6. CASE Settle(o)
    <3>1. CASE Leave(o, Ends)
      BY <2>6, <3>1, LeaveTypes DEF Settle, RunFrame, Places, Statuses
    <3>2. CASE ~ Leave(o, Ends)
      BY <2>6, <3>2 DEF Settle, RunFrame, Move, Prompting
    <3> QED
      BY <3>1, <3>2
  <2> QED
    BY <1>6, <2>1, <2>2, <2>3, <2>4, <2>5, <2>6 DEF PromptStep
<1>7. ASSUME NEW o \in Owners, AskTool(o)
      PROVE  TypeOK'
  BY <1>7 DEF AskTool, RunFrame, Asks
<1>8. ASSUME NEW c \in Clients, Subscribe(c) \/ Unsubscribe(c)
      PROVE  TypeOK'
  <2>1. CASE Subscribe(c)
    BY <2>1 DEF Subscribe
  <2>2. CASE Unsubscribe(c)
    <3>1. Undecided \subseteq Asks /\ "deny" \in Answers
      BY AskTypes DEF Undecided, Answers
    <3>2. Decide(Undecided, "deny") \/ UNCHANGED <<decision, denied>>
      BY <2>2 DEF Unsubscribe
    <3>3. /\ decision' \in [Asks -> Answers \cup {"new", "undecided", "read"}]
          /\ denied' \subseteq Asks
      BY <3>1, <3>2, DecideTypes
    <3> QED
      BY <2>2, <3>3 DEF Unsubscribe
  <2> QED
    BY <1>8, <2>1, <2>2
<1>9. ASSUME NEW a \in Asks, NEW d \in Answers, Respond(a, d)
      PROVE  TypeOK'
  <2>1. /\ decision' \in [Asks -> Answers \cup {"new", "undecided", "read"}]
        /\ denied' \subseteq Asks
    BY <1>9, DecideTypes DEF Respond
  <2> QED
    BY <1>9, <2>1 DEF Respond
<1>10. CASE Cancel
  <2>1. Undecided \subseteq Asks /\ "cancel" \in Answers
    BY AskTypes DEF Undecided, Answers
  <2>2. /\ decision' \in [Asks -> Answers \cup {"new", "undecided", "read"}]
        /\ denied' \subseteq Asks
    BY <1>10, <2>1, DecideTypes DEF Cancel
  <2>3. Interrupted(handle) \subseteq Owners
    BY DEF Interrupted
  <2>4. /\ at' \in [Owners -> Places]
        /\ \A o \in Owners : at[o] = "running" => at'[o] = "running"
    BY <1>10 DEF Cancel, Move, Places, Owners
  <2>5. taskId \in Requests
    BY <1>10 DEF Cancel
  <2> QED
    BY <1>10, <2>2, <2>3, <2>4, <2>5 DEF Cancel, Places
<1>11. CASE Delete \/ DeleteDone
  BY <1>11 DEF Delete, DeleteDone
<1>12. CASE UNCHANGED vars
  BY <1>12 DEF vars
<1> QED
  BY <1>1, <1>2, <1>3, <1>4, <1>5, <1>6, <1>7, <1>8, <1>9, <1>10, <1>11, <1>12
  DEF Next, TaskStep, Owners

-----------------------------------------------------------------------------
(* Authorizations.                                                         *)

\* A coroutine stops waiting without an answer.
Withdraw(o) ==
    /\ asking' = [asking EXCEPT ![o] = 0]
    /\ Decide({asking[o]} \ {0}, "read")
    /\ UNCHANGED executed

\* What a step does to the authorizations.
LEMMA AskSteps ==
    ASSUME TypeOK, Next
    PROVE  \/ UNCHANGED askVars
           \/ \E S \in SUBSET Undecided, d \in Answers :
                 Decide(S, d) /\ UNCHANGED <<asking, executed>>
           \/ \E o \in Owners : Withdraw(o) \/ Resolved(o) \/ AskTool(o)
<1> DEFINE Goal ==
             \/ UNCHANGED askVars
             \/ \E S \in SUBSET Undecided, d \in Answers :
                   Decide(S, d) /\ UNCHANGED <<asking, executed>>
             \/ \E o \in Owners : Withdraw(o) \/ Resolved(o) \/ AskTool(o)
<1>1. ASSUME NEW r \in Requests, NEW k \in Kinds, Submit(r, k)
      PROVE  Goal
  BY <1>1 DEF Submit
<1>2. ASSUME NEW r \in Requests, Loaded(r)
      PROVE  Goal
  BY <1>2 DEF Loaded
<1>3. ASSUME NEW r \in Requests, Abandon(r)
      PROVE  Goal
  <2>1. Withdraw(r)
    BY <1>3 DEF Abandon, Withdraw
  <2>2. r \in Owners
    BY DEF Owners
  <2> QED
    BY <2>1, <2>2
<1>4. CASE TaskStart \/ EndCompaction
  BY <1>4 DEF TaskStart, EndCompaction
<1>5. ASSUME NEW o \in Owners, PromptStep(o)
      PROVE  Goal
  <2>1. CASE AfterHooks(o) \/ BeginRun(o) \/ EndRun(o) \/ Settle(o)
    BY <2>1 DEF AfterHooks, BeginRun, EndRun, Settle
  <2>2. CASE AuthTimeout(o)
    <3>1. {asking[o]} \ {0} = {asking[o]}
      BY <2>2 DEF AuthTimeout
    <3>2. Withdraw(o)
      BY <2>2, <3>1 DEF AuthTimeout, Withdraw
    <3> QED
      BY <1>5, <3>2
  <2> QED
    BY <1>5, <2>1, <2>2 DEF PromptStep
<1>6. ASSUME NEW c \in Clients, Subscribe(c) \/ Unsubscribe(c)
      PROVE  Goal
  BY <1>6 DEF Subscribe, Unsubscribe, askVars, Answers
<1>7. ASSUME NEW a \in Asks, NEW d \in Answers, Respond(a, d)
      PROVE  Goal
  BY <1>7 DEF Respond
<1>8. CASE Cancel
  BY <1>8 DEF Cancel, Answers
<1>9. CASE Delete \/ DeleteDone
  BY <1>9 DEF Delete, DeleteDone
<1> QED
  BY <1>1, <1>2, <1>3, <1>4, <1>5, <1>6, <1>7, <1>8, <1>9 DEF Next, TaskStep, Owners

LEMMA AsksKept ==
    ASSUME TypeOK, AsksTracked, DenialsHold, [Next]_vars
    PROVE  AsksTracked' /\ DenialsHold'
<1>1. CASE UNCHANGED askVars
  BY <1>1 DEF askVars, AsksTracked, DenialsHold
<1>2. ASSUME NEW S \in SUBSET Undecided, NEW d \in Answers,
             Decide(S, d), UNCHANGED <<asking, executed>>
      PROVE  AsksTracked' /\ DenialsHold'
  <2>1. \A a \in S : a \in Asks /\ decision[a] = "undecided"
    BY AskTypes DEF Undecided
  <2>2. \A a \in Asks : decision'[a] = IF a \in S THEN d ELSE decision[a]
    BY <1>2 DEF Decide
  <2>3. d \notin {"new", "undecided", "read"}
    BY DEF Answers
  <2>4. \A a \in Asks : decision'[a] = "new" <=> decision[a] = "new"
    BY <2>1, <2>2, <2>3
  <2>5. (\E n \in 0 .. MaxAsks : \A a \in Asks : decision[a] = "new" <=> n < a)'
    BY <2>4 DEF AsksTracked, Asks
  <2>6. \A o \in Owners : asking'[o] # 0 => decision'[asking'[o]] \in Answers \cup {"undecided"}
    BY <1>2, <2>2, AskTypes DEF AsksTracked
  <2>7. \A a \in denied' : a \in denied \/ (a \in S /\ d # "allow")
    BY <1>2 DEF Decide
  <2>8. \A a \in Asks : decision'[a] \in {"new", "undecided", "allow"} => a \notin denied'
    BY <2>1, <2>2, <2>3, <2>7 DEF AsksTracked
  <2>9. \A a \in Asks : decision'[a] # "read" => a \notin executed'
    BY <1>2, <2>1, <2>2 DEF AsksTracked
  <2>10. DenialsHold'
    BY <1>2, <2>1, <2>7 DEF DenialsHold, AsksTracked
  <2> QED
    BY <1>2, <2>5, <2>6, <2>8, <2>9, <2>10 DEF AsksTracked
<1>3. ASSUME NEW o \in Owners, Withdraw(o)
      PROVE  AsksTracked' /\ DenialsHold'
  <2> DEFINE a0 == asking[o]
  <2>1. CASE a0 = 0
    <3>1. decision' = decision /\ denied' = denied /\ asking' = asking /\ executed' = executed
      BY <1>3, <2>1 DEF Withdraw, Decide, TypeOK
    <3> QED
      BY <3>1 DEF AsksTracked, DenialsHold
  <2>2. CASE a0 # 0
    <3>1. a0 \in Asks /\ decision[a0] \in Answers \cup {"undecided"}
      BY <2>2, AskTypes DEF AsksTracked
    <3>2. \A a \in Asks : decision'[a] = IF a = a0 THEN "read" ELSE decision[a]
      BY <1>3, <2>2 DEF Withdraw, Decide
    <3>3. denied' = denied \cup {a0}
      BY <1>3, <2>2 DEF Withdraw, Decide
    <3>4. \A p \in Owners : asking'[p] = IF p = o THEN 0 ELSE asking[p]
      BY <1>3 DEF Withdraw, TypeOK
    <3>5. \A a \in Asks : decision'[a] = "new" <=> decision[a] = "new"
      BY <3>1, <3>2 DEF Answers
    <3>6. (\E n \in 0 .. MaxAsks : \A a \in Asks : decision[a] = "new" <=> n < a)'
      BY <3>5 DEF AsksTracked, Asks
    <3>7. \A p \in Owners : asking'[p] # 0 => asking'[p] # a0
      BY <2>2, <3>4 DEF AsksTracked
    <3>8. \A p \in Owners : asking'[p] # 0 => decision'[asking'[p]] \in Answers \cup {"undecided"}
      BY <3>2, <3>4, <3>7, AskTypes DEF AsksTracked
    <3>9. \A p, q \in Owners : asking'[p] # 0 /\ asking'[p] = asking'[q] => p = q
      BY <3>4 DEF AsksTracked
    <3>10. \A a \in Asks :
            /\ decision'[a] \in {"new", "undecided", "allow"} => a \notin denied'
            /\ decision'[a] # "read" => a \notin executed'
      BY <1>3, <3>2, <3>3 DEF AsksTracked, Withdraw
    <3>11. DenialsHold'
      BY <1>3, <3>1, <3>3 DEF DenialsHold, AsksTracked, Withdraw, Answers
    <3> QED
      BY <3>6, <3>8, <3>9, <3>10, <3>11 DEF AsksTracked
  <2> QED
    BY <2>1, <2>2
<1>4. ASSUME NEW o \in Owners, Resolved(o)
      PROVE  AsksTracked' /\ DenialsHold'
  <2> DEFINE a0 == asking[o]
  <2>1. a0 # 0 /\ a0 \in Asks /\ decision[a0] \in Answers
    BY <1>4, AskTypes DEF Resolved
  <2>2. \A a \in Asks : decision'[a] = IF a = a0 THEN "read" ELSE decision[a]
    BY <1>4 DEF Resolved, TypeOK
  <2>3. \A p \in Owners : asking'[p] = IF p = o THEN 0 ELSE asking[p]
    BY <1>4 DEF Resolved, TypeOK
  <2>4. denied' = denied
    BY <1>4 DEF Resolved
  <2>5. \A a \in executed' : a \in executed \/ (a = a0 /\ decision[a0] = "allow")
    BY <1>4 DEF Resolved
  <2>6. \A a \in Asks : decision'[a] = "new" <=> decision[a] = "new"
    BY <2>1, <2>2 DEF Answers
  <2>7. (\E n \in 0 .. MaxAsks : \A a \in Asks : decision[a] = "new" <=> n < a)'
    BY <2>6 DEF AsksTracked, Asks
  <2>8. \A p \in Owners : asking'[p] # 0 => asking'[p] # a0
    BY <2>1, <2>3 DEF AsksTracked
  <2>9. \A p \in Owners : asking'[p] # 0 => decision'[asking'[p]] \in Answers \cup {"undecided"}
    BY <2>2, <2>3, <2>8, AskTypes DEF AsksTracked
  <2>10. \A p, q \in Owners : asking'[p] # 0 /\ asking'[p] = asking'[q] => p = q
    BY <2>3 DEF AsksTracked
  <2>11. \A a \in Asks :
          /\ decision'[a] \in {"new", "undecided", "allow"} => a \notin denied'
          /\ decision'[a] # "read" => a \notin executed'
    BY <2>2, <2>4, <2>5 DEF AsksTracked
  <2>12. DenialsHold'
    BY <2>1, <2>4, <2>5 DEF DenialsHold, AsksTracked
  <2> QED
    BY <2>7, <2>9, <2>10, <2>11, <2>12 DEF AsksTracked
<1>5. ASSUME NEW o \in Owners, AskTool(o)
      PROVE  AsksTracked' /\ DenialsHold'
  <2>1. PICK n \in 0 .. MaxAsks : \A a \in Asks : decision[a] = "new" <=> n < a
    BY DEF AsksTracked
  <2> DEFINE a0 == n + 1
  <2>2. n \in Nat /\ MaxAsks \in Nat /\ n <= MaxAsks
    BY WebAssumption
  <2>3. {b \in Asks : decision[b] # "new"} = 1 .. n
    BY <2>1, <2>2 DEF Asks
  <2>4. Cardinality(1 .. n) = n
    BY <2>2, FS_Interval
  <2>5. a0 = 1 + Cardinality({b \in Asks : decision[b] # "new"})
    <3>1. Cardinality({b \in Asks : decision[b] # "new"}) = n
      BY <2>3, <2>4
    <3> QED
      BY <2>2, <3>1
  <2>6. /\ a0 \in Asks
        /\ asking' = [asking EXCEPT ![o] = a0]
        /\ decision' = [decision EXCEPT ![a0] = "undecided"]
        /\ UNCHANGED <<denied, executed>>
    BY <1>5, <2>5 DEF AskTool
  <2>7. a0 \in 1 .. MaxAsks
    BY <2>6 DEF Asks
  <2>8. decision[a0] = "new"
    BY <2>1, <2>2, <2>6
  <2> HIDE DEF a0
  <2>9. \A a \in Asks : decision'[a] = IF a = a0 THEN "undecided" ELSE decision[a]
    BY <2>6 DEF TypeOK
  <2>10. \A p \in Owners : asking'[p] = IF p = o THEN a0 ELSE asking[p]
    BY <2>6 DEF TypeOK
  <2>11. (\E m \in 0 .. MaxAsks : \A a \in Asks : decision[a] = "new" <=> m < a)'
    <3>1. \A a \in Asks : decision'[a] = "new" <=> a0 < a
      BY <2>1, <2>2, <2>9 DEF a0, Asks
    <3>2. a0 \in 0 .. MaxAsks
      BY <2>2, <2>7
    <3> QED
      BY <3>1, <3>2
  <2>12. \A p \in Owners : asking[p] # 0 => asking[p] # a0
    BY <2>8 DEF AsksTracked, Answers
  <2>13. \A p \in Owners : asking'[p] # 0 => decision'[asking'[p]] \in Answers \cup {"undecided"}
    BY <2>6, <2>9, <2>10, AskTypes DEF AsksTracked
  <2>14. \A p, q \in Owners : asking'[p] # 0 /\ asking'[p] = asking'[q] => p = q
    BY <2>10, <2>12 DEF AsksTracked
  <2>15. \A a \in Asks :
          /\ decision'[a] \in {"new", "undecided", "allow"} => a \notin denied'
          /\ decision'[a] # "read" => a \notin executed'
    BY <2>6, <2>8, <2>9 DEF AsksTracked
  <2>16. DenialsHold'
    BY <2>6 DEF DenialsHold
  <2> QED
    BY <2>11, <2>13, <2>14, <2>15, <2>16 DEF AsksTracked
<1> QED
  <2>1. CASE Next
    BY <2>1, <1>1, <1>2, <1>3, <1>4, <1>5, AskSteps
  <2>2. CASE UNCHANGED vars
    BY <2>2, <1>1 DEF vars
  <2> QED
    BY <2>1, <2>2

-----------------------------------------------------------------------------
(* Undecided requests and the browsers.                                    *)

LEMMA UndecidedSteps ==
    ASSUME TypeOK, Next
    PROVE  \/ Undecided' \subseteq Undecided
           \/ clients # {} /\ UNCHANGED <<peers, deletion>>
<1>1. CASE UNCHANGED askVars
  BY <1>1 DEF askVars, Undecided, Pending
<1>2. ASSUME NEW S \in SUBSET Undecided, NEW d \in Answers,
             Decide(S, d), UNCHANGED <<asking, executed>>
      PROVE  Undecided' \subseteq Undecided
  <2>1. Pending' = Pending
    BY <1>2 DEF Pending
  <2>2. \A a \in Pending : decision'[a] = IF a \in S THEN d ELSE decision[a]
    BY <1>2, AskTypes DEF Decide
  <2>3. d # "undecided"
    BY DEF Answers
  <2> QED
    BY <2>1, <2>2, <2>3 DEF Undecided
<1>3. ASSUME NEW o \in Owners, Withdraw(o) \/ Resolved(o)
      PROVE  Undecided' \subseteq Undecided
  <2>1. \A p \in Owners : asking'[p] \in {0, asking[p]}
    BY <1>3 DEF Withdraw, Resolved, TypeOK
  <2>2. Pending' \subseteq Pending
    BY <2>1 DEF Pending
  <2>3. \A a \in Asks : decision'[a] \in {"read", decision[a]}
    BY <1>3 DEF Withdraw, Resolved, Decide, TypeOK
  <2> QED
    BY <2>2, <2>3, AskTypes DEF Undecided
<1>4. ASSUME NEW o \in Owners, AskTool(o)
      PROVE  clients # {} /\ UNCHANGED <<peers, deletion>>
  BY <1>4 DEF AskTool, RunFrame
<1> QED
  BY <1>1, <1>2, <1>3, <1>4, AskSteps

\* Only the browsers and a delete change who can answer.
LEMMA PeerSteps ==
    ASSUME Next
    PROVE  \/ UNCHANGED <<peers, deletion>>
           \/ \E c \in Clients : Subscribe(c) \/ Unsubscribe(c)
           \/ Delete \/ DeleteDone
BY DEF Next, TaskStep, PromptStep, Submit, Loaded, Abandon, TaskStart, EndCompaction, AfterHooks,
       BeginRun, Resolved, AuthTimeout, EndRun, Settle, AskTool, Respond, Cancel, RunFrame

LEMMA UndecidedStays ==
    ASSUME TypeOK, UndecidedKept, [Next]_vars
    PROVE  UndecidedKept'
<1>1. CASE UNCHANGED vars
  BY <1>1 DEF vars, askVars, peers, UndecidedKept, Undecided, Pending
<1>2. CASE Next
  <2>1. CASE UNCHANGED <<peers, deletion>>
    BY <1>2, <2>1, UndecidedSteps DEF UndecidedKept, peers
  <2>2. ASSUME NEW c \in Clients, Subscribe(c)
        PROVE  UndecidedKept'
    BY <2>2 DEF Subscribe, UndecidedKept
  <2>3. ASSUME NEW c \in Clients, Unsubscribe(c)
        PROVE  UndecidedKept'
    <3>1. CASE deletion = "done" \/ clients' # {}
      BY <2>3, <3>1 DEF Unsubscribe, UndecidedKept
    <3>2. CASE deletion # "done" /\ clients' = {}
      <4>1. Decide(Undecided, "deny") /\ UNCHANGED asking
        BY <2>3, <3>2 DEF Unsubscribe
      <4>2. \A a \in Asks : decision'[a] = IF a \in Undecided THEN "deny" ELSE decision[a]
        BY <4>1 DEF Decide
      <4>3. Undecided' = {}
        BY <4>1, <4>2, AskTypes DEF Undecided, Pending
      <4> QED
        BY <4>3 DEF UndecidedKept
    <3> QED
      BY <3>1, <3>2
  <2>4. CASE Delete
    <3>1. Undecided' = Undecided
      BY <2>4 DEF Delete, askVars, Undecided, Pending
    <3>2. deletion = "none" /\ leaving' = leaving \cup clients
      BY <2>4 DEF Delete
    <3> QED
      BY <3>1, <3>2 DEF UndecidedKept
  <2>5. CASE DeleteDone
    <3>1. Undecided' = Undecided
      BY <2>5 DEF DeleteDone, askVars, Undecided, Pending
    <3>2. deletion = "closing" /\ UNCHANGED <<clients, leaving>>
      BY <2>5 DEF DeleteDone, peers
    <3> QED
      BY <3>1, <3>2 DEF UndecidedKept
  <2> QED
    BY <1>2, <2>1, <2>2, <2>3, <2>4, <2>5, PeerSteps
<1> QED
  BY <1>1, <1>2

-----------------------------------------------------------------------------
(* The slot and its task.                                                  *)

RunInv == TaskTracked /\ OneRun /\ CancelReported

\* A step that leaves the slot's run alone, and the requests that have run.
LEMMA SlotFrame ==
    ASSUME TypeOK, RunInv,
           UNCHANGED <<started, cancelled, finished, taskId, runId, runKind>>,
           indexed' => indexed,
           Active' <=> Active,
           at'[Task] = "unstarted" => at[Task] = "unstarted",
           \A r \in started : at'[r] = at[r] /\ kind'[r] = kind[r],
           Active /\ indexed' => handle' # None,
           cancelRequested => cancelRequested'
    PROVE  RunInv'
<1> USE DEF RunInv
<1>1. \A r \in started : CutOff(r)' <=> CutOff(r)
  BY DEF CutOff
<1>2. \A r \in started : Settled(r)' <=> Settled(r)
  BY <1>1 DEF Settled
<1>3. taskId # None => taskId \in started
  BY DEF TaskTracked
<1>4. TaskTracked'
  <2>1. (Active =>
           /\ indexed => handle # None
           /\ runKind = "compact" => kind[taskId] = "compact"
           /\ at[Task] = "unstarted" => CutOff(taskId)
           /\ taskId \in cancelled => cancelRequested)'
    <3> SUFFICES ASSUME Active
                 PROVE  /\ indexed' => handle' # None
                        /\ runKind' = "compact" => kind'[taskId'] = "compact"
                        /\ at'[Task] = "unstarted" => CutOff(taskId)'
                        /\ taskId' \in cancelled' => cancelRequested'
      OBVIOUS
    <3>1. taskId \in started
      BY DEF OneRun
    <3>2. CutOff(taskId)' <=> CutOff(taskId)
      BY <3>1 DEF CutOff
    <3> QED
      BY <3>1, <3>2 DEF TaskTracked
  <2>2. (indexed /\ ~ Active /\ taskId # None => Settled(taskId))'
    <3> SUFFICES ASSUME indexed', ~ Active', taskId' # None
                 PROVE  Settled(taskId)'
      OBVIOUS
    <3>1. taskId \in started
      BY <1>3
    <3>2. Settled(taskId)' <=> Settled(taskId)
      BY <3>1 DEF Settled, CutOff
    <3> QED
      BY <3>2 DEF TaskTracked
  <2>3. (/\ \A r \in Requests : finished[r] # "none" => r \in started
         /\ cancelled \subseteq started
         /\ \A r \in started : at[r] = "done"
         /\ taskId \in started \cup {None})'
    BY DEF TaskTracked
  <2> QED
    BY <2>1, <2>2, <2>3 DEF TaskTracked
<1>5. OneRun'
  BY <1>2 DEF OneRun, Settled, CutOff
<1>6. CancelReported'
  BY DEF CancelReported
<1> QED
  BY <1>4, <1>5, <1>6

\* The task ends and its run is reported.
LEMMA SlotReported ==
    ASSUME TypeOK, RunInv, Active, NEW s \in Statuses, FinishRun(s),
           at' = [at EXCEPT ![Task] = "done"],
           UNCHANGED <<started, cancelled, kind, indexed, handle>>
    PROVE  RunInv'
<1> USE WebAssumption DEF RunInv
<1>1. taskId \in started /\ taskId \in Requests /\ finished[taskId] = "none"
  BY DEF OneRun, TypeOK
<1>2. ~ Active' /\ \A r \in started : at'[r] = at[r]
  BY DEF Active, TypeOK, Owners
<1>3. CASE ~ indexed
  BY <1>1, <1>2, <1>3 DEF FinishRun, slotVars, TaskTracked, OneRun, CancelReported
<1>4. CASE indexed
  <2>1. /\ finished' = [finished EXCEPT ![taskId] = Reported(s)]
        /\ UNCHANGED taskId
    BY <1>4 DEF FinishRun
  <2>2. Reported(s) # "none" /\ (taskId \in cancelled => Reported(s) # "completed")
    BY DEF Reported, Statuses, Ends, TaskTracked
  <2>3. \A r \in Requests : finished'[r] = IF r = taskId THEN Reported(s) ELSE finished[r]
    BY <2>1 DEF TypeOK
  <2>4. TaskTracked'
    <3>1. Settled(taskId)'
      BY <1>1, <2>1, <2>2, <2>3 DEF Settled
    <3> QED
      BY <1>1, <1>2, <2>1, <2>3, <3>1 DEF TaskTracked
  <2>5. OneRun'
    BY <1>1, <1>2, <2>1, <2>2, <2>3 DEF OneRun, TypeOK
  <2>6. CancelReported'
    BY <1>1, <2>2, <2>3 DEF CancelReported, TypeOK
  <2> QED
    BY <2>4, <2>5, <2>6
<1> QED
  BY <1>3, <1>4

\* A submission to the slot, with k for its kind.
LEMMA SlotDispatch ==
    ASSUME TypeOK, RunInv, NEW r \in Requests, at[r] # "done",
           NEW k, NEW h, Dispatch(r, k, h), handle' # None,
           UNCHANGED <<indexed, cancelled>>,
           kind'[r] = k, \A q \in Requests \ {r} : kind'[q] = kind[q]
    PROVE  RunInv'
<1> USE WebAssumption
<1>1. /\ r \notin started /\ r # Task /\ Task \in Owners
      /\ started \subseteq Requests /\ started \subseteq Owners
      /\ \A q \in started : kind'[q] = kind[q]
  BY DEF RunInv, TaskTracked, TypeOK, Owners
<1>2. CASE Active
  <2>1. /\ UNCHANGED <<started, slotVars>>
        /\ \E place \in {"hooks", "done"} : at' = [at EXCEPT ![r] = place]
    BY <1>2 DEF Dispatch, Join
  <2>2. \A o \in Owners \ {r} : at'[o] = at[o]
    BY <2>1 DEF TypeOK
  <2> QED
    BY <1>1, <2>1, <2>2, SlotFrame DEF slotVars, Active
<1>3. CASE ~ Active
  <2>1. /\ started' = started \cup {r} /\ runId' = r /\ taskId' = r
        /\ k = "compact" \/ runKind' = "prompt"
        /\ at' = [at EXCEPT ![r] = "done", ![Task] = "created"]
        /\ UNCHANGED <<cancelled, finished, indexed>>
    BY <1>3 DEF Dispatch, StartTask
  <2>2. /\ at'[Task] = "created" /\ at'[r] = "done"
        /\ \A q \in started : at'[q] = at[q]
    BY <1>1, <2>1 DEF TypeOK, Owners
  <2>3. Active'
    BY <2>2 DEF Active
  <2>4. r \notin cancelled /\ finished[r] = "none"
    BY <1>1 DEF RunInv, TaskTracked
  <2>5. indexed => \A q \in started : Settled(q)
    BY <1>3 DEF RunInv, TaskTracked, OneRun, Settled, CutOff, TypeOK
  <2>6. indexed' => \A q \in started : Settled(q)'
    BY <1>1, <2>1, <2>5 DEF Settled, CutOff
  <2>7. TaskTracked'
    <3>1. (/\ \A q \in Requests : finished[q] # "none" => q \in started
           /\ cancelled \subseteq started
           /\ \A q \in started : at[q] = "done"
           /\ taskId \in started)'
      BY <2>1, <2>2 DEF RunInv, TaskTracked
    <3>2. (/\ indexed => handle # None
           /\ runKind = "compact" => kind[taskId] = "compact"
           /\ at[Task] # "unstarted"
           /\ taskId \notin cancelled)'
      BY <2>1, <2>2, <2>4
    <3> QED
      BY <2>3, <3>1, <3>2 DEF TaskTracked
  <2>8. OneRun'
    BY <2>1, <2>4, <2>6 DEF OneRun, Settled, CutOff
  <2>9. CancelReported'
    BY <2>1 DEF RunInv, CancelReported
  <2> QED
    BY <2>7, <2>8, <2>9 DEF RunInv
<1> QED
  BY <1>2, <1>3

LEMMA RunKept ==
    ASSUME TypeOK, RunInv, [Next]_vars
    PROVE  RunInv'
<1> USE WebAssumption
<1>1. /\ started \subseteq Requests /\ Task \notin started /\ Task \in Owners
      /\ Requests \subseteq Owners /\ \A r \in started : at[r] = "done"
      /\ Active /\ indexed => handle # None
  BY DEF RunInv, TaskTracked, TypeOK, Owners
<1>2. ASSUME NEW r \in Requests, NEW k \in Kinds, Submit(r, k)
      PROVE  RunInv'
  <2>1. /\ at[r] = "new" /\ kind' = [kind EXCEPT ![r] = k]
        /\ UNCHANGED <<indexed, cancelled, handle>>
    BY <1>2 DEF Submit
  <2>2. r \notin started /\ r # Task
    BY <1>1, <2>1
  <2>3. kind'[r] = k /\ \A q \in Requests \ {r} : kind'[q] = kind[q]
    BY <2>1 DEF TypeOK
  <2>4. CASE handle = None
    <3>1. at' = [at EXCEPT ![r] = "loading"] /\ UNCHANGED <<slotVars, started>>
      BY <1>2, <2>4 DEF Submit
    <3>2. \A o \in Owners \ {r} : at'[o] = at[o]
      BY <3>1 DEF TypeOK
    <3> QED
      BY <1>1, <2>1, <2>2, <2>3, <3>1, <3>2, SlotFrame DEF slotVars, Active
  <2>5. CASE handle # None
    <3>1. Dispatch(r, k, handle)
      BY <1>2, <2>5 DEF Submit
    <3> QED
      BY <2>1, <2>3, <2>5, <3>1, SlotDispatch
  <2> QED
    BY <2>4, <2>5
<1>3. ASSUME NEW r \in Requests, Loaded(r)
      PROVE  RunInv'
  BY <1>3, SlotDispatch DEF Loaded
<1>4. ASSUME NEW r \in Requests, Abandon(r)
      PROVE  RunInv'
  <2>1. /\ at[r] # "done" /\ at' = [at EXCEPT ![r] = "done"]
        /\ UNCHANGED <<indexed, handle, slotVars, kind, started, cancelled>>
    BY <1>4 DEF Abandon, Prompting
  <2>2. \A o \in Owners \ {r} : at'[o] = at[o]
    BY <2>1 DEF TypeOK
  <2> QED
    BY <1>1, <2>1, <2>2, SlotFrame DEF slotVars, Active
<1>5. CASE TaskStart
  <2>1. /\ at[Task] = "created"
        /\ UNCHANGED <<slotVars, indexed, handle, kind, started, cancelled>>
    BY <1>5 DEF TaskStart
  <2>2. CASE indexed /\ handle # None
    <3>1. PICK place \in {"summarizing", "hooks"} : at' = [at EXCEPT ![Task] = place]
      BY <1>5, <2>2 DEF TaskStart, Move
    <3>2. at'[Task] = place /\ \A o \in Owners \ {Task} : at'[o] = at[o]
      BY <1>1, <3>1 DEF TypeOK
    <3> QED
      BY <1>1, <2>1, <3>2, SlotFrame DEF slotVars, Active
  <2>3. CASE ~ (indexed /\ handle # None)
    <3>1. at' = [at EXCEPT ![Task] = "done"]
      BY <1>5, <2>3 DEF TaskStart, Move
    <3>2. at'[Task] = "done" /\ \A o \in Owners \ {Task} : at'[o] = at[o]
      BY <1>1, <3>1 DEF TypeOK
    <3>3. ~ indexed /\ ~ Active'
      BY <1>1, <2>1, <2>3, <3>2 DEF Active
    <3> QED
      BY <1>1, <2>1, <3>2, <3>3 DEF RunInv, TaskTracked, OneRun, CancelReported, slotVars
  <2> QED
    BY <2>2, <2>3
<1>6. CASE EndCompaction
  <2>1. RunFrame
    BY <1>6 DEF EndCompaction
  <2>2. CASE at[Task] = "summarizing" /\ Leave(Task, Ends)
    <3>1. PICK s \in Ends : FinishRun(s)
      BY <2>2 DEF Leave
    <3> QED
      BY <2>1, <2>2, <3>1, SlotReported DEF Leave, RunFrame, Active, Statuses
  <2>3. CASE at[Task] = "cancelling" /\ Move(Task, "done") /\ FinishRun("cancelled")
    BY <2>1, <2>3, SlotReported DEF Move, RunFrame, Active, Statuses
  <2>4. CASE at[Task] = "unstarted" /\ Move(Task, "done") /\ UNCHANGED <<slotVars, on>>
    <3>1. Active /\ CutOff(taskId)
      BY <2>4 DEF RunInv, TaskTracked, Active
    <3>2. at'[Task] = "done" /\ \A o \in Owners \ {Task} : at'[o] = at[o]
      BY <1>1, <2>4 DEF TypeOK, Move
    <3>3. ~ Active' /\ Settled(taskId)'
      BY <2>1, <2>4, <3>1, <3>2 DEF Active, Settled, CutOff, RunFrame, slotVars
    <3> QED
      BY <1>1, <2>1, <2>4, <3>1, <3>2, <3>3
      DEF RunInv, TaskTracked, OneRun, CancelReported, RunFrame, slotVars
  <2> QED
    BY <1>6, <2>2, <2>3, <2>4 DEF EndCompaction
<1>7. ASSUME NEW o \in Owners, PromptStep(o)
      PROVE  RunInv'
  <2>1. RunFrame
    BY <1>7 DEF PromptStep, AfterHooks, BeginRun, Resolved, AuthTimeout, EndRun, Settle
  <2>2. ASSUME NEW S, S \subseteq Statuses, Leave(o, S), at[o] \in Prompting
        PROVE  RunInv'
    <3>1. at' = [at EXCEPT ![o] = "done"]
      BY <2>2 DEF Leave
    <3>2. CASE o = Task
      <4>1. PICK s \in S : FinishRun(s)
        BY <2>2, <3>2 DEF Leave
      <4> QED
        BY <2>1, <2>2, <3>1, <3>2, <4>1, SlotReported DEF RunFrame, Active, Prompting
    <3>3. CASE o # Task
      <4>1. UNCHANGED slotVars
        BY <2>2, <3>3 DEF Leave
      <4>2. \A p \in Owners \ {o} : at'[p] = at[p]
        BY <3>1 DEF TypeOK
      <4>3. o \notin started
        BY <1>1, <2>2 DEF Prompting
      <4> QED
        BY <1>1, <2>1, <3>3, <4>1, <4>2, <4>3, SlotFrame DEF RunFrame, slotVars, Active
    <3> QED
      BY <3>2, <3>3
  <2>3. ASSUME NEW place \in Prompting, at[o] \in Prompting, Move(o, place), UNCHANGED slotVars
        PROVE  RunInv'
    <3>1. at'[o] = place /\ \A p \in Owners \ {o} : at'[p] = at[p]
      BY <1>7, <2>3 DEF TypeOK, Move
    <3>2. o \notin started
      BY <1>1, <2>3 DEF Prompting
    <3>3. Active' <=> Active
      BY <1>1, <2>3, <3>1 DEF Active, Prompting
    <3>4. at'[Task] = "unstarted" => at[Task] = "unstarted"
      BY <1>1, <3>1 DEF Prompting
    <3> QED
      BY <1>1, <2>1, <2>3, <3>1, <3>2, <3>3, <3>4, SlotFrame DEF RunFrame, slotVars
  <2>4. ASSUME UNCHANGED <<at, runId, taskId, runKind, finished>>, cancelRequested => cancelRequested'
        PROVE  RunInv'
    BY <1>1, <2>1, <2>4, SlotFrame DEF RunFrame, Active
  <2>5. CASE AfterHooks(o)
    BY <2>2, <2>3, <2>5 DEF AfterHooks, Prompting, Statuses
  <2>6. CASE BeginRun(o)
    BY <2>2, <2>3, <2>6 DEF BeginRun, Prompting, Statuses, Ends
  <2>7. CASE Resolved(o)
    BY <2>4, <2>7 DEF Resolved
  <2>8. CASE AuthTimeout(o)
    BY <2>4, <2>8 DEF AuthTimeout, runVars, slotVars
  <2>9. CASE EndRun(o)
    BY <2>2, <2>3, <2>9 DEF EndRun, Prompting, Statuses
  <2>10. CASE Settle(o)
    BY <2>2, <2>3, <2>10 DEF Settle, Prompting, Statuses
  <2> QED
    BY <1>7, <2>5, <2>6, <2>7, <2>8, <2>9, <2>10 DEF PromptStep
<1>8. ASSUME UNCHANGED <<handle, slotVars, runVars, kind, started, cancelled>>, indexed' => indexed
      PROVE  RunInv'
  BY <1>1, <1>8, SlotFrame DEF slotVars, runVars, Active
<1>9. ASSUME NEW o \in Owners, AskTool(o)
      PROVE  RunInv'
  BY <1>8, <1>9 DEF AskTool, RunFrame
<1>10. ASSUME NEW c \in Clients, Subscribe(c) \/ Unsubscribe(c)
       PROVE  RunInv'
  BY <1>8, <1>10 DEF Subscribe, Unsubscribe
<1>11. ASSUME NEW a \in Asks, NEW d \in Answers, Respond(a, d)
       PROVE  RunInv'
  BY <1>8, <1>11 DEF Respond
<1>12. CASE Cancel
  <2>1. /\ indexed /\ Active /\ cancelRequested' = TRUE
        /\ cancelled' = cancelled \cup {taskId}
        /\ UNCHANGED <<indexed, handle, runId, taskId, runKind, finished, kind, started>>
    BY <1>12 DEF Cancel
  <2>2. taskId \in started /\ finished[taskId] = "none"
    BY <2>1 DEF RunInv, OneRun
  <2>3. \A r \in started : at'[r] = at[r]
    BY <1>1, <1>12 DEF Cancel, Move, TypeOK
  <2>4. Active' /\ (at'[Task] = "unstarted" => at[Task] = "unstarted" \/ runKind = "compact")
    BY <1>1, <1>12, <2>1 DEF Cancel, Move, TypeOK, Active
  <2>5. runKind = "compact" => kind[taskId] = "compact"
    BY <2>1 DEF RunInv, TaskTracked
  <2>6. at'[Task] = "unstarted" => CutOff(taskId)'
    BY <2>1, <2>4, <2>5 DEF RunInv, TaskTracked, CutOff
  <2>7. TaskTracked'
    BY <1>1, <2>1, <2>2, <2>3, <2>4, <2>5, <2>6 DEF RunInv, TaskTracked
  <2>8. OneRun'
    BY <2>1 DEF RunInv, OneRun
  <2>9. CancelReported'
    BY <2>1, <2>2 DEF RunInv, CancelReported
  <2> QED
    BY <2>7, <2>8, <2>9 DEF RunInv
<1>13. CASE Delete
  BY <1>8, <1>13 DEF Delete
<1>14. CASE DeleteDone
  <2>1. CASE UNCHANGED <<handle, indexed>>
    BY <1>8, <1>14, <2>1 DEF DeleteDone
  <2>2. CASE handle' = None /\ indexed' = FALSE
    BY <1>1, <1>14, <2>2, SlotFrame DEF DeleteDone, slotVars, runVars, Active
  <2> QED
    BY <1>14, <2>1, <2>2 DEF DeleteDone
<1>15. CASE UNCHANGED vars
  BY <1>8, <1>15 DEF vars
<1> QED
  BY <1>2, <1>3, <1>4, <1>5, <1>6, <1>7, <1>9, <1>10, <1>11, <1>12, <1>13, <1>14, <1>15
  DEF Next, TaskStep, Owners

-----------------------------------------------------------------------------
(* The invariant, and what it says of the specification.                   *)

LEMMA InitInv == Init => WebInv
<1> SUFFICES ASSUME Init PROVE WebInv
  OBVIOUS
<1> USE WebAssumption DEF Init
<1>1. \A a \in Asks : decision[a] = "new" <=> 0 < a
  BY DEF Asks
<1>2. Task \in Owners /\ at[Task] = "none" /\ ~ Active
  BY DEF Owners, Active
<1>3. AsksTracked
  <2>1. 0 \in 0 .. MaxAsks
    OBVIOUS
  <2>2. \A o \in Owners : asking[o] = 0
    OBVIOUS
  <2> QED
    BY <1>1, <2>1, <2>2 DEF AsksTracked
<1>4. Pending = {}
  BY DEF Pending
<1>5. UndecidedKept
  BY <1>4 DEF UndecidedKept, Undecided
<1>6. DenialsHold /\ TaskTracked /\ OneRun /\ CancelReported
  BY <1>2 DEF DenialsHold, TaskTracked, OneRun, CancelReported
<1> QED
  BY <1>3, <1>5, <1>6, InitTypes DEF WebInv

LEMMA NextInv == WebInv /\ [Next]_vars => WebInv'
<1> SUFFICES ASSUME WebInv, [Next]_vars PROVE WebInv'
  OBVIOUS
<1>1. Active => taskId \in Requests
  BY DEF WebInv, OneRun, TypeOK
<1>2. TypeOK'
  BY <1>1, TypesKept DEF WebInv
<1> QED
  BY <1>2, AsksKept, UndecidedStays, RunKept DEF WebInv, RunInv

\* The invariant holds in every state: nothing that is undecided, running or
\* cancelled is lost between the requests, the task and the browsers of a slot.
THEOREM WebInvariance == Spec => []WebInv
BY InitInv, NextInv, PTL DEF Spec

\* The variables of the slot and its coroutines keep their types.
THEOREM WebTypes == Spec => []TypeOK
<1>1. WebInv => TypeOK
  BY DEF WebInv
<1> QED
  BY <1>1, WebInvariance, PTL

\* A tool that was refused, in any way, never runs, and what is undecided has a
\* browser that can decide it (web.py _authorize_tool_call, _unsubscribe).
THEOREM AuthorizationsKept == Spec => []AuthorizationsHold
<1>1. WebInv => AuthorizationsHold
  BY DEF WebInv, AuthorizationsHold, UndecidedKept, UndecidedSeen
<1> QED
  BY <1>1, WebInvariance, PTL

\* However many requests submit to a slot while it loads, runs or is deleted, one
\* announced run is under way at a time (web.py _submit, _finish_run).
THEOREM RunsOneAtATime == Spec => []OneRun
<1>1. WebInv => OneRun
  BY DEF WebInv
<1> QED
  BY <1>1, WebInvariance, PTL

\* An accepted cancellation shows in the status of its run, whatever the run
\* itself came to (web.py _cancel, _finish_run).
THEOREM CancelsReported == Spec => []CancelReported
<1>1. WebInv => CancelReported
  BY DEF WebInv
<1> QED
  BY <1>1, WebInvariance, PTL

=============================================================================
