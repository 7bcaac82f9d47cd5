----------------------------- MODULE MCLiveness -----------------------------
(***************************************************************************)
(* Runs under fairness, for TLC in one run: the requests, the run and the  *)
(* authorizations of one web session, and beside it an agent harness.      *)
(* `which` says whose steps a behaviour takes, the other keeps its initial *)
(* state, and each is fair only in its own behaviours.                     *)
(***************************************************************************)
EXTENDS WebRuntime

CONSTANT NoLimit

VARIABLES
    which,
    lists, own, loop, running, signal, steering, followUp, place, pending, turn, reply, todo,
    context, newMessages, runs, users, calls, injected, queued, withdrawn, lost

harnessVars == <<lists, own, loop, running, signal, steering, followUp, place, pending, turn, reply,
                 todo, context, newMessages, runs, users, calls, injected, queued, withdrawn, lost>>

Harness == INSTANCE AgentHarness WITH
    at <- place, QueueMode <- "one_at_a_time", MaxTurns <- 2, CallIds <- "positional",
    MaxBatch <- 1, MaxCalls <- 0, MaxUsers <- 2, MaxRuns <- 1

MCInit == which \in {"web", "harness"} /\ Init /\ Harness!Init

MCNext ==
    \/ which = "web" /\ Next /\ UNCHANGED <<which, harnessVars>>
    \/ which = "harness" /\ Harness!Next /\ UNCHANGED <<which, vars>>

\* The event loop resumes a task and a suspended generator that can go on.
MCSpec ==
    /\ MCInit /\ [][MCNext]_<<which, vars, harnessVars>>
    /\ WF_vars(which = "web" /\ TaskStep)
    /\ WF_harnessVars(which = "harness" /\ Harness!RunStep)
-----------------------------------------------------------------------------
\* AgentHarness!RunEnds: a run with a turn limit comes to its end.
RunEnds == Harness!RunEnds
=============================================================================
