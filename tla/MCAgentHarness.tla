--------------------------- MODULE MCAgentHarness ---------------------------
(***************************************************************************)
(* The agent harness for TLC, in one run: queues that are drained whole,   *)
(* and, with another turn limit, queues that are drained one message at a  *)
(* time. `which` says which harness it is.                                 *)
(***************************************************************************)
EXTENDS AgentHarness

VARIABLE which

OneByOne == INSTANCE AgentHarness WITH
    QueueMode <- "one_at_a_time", MaxTurns <- 1, MaxBatch <- 1, MaxCalls <- 1

MCInit == which \in {"all", "one"} /\ Init

MCNext ==
    \/ which = "all" /\ Next /\ UNCHANGED which
    \/ which = "one" /\ OneByOne!Next /\ UNCHANGED which

MCSpec == MCInit /\ [][MCNext]_<<which, vars>>
=============================================================================
