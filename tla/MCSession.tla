------------------------------ MODULE MCSession ------------------------------
(***************************************************************************)
(* A coding session for TLC, in one run. CodingSession is checked four     *)
(* times: with runs whose task is cancelled, with terminal commands beside *)
(* them, with crashes, loads and two rewrites, and with failed replies     *)
(* that carry calls. ContextBudget has variables of its own. `which' says  *)
(* whose steps a behaviour takes; the others keep their initial state.     *)
(***************************************************************************)
EXTENDS CodingSession, TLC

VARIABLES
    which,
    rows, said, system, tools, cache, model, key, limits, asked, place, unsaved

\* Runs whose task is cancelled; and terminal commands and a stored setting while a
\* run or a summary is under way.
Saving == INSTANCE CodingSession WITH
    TaskCancel <- TRUE, PartialCalls <- FALSE, MaxBatch <- 1, MaxReplies <- 2, MaxUsers <- 2,
    MaxCommands <- 0, MaxMetas <- 0, MaxRewrites <- 1, MaxCrashes <- 0
Commanding == INSTANCE CodingSession WITH
    TaskCancel <- TRUE, PartialCalls <- FALSE, MaxBatch <- 1, MaxReplies <- 1, MaxUsers <- 3,
    MaxCommands <- 1, MaxMetas <- 1, MaxRewrites <- 1, MaxCrashes <- 0
\* A crash among up to two rewrites; the constants of the configuration give a crash
\* with replies that failed with calls.
Crashing == INSTANCE CodingSession WITH
    TaskCancel <- FALSE, PartialCalls <- FALSE, MaxBatch <- 1, MaxReplies <- 2, MaxUsers <- 2,
    MaxCommands <- 0, MaxMetas <- 0, MaxRewrites <- 2, MaxCrashes <- 1

budgetVars == <<rows, said, system, tools, cache, model, key, limits, asked, place, unsaved>>
Budget == INSTANCE ContextBudget WITH
    at <- place, Windows <- "a" :> 5 @@ "b" :> 7, Live <- {3}, Reserve <- 2, Keep <- 2,
    Sizes <- {1, 2}, ToolSizes <- {0, 1}, MaxSaid <- 3

MCInit ==
    /\ which \in {"saves", "commanding", "crashing", "failing", "budget"}
    /\ Init /\ Budget!Init /\ (which # "budget" => tools = 0 /\ model = "a")

MCNext ==
    \/ which = "saves" /\ Saving!Next /\ UNCHANGED <<which, budgetVars>>
    \/ which = "commanding" /\ Commanding!Next /\ UNCHANGED <<which, budgetVars>>
    \/ which = "crashing" /\ Crashing!Next /\ UNCHANGED <<which, budgetVars>>
    \/ which = "failing" /\ Next /\ UNCHANGED <<which, budgetVars>>
    \/ which = "budget" /\ Budget!Next /\ UNCHANGED <<which, vars>>

MCSpec == MCInit /\ [][MCNext]_<<which, vars, budgetVars>>
-----------------------------------------------------------------------------
\* The types of every component, and the invariants that carry the proofs about
\* the session: SessionInv, PlanClean, and in one of the four OrderInv and CallsClosed.
Types ==
    /\ which = "saves"      => Saving!SessionInv
    /\ which = "commanding" => Commanding!SessionInv
    /\ which = "crashing"   => Crashing!SessionInv
    /\ which = "failing"    => SessionInv /\ OrderInv /\ CallsClosed
    /\ PlanClean
    /\ which = "budget"     => Budget!TypeOK

\* ContextBudget: what was said stays in the context or in a summary, an estimate
\* a reader gets counts every message that was said, limits are those of the model
\* in use, and a compaction keeps no more than the recent tokens.
BudgetSound ==
    /\ [](which = "budget" =>
            Budget!FactsKept /\ Budget!EstimateCurrent /\ Budget!LimitsOfModel)
    /\ Budget!RecentBounded
=============================================================================
