------------------------------- MODULE BashTool -------------------------------
(***************************************************************************)
(* The bash tool (tau_coding/tools.py): a shell and the processes it       *)
(* starts write into one pipe, while the tool waits for the pipe to close, *)
(* for a timeout, for the signal of the run, and may itself be cancelled.  *)
(***************************************************************************)
EXTENDS Truncation

CONSTANTS MaxWrites    \* bound

VARIABLES
    at,         \* starting, waiting, killed, raised, dropped, unwound, returned
    alive,      \* processes that run: the shell, a child, a child of another session
    holding,    \* those of them that hold the pipe
    output,     \* what was written
    signalled,  \* signal.is_cancelled()
    watch,      \* cancel_watch: done, or not
    cause,      \* what ended the wait: the timeout or the watch
    swallowed,  \* a cancellation of the task did not unwind it
    result      \* [text, lines, truncated, ..., total, status, saved], or None

vars == <<at, alive, holding, output, signalled, watch, cause, swallowed, result>>

Group == {"shell", "child"}     \* start_new_session

Running == at \in {"waiting", "killed"}
NoResult == [status |-> "none", shown |-> Whole(<<>>), saved |-> FALSE]

\* A signal that is set already raises ToolInputError before anything is started.
\* The shell runs from then on, while create_subprocess_shell connects its pipe.
Init ==
    /\ signalled \in BOOLEAN
    /\ at = IF signalled THEN "raised" ELSE "starting"
    /\ alive = IF signalled THEN {} ELSE {"shell"}
    /\ holding = alive
    /\ output = <<>> /\ watch = FALSE /\ cause = "none" /\ swallowed = FALSE /\ result = NoResult

toolVars == <<at, watch, cause, swallowed, result>>

Start(p, holds) ==
    /\ "shell" \in alive /\ p \notin alive
    /\ alive' = alive \cup {p}
    /\ holding' = IF holds THEN holding \cup {p} ELSE holding
    /\ UNCHANGED <<output, signalled, toolVars>>

Emit(c) ==
    /\ holding # {} /\ Len(output) < MaxWrites
    /\ output' = Append(output, c)
    /\ UNCHANGED <<alive, holding, signalled, toolVars>>

Exit(p) ==
    /\ p \in alive
    /\ alive' = alive \ {p} /\ holding' = holding \ {p}
    /\ UNCHANGED <<output, signalled, toolVars>>

Signal == ~signalled /\ signalled' = TRUE /\ UNCHANGED <<alive, holding, output, toolVars>>

\* The pipe is connected: communicate, the watch and the timeout begin.
Started ==
    /\ at = "starting" /\ at' = "waiting"
    /\ UNCHANGED <<alive, holding, output, signalled, watch, cause, swallowed, result>>

\* _wait_for_cancel looks every 50 ms.
Notice ==
    /\ Running /\ signalled /\ ~watch
    /\ watch' = TRUE
    /\ UNCHANGED <<alive, holding, output, signalled, at, cause, swallowed, result>>

\* process.communicate is done.
Communicated == holding = {} /\ "shell" \notin alive

Returned(status) ==
    LET shown == TruncateTail(output)
    IN  result' = [status |-> status, shown |-> shown, saved |-> shown.truncated]

\* The command ends before the wait does.
Complete ==
    /\ at = "waiting" /\ Communicated
    /\ at' = "returned" /\ Returned("exited")
    /\ UNCHANGED <<alive, holding, output, signalled, watch, cause, swallowed>>

\* Fault: only the shell is killed.
Killed_Shell == {"shell"}

\* _kill_process_tree
Killed == Group

Kill == alive' = alive \ Killed /\ holding' = holding \ Killed

\* The wait ends with the watch or by the timeout; the watch goes first.
Stop(timeout) ==
    /\ at = "waiting" /\ ~Communicated
    /\ timeout \/ watch
    /\ at' = "killed" /\ cause' = (IF watch THEN "cancelled" ELSE "timed out") /\ Kill
    /\ UNCHANGED <<output, signalled, watch, swallowed, result>>

Collect ==
    /\ at = "killed" /\ Communicated
    /\ at' = "returned" /\ Returned(cause)
    /\ UNCHANGED <<alive, holding, output, signalled, watch, cause, swallowed>>

\* The task of the run is cancelled. While the pipe is connected, asyncio closes the
\* transport and kills the shell alone; while the tool waits for what it has killed,
\* the cancellation only gives up the output.
CancelTask ==
    \/ /\ at = "starting"
       /\ at' = "dropped" /\ alive' = alive \ {"shell"} /\ holding' = holding \ {"shell"}
       /\ UNCHANGED <<output, signalled, watch, cause, swallowed, result>>
    \/ /\ at = "waiting"
       /\ at' = "unwound" /\ Kill
       /\ UNCHANGED <<output, signalled, watch, cause, swallowed, result>>
    \/ /\ at = "killed"
       /\ at' = "returned" /\ swallowed' = TRUE
       /\ result' = [status |-> cause, shown |-> Whole(<<>>), saved |-> FALSE]
       /\ UNCHANGED <<alive, holding, output, signalled, watch, cause>>

Next ==
    \/ \E p \in {"child", "detached"}, holds \in BOOLEAN : Start(p, holds)
    \/ \E c \in {"a", "b", "lf"} : Emit(c)
    \/ \E p \in alive : Exit(p)
    \/ Signal \/ Started \/ Notice \/ Complete \/ Collect \/ CancelTask
    \/ \E timeout \in BOOLEAN : Stop(timeout)

Spec == Init /\ [][Next]_vars
-----------------------------------------------------------------------------
TypeOK ==
    /\ at \in {"starting", "waiting", "killed", "raised", "dropped", "unwound", "returned"}
    /\ holding \subseteq alive /\ alive \subseteq Group \cup {"detached"}
    /\ result.status \in {"none", "exited", "timed out", "cancelled"}

\* A command that was stopped while the tool waited for it leaves nothing of its
\* session running, whether it was stopped by the timeout, by the signal or with the
\* task (tools.py:597). One whose task is cancelled while it starts leaves no shell;
\* what the shell had started by then runs on.
NoOrphans ==
    /\ at \in {"killed", "unwound"} \/ result.status \in {"timed out", "cancelled"} =>
          alive \cap Group = {}
    /\ at = "dropped" => "shell" \notin alive

\* What is shown is the end of the output, within the limits, the lines are
\* counted right, and what is left out was saved (tools.py:603).
TailShown ==
    LET r == result.shown
        all == IF output # <<>> /\ Last(output) = "lf" THEN Front(output) ELSE output
    IN  result.status = "exited" =>
            /\ IsSuffix(r.text, all) \/ r.text = output
            /\ r.text # output => r.truncated /\ result.saved /\ Len(r.text) <= MaxBytes
            /\ r.lines = Len(Lines(r.text)) \/ r.text = output
=============================================================================
