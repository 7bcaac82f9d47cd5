--------------------------- MODULE SavedTranscript ---------------------------
(***************************************************************************)
(* What a coding session promises about its transcript: the transcript in  *)
(* memory grows, and the stored one follows it.  Nothing stored is lost    *)
(* but by a rewrite (a compaction or a branch), and until the task of a    *)
(* run is cancelled a rewrite happens only when everything in memory is    *)
(* stored.  A crash loses the memory, never what is stored, and a restart  *)
(* resumes from it.                                                        *)
(***************************************************************************)
EXTENDS Integers, Sequences, SequencesExt, Functions

CONSTANT IsSummary(_)  \* a message that stands for others

VARIABLES
    up,      \* the process is alive
    memory,  \* the transcript in memory, <<>> while the process is down
    stored,  \* the transcript a restart would find
    lossy    \* a task was cancelled: memory may hold what is never stored

Init == up = FALSE /\ memory = <<>> /\ stored = <<>> /\ lossy = FALSE

\* s is t, or t cut short.
Within(s, t) == IsPrefix(s, t)

\* The elements of s at the places in `kept' occur in t, once and in the same order.
Occurs(s, kept, t) ==
    \A j \in kept : \E b \in DOMAIN t :
        /\ t[b] = s[j]
        /\ \A i \in kept, a \in DOMAIN t :
              s[i] = t[a] => (i < j <=> a < b) /\ (i = j <=> a = b)

Grow ==
    /\ up /\ up' = TRUE
    /\ Within(memory, memory') /\ memory # memory'
    /\ UNCHANGED <<stored, lossy>>

\* The task of a run is cancelled.
Unwind ==
    /\ up /\ up' = TRUE
    /\ Within(memory, memory')
    /\ UNCHANGED stored
    /\ lossy' = TRUE

\* Memory may have grown in the same step.
Save ==
    /\ up
    /\ Within(stored, stored') /\ stored # stored'
    /\ UNCHANGED lossy
    /\ \/ /\ up' = TRUE /\ Within(memory, memory')
          /\ IF lossy THEN Occurs(stored', DOMAIN stored', memory')
             ELSE Within(stored', memory')
       \/ up' = FALSE /\ memory' = <<>>

Rewrite ==
    /\ up
    /\ lossy \/ memory = stored
    /\ UNCHANGED lossy
    /\ \/ up' = TRUE /\ memory' = stored'
       \/ up' = FALSE /\ memory' = <<>>

Crash ==
    /\ up /\ up' = FALSE
    /\ memory' = <<>>
    /\ UNCHANGED <<stored, lossy>>

\* A restart keeps every message it finds, in order, and may add to them: it
\* answers interrupted calls, and for that it may go back on a compaction.  It
\* may crash again while it stores this.
Restart ==
    /\ ~up
    /\ memory' = IF up' THEN stored' ELSE <<>>
    /\ up' \in BOOLEAN
    /\ lossy' = FALSE
    /\ Occurs(stored, {i \in DOMAIN stored : ~IsSummary(stored[i])}, stored')

Next == Grow \/ Unwind \/ Save \/ Rewrite \/ Crash \/ Restart

Spec == Init /\ [][Next]_<<up, memory, stored, lossy>>
=============================================================================
