------------------------------ MODULE Truncation ------------------------------
(***************************************************************************)
(* How the tools shorten text (tau_coding/tools.py): truncate_head for     *)
(* files, truncate_tail for the output of commands. A text is a sequence   *)
(* of characters of one byte each.                                         *)
(***************************************************************************)
EXTENDS Naturals, Sequences, SequencesExt, FiniteSetsExt

CONSTANTS MaxLines, MaxBytes    \* DEFAULT_MAX_OUTPUT_LINES, DEFAULT_MAX_OUTPUT_BYTES

\* text.split("\n"), and "\n".join
Lines(t) ==
    LET ends == SetToSortSeq({i \in DOMAIN t : t[i] = "lf"} \cup {Len(t) + 1}, <)
    IN  [k \in DOMAIN ends |-> SubSeq(t, IF k = 1 THEN 1 ELSE ends[k - 1] + 1, ends[k] - 1)]
Joined(lines) == FoldLeftDomain(LAMBDA t, k : t \o (IF k > 1 THEN <<"lf">> ELSE <<>>) \o lines[k], <<>>, lines)

\* _split_lines_for_counting
Counted(t) == IF t = <<>> THEN <<>> ELSE IF Last(t) = "lf" THEN Front(Lines(t)) ELSE Lines(t)

Fits(t) == Len(Counted(t)) <= MaxLines /\ Len(t) <= MaxBytes

\* The longest run of lines from either end that the limits allow.
Kept(part) == Max({k \in DOMAIN part : k <= MaxLines /\ Len(Joined(part[k])) <= MaxBytes})

Whole(t) == [text |-> t, lines |-> Len(Counted(t)), truncated |-> FALSE, by |-> "none", partial |-> FALSE]

\* truncate_head. Nothing is kept of a first line that is too long.
TruncateHead(t) ==
    LET lines == Counted(t)
        n == Kept([k \in 0 .. Len(lines) |-> SubSeq(lines, 1, k)])
    IN  IF Fits(t) THEN Whole(t)
        ELSE [text |-> Joined(SubSeq(lines, 1, n)), lines |-> n, truncated |-> TRUE,
              by |-> IF n < Min({Len(lines), MaxLines}) THEN "bytes" ELSE "lines", partial |-> FALSE]

\* Fault: the front is kept of a last line that is too long.
Clipped_Front(line) == SubSeq(line, 1, MaxBytes)

\* _truncate_string_to_bytes_from_end
Clipped(line) == SubSeq(line, Len(line) - MaxBytes + 1, Len(line))

\* truncate_tail. The end is kept of a last line that is too long.
TruncateTail(t) ==
    LET lines == Counted(t)
        n == Kept([k \in 0 .. Len(lines) |-> SubSeq(lines, Len(lines) - k + 1, Len(lines))])
    IN  IF Fits(t) THEN Whole(t)
        ELSE IF n = 0
        THEN [text |-> Clipped(Last(lines)), lines |-> 1, truncated |-> TRUE,
              by |-> "bytes", partial |-> TRUE]
        ELSE [text |-> Joined(SubSeq(lines, Len(lines) - n + 1, Len(lines))), lines |-> n, truncated |-> TRUE,
              by |-> IF n < Min({Len(lines), MaxLines}) THEN "bytes" ELSE "lines", partial |-> FALSE]
=============================================================================
