------------------------------ MODULE FileTools ------------------------------
(***************************************************************************)
(* The read, write and edit tools (tau_coding/tools.py) on one text file,  *)
(* a sequence of characters in which "cr", "lf" are line ends; and what    *)
(* the read tool does with an image: the checks of execute (tools.py) and  *)
(* process_image (image_processing.py), which shrinks an image until its   *)
(* encoding fits. Sizes are in units of bytes, sides in pixels.            *)
(***************************************************************************)
EXTENDS Truncation

CONSTANTS
    MaxChars, MaxLimit,         \* bounds
    MaxImageBytes, MaxSide, MaxSource, MaxPixels, Attempts,  \* the limits of image_processing.py
    Sides, Sizes                \* bounds

VARIABLES
    file,       \* the bytes on disk
    page,       \* a reader who follows the hints: [next, shown], the
                \*   lines it saw; next = 0 at the end
    source,     \* the file of an image: [kind, w, h, bytes, animated, intact]
    supported,  \* image_support.supported
    at,         \* reading, encoding, sent, omitted
    image,      \* [w, h] as it stands
    attempt,
    encoded     \* the bytes of what is sent

textVars == <<file, page>>
imageVars == <<source, supported, at, image, attempt, encoded>>
vars == <<textVars, imageVars>>

Texts(chars, n) == BoundedSeq(chars, n)
Edits ==
    LET one == [old : Texts({"a", "lf"}, 2), new : {<<>>, <<"b">>}]
    IN  [1 .. 1 -> one] \cup [1 .. 2 -> one]

\* "\r\n" and "\r" become "\n": what read_text does, and normalize_to_lf.
NormalizeToLf(t) ==
    LET kept == SetToSortSeq({i \in DOMAIN t : ~(i > 1 /\ t[i] = "lf" /\ t[i - 1] = "cr")}, <)
    IN  [k \in DOMAIN kept |-> IF t[kept[k]] = "cr" THEN "lf" ELSE t[kept[k]]]

\* detect_line_ending: CRLF if the first line ends with it.
Crlf(t) ==
    LET feeds == {i \in DOMAIN t : t[i] = "lf"}
    IN  feeds # {} /\ Min(feeds) > 1 /\ t[Min(feeds) - 1] = "cr"

RestoreLineEndings(t, crlf) ==
    IF crlf THEN FlattenSeq([i \in DOMAIN t |-> IF t[i] = "lf" THEN <<"cr", "lf">> ELSE <<t[i]>>]) ELSE t
-----------------------------------------------------------------------------
Matches(t, old) == {p \in 1 .. Len(t) - Len(old) + 1 : SubSeq(t, p, p + Len(old) - 1) = old}

\* _count_occurrences is one: no second match begins after the first has ended.
Unique(t, old) ==
    LET found == Matches(t, old) IN found # {} /\ Max(found) < Min(found) + Len(old)

Span(t, e) == LET p == Min(Matches(t, e.old)) IN [start |-> p, end |-> p + Len(e.old), new |-> e.new]

\* _validate_non_overlapping
Disjoint(t, edits) ==
    \A i, j \in DOMAIN edits :
        LET a == Span(t, edits[i])
            b == Span(t, edits[j])
        IN  i # j => a.end <= b.start \/ b.end <= a.start

\* Fault: spans are replaced in the order of the text.
Applied_Forwards(t, edits) ==
    FoldLeft(LAMBDA u, s : SubSeq(u, 1, s.start - 1) \o s.new \o SubSeq(u, s.end, Len(u)),
             t, SetToSortSeq({Span(t, edits[i]) : i \in DOMAIN edits}, LAMBDA a, b : a.start < b.start))

\* Spans are replaced from the last to the first.
Applied(t, edits) ==
    FoldLeft(LAMBDA u, s : SubSeq(u, 1, s.start - 1) \o s.new \o SubSeq(u, s.end, Len(u)),
             t, SetToSortSeq({Span(t, edits[i]) : i \in DOMAIN edits}, LAMBDA a, b : a.start > b.start))

\* apply_edits_to_normalized_content raises unless
Accepted(t, edits) ==
    /\ \A i \in DOMAIN edits : edits[i].old # <<>> /\ Unique(t, edits[i].old)
    /\ Disjoint(t, edits)
    /\ Applied(t, edits) # t

\* read_text has translated the line ends before detect_line_ending sees them.
Edited(edits) ==
    LET content == NormalizeToLf(file)
    IN  RestoreLineEndings(Applied(NormalizeToLf(content), edits), Crlf(content))
-----------------------------------------------------------------------------
TextInit == file \in Texts({"a", "cr", "lf"}, MaxChars) /\ page = [next |-> 0, shown |-> <<>>]

Write(t) == file' = t /\ page' = [next |-> 0, shown |-> <<>>]

Edit(edits) ==
    /\ Accepted(NormalizeToLf(file), edits)
    /\ file' = Edited(edits) /\ page' = [next |-> 0, shown |-> <<>>]

\* Fault: the hint names the last line shown.
NextOffset_Last(start, shown, all, limit) ==
    IF shown.truncated THEN start + shown.lines - 1
    ELSE IF limit > 0 /\ start + limit < all THEN start + limit ELSE -1

\* The hint (lines count from 0 here): -1 if there is none.
NextOffset(start, shown, all, limit) ==
    IF shown.truncated THEN start + shown.lines
    ELSE IF limit > 0 /\ start + limit < all THEN start + limit ELSE -1

\* What the hint for a line that is too long shows: `sed -n Np FILE | head -c MaxBytes`.
\* sed counts and shows the lines of the file itself.
LongLine(n) ==
    LET raw == Lines(file)
    IN  IF n > Len(raw) THEN <<>> ELSE SubSeq(raw[n], 1, Min({MaxBytes, Len(raw[n])}))

\* A read from the line `page.next`, of `limit` lines if that is not 0. If the first
\* line is too long there is a command in its place and no offset to go on with: the
\* reader runs it and goes on behind the line.
Read(limit) ==
    LET all   == Lines(NormalizeToLf(file))
        start == page.next - 1
        rest  == SubSeq(all, start + 1, IF limit > 0 THEN Min({start + limit, Len(all)}) ELSE Len(all))
        shown == TruncateHead(Joined(rest))
        long  == shown.truncated /\ shown.lines = 0
        next  == IF long THEN start + 1 ELSE NextOffset(start, shown, Len(all), limit)
    IN  /\ page.next > 0 /\ start < Len(all)
        /\ page' = [next  |-> IF next < Len(all) THEN next + 1 ELSE 0,
                    shown |-> page.shown \o (IF long THEN <<LongLine(start + 1)>> ELSE Lines(shown.text))]
        /\ UNCHANGED file

Open == page.next = 0 /\ page' = [next |-> 1, shown |-> <<>>] /\ UNCHANGED file

TextNext ==
    \/ \E edits \in Edits : Edit(edits)
    \/ \E t \in Texts({"a", "cr", "lf"}, 1) : Write(t)
    \/ Open \/ \E limit \in 0 .. MaxLimit : Read(limit)
-----------------------------------------------------------------------------
\* detect_image_family_mime_type: what the first bytes say. "variant" stands
\* for JPEG XL and animated PNG, which are recognized and refused.
Kinds == {"jpeg", "png", "gif", "webp", "bmp", "variant"}

\* _bounded_dimensions
Bounded(w, h) ==
    LET Scaled(side, by) == LET s == (side * MaxSide) \div by IN IF s < 1 THEN 1 ELSE s
        longer == IF w > h THEN w ELSE h
    IN  IF longer <= MaxSide THEN [w |-> w, h |-> h]
        ELSE [w |-> Scaled(w, longer), h |-> Scaled(h, longer)]

Shrunk(side) == LET s == (side * 8) \div 10 IN IF s < 1 THEN 1 ELSE s

\* Fault: the size of the file is not looked at.
Resized_Sides(s) == s.w > MaxSide \/ s.h > MaxSide

\* requires_resize
Resized(s) == s.w > MaxSide \/ s.h > MaxSide \/ s.bytes > MaxImageBytes

\* Large files are sniffed and never read whole; unsupported variants, images
\* for a model without vision, broken and huge images, and animations that
\* would have to be resized are left out.
Omitted(s) ==
    \/ s.bytes > MaxSource \/ s.kind = "variant" \/ supported = FALSE \/ ~s.intact
    \/ s.w * s.h > MaxPixels
    \/ (s.kind = "bmp" \/ Resized(s)) /\ s.animated

ImageInit ==
    /\ source \in [kind : Kinds, w : Sides, h : Sides, bytes : Sizes, animated : BOOLEAN, intact : BOOLEAN]
    /\ (source.animated => source.kind \in {"gif", "webp"})
    /\ supported \in BOOLEAN
    /\ at = "reading" /\ image = [w |-> source.w, h |-> source.h]
    /\ attempt = 0 /\ encoded = 0

ReadImage ==
    /\ at = "reading"
    /\ IF Omitted(source) THEN at' = "omitted" /\ UNCHANGED <<image, encoded>>
       ELSE IF source.kind # "bmp" /\ ~Resized(source)
       THEN at' = "sent" /\ encoded' = source.bytes /\ UNCHANGED image
       ELSE at' = "encoding" /\ image' = Bounded(source.w, source.h) /\ UNCHANGED encoded
    /\ UNCHANGED <<source, supported, attempt>>

\* _encode_image yields `bytes`, whatever the codec makes of it.
Encode(bytes) ==
    /\ at = "encoding"
    /\ attempt' = attempt + 1
    /\ IF bytes <= MaxImageBytes THEN at' = "sent" /\ encoded' = bytes /\ UNCHANGED image
       ELSE LET next == [w |-> Shrunk(image.w), h |-> Shrunk(image.h)]
            IN  /\ at' = IF next = image \/ attempt' = Attempts THEN "omitted" ELSE "encoding"
                /\ image' = next
                /\ UNCHANGED encoded
    /\ UNCHANGED <<source, supported>>

EncodeFails == at = "encoding" /\ at' = "omitted" /\ UNCHANGED <<source, supported, image, attempt, encoded>>

ImageNext == ReadImage \/ EncodeFails \/ \E bytes \in Sizes : Encode(bytes)
-----------------------------------------------------------------------------
Init == TextInit /\ ImageInit

Next ==
    \/ TextNext /\ UNCHANGED imageVars
    \/ ImageNext /\ UNCHANGED textVars

Spec == Init /\ [][Next]_vars
-----------------------------------------------------------------------------
TypeOK ==
    /\ page.next \in 0 .. MaxChars + 2 /\ \A i \in DOMAIN file : file[i] \in {"a", "b", "cr", "lf"}
    /\ at \in {"reading", "encoding", "sent", "omitted"} /\ attempt \in 0 .. Attempts
    /\ image.w > 0 /\ image.h > 0

\* A "\r" that ends a line alone: a line for read and none for sed.
LoneCr == \E i \in DOMAIN file : file[i] = "cr" /\ (i < Len(file) => file[i + 1] # "lf")

\* Who follows the hints sees each line of the file that keeps the byte limit, whole,
\* once and in its place, whatever limits cut the pages, and the start of every other
\* ("continue with offset until complete", tools.py:371). The rest of those, and with
\* lone carriage returns even their start, no hint leads to (tools.py:328).
PagesCover ==
    LET all  == Lines(NormalizeToLf(file))
        seen == IF page.next = 0 THEN Len(all) ELSE page.next - 1
    IN  page.next > 1 \/ page.shown # <<>> =>
            /\ Len(page.shown) = seen
            /\ \A k \in 1 .. seen :
                  IF Len(all[k]) <= MaxBytes THEN page.shown[k] = all[k]
                  ELSE ~LoneCr => page.shown[k] = SubSeq(all[k], 1, MaxBytes)

\* Edits match the text as it was, not as earlier ones of the call left it, and
\* what they do not name stays in place (tools.py:482).
EditsExact ==
    LET t == NormalizeToLf(file)
        At(edits, i) == {k \in DOMAIN edits : Span(t, edits[k]).start <= i /\ i < Span(t, edits[k]).end}
    IN  \A edits \in Edits : Accepted(t, edits) =>
            Applied(t, edits) = FlattenSeq([i \in DOMAIN t |->
                IF At(edits, i) = {} THEN <<t[i]>>
                ELSE LET s == Span(t, edits[CHOOSE k \in At(edits, i) : TRUE])
                     IN  IF s.start = i THEN s.new ELSE <<>>])

\* What is attached keeps every limit, has at least one pixel, is never larger
\* than the image was, and an animation is attached whole (image_processing.py:94).
SentFits ==
    at = "sent" =>
        /\ encoded <= MaxImageBytes /\ image.w \in 1 .. MaxSide /\ image.h \in 1 .. MaxSide
        /\ image.w <= source.w /\ image.h <= source.h
        /\ source.animated => attempt = 0

\* tools.py:487 promises of an edit that "the original file's dominant line ending
\* is restored after replacement". The code breaks it: read_text has replaced
\* every CRLF before detect_line_ending looks for one.
EndingRestored ==
    [][(\E edits \in Edits : Edit(edits)) /\ Crlf(file) /\ (\E i \in DOMAIN file' : file'[i] = "lf") => Crlf(file')]_vars
=============================================================================
