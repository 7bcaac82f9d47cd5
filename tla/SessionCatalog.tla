--------------------------- MODULE SessionCatalog ---------------------------
(***************************************************************************)
(* What the session index promises its callers, whatever its files are:    *)
(* one record of metadata for each session, that is put, replaced and      *)
(* removed; and what a write that dies half-way may cost at most.          *)
(***************************************************************************)
EXTENDS Naturals

CONSTANTS
    Sessions, Versions, None,
    Old,        \* the version of every record that was there before
    Home        \* the project of a session

VARIABLES
    catalog,    \* the metadata that a lookup returns
    readable,   \* a lookup does not raise
    deaths      \* how many writes died

Init == catalog \in [Sessions -> {Old, None}] /\ readable = TRUE /\ deaths = 0

Put(s, v) == catalog' = [catalog EXCEPT ![s] = v]

Remove(s) == catalog' = [catalog EXCEPT ![s] = None]

\* Only the session that a caller names changes.
Change ==
    /\ \E s \in Sessions : Remove(s) \/ \E v \in Versions : Put(s, v)
    /\ UNCHANGED <<readable, deaths>>

\* Another session keeps its metadata. It is forgotten, or known as it was before
\* all puts, if it is of the same project; of another one only if it was never put.
Spared(x, s) ==
    \/ catalog'[x] = catalog[x]
    \/ Home[x] = Home[s] /\ catalog[x] # None /\ catalog'[x] \in {Old, None}
    \/ catalog[x] = Old /\ catalog'[x] = None

\* A write for s dies. From then on every lookup may raise.
Die(s) ==
    /\ deaths' = deaths + 1
    /\ readable' \in {FALSE, readable}
    /\ catalog' \in [Sessions -> Versions \cup {None}]
    /\ \A x \in Sessions \ {s} : Spared(x, s)

Next == Change \/ \E s \in Sessions : Die(s)

Spec == Init /\ [][Next]_<<catalog, readable, deaths>>
=============================================================================
