---------------------------- MODULE SessionIndex ----------------------------
(***************************************************************************)
(* The index of sessions (tau_coding/session_manager.py): one JSONL file   *)
(* for each project directory and a legacy file for all of them, which is  *)
(* read and never grows. A session may stand in both; the newest record    *)
(* counts. One process is at work: two would overwrite each other's files. *)
(*                                                                         *)
(* A file is the set of its records: their order could matter only between *)
(* two records of one session, and a file has one (ListsAgree). A write    *)
(* truncates the file and writes it anew: what dies in it leaves the       *)
(* records written so far, and perhaps part of a line, which no reader     *)
(* passes over.                                                            *)
(***************************************************************************)
EXTENDS Naturals

CONSTANTS
    Sessions, Projects,
    Home,          \* the directory that a session works in
    None,
    MaxClock, MaxVersions, MaxDeaths  \* bounds

VARIABLES
    index,     \* the records of each file: the projects' and "legacy"
    torn,      \* the files that end in part of a line
    files,     \* sessions whose transcript, once written, is not removed
    clock,     \* time(), which may stand still
    versions,  \* how many different metadata were written so far
    deleting,  \* the files a deletion has still to rewrite, or None
    deaths     \* how many writes died

vars == <<index, torn, files, clock, versions, deleting, deaths>>

Paths  == Projects \cup {"legacy"}
Record == [id : Sessions, updated : 0 .. MaxClock, version : 0 .. MaxVersions]
Idle   == [session |-> None, left |-> {}]

ASSUME IndexAssumption ==
    /\ "legacy" \notin Projects /\ Home \in [Sessions -> Projects]
    /\ None \notin Sessions \cup Record \cup 0 .. MaxVersions
    /\ MaxClock \in Nat /\ MaxVersions \in Nat /\ MaxDeaths \in Nat
-----------------------------------------------------------------------------
(* Reading.                                                                *)

\* Fault: of two records with the same time the first one counts.
Supersedes_Later(r, old) == r.updated > old.updated

Supersedes(r, old) == r.updated >= old.updated

Of(s, records) == {r \in records : r.id = s}

\* _deduplicate_records: of the records of s, some read first and others then,
\* the one that superseded all before it and that none after it superseded.
Newest(first, then, s) ==
    LET early == Of(s, first)
        late  == Of(s, then)
        Wins(r) ==
            IF r \in late THEN \A x \in (early \cup late) \ {r} : Supersedes(r, x)
            ELSE /\ \A x \in early \ {r} : Supersedes(r, x)
                 /\ \A x \in late : ~Supersedes(x, r)
    IN  IF early \cup late = {} THEN None ELSE CHOOSE r \in early \cup late : Wins(r)

AllRecords == UNION {index[p] : p \in Projects}

\* What the legacy file has of a project.
Legacy(p) == {r \in index["legacy"] : Home[r.id] = p}

\* A lookup reads the legacy file first, a list reads it last. Both raise where a
\* file they read is torn: then this is what its whole lines say.
GetSession(s) == Newest(index["legacy"], AllRecords, s)
Listed(p) == {Newest(index[p], Legacy(p), s) : s \in Sessions} \ {None}
-----------------------------------------------------------------------------
(* Writing.                                                                *)

Init ==
    /\ \E old \in SUBSET Sessions :
          /\ index = [p \in Paths |-> IF p # "legacy" THEN {} ELSE
                 {[id |-> s, updated |-> 0, version |-> 0] : s \in old}]
          /\ files = old
    /\ torn = {} /\ clock = 0 /\ versions = 0
    /\ deleting = Idle /\ deaths = 0

\* What a write that dies has written whole: records stand in the order of their
\* last update, those from before in any.
Begun(records) ==
    {part \in SUBSET records : \A r \in part, x \in records \ part : r.version <= x.version}

\* _write_index, which is Path.write_text: the process dies in it, or the disk is
\* full, unless it is whole.
WriteIndex(p, records, whole) ==
    IF whole
    THEN index' = [index EXCEPT ![p] = records] /\ UNCHANGED <<torn, deaths>>
    ELSE /\ deaths < MaxDeaths /\ deaths' = deaths + 1
         /\ \E part \in Begun(records) :
               /\ index' = [index EXCEPT ![p] = part]
               /\ torn' \in {torn, torn \cup {p}}
               /\ part = records => torn' = torn

\* Fault: the old record stays in the file.
Upserted_Twice(r) == index[Home[r.id]] \cup {r}

\* Fault: the records of the other sessions are forgotten.
Upserted_Alone(r) == {r}

Upserted(r) == (index[Home[r.id]] \ Of(r.id, index[Home[r.id]])) \cup {r}

\* It raises before it writes if the file is torn.
Upsert(s, whole) ==
    /\ deleting = Idle /\ versions < MaxVersions /\ Home[s] \notin torn
    /\ versions' = versions + 1
    /\ \E now \in clock .. MaxClock :
          /\ clock' = now
          /\ WriteIndex(Home[s], Upserted([id |-> s, updated |-> now, version |-> versions']), whole)
    /\ UNCHANGED deleting

\* A new session, indexed at once or when its first message is stored, which no
\* file is searched for; also the default session of a project, unless a lookup
\* finds it.
Create(s, whole) ==
    /\ GetSession(s) = None /\ (torn = {} \/ s \notin files)
    /\ Upsert(s, whole)
    /\ files' = files \cup {s}

\* Model, title or temperature change, or the session is merely used. What it
\* does not change it takes from the newest record.
Touch(s, whole) ==
    /\ torn = {} /\ GetSession(s) # None
    /\ Upsert(s, whole)
    /\ UNCHANGED files

\* Fault: only the project's own index is searched.
Holding_Home(s) == {p \in {Home[s]} : Of(s, index[p]) # {}}

Holding(s) == {p \in Paths : Of(s, index[p]) # {}}

\* A deletion rewrites every file that holds the session, in any order, and
\* removes the transcript last.
Delete(s) ==
    /\ deleting = Idle /\ torn = {} /\ GetSession(s) # None
    /\ deleting' = [session |-> s, left |-> Holding(s)]
    /\ UNCHANGED <<index, torn, files, clock, versions, deaths>>

Rewrite(p, whole) ==
    /\ deleting # Idle /\ p \in deleting.left
    /\ WriteIndex(p, index[p] \ Of(deleting.session, index[p]), whole)
    /\ deleting' = IF whole THEN [deleting EXCEPT !.left = @ \ {p}] ELSE Idle
    /\ UNCHANGED <<files, clock, versions>>

Unlink ==
    /\ deleting # Idle /\ deleting.left = {}
    /\ files' = files \ {deleting.session}
    /\ deleting' = Idle
    /\ UNCHANGED <<index, torn, clock, versions, deaths>>

\* The process dies between two files.
Crash ==
    /\ deleting # Idle
    /\ deleting' = Idle
    /\ UNCHANGED <<index, torn, files, clock, versions, deaths>>

Next ==
    \/ \E s \in Sessions, whole \in BOOLEAN : Create(s, whole) \/ Touch(s, whole)
    \/ \E s \in Sessions : Delete(s)
    \/ \E p \in Paths, whole \in BOOLEAN : Rewrite(p, whole)
    \/ Unlink \/ Crash

Spec == Init /\ [][Next]_vars
-----------------------------------------------------------------------------
(* Properties.                                                             *)

TypeOK ==
    /\ index \in [Paths -> SUBSET Record] /\ torn \subseteq Paths
    /\ deaths \in 0 .. MaxDeaths
    /\ files \subseteq Sessions
    /\ clock \in 0 .. MaxClock /\ versions \in 0 .. MaxVersions
    /\ deleting \in [session : Sessions \cup {None}, left : SUBSET Paths]

\* A session has one record in each file (_upsert replaces it), and a project
\* lists exactly what a lookup over all files finds for its sessions, although
\* the two read the files in different orders (list_sessions, get_session):
\* unless both records carry the same time, where the orders disagree.
ListsAgree ==
    /\ \A p \in Paths : \A r, x \in index[p] : r.id = x.id => r = x
    /\ \A s \in Sessions :
          LET found == GetSession(s)
              tied  == \E r \in Of(s, index["legacy"]), x \in Of(s, AllRecords) : r.updated = x.updated
          IN  tied \/ (found # None) = (found \in Listed(Home[s]))

\* What is listed can be opened: the transcript goes only after every index
\* has forgotten the session, also when the process dies between two files or
\* inside one (delete_session, _write_index).
ListedCanOpen == \A s \in Sessions : GetSession(s) # None => s \in files

\* The files implement one catalog: an update is what the next lookup returns,
\* whatever older records the legacy file holds, and a deletion that a crash
\* cuts short between two files leaves the session as it was, or as it was at some
\* earlier time. A write that dies costs other sessions of its project their
\* metadata, and those of other projects only what the legacy file alone has.
Catalogued ==
    [s \in Sessions |-> IF GetSession(s) = None THEN None ELSE GetSession(s).version]

Catalog == INSTANCE SessionCatalog
           WITH Versions <- 0 .. MaxVersions, Old <- 0, catalog <- Catalogued, readable <- torn = {}

ImplementsCatalog == Catalog!Spec

\* An update is never shadowed: metadata that a step stores whole is what a lookup
\* returns next (touch_session, _upsert).
UpdatesSeen ==
    [][\A s \in Sessions : Upsert(s, TRUE) =>
          GetSession(s)' # None /\ GetSession(s)'.version = versions']_vars

\* What TLAPS proves of every reachable state.
RecordsHomed   == \A p \in Projects : \A r \in index[p] : Home[r.id] = p
RecordsPast    == \A p \in Paths : \A r \in index[p] : r.updated <= clock
RecordsCanOpen == \A p \in Paths : \A r \in index[p] : r.id \in files
LegacyOld      == \A r \in index["legacy"] : r.updated = 0 /\ r.version = 0

\* What a deletion has rewritten holds nothing of its session any more, and it
\* rewrites no other project's file.
Forgotten ==
    \/ deleting = Idle
    \/ /\ deleting.session \in Sessions
       /\ \A p \in Paths \ deleting.left : Of(deleting.session, index[p]) = {}
       /\ deleting.left \subseteq {"legacy", Home[deleting.session]}

IndexInv ==
    /\ ListsAgree /\ ListedCanOpen
    /\ RecordsHomed /\ RecordsPast /\ RecordsCanOpen /\ LegacyOld /\ Forgotten

\* The index is consistent in every state and loses no update.
IndexConsistent == [](TypeOK /\ IndexInv) /\ UpdatesSeen
=============================================================================
