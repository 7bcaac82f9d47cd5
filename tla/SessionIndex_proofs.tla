------------------------ MODULE SessionIndex_proofs -------------------------
(***************************************************************************)
(* The session index, for any number of sessions and projects: its lists   *)
(* and lookups agree, what is listed can be opened, an update is what the  *)
(* next lookup finds, and the files implement one catalog.                 *)
(***************************************************************************)
EXTENDS SessionIndex, TLAPS

-----------------------------------------------------------------------------
(* What _deduplicate_records finds when each of the two parts that are read *)
(* has at most one record of the session.                                   *)

AtMostOne(S) == \A r, x \in S : r = x

\* Where there is no record nothing is found.
LEMMA NewestOfNone ==
    ASSUME NEW first, NEW then, NEW s, Of(s, first) = {}, Of(s, then) = {}
    PROVE  Newest(first, then, s) = None
  BY DEF Newest

\* A record that stands alone is found.
LEMMA NewestAlone ==
    ASSUME NEW first, NEW then, NEW s, NEW r,
           Of(s, first) \cup Of(s, then) = {r}
    PROVE  Newest(first, then, s) = r
<1> DEFINE early == Of(s, first)
           late  == Of(s, then)
           Wins(x) ==
               IF x \in late THEN \A y \in (early \cup late) \ {x} : Supersedes(x, y)
               ELSE /\ \A y \in early \ {x} : Supersedes(x, y)
                    /\ \A y \in late : ~Supersedes(y, x)
<1>1. Newest(first, then, s) = CHOOSE x \in early \cup late : Wins(x)
  BY DEF Newest
<1>2. \A x \in early \cup late : x = r
  OBVIOUS
<1>3. r \in early \cup late
  OBVIOUS
<1>4. Wins(r)
  BY <1>2, <1>3
<1> HIDE DEF early, late, Wins
<1> QED
  BY <1>1, <1>2, <1>3, <1>4

\* Of two records the later one counts, and the one read last if their times
\* are the same.
LEMMA NewestOfTwo ==
    ASSUME NEW first, NEW then, NEW s,
           NEW f \in Of(s, first), AtMostOne(Of(s, first)),
           NEW t \in Of(s, then), AtMostOne(Of(s, then)),
           f.updated \in Nat, t.updated \in Nat
    PROVE  Newest(first, then, s) = IF t.updated >= f.updated THEN t ELSE f
<1> DEFINE early == Of(s, first)
           late  == Of(s, then)
           Wins(x) ==
               IF x \in late THEN \A y \in (early \cup late) \ {x} : Supersedes(x, y)
               ELSE /\ \A y \in early \ {x} : Supersedes(x, y)
                    /\ \A y \in late : ~Supersedes(y, x)
<1>1. Newest(first, then, s) = CHOOSE x \in early \cup late : Wins(x)
  BY DEF Newest
<1>2. early = {f} /\ late = {t}
  BY DEF AtMostOne
<1> HIDE DEF early, late
<1>3. CASE t.updated >= f.updated
  <2>1. Wins(t)
    BY <1>2, <1>3 DEF Supersedes
  <2>2. \A x \in early \cup late : Wins(x) => x = t
    BY <1>2, <1>3 DEF Supersedes
  <2> HIDE DEF Wins
  <2> QED
    BY <1>1, <1>2, <1>3, <2>1, <2>2
<1>4. CASE ~(t.updated >= f.updated)
  <2>0. f # t
    BY <1>4
  <2>1. Wins(f)
    BY <1>2, <1>4, <2>0 DEF Supersedes
  <2>2. \A x \in early \cup late : Wins(x) => x = f
    BY <1>2, <1>4, <2>0 DEF Supersedes
  <2> HIDE DEF Wins
  <2> QED
    BY <1>1, <1>2, <1>4, <2>1, <2>2
<1> QED
  BY <1>3, <1>4

\* In any case what is found is one of the records.
LEMMA NewestFound ==
    ASSUME NEW first, NEW then, NEW s,
           AtMostOne(Of(s, first)), AtMostOne(Of(s, then)),
           Of(s, first) \subseteq Record, Of(s, then) \subseteq Record
    PROVE  Newest(first, then, s) \in Of(s, first) \cup Of(s, then) \cup {None}
<1>1. CASE Of(s, first) = {} /\ Of(s, then) = {}
  BY <1>1, NewestOfNone
<1>2. CASE \E r : Of(s, first) \cup Of(s, then) = {r}
  <2>1. PICK r : Of(s, first) \cup Of(s, then) = {r}
    BY <1>2
  <2>2. Newest(first, then, s) = r
    BY <2>1, NewestAlone
  <2> QED
    BY <2>1, <2>2
<1>3. CASE Of(s, first) # {} /\ Of(s, then) # {}
  <2>1. PICK f \in Of(s, first), t \in Of(s, then) : TRUE
    BY <1>3
  <2>2. f.updated \in Nat /\ t.updated \in Nat
    BY DEF Record
  <2>3. Newest(first, then, s) = IF t.updated >= f.updated THEN t ELSE f
    BY <2>2, NewestOfTwo
  <2> QED
    BY <2>3
<1>4. Of(s, first) = {} \/ \E r : Of(s, first) = {r}
  BY DEF AtMostOne
<1>5. Of(s, then) = {} \/ \E r : Of(s, then) = {r}
  BY DEF AtMostOne
<1>6. Of(s, first) = {} \/ Of(s, then) = {} =>
          \/ Of(s, first) = {} /\ Of(s, then) = {}
          \/ \E r : Of(s, first) \cup Of(s, then) = {r}
  BY <1>4, <1>5
<1> QED
  BY <1>1, <1>2, <1>3, <1>6

-----------------------------------------------------------------------------
(* The inductive part of the invariant, from which the rest follows.       *)

OneRecord == \A p \in Paths : \A r, x \in index[p] : r.id = x.id => r = x

Core ==
    /\ TypeOK /\ OneRecord
    /\ RecordsHomed /\ RecordsPast /\ RecordsCanOpen /\ LegacyOld /\ Forgotten

\* The records of a session stand in the file of its project and in the legacy
\* file, one in each.
LEMMA WhereRecordsAre ==
    ASSUME Core, NEW s \in Sessions
    PROVE  /\ Home[s] \in Projects /\ Home[s] \in Paths /\ "legacy" \in Paths
           /\ Of(s, AllRecords) = Of(s, index[Home[s]])
           /\ Of(s, Legacy(Home[s])) = Of(s, index["legacy"])
           /\ AtMostOne(Of(s, index["legacy"])) /\ AtMostOne(Of(s, index[Home[s]]))
           /\ Of(s, index["legacy"]) \subseteq Record /\ Of(s, index[Home[s]]) \subseteq Record
<1>1. Home[s] \in Projects /\ Home[s] \in Paths /\ "legacy" \in Paths
  BY IndexAssumption DEF Paths
<1>2. \A r : r \in Of(s, AllRecords) <=> r \in Of(s, index[Home[s]])
  BY <1>1 DEF Core, RecordsHomed, Of, AllRecords
<1>3. \A r : r \in Of(s, Legacy(Home[s])) <=> r \in Of(s, index["legacy"])
  BY DEF Of, Legacy
<1>4. /\ Of(s, AllRecords) = Of(s, index[Home[s]])
      /\ Of(s, Legacy(Home[s])) = Of(s, index["legacy"])
  BY <1>2, <1>3
<1>5. AtMostOne(Of(s, index["legacy"])) /\ AtMostOne(Of(s, index[Home[s]]))
  BY <1>1 DEF Core, OneRecord, AtMostOne, Of
<1>6. index["legacy"] \subseteq Record /\ index[Home[s]] \subseteq Record
  BY <1>1 DEF Core, TypeOK
<1>7. Of(s, index["legacy"]) \subseteq Record /\ Of(s, index[Home[s]]) \subseteq Record
  BY <1>6 DEF Of
<1> QED
  BY <1>1, <1>4, <1>5, <1>7

\* A lookup finds one of the records of its session, if there is any; and a
\* list finds the same one, unless two have the same time.
LEMMA LookupFinds ==
    ASSUME Core, NEW s \in Sessions
    PROVE  LET early == Of(s, index["legacy"])
               late  == Of(s, index[Home[s]])
               found == GetSession(s)
               listed == Newest(index[Home[s]], Legacy(Home[s]), s)
           IN  /\ early \cup late = {} => found = None
               /\ early \cup late # {} => found \in early \cup late
               /\ \A f \in early, t \in late : t.updated >= f.updated => found = t
               /\ (\A f \in early, t \in late : f.updated # t.updated) => listed = found
<1> DEFINE early == Of(s, index["legacy"])
           late  == Of(s, index[Home[s]])
           found == GetSession(s)
           listed == Newest(index[Home[s]], Legacy(Home[s]), s)
<1> SUFFICES /\ early \cup late = {} => found = None
             /\ early \cup late # {} => found \in early \cup late
             /\ \A f \in early, t \in late : t.updated >= f.updated => found = t
             /\ (\A f \in early, t \in late : f.updated # t.updated) => listed = found
  OBVIOUS
<1>1. /\ Of(s, AllRecords) = late /\ Of(s, Legacy(Home[s])) = early
      /\ AtMostOne(early) /\ AtMostOne(late) /\ early \subseteq Record /\ late \subseteq Record
  BY WhereRecordsAre
<1>2. \A r \in early \cup late : r.updated \in Nat
  BY <1>1 DEF Record
<1>3. CASE early \cup late = {}
  <2>1. found = None /\ listed = None
    BY <1>1, <1>3, NewestOfNone DEF GetSession
  <2> QED
    BY <1>3, <2>1
<1>4. CASE \E r : early \cup late = {r}
  <2>1. PICK r : early \cup late = {r}
    BY <1>4
  <2>2. found = r /\ listed = r
    <3>1. Of(s, index["legacy"]) \cup Of(s, AllRecords) = {r}
      BY <1>1, <2>1
    <3>2. Of(s, index[Home[s]]) \cup Of(s, Legacy(Home[s])) = {r}
      BY <1>1, <2>1
    <3> QED
      BY <3>1, <3>2, NewestAlone DEF GetSession
  <2> HIDE DEF early, late, found, listed
  <2> QED
    BY <2>1, <2>2
<1>5. CASE early # {} /\ late # {}
  <2>1. PICK f \in early, t \in late : TRUE
    BY <1>5
  <2>2. early = {f} /\ late = {t} /\ f.updated \in Nat /\ t.updated \in Nat
    BY <1>1, <1>2, <2>1 DEF AtMostOne
  <2>3. found = IF t.updated >= f.updated THEN t ELSE f
    <3>1. f \in Of(s, index["legacy"]) /\ t \in Of(s, AllRecords)
      BY <1>1, <2>1
    <3>2. AtMostOne(Of(s, index["legacy"])) /\ AtMostOne(Of(s, AllRecords))
      BY <1>1
    <3> QED
      BY <2>2, <3>1, <3>2, NewestOfTwo DEF GetSession
  <2>4. listed = IF f.updated >= t.updated THEN f ELSE t
    <3>1. t \in Of(s, index[Home[s]]) /\ f \in Of(s, Legacy(Home[s]))
      BY <1>1, <2>1
    <3>2. AtMostOne(Of(s, index[Home[s]])) /\ AtMostOne(Of(s, Legacy(Home[s])))
      BY <1>1
    <3> QED
      BY <2>2, <3>1, <3>2, NewestOfTwo
  <2> HIDE DEF early, late, found, listed
  <2> QED
    BY <2>2, <2>3, <2>4
<1>6. early = {} \/ late = {} => early \cup late = {} \/ \E r : early \cup late = {r}
  <2> HIDE DEF early, late
  <2>1. early = {} \/ \E r : early = {r}
    BY <1>1 DEF AtMostOne
  <2>2. late = {} \/ \E r : late = {r}
    BY <1>1 DEF AtMostOne
  <2> QED
    BY <2>1, <2>2
<1> QED
  BY <1>3, <1>4, <1>5, <1>6

\* The type of a lookup.
LEMMA LookupType ==
    ASSUME Core, NEW s \in Sessions
    PROVE  /\ GetSession(s) \in Record \cup {None}
           /\ GetSession(s) # None => GetSession(s).id = s /\ GetSession(s) \in Record
           /\ GetSession(s) # None =>
                 \E p \in Paths : GetSession(s) \in index[p]
<1>1. /\ Of(s, index["legacy"]) \subseteq Record /\ Of(s, index[Home[s]]) \subseteq Record
      /\ "legacy" \in Paths /\ Home[s] \in Paths
  BY WhereRecordsAre
<1>2. \/ GetSession(s) = None
      \/ GetSession(s) \in Of(s, index["legacy"]) \cup Of(s, index[Home[s]])
  BY LookupFinds
<1> QED
  BY <1>1, <1>2 DEF Of

\* The properties a caller sees follow from the inductive part.
LEMMA CoreSuffices == Core => TypeOK /\ IndexInv
<1> SUFFICES ASSUME Core PROVE TypeOK /\ IndexInv
  OBVIOUS
<1>1. ListedCanOpen
  <2> SUFFICES ASSUME NEW s \in Sessions, GetSession(s) # None PROVE s \in files
    BY DEF ListedCanOpen
  <2> QED
    BY LookupType DEF Core, RecordsCanOpen
<1>2. ListsAgree
  <2> SUFFICES ASSUME NEW s \in Sessions,
                      \A r \in Of(s, index["legacy"]), x \in Of(s, AllRecords) :
                          r.updated # x.updated
               PROVE  (GetSession(s) # None) = (GetSession(s) \in Listed(Home[s]))
    BY DEF Core, OneRecord, ListsAgree
  <2>1. Newest(index[Home[s]], Legacy(Home[s]), s) = GetSession(s)
    BY WhereRecordsAre, LookupFinds
  <2> QED
    BY <2>1 DEF Listed
<1> QED
  BY <1>1, <1>2 DEF Core, IndexInv

-----------------------------------------------------------------------------
(* What the steps do to the files.                                         *)

Stored(s, now, v) == [id |-> s, updated |-> now, version |-> v]

\* A write reaches one file. Whole, it stores what it was asked to; cut short, some
\* of it.
LEMMA Writes ==
    ASSUME Core, NEW p \in Paths, NEW records \in SUBSET Record, NEW whole \in BOOLEAN,
           WriteIndex(p, records, whole)
    PROVE  /\ index' \in [Paths -> SUBSET Record]
           /\ index'[p] \subseteq records
           /\ \A q \in Paths \ {p} : index'[q] = index[q]
           /\ torn \subseteq torn' /\ torn' \subseteq Paths /\ deaths' \in 0 .. MaxDeaths
           /\ whole => index'[p] = records /\ torn' = torn /\ deaths' = deaths
           /\ ~whole => deaths' = deaths + 1
<1>1. /\ index \in [Paths -> SUBSET Record] /\ torn \subseteq Paths
      /\ deaths \in 0 .. MaxDeaths
  BY DEF Core, TypeOK
<1>2. CASE whole
  <2>1. index' = [index EXCEPT ![p] = records] /\ torn' = torn /\ deaths' = deaths
    BY <1>2 DEF WriteIndex
  <2> QED
    BY <1>1, <1>2, <2>1
<1>3. CASE ~whole
  <2>1. PICK part \in Begun(records) :
            index' = [index EXCEPT ![p] = part] /\ torn' \in {torn, torn \cup {p}}
    BY <1>3 DEF WriteIndex
  <2>2. deaths < MaxDeaths /\ deaths' = deaths + 1
    BY <1>3 DEF WriteIndex
  <2>3. part \subseteq records
    BY DEF Begun
  <2>4. deaths' \in 0 .. MaxDeaths
    BY <1>1, <2>2, IndexAssumption
  <2>5. torn \subseteq torn' /\ torn' \subseteq Paths
    BY <1>1, <2>1
  <2>6. index' \in [Paths -> SUBSET Record] /\ index'[p] = part
    BY <1>1, <2>1, <2>3
  <2> QED
    BY <1>1, <1>3, <2>1, <2>2, <2>3, <2>4, <2>5, <2>6
<1> QED
  BY <1>2, <1>3

\* _upsert gives a session a record newer than all, in the file of its project.
LEMMA UpsertStores ==
    ASSUME Core, NEW s \in Sessions, NEW whole \in BOOLEAN, Upsert(s, whole)
    PROVE  LET kept == {r \in index[Home[s]] : r.id # s}
               new  == Stored(s, clock', versions')
           IN  /\ deleting = Idle /\ deleting' = Idle
               /\ clock' \in clock .. MaxClock /\ clock' \in 0 .. MaxClock
               /\ versions' = versions + 1 /\ versions' \in 0 .. MaxVersions
               /\ new \in Record
               /\ WriteIndex(Home[s], kept \cup {new}, whole)
               /\ kept \cup {new} \in SUBSET Record
<1> DEFINE kept == {r \in index[Home[s]] : r.id # s}
           new  == Stored(s, clock', versions')
<1>1. /\ deleting = Idle /\ deleting' = Idle /\ versions < MaxVersions
      /\ versions' = versions + 1 /\ clock' \in clock .. MaxClock
      /\ WriteIndex(Home[s], Upserted(new), whole)
  BY DEF Upsert, Stored
<1>2. /\ clock \in 0 .. MaxClock /\ versions \in 0 .. MaxVersions
      /\ index \in [Paths -> SUBSET Record]
  BY DEF Core, TypeOK
<1>3. clock' \in 0 .. MaxClock /\ versions' \in 0 .. MaxVersions
  BY <1>1, <1>2, IndexAssumption
<1>4. new \in Record /\ new.id = s
  BY <1>3 DEF Record, Stored
<1>5. Home[s] \in Paths
  BY WhereRecordsAre
<1> HIDE DEF new
<1>6. Upserted(new) = kept \cup {new}
  BY <1>4 DEF Upserted, Of
<1>7. kept \cup {new} \in SUBSET Record
  BY <1>2, <1>4, <1>5
<1> QED
  BY <1>1, <1>3, <1>4, <1>6, <1>7 DEF new

\* Storing a record keeps the invariant, if the transcript is there; also when
\* the process dies in it.
LEMMA UpsertKeepsCore ==
    ASSUME Core, NEW s \in Sessions, NEW whole \in BOOLEAN, Upsert(s, whole),
           files' \subseteq Sessions, files \subseteq files', s \in files'
    PROVE  Core'
<1> DEFINE new == Stored(s, clock', versions')
           kept == {r \in index[Home[s]] : r.id # s}
<1>1. Home[s] \in Projects /\ Home[s] \in Paths
  BY WhereRecordsAre
<1>2. /\ deleting = Idle /\ deleting' = Idle
      /\ clock' \in clock .. MaxClock /\ clock' \in 0 .. MaxClock
      /\ versions' \in 0 .. MaxVersions
      /\ new \in Record
      /\ WriteIndex(Home[s], kept \cup {new}, whole) /\ kept \cup {new} \in SUBSET Record
  BY UpsertStores
<1>3. new.id = s /\ new.updated = clock'
  BY DEF Stored
<1> HIDE DEF new, kept
<1>4. /\ index' \in [Paths -> SUBSET Record]
      /\ index'[Home[s]] \subseteq kept \cup {new}
      /\ \A p \in Paths \ {Home[s]} : index'[p] = index[p]
      /\ torn' \subseteq Paths /\ deaths' \in 0 .. MaxDeaths
  <2>1. CASE whole = TRUE
    <3>1. WriteIndex(Home[s], kept \cup {new}, TRUE)
      BY <1>2, <2>1
    <3> QED
      BY <1>1, <1>2, <2>1, <3>1, Writes
  <2>2. CASE whole = FALSE
    <3>1. WriteIndex(Home[s], kept \cup {new}, FALSE)
      BY <1>2, <2>2
    <3> QED
      BY <1>1, <1>2, <2>2, <3>1, Writes
  <2> QED
    BY <2>1, <2>2
<1>5. \A p \in Paths : \A r \in index'[p] :
          r \in index[p] \/ (p = Home[s] /\ r = new)
  BY <1>4 DEF kept
<1>6. \A r \in index'[Home[s]] : r.id = s => r = new
  BY <1>4 DEF kept
<1>7. TypeOK'
  BY <1>2, <1>4 DEF Core, TypeOK
<1>8. OneRecord'
  <2> SUFFICES ASSUME NEW p \in Paths, NEW r \in index'[p], NEW x \in index'[p], r.id = x.id
               PROVE  r = x
    BY DEF OneRecord
  <2>1. CASE p # Home[s]
    BY <1>4, <2>1 DEF Core, OneRecord
  <2>2. CASE p = Home[s]
    <3>1. CASE r.id = s
      BY <1>6, <2>2, <3>1
    <3>2. CASE r.id # s
      BY <1>3, <1>5, <3>2 DEF Core, OneRecord
    <3> QED
      BY <3>1, <3>2
  <2> QED
    BY <2>1, <2>2
<1>9. RecordsHomed'
  BY <1>3, <1>5 DEF Core, RecordsHomed, Paths
<1>10. RecordsPast'
  <2> SUFFICES ASSUME NEW p \in Paths, NEW r \in index'[p] PROVE r.updated <= clock'
    BY DEF RecordsPast
  <2>1. CASE r = new
    BY <1>2, <1>3, <2>1, IndexAssumption
  <2>2. CASE r \in index[p]
    <3>1. r.updated <= clock /\ r.updated \in Nat /\ clock \in Nat
      BY <2>2 DEF Core, RecordsPast, TypeOK, Record
    <3> QED
      BY <1>2, <3>1, IndexAssumption
  <2> QED
    BY <1>5, <2>1, <2>2
<1>11. RecordsCanOpen'
  BY <1>3, <1>5 DEF Core, RecordsCanOpen
<1>12. LegacyOld'
  <2>1. index'["legacy"] = index["legacy"]
    BY <1>1, <1>4, IndexAssumption DEF Paths
  <2> QED
    BY <2>1 DEF Core, LegacyOld
<1>13. Forgotten'
  BY <1>2 DEF Forgotten, Idle
<1> QED
  BY <1>7, <1>8, <1>9, <1>10, <1>11, <1>12, <1>13 DEF Core

\* Rewriting a file drops the records of the session that is deleted, and others
\* only if the process dies in it.
LEMMA RewriteDrops ==
    ASSUME Core, NEW p \in Paths, NEW whole \in BOOLEAN, Rewrite(p, whole)
    PROVE  /\ deleting # Idle /\ deleting.session \in Sessions
           /\ p \in deleting.left /\ p \in {"legacy", Home[deleting.session]}
           /\ index' \in [Paths -> SUBSET Record]
           /\ index'[p] \subseteq {r \in index[p] : r.id # deleting.session}
           /\ whole => index'[p] = {r \in index[p] : r.id # deleting.session}
           /\ \A q \in Paths \ {p} : index'[q] = index[q]
           /\ torn \subseteq torn' /\ torn' \subseteq Paths /\ deaths' \in 0 .. MaxDeaths
           /\ whole => torn' = torn /\ deaths' = deaths
           /\ ~whole => deaths' = deaths + 1
<1> DEFINE kept == {r \in index[p] : r.id # deleting.session}
<1>1. /\ deleting # Idle /\ p \in deleting.left
      /\ WriteIndex(p, index[p] \ Of(deleting.session, index[p]), whole)
  BY DEF Rewrite
<1>2. index[p] \ Of(deleting.session, index[p]) = kept
  BY DEF Of
<1>3. kept \in SUBSET Record
  BY DEF Core, TypeOK
<1>4. deleting.session \in Sessions /\ p \in {"legacy", Home[deleting.session]}
  BY <1>1 DEF Core, Forgotten
<1>5. WriteIndex(p, kept, whole)
  BY <1>1, <1>2
<1> HIDE DEF kept
<1>6. /\ index' \in [Paths -> SUBSET Record] /\ index'[p] \subseteq kept
      /\ \A q \in Paths \ {p} : index'[q] = index[q]
      /\ torn \subseteq torn' /\ torn' \subseteq Paths /\ deaths' \in 0 .. MaxDeaths
      /\ whole => index'[p] = kept /\ torn' = torn /\ deaths' = deaths
      /\ ~whole => deaths' = deaths + 1
  <2>1. CASE whole = TRUE
    <3>1. WriteIndex(p, kept, TRUE)
      BY <1>5, <2>1
    <3> QED
      BY <1>3, <2>1, <3>1, Writes
  <2>2. CASE whole = FALSE
    <3>1. WriteIndex(p, kept, FALSE)
      BY <1>5, <2>2
    <3> QED
      BY <1>3, <2>2, <3>1, Writes
  <2> QED
    BY <2>1, <2>2
<1> QED
  BY <1>1, <1>4, <1>6 DEF kept

LEMMA RewriteKeepsCore ==
    ASSUME Core, NEW p \in Paths, NEW whole \in BOOLEAN, Rewrite(p, whole)
    PROVE  Core'
<1>1. /\ deleting # Idle /\ deleting.session \in Sessions
      /\ index' \in [Paths -> SUBSET Record]
      /\ index'[p] \subseteq {r \in index[p] : r.id # deleting.session}
      /\ \A q \in Paths \ {p} : index'[q] = index[q]
      /\ torn' \subseteq Paths /\ deaths' \in 0 .. MaxDeaths
  BY RewriteDrops
<1>2. /\ deleting' = IF whole THEN [deleting EXCEPT !.left = @ \ {p}] ELSE Idle
      /\ UNCHANGED <<files, clock, versions>>
  BY DEF Rewrite
<1>3. \A q \in Paths : index'[q] \subseteq index[q]
  BY <1>1
<1>4. deleting \in [session : Sessions \cup {None}, left : SUBSET Paths]
  BY DEF Core, TypeOK
<1>5. /\ deleting' \in [session : Sessions \cup {None}, left : SUBSET Paths]
      /\ \/ deleting' = Idle
         \/ deleting'.session = deleting.session /\ deleting'.left = deleting.left \ {p}
  BY <1>2, <1>4 DEF Idle
<1>6. TypeOK'
  BY <1>1, <1>2, <1>5 DEF Core, TypeOK
<1>7. OneRecord' /\ RecordsHomed' /\ RecordsPast' /\ RecordsCanOpen' /\ LegacyOld'
  <2>1. OneRecord'
    BY <1>3 DEF Core, OneRecord
  <2>2. RecordsHomed'
    BY <1>3 DEF Core, RecordsHomed, Paths
  <2>3. RecordsPast'
    BY <1>2, <1>3 DEF Core, RecordsPast
  <2>4. RecordsCanOpen'
    BY <1>2, <1>3 DEF Core, RecordsCanOpen
  <2>5. LegacyOld'
    BY <1>3 DEF Core, LegacyOld, Paths
  <2> QED
    BY <2>1, <2>2, <2>3, <2>4, <2>5
<1>8. Forgotten'
  <2>1. CASE deleting' = Idle
    BY <2>1 DEF Forgotten
  <2>2. CASE deleting'.session = deleting.session /\ deleting'.left = deleting.left \ {p}
    <3>1. ASSUME NEW q \in Paths \ deleting'.left
          PROVE  Of(deleting.session, index'[q]) = {}
      <4>1. CASE q = p
        BY <1>1, <4>1 DEF Of
      <4>2. CASE q # p
        BY <1>1, <2>2, <4>2 DEF Core, Forgotten, Of
      <4> QED
        BY <4>1, <4>2
    <3>2. deleting'.left \subseteq {"legacy", Home[deleting.session]}
      BY <1>1, <2>2 DEF Core, Forgotten
    <3> QED
      BY <1>1, <2>2, <3>1, <3>2 DEF Forgotten
  <2> QED
    BY <1>5, <2>1, <2>2
<1> QED
  BY <1>6, <1>7, <1>8 DEF Core

\* A transcript goes when no file holds its session.
LEMMA UnlinkKeepsCore ==
    ASSUME Core, Unlink
    PROVE  Core'
<1>1. /\ deleting # Idle /\ deleting.left = {}
      /\ files' = files \ {deleting.session} /\ deleting' = Idle
      /\ UNCHANGED <<index, torn, clock, versions, deaths>>
  BY DEF Unlink
<1>2. \A p \in Paths : Of(deleting.session, index[p]) = {}
  BY <1>1 DEF Core, Forgotten
<1>3. RecordsCanOpen'
  BY <1>1, <1>2 DEF Core, RecordsCanOpen, Of
<1>4. TypeOK'
  BY <1>1 DEF Core, TypeOK, Idle
<1> QED
  BY <1>1, <1>3, <1>4 DEF Core, OneRecord, RecordsHomed, RecordsPast, LegacyOld, Forgotten

LEMMA StartCore == Init => Core
<1> SUFFICES ASSUME Init PROVE Core
  OBVIOUS
<1>1. PICK old \in SUBSET Sessions :
          /\ index = [p \in Paths |-> IF p # "legacy" THEN {} ELSE
                         {[id |-> s, updated |-> 0, version |-> 0] : s \in old}]
          /\ files = old
  BY DEF Init
<1>2. torn = {} /\ deaths = 0 /\ clock = 0 /\ versions = 0 /\ deleting = Idle
  BY DEF Init
<1>3. \A p \in Paths : \A r \in index[p] :
          /\ p = "legacy" /\ r \in Record /\ r.id \in old /\ r.updated = 0 /\ r.version = 0
          /\ r = [id |-> r.id, updated |-> 0, version |-> 0]
  BY <1>1, IndexAssumption DEF Record
<1>4. TypeOK
  <2>1. index \in [Paths -> SUBSET Record]
    BY <1>1, <1>3
  <2> QED
    BY <1>1, <1>2, <2>1, IndexAssumption DEF TypeOK, Idle
<1>5. OneRecord
  BY <1>3 DEF OneRecord
<1>6. RecordsHomed
  BY <1>3, IndexAssumption DEF RecordsHomed, Paths
<1>7. RecordsPast /\ RecordsCanOpen /\ LegacyOld /\ Forgotten
  BY <1>1, <1>2, <1>3 DEF RecordsPast, RecordsCanOpen, LegacyOld, Forgotten, Paths
<1> QED
  BY <1>4, <1>5, <1>6, <1>7 DEF Core

LEMMA NextKeepsCore == Core /\ [Next]_vars => Core'
<1> SUFFICES ASSUME Core, [Next]_vars PROVE Core'
  OBVIOUS
<1>1. CASE \E s \in Sessions, whole \in BOOLEAN : Create(s, whole)
  <2>1. PICK s \in Sessions, whole \in BOOLEAN : Create(s, whole)
    BY <1>1
  <2>2. Upsert(s, whole) /\ files' = files \cup {s} /\ files \subseteq Sessions
    BY <2>1 DEF Create, Core, TypeOK
  <2> QED
    BY <2>2, UpsertKeepsCore
<1>2. CASE \E s \in Sessions, whole \in BOOLEAN : Touch(s, whole)
  <2>1. PICK s \in Sessions, whole \in BOOLEAN : Touch(s, whole)
    BY <1>2
  <2>2. Upsert(s, whole) /\ files' = files /\ GetSession(s) # None /\ files \subseteq Sessions
    BY <2>1 DEF Touch, Core, TypeOK
  <2>3. s \in files
    BY <2>2, LookupType DEF Core, RecordsCanOpen
  <2> QED
    BY <2>2, <2>3, UpsertKeepsCore
<1>3. CASE \E s \in Sessions : Delete(s)
  <2>1. PICK s \in Sessions : Delete(s)
    BY <1>3
  <2>2. /\ deleting' = [session |-> s, left |-> Holding(s)]
        /\ UNCHANGED <<index, torn, files, clock, versions, deaths>>
    BY <2>1 DEF Delete
  <2>3. /\ Holding(s) \subseteq Paths /\ \A p \in Paths \ Holding(s) : Of(s, index[p]) = {}
        /\ Holding(s) \subseteq {"legacy", Home[s]}
    BY DEF Holding, Of, Core, RecordsHomed, Paths
  <2>4. TypeOK'
    BY <2>2, <2>3 DEF Core, TypeOK
  <2>5. Forgotten'
    BY <2>2, <2>3 DEF Forgotten, Of
  <2> QED
    BY <2>2, <2>4, <2>5 DEF Core, OneRecord, RecordsHomed, RecordsPast, RecordsCanOpen, LegacyOld
<1>4. CASE \E p \in Paths, whole \in BOOLEAN : Rewrite(p, whole)
  BY <1>4, RewriteKeepsCore
<1>5. CASE Unlink
  BY <1>5, UnlinkKeepsCore
<1>6. CASE Crash
  <2>1. deleting' = Idle /\ UNCHANGED <<index, torn, files, clock, versions, deaths>>
    BY <1>6 DEF Crash
  <2>2. TypeOK'
    BY <2>1 DEF Core, TypeOK, Idle
  <2> QED
    BY <2>1, <2>2 DEF Core, OneRecord, RecordsHomed, RecordsPast, RecordsCanOpen, LegacyOld,
                    Forgotten
<1>7. CASE UNCHANGED vars
  BY <1>7 DEF vars, Core, TypeOK, OneRecord, RecordsHomed, RecordsPast, RecordsCanOpen,
              LegacyOld, Forgotten, Of
<1> QED
  BY <1>1, <1>2, <1>3, <1>4, <1>5, <1>6, <1>7 DEF Next

LEMMA CoreInvariant == Spec => []Core
<1>1. Init => Core
  BY StartCore
<1>2. Core /\ [Next]_vars => Core'
  BY NextKeepsCore
<1> QED
  BY <1>1, <1>2, PTL DEF Spec

\* Whatever is created, touched, deleted or cut short, between two files or inside
\* one: a file has one record of
\* a session, a project lists what a lookup finds (unless two records have the
\* same time), and what is found can be opened.
THEOREM IndexInvariance == Spec => [](TypeOK /\ IndexInv)
<1>1. Core => TypeOK /\ IndexInv
  BY CoreSuffices
<1> QED
  BY <1>1, CoreInvariant, PTL

-----------------------------------------------------------------------------
(* What a step changes for a caller.                                       *)

\* A session whose records a step leaves alone is looked up as before.
LEMMA OthersUnchanged ==
    ASSUME Core, NEW s \in Sessions,
           \A p \in Paths : Of(s, index'[p]) = Of(s, index[p])
    PROVE  GetSession(s)' = GetSession(s)
<1>1. Of(s, index'["legacy"]) = Of(s, index["legacy"])
  BY DEF Paths
<1>2. \A r : r \in Of(s, AllRecords') <=> \E p \in Projects : r \in Of(s, index'[p])
  BY DEF Of, AllRecords
<1>3. \A r : r \in Of(s, AllRecords) <=> \E p \in Projects : r \in Of(s, index[p])
  BY DEF Of, AllRecords
<1>4. Of(s, AllRecords') = Of(s, AllRecords)
  BY <1>2, <1>3 DEF Paths
<1> QED
  BY <1>1, <1>4 DEF GetSession, Newest

\* Metadata that a step stores is what a lookup returns next, whatever older
\* record the legacy file has.
LEMMA UpsertSeen ==
    ASSUME Core, Core', NEW s \in Sessions, Upsert(s, TRUE)
    PROVE  GetSession(s)' = Stored(s, clock', versions')
<1> DEFINE new == Stored(s, clock', versions')
           early == Of(s, index'["legacy"])
<1>1. /\ index'[Home[s]] = {r \in index[Home[s]] : r.id # s} \cup {new}
      /\ index'["legacy"] = index["legacy"]
      /\ clock' \in clock .. MaxClock /\ new \in Record
  <2>1. "legacy" \in Paths \ {Home[s]} /\ Home[s] \in Paths
    BY WhereRecordsAre, IndexAssumption
  <2>2. /\ WriteIndex(Home[s], {r \in index[Home[s]] : r.id # s} \cup {new}, TRUE)
        /\ {r \in index[Home[s]] : r.id # s} \cup {new} \in SUBSET Record
        /\ clock' \in clock .. MaxClock /\ new \in Record
    BY UpsertStores
  <2> HIDE DEF new
  <2> QED
    BY <2>1, <2>2, Writes
<1>2. new.id = s /\ new.updated = clock' /\ new.updated \in Nat
  BY <1>1 DEF Stored, Record
<1> HIDE DEF new
<1>3. Home[s] \in Projects /\ "legacy" \in Paths
  BY WhereRecordsAre
<1>4. \A r : r \in Of(s, AllRecords') <=> r = new
  <2>1. \A p \in Projects : \A r \in index'[p] : r.id = s => p = Home[s]
    BY DEF Core, RecordsHomed
  <2>2. \A r : r \in AllRecords' /\ r.id = s <=> r \in index'[Home[s]] /\ r.id = s
    BY <1>3, <2>1 DEF AllRecords
  <2> QED
    BY <1>1, <1>2, <2>2 DEF Of
<1>5. Of(s, AllRecords') = {new}
  BY <1>4
<1>6. AtMostOne(early)
  BY <1>3 DEF Core, OneRecord, AtMostOne, Of
<1>7. \A f \in early : f.updated \in Nat /\ new.updated >= f.updated
  <2> TAKE f \in early
  <2>1. f \in index["legacy"]
    BY <1>1 DEF Of
  <2>2. f.updated \in Nat /\ clock \in Nat /\ f.updated <= clock
    BY <1>3, <2>1 DEF Core, TypeOK, RecordsPast, Record
  <2> QED
    BY <1>1, <1>2, <2>2, IndexAssumption
<1>8. GetSession(s)' = Newest(index'["legacy"], AllRecords', s)
  BY DEF GetSession
<1>9. CASE early = {}
  <2>1. early \cup Of(s, AllRecords') = {new}
    BY <1>5, <1>9
  <2> QED
    BY <1>8, <2>1, NewestAlone DEF new
<1>10. CASE early # {}
  <2>1. PICK f \in early : TRUE
    BY <1>10
  <2>2. /\ f.updated \in Nat /\ new.updated >= f.updated
        /\ new \in Of(s, AllRecords') /\ AtMostOne(Of(s, AllRecords'))
    BY <1>5, <1>7, <2>1 DEF AtMostOne
  <2>3. Newest(index'["legacy"], AllRecords', s) = IF new.updated >= f.updated THEN new ELSE f
    BY <1>2, <1>6, <2>1, <2>2, NewestOfTwo
  <2> QED
    BY <1>8, <2>2, <2>3 DEF new
<1> QED
  BY <1>9, <1>10

\* A write that is whole leaves the other sessions alone.
LEMMA UpsertOthers ==
    ASSUME Core, NEW s \in Sessions, Upsert(s, TRUE), NEW other \in Sessions \ {s}
    PROVE  /\ GetSession(other)' = GetSession(other)
           /\ torn' = torn /\ deaths' = deaths
<1> DEFINE kept == {r \in index[Home[s]] : r.id # s}
           new  == Stored(s, clock', versions')
<1>1. /\ WriteIndex(Home[s], kept \cup {new}, TRUE)
      /\ kept \cup {new} \in SUBSET Record
  BY UpsertStores
<1>2. new.id = s /\ Home[s] \in Paths
  BY WhereRecordsAre DEF Stored
<1> HIDE DEF kept, new
<1>3. /\ index'[Home[s]] = kept \cup {new}
      /\ \A p \in Paths \ {Home[s]} : index'[p] = index[p]
      /\ torn' = torn /\ deaths' = deaths
  BY <1>1, <1>2, Writes
<1>4. Of(other, index'[Home[s]]) = Of(other, index[Home[s]])
  BY <1>2, <1>3 DEF Of, kept
<1>5. \A p \in Paths : Of(other, index'[p]) = Of(other, index[p])
  BY <1>3, <1>4
<1> QED
  BY <1>3, <1>5, OthersUnchanged

LEMMA RewriteOthers ==
    ASSUME Core, NEW p \in Paths, Rewrite(p, TRUE), NEW other \in Sessions \ {deleting.session}
    PROVE  GetSession(other)' = GetSession(other)
<1>1. /\ index'[p] = {r \in index[p] : r.id # deleting.session}
      /\ \A q \in Paths \ {p} : index'[q] = index[q]
  BY RewriteDrops
<1>2. Of(other, index'[p]) = Of(other, index[p])
  BY <1>1 DEF Of
<1>3. \A q \in Paths : Of(other, index'[q]) = Of(other, index[q])
  BY <1>1, <1>2
<1> QED
  BY <1>3, OthersUnchanged

\* The type of a lookup after a step.
LEMMA LookupTypeNext ==
    ASSUME Core', NEW s \in Sessions
    PROVE  GetSession(s)' \in Record \cup {None}
<1> DEFINE early == Of(s, index'["legacy"])
           late  == Of(s, AllRecords')
<1>1. Home[s] \in Projects /\ Home[s] \in Paths /\ "legacy" \in Paths
  BY IndexAssumption DEF Paths
<1>2. early \subseteq Record /\ AtMostOne(early)
  BY <1>1 DEF Core, TypeOK, OneRecord, AtMostOne, Of
<1>3. late \subseteq Record /\ AtMostOne(late)
  <2>1. late \subseteq index'[Home[s]] /\ \A r \in late : r.id = s
    BY <1>1 DEF Core, RecordsHomed, Of, AllRecords
  <2> QED
    BY <1>1, <2>1 DEF Core, TypeOK, OneRecord, AtMostOne
<1>4. Newest(index'["legacy"], AllRecords', s) \in early \cup late \cup {None}
  BY <1>2, <1>3, NewestFound
<1>5. GetSession(s)' = Newest(index'["legacy"], AllRecords', s)
  BY DEF GetSession
<1> QED
  BY <1>2, <1>3, <1>4, <1>5

LEMMA SameIndex ==
    ASSUME Core, UNCHANGED index, NEW s \in Sessions
    PROVE  GetSession(s)' = GetSession(s)
  BY OthersUnchanged

-----------------------------------------------------------------------------
(* Updates.                                                                *)

\* The index is consistent in every state, and an update is never shadowed by
\* an older record of the legacy file.
THEOREM IndexIsConsistent == Spec => IndexConsistent
<1>1. ASSUME Core, Core'
      PROVE  \A s \in Sessions : Upsert(s, TRUE) =>
                 GetSession(s)' # None /\ GetSession(s)'.version = versions'
  <2> SUFFICES ASSUME NEW s \in Sessions, Upsert(s, TRUE)
               PROVE  GetSession(s)' # None /\ GetSession(s)'.version = versions'
    OBVIOUS
  <2>1. GetSession(s)' = Stored(s, clock', versions')
    BY <1>1, UpsertSeen
  <2>2. Stored(s, clock', versions') \in Record
    BY <1>1, UpsertStores
  <2>3. Stored(s, clock', versions').version = versions'
    BY DEF Stored
  <2> QED
    BY <2>1, <2>2, <2>3, IndexAssumption
<1>2. Core /\ Core' /\ [Next]_vars =>
          [\A s \in Sessions : Upsert(s, TRUE) =>
             GetSession(s)' # None /\ GetSession(s)'.version = versions']_vars
  BY <1>1
<1>3. Core /\ [Next]_vars => Core'
  BY NextKeepsCore
<1>4. Spec => UpdatesSeen
  BY <1>2, CoreInvariant, PTL DEF Spec, UpdatesSeen
<1> QED
  BY <1>4, IndexInvariance, PTL DEF IndexConsistent

-----------------------------------------------------------------------------
(* The files implement one catalog (SessionCatalog).                       *)

\* What a lookup finds, in short: the record of the project, if there is one, or
\* else the legacy record, which is as old as can be.
Looked(s) ==
    LET early == Of(s, index["legacy"])
        late  == Of(s, index[Home[s]])
    IN  /\ \A t \in late : Catalogued[s] = t.version
        /\ late = {} => \A f \in early : Catalogued[s] = 0
        /\ late = {} /\ early = {} => Catalogued[s] = None
        /\ AtMostOne(late) /\ AtMostOne(early)
        /\ \A t \in late : t.version # None

LEMMA LookedAt == Core => \A s \in Sessions : Looked(s)
<1> SUFFICES ASSUME Core, NEW s \in Sessions PROVE Looked(s)
  OBVIOUS
<1> DEFINE early == Of(s, index["legacy"])
           late  == Of(s, index[Home[s]])
<1>1. /\ early \cup late = {} => GetSession(s) = None
      /\ early \cup late # {} => GetSession(s) \in early \cup late
      /\ \A f \in early, t \in late : t.updated >= f.updated => GetSession(s) = t
  BY LookupFinds
<1>2. AtMostOne(late) /\ AtMostOne(early) /\ late \subseteq Record /\ early \subseteq Record
  BY WhereRecordsAre
<1>3. \A f \in early : f.updated = 0 /\ f.version = 0
  BY DEF Core, LegacyOld, Of
<1>4. \A r \in Record : r.updated \in Nat /\ r.version # None /\ r # None /\ r.version \in 0 .. MaxVersions
  BY IndexAssumption DEF Record
<1> HIDE DEF early, late
<1>5. Catalogued[s] = IF GetSession(s) = None THEN None ELSE GetSession(s).version
  BY DEF Catalogued
<1>6. \A t \in late : GetSession(s) = t
  <2> TAKE t \in late
  <2>1. CASE early = {}
    BY <1>1, <1>2, <2>1 DEF AtMostOne
  <2>2. CASE early # {}
    <3>1. PICK f \in early : TRUE
      BY <2>2
    <3>2. t.updated >= f.updated
      BY <1>2, <1>3, <1>4, <3>1
    <3> QED
      BY <1>1, <3>1, <3>2
  <2> QED
    BY <2>1, <2>2
<1>7. late = {} => \A f \in early : GetSession(s) = f
  BY <1>1, <1>2 DEF AtMostOne
<1>8. \A t \in late : Catalogued[s] = t.version
  BY <1>2, <1>4, <1>5, <1>6
<1>9. late = {} => \A f \in early : Catalogued[s] = 0
  BY <1>2, <1>3, <1>4, <1>5, <1>7
<1>10. late = {} /\ early = {} => Catalogued[s] = None
  BY <1>1, <1>5
<1>11. \A t \in late : t.version # None
  BY <1>2, <1>4
<1> QED
  BY <1>2, <1>8, <1>9, <1>10, <1>11 DEF Looked, early, late

LEMMA LookedNext ==
    ASSUME Core'
    PROVE  (\A s \in Sessions : Looked(s))'
  BY LookedAt, PTL

LEMMA CatalogStep ==
    ASSUME NEW s \in Sessions, NEW v \in 0 .. MaxVersions \cup {None},
           Catalogued'[s] = v, torn' = torn, deaths' = deaths,
           \A other \in Sessions \ {s} : GetSession(other)' = GetSession(other)
    PROVE  Catalog!Next
<1>1. Catalogued' = [Catalogued EXCEPT ![s] = v]
  BY DEF Catalogued
<1>2. Catalog!Change
  BY <1>1 DEF Catalog!Change, Catalog!Put, Catalog!Remove
<1> QED
  BY <1>2 DEF Catalog!Next

\* A write that dies for one session loses what others have in that file, and
\* nothing more.
LEMMA OthersSpared ==
    ASSUME Core, Core', NEW s \in Sessions, NEW x \in Sessions \ {s},
           NEW p \in {"legacy", Home[s]},
           \A q \in Paths \ {p} : index'[q] = index[q],
           Of(x, index'[p]) \subseteq Of(x, index[p])
    PROVE  Catalog!Spared(x, s)
<1> DEFINE early  == Of(x, index["legacy"])
           late   == Of(x, index[Home[x]])
           early1 == Of(x, index'["legacy"])
           late1  == Of(x, index'[Home[x]])
<1>1. "legacy" \in Paths /\ Home[x] \in Paths /\ Home[x] # "legacy" /\ Home[s] # "legacy"
  BY IndexAssumption DEF Paths
<1>2. /\ early1 = early \/ (p = "legacy" /\ early1 \subseteq early)
      /\ late1 = late \/ (p = Home[x] /\ late1 \subseteq late)
  BY <1>1
<1>3. /\ \A t \in late : Catalogued[x] = t.version /\ t.version # None
      /\ late = {} => \A f \in early : Catalogued[x] = 0
      /\ late = {} /\ early = {} => Catalogued[x] = None
      /\ AtMostOne(late) /\ AtMostOne(early)
  BY LookedAt DEF Looked
<1>4. (\A y \in Sessions : Looked(y))'
  BY LookedNext
<1>5. /\ \A t \in late1 : Catalogued'[x] = t.version
      /\ late1 = {} => \A f \in early1 : Catalogued'[x] = 0
      /\ late1 = {} /\ early1 = {} => Catalogued'[x] = None
  BY <1>4 DEF Looked
<1> HIDE DEF early, late, early1, late1
<1>6. CASE late1 # {}
  <2>1. Catalogued'[x] = Catalogued[x]
    BY <1>2, <1>3, <1>5, <1>6 DEF AtMostOne
  <2> QED
    BY <2>1 DEF Catalog!Spared
<1>7. CASE late1 = {} /\ late # {}
  <2>1. Home[x] = Home[s] /\ Catalogued[x] # None
    BY <1>1, <1>2, <1>3, <1>7
  <2>2. Catalogued'[x] \in {0, None}
    BY <1>5, <1>7
  <2> QED
    BY <2>1, <2>2 DEF Catalog!Spared
<1>8. CASE late1 = {} /\ late = {}
  <2>1. \/ Catalogued'[x] = Catalogued[x]
        \/ Catalogued[x] = 0 /\ Catalogued'[x] = None
    BY <1>2, <1>3, <1>5, <1>8
  <2> QED
    BY <2>1 DEF Catalog!Spared
<1> QED
  BY <1>6, <1>7, <1>8

LEMMA CatalogDeath ==
    ASSUME Core, Core', NEW s \in Sessions, NEW p \in {"legacy", Home[s]},
           \A q \in Paths \ {p} : index'[q] = index[q],
           \A x \in Sessions \ {s} : Of(x, index'[p]) \subseteq Of(x, index[p]),
           torn \subseteq torn', deaths' = deaths + 1
    PROVE  Catalog!Next
<1>1. \A x \in Sessions \ {s} : Catalog!Spared(x, s)
  BY OthersSpared
<1>2. Catalogued' \in [Sessions -> 0 .. MaxVersions \cup {None}]
  BY LookupTypeNext DEF Catalogued, Record
<1>3. (torn = {})' \in {FALSE, torn = {}}
  BY Zenon
<1>4. Catalog!Die(s)
  BY <1>1, <1>2, <1>3 DEF Catalog!Die
<1> QED
  BY <1>4 DEF Catalog!Next

\* Each step of the index is a step of the catalog, or is not seen there.
LEMMA IndexStepsCatalog ==
    ASSUME Core, Core', [Next]_vars
    PROVE  [Catalog!Next]_<<Catalogued, torn = {}, deaths>>
<1>1. CASE \E s \in Sessions : Upsert(s, TRUE)
  <2>1. PICK s \in Sessions : Upsert(s, TRUE)
    BY <1>1
  <2>2. GetSession(s)' = Stored(s, clock', versions')
    BY <2>1, UpsertSeen
  <2>3. Stored(s, clock', versions') \in Record /\ versions' \in 0 .. MaxVersions
    BY <2>1, UpsertStores
  <2>4. Catalogued'[s] = versions'
    BY <2>2, <2>3, IndexAssumption DEF Catalogued, Stored
  <2>5. /\ \A other \in Sessions \ {s} : GetSession(other)' = GetSession(other)
        /\ torn' = torn /\ deaths' = deaths
    <3>1. Sessions \ {s} = {} => torn' = torn /\ deaths' = deaths
      BY <2>1 DEF Upsert, WriteIndex
    <3> QED
      BY <2>1, <3>1, UpsertOthers
  <2> QED
    BY <2>3, <2>4, <2>5, CatalogStep
<1>2. CASE \E s \in Sessions : Upsert(s, FALSE)
  <2>1. PICK s \in Sessions : Upsert(s, FALSE)
    BY <1>2
  <2> DEFINE kept == {r \in index[Home[s]] : r.id # s}
             new  == Stored(s, clock', versions')
  <2>2. /\ WriteIndex(Home[s], kept \cup {new}, FALSE)
        /\ kept \cup {new} \in SUBSET Record
    BY <2>1, UpsertStores
  <2>3. Home[s] \in Paths /\ new.id = s
    BY WhereRecordsAre DEF Stored
  <2> HIDE DEF new, kept
  <2>4. /\ index'[Home[s]] \subseteq kept \cup {new}
        /\ \A q \in Paths \ {Home[s]} : index'[q] = index[q]
        /\ torn \subseteq torn' /\ deaths' = deaths + 1
    BY <2>2, <2>3, Writes
  <2>5. \A x \in Sessions \ {s} : Of(x, index'[Home[s]]) \subseteq Of(x, index[Home[s]])
    BY <2>3, <2>4 DEF Of, kept
  <2> QED
    BY <2>4, <2>5, CatalogDeath
<1>3. CASE \E p \in Paths : Rewrite(p, TRUE)
  <2>1. PICK p \in Paths : Rewrite(p, TRUE)
    BY <1>3
  <2> DEFINE s == deleting.session
  <2>2. s \in Sessions /\ torn' = torn /\ deaths' = deaths
    BY <2>1, RewriteDrops
  <2>3. \A other \in Sessions \ {s} : GetSession(other)' = GetSession(other)
    BY <2>1, RewriteOthers
  <2> HIDE DEF s
  <2>4. Catalogued'[s] \in 0 .. MaxVersions \cup {None}
    BY <2>2, LookupTypeNext DEF Catalogued, Record
  <2> QED
    BY <2>2, <2>3, <2>4, CatalogStep
<1>4. CASE \E p \in Paths : Rewrite(p, FALSE)
  <2>1. PICK p \in Paths : Rewrite(p, FALSE)
    BY <1>4
  <2> DEFINE s == deleting.session
  <2>2. /\ s \in Sessions /\ p \in {"legacy", Home[s]}
        /\ index'[p] \subseteq {r \in index[p] : r.id # s}
        /\ \A q \in Paths \ {p} : index'[q] = index[q]
        /\ torn \subseteq torn' /\ deaths' = deaths + 1
    BY <2>1, RewriteDrops
  <2> HIDE DEF s
  <2>3. \A x \in Sessions \ {s} : Of(x, index'[p]) \subseteq Of(x, index[p])
    BY <2>2 DEF Of
  <2> QED
    BY <2>2, <2>3, CatalogDeath
<1>5. CASE UNCHANGED <<index, torn, deaths>>
  <2>1. \A s \in Sessions : GetSession(s)' = GetSession(s)
    BY <1>5, SameIndex
  <2>2. Catalogued' = Catalogued /\ (torn = {})' = (torn = {})
    BY <1>5, <2>1 DEF Catalogued
  <2> QED
    BY <1>5, <2>2
<1>6. \/ \E s \in Sessions : Upsert(s, TRUE) \/ Upsert(s, FALSE)
      \/ \E p \in Paths : Rewrite(p, TRUE) \/ Rewrite(p, FALSE)
      \/ UNCHANGED <<index, torn, deaths>>
  <2>1. CASE \E s \in Sessions, whole \in BOOLEAN : Create(s, whole) \/ Touch(s, whole)
    <3>1. PICK s \in Sessions, whole \in BOOLEAN : Upsert(s, whole)
      BY <2>1 DEF Create, Touch
    <3>2. whole = TRUE \/ whole = FALSE
      OBVIOUS
    <3> QED
      BY <3>1, <3>2
  <2>2. CASE \E p \in Paths, whole \in BOOLEAN : Rewrite(p, whole)
    <3>1. PICK p \in Paths, whole \in BOOLEAN : Rewrite(p, whole)
      BY <2>2
    <3>2. whole = TRUE \/ whole = FALSE
      OBVIOUS
    <3> QED
      BY <3>1, <3>2
  <2>3. CASE UNCHANGED <<index, torn, deaths>>
    BY <2>3
  <2> QED
    BY <2>1, <2>2, <2>3 DEF Next, Delete, Unlink, Crash, vars
<1> QED
  BY <1>1, <1>2, <1>3, <1>4, <1>5, <1>6

\* Whatever the files hold, callers see one record of metadata for a session. A step
\* that is not cut short inside a file changes only the session that it names; what a
\* write that is cut short takes from others is bounded.
THEOREM IndexImplementsCatalog == Spec => ImplementsCatalog
<1>1. Init => Catalog!Init
  <2> SUFFICES ASSUME Init PROVE Catalog!Init
    OBVIOUS
  <2>1. Core /\ torn = {} /\ deaths = 0
    BY StartCore DEF Init
  <2>2. \A s \in Sessions : Of(s, index[Home[s]]) = {}
    BY IndexAssumption DEF Init, Of, Paths
  <2>3. \A s \in Sessions : Catalogued[s] \in {0, None}
    BY <2>1, <2>2, LookedAt DEF Looked
  <2>4. Catalogued \in [Sessions -> {0, None}]
    BY <2>3 DEF Catalogued
  <2> QED
    BY <2>1, <2>4 DEF Catalog!Init
<1>2. Core /\ Core' /\ [Next]_vars => [Catalog!Next]_<<Catalogued, torn = {}, deaths>>
  BY IndexStepsCatalog
<1> QED
  BY <1>1, <1>2, CoreInvariant, PTL DEF Spec, ImplementsCatalog, Catalog!Spec
=============================================================================
