---------------------------- MODULE ReleaseNotes ----------------------------
(***************************************************************************)
(* The release notes Tau shows when it starts with a newer version than    *)
(* the one that started before (update_check.py, cli.py): a state file     *)
(* holds the last version, the notes of every version are bundled with the *)
(* program, and only the terminal frontend reads and writes the file.      *)
(***************************************************************************)
EXTENDS Naturals

CONSTANTS
    MaxVersion,     \* Bound: versions are 1 .. MaxVersion, oldest first.
    Noted           \* The versions releases.json has an entry for.

Versions == 1 .. MaxVersion
Missing == 0                    \* No state file, or none that can be parsed.

VARIABLES
    installed,      \* The version on disk.
    writable,       \* The state file can be written.
    lastSeen,       \* release-notes-state.json.
    told,           \* History: the versions whose notes were on the screen,
    lost,           \*   those of a start that failed before it had a screen,
    base,           \*   the version that started when no version was known,
    settled,        \*   versions told with no older version started since,
    repeated        \*   and whether a settled version was told again.

vars == <<installed, writable, lastSeen, told, lost, base, settled, repeated>>

TypeOK ==
    /\ installed \in Versions
    /\ writable \in BOOLEAN /\ repeated \in BOOLEAN
    /\ lastSeen \in Versions \cup {Missing} /\ base \in Versions \cup {Missing}
    /\ told \subseteq Noted /\ lost \subseteq Noted /\ settled \subseteq told

Init ==
    /\ installed \in Versions /\ writable \in BOOLEAN
    /\ lastSeen = Missing /\ base = Missing
    /\ told = {} /\ lost = {} /\ settled = {} /\ repeated = FALSE

\* Fault: the notes of the running version are left out.
Between_Open(previous, current) == {v \in Noted : previous < v /\ v < current}

\* The entries after `previous` up to `current`; the bundle of a version ends
\* with its own entry.
Between(previous, current) == {v \in Noted : previous < v /\ v <= current}

\* The notes of a start: none when no version is known or it is not older.
Notes == IF lastSeen = Missing THEN {} ELSE Between(lastSeen, installed)

\* Fault: the file is only ever created.
Written_Once == IF writable /\ lastSeen = Missing THEN installed ELSE lastSeen

\* What the file holds after a start: written before anything is shown.
Written == IF writable THEN installed ELSE lastSeen

\* The terminal frontend starts. With `opens` FALSE it raises before there is a
\* screen (no credential, an unknown session).
Start(opens) ==
    /\ lastSeen' = Written
    /\ told' = IF opens THEN told \cup Notes ELSE told
    /\ lost' = IF opens THEN lost \ Notes ELSE lost \cup Notes
    /\ base' = IF lastSeen = Missing THEN installed ELSE base
    /\ repeated' = (repeated \/ (opens /\ Notes \cap settled # {}))
    /\ settled' = {v \in told' : v <= installed /\ (v \in settled \/ (opens /\ v \in Notes))}
    /\ UNCHANGED <<installed, writable>>

\* Another version is installed: an upgrade or a downgrade.
Install(v) ==
    /\ v # installed
    /\ installed' = v
    /\ UNCHANGED <<writable, lastSeen, told, lost, base, settled, repeated>>

\* The file is removed or damaged: it is read as if there were none.
Damage ==
    /\ lastSeen # Missing
    /\ lastSeen' = Missing
    /\ UNCHANGED <<installed, writable, told, lost, base, settled, repeated>>

Next ==
    \/ \E opens \in BOOLEAN : Start(opens)
    \/ \E v \in Versions : Install(v)
    \/ Damage

Spec == Init /\ [][Next]_vars
-----------------------------------------------------------------------------
\* "Release notes shown once after the installed Tau version changes": whatever
\* upgrades were skipped and however often Tau went back, a user who runs a
\* version has seen the notes of every version after the first he ran, except
\* those a start took to its grave.
NotesComplete ==
    lastSeen # Missing =>
        \A v \in Noted : base < v /\ v <= lastSeen => v \in told \/ v \in lost

\* The notes of a version are not shown again unless an older version ran in
\* between or the file was damaged or cannot be written.
NotesOnce == [][writable /\ lastSeen # Missing => repeated' = repeated]_vars
=============================================================================
