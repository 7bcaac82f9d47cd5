--------------------------- MODULE SessionResources ---------------------------
(***************************************************************************)
(* What a session takes from disk (tau_coding: skills.py,                  *)
(* prompt_templates.py, resources.py, context.py, system_prompt.py,        *)
(* extensions/loader.py, and loading and reloading in session.py): skills  *)
(* and prompt templates from directories of increasing precedence,         *)
(* instruction files from the project root down to the working directory,  *)
(* extensions of which the first with a name wins, and the system prompt   *)
(* built from them. Files change at any time; /reload reads them again.    *)
(***************************************************************************)
EXTENDS Integers, Sequences, FiniteSetsExt, SequencesExt, TLC

CONSTANTS
    Options,  \* how Tau may be started: records of the fields below
    Levels,   \* how many directories the user has, and the project: 2 in the code
    Skills,   \* names of skills
    Stems,    \* names of template files, without .md
    MaxEdits  \* bound

VARIABLES
    options,  \* home: the working directory is the home directory;
              \* root: the nearest directory with a project marker, parent or cwd;
              \* dirs, trusted: extensions_enabled, project_extensions_enabled;
              \* fixed: config.system is given
    disk,
    edits,    \* the number of edits
    session,  \* what the session has: skills, templates, context, tools, guides, told, prompt,
              \* live: its extensions are; stale: guidelines were dropped since prompt was built
    at,       \* of reload: idle, shutting, starting
    read      \* history: the disk that was last read

vars == <<options, disk, edits, session, at, read>>

\* The texts of a skill: they have one description.
Described == [x |-> "d", y |-> "d"]
Texts     == DOMAIN Described
Tiers     == 1 .. 2 * Levels
Places    == {"user", "parent", "cwd", "own"}
Entrances == {"project", "user", "extra"}

Init ==
    /\ options \in Options
    /\ disk = [skills     |-> [t \in Tiers |-> [n \in Skills |-> "none"]],
               templates  |-> [t \in Tiers |-> [n \in Stems |-> "none"]],
               context    |-> [p \in Places |-> "none"],
               extensions |-> [e \in Entrances |-> "none"]]
    /\ edits = 0 /\ session = <<>> /\ at = "idle" /\ read = disk
-----------------------------------------------------------------------------
(* Skills and templates.                                                   *)

\* skills_dirs, prompts_dirs: user before project, each directory once; at
\* home the project's directories are the user's.
Scanned == IF options.home THEN 1 .. Levels ELSE Tiers

\* _RESERVED_TEMPLATE_NAMES, and names that differ in case only.
Reserved == {"tools"}
Lower(n) == IF n = "Tools" THEN "tools" ELSE IF n = "A" THEN "a" ELSE n

\* Fault: a name is reserved as it is written.
IsReserved_Exact(n) == n \in Reserved

IsReserved(n) == Lower(n) \in Reserved

\* Why a file is passed over: a bare .md is no skill, a reserved name no template.
Passed(kind, n, text) ==
    CASE text = "none"                             -> "absent"
      [] kind = "templates" /\ IsReserved(n)       -> "reserved"
      [] text = "bare"                             -> IF kind = "skills" THEN "bare" ELSE "no"
      [] text = "broken"                           -> "unreadable"
      [] OTHER                                     -> "no"

Told(kind, t, n, why) == [kind |-> kind, where |-> t, name |-> n, why |-> why]

\* Fault: what was found first stays.
Override_First(old, new) == old @@ new

Override(old, new) == new @@ old

\* One directory: _load_skills_from_dir_with_diagnostics and its like.
Scan(kind, files, acc, t) ==
    LET good == {n \in DOMAIN files[t] : Passed(kind, n, files[t][n]) = "no"}
    IN  [found |-> Override(acc.found, [n \in good |-> [tier |-> t, text |-> files[t][n]]]),
         told  |-> acc.told
            \cup {Told(kind, t, n, "overrides") : n \in good \cap DOMAIN acc.found}
            \cup {Told(kind, t, n, Passed(kind, n, files[t][n])) :
                     n \in {m \in DOMAIN files[t] : Passed(kind, m, files[t][m]) \notin {"no", "absent"}}}]

\* load_skills_with_diagnostics, load_prompt_templates_with_diagnostics
Loaded(kind, files) ==
    FoldLeft(LAMBDA acc, t : Scan(kind, files, acc, t), [found |-> <<>>, told |-> {}],
             SetToSortSeq(Scanned, <))

\* expand_prompt_template_command looks the name up without its case, and
\* before the commands do.
Expands(found, command) == \E n \in DOMAIN found : Lower(n) = command
-----------------------------------------------------------------------------
(* Instruction files.                                                      *)

File(p) == IF p = "own" /\ options.home THEN "user" ELSE p

\* Fault: the walk starts above the project.
Ancestors_All == <<"parent", "cwd">>

\* _ancestor_agents_files
Ancestors == IF options.root = "parent" THEN <<"parent", "cwd">> ELSE <<"cwd">>

\* _context_file_candidates: each file once
Candidates(context) ==
    FoldLeft(LAMBDA s, p : IF context[File(p)] = "none" \/ File(p) \in ToSet(s) THEN s ELSE Append(s, File(p)),
             <<>>, <<"user">> \o Ancestors \o <<"own">>)

\* A file that is not UTF-8 is no OSError.
Raises(d) == \E p \in ToSet(Candidates(d.context)) : d.context[p] = "binary"

Context(context) ==
    LET readable == SelectSeq(Candidates(context), LAMBDA p : context[p] # "broken")
    IN  [i \in 1 .. Len(readable) |-> [place |-> readable[i], text |-> context[readable[i]]]]
-----------------------------------------------------------------------------
(* Extensions.                                                             *)

Entry(name, file, text) == [name |-> name, file |-> file, text |-> text]

\* What is found at an entrance: an entry file or a package; a manifest names
\* other files, and without a usable one there is the entry file again.
Entries(d, e) ==
    LET item == d.extensions[e] IN
    CASE item = "manifest" -> <<Entry("m", <<e, "m">>, "plain")>>
      [] item = "unusable" -> <<Entry("n", <<e, "n">>, "plain")>>
      [] item = "same"     -> <<Entry("n", <<"user", "n">>, d.extensions["user"])>>
      [] item \in {"none", "missing", "binary"} -> <<>>
      [] OTHER             -> <<Entry("n", <<e, "n">>, item)>>

\* The manifest of the model also declares a file that does not exist.
Complaints(d, e) ==
    {Told("extension", e, "none", why) : why \in {d.extensions[e]} \cap {"manifest", "unusable", "missing"}}

\* Project directory, user directory, explicit paths.
Open == (IF options.dirs /\ options.trusted THEN <<"project">> ELSE <<>>)
        \o (IF options.dirs THEN <<"user">> ELSE <<>>) \o <<"extra">>

\* Fault: a duplicate name is passed over in silence.
Noted_Not(acc, e, entry) == acc

Noted(acc, e, entry) == [acc EXCEPT !.told = @ \cup {Told("extension", e, entry.name, "duplicate")}]

\* add: a file once, a name once
Added(acc, e, entry) ==
    IF entry.file \in {x.file : x \in ToSet(acc.found)} THEN acc
    ELSE IF entry.name \in {x.name : x \in ToSet(acc.found)} THEN Noted(acc, e, entry)
    ELSE [acc EXCEPT !.found = Append(@, entry)]

Discovered(d) ==
    FoldLeft(LAMBDA acc, e : FoldLeft(LAMBDA a, x : Added(a, e, x), 
                                      [acc EXCEPT !.told = @ \cup Complaints(d, e)], Entries(d, e)),
             [found |-> <<>>, told |-> {}], Open)

\* _load_extension: an import that fails, or no sync setup; its tool has the
\* extension's name and shows its text, "guided" adds a guideline.
Imported(d) == SelectSeq(Discovered(d).found, LAMBDA x : x.text # "broken")
Tools(d)    == [n \in {x.name : x \in ToSet(Imported(d))} |-> (CHOOSE x \in ToSet(Imported(d)) : x.name = n).text]
Guides(d)   == {x.name : x \in {y \in ToSet(Imported(d)) : y.text = "guided"}}

\* A manifest that is not UTF-8 is no TOMLDecodeError, and a directory that may not
\* be listed is not looked for.
Undiscoverable(d) == \E e \in ToSet(Open) : d.extensions[e] = "binary"
-----------------------------------------------------------------------------
(* The session.                                                            *)

\* _load_session_resources and the extensions
Read(d) ==
    [skills    |-> Loaded("skills", d.skills).found,
     templates |-> Loaded("templates", d.templates).found,
     context   |-> Context(d.context),
     tools     |-> Tools(d), guides |-> Guides(d),
     told      |-> Loaded("skills", d.skills).told \cup Loaded("templates", d.templates).told
                   \cup {Told("context", p, "none", "unreadable") :
                            p \in {q \in ToSet(Candidates(d.context)) : d.context[q] = "broken"}}
                   \cup Discovered(d).told
                   \cup {Told("extension", x.file[1], x.name, "unreadable") :
                            x \in {y \in ToSet(Discovered(d).found) : y.text = "broken"}}]

\* build_system_prompt, from name, description and place of a skill, the
\* instructions, the tools with their snippets, and the guidelines.
Built(s) ==
    [skills  |-> {[name |-> n, tier |-> s.skills[n].tier, about |-> Described[s.skills[n].text]] : n \in DOMAIN s.skills},
     context |-> s.context, tools |-> s.tools, guides |-> s.guides]

\* Fault: guidelines are not compared.
Inputs_Unguided(b) == <<b.skills, b.context, DOMAIN b.tools>>

\* _system_prompt_resource_signatures, before_tool_names, before_guidelines
Inputs(b) == <<b.skills, b.context, DOMAIN b.tools, b.guides>>

With(s, prompt, stale) == s @@ [prompt |-> prompt, live |-> TRUE, stale |-> stale]

\* CodingSession.load
Load ==
    /\ session = <<>> /\ ~Raises(disk) /\ ~Undiscoverable(disk)
    /\ session' = With(Read(disk), Built(Read(disk)), FALSE)
    /\ read' = disk
    /\ UNCHANGED <<options, disk, edits, at>>

\* reload: session_shutdown is awaited,
Reload ==
    /\ session # <<>> /\ at = "idle"
    /\ at' = "shutting"
    /\ UNCHANGED <<options, disk, edits, session, read>>

\* Fault: what was read before the failure is kept.
Left_Skills(s) == [s EXCEPT !.skills = Loaded("skills", disk.skills).found]

Left(s) == s

Changed(s) == ~options.fixed /\ Inputs(Built(session)) # Inputs(Built(s))

\* reset_for_reload, and no load behind it: the harness keeps its tools and prompt.
Dropped(s) ==
    [s EXCEPT !.guides = {}, !.live = FALSE, !.stale = TRUE,
              !.told = {t \in @ : t.kind # "extension"}]

\* then everything is read in one step; a failure before the extensions are reset
\* leaves the session as it was, one behind it leaves no extension;
Reread ==
    /\ at = "shutting"
    /\ CASE Raises(disk) -> at' = "idle" /\ session' = Left(session) /\ UNCHANGED read
         [] ~Raises(disk) /\ Undiscoverable(disk) ->
               at' = "idle" /\ session' = Dropped(session) /\ UNCHANGED read
         [] OTHER ->
               LET new == Read(disk) IN
               /\ at' = "starting" /\ read' = disk
               /\ session' = IF Changed(new) THEN With(new, Built(new), FALSE)
                             ELSE With(new, session.prompt, session.stale)
    /\ UNCHANGED <<options, disk, edits>>

\* session_start is awaited.
Reloaded ==
    /\ at = "starting" /\ at' = "idle"
    /\ UNCHANGED <<options, disk, edits, session, read>>

Edits ==
    {<<"skills", t, n, x>> : t \in Tiers, n \in Skills, x \in Texts \cup {"none", "bare", "broken"}}
    \cup {<<"templates", t, n, x>> : t \in Tiers, n \in Stems, x \in {"none", "broken", "x"}}
    \cup {<<"context", p, "", x>> : p \in Places, x \in {"none", "broken", "binary", "x"}}
    \cup {<<"extensions", e, "", x>> : e \in Entrances, x \in {"none", "broken", "binary", "plain", "edited", "guided", "manifest", "unusable"}}
    \cup {<<"extensions", "extra", "", x>> : x \in {"same", "missing"}}

\* A user or another program. Bound: one edit more where it ends "binary".
Edit(e) ==
    /\ edits' = edits + 1
    /\ \/ edits < MaxEdits
       \/ edits = MaxEdits /\ e[1] = "extensions" /\ disk.extensions[e[2]] = "binary"
    /\ disk' = IF e[1] \in {"skills", "templates"} THEN [disk EXCEPT ![e[1]][e[2]][e[3]] = e[4]]
               ELSE [disk EXCEPT ![e[1]][e[2]] = e[4]]
    /\ disk' # disk
    /\ UNCHANGED <<options, session, at, read>>

Next == Load \/ Reload \/ Reread \/ Reloaded \/ \E e \in Edits : Edit(e)

Spec == Init /\ [][Next]_vars
-----------------------------------------------------------------------------
(* Properties.                                                             *)

Exists == session # <<>>

\* The types of the variables.
TypeOK ==
    /\ options \in Options /\ edits \in 0 .. MaxEdits + 1 /\ at \in {"idle", "shutting", "starting"}
    /\ Exists => /\ DOMAIN session.skills \subseteq Skills /\ DOMAIN session.templates \subseteq Stems
                  /\ DOMAIN session.tools \subseteq {"m", "n"} /\ session.guides \subseteq DOMAIN session.tools

Readable(kind, t, n) == t \in Scanned /\ Passed(kind, n, read[kind][t][n]) = "no"

\* "later overrides earlier on name clashes": a skill, and a template of one
\* spelling, is that of the last directory that has it, whatever lies between;
\* and each of them says what it overrides.
HighestWins ==
    Exists => \A kind \in {"skills", "templates"} :
        LET names == IF kind = "skills" THEN Skills ELSE Stems IN
        \A n \in names :
            LET has == {t \in Tiers : Readable(kind, t, n)} IN
            /\ n \in DOMAIN session[kind] <=> has # {}
            /\ has # {} => /\ session[kind][n] = [tier |-> Max(has), text |-> read[kind][Max(has)][n]]
                           /\ \A t \in has \ {Min(has)} : Told(kind, t, n, "overrides") \in session.told

\* No extension that was found is passed over in silence: it is loaded,
\* diagnosed, or the same file as one that is (if the reload was not a failure).
NothingSilent ==
    Exists /\ session.live => \A e \in ToSet(Open) : \A x \in ToSet(Entries(read, e)) :
        \/ x.name \in DOMAIN session.tools
              /\ \E y \in ToSet(Imported(read)) : y.file = x.file
        \/ \E t \in session.told : t.kind = "extension" /\ t.name = x.name /\ t.where \in {e, x.file[1]}

\* The system prompt names the skills, files, tools and guidelines that the
\* session has now, also after files went through several states between two
\* reloads and one of these failed. Only guidelines of extensions that a failed
\* reload dropped may stay in it until something else changes it. (The text of a
\* tool that keeps its name stays as well: reload compares names.)
PromptFresh ==
    Exists /\ ~options.fixed =>
        LET due == Built(session) IN
        /\ \A part \in {"skills", "context"} : session.prompt[part] = due[part]
        /\ DOMAIN session.prompt.tools = DOMAIN due.tools
        /\ session.prompt.guides = due.guides \/ session.stale

\* Everything a session has comes from one reading of the disk. A reload that fails
\* changes nothing of it, or if its extensions were reset by then, leaves the rest
\* as it was and neither a guideline nor a diagnostic of an extension.
OneReading ==
    Exists => LET due == Read(read) IN
        /\ \A part \in {"skills", "templates", "context", "tools"} : session[part] = due[part]
        /\ session.guides = IF session.live THEN due.guides ELSE {}
        /\ session.told = {t \in due.told : session.live \/ t.kind # "extension"}

\* "guarantees that a template cannot shadow the picker command": no spelling
\* of a reserved name, and no reload, makes a template of it.
CommandsReachable == Exists => \A c \in Reserved : ~Expands(session.templates, c)

\* Instructions go from the general to the particular, each file once, and
\* none from above the project.
ContextNarrows ==
    Exists => LET order == [user |-> 1, parent |-> 2, cwd |-> 3, own |-> 4] IN
        /\ \A i, j \in DOMAIN session.context : i < j => order[session.context[i].place] < order[session.context[j].place]
        /\ \A i \in DOMAIN session.context : session.context[i].place = "parent" => options.root = "parent"
=============================================================================
