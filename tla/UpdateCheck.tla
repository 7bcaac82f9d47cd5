----------------------------- MODULE UpdateCheck -----------------------------
(***************************************************************************)
(* The daily question to the package index and `tau update`                *)
(* (update_check.py, updater.py, cli.py): what a start announces from the  *)
(* cache or the index, and which package manager an update runs. The index *)
(* and the package managers are external.                                  *)
(***************************************************************************)
EXTENDS Naturals, FiniteSetsExt

CONSTANTS
    MaxVersion,     \* Bound: versions are 1 .. MaxVersion, oldest first.
    MaxClock,       \* Bound on the clock; one unit is half a check interval.
    Interval        \* UPDATE_CHECK_INTERVAL in units.

Versions == 1 .. MaxVersion
Times == 0 .. MaxClock
No == 0                         \* No version: None.

Managers == {"uv-tool", "pipx", "uv-pip", "pip"}

\* Who made the environment (only the two tools leave a receipt), what INSTALLER of
\* the package in it says, and whether direct_url.json names a path or URL. Each is
\* read by itself: pip installs into a Conda environment too.
Environments ==
    [maker : {"uv-tool", "pipx", "venv", "conda"}, installer : {"uv", "pip", "conda", "none"},
     direct : BOOLEAN]

VARIABLES
    installed,      \* The version on disk.
    environment,    \* Where Tau is installed.
    enabled,        \* Neither TAU_NO_UPDATE_CHECK nor CI is set.
    index,          \* The index: a status for each version.
    since,          \* History: when a version came out.
    now,            \* The clock of this machine.
    cache,          \* update-check.json: [at, latest], or <<>>.
    notice,         \* What the start since the clock moved announced, <<version>>, or <<>>.
    asked,          \* History: when the index last answered, or <<>>;
    turned,         \*   the clock was changed since;
    ran             \*   the package managers that were run.

vars == <<installed, environment, enabled, index, since, now, cache, notice, asked, turned, ran>>

\* A release is there with its files, a pre-release, without files (deleted),
\* or withdrawn (yanked: the files stay listed).
Statuses == {"unpublished", "stable", "pre", "empty", "yanked"}

Answers == Versions \cup {No}

TypeOK ==
    /\ installed \in Versions /\ environment \in Environments /\ enabled \in BOOLEAN
    /\ index \in [Versions -> Statuses] /\ since \in [Versions -> Times] /\ now \in Times
    /\ cache \in {<<>>} \cup [at : Times, latest : Answers]
    /\ notice \in {<<>>} \cup {<<v>> : v \in Answers} /\ asked \in {<<>>} \cup {<<t>> : t \in Times}
    /\ turned \in BOOLEAN /\ ran \subseteq Managers

Init ==
    /\ installed = 1 /\ environment \in Environments /\ enabled \in BOOLEAN
    /\ index = [v \in Versions |-> IF v = 1 THEN "stable" ELSE "unpublished"]
    /\ since = [v \in Versions |-> 0] /\ now = 0
    /\ cache = <<>> /\ notice = <<>> /\ asked = <<>> /\ turned = FALSE /\ ran = {}

\* Versions with files that are no pre-release; a yanked one counts.
Stable == {v \in Versions : index[v] \in {"stable", "yanked"}}

\* The newest of them; with none, the version the index names if it is stable.
Latest ==
    IF Stable # {} THEN {Max(Stable)}
    ELSE {v \in Versions : index[v] = "empty"} \cup {No}

\* Fault: a cached answer never ages.
Cached_Ever == cache # <<>>

\* Fault: an answer is used only while it names a newer version.
Cached_News == cache # <<>> /\ now <= cache.at + Interval /\ cache.latest > installed

\* The cached answer is used for one interval; one of the future is too.
Cached == cache # <<>> /\ now <= cache.at + Interval

\* Tau starts: in the terminal, or in print mode, where only text output
\* carries the notice. The check never stops a start: an index that does not
\* answer or answers nonsense is no notice and nothing is cached.
Start(shows, answers, writes) ==
    /\ \/ ~enabled /\ notice' = <<No>> /\ UNCHANGED <<cache, asked, turned>>
       \/ /\ enabled /\ Cached
          /\ notice' = <<IF shows /\ cache.latest > installed THEN cache.latest ELSE No>>
          /\ UNCHANGED <<cache, asked, turned>>
       \/ /\ enabled /\ ~Cached /\ ~answers
          /\ notice' = <<No>> /\ UNCHANGED <<cache, asked, turned>>
       \/ /\ enabled /\ ~Cached /\ answers
          /\ \E latest \in Latest :
                /\ notice' = <<IF shows /\ latest > installed THEN latest ELSE No>>
                /\ cache' = IF writes THEN [at |-> now, latest |-> latest] ELSE cache
          /\ asked' = IF writes THEN <<now>> ELSE <<>>
          /\ turned' = (turned /\ ~writes)
    /\ UNCHANGED <<installed, environment, enabled, index, since, now, ran>>

\* What the receipts in the environment and the metadata of the package say.
Receipt == IF environment.maker \in {"uv-tool", "pipx"} THEN environment.maker ELSE "none"
Installer == environment.installer

\* Fault: the metadata come first.
Method_Installer ==
    CASE Installer = "uv" -> {"uv-pip"} [] Installer = "pip" -> {"pip"} [] OTHER -> {}

\* The receipts come first: both tools fill the metadata like their installer. A
\* Conda environment is refused only if neither uv nor pip put Tau there.
Method ==
    CASE Receipt # "none" -> {Receipt}
      [] Receipt = "none" /\ Installer = "uv" -> {"uv-pip"}
      [] Receipt = "none" /\ Installer = "pip" -> {"pip"}
      [] OTHER -> {}

\* The package was installed from a path or URL.
DirectUrl == environment.direct

\* External: what a manager asked to upgrade installs.
Upgraded == Max({v \in Versions : index[v] = "stable"} \cup {installed})

\* `tau update` runs at most one manager. `uv tool` is
\* told the version, so the index has to name one first.
Update(answers, succeeds) ==
    /\ ~DirectUrl
    /\ \E method \in Method :
          \/ /\ method = "uv-tool" /\ answers
             /\ \E latest \in Latest \ {No} : installed' = IF succeeds THEN latest ELSE installed
             /\ ran' = ran \cup {method}
          \/ /\ method # "uv-tool"
             /\ installed' = IF succeeds THEN Upgraded ELSE installed
             /\ ran' = ran \cup {method}
    /\ UNCHANGED <<environment, enabled, index, since, now, cache, notice, asked, turned>>

\* A version is released.
Publish(v, status) ==
    /\ index[v] = "unpublished" /\ status \in {"stable", "pre"}
    /\ \A u \in Versions : u < v => index[u] # "unpublished"
    /\ index' = [index EXCEPT ![v] = status] /\ since' = [since EXCEPT ![v] = now]
    /\ UNCHANGED <<installed, environment, enabled, now, cache, notice, asked, turned, ran>>

\* A release is withdrawn, or its files are deleted.
Withdraw(v, status) ==
    /\ index[v] = "stable" /\ status \in {"empty", "yanked"}
    /\ index' = [index EXCEPT ![v] = status]
    /\ UNCHANGED <<installed, environment, enabled, since, now, cache, notice, asked, turned, ran>>

Tick ==
    /\ now < MaxClock /\ now' = now + 1 /\ notice' = <<>>
    /\ UNCHANGED <<installed, environment, enabled, index, since, cache, asked, turned, ran>>

\* The clock of the machine is set back.
TurnBack(t) ==
    /\ t < now /\ now' = t /\ turned' = TRUE
    /\ UNCHANGED <<installed, environment, enabled, index, since, cache, notice, asked, ran>>

\* The cache is removed, or is not JSON of the form it must have.
Damage ==
    /\ cache # <<>> /\ cache' = <<>> /\ asked' = <<>>
    /\ UNCHANGED <<installed, environment, enabled, index, since, now, notice, turned, ran>>

Next ==
    \/ \E shows, answers, writes \in BOOLEAN : Start(shows, answers, writes)
    \/ \E answers, succeeds \in BOOLEAN : Update(answers, succeeds)
    \/ \E v \in Versions, status \in Statuses : Publish(v, status) \/ Withdraw(v, status)
    \/ Tick
    \/ \E t \in Times : TurnBack(t)
    \/ Damage

Spec == Init /\ [][Next]_vars
-----------------------------------------------------------------------------
\* A release that has been out for longer than the interval is announced, it or
\* a newer one, by every start that can ask: an answer in the cache, "nothing
\* newer" included, does not hide it for longer.
NewsArrives ==
    [][\A v \in Versions :
        /\ Start(TRUE, TRUE, TRUE) /\ enabled /\ ~turned
        /\ index[v] = "stable" /\ v > installed /\ now > since[v] + Interval
        => notice'[1] >= v]_vars

\* The index is not asked twice within an interval, whatever it answered, as
\* long as the cache is kept and the clock runs forward.
AskedDaily ==
    [][asked # <<>> /\ asked' # asked /\ asked' # <<>> /\ ~turned
        => now > asked[1] + Interval]_vars

\* Only a tool writes into its environment, only the manager that put Tau there into
\* any other, and none where Tau came from a path or URL, whatever the receipts and
\* the metadata say of each other. (In a Conda environment that may be pip or uv.)
OwnerUpdates ==
    ran \subseteq
        IF environment.direct THEN {}
        ELSE CASE environment.maker = "uv-tool" -> {"uv-tool"}
               [] environment.maker = "pipx" -> {"pipx"}
               [] OTHER -> [uv |-> {"uv-pip"}, pip |-> {"pip"}, conda |-> {}, none |-> {}]
                           [environment.installer]
=============================================================================
