----------------------------- MODULE Credentials -----------------------------
(***************************************************************************)
(* The OAuth credential of one provider: the store (credentials.py), the   *)
(* resolvers that refresh it before a request (provider_runtime.py), login *)
(* by browser (oauth.py, oauth_anthropic.py) and logout (tui/app.py).      *)
(*                                                                         *)
(* A login starts a family of refresh tokens at the service. A service     *)
(* that rotates accepts only the newest token of a family. A request and   *)
(* a login are suspended where they await the service or the user.         *)
(***************************************************************************)
EXTENDS Naturals, FiniteSets

CONSTANTS
    Requests,   \* requests that may be under way at once
    None,
    MaxLogins, MaxTokens    \* bounds

VARIABLES
    stored,     \* credentials.json: None or [fam, tok]
    expired,    \* oauth_credential_is_expired(stored)
    newest,     \* the service: family -> its newest refresh token
    lost,       \* families whose newest token was in an answer that got lost
    rotates,    \* the service rotates refresh tokens
    request,    \* request -> [at, cred]
    login,      \* [at, flow, code]
    flows,      \* logins started
    tabs,       \* flows whose browser tab may still redirect
    port        \* the flow whose server holds the callback port

vars == <<stored, expired, newest, lost, rotates, request, login, flows, tabs, port>>

Idle == [at |-> "idle", cred |-> None]
NoLogin == [at |-> "none", flow |-> 0, code |-> None]
Families == 0 .. MaxLogins
Credential == [fam : Families, tok : 0 .. MaxTokens]

InFlight(c) == \E r \in Requests : request[r] = [at |-> "answered", cred |-> c]
Newest(f) == [fam |-> f, tok |-> newest[f]]
-----------------------------------------------------------------------------
Init ==
    /\ stored \in {None, [fam |-> 0, tok |-> 0]}
    /\ expired \in BOOLEAN
    /\ newest = [f \in Families |-> 0] /\ lost = {}
    /\ rotates \in BOOLEAN
    /\ request = [r \in Requests |-> Idle]
    /\ login = NoLogin /\ flows = 0 /\ tabs = {} /\ port = None

loginVars == <<login, flows, tabs, port>>
serviceVars == <<newest, lost, rotates>>

\* set_oauth: the last to store wins.
SetOAuth(c) == stored' = c /\ expired' = FALSE

\* The resolver reads the store. Codex goes on to the environment when there is
\* nothing; the others fail.
Resolve(r) ==
    /\ request[r].at = "idle"
    /\ request' = [request EXCEPT ![r] =
           IF stored = None THEN [at |-> "failed", cred |-> None]
           ELSE [at |-> IF expired THEN "asking" ELSE "sent", cred |-> stored]]
    /\ UNCHANGED <<stored, expired, serviceVars, loginVars>>

\* Fault: the refresh token that was sent is kept.
Refreshed_KeepsOld(c) == c

\* The answer's refresh token, or the one that was sent if it names none.
Refreshed(c) == IF rotates THEN [c EXCEPT !.tok = newest[c.fam] + 1] ELSE c

\* The service answers: it refuses a token that was used before.
Answer(r) ==
    LET c == request[r].cred
    IN  /\ request[r].at = "asking"
        /\ IF rotates /\ c # Newest(c.fam)
           THEN /\ request' = [request EXCEPT ![r].at = "failed"]
                /\ UNCHANGED newest
           ELSE /\ newest[c.fam] < MaxTokens
                /\ newest' = [newest EXCEPT ![c.fam] = IF rotates THEN @ + 1 ELSE @]
                /\ request' = [request EXCEPT ![r] = [at |-> "answered", cred |-> Refreshed(c)]]
        /\ UNCHANGED <<stored, expired, lost, rotates, loginVars>>

\* The connection fails, before or after the service rotated.
LoseAnswer(r) ==
    /\ request[r].at \in {"asking", "answered"}
    /\ request' = [request EXCEPT ![r] = [at |-> "failed", cred |-> None]]
    /\ lost' = IF request[r].at = "answered" THEN lost \cup {request[r].cred.fam} ELSE lost
    /\ UNCHANGED <<stored, expired, newest, rotates, loginVars>>

\* _refresh_if_needed goes on: it stores what it got, whatever is stored by now.
Store(r) ==
    /\ request[r].at = "answered"
    /\ SetOAuth(request[r].cred)
    /\ request' = [request EXCEPT ![r].at = "sent"]
    /\ UNCHANGED <<serviceVars, loginVars>>

Finish(r) ==
    /\ request[r].at \in {"sent", "failed"}
    /\ request' = [request EXCEPT ![r] = Idle]
    /\ UNCHANGED <<stored, expired, serviceVars, loginVars>>

Expire ==
    /\ stored # None /\ ~expired
    /\ expired' = TRUE
    /\ UNCHANGED <<stored, serviceVars, request, loginVars>>

\* _logout
Logout ==
    /\ stored # None
    /\ stored' = None
    /\ UNCHANGED <<expired, serviceVars, request, loginVars>>
-----------------------------------------------------------------------------
\* The login screen opens: a new flow, its server if the port is free (the
\* server of an earlier flow in another process may hold it), and the browser.
StartLogin(bound) ==
    /\ login.at = "none" /\ flows < MaxLogins
    /\ flows' = flows + 1
    /\ login' = [at |-> "waiting", flow |-> flows + 1, code |-> None]
    /\ port' = IF bound THEN flows + 1 ELSE None
    /\ tabs' = tabs \cup {flows + 1}
    /\ UNCHANGED <<stored, expired, serviceVars, request>>

\* Fault: the server stays when the login is left.
Over_Open(l) == login' = l /\ UNCHANGED port

\* The flow is over: the server is closed in a finally.
Over(l) == login' = l /\ port' = None

\* Fault: a code is taken whatever its state.
Accepted_Any(state) == TRUE

\* The handler of the callback, and _validate_state of a pasted URL.
Accepted(state) == state = login.flow

Exchange(f, stated) == login' = [login EXCEPT !.at = "exchanging", !.code = [flow |-> f, stated |-> stated]]

\* A tab redirects to the server: of this flow, or left open by another one,
\* which is told so and changes nothing.
Redirect(f) ==
    /\ f \in tabs
    /\ tabs' = tabs \ {f}
    /\ IF login.at = "waiting" /\ port # None /\ Accepted(f)
       THEN Exchange(f, TRUE)
       ELSE UNCHANGED login
    /\ UNCHANGED <<stored, expired, serviceVars, request, flows, port>>

\* The user pastes a URL (with its state) or a bare code of some flow.
Paste(f, bare) ==
    /\ login.at = "waiting" /\ f \in tabs
    /\ IF bare \/ Accepted(f) THEN Exchange(f, ~bare) /\ UNCHANGED port
       ELSE Over([login EXCEPT !.at = "failed"])
    /\ tabs' = tabs \ {f}
    /\ UNCHANGED <<stored, expired, serviceVars, request, flows>>

\* The service grants a code only against the verifier of its flow.
Granted ==
    /\ login.at = "exchanging" /\ login.code.flow = login.flow
    /\ Over([login EXCEPT !.at = "granted"])
    /\ UNCHANGED <<stored, expired, serviceVars, request, flows, tabs>>

Denied ==
    /\ login.at = "exchanging"
    /\ Over([login EXCEPT !.at = "failed"])
    /\ UNCHANGED <<stored, expired, serviceVars, request, flows, tabs>>

\* _handle_oauth_login_result
SaveLogin ==
    /\ login.at = "granted"
    /\ SetOAuth([fam |-> login.flow, tok |-> newest[login.flow]])
    /\ login' = NoLogin
    /\ UNCHANGED <<serviceVars, request, flows, tabs, port>>

\* The screen is left: its worker is cancelled where it awaits.
LeaveLogin ==
    /\ login.at \in {"waiting", "exchanging", "failed"}
    /\ Over(NoLogin)
    /\ UNCHANGED <<stored, expired, serviceVars, request, flows, tabs>>

Next ==
    \/ \E r \in Requests : Resolve(r) \/ Answer(r) \/ LoseAnswer(r) \/ Store(r) \/ Finish(r)
    \/ Expire \/ Logout
    \/ \E bound \in BOOLEAN : StartLogin(bound)
    \/ \E f \in Families : Redirect(f) \/ (\E bare \in BOOLEAN : Paste(f, bare))
    \/ Granted \/ Denied \/ SaveLogin \/ LeaveLogin

Spec == Init /\ [][Next]_vars
-----------------------------------------------------------------------------
TypeOK ==
    /\ stored \in Credential \cup {None} /\ expired \in BOOLEAN /\ rotates \in BOOLEAN
    /\ newest \in [Families -> 0 .. MaxTokens] /\ lost \subseteq Families
    /\ request \in [Requests -> [at : {"idle", "asking", "answered", "sent", "failed"}, cred : Credential \cup {None}]]
    /\ login.at \in {"none", "waiting", "exchanging", "granted", "failed"}
    /\ flows \in Families /\ tabs \subseteq Families /\ port \in Families \cup {None}

\* What is stored can be refreshed: it is the newest token of its family, or the
\* newest is in an answer that is about to be stored, or was lost on its way.
\* Requests refresh side by side without a lock (provider_runtime.py:207, 275)
\* and the user logs in and out meanwhile.
StoredUsable ==
    stored # None =>
        \/ stored = Newest(stored.fam)
        \/ InFlight(Newest(stored.fam))
        \/ stored.fam \in lost

\* A code that names another flow is never exchanged: a tab left open by an
\* earlier login redirects to the port of this one (oauth.py:444, 468).
CodeOfFlow == login.at = "exchanging" /\ login.code.stated => login.code.flow = login.flow

\* After a logout nothing is stored until the next login (tui/app.py:5320). The
\* code breaks it: a refresh under way stores its answer (Store).
LogoutSticks == [][stored = None /\ stored' # None => login.at = "granted"]_vars

\* The callback port is held by the login under way and by none that is over:
\* left, failed or finished (the finally of the login functions).
PortReleased == port # None => login.at \in {"waiting", "exchanging"} /\ port = login.flow
=============================================================================
