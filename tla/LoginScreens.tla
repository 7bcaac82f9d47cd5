---------------------------- MODULE LoginScreens ----------------------------
(***************************************************************************)
(* The screens of /login and /logout (tui/app.py): the method, the         *)
(* provider, then a key, the details of a custom provider or an OAuth      *)
(* login, which runs in a worker and asks through the screen. Saving is in *)
(* ProviderSettings, the OAuth exchange in Credentials and DeviceLogin.    *)
(***************************************************************************)
EXTENDS Naturals, FiniteSets, TLAPS

CONSTANTS
    Providers,      \* The providers of the catalog.
    OAuth,          \* Those with an OAuth login,
    Device,         \*   and those of them that use a device code.
    Key             \* Those that list "api_key" among their methods.

Nobody == <<>>
Methods == {"subscription", "api-key", "none"}
Kinds == {"none", "key", "oauth"}

VARIABLES
    screen,         \* The screen of the flow that is open.
    method,         \* The method chosen, "none" for /login <provider>.
    entry,          \* The provider the flow is about, <<provider>>.
    covered,        \* An extension's dialog is over the screen.
    login,          \* The OAuth worker.
    heard,          \* History: a text was submitted on this screen.
    code,           \* The last text submitted to it: _manual_code_value.
    stored          \* The credential of each provider.

vars == <<screen, method, entry, covered, login, heard, code, stored>>

TypeOK ==
    /\ screen \in {"none", "method", "provider", "logout", "key", "oauth", "custom"}
    /\ method \in Methods /\ entry \in {Nobody} \cup {<<p>> : p \in Providers}
    /\ covered \in BOOLEAN /\ heard \in BOOLEAN /\ code \in {"none", "empty", "bad", "good"}
    /\ login \in {"none", "starting", "asking", "working", "granted", "over"}
    /\ stored \in [Providers -> Kinds]

Init ==
    /\ screen = "none" /\ method = "none" /\ entry = Nobody /\ covered = FALSE
    /\ login = "none" /\ heard = FALSE /\ code = "none" /\ stored = [p \in Providers |-> "none"]

Active(s) == screen = s /\ ~covered

\* The providers of a method.
Offered(m) == IF m = "subscription" THEN OAuth ELSE Key

\* Fault: /login <provider> prefers OAuth.
UsesOAuth_First(p, m) == m # "api-key" /\ p \in OAuth

\* OAuth when it was chosen, or when there is nothing else.
UsesOAuth(p, m) == (m = "subscription" \/ (m = "none" /\ p \notin Key)) /\ p \in OAuth

\* Fault: the worker outlives the screen.
Stopped_Not == login

\* The worker of a screen that is removed is cancelled.
Stopped == "none"

Show(s, m, e) ==
    /\ screen' = s /\ method' = m /\ entry' = e /\ code' = "none" /\ heard' = FALSE
    /\ login' = IF s = "oauth" THEN "starting" ELSE Stopped

\* The screen a provider needs; on_mount of the OAuth screen starts its worker.
Login(p, m) == Show(IF UsesOAuth(p, m) THEN "oauth" ELSE "key", m, <<p>>)

\* /login, /login <provider> and /logout.
Start ==
    /\ screen = "none" /\ UNCHANGED <<covered, stored>>
    /\ \/ Show("method", "none", Nobody)
       \/ \E p \in Providers : Login(p, "none")
       \/ (\E p \in Providers : stored[p] # "none") /\ Show("logout", "none", Nobody)

ChooseMethod ==
    /\ Active("method") /\ UNCHANGED <<covered, stored>>
    /\ \/ Show("custom", "none", Nobody)
       \/ \E m \in Methods \ {"none"} :
            IF Offered(m) = {} THEN Show("none", "none", Nobody) ELSE Show("provider", m, Nobody)

ChooseProvider(p) ==
    /\ Active("provider") /\ p \in Offered(method) /\ Login(p, method)
    /\ UNCHANGED <<covered, stored>>

\* Escape goes back to the methods, and closes them and the logout picker;
\* Ctrl+D closes the flow.
Back ==
    /\ \E s \in {"provider", "key", "oauth", "custom"} : Active(s)
    /\ Show("method", "none", Nobody) /\ UNCHANGED <<covered, stored>>

Close ==
    /\ screen # "none" /\ ~covered
    /\ Show("none", "none", Nobody) /\ UNCHANGED <<covered, stored>>

\* A provider is logged out of, unless the store cannot be written.
Logout(p) ==
    /\ Active("logout") /\ stored[p] # "none"
    /\ stored' \in {stored, [stored EXCEPT ![p] = "none"]}
    /\ Show("none", "none", Nobody) /\ UNCHANGED covered

\* A key is submitted; an empty one closes the flow. The store may fail.
SubmitKey ==
    /\ Active("key") /\ Show("none", "none", Nobody)
    /\ stored' \in {stored, [stored EXCEPT ![entry[1]] = "key"]}
    /\ UNCHANGED covered

\* The details of a custom provider, once every required field is filled and
\* the default model is one of the models.
SubmitCustom ==
    /\ Active("custom") /\ Show("none", "none", Nobody) /\ UNCHANGED <<covered, stored>>
-----------------------------------------------------------------------------
\* The OAuth worker. What it was told decides how it goes on: a device login
\* asks for a domain, blank for none; the others for the redirect or its code.
ByDevice == entry[1] \in Device
Resumed(answer) ==
    IF answer = "good" \/ (answer = "empty" /\ ByDevice) THEN "working" ELSE "over"

\* It asks, and goes on at once with a text that was submitted before.
Ask ==
    /\ login = "starting" /\ login' = IF code = "none" THEN "asking" ELSE Resumed(code)
    /\ UNCHANGED <<screen, method, entry, covered, heard, code, stored>>

\* Fault: a text is only handed to a question that waits.
Remembered_Asked(answer) == IF login = "asking" THEN answer ELSE code

\* What the screen remembers of a text.
Remembered(answer) == answer

\* Only a question that allows it takes an empty text.
SubmitCode(answer) ==
    /\ Active("oauth")
    /\ answer = "empty" => login = "asking" /\ ByDevice
    /\ code' = Remembered(answer) /\ heard' = TRUE
    /\ login' = IF login = "asking" THEN Resumed(answer) ELSE login
    /\ UNCHANGED <<screen, method, entry, covered, stored>>

\* The browser comes back instead.
Redirect ==
    /\ login = "asking" /\ ~ByDevice /\ login' = "working"
    /\ UNCHANGED <<screen, method, entry, covered, heard, code, stored>>

\* The provider grants or refuses; an error stays on the screen.
Answer ==
    /\ login = "working" /\ login' \in {"granted", "over"}
    /\ UNCHANGED <<screen, method, entry, covered, heard, code, stored>>

\* The screen is dismissed with the credential, which is stored if it can be.
Granted ==
    /\ login = "granted" /\ ~covered
    /\ stored' \in {stored, [stored EXCEPT ![entry[1]] = "oauth"]}
    /\ Show("none", "none", Nobody) /\ UNCHANGED covered

\* A covered screen cannot be dismissed: the credential is dropped.
Dropped ==
    /\ login = "granted" /\ covered /\ login' = "over"
    /\ UNCHANGED <<screen, method, entry, covered, heard, code, stored>>

\* An extension asks something over the screen, or is done.
Cover ==
    /\ screen # "none" \/ covered
    /\ covered' = ~covered /\ UNCHANGED <<screen, method, entry, login, heard, code, stored>>

Next ==
    \/ Start \/ ChooseMethod \/ Back \/ Close \/ SubmitKey \/ SubmitCustom
    \/ \E p \in Providers : ChooseProvider(p) \/ Logout(p)
    \/ \E answer \in {"empty", "bad", "good"} : SubmitCode(answer)
    \/ Ask \/ Redirect \/ Answer \/ Granted \/ Dropped \/ Cover

Spec == Init /\ [][Next]_vars
-----------------------------------------------------------------------------
\* However a login is reached, with a method, by name, or after going back, it
\* uses OAuth only when that was chosen or no key would do, and what is stored
\* is something the provider accepts.
KindAccepted ==
    /\ \A p \in Providers :
        /\ stored[p] = "oauth" => p \in OAuth
        /\ stored[p] = "key" => p \in Key \/ p \notin OAuth
    /\ screen = "oauth" /\ method = "none" => entry[1] \notin Key

\* A login never waits for a text the user already gave, before the worker asked
\* or to the question before.
NotAskedAgain == login = "asking" => ~heard

\* A login works only behind its own screen: who goes back or closes leaves
\* nothing that could store a credential later.
WorksBehindScreen == login \in {"starting", "asking", "working", "granted"} => screen = "oauth"
-----------------------------------------------------------------------------
\* What they rest on: the screen for a key or a login is about a provider for
\* which the method asks for it, and a text that was heard is remembered.
LoginsTracked ==
    /\ screen = "key" => \E p \in Providers :
          entry = <<p>> /\ ~UsesOAuth(p, method) /\ (method = "none" \/ p \in Offered(method))
    /\ screen = "oauth" => \E p \in Providers : entry = <<p>> /\ UsesOAuth(p, method)
    /\ heard <=> code # "none"

LoginInv == TypeOK /\ KindAccepted /\ NotAskedAgain /\ WorksBehindScreen /\ LoginsTracked

\* A screen is opened, closed or replaced: its worker ends with it.
LEMMA ShowKeeps ==
    ASSUME LoginInv, NEW s \in {"none", "method", "provider", "logout", "key", "oauth", "custom"},
           NEW m \in Methods, NEW e \in {Nobody} \cup {<<p>> : p \in Providers},
           Show(s, m, e), covered' \in BOOLEAN,
           stored' \in [Providers -> Kinds],
           \A p \in Providers : stored'[p] = "oauth" => p \in OAuth,
           \A p \in Providers : stored'[p] = "key" => p \in Key \/ p \notin OAuth,
           s = "key" => \E p \in Providers :
               e = <<p>> /\ ~UsesOAuth(p, m) /\ (m = "none" \/ p \in Offered(m)),
           s = "oauth" => \E p \in Providers : e = <<p>> /\ UsesOAuth(p, m)
    PROVE  LoginInv'
<1>1. /\ screen' = s /\ method' = m /\ entry' = e /\ code' = "none" /\ heard' = FALSE
      /\ login' = IF s = "oauth" THEN "starting" ELSE "none"
  BY DEF Show, Stopped
<1>2. TypeOK'
  BY <1>1 DEF TypeOK, Methods
<1>3. KindAccepted'
  <2>1. screen' = "oauth" /\ method' = "none" => entry'[1] \notin Key
    BY <1>1 DEF UsesOAuth
  <2> QED
    BY <2>1 DEF KindAccepted
<1>4. NotAskedAgain' /\ WorksBehindScreen'
  BY <1>1 DEF NotAskedAgain, WorksBehindScreen
<1>5. LoginsTracked'
  BY <1>1 DEF LoginsTracked, UsesOAuth, Offered
<1> QED
  BY <1>2, <1>3, <1>4, <1>5 DEF LoginInv

\* Logins keep their promises for every catalog of providers and their methods.
THEOREM LoginsKeepPromises == Spec => []LoginInv
<1>1. Init => LoginInv
  BY DEF Init, LoginInv, TypeOK, KindAccepted, NotAskedAgain, WorksBehindScreen, LoginsTracked,
         Methods, Kinds, Nobody
<1>2. LoginInv /\ [Next]_vars => LoginInv'
  <2> SUFFICES ASSUME LoginInv, [Next]_vars PROVE LoginInv'
    OBVIOUS
  <2>0. /\ TypeOK /\ KindAccepted /\ NotAskedAgain /\ WorksBehindScreen /\ LoginsTracked
        /\ stored \in [Providers -> Kinds] /\ covered \in BOOLEAN /\ method \in Methods
        /\ \A p \in Providers : stored[p] = "oauth" => p \in OAuth
        /\ \A p \in Providers : stored[p] = "key" => p \in Key \/ p \notin OAuth
        /\ "none" \in Kinds /\ "key" \in Kinds /\ "oauth" \in Kinds /\ "none" \in Methods
    BY DEF LoginInv, TypeOK, KindAccepted, Kinds, Methods
  \* The screen that a login opens is about a provider the method asks for.
  <2>1. ASSUME NEW p \in Providers, NEW m \in Methods, m = "none" \/ p \in Offered(m),
               Login(p, m), UNCHANGED <<covered, stored>>
        PROVE  LoginInv'
    <3> DEFINE s == IF UsesOAuth(p, m) THEN "oauth" ELSE "key"
    <3>1. Show(s, m, <<p>>) /\ s \in {"key", "oauth"} /\ <<p>> \in {<<x>> : x \in Providers}
      BY <2>1 DEF Login
    <3>2. /\ s = "key" => ~UsesOAuth(p, m)
          /\ s = "oauth" => UsesOAuth(p, m)
      OBVIOUS
    <3> HIDE DEF s
    <3> QED
      BY <2>0, <2>1, <3>1, <3>2, ShowKeeps
  \* A flow that ends, or goes to a screen that is about no provider.
  <2>2. ASSUME NEW s \in {"none", "method", "provider", "logout", "custom"}, NEW m \in Methods,
               Show(s, m, Nobody), UNCHANGED covered,
               stored' \in [Providers -> Kinds],
               \A p \in Providers : stored'[p] = "oauth" => p \in OAuth,
               \A p \in Providers : stored'[p] = "key" => p \in Key \/ p \notin OAuth
        PROVE  LoginInv'
    BY <2>0, <2>2, ShowKeeps
  <2>3. CASE Start
    <3>1. ASSUME NEW p \in Providers, Login(p, "none") PROVE LoginInv'
      BY <2>0, <2>1, <2>3, <3>1 DEF Start
    <3>2. CASE Show("method", "none", Nobody) \/ Show("logout", "none", Nobody)
      BY <2>0, <2>2, <2>3, <3>2 DEF Start
    <3> QED
      BY <2>3, <3>1, <3>2 DEF Start
  <2>4. CASE ChooseMethod
    <3>1. CASE Show("custom", "none", Nobody) \/ Show("none", "none", Nobody)
      BY <2>0, <2>2, <2>4, <3>1 DEF ChooseMethod
    <3>2. ASSUME NEW m \in Methods, Show("provider", m, Nobody) PROVE LoginInv'
      BY <2>0, <2>2, <2>4, <3>2 DEF ChooseMethod
    <3> QED
      BY <2>4, <3>1, <3>2 DEF ChooseMethod
  <2>5. ASSUME NEW p \in Providers, ChooseProvider(p) PROVE LoginInv'
    BY <2>0, <2>1, <2>5 DEF ChooseProvider
  <2>6. CASE Back
    BY <2>0, <2>2, <2>6 DEF Back
  <2>7. CASE Close
    BY <2>0, <2>2, <2>7 DEF Close
  <2>8. ASSUME NEW p \in Providers, Logout(p) PROVE LoginInv'
    <3>1. stored' \in {stored, [stored EXCEPT ![p] = "none"]} /\ Show("none", "none", Nobody)
          /\ UNCHANGED covered
      BY <2>8 DEF Logout
    <3>2. /\ stored' \in [Providers -> Kinds]
          /\ \A x \in Providers : stored'[x] = stored[x] \/ stored'[x] = "none"
      BY <2>0, <3>1
    <3> QED
      BY <2>0, <2>2, <3>1, <3>2
  <2>9. CASE SubmitKey
    <3>1. stored' \in {stored, [stored EXCEPT ![entry[1]] = "key"]} /\ Show("none", "none", Nobody)
          /\ UNCHANGED covered /\ screen = "key"
      BY <2>9 DEF SubmitKey, Active
    <3>2. PICK p \in Providers : entry = <<p>> /\ ~UsesOAuth(p, method)
                                /\ (method = "none" \/ p \in Offered(method))
      BY <2>0, <3>1 DEF LoginsTracked
    <3>3. p \in Key \/ p \notin OAuth
      BY <2>0, <3>2 DEF UsesOAuth, Offered, Methods
    <3>4. /\ stored' \in [Providers -> Kinds]
          /\ \A x \in Providers : stored'[x] = stored[x] \/ (x = p /\ stored'[x] = "key")
      BY <2>0, <3>1, <3>2
    <3> QED
      BY <2>0, <2>2, <3>1, <3>3, <3>4
  <2>10. CASE SubmitCustom
    BY <2>0, <2>2, <2>10 DEF SubmitCustom
  <2>11. ASSUME NEW answer \in {"empty", "bad", "good"}, SubmitCode(answer) PROVE LoginInv'
    <3>1. /\ screen = "oauth" /\ code' = answer /\ heard' = TRUE
          /\ login' = IF login = "asking" THEN Resumed(answer) ELSE login
          /\ UNCHANGED <<screen, method, entry, covered, stored>>
      BY <2>11 DEF SubmitCode, Active, Remembered
    <3>2. Resumed(answer) \in {"working", "over"}
      BY DEF Resumed
    <3>3. TypeOK' /\ NotAskedAgain' /\ WorksBehindScreen'
      BY <2>0, <3>1, <3>2 DEF TypeOK, NotAskedAgain, WorksBehindScreen
    <3>4. KindAccepted' /\ LoginsTracked'
      BY <2>0, <3>1 DEF KindAccepted, LoginsTracked, UsesOAuth, Offered
    <3> QED
      BY <3>3, <3>4 DEF LoginInv
  <2>12. CASE Ask
    <3>1. /\ login = "starting" /\ login' = IF code = "none" THEN "asking" ELSE Resumed(code)
          /\ UNCHANGED <<screen, method, entry, covered, heard, code, stored>>
      BY <2>12 DEF Ask
    <3>2. Resumed(code) \in {"working", "over"}
      BY DEF Resumed
    <3>3. TypeOK' /\ NotAskedAgain' /\ WorksBehindScreen'
      BY <2>0, <3>1, <3>2 DEF TypeOK, NotAskedAgain, WorksBehindScreen, LoginsTracked
    <3>4. KindAccepted' /\ LoginsTracked'
      BY <2>0, <3>1 DEF KindAccepted, LoginsTracked, UsesOAuth, Offered
    <3> QED
      BY <3>3, <3>4 DEF LoginInv
  <2>13. CASE Redirect \/ Answer \/ Dropped
    <3>1. /\ login \in {"asking", "working", "granted"} /\ login' \in {"working", "granted", "over"}
          /\ UNCHANGED <<screen, method, entry, covered, heard, code, stored>>
      BY <2>13 DEF Redirect, Answer, Dropped
    <3>2. TypeOK' /\ NotAskedAgain' /\ WorksBehindScreen'
      BY <2>0, <3>1 DEF TypeOK, NotAskedAgain, WorksBehindScreen
    <3>3. KindAccepted' /\ LoginsTracked'
      BY <2>0, <3>1 DEF KindAccepted, LoginsTracked, UsesOAuth, Offered
    <3> QED
      BY <3>2, <3>3 DEF LoginInv
  <2>14. CASE Granted
    <3>1. stored' \in {stored, [stored EXCEPT ![entry[1]] = "oauth"]} /\ Show("none", "none", Nobody)
          /\ UNCHANGED covered /\ screen = "oauth"
      BY <2>0, <2>14 DEF Granted, WorksBehindScreen
    <3>2. PICK p \in Providers : entry = <<p>> /\ UsesOAuth(p, method)
      BY <2>0, <3>1 DEF LoginsTracked
    <3>3. p \in OAuth
      BY <3>2 DEF UsesOAuth
    <3>4. /\ stored' \in [Providers -> Kinds]
          /\ \A x \in Providers : stored'[x] = stored[x] \/ (x = p /\ stored'[x] = "oauth")
      BY <2>0, <3>1, <3>2
    <3> QED
      BY <2>0, <2>2, <3>1, <3>3, <3>4
  <2>15. CASE Cover \/ UNCHANGED vars
    <3>1. covered' \in BOOLEAN /\ UNCHANGED <<screen, method, entry, login, heard, code, stored>>
      BY <2>0, <2>15 DEF Cover, vars
    <3>2. TypeOK' /\ NotAskedAgain' /\ WorksBehindScreen'
      BY <2>0, <3>1 DEF TypeOK, NotAskedAgain, WorksBehindScreen
    <3>3. KindAccepted' /\ LoginsTracked'
      BY <2>0, <3>1 DEF KindAccepted, LoginsTracked, UsesOAuth, Offered
    <3> QED
      BY <3>2, <3>3 DEF LoginInv
  <2> QED
    BY <2>3, <2>4, <2>5, <2>6, <2>7, <2>8, <2>9, <2>10, <2>11, <2>12, <2>13, <2>14, <2>15 DEF Next
<1> QED
  BY <1>1, <1>2, PTL DEF Spec
=============================================================================
