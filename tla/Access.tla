------------------------------- MODULE Access -------------------------------
(***************************************************************************)
(* Accounts, logins and sessions of the platform: users, user_identities,  *)
(* local_credentials, user_sessions, external_session_tokens and           *)
(* auth_settings, the handlers of manager-control that write them, the     *)
(* calls the two web front ends make, and the administration scripts.      *)
(*                                                                         *)
(* Control has one synchronous worker, so a handler is one step; the       *)
(* front ends, the UIS and the scripts interleave between handlers.  The   *)
(* three services read the same environment file but are restarted one     *)
(* after the other, so each has a setting of its own.                      *)
(***************************************************************************)
EXTENDS Naturals

CONSTANTS
    Users,          \* platform accounts
    Cookies,        \* session tokens; a login uses a fresh one
    Tickets,        \* access tokens of the UIS, one per sign-on
    Settings,       \* deployments: [provider, fallback]
    EmergencyUsers, \* MANAGER_EMERGENCY_USERS
    MaxFailures,    \* failed local logins before a lock
    MaxRedeploys    \* bound: restarts of a service with another setting

ASSUME AccessAssumption ==
    /\ MaxFailures \in Nat \ {0}
    /\ MaxRedeploys \in Nat
    /\ EmergencyUsers \subseteq Users
    /\ Settings \subseteq
         [provider: {"nginx-basic", "local", "campus-uis"}, fallback: BOOLEAN]

VARIABLES
    configured,     \* service -> its setting
    active,         \* auth_settings.active_provider
    accounts,       \* user -> role, status, identities
    credentials,    \* user -> failed logins and lock of local_credentials
    sessions,       \* cookie -> row of user_sessions
    tickets,        \* ticket -> where its sign-on is
    guesses,        \* history: wrong passwords tried since the last reset
    imported,       \* history: users an import took out of use
    deposed,        \* history: an import or a script took the last
                    \* administrator away
    redeploys       \* number of Redeploy steps

accessVars == <<configured, active, accounts, credentials, sessions, tickets,
                guesses, imported, deposed, redeploys>>
histories == <<imported, deposed>>

Providers == {"nginx-basic", "local", "campus-uis"}
Services == {"user", "admin", "control"}
\* Every check asks for "active": "disabled" stands for "locked" as well.
Status == {"active", "disabled"}
Account == [role: {"admin", "user"}, status: Status \cup {"none"},
            ids: SUBSET Providers]
Credential == [set: BOOLEAN, failures: 0 .. MaxFailures - 1, locked: BOOLEAN]
\* Sessions are made once: a fresh cookie, its row, and the end of the row.
NoSession == [kind |-> "none"]
Fresh == [kind |-> "fresh"]
Session == [kind: {"user", "admin", "emergency"}, user: Users,
            provider: Providers, from: Tickets \cup {"none"}, expired: BOOLEAN]
Ticket == [at: {"unused", "callback", "done"}, user: Users, out: BOOLEAN,
           late: BOOLEAN]

AccessTypeOK ==
    /\ configured \in [Services -> Settings]
    /\ active \in Providers \cup {"none"}
    /\ accounts \in [Users -> Account]
    /\ credentials \in [Users -> Credential]
    /\ sessions \in [Cookies -> Session \cup {NoSession, Fresh}]
    /\ tickets \in [Tickets -> Ticket]
    /\ guesses \in [Users -> Nat]
    /\ imported \subseteq Users
    /\ deposed \in BOOLEAN
    /\ redeploys \in Nat

----------------------------------------------------------------------------
(* What the settings of a service mean. *)
External(f) == configured[f].provider = "campus-uis"
LocalAuth(f) ==
    configured[f].provider = "local" \/ (External(f) /\ configured[f].fallback)
Mixed == External("control") /\ configured["control"].fallback
\* The providers under which a front end's actor() has a cookie resolved.
Tried(f) == {configured[f].provider} \cup
            (IF LocalAuth(f) THEN {"local"} ELSE {})

Live(t) == sessions[t].kind \notin {"none", "fresh"}
Of(u) == {t \in Cookies : Live(t) /\ sessions[t].user = u}
IsAdmin(u) == accounts[u].status = "active" /\ accounts[u].role = "admin"
\* DELETE FROM user_sessions over the cookies T.
Without(T) == [t \in Cookies |-> IF t \in T THEN NoSession ELSE sessions[t]]
Rows == {t \in Cookies : Live(t)}

\* activate_auth_provider, as the handlers call it before they look further:
\* the sessions it leaves.
Switches(p) == ~Mixed /\ active \notin {"none", p}
Kept(p) == IF Switches(p) THEN Without(Rows) ELSE sessions
Activate(p) == active' = IF Mixed THEN active ELSE p

\* create_session: expired rows go, then the new row is written.
Logged(S, t, row) ==
    [c \in Cookies |->
        IF c = t THEN row
        ELSE IF S[c].kind \notin {"none", "fresh"} /\ S[c].expired
             THEN NoSession ELSE S[c]]
Row(kind, u, p, x) ==
    [kind |-> kind, user |-> u, provider |-> p, from |-> x, expired |-> FALSE]

----------------------------------------------------------------------------
(* Logins and page views. *)

\* resolve_auth_session and resolve_auth_identity: a page view only reads the
\* session, but makes the provider it asks for the active one.
View(f) ==
    \E p \in Tried(f) :
        /\ Activate(p)
        /\ sessions' = Kept(p)
        /\ UNCHANGED <<configured, accounts, credentials, tickets, guesses,
                       histories, redeploys>>

\* The UIS sends the browser back with a code; external_callback exchanges it
\* for an access token and the profile before it calls Control.
Callback(u, x) ==
    /\ External("user")
    /\ tickets[x].at = "unused"
    /\ tickets' = [tickets EXCEPT ![x] = [at |-> "callback", user |-> u,
                                          out |-> FALSE, late |-> FALSE]]
    /\ UNCHANGED <<configured, active, accounts, credentials, sessions,
                   guesses, histories, redeploys>>

\* get_user_by_identity, and the account is active.
MutForgetsStatus(u, p) == p \in accounts[u].ids
MayLogin(u, p) == p \in accounts[u].ids /\ accounts[u].status = "active"

\* external_auth_login, called at the end of the callback.
ExternalLogin(x, t) ==
    LET u == tickets[x].user
        p == "campus-uis"
    IN  /\ tickets[x].at = "callback"
        /\ sessions[t] = Fresh
        /\ Activate(p)
        /\ sessions' = IF MayLogin(u, p)
                       THEN Logged(Kept(p), t, Row("user", u, p, x))
                       ELSE Kept(p)
        /\ tickets' = [tickets EXCEPT ![x].at = "done"]
        /\ UNCHANGED <<configured, accounts, credentials, guesses, histories,
                       redeploys>>

\* record_login_failure: the last failure allowed locks and clears the count.
MutNeverLocks(c) ==
    [c EXCEPT !.failures = IF @ + 1 >= MaxFailures THEN 0 ELSE @ + 1]
Failed(c) ==
    IF c.failures + 1 >= MaxFailures
    THEN [c EXCEPT !.failures = 0, !.locked = TRUE]
    ELSE [c EXCEPT !.failures = @ + 1, !.locked = FALSE]
Cleared == [set |-> TRUE, failures |-> 0, locked |-> FALSE]

\* local_auth_login with a password that is not accepted.
LocalLoginFails(f, u) ==
    /\ LocalAuth(f)
    /\ "local" \in accounts[u].ids
    /\ Activate("local")
    /\ sessions' = Kept("local")
    /\ IF credentials[u].set /\ ~credentials[u].locked
       THEN /\ credentials' = [credentials EXCEPT ![u] = Failed(@)]
            /\ guesses' = [guesses EXCEPT ![u] = @ + 1]
       ELSE UNCHANGED <<credentials, guesses>>
    /\ UNCHANGED <<configured, accounts, tickets, histories, redeploys>>

\* local_auth_login with the right password: an account that is not active
\* counts as a failure; the administration refuses a mere user after the
\* password was accepted, and then neither counts nor clears.
LocalLogin(f, u, t) ==
    LET valid == /\ accounts[u].status = "active"
                 /\ credentials[u].set /\ ~credentials[u].locked
    IN  /\ LocalAuth(f)
        /\ "local" \in accounts[u].ids
        /\ valid
        /\ sessions[t] = Fresh
        /\ Activate("local")
        /\ IF f = "admin" /\ accounts[u].role # "admin"
           THEN /\ sessions' = Kept("local")
                /\ UNCHANGED <<credentials, guesses>>
           ELSE /\ sessions' = Logged(Kept("local"), t, Row(f, u, "local", "none"))
                /\ credentials' = [credentials EXCEPT ![u] = Cleared]
                /\ guesses' = [guesses EXCEPT ![u] = 0]
        /\ UNCHANGED <<configured, accounts, tickets, histories, redeploys>>

\* emergency_login, behind the admin site's own basic authentication.
EmergencyAllowed(u) == External("admin") /\ u \in EmergencyUsers /\ IsAdmin(u)

\* emergency_auth_login: no provider is made active.
EmergencyLogin(u, t) ==
    /\ EmergencyAllowed(u)
    /\ sessions[t] = Fresh
    /\ sessions' = Logged(sessions, t,
                     Row("emergency", u, configured["admin"].provider, "none"))
    /\ UNCHANGED <<configured, active, accounts, credentials, tickets, guesses,
                   histories, redeploys>>

\* delete_auth_session.
Logout(t) ==
    /\ Live(t)
    /\ sessions' = Without({t})
    /\ UNCHANGED <<configured, active, accounts, credentials, tickets, guesses,
                   histories, redeploys>>

\* delete_session_by_external_token.
MutSkipsLapsed(x) == {t \in Rows : sessions[t].from = x /\ ~sessions[t].expired}
From(x) == {t \in Rows : sessions[t].from = x}

\* delete_external_auth_session: the UIS reports that x was signed out.  The
\* report may come while the callback of x has not called Control yet.
ExternalLogout(x) ==
    /\ External("user")
    /\ tickets[x].at # "unused" /\ ~tickets[x].out
    /\ sessions' = Without(From(x))
    /\ tickets' = [tickets EXCEPT ![x].out = TRUE,
                                  ![x].late = tickets[x].at = "callback"]
    /\ UNCHANGED <<configured, active, accounts, credentials, guesses,
                   histories, redeploys>>

----------------------------------------------------------------------------
(* Administration. *)

\* update_admin_user_status refuses to disable the caller's own account.
MutMayDisableSelf(a, u, s) == IsAdmin(a) /\ accounts[u].status # "none"
MaySetStatus(a, u, s) ==
    /\ IsAdmin(a)
    /\ accounts[u].status # "none"
    /\ a = u => s = "active"

SetStatus(a, u, s) ==
    /\ MaySetStatus(a, u, s)
    /\ accounts' = [accounts EXCEPT ![u].status = s]
    /\ sessions' = IF s = "active" THEN sessions ELSE Without(Of(u))
    /\ imported' = imported \ {u}
    /\ UNCHANGED <<configured, active, credentials, tickets, guesses, deposed,
                   redeploys>>

\* import_uis_users: a row makes the account or, when the UIS identity is
\* known, may set its status.  The sessions are left alone.
ImportedRow(account, s) ==
    IF account.status = "none"
    THEN [role |-> "user", status |-> s, ids |-> {"campus-uis"}]
    ELSE [account EXCEPT !.status = s]

\* From the administration or by import_uis_users.py.
ImportUis(u, s) ==
    /\ accounts[u].status = "none" \/ "campus-uis" \in accounts[u].ids
    /\ accounts' = [accounts EXCEPT ![u] = ImportedRow(@, s)]
    /\ imported' = IF s = "active" THEN imported \ {u} ELSE imported \cup {u}
    /\ deposed' = ~\E v \in Users : IsAdmin(v)'
    /\ UNCHANGED <<configured, active, credentials, sessions, tickets, guesses,
                   redeploys>>

\* import_platform_users with local accounts: a username must be new.
ImportLocal(a, u) ==
    /\ IsAdmin(a)
    /\ accounts[u].status = "none"
    /\ accounts' = [accounts EXCEPT ![u] =
         [role |-> "user", status |-> "active", ids |-> {"local"}]]
    /\ credentials' = [credentials EXCEPT ![u] = Cleared]
    /\ UNCHANGED <<configured, active, sessions, tickets, guesses, histories,
                   redeploys>>

\* set_local_password.py: the credential is reset, the role perhaps set.
SetLocalPassword(u, r) ==
    /\ accounts[u].status # "none"
    /\ accounts' = [accounts EXCEPT ![u].ids = @ \cup {"local"}, ![u].role = r]
    /\ credentials' = [credentials EXCEPT ![u] = Cleared]
    /\ guesses' = [guesses EXCEPT ![u] = 0]
    /\ deposed' = ~\E v \in Users : IsAdmin(v)'
    /\ UNCHANGED <<configured, active, sessions, tickets, imported, redeploys>>

\* metadata_cli bind-identity.
BindIdentity(u) ==
    /\ accounts[u].status # "none"
    /\ accounts' = [accounts EXCEPT ![u].ids = @ \cup {"campus-uis"}]
    /\ UNCHANGED <<configured, active, credentials, sessions, tickets, guesses,
                   histories, redeploys>>

----------------------------------------------------------------------------
(* Time and deployment. *)
Expire(t) ==
    /\ Live(t) /\ ~sessions[t].expired
    /\ sessions' = [sessions EXCEPT ![t].expired = TRUE]
    /\ UNCHANGED <<configured, active, accounts, credentials, tickets, guesses,
                   histories, redeploys>>

\* locked_until has passed; the next failure starts a new count.
LockLapses(u) ==
    /\ credentials[u].locked
    /\ credentials' = [credentials EXCEPT ![u].locked = FALSE]
    /\ guesses' = [guesses EXCEPT ![u] = 0]
    /\ UNCHANGED <<configured, active, accounts, sessions, tickets, histories,
                   redeploys>>

\* A service is restarted with the setting of the environment file.
Redeploy(f, s) ==
    /\ redeploys < MaxRedeploys
    /\ configured[f] # s
    /\ configured' = [configured EXCEPT ![f] = s]
    /\ redeploys' = redeploys + 1
    /\ UNCHANGED <<active, accounts, credentials, sessions, tickets, guesses,
                   histories>>

----------------------------------------------------------------------------
\* A platform that was set up with administrators, each of whom can sign on
\* with the UIS and, where a credential was set, locally.
AccessInit ==
    /\ \E s \in Settings : configured = [f \in Services |-> s]
    /\ active = "none"
    /\ accounts \in [Users -> Account]
    /\ \A u \in Users :
         /\ accounts[u].status \in {"active", "none"}
         /\ accounts[u].ids = IF accounts[u].status = "none" THEN {}
                              ELSE {"campus-uis", "local"}
         /\ accounts[u].role = IF u \in EmergencyUsers THEN "admin" ELSE "user"
    /\ \E u \in Users : IsAdmin(u)
    /\ credentials = [u \in Users |-> [Cleared EXCEPT !.set = accounts[u].status # "none"]]
    /\ sessions = [t \in Cookies |-> Fresh]
    /\ tickets = [x \in Tickets |-> [at |-> "unused", user |-> CHOOSE u \in Users : TRUE,
                                     out |-> FALSE, late |-> FALSE]]
    /\ guesses = [u \in Users |-> 0]
    /\ imported = {}
    /\ deposed = FALSE
    /\ redeploys = 0

AccessNext ==
    \/ \E f \in {"user", "admin"} : View(f)
    \/ \E u \in Users, x \in Tickets : Callback(u, x)
    \/ \E x \in Tickets, t \in Cookies : ExternalLogin(x, t)
    \/ \E f \in {"user", "admin"}, u \in Users : LocalLoginFails(f, u)
    \/ \E f \in {"user", "admin"}, u \in Users, t \in Cookies : LocalLogin(f, u, t)
    \/ \E u \in Users, t \in Cookies : EmergencyLogin(u, t)
    \/ \E t \in Cookies : Logout(t)
    \/ \E x \in Tickets : ExternalLogout(x)
    \/ \E a, u \in Users, s \in Status : SetStatus(a, u, s)
    \/ \E u \in Users, s \in Status : ImportUis(u, s)
    \/ \E a, u \in Users : ImportLocal(a, u)
    \/ \E u \in Users, r \in {"admin", "user"} : SetLocalPassword(u, r)
    \/ \E u \in Users : BindIdentity(u)
    \/ \E t \in Cookies : Expire(t)
    \/ \E u \in Users : LockLapses(u)
    \/ \E f \in Services, s \in Settings : Redeploy(f, s)

AccessSpec == AccessInit /\ [][AccessNext]_accessVars

----------------------------------------------------------------------------
(* Properties. *)

\* However logins, resets and lock expiries mix, no more than MaxFailures
\* wrong passwords are compared with an account's hash before it is locked
\* (record_login_failure, local_auth_login).
GuessesBounded == \A u \in Users : guesses[u] <= MaxFailures

\* An account that the administration disabled or locked has no session, by
\* whatever way a login was under way: only an import, which leaves sessions
\* alone, can leave one to an account that is not active.
DisabledStaysOut ==
    \A u \in Users : accounts[u].status # "active" /\ u \notin imported
                     => Of(u) = {}

\* The UIS's logout ends every session of that sign-on; only one whose login
\* had not reached Control when the report came can be there afterwards.
LogoutEndsSessions ==
    \A t \in Cookies : Live(t) /\ sessions[t].from # "none" =>
        LET x == tickets[sessions[t].from] IN x.out => x.late

\* Administrators cannot lock one another out until nobody is left: unless an
\* import or a script took the last one away, there is an active administrator.
AdminRemains == deposed \/ \E u \in Users : IsAdmin(u)

\* What makes them inductive: the guesses that count are those the credential
\* has recorded, and a session of a sign-on is there only once Control has seen
\* its callback, which a report that comes before marks as late.
GuessesRecorded ==
    \A u \in Users :
        /\ guesses[u] = IF credentials[u].locked THEN MaxFailures
                        ELSE credentials[u].failures
        /\ credentials[u].locked => credentials[u].failures = 0
        /\ accounts[u].status = "none" => accounts[u].ids = {} /\ guesses[u] = 0
SignOnsSeen ==
    /\ \A x \in Tickets : tickets[x].at = "callback" /\ tickets[x].out => tickets[x].late
    /\ \A t \in Cookies : Live(t) /\ sessions[t].from # "none" =>
         tickets[sessions[t].from].at = "done"

AccessInv == /\ AccessTypeOK /\ GuessesRecorded /\ SignOnsSeen
             /\ DisabledStaysOut /\ LogoutEndsSessions /\ AdminRemains

----------------------------------------------------------------------------
(* What the rest of the platform may rely on. *)
Table == INSTANCE SessionTable WITH
    rows <- [t \in Cookies |->
               IF Live(t) THEN [kind |-> "row", user |-> sessions[t].user,
                                provider |-> sessions[t].provider,
                                lapsed |-> sessions[t].expired]
               ELSE sessions[t]],
    standing <- {u \in Users : accounts[u].status = "active"}

\* Every step of the logins, the administration, the scripts and time is one
\* that SessionTable allows: a cookie gets one row, for an account active at
\* that moment, and a row that is gone stays gone.
KeepsTable == Table!TableSpec
=============================================================================
