---------------------------- MODULE Access_proofs ----------------------------
(***************************************************************************)
(* Proofs about Access, for any accounts, sessions, sign-ons, deployments  *)
(* and limits: the four properties of accounts and sessions, and that the  *)
(* session rows do what SessionTable promises.                             *)
(***************************************************************************)
EXTENDS Access, TLAPS

\* What a step can do to the row of a cookie: leave it, remove it, or make it.
Same(t)       == sessions'[t] = sessions[t]
Gone(t)       == Live(t) /\ sessions'[t] = NoSession
Made(t, u, x) == /\ sessions[t] = Fresh /\ sessions'[t] \in Session
                 /\ sessions'[t].user = u /\ sessions'[t].from = x /\ ~sessions'[t].expired

Lapsed(t)     == Live(t) /\ sessions'[t] = [sessions[t] EXCEPT !.expired = TRUE]

SessionsType   == sessions' \in [Cookies -> Session \cup {NoSession, Fresh}]
RowsStep ==
  \A t \in Cookies :
    \/ Same(t) \/ Gone(t) \/ Lapsed(t)
    \/ \E u \in Users, x \in Tickets \cup {"none"} : Made(t, u, x) /\ accounts[u].status = "active"
OnlyEnds       == SessionsType /\ \A t \in Cookies : Same(t) \/ Gone(t)
OneBegins(u, x) == SessionsType /\ \A t \in Cookies : Same(t) \/ Gone(t) \/ Made(t, u, x)

------------------------------------------------------------------------------
(* The helpers on session rows *)

\* A row is neither absent nor fresh.
LEMMA KindFacts ==
  /\ \A s \in Session : s.kind \notin {"none", "fresh"}
  /\ NoSession.kind = "none" /\ Fresh.kind = "fresh"
BY DEF Session, NoSession, Fresh

\* Removing rows leaves the others.
LEMMA WithoutFacts ==
  ASSUME AccessTypeOK, NEW T \in SUBSET Rows
  PROVE  /\ Without(T) \in [Cookies -> Session \cup {NoSession, Fresh}]
         /\ \A t \in Cookies : \/ Without(T)[t] = sessions[t]
                               \/ Live(t) /\ Without(T)[t] = NoSession
BY DEF AccessTypeOK, Without, Rows

\* A switch of the provider only removes rows.
LEMMA KeptFacts ==
  ASSUME AccessTypeOK, NEW p
  PROVE  /\ Kept(p) \in [Cookies -> Session \cup {NoSession, Fresh}]
         /\ \A t \in Cookies : \/ Kept(p)[t] = sessions[t]
                               \/ Live(t) /\ Kept(p)[t] = NoSession
<1>1. CASE Switches(p)
  BY <1>1, WithoutFacts DEF Kept
<1>2. CASE ~Switches(p)
  BY <1>2 DEF Kept, AccessTypeOK
<1> QED BY <1>1, <1>2

\* A login makes its row, and removes lapsed ones.
LEMMA LoggedFacts ==
  ASSUME AccessTypeOK, NEW S \in [Cookies -> Session \cup {NoSession, Fresh}],
         \A c \in Cookies : S[c] = sessions[c] \/ (Live(c) /\ S[c] = NoSession),
         NEW t \in Cookies, sessions[t] = Fresh, NEW row \in Session, ~row.expired,
         sessions' = Logged(S, t, row)
  PROVE  OneBegins(row.user, row.from)
<1>1. \A c \in Cookies : Logged(S, t, row)[c] \in {row, NoSession, S[c]}
  BY DEF Logged
<1>2. Logged(S, t, row) \in [Cookies -> Session \cup {NoSession, Fresh}]
  BY <1>1 DEF Logged
<1>3. ASSUME NEW c \in Cookies PROVE Same(c) \/ Gone(c) \/ Made(c, row.user, row.from)
  <2>1. CASE c = t
    BY <2>1 DEF Logged, Made
  <2>2. CASE c # t /\ S[c].kind \notin {"none", "fresh"} /\ S[c].expired
    <3>1. S[c] = sessions[c]
      BY <2>2, KindFacts
    <3> QED BY <2>2, <3>1 DEF Logged, Gone, Live
  <2>3. CASE c # t /\ ~(S[c].kind \notin {"none", "fresh"} /\ S[c].expired)
    BY <2>3 DEF Logged, Same, Gone
  <2> QED BY <2>1, <2>2, <2>3
<1> QED BY <1>2, <1>3 DEF OneBegins, SessionsType

\* The row of a login is a session.
LEMMA RowFacts ==
  ASSUME NEW kind \in {"user", "admin", "emergency"}, NEW u \in Users, NEW p \in Providers,
         NEW x \in Tickets \cup {"none"}
  PROVE  /\ Row(kind, u, p, x) \in Session /\ ~Row(kind, u, p, x).expired
         /\ Row(kind, u, p, x).user = u /\ Row(kind, u, p, x).from = x
BY DEF Row, Session

------------------------------------------------------------------------------
(* The invariants against what a step does to the rows *)

\* Rows that only end are a case of a login.
LEMMA EndsBegin ==
  ASSUME OnlyEnds, NEW u, NEW x
  PROVE  OneBegins(u, x)
BY DEF OnlyEnds, OneBegins

\* The rows step as they should when they only end, or an active account's begins.
LEMMA RowsStepFacts ==
  ASSUME NEW u, NEW x, OneBegins(u, x),
         OnlyEnds \/ (/\ u \in Users /\ accounts[u].status = "active"
                      /\ x \in Tickets \cup {"none"})
  PROVE  RowsStep
BY DEF OnlyEnds, OneBegins, RowsStep

LEMMA RowsStay ==
  ASSUME sessions' = sessions PROVE RowsStep
BY DEF RowsStep, Same

\* Whoever has a session afterwards had it, or has it from this login.
LEMMA LiveAfter ==
  ASSUME AccessTypeOK, NEW u, NEW x, OneBegins(u, x), NEW t \in Cookies, Live(t)'
  PROVE  \/ Live(t) /\ sessions'[t] = sessions[t]
         \/ sessions'[t].user = u /\ sessions'[t].from = x
BY KindFacts DEF OneBegins, Same, Gone, Made, Live

\* A step in which only an active account's login begins, and nobody who is active
\* falls out of use but by an import, keeps disabled accounts out.
LEMMA StaysOut ==
  ASSUME AccessTypeOK, DisabledStaysOut, NEW u, NEW x, OneBegins(u, x),
         OnlyEnds \/ accounts'[u].status = "active",
         \A v \in Users : accounts'[v].status # "active" /\ v \notin imported'
                          => accounts[v].status # "active" /\ v \notin imported
  PROVE  DisabledStaysOut'
<1> SUFFICES ASSUME NEW v \in Users, accounts'[v].status # "active", v \notin imported',
                    NEW t \in Cookies, Live(t)', sessions'[t].user = v
             PROVE  FALSE
  BY DEF DisabledStaysOut, Of, Live
<1>1. Live(t) /\ sessions'[t] = sessions[t]
  BY LiveAfter, KindFacts DEF OnlyEnds, Same, Gone, Live
<1> QED BY <1>1 DEF DisabledStaysOut, Of

\* A step that leaves the sign-ons alone and makes no row of one keeps what is
\* known of them.
LEMMA SignOnsStay ==
  ASSUME AccessTypeOK, SignOnsSeen, LogoutEndsSessions, NEW u, OneBegins(u, "none"),
         tickets' = tickets
  PROVE  SignOnsSeen' /\ LogoutEndsSessions'
<1>1. \A t \in Cookies : Live(t)' /\ sessions'[t].from # "none" =>
         Live(t) /\ sessions'[t] = sessions[t]
  BY LiveAfter
<1>2. SignOnsSeen'
  BY <1>1 DEF SignOnsSeen
<1>3. LogoutEndsSessions'
  BY <1>1 DEF LogoutEndsSessions
<1> QED BY <1>2, <1>3

\* Administrators and recorded guesses follow from accounts and credentials alone.
LEMMA AccountsStay ==
  ASSUME AdminRemains, GuessesRecorded,
         UNCHANGED <<accounts, credentials, guesses, deposed>>
  PROVE  AdminRemains' /\ GuessesRecorded'
BY DEF AdminRemains, IsAdmin, GuessesRecorded

\* What a wrong password makes of a credential that is not locked, and what a
\* right one makes of any.
LEMMA FailedFacts ==
  ASSUME NEW c \in Credential, ~c.locked
  PROVE  /\ Failed(c) \in Credential
         /\ Failed(c).locked <=> c.failures + 1 = MaxFailures
         /\ Failed(c).failures = IF Failed(c).locked THEN 0 ELSE c.failures + 1
<1>1. MaxFailures \in Nat /\ MaxFailures > 0
  BY AccessAssumption
<1>2. c.failures \in Nat /\ c.failures + 1 <= MaxFailures
  BY <1>1 DEF Credential
<1>3. CASE c.failures + 1 >= MaxFailures
  <2>1. Failed(c) = [c EXCEPT !.failures = 0, !.locked = TRUE]
    BY <1>3 DEF Failed
  <2>2. 0 \in 0 .. MaxFailures - 1
    BY <1>1
  <2>3. Failed(c).locked /\ Failed(c).failures = 0 /\ Failed(c) \in Credential
    BY <2>1, <2>2 DEF Credential
  <2> QED BY <1>1, <1>2, <1>3, <2>3
<1>4. CASE ~(c.failures + 1 >= MaxFailures)
  <2>1. Failed(c) = [c EXCEPT !.failures = c.failures + 1, !.locked = FALSE]
    BY <1>4 DEF Failed
  <2>2. c.failures + 1 \in 0 .. MaxFailures - 1
    BY <1>1, <1>2, <1>4
  <2>3. ~Failed(c).locked /\ Failed(c).failures = c.failures + 1 /\ Failed(c) \in Credential
    BY <2>1, <2>2 DEF Credential
  <2> QED BY <1>1, <1>2, <1>4, <2>3
<1> QED BY <1>3, <1>4

LEMMA ClearedFacts ==
  /\ Cleared \in Credential
  /\ \A b \in BOOLEAN : [Cleared EXCEPT !.set = b] \in Credential
<1>1. 0 \in 0 .. MaxFailures - 1
  BY AccessAssumption
<1> QED BY <1>1 DEF Credential, Cleared

------------------------------------------------------------------------------
(* Logins and page views *)

LEMMA ViewInv ==
  ASSUME AccessInv, NEW f \in Services, View(f)
  PROVE  AccessInv' /\ RowsStep
<1> USE DEF AccessInv
<1>1. PICK p \in Tried(f) : Activate(p) /\ sessions' = Kept(p)
  BY DEF View
<1>2. p \in Providers
  BY <1>1, AccessAssumption DEF Tried, AccessTypeOK, Providers, Services
<1>3. OnlyEnds
  BY <1>1, KeptFacts DEF OnlyEnds, SessionsType, Same, Gone
<1>4. OneBegins("none", "none")
  BY <1>3, EndsBegin
<1>5. AccessTypeOK'
  BY <1>1, <1>2, <1>3 DEF View, Activate, AccessTypeOK, OnlyEnds, SessionsType, histories
<1>6. AdminRemains' /\ GuessesRecorded'
  BY AccountsStay DEF View, histories
<1>7. SignOnsSeen' /\ LogoutEndsSessions'
  BY <1>4, SignOnsStay DEF View
<1>8. DisabledStaysOut'
  BY <1>3, <1>4, StaysOut DEF View, histories
<1>9. RowsStep
  BY <1>3, <1>4, RowsStepFacts
<1> QED BY <1>5, <1>6, <1>7, <1>8, <1>9

LEMMA CallbackInv ==
  ASSUME AccessInv, NEW u \in Users, NEW x \in Tickets, Callback(u, x)
  PROVE  AccessInv' /\ RowsStep
<1> USE DEF AccessInv, Callback, histories
<1>1. AccessTypeOK'
  BY DEF AccessTypeOK, Ticket
<1>2. AdminRemains' /\ GuessesRecorded'
  BY AccountsStay
<1>3. SignOnsSeen'
  BY DEF SignOnsSeen, Live, AccessTypeOK
<1>4. LogoutEndsSessions'
  BY DEF LogoutEndsSessions, SignOnsSeen, Live, AccessTypeOK
<1>5. DisabledStaysOut'
  BY DEF DisabledStaysOut, Of, Live
<1>6. RowsStep
  BY RowsStay
<1> QED BY <1>1, <1>2, <1>3, <1>4, <1>5, <1>6

LEMMA ExternalLoginInv ==
  ASSUME AccessInv, NEW x \in Tickets, NEW t \in Cookies, ExternalLogin(x, t)
  PROVE  AccessInv' /\ RowsStep
<1> DEFINE u == tickets[x].user
<1> USE DEF AccessInv, histories
<1>1. u \in Users
  BY DEF AccessTypeOK, Ticket
<1>2. \/ OnlyEnds
      \/ OneBegins(u, x) /\ accounts'[u].status = "active"
  <2>1. CASE MayLogin(u, "campus-uis")
    <3>1. OneBegins(u, x)
      BY <1>1, <2>1, KeptFacts, RowFacts, LoggedFacts DEF ExternalLogin, Providers
    <3> QED BY <2>1, <3>1 DEF ExternalLogin, MayLogin
  <2>2. CASE ~MayLogin(u, "campus-uis")
    BY <2>2, KeptFacts DEF ExternalLogin, OnlyEnds, SessionsType, Same, Gone
  <2> QED BY <2>1, <2>2
<1>3. OneBegins(u, x)
  BY <1>2, EndsBegin
<1>4. AccessTypeOK'
  BY <1>3 DEF ExternalLogin, Activate, AccessTypeOK, OneBegins, SessionsType, Ticket, Providers
<1>5. AdminRemains' /\ GuessesRecorded'
  BY AccountsStay DEF ExternalLogin
<1>6. /\ tickets' = [tickets EXCEPT ![x].at = "done"]
      /\ tickets[x].at = "callback" /\ tickets \in [Tickets -> Ticket]
  BY DEF ExternalLogin, AccessTypeOK
<1>7. SignOnsSeen'
  <2>1. \A y \in Tickets : tickets'[y].at = "callback" /\ tickets'[y].out => tickets'[y].late
    BY <1>6 DEF SignOnsSeen, Ticket
  <2>2. ASSUME NEW c \in Cookies, Live(c)', sessions'[c].from # "none"
        PROVE  tickets'[sessions'[c].from].at = "done"
    <3>1. CASE Live(c) /\ sessions'[c] = sessions[c]
      <4>1. sessions[c].from \in Tickets
        BY <2>2, <3>1 DEF AccessTypeOK, Live, Session, NoSession, Fresh
      <4> QED BY <1>6, <2>2, <3>1, <4>1 DEF SignOnsSeen, Ticket
    <3>2. CASE sessions'[c].user = u /\ sessions'[c].from = x
      BY <1>6, <3>2 DEF Ticket
    <3> QED BY <1>3, <2>2, <3>1, <3>2, LiveAfter
  <2> QED BY <2>1, <2>2 DEF SignOnsSeen
<1>8. LogoutEndsSessions'
  <2> SUFFICES ASSUME NEW c \in Cookies, Live(c)', sessions'[c].from # "none",
                      tickets'[sessions'[c].from].out
               PROVE  tickets'[sessions'[c].from].late
    BY DEF LogoutEndsSessions
  <2>1. CASE Live(c) /\ sessions'[c] = sessions[c]
    <3>1. sessions[c].from \in Tickets
      BY <2>1 DEF AccessTypeOK, Live, Session, NoSession, Fresh
    <3> QED BY <1>6, <2>1, <3>1 DEF LogoutEndsSessions, Ticket
  <2>2. CASE sessions'[c].user = u /\ sessions'[c].from = x
    BY <1>6, <2>2 DEF SignOnsSeen, Ticket
  <2> QED BY <1>3, <2>1, <2>2, LiveAfter
<1>9. DisabledStaysOut'
  BY <1>2, <1>3, StaysOut DEF ExternalLogin
<1>10. RowsStep
  BY <1>1, <1>2, <1>3, RowsStepFacts DEF ExternalLogin
<1> QED BY <1>4, <1>5, <1>7, <1>8, <1>9, <1>10

LEMMA LocalLoginFailsInv ==
  ASSUME AccessInv, NEW f \in Services, NEW u \in Users, LocalLoginFails(f, u)
  PROVE  AccessInv' /\ RowsStep
<1> USE DEF AccessInv, LocalLoginFails, histories
<1>1. OnlyEnds
  BY KeptFacts DEF OnlyEnds, SessionsType, Same, Gone
<1>2. OneBegins("none", "none")
  BY <1>1, EndsBegin
<1>3. MaxFailures \in Nat \ {0}
  BY AccessAssumption
<1>4. credentials' \in [Users -> Credential] /\ guesses' \in [Users -> Nat]
  <2>1. credentials[u] \in Credential
    BY DEF AccessTypeOK
  <2> QED BY <2>1, FailedFacts DEF AccessTypeOK
<1>5. AccessTypeOK'
  BY <1>1, <1>4 DEF AccessTypeOK, Activate, OnlyEnds, SessionsType, Providers
<1>6. AdminRemains'
  BY DEF AdminRemains, IsAdmin
<1>7. GuessesRecorded'
  <2>1. CASE credentials[u].set /\ ~credentials[u].locked
    <3>1. accounts[u].status # "none"
      BY DEF GuessesRecorded
    <3>2. credentials[u] \in Credential /\ guesses[u] = credentials[u].failures
      BY <2>1 DEF AccessTypeOK, GuessesRecorded
    <3>3. credentials'[u] = Failed(credentials[u]) /\ guesses'[u] = guesses[u] + 1
      BY <2>1 DEF AccessTypeOK
    <3>4. guesses'[u] = IF credentials'[u].locked THEN MaxFailures
                        ELSE credentials'[u].failures
      BY <1>3, <2>1, <3>2, <3>3, FailedFacts
    <3>5. credentials'[u].locked => credentials'[u].failures = 0
      BY <2>1, <3>2, <3>3, FailedFacts
    <3>6. \A v \in Users \ {u} : credentials'[v] = credentials[v] /\ guesses'[v] = guesses[v]
      BY <2>1 DEF AccessTypeOK
    <3> QED BY <3>1, <3>4, <3>5, <3>6 DEF GuessesRecorded
  <2>2. CASE ~(credentials[u].set /\ ~credentials[u].locked)
    BY <2>2 DEF GuessesRecorded
  <2> QED BY <2>1, <2>2
<1>8. SignOnsSeen' /\ LogoutEndsSessions'
  BY <1>2, SignOnsStay
<1>9. DisabledStaysOut'
  BY <1>1, <1>2, StaysOut
<1>10. RowsStep
  BY <1>1, <1>2, RowsStepFacts
<1> QED BY <1>5, <1>6, <1>7, <1>8, <1>9, <1>10

LEMMA LocalLoginInv ==
  ASSUME AccessInv, NEW f \in {"user", "admin"}, NEW u \in Users, NEW t \in Cookies,
         LocalLogin(f, u, t)
  PROVE  AccessInv' /\ RowsStep
<1> USE DEF AccessInv, LocalLogin, histories
<1>1. OneBegins(u, "none")
  <2>1. CASE f = "admin" /\ accounts[u].role # "admin"
    <3>1. OnlyEnds
      BY <2>1, KeptFacts DEF OnlyEnds, SessionsType, Same, Gone
    <3> QED BY <3>1, EndsBegin
  <2>2. CASE ~(f = "admin" /\ accounts[u].role # "admin")
    BY <2>2, KeptFacts, RowFacts, LoggedFacts DEF Providers
  <2> QED BY <2>1, <2>2
<1>2. credentials' \in [Users -> Credential] /\ guesses' \in [Users -> Nat]
  BY ClearedFacts DEF AccessTypeOK
<1>3. AccessTypeOK'
  BY <1>1, <1>2 DEF AccessTypeOK, Activate, OneBegins, SessionsType, Providers
<1>4. AdminRemains'
  BY DEF AdminRemains, IsAdmin
<1>5. GuessesRecorded'
  BY DEF GuessesRecorded, Cleared, AccessTypeOK, Credential
<1>6. SignOnsSeen' /\ LogoutEndsSessions'
  BY <1>1, SignOnsStay
<1>7. DisabledStaysOut'
  BY <1>1, StaysOut
<1>8. RowsStep
  BY <1>1, RowsStepFacts
<1> QED BY <1>3, <1>4, <1>5, <1>6, <1>7, <1>8

LEMMA EmergencyLoginInv ==
  ASSUME AccessInv, NEW u \in Users, NEW t \in Cookies, EmergencyLogin(u, t)
  PROVE  AccessInv' /\ RowsStep
<1> USE DEF AccessInv, EmergencyLogin, EmergencyAllowed, histories
<1>1. configured["admin"].provider \in Providers
  BY AccessAssumption DEF AccessTypeOK, Services, Providers
<1>2. sessions \in [Cookies -> Session \cup {NoSession, Fresh}]
  BY DEF AccessTypeOK
<1>3. OneBegins(u, "none")
  BY <1>1, <1>2, RowFacts, LoggedFacts
<1>4. AccessTypeOK'
  BY <1>3 DEF AccessTypeOK, OneBegins, SessionsType
<1>5. AdminRemains' /\ GuessesRecorded'
  BY AccountsStay
<1>6. SignOnsSeen' /\ LogoutEndsSessions'
  BY <1>3, SignOnsStay
<1>7. DisabledStaysOut'
  BY <1>3, StaysOut DEF IsAdmin
<1>8. RowsStep
  BY <1>3, RowsStepFacts DEF IsAdmin
<1> QED BY <1>4, <1>5, <1>6, <1>7, <1>8

LEMMA LogoutInv ==
  ASSUME AccessInv, NEW t \in Cookies, Logout(t)
  PROVE  AccessInv' /\ RowsStep
<1> USE DEF AccessInv, Logout, histories
<1>1. OnlyEnds
  BY WithoutFacts DEF OnlyEnds, SessionsType, Same, Gone, Rows
<1>2. OneBegins("none", "none")
  BY <1>1, EndsBegin
<1>3. AccessTypeOK'
  BY <1>1 DEF AccessTypeOK, OnlyEnds, SessionsType
<1>4. AdminRemains' /\ GuessesRecorded'
  BY AccountsStay
<1>5. SignOnsSeen' /\ LogoutEndsSessions'
  BY <1>2, SignOnsStay
<1>6. DisabledStaysOut'
  BY <1>1, <1>2, StaysOut
<1>7. RowsStep
  BY <1>1, <1>2, RowsStepFacts
<1> QED BY <1>3, <1>4, <1>5, <1>6, <1>7

LEMMA ExternalLogoutInv ==
  ASSUME AccessInv, NEW x \in Tickets, ExternalLogout(x)
  PROVE  AccessInv' /\ RowsStep
<1> USE DEF AccessInv, histories
<1>1. OnlyEnds
  BY WithoutFacts DEF ExternalLogout, From, OnlyEnds, SessionsType, Same, Gone, Rows
<1>2. OneBegins("none", "none")
  BY <1>1, EndsBegin
<1>3. /\ tickets' = [tickets EXCEPT ![x].out = TRUE,
                                    ![x].late = tickets[x].at = "callback"]
      /\ tickets \in [Tickets -> Ticket] /\ tickets[x].at # "unused"
  BY DEF ExternalLogout, AccessTypeOK
<1>4. AccessTypeOK'
  <2>1. tickets[x] \in Ticket /\ (tickets[x].at = "callback") \in BOOLEAN
    BY <1>3
  <2>2. [tickets[x] EXCEPT !.out = TRUE, !.late = tickets[x].at = "callback"] \in Ticket
    BY <2>1 DEF Ticket
  <2>3. tickets' \in [Tickets -> Ticket]
    BY <1>3, <2>1, <2>2
  <2> QED BY <1>1, <2>3 DEF ExternalLogout, AccessTypeOK, OnlyEnds, SessionsType
<1>5. AdminRemains' /\ GuessesRecorded'
  BY AccountsStay DEF ExternalLogout
<1>6. ASSUME NEW c \in Cookies, Live(c)', sessions'[c].from # "none"
      PROVE  /\ Live(c) /\ sessions'[c] = sessions[c]
             /\ sessions[c].from \in Tickets \ {x}
  <2>1. Live(c) /\ sessions'[c] = sessions[c]
    BY <1>2, <1>6, LiveAfter
  <2>2. sessions[c].from \in Tickets
    BY <1>6, <2>1 DEF AccessTypeOK, Live, Session, NoSession, Fresh
  <2>3. sessions[c].from # x
    BY <1>6, <2>1, KindFacts DEF ExternalLogout, Without, From, Rows, Live
  <2> QED BY <2>1, <2>2, <2>3
<1>7. SignOnsSeen'
  <2>1. \A y \in Tickets : tickets'[y].at = "callback" /\ tickets'[y].out => tickets'[y].late
    BY <1>3 DEF SignOnsSeen, Ticket
  <2>2. \A c \in Cookies : Live(c)' /\ sessions'[c].from # "none" =>
          tickets'[sessions'[c].from].at = "done"
    BY <1>3, <1>6 DEF SignOnsSeen, Ticket
  <2> QED BY <2>1, <2>2 DEF SignOnsSeen
<1>8. LogoutEndsSessions'
  BY <1>3, <1>6 DEF LogoutEndsSessions, Ticket
<1>9. DisabledStaysOut'
  BY <1>1, <1>2, StaysOut DEF ExternalLogout
<1>10. RowsStep
  BY <1>1, <1>2, RowsStepFacts
<1> QED BY <1>4, <1>5, <1>7, <1>8, <1>9, <1>10

------------------------------------------------------------------------------
(* Administration and the scripts *)

LEMMA SetStatusInv ==
  ASSUME AccessInv, NEW a \in Users, NEW u \in Users, NEW s \in Status, SetStatus(a, u, s)
  PROVE  AccessInv' /\ RowsStep
<1> USE DEF AccessInv, SetStatus, MaySetStatus, Status
<1>1. OnlyEnds
  BY WithoutFacts DEF OnlyEnds, SessionsType, Same, Gone, Rows, Of, AccessTypeOK
<1>2. OneBegins("none", "none")
  BY <1>1, EndsBegin
<1>3. AccessTypeOK'
  BY <1>1 DEF AccessTypeOK, Account, OnlyEnds, SessionsType
<1>4. AdminRemains'
  BY DEF AdminRemains, IsAdmin, AccessTypeOK, Account
<1>5. GuessesRecorded'
  BY DEF GuessesRecorded, AccessTypeOK, Account
<1>6. SignOnsSeen' /\ LogoutEndsSessions'
  BY <1>2, SignOnsStay
<1>7. DisabledStaysOut'
  <2> SUFFICES ASSUME NEW v \in Users, accounts'[v].status # "active", v \notin imported',
                      NEW t \in Cookies, Live(t)', sessions'[t].user = v
               PROVE  FALSE
    BY DEF DisabledStaysOut, Of, Live
  <2>1. Live(t) /\ sessions'[t] = sessions[t]
    BY <1>1, KindFacts DEF OnlyEnds, Same, Gone, Live
  <2>2. CASE v # u
    BY <2>1, <2>2 DEF DisabledStaysOut, Of, AccessTypeOK, Account
  <2>3. CASE v = u
    <3>1. s # "active"
      BY <2>3 DEF AccessTypeOK, Account
    <3>2. t \in Of(u)
      BY <2>1, <2>3 DEF Of
    <3> QED BY <2>1, <3>1, <3>2, KindFacts DEF Without, Live
  <2> QED BY <2>2, <2>3
<1>8. RowsStep
  BY <1>1, <1>2, RowsStepFacts
<1> QED BY <1>3, <1>4, <1>5, <1>6, <1>7, <1>8

\* The scripts and imports leave sessions and sign-ons alone.
LEMMA Untouched ==
  ASSUME AccessInv, UNCHANGED <<sessions, tickets>>
  PROVE  SignOnsSeen' /\ LogoutEndsSessions'
BY DEF AccessInv, SignOnsSeen, LogoutEndsSessions, Live

LEMMA ImportUisInv ==
  ASSUME AccessInv, NEW u \in Users, NEW s \in Status, ImportUis(u, s)
  PROVE  AccessInv' /\ RowsStep
<1> USE DEF AccessInv, ImportUis, Status
<1>1. accounts' \in [Users -> Account]
  BY DEF AccessTypeOK, Account, ImportedRow, Providers
<1>2. deposed' \in BOOLEAN /\ imported' \subseteq Users
  BY DEF AccessTypeOK
<1>3. AccessTypeOK'
  BY <1>1, <1>2 DEF AccessTypeOK
<1>4. AdminRemains'
  BY DEF AdminRemains
<1>5. GuessesRecorded'
  BY DEF GuessesRecorded, AccessTypeOK, Account, ImportedRow
<1>6. SignOnsSeen' /\ LogoutEndsSessions'
  BY Untouched
<1>7. DisabledStaysOut'
  BY DEF DisabledStaysOut, Of, Live, AccessTypeOK, Account, ImportedRow
<1>8. RowsStep
  BY RowsStay
<1> QED BY <1>3, <1>4, <1>5, <1>6, <1>7, <1>8

LEMMA ImportLocalInv ==
  ASSUME AccessInv, NEW a \in Users, NEW u \in Users, ImportLocal(a, u)
  PROVE  AccessInv' /\ RowsStep
<1> USE DEF AccessInv, ImportLocal, histories
<1>1. AccessTypeOK'
  BY ClearedFacts DEF AccessTypeOK, Account, Providers, Status
<1>2. AdminRemains'
  BY DEF AdminRemains, IsAdmin, AccessTypeOK
<1>3. GuessesRecorded'
  BY DEF GuessesRecorded, AccessTypeOK, Account, Credential, Cleared
<1>4. SignOnsSeen' /\ LogoutEndsSessions'
  BY Untouched
<1>5. DisabledStaysOut'
  BY DEF DisabledStaysOut, Of, Live, AccessTypeOK, Account
<1>6. RowsStep
  BY RowsStay
<1> QED BY <1>1, <1>2, <1>3, <1>4, <1>5, <1>6

LEMMA SetLocalPasswordInv ==
  ASSUME AccessInv, NEW u \in Users, NEW r \in {"admin", "user"}, SetLocalPassword(u, r)
  PROVE  AccessInv' /\ RowsStep
<1> USE DEF AccessInv, SetLocalPassword
<1>1. AccessTypeOK'
  BY ClearedFacts DEF AccessTypeOK, Account, Providers, Status
<1>2. AdminRemains'
  BY DEF AdminRemains
<1>3. GuessesRecorded'
  BY DEF GuessesRecorded, AccessTypeOK, Account, Credential, Cleared
<1>4. SignOnsSeen' /\ LogoutEndsSessions'
  BY Untouched
<1>5. DisabledStaysOut'
  BY DEF DisabledStaysOut, Of, Live, AccessTypeOK, Account
<1>6. RowsStep
  BY RowsStay
<1> QED BY <1>1, <1>2, <1>3, <1>4, <1>5, <1>6

LEMMA BindIdentityInv ==
  ASSUME AccessInv, NEW u \in Users, BindIdentity(u)
  PROVE  AccessInv' /\ RowsStep
<1> USE DEF AccessInv, BindIdentity, histories
<1>1. AccessTypeOK'
  BY DEF AccessTypeOK, Account, Providers
<1>2. AdminRemains'
  BY DEF AdminRemains, IsAdmin, AccessTypeOK, Account
<1>3. GuessesRecorded'
  BY DEF GuessesRecorded, AccessTypeOK, Account
<1>4. SignOnsSeen' /\ LogoutEndsSessions'
  BY Untouched
<1>5. DisabledStaysOut'
  BY DEF DisabledStaysOut, Of, Live, AccessTypeOK, Account
<1>6. RowsStep
  BY RowsStay
<1> QED BY <1>1, <1>2, <1>3, <1>4, <1>5, <1>6

------------------------------------------------------------------------------
(* Time and deployment *)

LEMMA ExpireInv ==
  ASSUME AccessInv, NEW t \in Cookies, Expire(t)
  PROVE  AccessInv' /\ RowsStep
<1> USE DEF AccessInv, Expire, histories
<1>1. sessions[t] \in Session
  BY DEF AccessTypeOK, Live, NoSession, Fresh
<1>2. sessions'[t] \in Session /\ sessions'[t].user = sessions[t].user
        /\ sessions'[t].from = sessions[t].from /\ sessions'[t].kind = sessions[t].kind
  BY <1>1 DEF AccessTypeOK, Session
<1>3. \A c \in Cookies : c # t => sessions'[c] = sessions[c]
  BY DEF AccessTypeOK
<1>4. AccessTypeOK'
  BY <1>2, <1>3 DEF AccessTypeOK
<1>5. AdminRemains' /\ GuessesRecorded'
  BY AccountsStay
<1>6. SignOnsSeen' /\ LogoutEndsSessions'
  BY <1>2, <1>3 DEF SignOnsSeen, LogoutEndsSessions, Live
<1>7. DisabledStaysOut'
  BY <1>2, <1>3 DEF DisabledStaysOut, Of, Live
<1>8. RowsStep
  BY <1>3 DEF RowsStep, Same, Lapsed, AccessTypeOK
<1> QED BY <1>4, <1>5, <1>6, <1>7, <1>8

LEMMA LockLapsesInv ==
  ASSUME AccessInv, NEW u \in Users, LockLapses(u)
  PROVE  AccessInv' /\ RowsStep
<1> USE DEF AccessInv, LockLapses, histories
<1>1. AccessTypeOK'
  BY DEF AccessTypeOK, Credential
<1>2. AdminRemains'
  BY DEF AdminRemains, IsAdmin
<1>3. GuessesRecorded'
  BY DEF GuessesRecorded, AccessTypeOK, Credential
<1>4. SignOnsSeen' /\ LogoutEndsSessions'
  BY Untouched
<1>5. DisabledStaysOut'
  BY DEF DisabledStaysOut, Of, Live
<1>6. RowsStep
  BY RowsStay
<1> QED BY <1>1, <1>2, <1>3, <1>4, <1>5, <1>6

LEMMA RedeployInv ==
  ASSUME AccessInv, NEW f \in Services, NEW s \in Settings, Redeploy(f, s)
  PROVE  AccessInv' /\ RowsStep
<1> USE DEF AccessInv, Redeploy, histories
<1>1. AccessTypeOK'
  BY DEF AccessTypeOK
<1>2. AdminRemains' /\ GuessesRecorded'
  BY AccountsStay
<1>3. SignOnsSeen' /\ LogoutEndsSessions'
  BY Untouched
<1>4. DisabledStaysOut'
  BY DEF DisabledStaysOut, Of, Live
<1>5. RowsStep
  BY RowsStay
<1> QED BY <1>1, <1>2, <1>3, <1>4, <1>5

LEMMA StutterInv ==
  ASSUME AccessInv, UNCHANGED accessVars
  PROVE  AccessInv' /\ RowsStep
BY RowsStay DEF AccessInv, accessVars, AccessTypeOK, GuessesRecorded, SignOnsSeen, DisabledStaysOut,
       LogoutEndsSessions, AdminRemains, IsAdmin, Of, Live

------------------------------------------------------------------------------
(* The theorems *)

LEMMA InitInv == AccessInit => AccessInv
<1> SUFFICES ASSUME AccessInit PROVE AccessInv
  OBVIOUS
<1> USE DEF AccessInit
<1>2. \A t \in Cookies : ~Live(t)
  BY DEF Live, Fresh
<1>3. (CHOOSE u \in Users : TRUE) \in Users
  BY DEF IsAdmin
<1>4. tickets \in [Tickets -> Ticket]
  BY <1>3 DEF Ticket
<1>5. credentials \in [Users -> Credential]
  BY ClearedFacts
<1>6. AccessTypeOK
  BY <1>4, <1>5, AccessAssumption DEF AccessTypeOK, Providers
<1>7. GuessesRecorded
  BY DEF GuessesRecorded, Cleared
<1>8. SignOnsSeen /\ LogoutEndsSessions
  BY <1>2 DEF SignOnsSeen, LogoutEndsSessions
<1>9. DisabledStaysOut /\ AdminRemains
  BY <1>2 DEF DisabledStaysOut, Of, AdminRemains
<1> QED BY <1>6, <1>7, <1>8, <1>9 DEF AccessInv

LEMMA NextInv == AccessInv /\ [AccessNext]_accessVars => AccessInv' /\ RowsStep
<1> SUFFICES ASSUME AccessInv, [AccessNext]_accessVars PROVE AccessInv' /\ RowsStep
  OBVIOUS
<1>1. ASSUME NEW f \in {"user", "admin"}, View(f) PROVE AccessInv' /\ RowsStep
  BY <1>1, ViewInv DEF Services
<1>2. ASSUME NEW f \in {"user", "admin"}, NEW u \in Users, LocalLoginFails(f, u)
      PROVE AccessInv' /\ RowsStep
  BY <1>2, LocalLoginFailsInv DEF Services
<1>3. CASE AccessNext
  BY <1>1, <1>2, <1>3, CallbackInv, ExternalLoginInv, LocalLoginInv, EmergencyLoginInv,
     LogoutInv, ExternalLogoutInv, SetStatusInv, ImportUisInv, ImportLocalInv,
     SetLocalPasswordInv, BindIdentityInv, ExpireInv, LockLapsesInv, RedeployInv
  DEF AccessNext
<1> QED BY <1>3, StutterInv

\* In every state the rows, accounts and credentials agree: the four properties
\* of accounts and sessions with what makes them inductive, whatever the number
\* of accounts, cookies, sign-ons and deployments.
THEOREM AccessSafe == AccessSpec => []AccessInv
BY InitInv, NextInv, PTL DEF AccessSpec

\* No more than MaxFailures wrong passwords are compared before the lock
\* (record_login_failure), because the row counts every one of them.
THEOREM GuessesStayBounded == AccessSpec => []GuessesBounded
<1>1. AccessInv => GuessesBounded
  <2> SUFFICES ASSUME AccessInv, NEW u \in Users PROVE guesses[u] <= MaxFailures
    BY DEF GuessesBounded
  <2>1. MaxFailures \in Nat /\ credentials[u].failures \in 0 .. MaxFailures - 1
    BY AccessAssumption DEF AccessInv, AccessTypeOK, Credential
  <2>2. guesses[u] \in {MaxFailures, credentials[u].failures}
    BY DEF AccessInv, GuessesRecorded
  <2> QED BY <2>1, <2>2
<1> QED BY <1>1, AccessSafe, PTL

\* Nobody the administration disabled has a session (update_admin_user_status
\* against every way to log in).
THEOREM DisabledStayOut == AccessSpec => []DisabledStaysOut
<1>1. AccessInv => DisabledStaysOut
  BY DEF AccessInv
<1> QED BY <1>1, AccessSafe, PTL

\* A sign-on the UIS ended has no session, but one whose callback was still on
\* its way (delete_external_auth_session).
THEOREM SignedOutStayOut == AccessSpec => []LogoutEndsSessions
<1>1. AccessInv => LogoutEndsSessions
  BY DEF AccessInv
<1> QED BY <1>1, AccessSafe, PTL

\* The administration itself never disables its last administrator.
THEOREM AdministratorRemains == AccessSpec => []AdminRemains
<1>1. AccessInv => AdminRemains
  BY DEF AccessInv
<1> QED BY <1>1, AccessSafe, PTL

------------------------------------------------------------------------------
(* The session table *)

\* The row the rest of the platform sees for a cookie.
Seen(t) == IF Live(t) THEN [kind |-> "row", user |-> sessions[t].user,
                            provider |-> sessions[t].provider, lapsed |-> sessions[t].expired]
           ELSE sessions[t]

\* What is seen of a cookie has a row exactly when the cookie has one.
LEMMA SeenFacts ==
  ASSUME AccessTypeOK, NEW t \in Cookies
  PROVE  /\ Seen(t) \in Table!SessionRow \cup {Table!NoSession, Table!Fresh}
         /\ Live(t) <=> sessions[t] \in Session
         /\ Live(t) <=> Seen(t).kind = "row"
<1>1. Live(t) <=> sessions[t] \in Session
  BY KindFacts DEF AccessTypeOK, Live
<1>2. Seen(t) \in Table!SessionRow \cup {Table!NoSession, Table!Fresh}
  BY <1>1 DEF Seen, Session, Table!SessionRow, Table!NoSession, Table!Fresh, AccessTypeOK,
     NoSession, Fresh
<1>3. Live(t) <=> Seen(t).kind = "row"
  BY <1>1, KindFacts DEF Seen, AccessTypeOK
<1> QED BY <1>1, <1>2, <1>3

\* A row with another mark of its lapse.
LEMMA LapsedRow ==
  ASSUME NEW r \in Table!SessionRow, NEW q \in Table!SessionRow,
         q.user = r.user, q.provider = r.provider, q.lapsed = TRUE
  PROVE  q = [r EXCEPT !.lapsed = TRUE]
BY DEF Table!SessionRow

\* Every step of the rows is one the table allows.
LEMMA TableStepHolds ==
  ASSUME AccessInv, AccessInv', RowsStep
  PROVE  Table!TableStep
<1> USE DEF AccessInv
<1>1. \A t \in Cookies : Seen(t)' \in Table!SessionRow \cup {Table!NoSession, Table!Fresh}
  <2> SUFFICES ASSUME NEW t \in Cookies
               PROVE Seen(t)' \in Table!SessionRow \cup {Table!NoSession, Table!Fresh}
    OBVIOUS
  <2>1. CASE sessions'[t] \in Session
    BY <2>1 DEF Seen, Live, Session, Table!SessionRow
  <2>2. CASE sessions'[t] \in {NoSession, Fresh}
    BY <2>2 DEF Seen, Live, NoSession, Fresh, Table!NoSession, Table!Fresh
  <2> QED BY <2>1, <2>2 DEF AccessTypeOK
<1>2. ASSUME NEW t \in Cookies
      PROVE  \/ Seen(t)' = Seen(t)
             \/ Seen(t).kind = "row" /\ Seen(t)' = Table!NoSession
             \/ Seen(t).kind = "row" /\ Seen(t)' = [Seen(t) EXCEPT !.lapsed = TRUE]
             \/ /\ Seen(t) = Table!Fresh
                /\ \E u \in {v \in Users : accounts[v].status = "active"}, p \in Providers :
                     Seen(t)' = Table!Row(u, p)
  <2>1. CASE Same(t)
    BY <2>1 DEF Same, Seen, Live
  <2>2. CASE Gone(t)
    BY <2>2, SeenFacts DEF Gone, Seen, Live, NoSession, Table!NoSession
  <2>3. CASE Lapsed(t)
    <3>1. sessions[t] \in Session
      BY <2>3, SeenFacts DEF Lapsed
    <3>2. /\ sessions'[t].kind = sessions[t].kind /\ sessions'[t].user = sessions[t].user
          /\ sessions'[t].provider = sessions[t].provider /\ sessions'[t].expired = TRUE
      BY <2>3, <3>1 DEF Lapsed, Session
    <3>3. Live(t) /\ Live(t)'
      BY <2>3, <3>2 DEF Lapsed, Live
    <3>4. /\ Seen(t) = [kind |-> "row", user |-> sessions[t].user,
                        provider |-> sessions[t].provider, lapsed |-> sessions[t].expired]
          /\ Seen(t)' = [kind |-> "row", user |-> sessions[t].user,
                         provider |-> sessions[t].provider, lapsed |-> TRUE]
      BY <3>2, <3>3 DEF Seen
    <3>5. [Seen(t) EXCEPT !.lapsed = TRUE] = Seen(t)'
      <4>1. Seen(t) \in Table!SessionRow /\ Seen(t)' \in Table!SessionRow
        BY <3>1, <3>4 DEF Session, Table!SessionRow
      <4>2. /\ Seen(t)'.user = Seen(t).user /\ Seen(t)'.provider = Seen(t).provider
            /\ Seen(t)'.lapsed = TRUE
        BY <3>4
      <4> QED BY <4>1, <4>2, LapsedRow
    <3>6. Seen(t).kind = "row"
      BY <3>4
    <3> QED BY <3>5, <3>6
  <2>4. ASSUME NEW u \in Users, NEW x \in Tickets \cup {"none"}, Made(t, u, x),
               accounts[u].status = "active"
        PROVE  /\ Seen(t) = Table!Fresh
               /\ \E v \in {v \in Users : accounts[v].status = "active"}, p \in Providers :
                    Seen(t)' = Table!Row(v, p)
    <3>1. Seen(t) = Table!Fresh
      BY <2>4 DEF Made, Seen, Live, Fresh, Table!Fresh
    <3>2. Seen(t)' = Table!Row(u, sessions'[t].provider) /\ sessions'[t].provider \in Providers
      BY <2>4 DEF Made, Seen, Live, Session, Table!Row
    <3> QED BY <2>4, <3>1, <3>2
  <2> QED BY <2>1, <2>2, <2>3, <2>4 DEF RowsStep
<1> QED BY <1>1, <1>2
        DEF Table!TableStep, Table!Ends, Table!Lapses, Table!Begins, Table!Present, Seen

\* The session rows, as the Hermes bridge and the front ends read them, do what
\* SessionTable promises: the detailed accounts implement the abstract table.
THEOREM AccessKeepsTable == AccessSpec => KeepsTable
<1>1. AccessInit => Table!TableInit
  BY DEF AccessInit, Table!TableInit, Table!Fresh, Live, Fresh
<1>2. AccessInv /\ AccessInv' /\ [AccessNext]_accessVars => Table!TableStep
  BY NextInv, TableStepHolds
<1> QED BY <1>1, <1>2, AccessSafe, PTL DEF AccessSpec, KeepsTable, Table!TableSpec

=============================================================================
