---------------------------- MODULE SessionTable ----------------------------
(***************************************************************************)
(* What the account part of manager-control promises about user_sessions   *)
(* to those who only read it: a cookie gets one row, for an account that   *)
(* is active at that moment, the row may lapse, and once gone it never     *)
(* comes back.  Access is shown to implement this; AuthBridge relies on    *)
(* nothing else.                                                           *)
(***************************************************************************)
CONSTANTS Users, Cookies, Providers

VARIABLES
    rows,       \* cookie -> its row of user_sessions
    standing    \* users whose account is active

NoSession == [kind |-> "none"]
Fresh == [kind |-> "fresh"]
SessionRow == [kind: {"row"}, user: Users, provider: Providers, lapsed: BOOLEAN]
Row(u, p) == [kind |-> "row", user |-> u, provider |-> p, lapsed |-> FALSE]
Present(t) == rows[t].kind = "row"

TableInit ==
    /\ rows = [t \in Cookies |-> Fresh]
    /\ standing \subseteq Users

Ends(t) == Present(t) /\ rows'[t] = NoSession
Lapses(t) == Present(t) /\ rows'[t] = [rows[t] EXCEPT !.lapsed = TRUE]
Begins(t) ==
    /\ rows[t] = Fresh
    /\ \E u \in standing, p \in Providers : rows'[t] = Row(u, p)

\* Any account may change its standing in the step that ends its sessions, or
\* without one.
TableStep ==
    /\ standing' \subseteq Users
    /\ rows' \in [Cookies -> SessionRow \cup {NoSession, Fresh}]
    /\ \A t \in Cookies : rows'[t] = rows[t] \/ Ends(t) \/ Lapses(t) \/ Begins(t)

TableSpec == TableInit /\ [][TableStep]_<<rows, standing>>
=============================================================================
