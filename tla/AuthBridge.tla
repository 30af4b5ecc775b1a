----------------------------- MODULE AuthBridge -----------------------------
(***************************************************************************)
(* The Hermes authentication bridge: members of instances, the client an   *)
(* instance is registered with, the credentials in its .env, one-time      *)
(* codes and the tokens they are redeemed for.  Hermes instances are made, *)
(* deleted, restored and purged by the executor, whose calls to Control    *)
(* may fail or lose their answer and which may die; the migration script   *)
(* runs beside it.  Of the sessions only what SessionTable promises is     *)
(* used.                                                                   *)
(***************************************************************************)
EXTENDS SessionTable, Naturals

CONSTANTS
    Admins,         \* users with the role admin
    Instances,      \* Hermes instances
    Owner,          \* instance -> user
    Codes,          \* authorization codes
    MaxClients,     \* bound: client ids drawn
    MaxFaults       \* bound: lost calls, crashes and jobs given up

ASSUME BridgeAssumption ==
    /\ Admins \subseteq Users /\ Owner \in [Instances -> Users]
    /\ MaxClients \in Nat /\ MaxFaults \in Nat
    /\ "campus-uis" \in Providers

VARIABLES
    members,    \* instance -> user -> role in instance_members, or "none"
    inst,       \* instance -> status of its row
    clients,    \* instance -> id of its row of hermes_auth_clients, or 0
    env,        \* instance -> client id its .env holds, or 0
    data,       \* instance -> where its data are
    nextId,     \* the client ids drawn so far
    work,       \* the executor's job
    script,     \* migrate_hermes_uis_auth.py
    grants,     \* code -> its row of hermes_auth_grants
    tokens,     \* code -> the token it was redeemed for
    doubt,      \* history: instances a fault or the script came between
    faults      \* faults so far

sessionVars == <<rows, standing>>
instanceVars == <<inst, clients, env, data, nextId>>
bridgeVars == <<sessionVars, members, instanceVars, work, script, grants, tokens,
                doubt, faults>>

Ids == 0 .. MaxClients
Idle == [job |-> "none"]
Gone == [kind |-> "gone"]
NoToken == [kind |-> "none", issued |-> 0]
Roles == {"manager", "operator"}      \* "viewer" is treated like "operator"
Stages == {"files", "register", "run", "undo", "revoke", "rollback", "done", "failed"}
Work == [job: {"create", "delete", "restore", "purge"}, inst: Instances,
         at: Stages, then: Stages, owns: BOOLEAN, lapsed: BOOLEAN]
Script == [job: {"migrate"}, inst: Instances, at: {"write", "register", "restart", "rollback"},
           old: Ids, new: Ids, made: BOOLEAN, draws: BOOLEAN]
Grant == [kind: {"grant"}, inst: Instances, user: Users, cookie: Cookies, used: BOOLEAN]
Token == [kind: {"token"}, inst: Instances, client: Ids,
          issued: {1},          \* history: tokens the code was redeemed for
          restored: BOOLEAN]    \* history: its instance was restored since

BridgeTypeOK ==
    /\ rows \in [Cookies -> SessionRow \cup {NoSession, Fresh}]
    /\ standing \subseteq Users
    /\ members \in [Instances -> [Users -> Roles \cup {"none"}]]
    /\ inst \in [Instances -> {"none", "provisioning", "active", "stopped",
                               "deleted", "failed", "gone"}]
    /\ clients \in [Instances -> Ids] /\ env \in [Instances -> Ids]
    /\ data \in [Instances -> {"none", "home", "recycled"}]
    /\ nextId \in Ids
    /\ work \in Work \cup {Idle} /\ script \in Script \cup {Idle}
    /\ grants \in [Codes -> Grant \cup {Fresh, Gone}]
    /\ tokens \in [Codes -> Token \cup {NoToken}]
    /\ doubt \subseteq Instances /\ faults \in 0 .. MaxFaults

Busy(w, i) == w # Idle /\ w.inst = i
AtRest(i) == ~Busy(work, i) /\ ~Busy(script, i)
Granted(c) == grants[c].kind = "grant"
\* The foreign keys of hermes_auth_grants delete with the session, the client
\* and the instance.
Without(C) == [c \in Codes |-> IF c \in C THEN Gone ELSE grants[c]]
MutNoCascade(T) == {}
Through(T) == {c \in Codes : Granted(c) /\ grants[c].cookie \in T}
Towards(i) == {c \in Codes : Granted(c) /\ grants[c].inst = i}

----------------------------------------------------------------------------
(* Sessions, as SessionTable promises them. *)
SignOn(t) ==
    /\ rows[t] = Fresh
    /\ \E u \in standing, p \in Providers : rows' = [rows EXCEPT ![t] = Row(u, p)]
    /\ UNCHANGED <<standing, members, instanceVars, work, script, grants, tokens,
                   doubt, faults>>

SessionLapses(t) ==
    /\ Present(t) /\ ~rows[t].lapsed
    /\ rows' = [rows EXCEPT ![t].lapsed = TRUE]
    /\ UNCHANGED <<standing, members, instanceVars, work, script, grants, tokens,
                   doubt, faults>>

\* A logout, a change of provider, a changed status: the sessions T end and
\* the accounts S are the active ones from now on.
Administer(S, T) ==
    /\ T \subseteq {t \in Cookies : Present(t)}
    /\ S # standing \/ T # {}
    /\ standing' = S
    /\ rows' = [t \in Cookies |-> IF t \in T THEN NoSession ELSE rows[t]]
    /\ grants' = Without(Through(T))
    /\ UNCHANGED <<members, instanceVars, work, script, tokens,
                   doubt, faults>>

----------------------------------------------------------------------------
(* Members and codes. *)
Exists(i) == inst[i] \notin {"none", "gone"}
\* manageable_instance: the role of the active user a on i.
RoleOn(a, i) == IF Owner[i] = a THEN "owner" ELSE members[i][a]
Manages(a, i) == Exists(i) /\ a \in standing /\ RoleOn(a, i) \in {"owner", "manager"}
ManagerOver(a, i, R) == RoleOn(a, i) = "owner" \/ "manager" \notin R

SetMember(a, i, u, r) ==
    /\ Manages(a, i) /\ ManagerOver(a, i, {r, members[i][u]})
    /\ u \in standing /\ u # Owner[i]
    /\ members' = [members EXCEPT ![i][u] = r]
    /\ UNCHANGED <<sessionVars, instanceVars, work, script, grants, tokens,
                   doubt, faults>>

RemoveMember(a, i, u) ==
    /\ Manages(a, i) /\ ManagerOver(a, i, {members[i][u]})
    /\ members[i][u] # "none"
    /\ members' = [members EXCEPT ![i][u] = "none"]
    /\ UNCHANGED <<sessionVars, instanceVars, work, script, grants, tokens,
                   doubt, faults>>

\* instance_for_entry.
Entry(u, i) == Exists(i) /\ (u \in Admins \/ (u \in standing /\ RoleOn(u, i) # "none"))

\* The plugin's login, started with the client id of its .env; a browser
\* without a session is sent to log in first.
StartsLogin(i) == env[i] # 0
SignedIn(t) == Present(t) /\ ~rows[t].lapsed

\* issue_grant.
MayGrant(t, i) ==
    /\ clients[i] = env[i] /\ inst[i] = "active"
    /\ rows[t].provider = "campus-uis"
    /\ rows[t].user \in standing /\ Entry(rows[t].user, i)

\* hermes_authorize and authorize_hermes_bridge.
Authorize(t, i, c) ==
    /\ grants[c] = Fresh
    /\ StartsLogin(i) /\ SignedIn(t) /\ MayGrant(t, i)
    /\ grants' = [grants EXCEPT ![c] = [kind |-> "grant", inst |-> i,
                     user |-> rows[t].user, cookie |-> t, used |-> FALSE]]
    /\ UNCHANGED <<sessionVars, members, instanceVars, work, script, tokens,
                   doubt, faults>>

\* complete_login: the plugin brings the code with the client of its .env.
\* The browser may bring it again, whether the answer was lost or not.
Presents(i, c) == env[i] # 0 /\ Granted(c) /\ grants[c].inst = i

\* redeem.
Redeemable(i, c) ==
    /\ ~grants[c].used
    /\ clients[i] = env[i] /\ inst[i] = "active"
    /\ grants[c].user \in standing

\* hermes_token and redeem_hermes_bridge.
Redeem(i, c) ==
    /\ Presents(i, c) /\ Redeemable(i, c)
    /\ grants' = [grants EXCEPT ![c].used = TRUE]
    /\ tokens' = [tokens EXCEPT ![c] = [kind |-> "token", inst |-> i,
                                        client |-> clients[i],
                     issued |-> tokens[c].issued + 1, restored |-> FALSE]]
    /\ UNCHANGED <<sessionVars, members, instanceVars, work, script, doubt, faults>>

\* The plugin's _session: it takes a token for the client of its own .env.
Accepted(i, c) == tokens[c] # NoToken /\ tokens[c].inst = i /\ env[i] = tokens[c].client

\* expires_at has passed: the row is never used again.
CodeExpires(c) ==
    /\ Granted(c)
    /\ grants' = Without({c})
    /\ UNCHANGED <<sessionVars, members, instanceVars, work, script, tokens,
                   doubt, faults>>

----------------------------------------------------------------------------
(* The executor. *)
On(i, j, s) == Busy(work, i) /\ work.job \in j /\ work.at = s
Goto(s) == work' = [work EXCEPT !.at = s]
Makes == {"create", "restore"}
Fault(i) == faults < MaxFaults /\ faults' = faults + 1 /\ doubt' = doubt \cup {i}
NoFault == UNCHANGED <<doubt, faults>>

MayBegin(i) == [create |-> inst[i] = "none",
                delete |-> inst[i] \in {"active", "stopped"},
                restore |-> inst[i] = "deleted",
                purge |-> inst[i] \in {"deleted", "failed"}]
\* The job is claimed; a running job Control still waits for blocks the queue.
Begin(i, j) ==
    /\ work = Idle /\ MayBegin(i)[j]
    /\ \A k \in Instances : inst[k] # "provisioning"
    /\ inst' = [inst EXCEPT ![i] = IF j = "create" THEN "provisioning" ELSE @]
    /\ work' = [job |-> j, inst |-> i, at |-> "files", then |-> "done",
                owns |-> FALSE, lapsed |-> FALSE]
    /\ doubt' = IF Busy(script, i) THEN doubt \cup {i} ELSE doubt
    /\ UNCHANGED <<sessionVars, members, clients, env, data, nextId, script, grants,
                   tokens, faults>>

\* HermesAdapter.create and restore put the data in place and write a newly
\* drawn client into .env; a restore only if there was one.
MutDrawsOnce(i) == work.job = "create"
Draws(i) == work.job = "create" \/ env[i] # 0
MutKeepsId(i) == IF env[i] # 0 THEN env[i] ELSE nextId + 1
DrawnId(i) == nextId + 1
WriteFiles(i) ==
    /\ On(i, Makes, "files")
    /\ data[i] = IF work.job = "create" THEN "none" ELSE "recycled"
    /\ Draws(i) => nextId < MaxClients
    /\ data' = [data EXCEPT ![i] = "home"]
    /\ IF Draws(i)
       THEN /\ nextId' = nextId + 1
            /\ env' = [env EXCEPT ![i] = DrawnId(i)]
            /\ Goto("register")
       ELSE Goto("run") /\ UNCHANGED <<nextId, env>>
    /\ NoFault
    /\ UNCHANGED <<sessionVars, members, inst, clients, script, grants, tokens>>

\* Any refusal before the client is registered, or a purge without data.
FilesFail(i) ==
    /\ On(i, Makes \cup {"delete", "purge"}, "files")
    /\ Goto("failed")
    /\ NoFault
    /\ UNCHANGED <<sessionVars, members, instanceVars, script, grants, tokens>>

\* create_hermes_bridge_client: one client per instance, of a living status.
Registrable(i) ==
    /\ inst[i] \in {"provisioning", "active", "stopped", "deleted"}
    /\ clients[i] = 0
Register(i) ==
    /\ On(i, Makes, "register")
    /\ IF Registrable(i)
       THEN /\ clients' = [clients EXCEPT ![i] = env[i]]
            /\ work' = [work EXCEPT !.at = "run", !.owns = TRUE]
       ELSE Goto("undo") /\ UNCHANGED clients
    /\ NoFault
    /\ UNCHANGED <<sessionVars, members, inst, env, data, nextId, script, grants,
                   tokens>>

\* The call or its answer is lost: the adapter undoes everything it did, and
\* nobody knows whether there is a client.
RegisterLost(i) ==
    /\ On(i, Makes, "register")
    /\ \/ UNCHANGED clients
       \/ Registrable(i) /\ clients' = [clients EXCEPT ![i] = env[i]]
    /\ Goto("undo") /\ Fault(i)
    /\ UNCHANGED <<sessionVars, members, inst, env, data, nextId, script, grants,
                   tokens>>

\* The container is started and becomes ready, or does not.
Run(i) ==
    /\ On(i, Makes, "run")
    /\ Goto("done") \/ Goto("undo")
    /\ NoFault
    /\ UNCHANGED <<sessionVars, members, instanceVars, script, grants, tokens>>

\* The adapter's own roll-back; a restore's may leave the data in place.
Undo(i) ==
    /\ On(i, Makes, "undo")
    /\ IF work.job = "create"
       THEN /\ data' = [data EXCEPT ![i] = "none"]
            /\ env' = [env EXCEPT ![i] = 0]
       ELSE /\ \E d \in {"recycled", "home"} : data' = [data EXCEPT ![i] = d]
            /\ UNCHANGED env
    /\ work' = [work EXCEPT !.at = IF work.owns THEN "revoke" ELSE "failed",
                            !.then = "failed"]
    /\ NoFault
    /\ UNCHANGED <<sessionVars, members, inst, clients, nextId, script, grants, tokens>>

\* HermesAdapter.delete, or purge_deleted and cleanup_failed.
Move(i) ==
    /\ \/ /\ On(i, {"delete"}, "files") /\ data[i] = "home"
          /\ data' = [data EXCEPT ![i] = "recycled"]
          /\ work' = [work EXCEPT !.at = "revoke", !.then = "done"]
       \/ /\ On(i, {"purge"}, "files")
          /\ \/ inst[i] = "deleted" /\ data[i] = "recycled"
                /\ data' = [data EXCEPT ![i] = "none"]
             \/ inst[i] = "failed" /\ UNCHANGED data
          /\ Goto("done")
    /\ NoFault
    /\ UNCHANGED <<sessionVars, members, inst, clients, env, nextId, script, grants,
                   tokens>>

\* delete_hermes_bridge_client.
Revoke(i) ==
    /\ On(i, Makes \cup {"delete"}, "revoke")
    /\ clients' = [clients EXCEPT ![i] = 0]
    /\ grants' = Without(Towards(i))
    /\ work' = [work EXCEPT !.at = work.then, !.owns = FALSE]
    /\ NoFault
    /\ UNCHANGED <<sessionVars, members, inst, env, data, nextId, script, tokens>>

\* A failing revocation ends the job as failed, whatever was still to do.
RevokeLost(i) ==
    /\ On(i, Makes \cup {"delete"}, "revoke")
    /\ \/ UNCHANGED <<clients, grants>>
       \/ /\ clients' = [clients EXCEPT ![i] = 0]
          /\ grants' = Without(Towards(i))
    /\ Goto("failed") /\ Fault(i)
    /\ UNCHANGED <<sessionVars, members, inst, env, data, nextId, script, tokens>>

\* rollback_created_instance after a success that could not be reported.
RollBack(i) ==
    /\ On(i, {"create"}, "rollback")
    /\ \E d \in {"recycled", "home"} : data' = [data EXCEPT ![i] = d]
    /\ Goto("failed") /\ NoFault
    /\ UNCHANGED <<sessionVars, members, inst, clients, env, nextId, script, grants,
                   tokens>>

\* What Control does with the report of a success.
Commit(i) ==
    /\ ~work.lapsed
    /\ inst' = [inst EXCEPT ![i] = [create |-> "active", restore |-> "active",
                                    delete |-> "deleted", purge |-> "gone"][work.job]]
    /\ tokens' = IF work.job = "restore"
                 THEN [c \in Codes |-> IF tokens[c] # NoToken /\ tokens[c].inst = i
                          THEN [tokens[c] EXCEPT !.restored = TRUE] ELSE tokens[c]]
                 ELSE tokens
    /\ IF work.job = "purge"
       THEN /\ clients' = [clients EXCEPT ![i] = 0]
            /\ grants' = Without(Towards(i))
            /\ members' = [members EXCEPT ![i] = [u \in Users |-> "none"]]
       ELSE UNCHANGED <<clients, grants, members>>

Committed(i) ==
    /\ On(i, Makes \cup {"delete", "purge"}, "done")
    /\ Commit(i)
    /\ work' = Idle /\ NoFault
    /\ UNCHANGED <<sessionVars, env, data, nextId, script>>

\* Refused, or lost before or after it was carried out: a creation is taken
\* down again, every other job is reported as failed.
Unreported(i) ==
    /\ On(i, Makes \cup {"delete", "purge"}, "done")
    /\ \/ work.lapsed /\ NoFault /\ UNCHANGED <<inst, tokens, clients, grants, members>>
       \/ Fault(i) /\ UNCHANGED <<inst, tokens, clients, grants, members>>
       \/ Fault(i) /\ Commit(i)
    /\ work' = [work EXCEPT
         !.lapsed = @ \/ inst' # inst,
         !.at = IF work.job # "create" THEN "failed"
                ELSE IF work.owns THEN "revoke" ELSE "rollback",
         !.then = "rollback"]
    /\ UNCHANGED <<sessionVars, env, data, nextId, script>>

ReportFailed(i) ==
    /\ On(i, Makes \cup {"delete", "purge"}, "failed")
    /\ \/ NoFault /\ inst' = [inst EXCEPT ![i] =
                      IF work.job = "create" /\ ~work.lapsed THEN "failed" ELSE @]
       \/ Fault(i) /\ UNCHANGED inst
    /\ work' = Idle
    /\ UNCHANGED <<sessionVars, members, clients, env, data, nextId, script, grants,
                   tokens>>

\* claim_next_execution_job finds a stale job: the executor died, is slow, or
\* its last report was lost.
GiveUp(i) ==
    /\ IF Busy(work, i)
       THEN ~work.lapsed /\ Fault(i) /\ work' = [work EXCEPT !.lapsed = TRUE]
       ELSE inst[i] = "provisioning" /\ NoFault /\ UNCHANGED work
    /\ inst' = [inst EXCEPT ![i] = IF @ = "provisioning" THEN "failed" ELSE @]
    /\ UNCHANGED <<sessionVars, members, clients, env, data, nextId, script, grants,
                   tokens>>

ExecutorDies ==
    /\ work # Idle /\ Fault(work.inst)
    /\ work' = Idle
    /\ UNCHANGED <<sessionVars, members, instanceVars, script, grants, tokens>>

\* start and stop of an instance, by jobs in between.
StartOrStop(i) ==
    /\ work = Idle /\ inst[i] \in {"active", "stopped"}
    /\ inst' = [inst EXCEPT ![i] = IF @ = "active" THEN "stopped" ELSE "active"]
    /\ UNCHANGED <<sessionVars, members, clients, env, data, nextId, work, script,
                   grants, tokens,
                   doubt, faults>>

----------------------------------------------------------------------------
(* migrate_hermes_uis_auth.py --apply, on the host and beside the executor. *)
Step(s) == script' = [script EXCEPT !.at = s]
Migrating(i, s) == Busy(script, i) /\ script.at = s

\* A registered client must be the one of the .env; otherwise one is drawn.
MigrateBegin(i) ==
    LET draws == clients[i] = 0
    IN  /\ script = Idle
        /\ inst[i] \in {"active", "stopped"} /\ data[i] = "home"
        /\ draws \/ clients[i] = env[i]
        /\ draws => nextId < MaxClients
        /\ nextId' = IF draws THEN nextId + 1 ELSE nextId
        /\ script' = [job |-> "migrate", inst |-> i, at |-> "write", old |-> env[i],
                      new |-> IF draws THEN nextId + 1 ELSE env[i],
                      made |-> FALSE, draws |-> draws]
        /\ doubt' = IF Busy(work, i) THEN doubt \cup {i} ELSE doubt
        /\ UNCHANGED <<sessionVars, members, inst, clients, env, data, work, grants,
                       tokens, faults>>

\* .env is written and the plugin enabled in the container.  Once the data
\* were moved away there is no container either: the script writes into a
\* directory of its own making and gives up, and a roll-back stops at once.
MigrateWrite(i) ==
    /\ Migrating(i, "write")
    /\ IF data[i] = "home"
       THEN /\ env' = [env EXCEPT ![i] = script.new]
            /\ Step("register") \/ Step("rollback")
       ELSE script' = Idle /\ UNCHANGED env
    /\ UNCHANGED <<sessionVars, members, inst, clients, data, nextId, work, grants,
                   tokens,
                   doubt, faults>>

MigrateRegister(i) ==
    /\ Migrating(i, "register")
    /\ IF ~script.draws THEN Step("restart") /\ UNCHANGED clients
       ELSE IF Registrable(i)
       THEN /\ clients' = [clients EXCEPT ![i] = script.new]
            /\ script' = [script EXCEPT !.at = "restart", !.made = TRUE]
       ELSE Step("rollback") /\ UNCHANGED clients
    /\ UNCHANGED <<sessionVars, members, inst, env, data, nextId, work, grants,
                   tokens,
                   doubt, faults>>

MigrateRestart(i) ==
    /\ Migrating(i, "restart")
    /\ script' = Idle \/ Step("rollback")
    /\ UNCHANGED <<sessionVars, members, instanceVars, work, grants, tokens,
                   doubt, faults>>

MigrateRollback(i) ==
    /\ Migrating(i, "rollback")
    /\ IF data[i] = "home"
       THEN /\ env' = [env EXCEPT ![i] = script.old]
            /\ clients' = [clients EXCEPT ![i] = IF script.made THEN 0 ELSE @]
            /\ grants' = IF script.made THEN Without(Towards(i)) ELSE grants
       ELSE UNCHANGED <<env, clients, grants>>
    /\ script' = Idle
    /\ UNCHANGED <<sessionVars, members, inst, data, nextId, work, tokens,
                   doubt, faults>>

----------------------------------------------------------------------------
\* Instances are still to be made, or were made before the bridge was there.
BridgeInit ==
    /\ rows = [t \in Cookies |-> Fresh] /\ standing = Users
    /\ members = [i \in Instances |-> [u \in Users |-> "none"]]
    /\ inst \in [Instances -> {"none", "active"}]
    /\ clients = [i \in Instances |-> 0] /\ env = [i \in Instances |-> 0]
    /\ data = [i \in Instances |-> IF inst[i] = "active" THEN "home" ELSE "none"]
    /\ nextId = 0
    /\ work = Idle /\ script = Idle
    /\ grants = [c \in Codes |-> Fresh]
    /\ tokens = [c \in Codes |-> NoToken]
    /\ doubt = {} /\ faults = 0

Sessions ==
    \/ \E t \in Cookies : SignOn(t) \/ SessionLapses(t)
    \/ \E S \in SUBSET Users, T \in SUBSET Cookies : Administer(S, T)
Bridge(i) ==
    \/ \E a, u \in Users, r \in Roles : SetMember(a, i, u, r)
    \/ \E a, u \in Users : RemoveMember(a, i, u)
    \/ \E t \in Cookies, c \in Codes : Authorize(t, i, c)
    \/ \E c \in Codes : Redeem(i, c)
Executor(i) ==
    \/ \E j \in {"create", "delete", "restore", "purge"} : Begin(i, j)
    \/ WriteFiles(i) \/ FilesFail(i) \/ Register(i) \/ RegisterLost(i) \/ Run(i)
    \/ Undo(i) \/ Move(i) \/ Revoke(i) \/ RevokeLost(i) \/ RollBack(i)
    \/ Committed(i) \/ Unreported(i) \/ ReportFailed(i) \/ GiveUp(i) \/ StartOrStop(i)
Migration(i) ==
    \/ MigrateBegin(i) \/ MigrateWrite(i) \/ MigrateRegister(i)
    \/ MigrateRestart(i) \/ MigrateRollback(i)
BridgeNext ==
    \/ Sessions
    \/ ExecutorDies
    \/ \E c \in Codes : CodeExpires(c)
    \/ \E i \in Instances : Bridge(i) \/ Executor(i) \/ Migration(i)

BridgeSpec == BridgeInit /\ [][BridgeNext]_bridgeVars

----------------------------------------------------------------------------
(* Properties. *)

\* Whatever is retried, cut off or rolled back: an instance that rests is
\* registered with the client its own .env holds, and one that is not in use
\* has no client, unless a fault or the script came between (create, restore,
\* delete of HermesAdapter with run_once and delete_hermes_bridge_client).
CredentialMatches ==
    \A i \in Instances : AtRest(i) /\ i \notin doubt =>
        /\ inst[i] \in {"active", "stopped"} => clients[i] = env[i] /\ data[i] = "home"
        /\ inst[i] \in {"deleted", "failed"} => clients[i] = 0

\* A token is issued once per code, and only while the session it was asked
\* with, the user, the instance and its client are all still there: every
\* logout, deletion and revocation in between takes the code with it.
TokensBacked ==
    [][\A c \in Codes : tokens'[c].issued # tokens[c].issued =>
         /\ tokens'[c].issued = 1
         /\ Present(grants[c].cookie) /\ rows[grants[c].cookie].user = grants[c].user
         /\ grants[c].user \in standing
         /\ inst[tokens'[c].inst] = "active"
         /\ clients[tokens'[c].inst] = tokens'[c].client]_bridgeVars

\* A restored instance refuses every token of its life before the deletion:
\* the audience of the token is no longer the client of its .env.
RestoredForgetsTokens ==
    \A i \in Instances, c \in Codes :
        Accepted(i, c) /\ inst[i] = "active" /\ AtRest(i) /\ i \notin doubt
            => ~tokens[c].restored

=============================================================================
