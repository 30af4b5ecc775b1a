-------------------------- MODULE AuthBridge_proofs --------------------------
(***************************************************************************)
(* Proofs about AuthBridge for any users, sessions, instances, owners,     *)
(* codes and bounds.  BridgeInv is inductive: types, ids drawn in order,   *)
(* codes with their sessions, and, for every instance that no fault and no *)
(* script came between, what its job or the script has done so far.        *)
(***************************************************************************)
EXTENDS AuthBridge, Integers, TLAPS

(* Ids are drawn in ascending order, 0 stands for none. *)
TokenOf(c, i) == tokens[c] # NoToken /\ tokens[c].inst = i

IdsDrawn ==
    /\ \A i \in Instances : env[i] <= nextId /\ clients[i] <= nextId
    /\ script # Idle => script.old <= nextId /\ script.new <= nextId
    /\ \A c \in Codes : tokens[c] # NoToken => 0 < tokens[c].client /\ tokens[c].client <= nextId

\* A code is there only with its session, and only an unused one has no token.
CodesBacked ==
    \A c \in Codes :
        /\ Granted(c) => /\ Present(grants[c].cookie)
                         /\ rows[grants[c].cookie].user = grants[c].user
        /\ grants[c] = Fresh \/ (Granted(c) /\ ~grants[c].used) => tokens[c] = NoToken

\* An instance no job and no script works on.
RestSound(i) ==
    /\ inst[i] # "provisioning"
    /\ IF inst[i] \in {"active", "stopped"} THEN clients[i] = env[i] /\ data[i] = "home"
       ELSE clients[i] = 0

\* A creation or restore: owns says whether there is a client to take back.
MakeSound(i) ==
    /\ inst[i] = IF work.job = "create" THEN "provisioning" ELSE "deleted"
    /\ work.at # "rollback"
    /\ work.at = "revoke" => work.then = "failed"
    /\ ~work.owns => clients[i] = 0
    /\ work.at \in {"files", "register", "failed"} => ~work.owns
    /\ work.at \in {"register", "run", "done"} => data[i] = "home"
    /\ work.at \in {"run", "done"} => clients[i] = env[i]
    /\ work.job = "restore" /\ work.at \in {"register", "run", "done"} =>
         \A c \in Codes : TokenOf(c, i) => tokens[c].client # env[i]

DeleteSound(i) ==
    /\ inst[i] \in {"active", "stopped"}
    /\ work.at \in {"files", "revoke", "done", "failed"}
    /\ work.at \in {"files", "failed"} => clients[i] = env[i] /\ data[i] = "home"
    /\ work.at = "revoke" => work.then = "done"
    /\ work.at = "done" => clients[i] = 0

PurgeSound(i) ==
    /\ inst[i] \in {"deleted", "failed"} /\ clients[i] = 0
    /\ work.at \in {"files", "done", "failed"}

WorkSound(i) ==
    /\ ~work.lapsed
    /\ work.job \in Makes => MakeSound(i)
    /\ work.job = "delete" => DeleteSound(i)
    /\ work.job = "purge" => PurgeSound(i)

\* What the script found and what it drew are no client of a former life.
ScriptSound(i) ==
    /\ inst[i] \in {"active", "stopped"} /\ data[i] = "home"
    /\ IF script.draws THEN script.old = 0 ELSE script.new = script.old /\ ~script.made
    /\ script.at \in {"write", "register"} => ~script.made
    /\ clients[i] = IF script.made THEN script.new ELSE script.old
    /\ script.at \in {"register", "restart"} => env[i] = script.new
    /\ script.at = "restart" => clients[i] = env[i]
    /\ \A c \in Codes : TokenOf(c, i) /\ tokens[c].restored =>
         tokens[c].client \notin {script.old, script.new}

\* An instance nothing came between.
Sound(i) ==
    /\ ~(Busy(work, i) /\ Busy(script, i))
    /\ AtRest(i) => RestSound(i)
    /\ Busy(work, i) => WorkSound(i)
    /\ Busy(script, i) => ScriptSound(i)
    /\ \A c \in Codes : TokenOf(c, i) /\ tokens[c].restored => tokens[c].client # env[i]

AllSound == \A i \in Instances : i \notin doubt => Sound(i)

BridgeInv == BridgeTypeOK /\ IdsDrawn /\ CodesBacked /\ AllSound

------------------------------------------------------------------------------
(* Records *)

\* A job that is under way, and what any one step may make of it.
LEMMA WorkOf ==
    ASSUME BridgeTypeOK, NEW i \in Instances, Busy(work, i)
    PROVE  /\ work \in Work /\ work.inst = i
           /\ \A s \in Stages, t \in Stages, o \in BOOLEAN, l \in BOOLEAN :
                [work EXCEPT !.at = s, !.then = t, !.owns = o, !.lapsed = l] \in Work
<1>1. work \in Work /\ work.inst = i
  BY DEF Busy, BridgeTypeOK
<1> QED
  BY <1>1 DEF Work

LEMMA ScriptOf ==
    ASSUME BridgeTypeOK, NEW i \in Instances, Busy(script, i)
    PROVE  script \in Script /\ script.inst = i
BY DEF Busy, BridgeTypeOK

LEMMA InitBridge == BridgeInit => BridgeInv
<1> SUFFICES ASSUME BridgeInit PROVE BridgeInv
  OBVIOUS
<1>1. BridgeTypeOK
  BY BridgeAssumption DEF BridgeInit, BridgeTypeOK, Ids
<1>2. IdsDrawn
  BY DEF BridgeInit, IdsDrawn
<1>3. CodesBacked
  BY DEF BridgeInit, CodesBacked, Granted, Fresh
<1>4. AllSound
  BY DEF BridgeInit, AllSound, Sound, Busy, AtRest, RestSound, TokenOf
<1> QED
  BY <1>1, <1>2, <1>3, <1>4 DEF BridgeInv

------------------------------------------------------------------------------
(* Types *)

LEMMA SessionsTyped ==
    ASSUME BridgeInv, Sessions
    PROVE  BridgeTypeOK'
<1>1. ASSUME NEW t \in Cookies, SignOn(t) PROVE BridgeTypeOK'
  <2>1. PICK u \in standing, p \in Providers : rows' = [rows EXCEPT ![t] = Row(u, p)]
    BY <1>1 DEF SignOn
  <2>2. Row(u, p) \in SessionRow
    BY <2>1 DEF Row, SessionRow, BridgeInv, BridgeTypeOK
  <2> QED
    BY <1>1, <2>1, <2>2 DEF SignOn, BridgeInv, BridgeTypeOK, instanceVars
<1>2. ASSUME NEW t \in Cookies, SessionLapses(t) PROVE BridgeTypeOK'
  <2>1. rows[t] \in SessionRow
    BY <1>2 DEF SessionLapses, Present, BridgeInv, BridgeTypeOK, NoSession, Fresh
  <2>2. [rows[t] EXCEPT !.lapsed = TRUE] \in SessionRow
    BY <2>1 DEF SessionRow
  <2> QED
    BY <1>2, <2>2 DEF SessionLapses, BridgeInv, BridgeTypeOK, instanceVars
<1>3. ASSUME NEW S \in SUBSET Users, NEW T \in SUBSET Cookies, Administer(S, T) PROVE BridgeTypeOK'
  BY <1>3 DEF Administer, Without, BridgeInv, BridgeTypeOK, instanceVars
<1> QED
  BY <1>1, <1>2, <1>3 DEF Sessions

LEMMA MembersTyped ==
    ASSUME BridgeInv, NEW i \in Instances, Bridge(i)
    PROVE  BridgeTypeOK'
<1>1. ASSUME NEW a \in Users, NEW u \in Users, NEW r \in Roles, SetMember(a, i, u, r)
      PROVE  BridgeTypeOK'
  BY <1>1 DEF SetMember, BridgeInv, BridgeTypeOK, instanceVars, sessionVars
<1>2. ASSUME NEW a \in Users, NEW u \in Users, RemoveMember(a, i, u)
      PROVE  BridgeTypeOK'
  BY <1>2 DEF RemoveMember, BridgeInv, BridgeTypeOK, instanceVars, sessionVars
<1>3. ASSUME NEW t \in Cookies, NEW c \in Codes, Authorize(t, i, c)
      PROVE  BridgeTypeOK'
  <2>1. rows[t].user \in Users
    BY <1>3 DEF Authorize, SignedIn, Present, BridgeInv, BridgeTypeOK, NoSession, Fresh, SessionRow
  <2>2. [kind |-> "grant", inst |-> i, user |-> rows[t].user, cookie |-> t, used |-> FALSE] \in Grant
    BY <2>1 DEF Grant
  <2> QED
    BY <1>3, <2>2 DEF Authorize, BridgeInv, BridgeTypeOK, instanceVars, sessionVars
<1>4. ASSUME NEW c \in Codes, Redeem(i, c)
      PROVE  BridgeTypeOK'
  <2>1. grants[c] \in Grant /\ ~grants[c].used
    BY <1>4 DEF Redeem, Presents, Redeemable, Granted, BridgeInv, BridgeTypeOK, Fresh, Gone
  <2>2. tokens[c].issued = 0
    BY <2>1, <1>4 DEF BridgeInv, CodesBacked, Redeem, Presents, NoToken
  <2>3. [grants[c] EXCEPT !.used = TRUE] \in Grant
    BY <2>1 DEF Grant
  <2>4. [kind |-> "token", inst |-> i, client |-> clients[i],
         issued |-> tokens[c].issued + 1, restored |-> FALSE] \in Token
    BY <2>2 DEF Token, BridgeInv, BridgeTypeOK
  <2> QED
    BY <1>4, <2>3, <2>4 DEF Redeem, BridgeInv, BridgeTypeOK, instanceVars, sessionVars
<1> QED
  BY <1>1, <1>2, <1>3, <1>4 DEF Bridge

\* What the report of a success writes is well typed.
LEMMA CommitTyped ==
    ASSUME BridgeTypeOK, NEW i \in Instances, Busy(work, i), Commit(i)
    PROVE  /\ inst' \in [Instances -> {"none", "provisioning", "active", "stopped",
                                       "deleted", "failed", "gone"}]
           /\ clients' \in [Instances -> Ids]
           /\ grants' \in [Codes -> Grant \cup {Fresh, Gone}]
           /\ tokens' \in [Codes -> Token \cup {NoToken}]
           /\ members' \in [Instances -> [Users -> Roles \cup {"none"}]]
<1>1. work.job \in {"create", "delete", "restore", "purge"}
  BY WorkOf DEF Work
<1>2. inst' \in [Instances -> {"none", "provisioning", "active", "stopped",
                               "deleted", "failed", "gone"}]
  <2>1. [create |-> "active", restore |-> "active", delete |-> "deleted",
         purge |-> "gone"][work.job] \in {"active", "deleted", "gone"}
    BY <1>1
  <2> QED
    BY <2>1 DEF Commit, BridgeTypeOK
<1>3. tokens' \in [Codes -> Token \cup {NoToken}]
  <2>1. \A c \in Codes : tokens[c] # NoToken => [tokens[c] EXCEPT !.restored = TRUE] \in Token
    BY DEF BridgeTypeOK, Token
  <2> QED
    BY <2>1 DEF Commit, BridgeTypeOK
<1>4. clients' \in [Instances -> Ids]
  BY BridgeAssumption DEF Commit, BridgeTypeOK, Ids
<1>5. grants' \in [Codes -> Grant \cup {Fresh, Gone}]
  BY DEF Commit, Without, BridgeTypeOK
<1>6. members' \in [Instances -> [Users -> Roles \cup {"none"}]]
  BY DEF Commit, BridgeTypeOK
<1> QED
  BY <1>2, <1>3, <1>4, <1>5, <1>6

LEMMA ExecutorTyped ==
    ASSUME BridgeInv, NEW i \in Instances, Executor(i)
    PROVE  BridgeTypeOK'
<1> USE DEF BridgeInv
<1> DEFINE Effect == /\ inst' \in [Instances -> {"none", "provisioning", "active", "stopped",
                                                 "deleted", "failed", "gone"}]
                     /\ clients' \in [Instances -> Ids] /\ env' \in [Instances -> Ids]
                     /\ data' \in [Instances -> {"none", "home", "recycled"}]
                     /\ nextId' \in Ids
                     /\ grants' \in [Codes -> Grant \cup {Fresh, Gone}]
                     /\ tokens' \in [Codes -> Token \cup {NoToken}]
                     /\ members' \in [Instances -> [Users -> Roles \cup {"none"}]]
                     /\ work' \in Work \cup {Idle}
                     /\ doubt' \subseteq Instances /\ faults' \in 0 .. MaxFaults
                     /\ UNCHANGED <<rows, standing, script>>
<1>1. Effect => BridgeTypeOK'
  BY DEF BridgeTypeOK
<1>2. 0 \in Ids /\ \A n \in Ids : n < MaxClients => n + 1 \in Ids
  BY BridgeAssumption DEF Ids
<1>3. Fault(i) \/ NoFault => doubt' \subseteq Instances /\ faults' \in 0 .. MaxFaults
  BY BridgeAssumption DEF Fault, NoFault, BridgeTypeOK
<1>4. ASSUME Busy(work, i)
      PROVE  /\ work \in Work
             /\ \A s \in Stages : [work EXCEPT !.at = s] \in Work
             /\ \A s \in Stages, t \in Stages : [work EXCEPT !.at = s, !.then = t] \in Work
             /\ \A s \in Stages, o \in BOOLEAN : [work EXCEPT !.at = s, !.owns = o] \in Work
             /\ \A l \in BOOLEAN : [work EXCEPT !.lapsed = l] \in Work
             /\ \A s \in Stages, t \in Stages, l \in BOOLEAN :
                  [work EXCEPT !.lapsed = l, !.at = s, !.then = t] \in Work
  BY <1>4, WorkOf DEF Work
<1>5. {"files", "register", "run", "undo", "revoke", "rollback", "done", "failed"} = Stages
  BY DEF Stages
<1> HIDE DEF Effect
<1> SUFFICES Effect
  BY <1>1
<1>6. ASSUME NEW j \in {"create", "delete", "restore", "purge"}, Begin(i, j) PROVE Effect
  <2>1. [job |-> j, inst |-> i, at |-> "files", then |-> "done", owns |-> FALSE,
         lapsed |-> FALSE] \in Work
    BY DEF Work, Stages
  <2> QED
    BY <1>6, <2>1 DEF Effect, Begin, sessionVars, BridgeTypeOK
<1>7. CASE WriteFiles(i)
  <2>1. /\ nextId' \in Ids /\ env' \in [Instances -> Ids]
        /\ work' \in Work
    BY <1>2, <1>4, <1>5, <1>7 DEF WriteFiles, On, Goto, DrawnId, BridgeTypeOK
  <2> QED
    BY <1>3, <1>7, <2>1 DEF Effect, WriteFiles, sessionVars, BridgeTypeOK
<1>8. CASE FilesFail(i)
  BY <1>3, <1>4, <1>5, <1>8 DEF Effect, FilesFail, On, Goto, sessionVars, instanceVars, BridgeTypeOK
<1>9. CASE Register(i)
  <2>1. work' \in Work
    BY <1>4, <1>5, <1>9 DEF Register, On, Goto
  <2>2. clients' \in [Instances -> Ids]
    BY <1>9 DEF Register, BridgeTypeOK
  <2> QED
    BY <1>3, <1>9, <2>1, <2>2 DEF Effect, Register, sessionVars, BridgeTypeOK
<1>10. CASE RegisterLost(i)
  <2>1. work' \in Work
    BY <1>4, <1>5, <1>10 DEF RegisterLost, On, Goto
  <2>2. clients' \in [Instances -> Ids]
    BY <1>10 DEF RegisterLost, BridgeTypeOK
  <2> QED
    BY <1>3, <1>10, <2>1, <2>2 DEF Effect, RegisterLost, sessionVars, BridgeTypeOK
<1>11. CASE Run(i)
  BY <1>3, <1>4, <1>5, <1>11 DEF Effect, Run, On, Goto, sessionVars, instanceVars, BridgeTypeOK
<1>12. CASE Undo(i)
  BY <1>2, <1>3, <1>4, <1>5, <1>12 DEF Effect, Undo, On, Goto, sessionVars, BridgeTypeOK
<1>13. CASE Move(i)
  BY <1>3, <1>4, <1>5, <1>13 DEF Effect, Move, On, Goto, sessionVars, BridgeTypeOK
<1>14. CASE Revoke(i) \/ RevokeLost(i)
  <2>1. work.then \in Stages /\ Busy(work, i)
    BY <1>14, WorkOf DEF Revoke, RevokeLost, On, Work
  <2>2. /\ clients' \in [Instances -> Ids]
        /\ grants' \in [Codes -> Grant \cup {Fresh, Gone}]
    BY <1>2, <1>14 DEF Revoke, RevokeLost, Without, BridgeTypeOK
  <2>3. work' \in Work
    BY <1>4, <1>5, <1>14, <2>1 DEF Revoke, RevokeLost, Goto
  <2> QED
    BY <1>3, <1>14, <2>2, <2>3 DEF Effect, Revoke, RevokeLost, sessionVars, BridgeTypeOK
<1>15. CASE RollBack(i)
  BY <1>3, <1>4, <1>5, <1>15 DEF Effect, RollBack, On, Goto, sessionVars, BridgeTypeOK
<1>16. CASE Committed(i)
  BY <1>3, <1>16, CommitTyped DEF Effect, Committed, On, sessionVars, BridgeTypeOK
<1>17. CASE Unreported(i)
  <2>1. Busy(work, i) /\ work.lapsed \in BOOLEAN
    BY <1>17, WorkOf DEF Unreported, On, Work
  <2>2. work' \in Work
    BY <1>4, <1>5, <1>17, <2>1 DEF Unreported
  <2>3. CASE UNCHANGED <<inst, tokens, clients, grants, members>>
    BY <1>3, <1>17, <2>2, <2>3 DEF Effect, Unreported, sessionVars, BridgeTypeOK
  <2>4. CASE Commit(i)
    BY <1>3, <1>17, <2>1, <2>2, <2>4, CommitTyped DEF Effect, Unreported, sessionVars, BridgeTypeOK
  <2> QED
    BY <1>17, <2>3, <2>4 DEF Unreported
<1>18. CASE ReportFailed(i)
  BY <1>3, <1>18 DEF Effect, ReportFailed, sessionVars, BridgeTypeOK
<1>19. CASE GiveUp(i)
  BY <1>3, <1>4, <1>19 DEF Effect, GiveUp, sessionVars, BridgeTypeOK
<1>20. CASE StartOrStop(i)
  BY <1>20 DEF Effect, StartOrStop, sessionVars, BridgeTypeOK
<1> QED
  BY <1>6, <1>7, <1>8, <1>9, <1>10, <1>11, <1>12, <1>13, <1>14, <1>15, <1>16, <1>17, <1>18,
     <1>19, <1>20, Executor(i) DEF Executor

LEMMA MigrationTyped ==
    ASSUME BridgeInv, NEW i \in Instances, Migration(i)
    PROVE  BridgeTypeOK'
<1> USE DEF BridgeInv
<1>1. 0 \in Ids /\ \A n \in Ids : n < MaxClients => n + 1 \in Ids
  BY BridgeAssumption DEF Ids
<1>2. ASSUME NEW s \in {"write", "register", "restart", "rollback"}, Migrating(i, s)
      PROVE  /\ script \in Script /\ script.old \in Ids /\ script.new \in Ids
             /\ \A t \in {"write", "register", "restart", "rollback"} :
                  /\ [script EXCEPT !.at = t] \in Script
                  /\ [script EXCEPT !.at = t, !.made = TRUE] \in Script
  <2>1. script \in Script
    BY <1>2, ScriptOf DEF Migrating
  <2> QED
    BY <2>1 DEF Script
<1>3. CASE MigrateBegin(i)
  <2>1. nextId' \in Ids /\ doubt' \subseteq Instances
    BY <1>1, <1>3 DEF MigrateBegin, BridgeTypeOK
  <2>2. script' \in Script
    BY <1>1, <1>3 DEF MigrateBegin, BridgeTypeOK, Script
  <2> QED
    BY <1>3, <2>1, <2>2 DEF MigrateBegin, sessionVars, BridgeTypeOK
<1>4. CASE MigrateWrite(i)
  <2>1. script.new \in Ids /\ script' \in Script \cup {Idle}
    BY <1>2, <1>4 DEF MigrateWrite, Step
  <2> QED
    BY <1>4, <2>1 DEF MigrateWrite, sessionVars, BridgeTypeOK
<1>5. CASE MigrateRegister(i)
  <2>1. script.new \in Ids /\ script' \in Script
    BY <1>2, <1>5 DEF MigrateRegister, Step
  <2>2. clients' \in [Instances -> Ids]
    BY <1>5, <2>1 DEF MigrateRegister, BridgeTypeOK
  <2> QED
    BY <1>5, <2>1, <2>2 DEF MigrateRegister, sessionVars, BridgeTypeOK
<1>6. CASE MigrateRestart(i)
  BY <1>2, <1>6 DEF MigrateRestart, Step, sessionVars, instanceVars, BridgeTypeOK
<1>7. CASE MigrateRollback(i)
  <2>1. script.old \in Ids /\ script' = Idle
    BY <1>2, <1>7 DEF MigrateRollback
  <2>2. /\ env' \in [Instances -> Ids] /\ clients' \in [Instances -> Ids]
        /\ grants' \in [Codes -> Grant \cup {Fresh, Gone}]
    BY <1>1, <1>7, <2>1 DEF MigrateRollback, Without, BridgeTypeOK
  <2> QED
    BY <1>7, <2>1, <2>2 DEF MigrateRollback, sessionVars, BridgeTypeOK
<1> QED
  BY <1>3, <1>4, <1>5, <1>6, <1>7 DEF Migration

LEMMA BridgeTyped ==
    ASSUME BridgeInv, BridgeNext
    PROVE  BridgeTypeOK'
<1>1. CASE ExecutorDies
  <2>1. work.inst \in Instances
    BY <1>1 DEF ExecutorDies, BridgeInv, BridgeTypeOK, Work
  <2> QED
    BY <1>1, <2>1, BridgeAssumption
       DEF ExecutorDies, Fault, BridgeInv, BridgeTypeOK, sessionVars, instanceVars
<1>2. ASSUME NEW c \in Codes, CodeExpires(c) PROVE BridgeTypeOK'
  BY <1>2 DEF CodeExpires, Without, BridgeInv, BridgeTypeOK, sessionVars, instanceVars
<1> QED
  BY <1>1, <1>2, SessionsTyped, MembersTyped, ExecutorTyped, MigrationTyped DEF BridgeNext

------------------------------------------------------------------------------
(* What steps leave alone *)

\* A step of the executor or the script for i touches no other instance, makes
\* no code and no token, and takes nothing out of doubt.
LocalTo(i) ==
    /\ \A k \in Instances \ {i} : /\ inst'[k] = inst[k] /\ clients'[k] = clients[k]
                                  /\ env'[k] = env[k] /\ data'[k] = data[k]
    /\ work' = work \/ \A k \in Instances \ {i} : ~Busy(work, k) /\ ~Busy(work', k)
    /\ script' = script \/ \A k \in Instances \ {i} : ~Busy(script, k) /\ ~Busy(script', k)
    /\ \A c \in Codes : grants'[c] = grants[c] \/ grants'[c] = Gone
    /\ \A c \in Codes :
         \/ tokens'[c] = tokens[c]
         \/ TokenOf(c, i) /\ tokens'[c] = [tokens[c] EXCEPT !.restored = TRUE]
    /\ doubt \subseteq doubt' /\ UNCHANGED <<rows, standing>>

LEMMA CommitIsLocal ==
    ASSUME BridgeTypeOK, NEW i \in Instances, Commit(i)
    PROVE  /\ \A k \in Instances \ {i} : inst'[k] = inst[k] /\ clients'[k] = clients[k]
           /\ \A c \in Codes : grants'[c] = grants[c] \/ grants'[c] = Gone
           /\ \A c \in Codes :
                \/ tokens'[c] = tokens[c]
                \/ TokenOf(c, i) /\ tokens'[c] = [tokens[c] EXCEPT !.restored = TRUE]
<1>1. \A k \in Instances \ {i} : inst'[k] = inst[k]
  BY DEF Commit, BridgeTypeOK
<1>2. \A k \in Instances \ {i} : clients'[k] = clients[k]
  BY DEF Commit, BridgeTypeOK
<1>3. \A c \in Codes : grants'[c] = grants[c] \/ grants'[c] = Gone
  BY DEF Commit, Without, BridgeTypeOK
<1>4. \A c \in Codes :
        \/ tokens'[c] = tokens[c]
        \/ TokenOf(c, i) /\ tokens'[c] = [tokens[c] EXCEPT !.restored = TRUE]
  BY DEF Commit, TokenOf, BridgeTypeOK
<1> QED
  BY <1>1, <1>2, <1>3, <1>4

LEMMA ExecutorIsLocal ==
    ASSUME BridgeTypeOK, NEW i \in Instances, Executor(i)
    PROVE  LocalTo(i) /\ UNCHANGED script
<1> USE DEF LocalTo, BridgeTypeOK, sessionVars
<1>1. Fault(i) \/ NoFault => doubt \subseteq doubt'
  BY DEF Fault, NoFault
<1>2. ASSUME Busy(work, i)
      PROVE  /\ \A k \in Instances \ {i} : ~Busy(work, k)
             /\ \A s, t, o, l : work' \in {[work EXCEPT !.at = s],
                  [work EXCEPT !.at = s, !.then = t], [work EXCEPT !.at = s, !.owns = o],
                  [work EXCEPT !.lapsed = l], [work EXCEPT !.lapsed = l, !.at = s, !.then = t]}
                  => \A k \in Instances \ {i} : ~Busy(work', k)
  BY <1>2 DEF Busy, Work
<1>3. \A k : ~Busy(Idle, k)
  BY DEF Busy
<1>4. ASSUME NEW j \in {"create", "delete", "restore", "purge"}, Begin(i, j)
      PROVE  LocalTo(i) /\ UNCHANGED script
  <2>1. \A k \in Instances \ {i} : ~Busy(work, k) /\ ~Busy(work', k)
    BY <1>3, <1>4 DEF Begin, Busy
  <2> QED
    BY <1>4, <2>1 DEF Begin
<1>5. CASE WriteFiles(i)
  BY <1>1, <1>2, <1>5 DEF WriteFiles, On, Goto
<1>6. CASE FilesFail(i)
  BY <1>1, <1>2, <1>6 DEF FilesFail, On, Goto, instanceVars
<1>7. CASE Register(i)
  BY <1>1, <1>2, <1>7 DEF Register, On, Goto
<1>8. CASE RegisterLost(i)
  BY <1>1, <1>2, <1>8 DEF RegisterLost, On, Goto
<1>9. CASE Run(i)
  BY <1>1, <1>2, <1>9 DEF Run, On, Goto, instanceVars
<1>10. CASE Undo(i)
  BY <1>1, <1>2, <1>10 DEF Undo, On
<1>11. CASE Move(i)
  BY <1>1, <1>2, <1>11 DEF Move, On, Goto
<1>12. CASE Revoke(i) \/ RevokeLost(i)
  BY <1>1, <1>2, <1>12 DEF Revoke, RevokeLost, Without, On, Goto
<1>13. CASE RollBack(i)
  BY <1>1, <1>2, <1>13 DEF RollBack, On, Goto
<1>14. CASE Committed(i)
  BY <1>1, <1>2, <1>3, <1>14, CommitIsLocal DEF Committed, On
<1>15. CASE Unreported(i)
  <2>1. Busy(work, i)
    BY <1>15 DEF Unreported, On
  <2>2. \A k \in Instances \ {i} : ~Busy(work, k) /\ ~Busy(work', k)
    <3>1. work'.inst = work.inst
      BY <1>15, <2>1, WorkOf DEF Unreported, Work
    <3> QED
      BY <2>1, <3>1 DEF Busy
  <2>3. CASE UNCHANGED <<inst, tokens, clients, grants, members>>
    BY <1>1, <1>15, <2>2, <2>3 DEF Unreported
  <2>4. CASE Commit(i)
    BY <1>1, <1>15, <2>2, <2>4, CommitIsLocal DEF Unreported
  <2> QED
    BY <1>15, <2>3, <2>4 DEF Unreported
<1>16. CASE ReportFailed(i)
  BY <1>1, <1>2, <1>3, <1>16 DEF ReportFailed, On
<1>17. CASE GiveUp(i)
  <2>1. work' = work \/ (Busy(work, i) /\ work' = [work EXCEPT !.lapsed = TRUE])
    BY <1>17 DEF GiveUp
  <2>2. Busy(work, i) => work' = work \/ \A k \in Instances \ {i} : ~Busy(work, k) /\ ~Busy(work', k)
    <3> SUFFICES ASSUME Busy(work, i), work' = [work EXCEPT !.lapsed = TRUE]
                 PROVE  \A k \in Instances \ {i} : ~Busy(work, k) /\ ~Busy(work', k)
      BY <2>1
    <3>1. work'.inst = work.inst
      BY WorkOf DEF Work
    <3> QED
      BY <3>1 DEF Busy
  <2>3. \A k \in Instances \ {i} : inst'[k] = inst[k]
    BY <1>17 DEF GiveUp
  <2> QED
    BY <1>1, <1>17, <2>1, <2>2, <2>3 DEF GiveUp
<1>18. CASE StartOrStop(i)
  BY <1>18 DEF StartOrStop
<1> QED
  BY <1>4, <1>5, <1>6, <1>7, <1>8, <1>9, <1>10, <1>11, <1>12, <1>13, <1>14, <1>15, <1>16,
     <1>17, <1>18, Executor(i) DEF Executor

LEMMA MigrationIsLocal ==
    ASSUME BridgeTypeOK, NEW i \in Instances, Migration(i)
    PROVE  LocalTo(i) /\ UNCHANGED <<work, tokens, inst, data>>
<1> USE DEF LocalTo, BridgeTypeOK, sessionVars
<1>1. ASSUME Busy(script, i)
      PROVE  /\ \A k \in Instances \ {i} : ~Busy(script, k)
             /\ \A s, m : script' \in {Idle, [script EXCEPT !.at = s],
                                       [script EXCEPT !.at = s, !.made = m]}
                  => \A k \in Instances \ {i} : ~Busy(script', k)
  BY <1>1 DEF Busy, Script
<1>2. CASE MigrateBegin(i)
  <2>1. \A k \in Instances \ {i} : ~Busy(script, k) /\ ~Busy(script', k)
    BY <1>2 DEF MigrateBegin, Busy
  <2> QED
    BY <1>2, <2>1 DEF MigrateBegin
<1>3. CASE MigrateWrite(i)
  BY <1>1, <1>3 DEF MigrateWrite, Migrating, Step
<1>4. CASE MigrateRegister(i)
  <2>1. Busy(script, i)
    BY <1>4 DEF MigrateRegister, Migrating
  <2>2. script'.inst = script.inst
    BY <1>4, <2>1, ScriptOf DEF MigrateRegister, Step, Script
  <2>3. \A k \in Instances \ {i} : ~Busy(script, k) /\ ~Busy(script', k)
    BY <2>1, <2>2 DEF Busy
  <2>4. \A k \in Instances \ {i} : clients'[k] = clients[k]
    BY <1>4 DEF MigrateRegister
  <2> QED
    BY <1>4, <2>3, <2>4 DEF MigrateRegister
<1>5. CASE MigrateRestart(i)
  BY <1>1, <1>5 DEF MigrateRestart, Migrating, Step, instanceVars
<1>6. CASE MigrateRollback(i)
  BY <1>1, <1>6 DEF MigrateRollback, Migrating, Without
<1> QED
  BY <1>2, <1>3, <1>4, <1>5, <1>6 DEF Migration

\* An instance that a step leaves alone stays as sound as it was.
LEMMA OthersStaySound ==
    ASSUME BridgeTypeOK, NEW i \in Instances, LocalTo(i), NEW k \in Instances \ {i}, Sound(k)
    PROVE  Sound(k)'
<1>1. /\ inst'[k] = inst[k] /\ clients'[k] = clients[k]
      /\ env'[k] = env[k] /\ data'[k] = data[k]
  BY DEF LocalTo
<1>2. \A c \in Codes : TokenOf(c, k)' <=> TokenOf(c, k)
  <2> SUFFICES ASSUME NEW c \in Codes, tokens'[c] # tokens[c]
               PROVE  TokenOf(c, k)' <=> TokenOf(c, k)
    BY DEF TokenOf
  <2>1. TokenOf(c, i) /\ tokens'[c] = [tokens[c] EXCEPT !.restored = TRUE]
    BY DEF LocalTo
  <2>2. tokens[c] \in Token /\ tokens[c].inst = i
    BY <2>1 DEF TokenOf, BridgeTypeOK
  <2>3. tokens'[c].inst = i
    BY <2>1, <2>2 DEF Token
  <2> QED
    BY <2>2, <2>3 DEF TokenOf
<1>3. \A c \in Codes : TokenOf(c, k) => tokens'[c] = tokens[c]
  BY DEF LocalTo, TokenOf
<1>4. work' = work \/ (~Busy(work, k) /\ ~Busy(work', k))
  BY DEF LocalTo
<1>5. script' = script \/ (~Busy(script, k) /\ ~Busy(script', k))
  BY DEF LocalTo
<1>6. Busy(work, k)' = Busy(work, k) /\ Busy(script, k)' = Busy(script, k)
  BY <1>4, <1>5 DEF Busy
<1>7. RestSound(k) => RestSound(k)'
  BY <1>1 DEF RestSound
<1>8. Busy(work, k) /\ WorkSound(k) => WorkSound(k)'
  BY <1>1, <1>2, <1>3, <1>4 DEF WorkSound, MakeSound, DeleteSound, PurgeSound
<1>9. Busy(script, k) /\ ScriptSound(k) => ScriptSound(k)'
  BY <1>1, <1>2, <1>3, <1>5 DEF ScriptSound
<1> QED
  BY <1>1, <1>2, <1>3, <1>6, <1>7, <1>8, <1>9 DEF Sound, AtRest

\* Sessions, members and codes do not touch clients or files.
LEMMA QuietKeeps ==
    ASSUME BridgeInv, UNCHANGED <<instanceVars, work, script, tokens, doubt>>
    PROVE  IdsDrawn' /\ AllSound'
<1>1. IdsDrawn'
  BY DEF BridgeInv, IdsDrawn, instanceVars
<1>2. ASSUME NEW i \in Instances, Sound(i) PROVE Sound(i)'
  BY <1>2 DEF Sound, AtRest, Busy, TokenOf, RestSound, WorkSound, MakeSound, DeleteSound,
              PurgeSound, ScriptSound, instanceVars
<1> QED
  BY <1>1, <1>2 DEF BridgeInv, AllSound

------------------------------------------------------------------------------
(* Ids and codes *)

LEMMA ExecutorDraws ==
    ASSUME BridgeInv, NEW i \in Instances, Executor(i)
    PROVE  IdsDrawn'
<1> USE DEF BridgeInv, BridgeTypeOK, IdsDrawn
<1>1. LocalTo(i) /\ UNCHANGED script
  BY ExecutorIsLocal
<1>2. nextId \in Nat /\ \A k \in Instances : env[k] \in Nat /\ clients[k] \in Nat
  BY BridgeAssumption DEF Ids
<1>3. script # Idle => script.old \in Nat /\ script.new \in Nat
  BY BridgeAssumption DEF Script, Ids
<1>4. \A c \in Codes : tokens[c] # NoToken => tokens[c].client \in Nat
  BY BridgeAssumption DEF Token, Ids
<1> SUFFICES /\ nextId' \in Nat /\ nextId <= nextId'
             /\ env'[i] <= nextId' /\ clients'[i] <= nextId'
  <2>1. ASSUME nextId' \in Nat, nextId <= nextId'
        PROVE  \A k \in Instances \ {i} : env'[k] <= nextId' /\ clients'[k] <= nextId'
    BY <1>1, <1>2, <2>1 DEF LocalTo
  <2>2. ASSUME NEW c \in Codes, tokens'[c] # NoToken
        PROVE  tokens[c] # NoToken /\ tokens'[c].client = tokens[c].client
    <3>1. CASE tokens'[c] = tokens[c]
      BY <2>2, <3>1
    <3>2. CASE tokens[c] # NoToken /\ tokens'[c] = [tokens[c] EXCEPT !.restored = TRUE]
      BY <3>2 DEF Token
    <3> QED
      BY <1>1, <3>1, <3>2 DEF LocalTo, TokenOf
  <2>3. ASSUME nextId' \in Nat, nextId <= nextId', NEW c \in Codes, tokens'[c] # NoToken
        PROVE  0 < tokens'[c].client /\ tokens'[c].client <= nextId'
    BY <1>2, <1>4, <2>2, <2>3
  <2>4. ASSUME nextId' \in Nat, nextId <= nextId', script # Idle
        PROVE  script.old <= nextId' /\ script.new <= nextId'
    BY <1>2, <1>3, <2>4
  <2> QED
    BY <1>1, <2>1, <2>3, <2>4
<1>5. CASE WriteFiles(i)
  BY <1>2, <1>5 DEF WriteFiles, DrawnId
<1>6. CASE ~WriteFiles(i)
  <2>1. nextId' = nextId
    BY <1>6 DEF Executor, Begin, FilesFail, Register, RegisterLost, Run, Undo, Move, Revoke,
                RevokeLost, RollBack, Committed, Unreported, ReportFailed, GiveUp, StartOrStop,
                instanceVars
  <2>2. env'[i] \in {env[i], 0}
    BY <1>6 DEF Executor, Begin, FilesFail, Register, RegisterLost, Run, Undo, Move, Revoke,
                RevokeLost, RollBack, Committed, Unreported, ReportFailed, GiveUp, StartOrStop,
                instanceVars
  <2>3. Commit(i) => clients'[i] \in {clients[i], 0}
    BY DEF Commit
  <2>4. clients'[i] \in {clients[i], env[i], 0}
    BY <1>6, <2>3
       DEF Executor, Begin, FilesFail, Register, RegisterLost, Run, Undo, Move, Revoke,
           RevokeLost, RollBack, Committed, Unreported, ReportFailed, GiveUp, StartOrStop,
           instanceVars
  <2> QED
    BY <1>2, <2>1, <2>2, <2>4
<1> QED
  BY <1>5, <1>6

LEMMA MigrationDraws ==
    ASSUME BridgeInv, NEW i \in Instances, Migration(i)
    PROVE  IdsDrawn'
<1> USE DEF BridgeInv, BridgeTypeOK, IdsDrawn
<1>1. LocalTo(i) /\ UNCHANGED tokens
  BY MigrationIsLocal
<1>2. nextId \in Nat /\ \A k \in Instances : env[k] \in Nat /\ clients[k] \in Nat
  BY BridgeAssumption DEF Ids
<1>3. script # Idle => script \in Script /\ script.old \in Nat /\ script.new \in Nat
  BY BridgeAssumption DEF Script, Ids
<1>4. \A c \in Codes : tokens[c] # NoToken => tokens[c].client \in Nat
  BY BridgeAssumption DEF Token, Ids
<1> SUFFICES /\ nextId' \in Nat /\ nextId <= nextId'
             /\ env'[i] <= nextId' /\ clients'[i] <= nextId'
             /\ script' # Idle => script'.old <= nextId' /\ script'.new <= nextId'
  <2>1. ASSUME nextId' \in Nat, nextId <= nextId'
        PROVE  \A k \in Instances \ {i} : env'[k] <= nextId' /\ clients'[k] <= nextId'
    BY <1>1, <1>2, <2>1 DEF LocalTo
  <2>2. ASSUME nextId' \in Nat, nextId <= nextId', NEW c \in Codes, tokens'[c] # NoToken
        PROVE  0 < tokens'[c].client /\ tokens'[c].client <= nextId'
    BY <1>1, <1>2, <1>4, <2>2
  <2> QED
    BY <2>1, <2>2
<1>5. CASE MigrateBegin(i)
  BY <1>2, <1>5 DEF MigrateBegin
<1>6. ASSUME script # Idle
      PROVE  \A s, m : /\ script' \in {Idle, [script EXCEPT !.at = s],
                                      [script EXCEPT !.at = s, !.made = m]}
                      /\ script' # Idle
                      => script'.old = script.old /\ script'.new = script.new
  BY <1>3, <1>6 DEF Script
<1>7. CASE MigrateWrite(i)
  <2>1. script' # Idle => script'.old = script.old /\ script'.new = script.new
    BY <1>6, <1>7 DEF MigrateWrite, Step, Migrating, Busy
  <2> QED
    BY <1>2, <1>3, <1>7, <2>1 DEF MigrateWrite, Migrating, Busy
<1>10. CASE MigrateRegister(i)
  <2>1. script' # Idle => script'.old = script.old /\ script'.new = script.new
    <3>1. script # Idle /\ script \in Script
      BY <1>3, <1>10 DEF MigrateRegister, Migrating, Busy
    <3>2. \/ \E s \in {"restart", "rollback"} : script' = [script EXCEPT !.at = s]
          \/ script' = [script EXCEPT !.at = "restart", !.made = TRUE]
      BY <1>10 DEF MigrateRegister, Step
    <3> QED
      BY <3>1, <3>2 DEF Script
  <2>2. clients'[i] \in {clients[i], script.new}
    BY <1>10 DEF MigrateRegister
  <2> QED
    BY <1>2, <1>3, <1>10, <2>1, <2>2 DEF MigrateRegister, Migrating, Busy
<1>8. CASE MigrateRestart(i)
  BY <1>2, <1>3, <1>8 DEF MigrateRestart, Step, Migrating, Busy, Script, instanceVars
<1>9. CASE MigrateRollback(i)
  BY <1>2, <1>3, <1>9 DEF MigrateRollback, Migrating, Busy
<1> QED
  BY <1>5, <1>7, <1>8, <1>9, <1>10 DEF Migration

LEMMA LocalKeepsCodes ==
    ASSUME BridgeInv, NEW i \in Instances, LocalTo(i)
    PROVE  CodesBacked'
<1> SUFFICES ASSUME NEW c \in Codes
             PROVE  /\ Granted(c)' => /\ Present(grants[c].cookie)'
                                      /\ (rows[grants[c].cookie].user = grants[c].user)'
                    /\ (grants[c] = Fresh \/ (Granted(c) /\ ~grants[c].used) => tokens[c] = NoToken)'
  BY DEF CodesBacked
<1>1. grants'[c] = grants[c] \/ (~Granted(c)' /\ grants'[c] # Fresh)
  <2>1. Gone # Fresh /\ Gone.kind # "grant"
    BY DEF Gone, Fresh
  <2> QED
    BY <2>1 DEF LocalTo, Granted
<1>2. rows' = rows /\ (tokens[c] = NoToken => tokens'[c] = NoToken)
  BY DEF LocalTo, TokenOf
<1> QED
  BY <1>1, <1>2 DEF BridgeInv, CodesBacked, Granted, Present

LEMMA SessionsKeepCodes ==
    ASSUME BridgeInv, Sessions
    PROVE  CodesBacked'
<1> USE DEF BridgeInv, BridgeTypeOK
<1>1. ASSUME NEW t \in Cookies, SignOn(t) PROVE CodesBacked'
  <2>1. grants' = grants /\ tokens' = tokens /\ ~Present(t)
        /\ \A s \in Cookies \ {t} : rows'[s] = rows[s]
    BY <1>1 DEF SignOn, Present, Fresh
  <2>2. \A c \in Codes : Granted(c) => grants[c].cookie \in Cookies
    BY DEF Granted, Grant, Fresh, Gone
  <2> QED
    BY <2>1, <2>2 DEF CodesBacked, Granted, Present
<1>2. ASSUME NEW t \in Cookies, SessionLapses(t) PROVE CodesBacked'
  <2>1. rows[t] \in SessionRow /\ rows' = [rows EXCEPT ![t].lapsed = TRUE]
    BY <1>2 DEF SessionLapses, Present, NoSession, Fresh
  <2>2. \A s \in Cookies : rows'[s].kind = rows[s].kind /\ rows'[s].user = rows[s].user
    BY <2>1 DEF SessionRow
  <2>3. \A c \in Codes : Granted(c) => grants[c].cookie \in Cookies
    BY DEF Granted, Grant, Fresh, Gone
  <2> QED
    BY <1>2, <2>2, <2>3 DEF SessionLapses, CodesBacked, Granted, Present
<1>3. ASSUME NEW S \in SUBSET Users, NEW T \in SUBSET Cookies, Administer(S, T) PROVE CodesBacked'
  <2>1. \A c \in Codes : grants'[c] = IF Granted(c) /\ grants[c].cookie \in T THEN Gone ELSE grants[c]
    BY <1>3 DEF Administer, Without, Through
  <2>2. \A s \in Cookies \ T : rows'[s] = rows[s]
    BY <1>3 DEF Administer
  <2>3. \A c \in Codes : Granted(c) => grants[c].cookie \in Cookies
    BY DEF Granted, Grant, Fresh, Gone
  <2>4. \A c \in Codes : grants'[c] = grants[c] \/ (~Granted(c)' /\ grants'[c] # Fresh)
    <3>1. Gone # Fresh /\ Gone.kind # "grant"
      BY DEF Gone, Fresh
    <3> QED
      BY <2>1, <3>1 DEF Granted
  <2>5. tokens' = tokens
    BY <1>3 DEF Administer
  <2>6. \A c \in Codes : Granted(c)' => Granted(c) /\ grants'[c] = grants[c] /\ grants[c].cookie \notin T
    BY <2>1 DEF Granted, Gone
  <2> QED
    BY <2>2, <2>3, <2>4, <2>5, <2>6 DEF CodesBacked, Granted, Present
<1> QED
  BY <1>1, <1>2, <1>3 DEF Sessions

LEMMA MembersKeepCodes ==
    ASSUME BridgeInv, NEW i \in Instances, Bridge(i)
    PROVE  CodesBacked'
<1> USE DEF BridgeInv, BridgeTypeOK
<1>1. CASE UNCHANGED <<rows, grants, tokens>>
  BY <1>1 DEF CodesBacked, Granted, Present
<1>2. ASSUME NEW t \in Cookies, NEW c \in Codes, Authorize(t, i, c) PROVE CodesBacked'
  <2>1. /\ UNCHANGED <<rows, tokens>> /\ tokens[c] = NoToken /\ Present(t)
        /\ grants'[c].kind = "grant" /\ grants'[c].cookie = t /\ grants'[c].user = rows[t].user
        /\ \A d \in Codes \ {c} : grants'[d] = grants[d]
    BY <1>2 DEF Authorize, SignedIn, CodesBacked, sessionVars
  <2>2. grants'[c] # Fresh
    BY <2>1 DEF Fresh
  <2> QED
    BY <2>1, <2>2 DEF CodesBacked, Granted, Present
<1>3. ASSUME NEW c \in Codes, Redeem(i, c) PROVE CodesBacked'
  <2>1. grants[c] \in Grant /\ Granted(c)
    BY <1>3 DEF Redeem, Presents, Granted, Fresh, Gone
  <2>2. /\ UNCHANGED rows
        /\ \A d \in Codes \ {c} : grants'[d] = grants[d] /\ tokens'[d] = tokens[d]
        /\ grants'[c] = [grants[c] EXCEPT !.used = TRUE]
    BY <1>3 DEF Redeem, sessionVars
  <2>3. /\ grants'[c].used = TRUE /\ grants'[c].cookie = grants[c].cookie
        /\ grants'[c].user = grants[c].user /\ grants'[c].kind = "grant"
    BY <2>1, <2>2 DEF Grant
  <2>4. grants'[c] # Fresh
    BY <2>3 DEF Fresh
  <2>5. ASSUME NEW d \in Codes
        PROVE  /\ Granted(d)' => /\ Present(grants[d].cookie)'
                                 /\ (rows[grants[d].cookie].user = grants[d].user)'
               /\ (grants[d] = Fresh \/ (Granted(d) /\ ~grants[d].used) => tokens[d] = NoToken)'
    <3>1. CASE d = c
      BY <2>1, <2>2, <2>3, <2>4, <3>1 DEF CodesBacked, Granted, Present
    <3>2. CASE d # c
      BY <2>2, <3>2 DEF CodesBacked, Granted, Present
    <3> QED
      BY <3>1, <3>2
  <2> QED
    BY <2>5 DEF CodesBacked
<1>4. ASSUME NEW a \in Users, NEW u \in Users, NEW r \in Roles,
             SetMember(a, i, u, r) \/ RemoveMember(a, i, u)
      PROVE  UNCHANGED <<rows, grants, tokens>>
  BY <1>4 DEF SetMember, RemoveMember, sessionVars
<1> QED
  BY <1>1, <1>2, <1>3, <1>4 DEF Bridge, Roles

------------------------------------------------------------------------------
(* What the executor leaves of an instance nothing came between *)

\* The restored tokens of i are not of the client in its .env.
OldRefused(i) == \A c \in Codes : TokenOf(c, i) /\ tokens[c].restored => tokens[c].client # env[i]

LEMMA JobGoesOn ==
    ASSUME NEW i \in Instances, Sound(i), Busy(work, i), script' = script,
           Busy(work', i), WorkSound(i)', OldRefused(i)'
    PROVE  Sound(i)'
BY DEF Sound, OldRefused, AtRest, Busy

LEMMA JobEnds ==
    ASSUME NEW i \in Instances, Sound(i), Busy(work, i), script' = script,
           work' = Idle, RestSound(i)', OldRefused(i)'
    PROVE  Sound(i)'
<1>1. ~Busy(script, i)' /\ ~Busy(work, i)'
  BY DEF Sound, Busy
<1> QED
  BY <1>1 DEF Sound, OldRefused, AtRest

\* Steps that change neither the tokens nor the .env.
LEMMA OldStayRefused ==
    ASSUME NEW i \in Instances, Sound(i), tokens' = tokens, env'[i] = env[i]
    PROVE  OldRefused(i)'
BY DEF Sound, OldRefused, TokenOf

\* Goto, with what else a step may write of the job.
LEMMA GotoOf ==
    ASSUME BridgeTypeOK, NEW i \in Instances, Busy(work, i), NEW s \in Stages,
           work' = [work EXCEPT !.at = s]
    PROVE  /\ Busy(work', i) /\ work'.job = work.job /\ work'.at = s /\ work'.then = work.then
           /\ work'.owns = work.owns /\ work'.lapsed = work.lapsed
<1>1. work \in Work /\ work.inst = i
  BY WorkOf
<1> QED
  BY <1>1 DEF Busy, Work, Idle

LEMMA GotoThenOf ==
    ASSUME BridgeTypeOK, NEW i \in Instances, Busy(work, i), NEW s \in Stages, NEW t \in Stages,
           work' = [work EXCEPT !.at = s, !.then = t]
    PROVE  /\ Busy(work', i) /\ work'.job = work.job /\ work'.at = s /\ work'.then = t
           /\ work'.owns = work.owns /\ work'.lapsed = work.lapsed
<1>1. work \in Work /\ work.inst = i
  BY WorkOf
<1> QED
  BY <1>1 DEF Busy, Work, Idle

LEMMA GotoOwnsOf ==
    ASSUME BridgeTypeOK, NEW i \in Instances, Busy(work, i), NEW s \in Stages, NEW o \in BOOLEAN,
           work' = [work EXCEPT !.at = s, !.owns = o]
    PROVE  /\ Busy(work', i) /\ work'.job = work.job /\ work'.at = s /\ work'.then = work.then
           /\ work'.owns = o /\ work'.lapsed = work.lapsed
<1>1. work \in Work /\ work.inst = i
  BY WorkOf
<1> QED
  BY <1>1 DEF Busy, Work, Idle

LEMMA BeginSound ==
    ASSUME BridgeInv, NEW i \in Instances, NEW j \in {"create", "delete", "restore", "purge"},
           Begin(i, j), Sound(i), i \notin doubt'
    PROVE  Sound(i)'
<1>1. /\ work = Idle /\ ~Busy(script, i) /\ script' = script /\ tokens' = tokens
      /\ UNCHANGED <<clients, env, data>>
      /\ inst'[i] = IF j = "create" THEN "provisioning" ELSE inst[i]
      /\ MayBegin(i)[j]
  BY DEF Begin, BridgeInv, BridgeTypeOK
<1>2. RestSound(i)
  BY <1>1 DEF Sound, AtRest, Busy
<1>3. /\ Busy(work', i) /\ work'.job = j /\ work'.at = "files" /\ work'.owns = FALSE
      /\ work'.lapsed = FALSE
  BY DEF Begin, Busy, Idle
<1>4. /\ j = "create" => inst[i] = "none"
      /\ j = "delete" => inst[i] \in {"active", "stopped"}
      /\ j = "restore" => inst[i] = "deleted"
      /\ j = "purge" => inst[i] \in {"deleted", "failed"}
  <2>1. /\ MayBegin(i)["create"] <=> inst[i] = "none"
        /\ MayBegin(i)["delete"] <=> inst[i] \in {"active", "stopped"}
        /\ MayBegin(i)["restore"] <=> inst[i] = "deleted"
        /\ MayBegin(i)["purge"] <=> inst[i] \in {"deleted", "failed"}
    BY Zenon DEF MayBegin
  <2> QED
    BY <1>1, <2>1
<1>5. WorkSound(i)'
  BY <1>1, <1>2, <1>3, <1>4
     DEF WorkSound, MakeSound, DeleteSound, PurgeSound, RestSound, Makes
<1>6. OldRefused(i)'
  BY <1>1, OldStayRefused
<1> QED
  BY <1>1, <1>3, <1>5, <1>6 DEF Sound, OldRefused, AtRest, Busy

LEMMA WriteFilesSound ==
    ASSUME BridgeInv, NEW i \in Instances, WriteFiles(i), Sound(i)
    PROVE  Sound(i)'
<1> USE DEF BridgeInv
<1>1. /\ Busy(work, i) /\ work.job \in Makes /\ work.at = "files" /\ script' = script
      /\ UNCHANGED <<inst, clients, tokens>> /\ data'[i] = "home"
  BY DEF WriteFiles, On, BridgeTypeOK
<1>2. MakeSound(i) /\ ~work.lapsed
  BY <1>1 DEF Sound, WorkSound
<1>3. \A c \in Codes : TokenOf(c, i) => tokens[c].client # env'[i]
  <2>1. \A c \in Codes : TokenOf(c, i) =>
          0 < tokens[c].client /\ tokens[c].client <= nextId /\ tokens[c].client \in Nat
    BY BridgeAssumption DEF IdsDrawn, TokenOf, BridgeTypeOK, Token, Ids
  <2>2. nextId \in Nat
    BY BridgeAssumption DEF BridgeTypeOK, Ids
  <2>3. env'[i] = nextId + 1 \/ env'[i] = 0
    BY DEF WriteFiles, Draws, DrawnId, BridgeTypeOK
  <2> QED
    BY <2>1, <2>2, <2>3
<1>4. /\ Busy(work', i) /\ work'.job = work.job /\ work'.owns = work.owns
      /\ work'.lapsed = work.lapsed
      /\ work'.at = IF Draws(i) THEN "register" ELSE "run"
  <2>1. "register" \in Stages /\ "run" \in Stages
    BY DEF Stages
  <2> QED
    BY <1>1, <2>1, GotoOf DEF WriteFiles, Goto
<1>5. ~Draws(i) => env'[i] = 0 /\ clients[i] = 0
  BY <1>1, <1>2 DEF WriteFiles, Draws, MakeSound
<1>6. WorkSound(i)'
  BY <1>1, <1>2, <1>3, <1>4, <1>5 DEF WorkSound, MakeSound, Makes, TokenOf
<1>7. OldRefused(i)'
  BY <1>1, <1>3 DEF OldRefused, TokenOf
<1> QED
  BY <1>1, <1>4, <1>6, <1>7, JobGoesOn

\* A step of a job that writes only its place in the code, no client and no data.
LEMMA PlaceSound ==
    ASSUME BridgeInv, NEW i \in Instances, FilesFail(i) \/ Run(i), Sound(i)
    PROVE  Sound(i)'
<1> USE DEF BridgeInv
<1>1. /\ Busy(work, i) /\ script' = script /\ UNCHANGED <<instanceVars, tokens>>
  BY DEF FilesFail, Run, On
<1>2. WorkSound(i) /\ work.job \in {"create", "delete", "restore", "purge"}
  BY <1>1, WorkOf DEF Sound, Work
<1>3. /\ Busy(work', i) /\ work'.job = work.job /\ work'.owns = work.owns
      /\ work'.lapsed = work.lapsed /\ work'.then = work.then
      /\ FilesFail(i) => work'.at = "failed"
      /\ Run(i) => work'.at \in {"done", "undo"}
  <2>1. {"failed", "done", "undo"} \subseteq Stages
    BY DEF Stages
  <2> QED
    BY <1>1, <2>1, GotoOf DEF FilesFail, Run, Goto
<1>4. WorkSound(i)'
  BY <1>1, <1>2, <1>3 DEF FilesFail, Run, On, WorkSound, MakeSound, DeleteSound, PurgeSound, Makes,
                          instanceVars, TokenOf
<1>5. OldRefused(i)'
  BY <1>1, OldStayRefused DEF instanceVars
<1> QED
  BY <1>1, <1>3, <1>4, <1>5, JobGoesOn

LEMMA RegisterSound ==
    ASSUME BridgeInv, NEW i \in Instances, Register(i), Sound(i)
    PROVE  Sound(i)'
<1> USE DEF BridgeInv
<1>1. /\ Busy(work, i) /\ work.job \in Makes /\ work.at = "register" /\ script' = script
      /\ UNCHANGED <<inst, env, data, tokens>>
  BY DEF Register, On
<1>2. MakeSound(i) /\ ~work.lapsed
  BY <1>1 DEF Sound, WorkSound
<1>3. /\ Busy(work', i) /\ work'.job = work.job /\ work'.lapsed = work.lapsed
      /\ \/ work'.at = "run" /\ work'.owns = TRUE /\ clients'[i] = env[i]
         \/ work'.at = "undo" /\ work'.owns = work.owns /\ clients' = clients
  <2>1. "run" \in Stages /\ "undo" \in Stages
    BY DEF Stages
  <2> QED
    BY <1>1, <2>1, GotoOf, GotoOwnsOf DEF Register, Goto, BridgeTypeOK
<1>4. WorkSound(i)'
  BY <1>1, <1>2, <1>3 DEF WorkSound, MakeSound, Makes, TokenOf
<1>5. OldRefused(i)'
  BY <1>1, OldStayRefused
<1> QED
  BY <1>1, <1>3, <1>4, <1>5, JobGoesOn

LEMMA UndoSound ==
    ASSUME BridgeInv, NEW i \in Instances, Undo(i), Sound(i)
    PROVE  Sound(i)'
<1> USE DEF BridgeInv
<1>1. /\ Busy(work, i) /\ work.job \in Makes /\ work.at = "undo" /\ script' = script
      /\ UNCHANGED <<inst, clients, tokens>> /\ env'[i] \in {env[i], 0}
  BY DEF Undo, On, BridgeTypeOK
<1>2. MakeSound(i) /\ ~work.lapsed
  BY <1>1 DEF Sound, WorkSound
<1>3. /\ Busy(work', i) /\ work'.job = work.job /\ work'.owns = work.owns
      /\ work'.lapsed = work.lapsed /\ work'.then = "failed"
      /\ work'.at = IF work.owns THEN "revoke" ELSE "failed"
  <2>1. "revoke" \in Stages /\ "failed" \in Stages
    BY DEF Stages
  <2> QED
    BY <1>1, <2>1, GotoThenOf DEF Undo
<1>4. WorkSound(i)'
  BY <1>1, <1>2, <1>3 DEF WorkSound, MakeSound, Makes
<1>5. OldRefused(i)'
  <2>1. \A c \in Codes : TokenOf(c, i) => 0 < tokens[c].client
    BY DEF IdsDrawn, TokenOf
  <2> QED
    BY <1>1, <2>1 DEF Sound, OldRefused, TokenOf
<1> QED
  BY <1>1, <1>3, <1>4, <1>5, JobGoesOn

LEMMA MoveSound ==
    ASSUME BridgeInv, NEW i \in Instances, Move(i), Sound(i)
    PROVE  Sound(i)'
<1> USE DEF BridgeInv
<1>1. /\ Busy(work, i) /\ work.at = "files" /\ script' = script
      /\ UNCHANGED <<inst, clients, env, tokens>>
  BY DEF Move, On
<1>2. WorkSound(i)
  BY <1>1 DEF Sound
<1>3. /\ Busy(work', i) /\ work'.job = work.job /\ work'.lapsed = work.lapsed
      /\ \/ work.job = "delete" /\ work'.at = "revoke" /\ work'.then = "done"
         \/ work.job = "purge" /\ work'.at = "done"
  <2>1. "revoke" \in Stages /\ "done" \in Stages
    BY DEF Stages
  <2> QED
    BY <1>1, <2>1, GotoOf, GotoThenOf DEF Move, Goto, On
<1>4. WorkSound(i)'
  BY <1>1, <1>2, <1>3 DEF WorkSound, DeleteSound, PurgeSound, Makes
<1>5. OldRefused(i)'
  BY <1>1, OldStayRefused
<1> QED
  BY <1>1, <1>3, <1>4, <1>5, JobGoesOn

LEMMA RevokeSound ==
    ASSUME BridgeInv, NEW i \in Instances, Revoke(i), Sound(i)
    PROVE  Sound(i)'
<1> USE DEF BridgeInv
<1>1. /\ Busy(work, i) /\ work.at = "revoke" /\ script' = script
      /\ work.job \in {"create", "restore", "delete"}
      /\ UNCHANGED <<inst, env, data, tokens>> /\ clients'[i] = 0
  BY DEF Revoke, On, Makes, BridgeTypeOK
<1>2. WorkSound(i)
  BY <1>1 DEF Sound
<1>3. /\ Busy(work', i) /\ work'.job = work.job /\ work'.lapsed = work.lapsed
      /\ work'.owns = FALSE /\ work'.at = work.then
  <2>1. work.then \in Stages
    BY <1>1, WorkOf DEF Work
  <2> QED
    BY <1>1, <2>1, GotoOwnsOf DEF Revoke
<1>4. work'.at = IF work.job = "delete" THEN "done" ELSE "failed"
  BY <1>1, <1>2, <1>3 DEF WorkSound, MakeSound, DeleteSound, Makes
<1>5. WorkSound(i)'
  BY <1>1, <1>2, <1>3, <1>4 DEF WorkSound, MakeSound, DeleteSound, Makes
<1>6. OldRefused(i)'
  BY <1>1, OldStayRefused
<1> QED
  BY <1>1, <1>3, <1>5, <1>6, JobGoesOn

LEMMA CommittedSound ==
    ASSUME BridgeInv, NEW i \in Instances, Committed(i), Sound(i)
    PROVE  Sound(i)'
<1> USE DEF BridgeInv
<1>1. /\ Busy(work, i) /\ work.at = "done" /\ script' = script /\ work' = Idle
      /\ UNCHANGED <<env, data>> /\ Commit(i)
  BY DEF Committed, On
<1>2. WorkSound(i) /\ work.job \in {"create", "restore", "delete", "purge"}
  BY <1>1, WorkOf DEF Sound, Work
<1>3. /\ work.job \in Makes => inst'[i] = "active"
      /\ work.job = "delete" => inst'[i] = "deleted"
      /\ work.job = "purge" => inst'[i] = "gone"
      /\ clients'[i] = IF work.job = "purge" THEN 0 ELSE clients[i]
  BY <1>1, <1>2 DEF Commit, Makes, BridgeTypeOK
<1>4. RestSound(i)'
  BY <1>1, <1>2, <1>3 DEF RestSound, WorkSound, MakeSound, DeleteSound, Makes
<1>5. OldRefused(i)'
  <2>1. CASE work.job = "restore"
    <3>1. \A c \in Codes : TokenOf(c, i) => tokens[c].client # env[i]
      BY <1>1, <1>2, <2>1 DEF WorkSound, MakeSound, Makes
    <3> SUFFICES ASSUME NEW c \in Codes, TokenOf(c, i)' PROVE tokens'[c].client # env'[i]
      BY DEF OldRefused
    <3>2. TokenOf(c, i) /\ tokens'[c].client = tokens[c].client
      <4>1. LocalTo(i)
        BY ExecutorIsLocal DEF Executor
      <4>2. CASE tokens'[c] = tokens[c]
        BY <4>2 DEF TokenOf
      <4>3. CASE TokenOf(c, i) /\ tokens'[c] = [tokens[c] EXCEPT !.restored = TRUE]
        BY <4>3 DEF TokenOf, BridgeTypeOK, Token
      <4> QED
        BY <4>1, <4>2, <4>3 DEF LocalTo
    <3> QED
      BY <1>1, <3>1, <3>2
  <2>2. CASE work.job # "restore"
    BY <1>1, <2>2, OldStayRefused DEF Commit
  <2> QED
    BY <2>1, <2>2
<1> QED
  BY <1>1, <1>4, <1>5, JobEnds

LEMMA ReportFailedSound ==
    ASSUME BridgeInv, NEW i \in Instances, ReportFailed(i), Sound(i), i \notin doubt'
    PROVE  Sound(i)'
<1> USE DEF BridgeInv
<1>1. /\ Busy(work, i) /\ work.at = "failed" /\ script' = script /\ work' = Idle
      /\ UNCHANGED <<clients, env, data, tokens>>
      /\ inst' = [inst EXCEPT ![i] = IF work.job = "create" /\ ~work.lapsed THEN "failed" ELSE @]
  BY DEF ReportFailed, On, Fault
<1>2. WorkSound(i) /\ work.job \in {"create", "restore", "delete", "purge"}
  BY <1>1, WorkOf DEF Sound, Work
<1>3. inst'[i] = IF work.job = "create" THEN "failed" ELSE inst[i]
  BY <1>1, <1>2 DEF WorkSound, BridgeTypeOK
<1>4. RestSound(i)'
  BY <1>1, <1>2, <1>3 DEF RestSound, WorkSound, MakeSound, DeleteSound, PurgeSound, Makes
<1>5. OldRefused(i)'
  BY <1>1, OldStayRefused
<1> QED
  BY <1>1, <1>4, <1>5, JobEnds

LEMMA StartOrStopSound ==
    ASSUME BridgeInv, NEW i \in Instances, StartOrStop(i), Sound(i)
    PROVE  Sound(i)'
<1>1. /\ work = Idle /\ UNCHANGED <<work, script, clients, env, data, tokens>>
      /\ inst[i] \in {"active", "stopped"} /\ inst'[i] \in {"active", "stopped"}
  BY DEF StartOrStop, BridgeInv, BridgeTypeOK
<1> QED
  BY <1>1 DEF Sound, AtRest, Busy, RestSound, ScriptSound, TokenOf

\* Without a fault nothing is given up, lost, refused or taken down again.
LEMMA NeedsAFault ==
    ASSUME BridgeInv, NEW i \in Instances, Sound(i), i \notin doubt'
    PROVE  /\ ~RegisterLost(i) /\ ~RevokeLost(i) /\ ~RollBack(i) /\ ~Unreported(i)
           /\ ~GiveUp(i)
<1>1. ~Fault(i)
  BY DEF Fault
<1>2. ~RollBack(i)
  BY DEF RollBack, On, Sound, WorkSound, MakeSound, Makes
<1>3. ~Unreported(i)
  BY <1>1 DEF Unreported, On, Sound, WorkSound
<1>4. ~GiveUp(i)
  BY <1>1 DEF GiveUp, Sound, AtRest, RestSound, ScriptSound
<1> QED
  BY <1>1, <1>2, <1>3, <1>4 DEF RegisterLost, RevokeLost

LEMMA ExecutorSound ==
    ASSUME BridgeInv, NEW i \in Instances, Executor(i)
    PROVE  AllSound'
<1>1. LocalTo(i)
  BY ExecutorIsLocal DEF BridgeInv
<1>2. ASSUME NEW k \in Instances, k \notin doubt', k # i PROVE Sound(k)'
  BY <1>1, <1>2, OthersStaySound DEF LocalTo, BridgeInv, AllSound
<1>3. ASSUME i \notin doubt' PROVE Sound(i)'
  <2>1. Sound(i)
    BY <1>1, <1>3 DEF LocalTo, BridgeInv, AllSound
  <2> QED
    BY <1>3, <2>1, NeedsAFault, BeginSound, WriteFilesSound, PlaceSound, RegisterSound, UndoSound,
       MoveSound, RevokeSound, CommittedSound, ReportFailedSound, StartOrStopSound DEF Executor
<1> QED
  BY <1>2, <1>3 DEF AllSound

LEMMA ExecutorDiesSound ==
    ASSUME BridgeInv, ExecutorDies
    PROVE  AllSound' /\ IdsDrawn' /\ CodesBacked'
<1> DEFINE i == work.inst
<1>1. i \in Instances /\ Busy(work, i)
  BY DEF ExecutorDies, BridgeInv, BridgeTypeOK, Work, Busy
<1>2. LocalTo(i) /\ UNCHANGED <<nextId, env, clients, script, tokens>>
  <2>1. \A k \in Instances \ {i} : ~Busy(work, k) /\ ~Busy(work', k)
    BY DEF ExecutorDies, Busy
  <2> QED
    BY <2>1 DEF ExecutorDies, LocalTo, Fault, sessionVars, instanceVars
<1>3. i \in doubt'
  BY DEF ExecutorDies, Fault
<1> HIDE DEF i
<1>4. ASSUME NEW k \in Instances, k \notin doubt' PROVE Sound(k)'
  BY <1>1, <1>2, <1>3, <1>4, OthersStaySound DEF LocalTo, BridgeInv, AllSound
<1>5. IdsDrawn'
  BY <1>2 DEF BridgeInv, IdsDrawn
<1> QED
  BY <1>1, <1>2, <1>4, <1>5, LocalKeepsCodes DEF AllSound

------------------------------------------------------------------------------
(* The script and the tokens *)

\* The script goes on, or ends, on an instance no job works on.
LEMMA ScriptGoesOn ==
    ASSUME NEW i \in Instances, Sound(i), Busy(script, i), work' = work,
           Busy(script', i) => ScriptSound(i)', ~Busy(script', i) => RestSound(i)',
           OldRefused(i)'
    PROVE  Sound(i)'
BY DEF Sound, OldRefused, AtRest, Busy

LEMMA MigrationSound ==
    ASSUME BridgeInv, NEW i \in Instances, Migration(i)
    PROVE  AllSound'
<1> USE DEF BridgeInv
<1>1. LocalTo(i) /\ UNCHANGED <<work, tokens, inst, data>>
  BY MigrationIsLocal
<1>2. ASSUME NEW k \in Instances, k \notin doubt', k # i PROVE Sound(k)'
  BY <1>1, <1>2, OthersStaySound DEF LocalTo, AllSound
<1> SUFFICES ASSUME i \notin doubt' PROVE Sound(i)'
  BY <1>2 DEF AllSound
<1>3. Sound(i)
  BY <1>1 DEF LocalTo, AllSound
<1>4. nextId \in Nat /\ clients[i] \in Nat /\ env[i] \in Nat
  BY BridgeAssumption DEF BridgeTypeOK, Ids
<1>5. \A c \in Codes : TokenOf(c, i) =>
        0 < tokens[c].client /\ tokens[c].client <= nextId /\ tokens[c].client \in Nat
  BY BridgeAssumption DEF IdsDrawn, TokenOf, BridgeTypeOK, Token, Ids
<1>6. ASSUME NEW s \in {"write", "register", "restart", "rollback"}, Migrating(i, s)
      PROVE  /\ Busy(script, i) /\ script.at = s /\ ScriptSound(i)
             /\ script \in Script /\ script.made \in BOOLEAN /\ script.draws \in BOOLEAN
             /\ \A t : script' = [script EXCEPT !.at = t] =>
                  /\ Busy(script', i) /\ script'.at = t /\ script'.old = script.old
                  /\ script'.new = script.new /\ script'.made = script.made
                  /\ script'.draws = script.draws
             /\ script' = [script EXCEPT !.at = "restart", !.made = TRUE] =>
                  /\ Busy(script', i) /\ script'.at = "restart" /\ script'.old = script.old
                  /\ script'.new = script.new /\ script'.made = TRUE
                  /\ script'.draws = script.draws
             /\ script' = Idle => ~Busy(script', i)
  <2>1. Busy(script, i) /\ script.at = s
    BY <1>6 DEF Migrating
  <2>2. script \in Script /\ script.inst = i
    BY <2>1, ScriptOf
  <2>3. ScriptSound(i)
    BY <1>3, <2>1 DEF Sound
  <2> QED
    BY <2>1, <2>2, <2>3 DEF Busy, Script, Idle
<1>7. CASE MigrateBegin(i)
  <2>1. /\ script = Idle /\ ~Busy(work, i) /\ UNCHANGED <<clients, env>>
        /\ inst[i] \in {"active", "stopped"} /\ data[i] = "home"
    BY <1>7 DEF MigrateBegin
  <2>2. RestSound(i)
    BY <1>3, <2>1 DEF Sound, AtRest, Busy
  <2>3. /\ Busy(script', i) /\ script'.at = "write" /\ script'.old = env[i]
        /\ script'.new = IF clients[i] = 0 THEN nextId + 1 ELSE env[i]
        /\ script'.made = FALSE /\ script'.draws = (clients[i] = 0)
    BY <1>7 DEF MigrateBegin, Busy, Idle
  <2>4. ScriptSound(i)'
    <3>1. clients[i] = env[i]
      BY <2>1, <2>2 DEF RestSound
    <3>2. \A c \in Codes : TokenOf(c, i) /\ tokens[c].restored =>
            tokens[c].client \notin {env[i], nextId + 1}
      BY <1>3, <1>4, <1>5 DEF Sound
    <3> QED
      BY <1>1, <2>1, <2>3, <3>1, <3>2 DEF ScriptSound, TokenOf
  <2>5. OldRefused(i)'
    BY <1>1, <1>3, <2>1, OldStayRefused
  <2> QED
    BY <1>1, <2>1, <2>3, <2>4, <2>5 DEF Sound, OldRefused, AtRest, Busy
<1>8. CASE MigrateWrite(i)
  <2>1. Migrating(i, "write")
    BY <1>8 DEF MigrateWrite
  <2>2. /\ \E t \in {"register", "rollback"} : script' = [script EXCEPT !.at = t]
        /\ env'[i] = script.new /\ clients' = clients
    BY <1>6, <1>8, <2>1 DEF MigrateWrite, Step, ScriptSound, BridgeTypeOK
  <2>3. ScriptSound(i)'
    BY <1>1, <1>6, <2>1, <2>2 DEF ScriptSound, TokenOf
  <2>4. OldRefused(i)'
    BY <1>1, <1>6, <2>1, <2>2 DEF ScriptSound, TokenOf, OldRefused
  <2> QED
    BY <1>1, <1>3, <1>6, <2>1, <2>2, <2>3, <2>4, ScriptGoesOn
<1>9. CASE MigrateRegister(i)
  <2>1. Migrating(i, "register")
    BY <1>9 DEF MigrateRegister
  <2>2. /\ env' = env
        /\ \/ ~script.draws /\ script' = [script EXCEPT !.at = "restart"] /\ clients' = clients
           \/ /\ script.draws /\ script' = [script EXCEPT !.at = "restart", !.made = TRUE]
              /\ clients'[i] = script.new
           \/ script.draws /\ script' = [script EXCEPT !.at = "rollback"] /\ clients' = clients
    BY <1>9 DEF MigrateRegister, Step, BridgeTypeOK
  <2>3. ScriptSound(i)'
    BY <1>1, <1>6, <2>1, <2>2 DEF ScriptSound, TokenOf
  <2>4. OldRefused(i)'
    BY <1>1, <1>3, <2>2, OldStayRefused
  <2> QED
    BY <1>1, <1>3, <1>6, <2>1, <2>2, <2>3, <2>4, ScriptGoesOn
<1>10. CASE MigrateRestart(i)
  <2>1. Migrating(i, "restart")
    BY <1>10 DEF MigrateRestart
  <2>2. /\ UNCHANGED <<env, clients>>
        /\ script' = Idle \/ script' = [script EXCEPT !.at = "rollback"]
    BY <1>10 DEF MigrateRestart, Step, instanceVars
  <2>3. ScriptSound(i)' \/ script' = Idle
    BY <1>1, <1>6, <2>1, <2>2 DEF ScriptSound, TokenOf
  <2>4. RestSound(i)'
    BY <1>1, <1>6, <2>1, <2>2 DEF ScriptSound, RestSound
  <2>5. OldRefused(i)'
    BY <1>1, <1>3, <2>2, OldStayRefused
  <2> QED
    BY <1>1, <1>3, <1>6, <2>1, <2>2, <2>3, <2>4, <2>5, ScriptGoesOn
<1>11. CASE MigrateRollback(i)
  <2>1. Migrating(i, "rollback")
    BY <1>11 DEF MigrateRollback
  <2>2. /\ script' = Idle /\ env'[i] = script.old
        /\ clients'[i] = IF script.made THEN 0 ELSE clients[i]
    BY <1>6, <1>11, <2>1 DEF MigrateRollback, ScriptSound, BridgeTypeOK
  <2>3. RestSound(i)'
    BY <1>1, <1>6, <2>1, <2>2 DEF ScriptSound, RestSound
  <2>4. OldRefused(i)'
    BY <1>1, <1>6, <2>1, <2>2 DEF ScriptSound, TokenOf, OldRefused
  <2> QED
    BY <1>1, <1>3, <1>6, <2>1, <2>2, <2>3, <2>4, ScriptGoesOn
<1> QED
  BY <1>7, <1>8, <1>9, <1>10, <1>11 DEF Migration

\* A new token is of the client in the .env of an active instance, for which no
\* restore is under way.
LEMMA RedeemKeeps ==
    ASSUME BridgeInv, NEW i \in Instances, NEW c \in Codes, Redeem(i, c)
    PROVE  IdsDrawn' /\ AllSound'
<1> USE DEF BridgeInv, BridgeTypeOK
<1>1. /\ UNCHANGED <<instanceVars, work, script, doubt>>
      /\ tokens' = [tokens EXCEPT ![c] = [kind |-> "token", inst |-> i, client |-> clients[i],
                      issued |-> tokens[c].issued + 1, restored |-> FALSE]]
      /\ env[i] # 0 /\ clients[i] = env[i] /\ inst[i] = "active"
  BY DEF Redeem, Presents, Redeemable
<1>2. /\ tokens'[c].inst = i /\ tokens'[c].client = env[i] /\ tokens'[c].restored = FALSE
      /\ \A d \in Codes \ {c} : tokens'[d] = tokens[d]
  BY <1>1
<1>3. env[i] \in Nat /\ env[i] <= nextId
  BY BridgeAssumption DEF Ids, IdsDrawn
<1>4. IdsDrawn'
  <2>1. ASSUME NEW d \in Codes, tokens'[d] # NoToken
        PROVE  0 < tokens'[d].client /\ tokens'[d].client <= nextId
    <3>1. CASE d = c
      BY <1>1, <1>2, <1>3, <3>1
    <3>2. CASE d # c
      BY <1>2, <2>1, <3>2 DEF IdsDrawn
    <3> QED
      BY <3>1, <3>2
  <2> QED
    BY <1>1, <2>1 DEF IdsDrawn, instanceVars
<1>5. ASSUME NEW k \in Instances, Sound(k) PROVE Sound(k)'
  <2>1. ASSUME NEW d \in Codes, TokenOf(d, k)', tokens'[d].restored
        PROVE  tokens'[d] = tokens[d] /\ TokenOf(d, k)
    BY <1>2, <2>1 DEF TokenOf
  <2>2. ASSUME NEW d \in Codes, TokenOf(d, k)', inst[k] = "deleted"
        PROVE  tokens'[d] = tokens[d] /\ TokenOf(d, k)
    BY <1>1, <1>2, <2>2 DEF TokenOf
  <2>3. Busy(work, k)' = Busy(work, k) /\ Busy(script, k)' = Busy(script, k)
    BY <1>1 DEF Busy
  <2>4. RestSound(k) => RestSound(k)'
    BY <1>1 DEF RestSound, instanceVars
  <2>5. WorkSound(k) => WorkSound(k)'
    <3>1. MakeSound(k) => MakeSound(k)'
      BY <1>1, <2>2 DEF MakeSound, instanceVars
    <3> QED
      BY <1>1, <3>1 DEF WorkSound, DeleteSound, PurgeSound, instanceVars
  <2>6. ScriptSound(k) => ScriptSound(k)'
    BY <1>1, <2>1 DEF ScriptSound, instanceVars
  <2>7. \A d \in Codes : TokenOf(d, k)' /\ tokens'[d].restored => tokens'[d].client # env'[k]
    BY <1>1, <1>5, <2>1 DEF Sound, instanceVars
  <2> QED
    BY <1>5, <2>3, <2>4, <2>5, <2>6, <2>7 DEF Sound, AtRest
<1> QED
  BY <1>1, <1>4, <1>5 DEF AllSound

------------------------------------------------------------------------------
(* The theorems *)

LEMMA StepBridge ==
    ASSUME BridgeInv, [BridgeNext]_bridgeVars
    PROVE  BridgeInv'
<1>1. CASE UNCHANGED bridgeVars
  <2>1. UNCHANGED <<instanceVars, work, script, tokens, doubt>>
    BY <1>1 DEF bridgeVars
  <2>2. IdsDrawn' /\ AllSound'
    BY <2>1, QuietKeeps
  <2>3. BridgeTypeOK' /\ CodesBacked'
    BY <1>1 DEF bridgeVars, sessionVars, instanceVars, BridgeInv, BridgeTypeOK, CodesBacked, Granted,
                Present
  <2> QED
    BY <2>2, <2>3 DEF BridgeInv
<1>2. CASE Sessions
  <2>1. UNCHANGED <<instanceVars, work, script, tokens, doubt>>
    BY <1>2 DEF Sessions, SignOn, SessionLapses, Administer
  <2> QED
    BY <1>2, <2>1, QuietKeeps, SessionsTyped, SessionsKeepCodes DEF BridgeInv
<1>3. CASE ExecutorDies
  BY <1>3, BridgeTyped, ExecutorDiesSound DEF BridgeNext, BridgeInv
<1>4. ASSUME NEW c \in Codes, CodeExpires(c) PROVE BridgeInv'
  <2>1. /\ UNCHANGED <<instanceVars, work, script, tokens, doubt, rows>>
        /\ \A d \in Codes : grants'[d] = IF d = c THEN Gone ELSE grants[d]
    BY <1>4 DEF CodeExpires, Without, sessionVars
  <2>2. Gone # Fresh /\ Gone.kind # "grant"
    BY DEF Gone, Fresh
  <2>3. CodesBacked'
    BY <2>1, <2>2 DEF BridgeInv, CodesBacked, Granted, Present
  <2> QED
    BY <1>4, <2>1, <2>3, BridgeTyped, QuietKeeps DEF BridgeNext, BridgeInv
<1>5. ASSUME NEW i \in Instances, Bridge(i) PROVE BridgeInv'
  <2>1. (\E c \in Codes : Redeem(i, c)) \/ UNCHANGED <<instanceVars, work, script, tokens, doubt>>
    BY <1>5 DEF Bridge, SetMember, RemoveMember, Authorize
  <2>2. IdsDrawn' /\ AllSound'
    BY <2>1, RedeemKeeps, QuietKeeps
  <2> QED
    BY <1>5, <2>2, MembersTyped, MembersKeepCodes DEF BridgeInv
<1>6. ASSUME NEW i \in Instances, Executor(i) PROVE BridgeInv'
  BY <1>6, ExecutorTyped, ExecutorIsLocal, ExecutorDraws, ExecutorSound, LocalKeepsCodes DEF BridgeInv
<1>7. ASSUME NEW i \in Instances, Migration(i) PROVE BridgeInv'
  BY <1>7, MigrationTyped, MigrationIsLocal, MigrationDraws, MigrationSound, LocalKeepsCodes
     DEF BridgeInv
<1> QED
  BY <1>1, <1>2, <1>3, <1>4, <1>5, <1>6, <1>7 DEF BridgeNext

\* Clients, codes, tokens, files and sessions stay together for any users,
\* instances, codes and number of faults.
THEOREM BridgeSafe == BridgeSpec => []BridgeInv
<1>1. BridgeInit => BridgeInv
  BY InitBridge
<1>2. BridgeInv /\ [BridgeNext]_bridgeVars => BridgeInv'
  BY StepBridge
<1> QED
  BY <1>1, <1>2, PTL DEF BridgeSpec

\* The bridge's state is well typed.
THEOREM BridgeTypeCorrect == BridgeSpec => []BridgeTypeOK
<1>1. BridgeInv => BridgeTypeOK
  BY DEF BridgeInv
<1> QED
  BY <1>1, BridgeSafe, PTL

\* An instance that rests, and that no fault and no script came between, is
\* registered with the client of its own .env, or with none when it is not in use.
THEOREM CredentialsMatch == BridgeSpec => []CredentialMatches
<1>1. BridgeInv => CredentialMatches
  <2> SUFFICES ASSUME BridgeInv, NEW i \in Instances, AtRest(i), i \notin doubt
               PROVE  /\ inst[i] \in {"active", "stopped"} => clients[i] = env[i] /\ data[i] = "home"
                      /\ inst[i] \in {"deleted", "failed"} => clients[i] = 0
    BY DEF CredentialMatches
  <2>1. RestSound(i)
    BY DEF BridgeInv, AllSound, Sound
  <2> QED
    BY <2>1 DEF RestSound
<1> QED
  BY <1>1, BridgeSafe, PTL

\* A restored instance refuses the tokens of its life before the deletion:
\* every restore, whatever was retried, put a client into .env that no token
\* has ever had, or none.
THEOREM RestoredForgets == BridgeSpec => []RestoredForgetsTokens
<1>1. BridgeInv => RestoredForgetsTokens
  <2> SUFFICES ASSUME BridgeInv, NEW i \in Instances, NEW c \in Codes, Accepted(i, c),
                      i \notin doubt, tokens[c].restored
               PROVE  FALSE
    BY DEF RestoredForgetsTokens
  <2>1. TokenOf(c, i) /\ env[i] = tokens[c].client
    BY DEF Accepted, TokenOf
  <2> QED
    BY <2>1 DEF BridgeInv, AllSound, Sound
<1> QED
  BY <1>1, BridgeSafe, PTL

\* What issues a token is the redemption of its code, and nothing else.
LEMMA OnlyRedeemIssues ==
    ASSUME BridgeInv, [BridgeNext]_bridgeVars, NEW c \in Codes,
           tokens'[c].issued # tokens[c].issued
    PROVE  \E i \in Instances : Redeem(i, c)
<1>1. ASSUME NEW i \in Instances, LocalTo(i) PROVE FALSE
  <2>1. TokenOf(c, i) /\ tokens'[c] = [tokens[c] EXCEPT !.restored = TRUE]
    BY <1>1 DEF LocalTo
  <2>2. tokens[c] \in Token
    BY <2>1 DEF TokenOf, BridgeInv, BridgeTypeOK
  <2> QED
    BY <2>1, <2>2 DEF Token
<1>2. tokens' # tokens
  OBVIOUS
<1>3. ~(UNCHANGED bridgeVars) /\ ~Sessions /\ ~ExecutorDies /\ \A d \in Codes : ~CodeExpires(d)
  BY <1>2 DEF bridgeVars, Sessions, SignOn, SessionLapses, Administer, ExecutorDies, CodeExpires
<1>4. \A i \in Instances : ~Executor(i) /\ ~Migration(i)
  BY <1>1, ExecutorIsLocal, MigrationIsLocal DEF BridgeInv
<1>5. PICK i \in Instances : Bridge(i)
  BY <1>3, <1>4 DEF BridgeNext
<1>6. PICK d \in Codes : Redeem(i, d)
  BY <1>2, <1>5 DEF Bridge, SetMember, RemoveMember, Authorize
<1>7. d = c
  BY <1>6 DEF Redeem, BridgeInv, BridgeTypeOK
<1> QED
  BY <1>6, <1>7

\* A token is issued once per code, and only while session, user, instance and
\* client of that code are all there.
THEOREM TokensStayBacked == BridgeSpec => TokensBacked
<1> DEFINE Backed(c) == /\ tokens'[c].issued = 1
                        /\ Present(grants[c].cookie) /\ rows[grants[c].cookie].user = grants[c].user
                        /\ grants[c].user \in standing
                        /\ inst[tokens'[c].inst] = "active"
                        /\ clients[tokens'[c].inst] = tokens'[c].client
<1>1. ASSUME BridgeInv, [BridgeNext]_bridgeVars, NEW c \in Codes,
             tokens'[c].issued # tokens[c].issued
      PROVE  Backed(c)
  <2>1. PICK i \in Instances : Redeem(i, c)
    BY <1>1, OnlyRedeemIssues
  <2>2. Granted(c) /\ ~grants[c].used /\ grants[c].user \in standing /\ inst[i] = "active"
    BY <2>1 DEF Redeem, Presents, Redeemable
  <2>3. tokens[c] = NoToken /\ Present(grants[c].cookie) /\ rows[grants[c].cookie].user = grants[c].user
    BY <1>1, <2>2 DEF BridgeInv, CodesBacked
  <2>4. tokens'[c] = [kind |-> "token", inst |-> i, client |-> clients[i],
                      issued |-> tokens[c].issued + 1, restored |-> FALSE]
    BY <1>1, <2>1 DEF Redeem, BridgeInv, BridgeTypeOK
  <2>5. tokens'[c].issued = 1
    BY <2>3, <2>4 DEF NoToken
  <2> QED
    BY <2>2, <2>3, <2>4, <2>5
<1>2. BridgeInv /\ [BridgeNext]_bridgeVars
        => [\A c \in Codes : tokens'[c].issued # tokens[c].issued => Backed(c)]_bridgeVars
  BY <1>1
<1> QED
  BY <1>2, BridgeSafe, PTL DEF BridgeSpec, TokensBacked
==============================================================================
