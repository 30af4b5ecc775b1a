------------------------------ MODULE HostEnds ------------------------------
(***************************************************************************)
(* What an operation of a product's adapter may leave of an instance on    *)
(* the host.  ManagerSystem takes an operation as one step with one of     *)
(* these ends; Adapters shows that the adapters, command by command, come  *)
(* to no other.  An instance is described by a record s with               *)
(*   product                                                               *)
(*   runtime  what there is of it: see below                               *)
(*   husk     TRUE if the recycle bin has an entry for it without its data *)
(*   taken    TRUE if another instance has its port by now                 *)
(***************************************************************************)

\* "archived": data and deployment in the recycle bin ("_off": of a stopped
\* instance); "buried": so, but under a newer, empty entry; "broken": some
\* containers or files are missing
Deployed == {"up", "stopped", "broken"}
Archived == {"archived", "archived_off"}
Runtime  == {"none", "buried"} \cup Deployed \cup Archived

Script(s) == s.product = "openclaw"

CreateEnds(s) == IF s.runtime = "none" THEN {"up"} ELSE {}

\* delete_user.sh makes a recycle entry even for a directory that is missing.
ScriptDeletes(s) ==
  IF s.runtime \in Deployed THEN "archived"
  ELSE IF s.runtime = "archived" THEN "buried" ELSE s.runtime

\* The Hermes and EvoScientist adapters refuse when an entry exists or the
\* deployment cannot be inspected, and note whether it was running.
AdapterDeletes(s) ==
  IF s.husk THEN {}
  ELSE CASE s.runtime = "up"      -> {"archived"}
         [] s.runtime = "stopped" -> {"archived_off"}
         [] s.runtime = "broken"  -> Archived
         [] OTHER                 -> {}

DeleteEnds(s) == IF Script(s) THEN {ScriptDeletes(s)} ELSE AdapterDeletes(s)

\* What an earlier restore by an adapter left can be restored once more, or be
\* put back in order by the roll-back of the attempt.
Halfway(s) == ~Script(s) /\ s.husk /\ s.runtime \in Deployed

\* OpenClaw's container can go on without its data.
Remains(s) == IF Script(s) /\ s.runtime = "broken" THEN {"broken"} ELSE {}

RestoreEnds(s) ==
  IF s.product # "hermes" /\ s.taken THEN {}
  ELSE CASE s.runtime = "archived"     -> {"up"}
         [] s.runtime = "archived_off" -> {"stopped"}
         [] Halfway(s)                 -> {"up", "stopped"}
         [] Remains(s) # {}            -> {"up"}
         [] OTHER                      -> {}

\* The newest recycle entry goes, whatever it holds.
PurgeEnds(s) ==
  CASE s.runtime \in Archived -> {"none"}
    [] s.runtime = "buried"   -> {"archived", "buried"}
    [] s.runtime = "broken" /\ (s.husk \/ Script(s))       -> {"broken", "none"}
    [] s.runtime \in {"none", "up", "stopped"} /\ s.husk   -> {s.runtime}
    [] OTHER                  -> {}

\* cleanup_failed removes the containers; files that are left are not counted
CleanupEnds(s) == {IF s.runtime \in Deployed THEN "none" ELSE s.runtime}

\* the operations on what runs or could run
Serves(s, a) ==
  CASE a \in {"start", "restart"} -> {"up"} \cup Remains(s)
    [] a = "stop"                 -> {"stopped"} \cup Remains(s)
    [] a = "update_version" /\ s.runtime = "broken" -> {"up", "stopped"} \cup Remains(s)
    [] OTHER                      -> {s.runtime}

\* what is left after the operation returned 0 (empty: it cannot)
Succeeds(s, a) ==
  CASE a = "create"               -> CreateEnds(s)
    [] a = "delete"               -> DeleteEnds(s)
    [] a = "restore"              -> RestoreEnds(s)
    [] a = "purge_deleted"        -> PurgeEnds(s)
    [] a = "cleanup_failed"       -> CleanupEnds(s)
    [] a = "set_basic_auth"       -> {s.runtime}
    [] OTHER                      -> IF s.runtime \in Deployed THEN Serves(s, a) ELSE {}

\* after it returned 0 although a command failed: EvoScientist's stop of what had
\* been stopped before, OpenClaw's docker compose down
Slackens(s, a) ==
  CASE Script(s) /\ a = "delete" /\ s.runtime \in Deployed -> {"broken"}
    [] s.product = "evoscientist" /\ a = "restore" /\ ~s.taken
         /\ (s.runtime = "archived_off" \/ Halfway(s))                      -> {"up", "broken"}
    [] s.product = "evoscientist" /\ a = "update_version"
         /\ s.runtime \in {"stopped", "broken"}                            -> {"up", "broken"}
    [] OTHER -> {}

\* delete_user.sh may have moved everything before its nginx step fails, the
\* Hermes adapter before the networks' time-out
DeleteFails(s) ==
  (IF s.product # "evoscientist" THEN DeleteEnds(s) ELSE {}) \cup
  (IF s.runtime \in Deployed THEN Deployed ELSE {})

\* The data are moved back first; OpenClaw's container is started, too, before
\* nginx is tested, and the roll-back only undoes the nginx files.
RestoreFails(s) ==
  CASE s.runtime \in Archived \/ Remains(s) # {} -> Deployed
    [] Halfway(s)             -> Deployed \cup Archived
    [] OTHER                  -> {}

\* some containers done, or a roll-back that failed or cannot put back a stop
OthersFail(s) == IF s.runtime \in Deployed THEN Deployed ELSE {}

\* after it returned another code or raised: as before, or what the roll-back,
\* if there is one, could not put right
Fails(s, a) ==
  {s.runtime} \cup
  CASE a = "create"         -> IF s.runtime = "none" THEN Deployed ELSE {}
    [] a = "delete"         -> DeleteFails(s)
    [] a = "restore"        -> RestoreFails(s)
    [] a = "cleanup_failed" -> OthersFail(s) \cup CleanupEnds(s)
    [] a \in {"start", "stop", "restart", "update_version"} -> OthersFail(s)
    [] a = "purge_deleted"  -> IF s.runtime \in Archived \cup {"broken"} THEN {"none", "broken"} ELSE {}
    [] OTHER                -> {}

\* the recycle entries without data, once the operation left x on the host
HuskAfter(s, a, x, succeeded) ==
  CASE a = "restore" /\ x \in Deployed ->
         IF Script(s) THEN {TRUE} \cup (IF succeeded THEN {} ELSE {s.husk})
         ELSE {FALSE} \cup (IF succeeded THEN {} ELSE {TRUE})
    [] a = "restore" /\ x \in Archived -> {s.husk /\ Script(s)}
    [] a = "delete" /\ Script(s) /\ x \in {"none", "buried"} -> {TRUE}
    [] a = "delete" /\ Script(s) /\ x \in Deployed -> {s.husk, TRUE}
    [] a = "delete" /\ ~Script(s) /\ ~succeeded -> {s.husk, TRUE}
    [] a = "purge_deleted" /\ x # s.runtime /\ ~succeeded -> {TRUE}
    [] a = "purge_deleted" /\ x = s.runtime /\ Remains(s) # {} /\ ~succeeded -> {s.husk, TRUE}
    [] a = "purge_deleted" /\ succeeded /\ s.runtime \notin Archived -> {s.husk, FALSE}
    [] OTHER -> {s.husk}

Ends(s, a, X, succeeded) ==
  UNION {[runtime : {x}, husk : HuskAfter(s, a, x, succeeded)] : x \in X}

GoodEnds(s, a)  == Ends(s, a, Succeeds(s, a), TRUE)
SlackEnds(s, a) == Ends(s, a, Slackens(s, a), TRUE)
BadEnds(s, a)   == Ends(s, a, Fails(s, a), FALSE)
\* the operation is cut off
CutEnds(s, a)   == GoodEnds(s, a) \cup BadEnds(s, a)
=============================================================================
