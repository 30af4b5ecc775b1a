--------------------------- MODULE OpenClawAdapter ---------------------------
(***************************************************************************)
(* OpenClawDockerAdapter and its scripts: a container by docker compose,   *)
(* published by the shared Nginx.  create_user.sh, delete_user.sh and      *)
(* restore_user.sh stop at the first command that fails (set -e) unless    *)
(* they say otherwise; a time-out of the adapter ends them anywhere.       *)
(***************************************************************************)
EXTENDS AdapterHost

\* docker compose up -d in the data directory
Composed == IF host.net /\ host.home = Parts
            THEN {[host EXCEPT !.main = "running", !.image = host.file]} ELSE {}
HalfComposed == {[host EXCEPT !.main = "none"],
                 [host EXCEPT !.main = "stopped", !.image = host.file]}

\* remove_tenant_network_if_unused
Unneeded == {[host EXCEPT !.net = @ /\ (host.main # "none" \/ host.linked)]}

------------------------------------------------------------------------------
(* start and stop with the site *)

EnableConf ==
  \/ "active" \in host.conf /\ Decides("enable", "ok", kept)
  \/ host.conf = {} /\ Decides("enable", "fail", kept)
  \/ host.conf = {"disabled"} /\ Writes("enable", [host EXCEPT !.conf = {"active"}], {}, "enable.reload", "raise")
  \/ Runs("enable.reload", Reloaded, {}, "ok", "enable.undo", "raise")
  \/ Writes("enable.undo", [host EXCEPT !.conf = {"disabled"}], {}, "enable.again", "raise")
  \/ Tries("enable.again", Reloaded, kept, "fail", "raise")

DisableConf ==
  \/ "active" \notin host.conf /\ Decides("disable", "ok", kept)
  \/ host.conf = {"active", "disabled"} /\ Decides("disable", "fail", kept)
  \/ host.conf = {"active"} /\ Writes("disable", [host EXCEPT !.conf = {"disabled"}], {}, "disable.reload", "raise")
  \/ Runs("disable.reload", Reloaded, {}, "ok", "disable.undo", "raise")
  \/ Writes("disable.undo", [host EXCEPT !.conf = {"active"}], {}, "disable.again", "raise")
  \/ Tries("disable.again", Reloaded, kept, "fail", "raise")

ClawStart ==
  \/ Runs("start", Started("main"), {}, "start.link", "fail", "raise")
  \/ Runs("start.link", {[host EXCEPT !.linked = TRUE]}, {}, "start.enable", "start.stop", "raise")
  \/ Calls("start.enable", "enable", kept, "ok", "start.stop", "raise")
  \/ Tries("start.stop", Stopped("main"), kept, "fail", "raise")

ClawStop ==
  \/ Calls("stop", "disable", kept, "stop.main", "fail", "raise")
  \/ Runs("stop.main", Stopped("main"), {}, "ok", "stop.enable", "raise")
  \/ Calls("stop.enable", "enable", kept, "fail", "fail", "raise")

ClawRestart == Runs("restart", Started("main"), {}, "ok", "fail", "raise")

------------------------------------------------------------------------------
(* create_user.sh with its exit trap, and what the executor does around it *)

ClawCreate ==
  \/ Runs("create", {[host EXCEPT !.net = TRUE]}, {}, "create.port", "fail", "raise")
  \/ Runs("create.port", {host}, {}, "create.files", "fail", "raise")
  \/ Writes("create.files", [host EXCEPT !.home = Parts, !.file = "old"], {}, "create.conf", "create.undo")
  \/ Writes("create.conf", [host EXCEPT !.conf = {"active"}], {}, "create.mapping", "create.undo")
  \/ Writes("create.mapping", [host EXCEPT !.mapped = TRUE], {}, "create.run", "create.undo")
  \/ Runs("create.run", Composed, HalfComposed, "create.link", "create.undo", "raise")
  \/ Runs("create.link", {[host EXCEPT !.linked = TRUE]}, {}, "create.publish", "create.undo", "raise")
  \* reload_nginx_after_create
  \/ Runs("create.publish", Applied, Applied, "create.reload", "create.retract", "raise")
  \/ Runs("create.reload", Reloaded, {}, "ok", "create.retract", "raise")
  \/ Calls("create.retract", "delete", NoLocals, "rolledback", "manual", "raise")

\* cleanup_on_exit
ClawCreateUndo ==
  \/ Tries("create.undo", {[host EXCEPT !.linked = FALSE]}, kept, "create.undo.run", "raise")
  \/ Tries("create.undo.run", Removed({"main"}), kept, "create.undo.net", "raise")
  \/ Tries("create.undo.net", Unneeded, kept, "create.undo.mapping", "raise")
  \/ Tries("create.undo.mapping", {[host EXCEPT !.mapped = FALSE]}, kept, "create.undo.conf", "raise")
  \/ Writes("create.undo.conf", [host EXCEPT !.conf = {}], {}, "create.undo.files", "fail")
  \/ Writes("create.undo.files", [host EXCEPT !.home = {}, !.file = "unset"], {}, "rolledback", "fail")

------------------------------------------------------------------------------
(* delete_user.sh: each run makes a recycle entry of its own *)

NewEntry ==
  [host EXCEPT !.recycle = "dir", !.bin = {}, !.site = FALSE,
     !.older = @ \cup (IF host.recycle = "none" THEN {}
                     ELSE IF host.bin = Parts THEN {"data"} ELSE {"empty"})]

\* the site, enabled or not
SiteMoved ==
  [host EXCEPT !.conf = IF "active" \in @ THEN @ \ {"active"} ELSE {}, !.site = host.conf # {}]

ClawDelete ==
  \/ Decides("delete", IF host.home = Parts THEN "delete.unlink" ELSE "delete.entry", kept)
  \/ Tries("delete.unlink", {[host EXCEPT !.linked = FALSE]}, kept, "delete.down", "raise")
  \/ Tries("delete.down", Removed({"main"}), kept, "delete.net", "raise")
  \/ Tries("delete.net", Unneeded, kept, "delete.entry", "raise")
  \/ Writes("delete.entry", NewEntry, {}, "delete.move", "fail")
  \/ Moves("delete.move", host.home, "home", "bin", "delete.conf", "fail")
  \/ Writes("delete.conf", SiteMoved, {}, "delete.mapping", "fail")
  \/ Writes("delete.mapping", [host EXCEPT !.mapped = FALSE], {}, "delete.apply", "fail")
  \/ Runs("delete.apply", Applied, Applied, "delete.reload", "fail", "raise")
  \/ Runs("delete.reload", Reloaded, {}, "delete.row", "fail", "raise")
  \* set-instance-status, which a creation that is taken back skips
  \/ Decides("delete.row", IF op = "create" THEN "ok" ELSE "delete.written", kept)
  \/ Tries("delete.row", {host}, kept, "ok", "raise")
  \/ Decides("delete.written", "ok", kept)

------------------------------------------------------------------------------
(* restore_user.sh: the newest entry, which stays when its data have gone *)

Restorable ==
  /\ host.recycle # "none" /\ host.bin = Parts /\ host.site
  /\ host.home = {} /\ "active" \notin host.conf /\ ~host.mapped

ClawRestore ==
  \/ Decides("restore", IF Restorable THEN "restore.move" ELSE "fail", kept)
  \/ Moves("restore.move", host.bin, "bin", "home", "restore.net", "fail")
  \/ Runs("restore.net", {[host EXCEPT !.net = TRUE]}, {}, "restore.conf", "fail", "raise")
  \/ Writes("restore.conf", [host EXCEPT !.conf = @ \cup {"active"}, !.site = FALSE], {}, "restore.mapping", "fail")
  \/ Writes("restore.mapping", [host EXCEPT !.mapped = TRUE], {}, "restore.run", "fail")
  \/ Runs("restore.run", Composed, HalfComposed, "restore.link", "fail", "raise")
  \/ Runs("restore.link", {[host EXCEPT !.linked = TRUE]}, {}, "restore.apply", "fail", "raise")
  \/ Runs("restore.apply", Applied, Applied, "restore.test", "fail", "raise")
  \* the upstream migrated, nginx -t
  \/ Runs("restore.test", {host}, {}, "restore.reload", "restore.undo", "raise")
  \/ Runs("restore.reload", Reloaded, {}, "restore.row", "fail", "raise")
  \* rollback_nginx_config
  \/ Writes("restore.undo", [host EXCEPT !.mapped = FALSE], {}, "restore.undo.conf", "fail")
  \/ Writes("restore.undo.conf", [host EXCEPT !.conf = @ \ {"active"}, !.site = TRUE], {},
            "restore.undo.apply", "fail")
  \/ Tries("restore.undo.apply", Applied, kept, "fail", "raise")
  \* set-instance-status
  \/ Decides("restore.row", "restore.written", kept)
  \/ Tries("restore.row", {host}, kept, "ok", "raise")
  \/ Decides("restore.written", "ok", kept)

------------------------------------------------------------------------------
(* purge_deleted: the newest entry, whatever is in it *)

\* an older entry is the newest now
Uncovered(k) ==
  [host EXCEPT !.recycle = "dir", !.bin = IF k = "data" THEN Parts ELSE {}, !.site = FALSE]

\* A changed version of Purged: every entry of the instance goes.
MutPurgesAll == {[host EXCEPT !.recycle = "none", !.bin = {}, !.site = FALSE, !.older = {}]}

\* rmtree of the newest entry
Purged ==
  IF host.older = {} THEN {[host EXCEPT !.recycle = "none", !.bin = {}, !.site = FALSE]}
  ELSE UNION {{[Uncovered(k) EXCEPT !.older = @ \ gone] : gone \in {{}, {k}}} : k \in host.older}

ClawPurge ==
  \/ Decides("purge_deleted", IF host.recycle = "none" THEN "fail" ELSE "purge.tree", kept)
  \/ /\ pc = "purge.tree"
     /\ \/ host' \in Purged /\ To("ok", kept) /\ UNCHANGED faults
        \/ Fault /\ host' \in {host, [host EXCEPT !.bin = {}, !.site = FALSE]} /\ To("fail", kept)

------------------------------------------------------------------------------
(* update_instance_version.sh with its exit trap *)

Old == Locals([image |-> host.file])

ClawUpdate ==
  \/ Decides("update_version", IF host.home = {} THEN "fail"
                               ELSE IF host.file = "new" THEN "ok" ELSE "update.look", kept)
  \* the image is there, the files are saved, the container runs
  \/ Reads("update.look", host.main = "running", Old, "update.file", "fail", "raise")
  \/ Writes("update.file", [host EXCEPT !.file = "new"], {}, "update.run", "update.undo")
  \/ Runs("update.run", Composed, HalfComposed, "update.wait", "update.undo", "update.undo")
  \* state and checks, the model provider put back if it is missing
  \/ Reads("update.wait", AllUp({"main"}), kept, "ok", "update.undo", "update.undo")
  \* rollback_upgrade: the old container is not started when its data are not back
  \/ Writes("update.undo", [host EXCEPT !.file = kept.image], {}, "update.undo.data", "fail")
  \/ Runs("update.undo.data", {host}, {}, "update.undo.run", "fail", "raise")
  \/ Runs("update.undo.run", Composed, HalfComposed, "rolledback", "fail", "raise")

------------------------------------------------------------------------------
ClawBegin ==
  \E a \in {"create", "delete", "restore", "purge_deleted", "update_version", "start", "stop", "restart"} :
    /\ Admitted(a) /\ Begin(a)
    /\ a = "start" => host.main # "running"
    /\ a = "stop" => host.main = "running"

ClawStep ==
  \/ EnableConf \/ DisableConf
  \/ ClawStart \/ ClawStop \/ ClawRestart
  \/ ClawCreate \/ ClawCreateUndo
  \/ ClawDelete \/ ClawRestore \/ ClawPurge
  \/ ClawUpdate

ClawNext == product = "openclaw" /\ (ClawBegin \/ ClawStep \/ Killed)
=============================================================================
