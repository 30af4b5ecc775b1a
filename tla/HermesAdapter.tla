---------------------------- MODULE HermesAdapter ----------------------------
(***************************************************************************)
(* HermesDockerAdapter: one container, published by the shared Nginx.      *)
(***************************************************************************)
EXTENDS AdapterHost

\* site and port mapping, noted by delete and restore and put back
NoteIngress == [conf |-> host.conf, mapped |-> host.mapped]
OldIngress  == [host EXCEPT !.conf = kept.conf, !.mapped = kept.mapped]

------------------------------------------------------------------------------
(* Functions that operations call *)

\* _wait_for_dashboard; that it cannot give the manager access is a warning only
WaitForDashboard(at, next, bad, exc) == Reads(at, AllUp({"main"}), kept, next, bad, exc)

\* stop: the site is disabled first
HermesStop ==
  \/ "active" \notin host.conf /\ Decides("stop", "stop.main", kept)
  \/ "active" \in host.conf /\ Writes("stop", [host EXCEPT !.conf = {"disabled"}], {}, "stop.reload", "raise")
  \/ Runs("stop.reload", Reloaded, {}, "stop.main", "stop.back", "raise")
  \/ Writes("stop.back", [host EXCEPT !.conf = {"active"}], {}, "stop.again", "raise")
  \/ Runs("stop.main", Stopped("main"), {}, "ok",
          IF "disabled" \in host.conf THEN "stop.back" ELSE "fail", "raise")
  \/ Tries("stop.again", Reloaded, kept, "fail", "raise")

HermesStart ==
  \/ Runs("start", Started("main"), {}, "start.wait", "fail", "raise")
  \/ WaitForDashboard("start.wait",
           IF "disabled" \in host.conf THEN "start.enable" ELSE "ok", "start.stop", "raise")
  \/ Writes("start.enable", [host EXCEPT !.conf = {"active"}], {}, "start.reload", "raise")
  \/ Runs("start.reload", Reloaded, {}, "ok", "start.disable", "raise")
  \/ Writes("start.disable", [host EXCEPT !.conf = {"disabled"}], {}, "start.stop", "raise")
  \/ Tries("start.stop", Stopped("main"), kept, "fail", "raise")

HermesRestart ==
  \/ Runs("restart", Started("main"), {}, "restart.wait", "fail", "raise")
  \/ WaitForDashboard("restart.wait", "ok", "fail", "raise")

\* configure_ingress, which is the job refresh_ingress too
HermesIngress ==
  \/ Reads("ingress", host.main # "none", Locals([inner |-> NoteIngress]), "ingress.write", "fail", "raise")
  \/ Writes("ingress.write", [host EXCEPT !.conf = @ \cup {"active"}, !.mapped = TRUE],
            {[host EXCEPT !.conf = @ \cup {"active"}]}, "ingress.apply", "ingress.undo")
  \/ Runs("ingress.apply", Applied, Applied, "ingress.reload", "ingress.undo", "ingress.undo")
  \/ Runs("ingress.reload", Reloaded, {}, "ok", "ingress.undo", "ingress.undo")
  \/ Writes("ingress.undo", [host EXCEPT !.conf = kept.inner.conf, !.mapped = kept.inner.mapped], {},
            "ingress.undo.apply", "raise")
  \/ Tries("ingress.undo.apply", Applied, kept, "ingress.undo.reload", "raise")
  \/ Tries("ingress.undo.reload", Reloaded, kept, "fail", "raise")
  \/ Calls("refresh_ingress", "ingress", kept, "ok", "fail", "raise")

\* _restore_hermes_runtime
HermesRuntime ==
  \/ Runs("runtime", {[host EXCEPT !.net = TRUE]}, {}, "runtime.run", "fail", "raise")
  \/ Runs("runtime.run", RanMain(kept.image), CreatedMain(kept.image), "runtime.wait", "fail", "raise")
  \/ WaitForDashboard("runtime.wait", "runtime.link", "fail", "raise")
  \/ Runs("runtime.link", {[host EXCEPT !.linked = TRUE]}, {}, "runtime.ingress", "fail", "raise")
  \/ Calls("runtime.ingress", "ingress", kept, IF kept.running THEN "ok" ELSE "runtime.stop", "fail", "raise")
  \/ Calls("runtime.stop", "stop", kept, "ok", "fail", "raise")

------------------------------------------------------------------------------
(* create, and what the executor does around it *)

HermesCreate ==
  \/ Writes("create", [host EXCEPT !.home = Parts], {}, "create.look", "create.undo")
  \/ Tries("create.look", {host}, Locals([net |-> host.net]), "create.net", "create.undo")
  \/ Runs("create.net", {[host EXCEPT !.net = TRUE]}, {}, "create.port", "create.undo.same", "create.undo.same")
  \* the port, the files of the UIS provider and the client Control registers
  \/ Runs("create.port", {host}, {}, "create.run", "create.undo", "create.undo")
  \/ Runs("create.run", RanMain("old"), CreatedMain("old"), "create.wait", "create.undo", "create.undo")
  \/ WaitForDashboard("create.wait", "create.publish", "create.undo", "create.undo")
  \* created_network is set when prepare_tenant_networks has returned
  \/ Decides("create.undo.same", "create.undo", Locals([net |-> TRUE]))
  \/ Tries("create.undo", Removed({"main"}), kept, "create.undo.files", "raise")
  \/ Tries("create.undo.files", {[host EXCEPT !.home = {}]}, kept, "create.undo.net", "create.undo.net")
  \/ kept.net /\ Decides("create.undo.net", "rolledback", kept)
  \/ ~kept.net /\ Tries("create.undo.net", {[host EXCEPT !.net = FALSE]}, kept, "rolledback", "raise")
  \/ Calls("create.publish", "ingress", NoLocals, "ok", "create.retract", "raise")
  \/ Calls("create.retract", "delete", NoLocals, "rolledback", "manual", "raise")

------------------------------------------------------------------------------
(* delete: ingress, container, data, networks; each failure is rolled back *)

HermesDelete ==
  \/ Decides("delete", IF host.home = Parts /\ host.recycle = "none" THEN "delete.inspect" ELSE "fail", kept)
  \/ Reads("delete.inspect", host.main # "none",
           Locals([image |-> host.image, running |-> host.main = "running",
                   conf |-> host.conf, mapped |-> host.mapped]),
           "delete.ingress", "fail", "raise")
  \/ Writes("delete.ingress", [host EXCEPT !.conf = {}, !.mapped = FALSE],
            {[host EXCEPT !.conf = {}]}, "delete.reload", "raise")
  \/ Runs("delete.reload", Reloaded, {}, "delete.remove", "delete.back", "raise")
  \/ Runs("delete.remove", Removed({"main"}), {}, "delete.entry", "delete.back", "raise")
  \/ Writes("delete.back", OldIngress, {}, "delete.again", "raise")
  \/ Tries("delete.again", Reloaded, kept, "fail", "raise")
  \/ Writes("delete.entry", [host EXCEPT !.recycle = "dir"], {}, "delete.move", "delete.undo")
  \/ Moves("delete.move", host.home, "home", "bin", "delete.list", "delete.undo")
  \/ Writes("delete.list", [host EXCEPT !.recycle = "listed",
                              !.note = [image |-> kept.image, running |-> kept.running]],
            {}, "delete.unlink", "delete.undo")
  \* the shared services leave the tenant network, then it goes; a network that
  \* one of them is still in cannot go
  \/ Runs("delete.unlink", {[host EXCEPT !.linked = FALSE]}, {[host EXCEPT !.linked = FALSE]},
          "delete.net", "delete.undo", "raise")
  \/ Runs("delete.net", {[host EXCEPT !.net = FALSE]}, {}, "ok", "delete.undo", "raise")

\* A changed version of EntryGone: the manifest goes, the directory stays.
MutEntryStays == [host EXCEPT !.recycle = "dir", !.note = NoNote]

\* what is left of the recycle entry goes
EntryGone == [host EXCEPT !.recycle = "none", !.note = NoNote, !.bin = {}]

HermesDeleteUndo ==
  \/ Moves("delete.undo", host.bin \ host.home, "bin", "home", "delete.undo.entry", "raise")
  \/ Tries("delete.undo.entry", {EntryGone}, kept, "delete.undo.runtime", "delete.undo.runtime")
  \/ Calls("delete.undo.runtime", "runtime", kept, "rolledback", "manual", "raise")

------------------------------------------------------------------------------
(* restore *)

HermesRestore ==
  \/ Decides("restore", IF host.home = {} /\ host.bin = Parts /\ host.recycle = "listed"
                        THEN "restore.look" ELSE "fail", kept)
  \/ Reads("restore.look", TRUE,
           Locals([image |-> host.note.image, running |-> host.note.running, net |-> host.net,
                   linked |-> host.linked, conf |-> host.conf, mapped |-> host.mapped]), "restore.move", "fail", "raise")
  \/ Moves("restore.move", host.bin, "bin", "home", "restore.client", "restore.undo")
  \* the new client in .env and at Control
  \/ Writes("restore.client", host, {}, "restore.runtime", "restore.undo")
  \/ Calls("restore.runtime", "runtime", kept, "restore.entry", "restore.undo", "restore.undo")
  \/ Writes("restore.entry", [host EXCEPT !.recycle = "none", !.note = NoNote],
            {[host EXCEPT !.recycle = "dir", !.note = NoNote]}, "ok", "restore.undo")

Failed == Locals([failed |-> TRUE])

HermesRestoreUndo ==
  \/ Runs("restore.undo", Removed({"main"}), {}, "restore.undo.files", "restore.undo.failed", "raise")
  \/ Decides("restore.undo.failed", "restore.undo.files", Failed)
  \/ Writes("restore.undo.files", OldIngress, {}, "restore.undo.reload", "raise")
  \/ Runs("restore.undo.reload", Reloaded, {}, "restore.undo.link", "restore.undo.unloaded", "raise")
  \/ Decides("restore.undo.unloaded", "restore.undo.link", Failed)
  \/ kept.linked /\ Decides("restore.undo.link", "restore.undo.net", kept)
  \/ ~kept.linked /\ Runs("restore.undo.link", {[host EXCEPT !.linked = FALSE]}, {}, "restore.undo.net",
                          "restore.undo.linked", "raise")
  \/ Decides("restore.undo.linked", "restore.undo.net", Failed)
  \/ kept.net /\ Decides("restore.undo.net", "restore.undo.move", kept)
  \/ ~kept.net /\ Runs("restore.undo.net", {[host EXCEPT !.net = FALSE]}, {}, "restore.undo.move",
                       "restore.undo.kept", "raise")
  \/ Decides("restore.undo.kept", "restore.undo.move", Failed)
  \/ Moves("restore.undo.move", host.home \ host.bin, "home", "bin", "restore.undo.end", "restore.undo.lost")
  \/ Decides("restore.undo.lost", "restore.undo.end", Failed)
  \/ Decides("restore.undo.end", IF kept.failed THEN "manual" ELSE "rolledback", kept)

------------------------------------------------------------------------------
(* purge_deleted, update_version *)

HermesPurge ==
  \/ Decides("purge_deleted", IF host.recycle = "none" THEN "fail" ELSE "purge.tree", kept)
  \/ Writes("purge.tree", [host EXCEPT !.recycle = "none", !.bin = {}, !.note = NoNote],
            {[host EXCEPT !.recycle = "dir", !.bin = {}, !.note = NoNote]}, "ok", "fail")

HermesUpdate ==
  \/ Reads("update_version", host.main # "none",
           Locals([image |-> host.image, running |-> host.main = "running"]),
           IF host.image = "new" THEN "ok" ELSE "update.look", "fail", "raise")
  \/ Reads("update.look", TRUE, kept, "update.remove", "fail", "raise")
  \/ Runs("update.remove", Removed({"main"}), {}, "update.run", "fail", "raise")
  \/ Runs("update.run", RanMain("new"), CreatedMain("new"), "update.wait", "update.undo", "update.undo")
  \/ WaitForDashboard("update.wait", IF kept.running THEN "ok" ELSE "update.stop",
           "update.undo", "update.undo")
  \/ Calls("update.stop", "stop", kept, "ok", "update.undo", "update.undo")
  \/ Tries("update.undo", Removed({"main"}), kept, "update.undo.run", "raise")
  \/ Runs("update.undo.run", RanMain(kept.image), CreatedMain(kept.image), "update.undo.wait", "manual", "raise")
  \/ WaitForDashboard("update.undo.wait",
           IF kept.running THEN "rolledback" ELSE "update.undo.stop", "manual", "raise")
  \/ Calls("update.undo.stop", "stop", kept, "rolledback", "manual", "raise")

------------------------------------------------------------------------------
\* start and stop are not called for what is started or stopped already
HermesBegin ==
  \E a \in {"create", "delete", "restore", "purge_deleted", "update_version",
            "start", "stop", "restart", "refresh_ingress"} :
    /\ Admitted(a) /\ Begin(a)
    /\ a = "start" => host.main # "running"
    /\ a = "stop" => host.main = "running"

HermesStep ==
  \/ HermesStop \/ HermesStart \/ HermesRestart
  \/ HermesIngress \/ HermesRuntime
  \/ HermesCreate
  \/ HermesDelete \/ HermesDeleteUndo
  \/ HermesRestore \/ HermesRestoreUndo
  \/ HermesPurge \/ HermesUpdate

HermesNext == product = "hermes" /\ (HermesBegin \/ HermesStep \/ Killed)
=============================================================================
