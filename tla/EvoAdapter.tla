----------------------------- MODULE EvoAdapter -----------------------------
(***************************************************************************)
(* EvoScientistDockerAdapter: a main container with the data, a proxy in   *)
(* its network, and an ingress container of the instance's own.            *)
(***************************************************************************)
EXTENDS AdapterHost

Both == {"main", "proxy"}

------------------------------------------------------------------------------
(* Functions that operations call *)

\* _run_containers: docker run of main, then of its proxy
RunContainers ==
  \/ Runs("run", RanMain(kept.target), CreatedMain(kept.target), "run.proxy", "fail", "raise")
  \/ Runs("run.proxy", Ran("proxy"), Created("proxy"), "ok", "run.undo", "raise")
  \/ Tries("run.undo", Removed({"main"}), kept, "fail", "raise")

\* _remove_containers: the proxy, then main; a missing container is no failure
RemoveContainers ==
  \/ Runs("remove", Removed({"proxy"}), {}, "remove.main", "fail", "raise")
  \/ Runs("remove.main", Removed({"main"}), {}, "ok", "fail", "raise")

\* A changed version of Names that forgets the ingress container.
MutWithoutIngress == <<"main", "proxy">>

\* the containers start, stop and restart go through
Names == <<"main", "proxy">> \o (IF host.ingress = "none" THEN <<>> ELSE <<"ingress">>)
Backwards(s) == [k \in DOMAIN s |-> s[Len(s) + 1 - k]]
Popped == Locals([todo |-> Tail(kept.todo), done |-> <<Head(kept.todo)>> \o kept.done])
Undone == Locals([done |-> Tail(kept.done)])

Start ==
  \/ Decides("start", "start.next", Locals([todo |-> Names, done |-> <<>>]))
  \/ kept.todo = <<>> /\ Decides("start.next", "ok", kept)
  \/ /\ kept.todo # <<>> /\ pc = "start.next"
     /\ LET c == Head(kept.todo) IN
        \/ host' \in Started(c) /\ To("start.next", Popped) /\ UNCHANGED faults
        \/ Started(c) = {} /\ To("start.undo", kept) /\ UNCHANGED <<host, faults>>
        \/ Started(c) # {} /\ Fault /\ To("start.undo", kept) /\ UNCHANGED host
        \/ Started(c) # {} /\ Fault /\ To("raise", kept) /\ host' \in Started(c) \cup {host}
  \/ kept.done = <<>> /\ Decides("start.undo", "fail", kept)
  \/ kept.done # <<>> /\ Tries("start.undo", Stopped(Head(kept.done)), Undone, "start.undo", "raise")

Stop ==
  \/ Decides("stop", "stop.next", Locals([todo |-> Backwards(Names), done |-> <<>>]))
  \/ kept.todo = <<>> /\ Decides("stop.next", "ok", kept)
  \/ /\ kept.todo # <<>> /\ pc = "stop.next"
     /\ LET c == Head(kept.todo) IN
        \/ host' \in Stopped(c) /\ To("stop.next", Popped) /\ UNCHANGED faults
        \/ Stopped(c) = {} /\ To("stop.undo", kept) /\ UNCHANGED <<host, faults>>
        \/ Stopped(c) # {} /\ Fault /\ To("stop.undo", kept) /\ UNCHANGED host
        \/ Stopped(c) # {} /\ Fault /\ To("raise", kept) /\ host' \in Stopped(c) \cup {host}
  \/ kept.done = <<>> /\ Decides("stop.undo", "fail", kept)
  \/ kept.done # <<>> /\ Tries("stop.undo", Started(Head(kept.done)), Undone, "stop.undo", "raise")

Restart ==
  \/ Decides("restart", "restart.next", Locals([todo |-> Names, done |-> <<>>]))
  \/ kept.todo = <<>> /\ Decides("restart.next", "ok", kept)
  \/ /\ kept.todo # <<>> /\ pc = "restart.next"
     /\ LET c == Head(kept.todo) IN
        \/ host' \in Started(c) /\ To("restart.next", Popped) /\ UNCHANGED faults
        \/ Started(c) = {} /\ To("fail", kept) /\ UNCHANGED <<host, faults>>
        \/ Started(c) # {} /\ Fault /\ To("fail", kept) /\ UNCHANGED host
        \/ Started(c) # {} /\ Fault /\ To("raise", kept) /\ host' \in Started(c) \cup {host}

\* configure_ingress turns exceptions into a code, without clearing up
ConfigureIngress ==
  \/ Writes("ingress", [host EXCEPT !.conf = {"active"}], {}, "ingress.rm", "fail")
  \/ Tries("ingress.rm", Removed({"ingress"}), kept, "ingress.run", "fail")
  \/ Runs("ingress.run", Ran("ingress"), Created("ingress"), "ingress.connect", "ingress.unlink", "fail")
  \/ Runs("ingress.connect", {host}, {}, "ok", "ingress.undo", "fail")
  \/ Tries("ingress.undo", Removed({"ingress"}), kept, "ingress.unlink", "fail")
  \/ Writes("ingress.unlink", [host EXCEPT !.conf = {}], {}, "fail", "fail")

------------------------------------------------------------------------------
(* create, and what the executor does around it: it publishes the instance, *)
(* and deletes it if that fails *)

Create ==
  \/ Tries("create", {host}, Locals([net |-> host.net, target |-> "old"]), "create.net", "create.undo")
  \/ Runs("create.net", {[host EXCEPT !.net = TRUE]}, {}, "create.files", "fail", "create.undo")
  \/ Writes("create.files", [host EXCEPT !.home = Parts], {[host EXCEPT !.home = {First(Parts)}]},
            "create.prepare", "create.undo")
  \* the permissions of the data
  \/ Runs("create.prepare", {host}, {}, "create.run", "create.undo", "create.undo")
  \/ Calls("create.run", "run", kept, "create.wait", "create.undo", "create.undo")
  \/ Reads("create.wait", AllUp(Both), kept, "create.port", "create.undo", "create.undo")
  \/ Runs("create.port", {host}, {}, "create.publish", "create.undo", "create.undo")
  \/ Calls("create.undo", "remove", kept, "create.undo.files", "create.undo.files", "raise")
  \/ Tries("create.undo.files", {[host EXCEPT !.home = {}]}, kept, "create.undo.net", "raise")
  \/ kept.net /\ Decides("create.undo.net", "rolledback", kept)
  \/ ~kept.net /\ Tries("create.undo.net", {[host EXCEPT !.net = FALSE]}, kept, "rolledback", "raise")
  \/ Calls("create.publish", "ingress", kept, "ok", "create.retract", "raise")
  \/ Calls("create.retract", "delete", NoLocals, "rolledback", "manual", "raise")

------------------------------------------------------------------------------
(* delete *)

DeleteForward ==
  \/ Decides("delete", IF host.recycle = "none" THEN "delete.inspect" ELSE "fail", kept)
  \/ Reads("delete.inspect", host.main # "none",
           Locals([image |-> host.image, target |-> host.image, running |-> host.main = "running",
                   conf |-> host.conf]),
           "delete.containers", "delete.undo", "delete.undo")
  \/ Calls("delete.containers", "remove", kept, "delete.entry", "fail", "delete.undo")
  \/ Writes("delete.entry", [host EXCEPT !.recycle = "dir"], {}, "delete.move", "delete.undo")
  \/ Moves("delete.move", host.home, "home", "bin", "delete.ingress", "delete.undo")
  \/ Tries("delete.ingress", Removed({"ingress"}), kept, "delete.conf", "delete.undo")
  \/ Writes("delete.conf", [host EXCEPT !.conf = {}], {}, "delete.list", "delete.undo")
  \/ Writes("delete.list", [host EXCEPT !.recycle = "listed",
                              !.note = [image |-> kept.image, running |-> kept.running]],
            {}, "ok", "delete.undo")

\* A changed version of Moved: the parts are noted when all have been moved.
MutNoneNoted == {}

\* the parts that were moved and go back
Moved == host.bin \ host.home

\* the deployment was not inspected
Unknown == kept.image = "unset"

\* the exception handler: everything back, then the containers and the ingress
DeleteUndo ==
  \/ Writes("delete.undo", [host EXCEPT !.conf = @ \cup kept.conf], {},
            IF host.recycle = "none" THEN "delete.undo.run" ELSE "delete.undo.move", "manual")
  \/ Moves("delete.undo.move", Moved, "bin", "home", "delete.undo.entry", "manual")
  \/ Tries("delete.undo.entry", {[host EXCEPT !.recycle = "none", !.bin = {}, !.note = NoNote]},
           kept, "delete.undo.run", "delete.undo.run")
  \/ Unknown /\ Decides("delete.undo.run", "delete.undo.ingress", kept)
  \/ ~Unknown /\ Calls("delete.undo.run", "run", kept,
       IF kept.running THEN "delete.undo.ingress" ELSE "delete.undo.stop", "delete.undo.failed", "manual")
  \/ Decides("delete.undo.failed", "delete.undo.ingress", Locals([failed |-> TRUE]))
  \/ Calls("delete.undo.stop", "stop", kept, "delete.undo.ingress", "delete.undo.ingress", "manual")
  \/ Calls("delete.undo.ingress", "ingress", kept,
           IF kept.failed THEN "manual" ELSE "rolledback", "manual", "manual")

------------------------------------------------------------------------------
(* restore *)

RestoreForward ==
  \/ Decides("restore", IF host.recycle = "none" THEN "fail" ELSE "restore.read", kept)
  \/ Reads("restore.read", host.recycle = "listed",
           Locals([image |-> host.note.image, target |-> host.note.image, running |-> host.note.running]),
           "restore.net", "restore.undo", "restore.undo")
  \/ Runs("restore.net", {[host EXCEPT !.net = TRUE]}, {}, "restore.move", "fail", "restore.undo")
  \/ Moves("restore.move", host.bin, "bin", "home", "restore.run", "restore.undo")
  \/ Calls("restore.run", "run", kept, "restore.ingress", "restore.undo", "restore.undo")
  \/ Calls("restore.ingress", "ingress", kept, "restore.entry", "restore.undo", "restore.undo")
  \/ Writes("restore.entry", [host EXCEPT !.recycle = "none", !.note = NoNote],
            {[host EXCEPT !.recycle = "dir", !.note = NoNote]},
            IF kept.running THEN "ok" ELSE "restore.stop", "restore.undo")
  \/ Calls("restore.stop", "stop", kept, "ok", "ok", "restore.undo")

\* the exception handler: no container stays, the data go where a restore
\* puts them
RestoreUndo ==
  \/ Calls("restore.undo", "remove", kept, "restore.undo.move", "restore.undo.move", "raise")
  \/ Moves("restore.undo.move", Moved, "bin", "home", "fail", "raise")

------------------------------------------------------------------------------
(* purge_deleted, cleanup_failed, update_version *)

PurgeDeleted ==
  \/ Decides("purge_deleted", IF host.recycle = "none" THEN "fail" ELSE "purge.tree", kept)
  \/ Writes("purge.tree", [host EXCEPT !.recycle = "none", !.bin = {}, !.note = NoNote],
            {[host EXCEPT !.recycle = "dir", !.bin = some, !.note = NoNote] : some \in SUBSET host.bin},
            "ok", "fail")

CleanupFailed ==
  \/ Runs("cleanup_failed", Removed({"main"}), {}, "cleanup.proxy", "fail", "raise")
  \/ Runs("cleanup.proxy", Removed({"proxy"}), {}, "cleanup.ingress", "fail", "raise")
  \/ Runs("cleanup.ingress", Removed({"ingress"}), {}, "cleanup.conf", "fail", "raise")
  \/ Writes("cleanup.conf", [host EXCEPT !.conf = {}], {}, "cleanup.net", "raise")
  \* the shared services leave the network, then it goes
  \/ Runs("cleanup.net", {[host EXCEPT !.net = FALSE]}, {}, "ok", "fail", "raise")

\* Control lets versions through that are no digest: _image_ref raises then.
UpdateForward ==
  \/ Decides("update_version", "update.inspect", kept)
  \/ Decides("update_version", "update.undo", kept)
  \/ Reads("update.inspect", host.main # "none",
           Locals([image |-> host.image, running |-> host.main = "running", target |-> "new"]),
           "update.look", "update.undo", "update.undo")
  \/ Reads("update.look", TRUE, kept, "update.remove", "fail", "update.undo")
  \/ Calls("update.remove", "remove", kept, "update.run", "fail", "update.undo")
  \/ Calls("update.run", "run", kept, "update.wait", "update.undo", "update.undo")
  \/ Reads("update.wait", AllUp(Both), kept, IF kept.running THEN "ok" ELSE "update.stop",
           "update.undo", "update.undo")
  \/ Calls("update.stop", "stop", kept, "ok", "ok", "update.undo")

\* the exception handler, which fails when it does not know the image yet
UpdateUndo ==
  \/ Calls("update.undo", "remove", kept, "update.undo.run", "update.undo.run", "raise")
  \/ Unknown /\ Decides("update.undo.run", "manual", kept)
  \/ ~Unknown /\
       Calls("update.undo.run", "run", Locals([target |-> kept.image]), "update.undo.wait", "manual", "manual")
  \/ Reads("update.undo.wait", AllUp(Both), kept, IF kept.running THEN "rolledback" ELSE "update.undo.stop",
           "manual", "manual")
  \/ Calls("update.undo.stop", "stop", kept, "rolledback", "rolledback", "manual")

------------------------------------------------------------------------------
\* start and stop are not called for what looks started or stopped already
EvoBegin ==
  \E a \in {"create", "delete", "restore", "purge_deleted", "cleanup_failed", "update_version",
            "start", "stop", "restart"} :
    /\ Admitted(a) /\ Begin(a)
    /\ a = "start" => ~AllUp(Both)
    /\ a = "stop" => \E c \in Both : host[c] # "stopped"

EvoStep ==
  \/ RunContainers \/ RemoveContainers \/ ConfigureIngress
  \/ Start \/ Stop \/ Restart
  \/ Create
  \/ DeleteForward \/ DeleteUndo
  \/ RestoreForward \/ RestoreUndo
  \/ PurgeDeleted \/ CleanupFailed
  \/ UpdateForward \/ UpdateUndo

EvoNext == product = "evoscientist" /\ (EvoBegin \/ EvoStep \/ Killed)
=============================================================================
