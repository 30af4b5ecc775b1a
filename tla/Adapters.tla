------------------------------ MODULE Adapters ------------------------------
(***************************************************************************)
(* The adapters at work on one instance, request after request, and what   *)
(* must hold of them.                                                      *)
(***************************************************************************)
EXTENDS OpenClawAdapter, EvoAdapter, HermesAdapter, Settings

AdaptersInit == HostInit
AdaptersNext == ClawNext \/ EvoNext \/ HermesNext \/ SettingsNext
AdaptersSpec == AdaptersInit /\ [][AdaptersNext]_lvars

------------------------------------------------------------------------------
(* Properties *)

Container == {"none", "stopped", "running"}
Image     == {"unset", "old", "new"}
Skills    == {"none", "one", "two", "torn"}

AdapterTypeOK ==
  /\ product \in Products
  /\ host.home \subseteq Parts /\ host.bin \subseteq Parts
  /\ host.recycle \in {"none", "dir", "listed"}
  /\ host.main \in Container /\ host.proxy \in Container /\ host.ingress \in Container
  /\ host.image \in Image /\ (host.main # "none" => host.image # "unset") /\ host.file \in Image
  /\ host.older \subseteq {"data", "empty"}
  /\ host.conf \subseteq {"active", "disabled"}
  /\ host.token \in {"none", "t1", "t2"} /\ host.key \in {"none", "t1", "t2"}
  /\ host.models \subseteq Models /\ host.model \in Models \cup {"none"}
  /\ host.skills \in Skills /\ host.snap \in Skills \cup {"unset"}
  /\ row \in {"new", "live", "failed", "deleted", "gone"}
  /\ Len(stack) <= 3 /\ outcome \in Results \cup {"none", "killed"}
  /\ faults \in 0..MaxFaults

\* Every part of the data is in one place.
Buried(h) == IF "data" \in h.older THEN Parts ELSE {}
Intact(h) ==
  /\ h.home \cup h.bin \cup Buried(h) = Parts
  /\ h.home \cap h.bin = {} /\ Buried(h) \cap (h.home \cup h.bin) = {}

\* Nothing but a permanent deletion loses a part of an instance's data or leaves
\* two copies, whatever fails and wherever the executor dies.
DataKept ==
  [][(row \in {"live", "deleted"} /\ op' # "purge_deleted" /\ Intact(host)) => Intact(host')]_lvars

\* The containers without which an instance does not run
Needed == IF product = "evoscientist" THEN Both ELSE {"main"}

AllOff(h, S) == \A c \in S : h[c] = "none"

\* cleanup_failed leaves files behind.
CleanedUp == op = "cleanup_failed" /\ row = "gone"

\* An instance as HostEnds sees it
RuntimeOf(h) ==
  IF \A c \in Needed : h[c] = "running" /\ h.home = Parts THEN "up"
  ELSE IF \A c \in Needed : h[c] = "stopped" /\ h.home = Parts THEN "stopped"
  ELSE IF AllOff(h, Needed) /\ h.home = {} /\ h.bin = Parts /\ h.recycle = "listed"
       THEN IF h.note.running THEN "archived" ELSE "archived_off"
  ELSE IF product = "openclaw" /\ h.main = "none" /\ h.home = {} /\ h.bin = Parts THEN "archived"
  ELSE IF h.main = "none" /\ h.home = {} /\ Buried(h) = Parts THEN "buried"
  ELSE IF AllOff(h, Needed) /\ (h.home \cup h.bin = {} \/ CleanedUp) THEN "none"
  ELSE "broken"
HuskOf(h) ==
  IF product = "openclaw" THEN (h.recycle # "none" /\ h.bin = {}) \/ "empty" \in h.older
  ELSE h.recycle # "none" /\ RuntimeOf(h) \notin {"archived", "archived_off"}

\* the instance when the running operation began, or as the last one left it
Settled == IF pc = "idle" THEN host ELSE before.host

\* The adapters, command by command and with all that can fail in between, leave
\* an instance only as HostEnds says: what ManagerSystem takes for one step.
Promised == INSTANCE HostPromise WITH
  runtime <- RuntimeOf(Settled), husk <- HuskOf(Settled),
  running <- IF pc = "idle" THEN "none" ELSE op
Promise == Promised!Promise

\* The browser gets through to the instance's port.
Reached(h) ==
  IF product = "evoscientist" THEN h.conf = {"active"} /\ h.ingress = "running"
  ELSE /\ "active" \in h.conf /\ h.mapped /\ h.served
       /\ product = "openclaw" => h.linked

\* The container runs the image of its compose file.
AsFiled(h) == product = "openclaw" => h.image = h.file

\* The model proxy knows the instance by its key and lets its model through.
Answered(h) == h.key # "none" => h.key = h.token /\ h.model \in h.models

\* Its settings agree with one another.
SettingsAgree(h) == Answered(h) /\ h.skills # "torn" /\ h.auth = h.asked

\* An instance that nothing has gone wrong with
Whole(h) ==
  /\ SettingsAgree(h)
  /\ CASE RuntimeOf(h) = "up"      -> Reached(h) /\ h.conf = {"active"} /\ AsFiled(h)
    [] RuntimeOf(h) = "stopped" -> /\ IF product = "evoscientist" THEN h.conf = {"active"} /\ h.ingress # "none"
                                      ELSE h.conf = {"disabled"} /\ h.mapped
                                   /\ AsFiled(h)
    [] OTHER                    -> RuntimeOf(h) # "broken"

\* Nothing is published of an instance that does not run.
Quiet(h) ==
  RuntimeOf(h) # "up" => IF product = "evoscientist" THEN h.ingress # "running" ELSE "active" \notin h.conf

AsBefore(fields) == \A f \in fields : host[f] = before.host[f]

\* What says "rolled back" has done so: after one failure, whichever command it
\* hit, the data, the containers with their image, the site and the settings are
\* as they were, and a creation leaves neither of them; the same for a change of
\* Basic Auth that raises, and for the skills when an installation that was
\* interrupted runs again and fails.  (A network that was empty may go or come; a
\* restore that could not remove its entry loses the manifest.)
RolledBack ==
  /\ outcome = "rolledback" \/ (outcome = "raise" /\ op = "set_basic_auth")
  /\ faults = before.faults + 1 /\ Whole(before.host)
  =>
    IF op = "create" THEN AsBefore({"home", "main", "proxy", "ingress", "conf", "mapped"})
    ELSE /\ AsBefore({"home", "bin", "main", "proxy", "conf"})
         /\ AsBefore({"token", "models", "model", "key", "skills", "auth", "asked"})
         /\ \A f \in {"mapped", "net", "linked"} : before.host[f] => host[f]
         /\ op # "restore" => AsBefore({"recycle", "note"})
         /\ before.host.ingress # "none" => host.ingress # "none"
         /\ host.main # "none" => host.image = before.host.image

\* What reports success without a failure on the way has done it all: a running
\* instance is reached and another is not, an update runs the new image, a
\* deletion notes the image and a restore brings it back, a model provider's
\* requests are let through, and skills and Basic Auth are what was asked for.  (A restart or refresh
\* of a stopped Hermes instance leaves the two apart.)
Delivered ==
  /\ outcome = "ok" /\ Whole(before.host) /\ Quiet(before.host) /\ faults = before.faults
  /\ op \in {"restart", "refresh_ingress"} => RuntimeOf(before.host) = "up"
  =>
    /\ Reached(host) <=> RuntimeOf(host) = "up"
    /\ op = "update_version" => host.image = "new"
    /\ product = "openclaw" => AsFiled(host) \/ host.main = "none"
    /\ op = "set_model_provider" => host.key # "none" /\ host.linked
    /\ op = "set_model_provider" /\ product # "evoscientist" => host.models = {host.model}
    /\ op = "install_skill" => host.skills = IF before.host.skills = "one" THEN "two" ELSE "one"
    /\ op = "set_basic_auth" => host.auth # before.host.auth
    /\ SettingsAgree(host)
    /\ product # "openclaw" =>
         /\ op = "restore" => host.image = before.host.note.image
         /\ op = "delete" => host.note.image = before.host.image

\* Changing the model of a Hermes or EvoScientist instance that the model proxy
\* answers, or failing to, does not lock it out at any moment, not even when the
\* executor dies; only a roll-back a part of which has failed may.
ProviderAdmitted ==
  [][product # "openclaw" /\ Answered(before.host) /\ Answered(host)
     => Answered(host') \/ kept.failed]_lvars

\* What the documents of the adapters say of a failed update: the previous image
\* runs again.  Not so: EvoScientistDockerAdapter.update_version rolls back before
\* it knows the image, and the Hermes adapter removes the container before its try.
UpdateRestored ==
  /\ op = "update_version" /\ outcome \in {"fail", "raise", "rolledback", "manual"}
  /\ faults <= before.faults + 1 /\ Whole(before.host)
  => AsBefore({"main", "proxy", "image"})
=============================================================================
