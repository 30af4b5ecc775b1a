------------------------------ MODULE Settings ------------------------------
(***************************************************************************)
(* What the adapters change in an instance that exists: its model provider *)
(* (a token and an allow-list at the model proxy, and the instance's own   *)
(* configuration), OpenClaw's skills and its Basic Auth.                   *)
(***************************************************************************)
EXTENDS AdapterHost

Models == {"m1", "m2"}

\* status: what the executor asks before a change
Up == host.main = "running" /\ (product = "evoscientist" => host.proxy = "running")

\* the token the instance has at the model proxy, or a fresh one
Token == IF host.token # "none" THEN host.token
         ELSE CHOOSE t \in {"t1", "t2"} : t # host.key

WithToken   == [host EXCEPT !.token = Token]
WithKey     == [host EXCEPT !.key = host.token]
WithModel   == [host EXCEPT !.model = kept.wanted]
Narrowed    == [host EXCEPT !.models = {kept.wanted}]
Unconfigured == [host EXCEPT !.model = "none", !.key = "none"]

\* A changed version of Widened: models that were allowed are forgotten.
MutNarrowsFirst == [host EXCEPT !.models = {kept.wanted}]

\* the wanted model is allowed beside those that were
Widened == [host EXCEPT !.models = @ \cup {kept.wanted}]

ConfigBack == [host EXCEPT !.model = kept.was.model, !.key = kept.was.key]
TokenBack  == [host EXCEPT !.token = kept.was.token]
ModelsBack == [host EXCEPT !.models = kept.was.models]

\* the request for a model, and what there is noted
Provide(next) ==
  \/ ~Up /\ Decides("set_model_provider", "fail", kept)
  \/ Up /\ \E m \in Models : Decides("set_model_provider", next, Locals([wanted |-> m, was |-> host]))

\* the model proxy joins the tenant network
ProxyJoins(next) ==
  \/ Reads("provider.look", TRUE, kept, IF host.linked THEN next ELSE "provider.link",
           "provider.undo", "provider.undo")
  \/ Runs("provider.link", {[host EXCEPT !.linked = TRUE]}, {}, "provider.linked",
          "provider.undo", "provider.undo")
  \/ Decides("provider.linked", next, Locals([linked |-> TRUE]))

Failing == Locals([failed |-> TRUE])

------------------------------------------------------------------------------
(* set_model_provider *)

\* EvoScientist: files, permissions, network, and a restart of all containers
EvoProvider ==
  \/ Provide("provider.token")
  \/ Writes("provider.token", WithToken, {}, "provider.models", "provider.undo")
  \/ Writes("provider.models", Widened, {}, "provider.config", "provider.undo")
  \/ Writes("provider.config", [WithModel EXCEPT !.key = host.token], {Unconfigured},
            "provider.own", "provider.undo")
  \/ Runs("provider.own", {host}, {}, "provider.look", "provider.undo", "provider.undo")
  \/ ProxyJoins("provider.restart")
  \/ Calls("provider.restart", "restart", kept, "ok", "provider.undo", "provider.undo")
  \/ Writes("provider.undo", ConfigBack, {Unconfigured}, "provider.undo.token", "raise")
  \/ Writes("provider.undo.token", TokenBack, {}, "provider.undo.models", "raise")
  \/ Writes("provider.undo.models", ModelsBack, {}, "provider.undo.link", "raise")
  \/ ~kept.linked /\ Decides("provider.undo.link", "rolledback", kept)
  \/ kept.linked /\ Tries("provider.undo.link", {[host EXCEPT !.linked = FALSE]}, kept, "rolledback", "raise")

\* Hermes: the allow-list is widened, the configuration set key by key in the
\* container, and the allow-list narrowed; each part of the roll-back is tried
HermesProvider ==
  \/ Provide(IF host.home = Parts THEN "provider.models" ELSE "fail")
  \/ Writes("provider.models", Widened, {},
            IF host.token = "none" THEN "provider.token" ELSE "provider.look", "provider.undo")
  \/ Writes("provider.token", WithToken, {}, "provider.look", "provider.undo")
  \/ ProxyJoins("provider.model")
  \/ Runs("provider.model", {WithModel}, {}, "provider.url", "provider.undo", "provider.undo")
  \/ Runs("provider.url", {host}, {}, "provider.key", "provider.undo", "provider.undo")
  \/ Runs("provider.key", {WithKey}, {}, "provider.mode", "provider.undo", "provider.undo")
  \/ Runs("provider.mode", {host}, {}, "provider.narrow", "provider.undo", "provider.undo")
  \/ Writes("provider.narrow", Narrowed, {}, "ok", "provider.undo")
  \/ Writes("provider.undo", ConfigBack, {Unconfigured}, "provider.undo.token", "provider.undo.config")
  \/ Decides("provider.undo.config", "provider.undo.token", Failing)
  \/ Writes("provider.undo.token", TokenBack, {}, "provider.undo.models", "provider.undo.untold")
  \/ Decides("provider.undo.untold", "provider.undo.models", Failing)
  \/ Writes("provider.undo.models", ModelsBack, {}, "provider.undo.link", "provider.undo.wide")
  \/ Decides("provider.undo.wide", "provider.undo.link", Failing)
  \/ ~kept.linked /\ Decides("provider.undo.link", "provider.undo.end", kept)
  \/ kept.linked /\ Runs("provider.undo.link", {[host EXCEPT !.linked = FALSE]}, {},
                         "provider.undo.end", "provider.undo.joined", "provider.undo.joined")
  \/ Decides("provider.undo.joined", "provider.undo.end", Failing)
  \/ Decides("provider.undo.end", IF kept.failed THEN "manual" ELSE "rolledback", kept)

\* set_model_provider.sh: nothing is put back
ClawProvider ==
  \/ Provide("provider.token")
  \/ Writes("provider.token", WithToken, {}, "provider.models", "fail")
  \/ Writes("provider.models", Narrowed, {[host EXCEPT !.models = {}]}, "provider.key", "fail")
  \/ Runs("provider.key", {WithKey}, {}, "provider.model", "fail", "raise")
  \/ Runs("provider.model", {WithModel}, {}, "provider.validate", "fail", "raise")
  \/ Runs("provider.validate", {host}, {}, "provider.restart", "fail", "raise")
  \/ Calls("provider.restart", "restart", kept, "ok", "fail", "raise")

------------------------------------------------------------------------------
(* install_skill *)

\* the skills directory with one more skill
Extended == IF host.snap = "one" THEN "two" ELSE "one"

\* an earlier run of the request has made it
Snapshot == IF host.snap = "unset" THEN [host EXCEPT !.snap = host.skills] ELSE host

\* _validate_skill_install: its description, and exactly one source for it
Verified(next) == Reads("skills.check", TRUE, kept, next, "fail", "raise")

\* the installer in the container works on the directory bit by bit
InstallSkill ==
  \/ Decides("install_skill", IF Up THEN "skills.check" ELSE "fail", kept)
  \/ Verified("skills.snap")
  \/ Writes("skills.snap", Snapshot, {}, IF host.snap = "unset" THEN "skills.run" ELSE "skills.again", "raise")
  \/ Calls("skills.again", "skills", kept, "skills.run", "raise", "raise")
  \/ Runs("skills.run", {[host EXCEPT !.skills = "torn"]}, {}, "skills.end", "skills.failed", "skills.stop")
  \/ Runs("skills.end", {[host EXCEPT !.skills = Extended]}, {}, "ok", "skills.failed", "skills.stop")
  \/ Calls("skills.failed", "skills", kept, "rolledback", "raise", "raise")
  \* pkill of what still runs in the container
  \/ Runs("skills.stop", {host}, {}, "skills.stopped", "raise", "raise")
  \/ Calls("skills.stopped", "skills", kept, "raise", "raise", "raise")

\* _restore_skills: a copy of the snapshot takes the place of the directory
RestoreSkills ==
  \/ Decides("skills", "skills.aside", Locals([was |-> host]))
  \/ Writes("skills.aside", [host EXCEPT !.skills = "none"], {}, "skills.put", "raise")
  \/ Writes("skills.put", [host EXCEPT !.skills = host.snap], {}, "ok", "skills.back")
  \/ Writes("skills.back", [host EXCEPT !.skills = kept.was.skills], {}, "raise", "raise")

------------------------------------------------------------------------------
(* set_basic_auth: the script rewrites the site, then Nginx loads it *)

AuthBack == [host EXCEPT !.auth = kept.was.auth]

BasicAuth ==
  \/ Decides("set_basic_auth", IF "active" \in host.conf THEN "auth.script" ELSE "fail",
             Locals([was |-> host]))
  \/ Runs("auth.script", {[host EXCEPT !.auth = ~@]}, {}, "auth.reload", "auth.undo.script", "auth.raised.script")
  \/ Runs("auth.reload", Reloaded, {}, "ok", "auth.undo", "auth.raised")
  \/ Writes("auth.undo.script", AuthBack, {}, "rolledback", "raise")
  \/ Writes("auth.raised.script", AuthBack, {}, "raise", "raise")
  \/ Writes("auth.undo", AuthBack, {}, "auth.undo.reload", "raise")
  \/ Tries("auth.undo.reload", Reloaded, kept, "rolledback", "raise")
  \/ Writes("auth.raised", AuthBack, {}, "auth.raised.reload", "raise")
  \/ Tries("auth.raised.reload", Reloaded, kept, "raise", "raise")

------------------------------------------------------------------------------
\* A request of its own has no snapshot yet; the job of an executor that died is
\* carried out again under the same request.
BeginInstall ==
  /\ pc = "idle" /\ "install_skill" \in menu /\ Admitted("install_skill")
  /\ op' = "install_skill" /\ pc' = "install_skill"
  /\ host' = [host EXCEPT !.snap = "unset"]
  /\ before' = [host |-> host, faults |-> faults] /\ outcome' = "none"
  /\ UNCHANGED <<product, menu, row, stack, kept, faults>>
InstallAgain ==
  /\ pc = "idle" /\ op = "install_skill" /\ outcome = "killed" /\ row = "live"
  /\ pc' = "install_skill"
  /\ before' = [before EXCEPT !.faults = faults] /\ outcome' = "none"
  /\ UNCHANGED <<product, menu, host, row, op, stack, kept, faults>>

SettingsBegin ==
  \/ Admitted("set_model_provider") /\ Begin("set_model_provider")
  \/ product = "openclaw" /\ Admitted("set_basic_auth") /\ Begin("set_basic_auth")
  \/ product = "openclaw" /\ (BeginInstall \/ InstallAgain)

SettingsStep ==
  \/ product = "evoscientist" /\ EvoProvider
  \/ product = "hermes" /\ HermesProvider
  \/ product = "openclaw" /\ (ClawProvider \/ InstallSkill \/ RestoreSkills \/ BasicAuth)

SettingsNext == SettingsBegin \/ SettingsStep
=============================================================================
