----------------------------- MODULE HostPromise -----------------------------
(***************************************************************************)
(* What the executor may count on: an operation of an adapter begins, and  *)
(* ends with one of the ends of HostEnds for its outcome.                  *)
(***************************************************************************)
EXTENDS HostEnds

VARIABLES
  product,
  runtime, husk,  \* as in HostEnds; while an operation runs, as it began
  running,        \* the operation that runs, or "none"
  outcome         \* how the last one ended, "none" before that

pvars == <<product, runtime, husk, running, outcome>>

Operation == {"create", "delete", "restore", "purge_deleted", "cleanup_failed", "update_version",
              "start", "stop", "restart", "refresh_ingress", "set_model_provider", "install_skill",
              "set_basic_auth"}

Now == [product |-> product, runtime |-> runtime, husk |-> husk, taken |-> FALSE]

PromiseInit ==
  /\ product \in {"openclaw", "hermes", "evoscientist"}
  /\ runtime = "none" /\ husk = FALSE /\ running = "none" /\ outcome = "none"

Begins ==
  /\ running = "none"
  /\ running' \in Operation /\ outcome' = "none"
  /\ UNCHANGED <<product, runtime, husk>>

\* A creation includes its publication and, if that fails, its deletion.
Unpublished == CutEnds([Now EXCEPT !.runtime = "up"], "delete")

EndsAs ==
  CASE outcome' = "ok"     -> GoodEnds(Now, running) \cup SlackEnds(Now, running)
    [] outcome' = "killed" -> CutEnds(Now, running) \cup SlackEnds(Now, running)
    [] OTHER               -> BadEnds(Now, running)

Finishes ==
  /\ running # "none" /\ running' = "none"
  /\ outcome' \in {"ok", "fail", "raise", "rolledback", "manual", "killed"}
  /\ \E e \in EndsAs \cup (IF running = "create" /\ outcome' # "ok" THEN Unpublished ELSE {}) :
       runtime' = e.runtime /\ husk' = e.husk
  /\ UNCHANGED product

Promise == PromiseInit /\ [][Begins \/ Finishes]_pvars
=============================================================================
