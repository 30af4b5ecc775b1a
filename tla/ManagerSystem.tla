---------------------------- MODULE ManagerSystem ----------------------------
(***************************************************************************)
(* manager-executor (services/manager-executor/executor.py) at work on the *)
(* jobs of manager-control: it claims a job, runs the product's adapter    *)
(* (services/manager-web/instance_adapters.py and the scripts it calls) on *)
(* the instance, and reports.  A call to Control may be lost on its way    *)
(* there or on its way back; the executor may die between any two steps,   *)
(* or in the middle of an adapter operation, and be started again.         *)
(*                                                                         *)
(* Of what an operation works on (containers, data directory, recycle bin) *)
(* the model keeps what later operations and the metadata depend on.  One  *)
(* executor runs and operators leave the scripts alone meanwhile.          *)
(***************************************************************************)
EXTENDS ManagerControl, HostEnds

CONSTANTS
  MaxAttempts,  \* MANAGER_EXECUTOR_MAX_ATTEMPTS
  MaxLost,      \* bound: calls to Control that are lost
  MaxCrashes    \* bound: deaths of the executor

ASSUME SystemAssumption ==
  MaxAttempts \in Nat \ {0} /\ MaxLost \in Nat /\ MaxCrashes \in Nat

VARIABLES
  pc,          \* what run_once does next
  job,         \* the job it works on
  seen,        \* the instance as the claim's answer described it
  attempt,     \* of start or stop
  runtime,     \* what there is of an instance on the host
  husks,       \* instances with an entry in the recycle bin without (all of) their data
  binding,     \* jobs whose WeChat command runs in the container
  executions,  \* how often the adapter was set to a Manual job (2: at least)
  doubtful,    \* instances with an operation cut off, half undone, not reported,
               \* reported done although a command of it failed, or restored onto a
               \* port that was given away
  lost, crashes

control == <<pc, job, seen, attempt>>
world   == <<runtime, husks, binding, executions>>
faults  == <<doubtful, lost, crashes>>
svars   == <<cvars, control, world, faults>>

Step == {"idle", "accepted", "attempt", "working", "script", "client", "ingress", "undo",
         "bind", "bound", "unbind", "success", "failure", "error", "down"}
OpenClaw(i) == Product[i] = "openclaw"
NeedsUp     == Pairing \cup {"install_skill", "set_model_provider"}

\* The executor's next step; an idle one remembers nothing.
Goto(next) ==
  /\ pc' = next
  /\ job' = IF next \in {"idle", "down"} THEN NoRequest ELSE job
  /\ seen' = IF next \in {"idle", "down"} THEN "live" ELSE seen
  /\ attempt' = IF next = "attempt" THEN attempt + 1
                ELSE IF next = "working" THEN attempt ELSE 0

At(step) == pc = step
inst     == jobInst[job]
action   == jobAction[job]
\* the instance of the job, if it still has one, is doubtful from now on
Doubted  == doubtful \cup ({inst} \ {NoInst})

------------------------------------------------------------------------------
(* Adapter operations: what the host may look like afterwards *)

\* A restore needs its port back: it may belong to another by now.
PortTaken(i) ==
  \E j \in Instance \ {i} : runtime[j] \in {"up", "stopped"} /\ instPort[j] = instPort[i]

Described(i) ==
  [product |-> Product[i], runtime |-> runtime[i], husk |-> i \in husks, taken |-> PortTaken(i)]

\* one of these ends has come about for the instance of the current job
Left(ends) ==
  \E e \in ends :
    /\ runtime' = [runtime EXCEPT ![inst] = e.runtime]
    /\ husks' = IF e.husk THEN husks \cup {inst} ELSE husks \ {inst}

\* The host after the operation of the current job.
Operate(ends) ==
  /\ Left(ends)
  /\ executions' = IF action \in Manual
                   THEN [executions EXCEPT ![job] = IF @ = 0 THEN 1 ELSE 2] ELSE executions
  /\ UNCHANGED binding

------------------------------------------------------------------------------
(* Calls to Control *)

LoseCall ==
  /\ lost < MaxLost
  /\ lost' = lost + 1

\* While i was in the recycle bin another instance got its port, and the host did
\* not show it: the adapter does not look (Hermes), or the other's containers are
\* gone.  idx_instances_live_port then refuses the restore that the host has done.
PortGivenAway(i) ==
  \E j \in Instance \ {i} :
    /\ instPort[j] = instPort[i] /\ instPort[i] # NoPort /\ instStatus[j] \in Live
    /\ Product[i] = "hermes" \/ j \in doubtful

\* control.update(job, s): answered, go on with next; refused or lost, the call
\* raises and the executor goes on with raised.
Report(s, p, nothingPending, next, raised) ==
  /\ \/ /\ Patch(job, s, p, nothingPending)
        /\ Goto(next)
        /\ UNCHANGED faults
     \/ /\ ~Accepts(job, s, p)
        /\ Goto(raised)
        /\ doubtful' = IF s = "succeeded" /\ action = "restore" /\ PortGivenAway(inst)
                       THEN Doubted ELSE doubtful
        /\ UNCHANGED <<cvars, lost, crashes>>
     \/ /\ LoseCall
        /\ Patch(job, s, p, nothingPending) \/ UNCHANGED cvars
        /\ Goto(raised)
        /\ doubtful' = IF s = "running" THEN doubtful ELSE Doubted
        /\ UNCHANGED crashes
  /\ UNCHANGED world

\* what a report can say of an approval that found no pending device
Notes == IF action = "approve_latest_device" THEN BOOLEAN ELSE {FALSE}

------------------------------------------------------------------------------
(* run_once *)

SeenAs(i) ==
  IF instStatus[i] # "deleted" THEN "live"
  ELSE IF i \in restorable THEN "restorable" ELSE "deleted"

\* adapter.status: EvoScientist counts a missing container as DEGRADED
LooksStopped(i) ==
  IF Product[i] = "evoscientist" THEN runtime[i] = "stopped" ELSE runtime[i] # "up"

\* the checks made before anything is reported; a binding looks its instance up
\* first, which may fail
FirstSteps(r) ==
  LET i == jobInst[r]  a == jobAction[r] IN
  IF SeenAs(i) # "live" /\ a \notin {"restore", "purge_deleted"} THEN {"error"}
  ELSE IF a = "wechat_bind" THEN {"error"} \cup (IF runtime[i] = "up" THEN {"accepted"} ELSE {})
  ELSE IF (a = "start" /\ runtime[i] = "up") \/ (a = "stop" /\ LooksStopped(i)) THEN {"success"}
  ELSE IF a \in Lifecycle THEN {"attempt"} ELSE {"accepted"}

\* POST /execution-jobs/claim; when the answer is lost nobody works on the job
Poll ==
  /\ At("idle")
  /\ \E c \in Request \cup {NoRequest} :
       /\ Claim(c)
       /\ \/ /\ c # NoRequest
             /\ pc' \in FirstSteps(c) /\ job' = c /\ seen' = SeenAs(jobInst[c])
             /\ attempt' = IF pc' = "attempt" THEN 1 ELSE 0
             /\ UNCHANGED lost
          \/ c = NoRequest /\ UNCHANGED <<control, lost>>
          \/ c # NoRequest /\ LoseCall /\ UNCHANGED control
  /\ UNCHANGED <<world, doubtful, crashes>>

\* what follows the first report of an action other than start, stop, restart
AfterAccepted ==
  CASE action \in NeedsUp /\ runtime[inst] # "up" -> "failure"
    [] action \in {"restore", "purge_deleted"} /\ seen # "restorable" -> "error"
    [] action = "wechat_bind" -> "bind"
    [] OTHER -> "working"

Announce ==
  \/ At("accepted") /\ Report("running", NoPort, FALSE, AfterAccepted, "error")
  \/ At("attempt")  /\ Report("running", NoPort, FALSE, "working", "error")

AfterWork ==
  CASE action = "create"                                          -> "ingress"
    [] action \in Retention /\ OpenClaw(inst)                     -> "script"
    [] action = "delete" /\ Product[inst] = "hermes"              -> "client"
    [] OTHER                                                      -> "success"

WorkSucceeds ==
  /\ At("working")
  /\ \/ Operate(GoodEnds(Described(inst), action)) /\ UNCHANGED doubtful
     \/ Operate(SlackEnds(Described(inst), action)) /\ doubtful' = Doubted
  /\ Goto(AfterWork)
  /\ UNCHANGED <<cvars, lost, crashes>>

MutOneTryTooMany == action \in {"start", "stop"} /\ attempt <= MaxAttempts

\* Only start and stop are tried again.
TriesAgain == action \in {"start", "stop"} /\ attempt < MaxAttempts

WorkFails ==
  /\ At("working")
  /\ Operate(BadEnds(Described(inst), action))
  /\ doubtful' = IF runtime' = runtime THEN doubtful ELSE Doubted
  /\ IF TriesAgain
     THEN Goto("attempt") ELSE Goto("failure") \/ (action \notin Lifecycle /\ Goto("error"))
  /\ UNCHANGED <<cvars, lost, crashes>>

\* delete_user.sh and restore_user.sh end with their own write to the metadata;
\* a failure of it is only a warning
ScriptWrites ==
  /\ At("script")
  /\ \/ \E whole \in {FALSE, runtime[inst] = "archived"} : ScriptSetsStatus(job, whole)
     \/ UNCHANGED cvars
  /\ Goto("success")
  /\ UNCHANGED <<world, faults>>

\* DELETE of the Hermes auth client, between the deletion and its report, and
\* before a creation is rolled back: when that call fails there is no roll-back.
RevokeClient ==
  /\ pc \in {"client", "undo"} /\ Product[inst] = "hermes"
  /\ \/ At("client") /\ Goto("success") /\ UNCHANGED faults
     \/ /\ Goto("error") /\ LoseCall
        /\ doubtful' = Doubted /\ UNCHANGED crashes
  /\ UNCHANGED <<cvars, world>>

\* configure_ingress, reload_nginx_after_create; what they raise nobody catches
\* before the outer handler, and the creation is not undone
PublishIngress ==
  /\ At("ingress")
  /\ \/ (Goto("success") \/ Goto("undo")) /\ UNCHANGED doubtful
     \/ Goto("error") /\ doubtful' = Doubted
  /\ UNCHANGED <<cvars, world, lost, crashes>>

\* delete_hermes_auth_client answered, if need be; then rollback_created_instance,
\* a deletion by the adapter or the script
Undo ==
  /\ At("undo")
  /\ \/ Left(GoodEnds(Described(inst), "delete")) /\ UNCHANGED doubtful
     \/ Left(BadEnds(Described(inst), "delete") \cup SlackEnds(Described(inst), "delete"))
          /\ doubtful' = Doubted
  /\ Goto("failure") \/ Goto("error")
  /\ UNCHANGED <<cvars, binding, executions, lost, crashes>>

\* A create whose success cannot be reported is undone.  Which port it was given
\* is left open here; PortPool has the allocator.
ReportSuccess ==
  /\ At("success")
  /\ \E p \in IF action = "create" THEN Port ELSE {NoPort}, none \in Notes :
       Report("succeeded", p, none, "idle", IF action = "create" THEN "undo" ELSE "error")

ReportFailure ==
  /\ At("failure")
  /\ \E none \in Notes : Report("failed", NoPort, none, "idle", "error")

\* the outer except: one more attempt to report, whose outcome is ignored
ReportError ==
  /\ At("error")
  /\ Report("failed", NoPort, FALSE, "idle", "idle")

------------------------------------------------------------------------------
(* wechat_bind: a command that runs in the container while the executor     *)
(* passes on what it prints and asks Control whether it was cancelled       *)

BindStarts ==
  /\ At("bind")
  /\ binding' = binding \cup {job}
  /\ Goto("bound")
  /\ UNCHANGED <<cvars, runtime, husks, executions, faults>>

BindSpeaks ==
  /\ At("bound") /\ job \in binding
  /\ Report("running", NoPort, FALSE, "bound", "unbind")

BindPolls ==
  /\ At("bound") /\ jobStatus[job] = "cancelled"
  /\ Goto("unbind")
  /\ UNCHANGED <<cvars, world, faults>>

\* The command ends by itself, at the latest after its 300 seconds.
BindExits ==
  /\ At("bound")
  /\ binding' = binding \ {job}
  /\ IF jobStatus[job] = "cancelled" THEN Goto("idle") ELSE Goto("success") \/ Goto("failure")
  /\ UNCHANGED <<cvars, runtime, husks, executions, faults>>

MutLeavesCommand ==
  /\ At("unbind")
  /\ IF jobStatus[job] = "cancelled" THEN Goto("idle") ELSE Goto("error")
  /\ UNCHANGED <<cvars, world, faults>>

\* the finally block: terminate docker exec, then pkill in the container
Unbind ==
  /\ At("unbind")
  /\ \/ binding' = binding \ {job} /\ UNCHANGED doubtful
     \/ UNCHANGED binding /\ doubtful' = Doubted
  /\ IF jobStatus[job] = "cancelled" THEN Goto("idle") ELSE Goto("error")
  /\ UNCHANGED <<cvars, runtime, husks, executions, lost, crashes>>

MutNoTimeLimit(r) == FALSE

\* A command nobody watches any more ends in its own time.
BindExpires(r) ==
  /\ r \in binding /\ r # job
  /\ binding' = binding \ {r}
  /\ UNCHANGED <<cvars, control, runtime, husks, executions, faults>>

------------------------------------------------------------------------------
(* Faults, time and clients *)

\* The executor dies; an adapter operation is cut off anywhere.
Crash ==
  /\ pc \notin {"idle", "down"} /\ crashes < MaxCrashes
  /\ crashes' = crashes + 1
  /\ IF At("working")
     THEN Operate(CutEnds(Described(inst), action))
     ELSE UNCHANGED world
  /\ doubtful' = Doubted
  /\ Goto("down")
  /\ UNCHANGED <<cvars, lost>>

MutTakesWaiting ==
  /\ At("down")
  /\ \E r \in Request :
       /\ jobStatus[r] = "queued"
       /\ pc' = "accepted" /\ job' = r
  /\ UNCHANGED <<cvars, seen, attempt, world, faults>>

Restart ==
  /\ At("down")
  /\ Goto("idle")
  /\ UNCHANGED <<cvars, world, faults>>

\* STALE_SECONDS (900) outlast the 300 seconds of the WeChat command.
Lapse(r) ==
  /\ r \notin binding
  /\ HeartbeatLapses(r)
  /\ UNCHANGED <<control, world, faults>>

Client ==
  /\ \/ \E target \in Rows(Instance) : \E rank \in Ranks(target) :
          \/ CreateInstance(target, rank) \/ CreateInstances(target, rank)
          \/ \E a \in Action : CreateBatch(a, target, rank)
     \/ \E r \in Request, i \in Instance, a \in Action : CreateJob(r, i, a)
     \/ \E r \in Request : Cancel(r)
  /\ UNCHANGED <<control, world, faults>>

RunOnce ==
  \/ Poll \/ Announce \/ WorkSucceeds \/ WorkFails \/ ScriptWrites \/ RevokeClient
  \/ PublishIngress \/ Undo \/ ReportSuccess \/ ReportFailure \/ ReportError
  \/ BindStarts \/ BindSpeaks \/ BindPolls \/ BindExits \/ Unbind

\* Instances that exist are up.
SystemInit ==
  /\ Init
  /\ pc = "idle" /\ job = NoRequest /\ seen = "live" /\ attempt = 0
  /\ runtime = [i \in Instance |-> IF instStatus[i] = "active" THEN "up" ELSE "none"]
  /\ husks = {} /\ binding = {}
  /\ executions = [r \in Request |-> 0]
  /\ doubtful = {} /\ lost = 0 /\ crashes = 0

SystemNext ==
  \/ Client \/ RunOnce \/ Crash \/ Restart
  \/ \E r \in Request : Lapse(r) \/ BindExpires(r)

System == SystemInit /\ [][SystemNext]_svars

\* The executor never rests while it can do something (adapter operations and
\* calls have time-outs); the container runtime restarts it; a heartbeat that
\* does not come is noticed; a WeChat command runs 300 seconds at most.
Fairness ==
  /\ WF_svars(RunOnce) /\ WF_svars(Restart) /\ WF_svars(BindExits)
  /\ WF_svars(BindPolls)
  /\ \A r \in Request : WF_svars(Lapse(r)) /\ WF_svars(BindExpires(r))

FairSystem == System /\ Fairness

------------------------------------------------------------------------------
(* Properties *)

SystemTypeOK ==
  /\ TypeOK
  /\ pc \in Step
  /\ job \in Request \cup {NoRequest}
  /\ seen \in {"live", "deleted", "restorable"}
  /\ attempt \in 0..MaxAttempts
  /\ runtime \in [Instance -> Runtime]
  /\ husks \subseteq Instance /\ doubtful \subseteq Instance
  /\ binding \subseteq Request
  /\ executions \in [Request -> 0..2]
  /\ lost \in 0..MaxLost /\ crashes \in 0..MaxCrashes

\* A create, delete or restore is never carried out twice for one request,
\* whatever is lost and whenever the executor dies: what a first, broken run
\* left is for a human to judge.
ManualOnce == \A r \in Request : executions[r] < 2

\* The executor works on the job Control has running; only a cancelled WeChat
\* binding or a report whose answer was lost make a difference, and Control
\* hands out no other job meanwhile.
WorksOnRunningJob ==
  At("working") => jobStatus[job] = "running" /\ \A r \in Request : jobStatus[r] = "running" => r = job

\* The executor is not at work on i.
AtRest(i) == pc \in {"idle", "down"} \/ inst # i

\* What the metadata say of i and what is there agree.  Three allowances: the
\* other products restore a stopped instance stopped; an OpenClaw instance whose
\* creation failed can be deleted although nothing or only an undone creation is
\* there; what an undone creation left in the recycle bin may outlast the row.
Agrees(i) ==
  CASE instStatus[i] = "active"  -> runtime[i] = "up" \/ (~OpenClaw(i) /\ runtime[i] = "stopped")
    [] instStatus[i] = "stopped" -> runtime[i] = "stopped"
    [] instStatus[i] = "deleted" -> runtime[i] \in Archived \/ (OpenClaw(i) /\ runtime[i] \in {"none", "buried"})
    [] instStatus[i] = "failed"  -> runtime[i] \in {"none"} \cup Archived
    [] instStatus[i] = "purged"  -> runtime[i] \notin Deployed
    [] OTHER                     -> runtime[i] = "none"

\* But for instances with an operation that was cut off, failed without being undone
\* or went unreported, the metadata and the host agree on an instance whenever the
\* executor is not at work on it, whatever happened to the others.
MetadataAgrees == \A i \in Instance : AtRest(i) /\ i \notin doubtful => Agrees(i)

\* In one container at most one WeChat command runs (what was left of two bindings
\* may outlast the row that named their container).
OneBinding ==
  \A r, q \in binding :
    jobInst[r] = jobInst[q] /\ jobInst[r] \notin doubtful \cup {NoInst} => r = q

\* Every job that was accepted ends.
JobsSettle == \A r \in Request : jobStatus[r] = "queued" ~> jobStatus[r] \in Terminal

\* The command of a binding that was cancelled does not go on for ever.
CancelStopsBinding == \A r \in Request : jobStatus[r] = "cancelled" ~> r \notin binding

\* check_metadata_consistency's metadata_orphan_dir: no users directory without a
\* metadata instance
PurgedHasNoDirectory ==
  \A i \in Instance : AtRest(i) /\ instStatus[i] = "purged" => runtime[i] \notin Deployed
=============================================================================
