--------------------------- MODULE ManagerControl ---------------------------
(***************************************************************************)
(* manager-control: the job queue of the platform and the life cycle of    *)
(* the instances, as the handlers of services/manager-control/app.py and   *)
(* the transactions of services/manager-web/metadata_store.py keep them.   *)
(*                                                                         *)
(* Control runs as one synchronous gunicorn worker and every write is one  *)
(* transaction, so a handler is one step.  What a handler refuses (400,    *)
(* 403, 404, 409) or rolls back changes nothing and is not a step.  The    *)
(* executor is the environment here: it may report anything about the job  *)
(* that is running, in any order; ManagerSystem puts the real one there.   *)
(*                                                                         *)
(* Abstracted: who is asking (a request is one an authorised caller made), *)
(* names, versions, URLs, credentials and messages.  A value a request     *)
(* carries (Basic Auth flag, version) is identified with the request.      *)
(***************************************************************************)
EXTENDS Naturals, FiniteSets, Functions

CONSTANTS
  Request,     \* request ids (each names at most one job)
  Instance,    \* instance public ids; UUIDs, hence never reused
  Port,        \* external ports
  Product,     \* Product[i]: the product of instance i
  Action,      \* the job actions the callers use
  MaxBatch,    \* largest batch (the code's limit is 100)
  NoInst, NoPort, NoRequest

Products == {"openclaw", "evoscientist", "hermes"}

Lifecycle    == {"start", "stop", "restart"}
Retention    == {"delete", "restore"}
\* exclusive_actions of create_execution_job
Exclusive    == Retention \cup {"purge_deleted", "cleanup_failed"}
Pairing      == {"refresh_devices", "approve_latest_device"}
\* actions that store the value they carry in the instance row
Settings     == {"set_basic_auth", "update_version"}
Actions      == Lifecycle \cup Exclusive \cup Pairing \cup Settings \cup
                {"create", "wechat_bind", "install_skill", "set_model_provider",
                 "refresh_ingress"}
\* actions a stale job of which needs a human and is never run again
Manual       == {"create"} \cup Retention
\* actions whose outcome the PATCH handler writes to operation_records
Audited      == {"create", "install_skill", "set_model_provider"} \cup Settings
                \cup Pairing \cup Exclusive

\* PRODUCT_CAPABILITIES and EXECUTION_ACTION_CAPABILITIES
Supports(product, a) ==
  CASE a = "cleanup_failed" -> product = "evoscientist"
    [] a = "refresh_ingress" -> product = "hermes"
    [] a \in Pairing \cup {"wechat_bind", "install_skill", "set_basic_auth"}
         -> product = "openclaw"
    [] OTHER -> TRUE

ASSUME ControlAssumption ==
  /\ Product \in [Instance -> Products]
  /\ Action \subseteq Actions
  /\ MaxBatch \in Nat
  /\ NoInst \notin Instance
  /\ NoPort \notin Port
  /\ NoRequest \notin Request

JobState  == {"absent", "queued", "running", "succeeded", "failed", "cancelled"}
Terminal  == {"succeeded", "failed", "cancelled"}
\* "unborn": no row yet; "purged": the row is gone for good
InstState == {"unborn", "provisioning", "active", "stopped", "deleted",
              "failed", "purged"}
Live      == {"provisioning", "active", "stopped", "failed"}

VARIABLES
  jobStatus,    \* execution_jobs.status of each request
  jobAction,    \* execution_jobs.action
  jobInst,      \* execution_jobs.instance_id; NoInst once the row is gone
  older,        \* older[r]: the jobs created before r (created_at, id)
  stale,        \* running jobs without a heartbeat for STALE_SECONDS
  retried,      \* active jobs that a claim put back, 'recovered after stale heartbeat'
  interrupted,  \* failed with 'execution interrupted; manual confirmation required'
  audit,        \* operation_records.status of the row with this request id
  instStatus,   \* instances.status
  restorable,   \* instances with restore_state = 'restorable'
  instPort,     \* instances.port
  portOwner,    \* the instance the ports row says allocated; NoInst: released or no row
  recorded      \* requests whose value stands in the instance row

jobVars  == <<jobStatus, jobAction, jobInst, older, stale, retried, interrupted, audit>>
instVars == <<instStatus, restorable, instPort, portOwner, recorded>>
cvars    == <<jobStatus, jobAction, jobInst, older, stale, retried, interrupted, audit,
              instStatus, restorable, instPort, portOwner, recorded>>

------------------------------------------------------------------------------
(* State functions *)

Unused     == {r \in Request : jobStatus[r] = "absent"}
Created    == {r \in Request : jobStatus[r] # "absent"}
Exists(i)  == instStatus[i] \notin {"unborn", "purged"}
\* the jobs of i with an action in A that list_execution_jobs finds active
ActiveJobs(i, A) == {r \in Request : /\ jobStatus[r] \in {"queued", "running"}
                                     /\ jobInst[r] = i
                                     /\ jobAction[r] \in A}
\* idx_instances_live_port: no other live instance holds port p
LivePortFree(i, p) ==
  p = NoPort \/ \A j \in Instance \ {i} : instPort[j] = p => instStatus[j] \notin Live

\* Sets of new jobs: target gives each its instance, rank its row number.
Rows(candidates) ==
  UNION {[jobs -> candidates] : jobs \in {J \in SUBSET Unused : J # {} /\ Cardinality(J) <= MaxBatch}}
Ranks(target) == {rank \in [DOMAIN target -> 1..MaxBatch] : IsInjective(rank)}

------------------------------------------------------------------------------
(* Creating jobs *)

\* INSERT INTO execution_jobs, once per row
Enqueue(a, target, rank) ==
  LET new == DOMAIN target IN
  /\ jobStatus' = [r \in Request |-> IF r \in new THEN "queued" ELSE jobStatus[r]]
  /\ jobAction' = [r \in Request |-> IF r \in new THEN a ELSE jobAction[r]]
  /\ jobInst'   = [r \in Request |-> IF r \in new THEN target[r] ELSE jobInst[r]]
  /\ older'     = [r \in Request |-> IF r \in new
                     THEN Created \cup {q \in new : rank[q] < rank[r]} ELSE older[r]]
  /\ UNCHANGED <<stale, retried, interrupted, audit>>

\* INSERT INTO instances, once per row; the port comes with the create's report
InsertInstances(I) ==
  instStatus' = [i \in Instance |-> IF i \in I THEN "provisioning" ELSE instStatus[i]]

\* POST /admin/instance-batches: the instance rows and their create jobs are
\* written in one transaction
CreateInstances(target, rank) ==
  /\ "create" \in Action
  /\ IsInjective(target)
  /\ \A r \in DOMAIN target : instStatus[target[r]] = "unborn"
  /\ Enqueue("create", target, rank)
  /\ InsertInstances(Range(target))
  /\ UNCHANGED <<restorable, instPort, portOwner, recorded>>

\* POST /admin/instances: one row
CreateInstance(target, rank) == Cardinality(DOMAIN target) = 1 /\ CreateInstances(target, rank)

\* the status conditions of create_execution_job
StatusAllows(i, a) ==
  /\ instStatus[i] = "deleted" => a \in {"restore", "purge_deleted"}
  /\ a \in {"restore", "purge_deleted"} => instStatus[i] = "deleted" /\ i \in restorable
  /\ a = "cleanup_failed" => instStatus[i] = "failed"

MutForgetsExclusive(i, a) ==
  /\ ActiveJobs(i, Exclusive) = {}
  /\ a \in {"wechat_bind", "approve_latest_device"} => ActiveJobs(i, {a}) = {}
MutForgetsRepeats(i, a) ==
  /\ a \in Exclusive => ActiveJobs(i, Actions) = {}
  /\ ActiveJobs(i, Exclusive) = {}

\* which active jobs of i the new job may not meet
QueueAllows(i, a) ==
  /\ a \in Exclusive => ActiveJobs(i, Actions) = {}
  /\ ActiveJobs(i, Exclusive) = {}
  /\ a \in {"wechat_bind", "approve_latest_device"} => ActiveJobs(i, {a}) = {}

\* POST /execution-jobs.  A request id that is already used returns the
\* existing job or 409: no step.
CreateJob(r, i, a) ==
  /\ r \in Unused
  /\ a # "create" /\ Exists(i) /\ Supports(Product[i], a)
  /\ StatusAllows(i, a)
  /\ QueueAllows(i, a)
  /\ Enqueue(a, [q \in {r} |-> i], [q \in {r} |-> 1])
  /\ UNCHANGED instVars

MutBatchSeesItsOwn(i, a) ==
  /\ a \in Lifecycle \cup {"install_skill"}
  /\ instStatus[i] # "deleted"
  /\ ActiveJobs(i, {a}) = {}

\* POST /admin/device-batches, /admin/action-batches, /admin/model-provider-batches:
\* what each asks of every instance in it
DeviceBatchAllows(i, a) ==
  /\ a \in Pairing
  /\ instStatus[i] # "deleted"
  /\ ActiveJobs(i, {a} \cup Retention) = {}
ActionBatchAllows(i, a) ==
  /\ a \in Lifecycle \cup {"install_skill"}
  /\ instStatus[i] # "deleted"
  /\ ActiveJobs(i, {a} \cup Retention) = {}
ProviderBatchAllows(i, a) ==
  /\ a = "set_model_provider"
  /\ instStatus[i] = "active"
  /\ ActiveJobs(i, Actions) = {}

\* The parent job of a batch is created, run and finished inside the same
\* transaction, so only its children are jobs here.
CreateBatch(a, target, rank) ==
  /\ IsInjective(target)
  /\ \A r \in DOMAIN target : /\ Exists(target[r])
                              /\ Supports(Product[target[r]], a)
                              /\ \/ DeviceBatchAllows(target[r], a)
                                 \/ ActionBatchAllows(target[r], a)
                                 \/ ProviderBatchAllows(target[r], a)
  /\ Enqueue(a, target, rank)
  /\ UNCHANGED instVars

------------------------------------------------------------------------------
(* Claiming: one transaction recovers stale jobs and hands out the oldest *)

MutForgetsTheOthers == {r \in stale : jobStatus[r] = "running" /\ jobAction[r] \in Manual}

Lapsed == {r \in stale : jobStatus[r] = "running"}

MutRequeuesAll == [r \in Request |->
  IF r \in Lapsed \/ jobStatus[r] = "queued"
  THEN IF jobInst[r] = NoInst THEN "failed" ELSE "queued"
  ELSE jobStatus[r]]

MutRunsOrphans == [r \in Request |->
  IF r \in Lapsed /\ jobAction[r] \in Manual THEN "failed"
  ELSE IF r \in Lapsed THEN "queued" ELSE jobStatus[r]]

\* the job states once the stale and the instance-less jobs are dealt with
Recovered == [r \in Request |->
  IF r \in Lapsed /\ jobAction[r] \in Manual THEN "failed"
  ELSE IF r \in Lapsed \/ jobStatus[r] = "queued"
       THEN IF jobInst[r] = NoInst THEN "failed" ELSE "queued"
  ELSE jobStatus[r]]

MutIgnoresRunning ==
  LET waiting == {r \in Request : Recovered[r] = "queued"} IN
  IF waiting = {} THEN {NoRequest} ELSE {r \in waiting : older[r] \cap waiting = {}}
MutAnyWaiting ==
  LET waiting == {r \in Request : Recovered[r] = "queued"} IN
  IF (\E r \in Request : Recovered[r] = "running") \/ waiting = {}
  THEN {NoRequest} ELSE waiting

\* what the claim hands out: nothing while a job runs, else the oldest queued job
NextJobs ==
  LET waiting == {r \in Request : Recovered[r] = "queued"} IN
  IF (\E r \in Request : Recovered[r] = "running") \/ waiting = {}
  THEN {NoRequest}
  ELSE {r \in waiting : older[r] \cap waiting = {}}

Claim(c) ==
  /\ c \in NextJobs
  /\ jobStatus' = [r \in Request |-> IF r = c THEN "running" ELSE Recovered[r]]
  /\ stale' = stale \ Lapsed
  /\ retried' = {r \in retried \cup Lapsed : Recovered[r] \notin Terminal}
  /\ interrupted' = interrupted \cup {r \in Lapsed : jobAction[r] \in Manual}
  /\ audit' = [r \in Request |-> IF r \in interrupted' /\ audit[r] = "none"
                                 THEN "failed" ELSE audit[r]]
  /\ instStatus' = [i \in Instance |->
       IF /\ instStatus[i] = "provisioning"
          /\ \E r \in interrupted' : jobAction[r] = "create" /\ jobInst[r] = i
       THEN "failed" ELSE instStatus[i]]
  /\ UNCHANGED <<jobAction, jobInst, older, restorable, instPort, portOwner, recorded>>

------------------------------------------------------------------------------
(* PATCH /execution-jobs/{request_id}: the job, the instance and the audit  *)
(* row change together or not at all                                        *)

MutOnlySuccessEndsCreate(r, s) == jobAction[r] = "create" /\ s = "succeeded"

MutTrustsScripts(r, s) ==
  /\ jobAction[r] \in Retention /\ s = "succeeded"
  /\ \E i \in Instance : jobInst[r] = i /\ Product[i] # "openclaw"

\* what a success (s) of job r does to its instance, and when that is refused
CreateDone(r, s)  == jobAction[r] = "create" /\ s \in {"succeeded", "failed"}
RuntimeDone(r, s) == jobAction[r] \in Lifecycle /\ s = "succeeded"
RetainDone(r, s)  == jobAction[r] \in Retention /\ s = "succeeded"
PurgeDone(r, s)   == jobAction[r] \in {"purge_deleted", "cleanup_failed"} /\ s = "succeeded"
SettingDone(r, s) == jobAction[r] \in Settings /\ s = "succeeded"

Provisioned(s) == IF s = "succeeded" THEN "active" ELSE "failed"

\* update_execution_job's transition table, then the ValueErrors and integrity
\* errors of the helpers: when one is raised the whole PATCH is rolled back
Accepts(r, s, p) ==
  LET i == jobInst[r] IN
  /\ jobStatus[r] = "running" \/ (jobStatus[r] = "queued" /\ s = "running")
  /\ CreateDone(r, s) =>
       /\ i # NoInst /\ (s = "succeeded" => p \in Port)
       /\ instStatus[i] \in {"provisioning", Provisioned(s)}
       /\ s = "succeeded" /\ instStatus[i] = "provisioning" => LivePortFree(i, p)
  /\ RuntimeDone(r, s) => i # NoInst /\ instStatus[i] \in {"active", "stopped"}
  /\ RetainDone(r, s) =>
       /\ i # NoInst
       /\ jobAction[r] = "restore" => LivePortFree(i, instPort[i])
  /\ PurgeDone(r, s) =>
       /\ i # NoInst
       /\ IF jobAction[r] = "cleanup_failed" THEN instStatus[i] = "failed"
          ELSE instStatus[i] = "deleted" /\ i \in restorable
  /\ SettingDone(r, s) => i # NoInst
  /\ s \in {"succeeded", "failed"} /\ jobAction[r] \in Audited => audit[r] = "none"

\* finish_instance_provisioning
FinishProvisioning(i, status, p) ==
  /\ IF instStatus[i] = status THEN UNCHANGED <<instStatus, instPort, portOwner>>
     ELSE /\ instStatus' = [instStatus EXCEPT ![i] = status]
          /\ IF status = "active"
             THEN /\ instPort' = [instPort EXCEPT ![i] = p]
                  /\ portOwner' = [portOwner EXCEPT ![p] = i]
             ELSE UNCHANGED <<instPort, portOwner>>
  /\ UNCHANGED <<jobInst, restorable, recorded>>

\* set_instance_runtime_status
SetRuntimeStatus(i, status) ==
  /\ instStatus' = [instStatus EXCEPT ![i] = status]
  /\ UNCHANGED <<jobInst, restorable, instPort, portOwner, recorded>>

\* record_port: the ports row of i's port, if i has a port, now names owner
RecordPort(i, owner) ==
  portOwner' = [p \in Port |-> IF p = instPort[i] THEN owner ELSE portOwner[p]]

\* set_instance_retention_state
SetRetentionState(i, a) ==
  /\ instStatus' = [instStatus EXCEPT ![i] = IF a = "delete" THEN "deleted" ELSE "active"]
  /\ restorable' = IF a = "delete" THEN restorable \cup {i} ELSE restorable \ {i}
  /\ RecordPort(i, i)
  /\ UNCHANGED <<jobInst, instPort, recorded>>

MutKeepsBookings(i) ==
  /\ instStatus' = [instStatus EXCEPT ![i] = "purged"]
  /\ restorable' = restorable \ {i}
  /\ instPort' = [instPort EXCEPT ![i] = NoPort]
  /\ jobInst' = [r \in Request |-> IF jobInst[r] = i THEN NoInst ELSE jobInst[r]]
  /\ recorded' = recorded \ {r \in Request : jobInst[r] = i}
  /\ UNCHANGED portOwner

\* purge_failed_instance, purge_deleted_instance: release the ports rows of i and
\* of i's port number, drop the row, and (ON DELETE SET NULL) i's jobs lose it
PurgeInstance(i) ==
  /\ instStatus' = [instStatus EXCEPT ![i] = "purged"]
  /\ restorable' = restorable \ {i}
  /\ instPort' = [instPort EXCEPT ![i] = NoPort]
  /\ portOwner' = [p \in Port |-> IF portOwner[p] = i \/ p = instPort[i]
                                  THEN NoInst ELSE portOwner[p]]
  /\ jobInst' = [r \in Request |-> IF jobInst[r] = i THEN NoInst ELSE jobInst[r]]
  /\ recorded' = recorded \ {r \in Request : jobInst[r] = i}

\* set_instance_basic_auth, set_instance_version
RecordSetting(r) ==
  /\ recorded' = {r} \cup {q \in recorded : jobInst[q] # jobInst[r] \/ jobAction[q] # jobAction[r]}
  /\ UNCHANGED <<jobInst, instStatus, restorable, instPort, portOwner>>

SideEffects(r, s, p) ==
  LET i == jobInst[r] IN
  \/ CreateDone(r, s)  /\ FinishProvisioning(i, Provisioned(s), p)
  \/ RuntimeDone(r, s) /\ SetRuntimeStatus(i, IF jobAction[r] = "stop" THEN "stopped" ELSE "active")
  \/ RetainDone(r, s)  /\ SetRetentionState(i, jobAction[r])
  \/ PurgeDone(r, s)   /\ PurgeInstance(i)
  \/ SettingDone(r, s) /\ RecordSetting(r)
  \/ /\ ~(\/ CreateDone(r, s) \/ RuntimeDone(r, s) \/ RetainDone(r, s)
          \/ PurgeDone(r, s) \/ SettingDone(r, s))
     /\ UNCHANGED <<jobInst, instVars>>

MutJobStatusAsOutcome(r, s, nothingPending) == s

\* record_operation; "nothing pending" is what an approval that found no
\* request printed
AuditOutcome(r, s, nothingPending) ==
  IF jobAction[r] = "approve_latest_device" /\ nothingPending THEN "skipped"
  ELSE IF s = "succeeded" THEN "success" ELSE "failed"

\* INSERT INTO operation_records
RecordOperation(r, outcome) == [audit EXCEPT ![r] = outcome]

Patch(r, s, p, nothingPending) ==
  /\ Accepts(r, s, p)
  /\ jobStatus' = [jobStatus EXCEPT ![r] = s]
  /\ stale' = stale \ {r}
  /\ retried' = IF s = "running" THEN retried ELSE retried \ {r}
  /\ audit' = IF s \in {"succeeded", "failed"} /\ jobAction[r] \in Audited
              THEN RecordOperation(r, AuditOutcome(r, s, nothingPending)) ELSE audit
  /\ SideEffects(r, s, p)
  /\ UNCHANGED <<jobAction, older, interrupted>>

\* POST /execution-jobs/{request_id}/cancel
Cancel(r) ==
  /\ jobAction[r] = "wechat_bind"
  /\ jobStatus[r] \in {"queued", "running"}
  /\ jobStatus' = [jobStatus EXCEPT ![r] = "cancelled"]
  /\ stale' = stale \ {r} /\ retried' = retried \ {r}
  /\ UNCHANGED <<jobAction, jobInst, older, interrupted, audit, instVars>>

------------------------------------------------------------------------------
(* Writers other than the handlers *)

\* STALE_SECONDS pass without a heartbeat of r
HeartbeatLapses(r) ==
  /\ jobStatus[r] = "running" /\ r \notin stale
  /\ stale' = stale \cup {r}
  /\ UNCHANGED <<jobStatus, jobAction, jobInst, older, retried, interrupted, audit, instVars>>

\* upsert_instance, on a row that exists and keeps its port
UpsertInstance(i, status, isRestorable) ==
  /\ instStatus' = [instStatus EXCEPT ![i] = status]
  /\ restorable' = IF isRestorable THEN restorable \cup {i} ELSE restorable \ {i}
  /\ UNCHANGED <<instPort, recorded>>

\* metadata_cli.py set-instance-status, run on the metadata database by
\* delete_user.sh and restore_user.sh while r, a job on an OpenClaw instance, is
\* executed; whole tells whether deleted_payload found a complete recycle entry
ScriptSetsStatus(r, whole) ==
  LET i == jobInst[r] IN
  /\ jobStatus[r] = "running" /\ jobAction[r] \in Retention
  /\ i # NoInst /\ Product[i] = "openclaw"
  /\ jobAction[r] = "restore" => LivePortFree(i, instPort[i])
  /\ UpsertInstance(i, IF jobAction[r] = "delete" THEN "deleted" ELSE "active",
                    jobAction[r] = "delete" /\ whole)
  /\ RecordPort(i, IF jobAction[r] = "delete" THEN NoInst ELSE i)
  /\ UNCHANGED jobVars

------------------------------------------------------------------------------
\* The database may already hold active instances, each on a port of its own.
Init ==
  /\ jobStatus = [r \in Request |-> "absent"]
  /\ jobAction = [r \in Request |-> "none"]
  /\ jobInst = [r \in Request |-> NoInst]
  /\ older = [r \in Request |-> {}]
  /\ stale = {} /\ retried = {} /\ interrupted = {}
  /\ audit = [r \in Request |-> "none"]
  /\ instStatus \in [Instance -> {"unborn", "active"}]
  /\ restorable = {}
  /\ instPort \in [Instance -> Port \cup {NoPort}]
  /\ \A i \in Instance : instPort[i] = NoPort <=> instStatus[i] = "unborn"
  /\ \A i, j \in Instance : instPort[i] = instPort[j] /\ i # j => instPort[i] = NoPort
  /\ portOwner \in [Port -> Instance \cup {NoInst}]
  /\ \A p \in Port, i \in Instance : portOwner[p] = i <=> instPort[i] = p
  /\ recorded = {}

\* A report of the executor may name any port.
Next ==
  \/ \E target \in Rows(Instance) : \E rank \in Ranks(target) :
       \/ CreateInstance(target, rank) \/ CreateInstances(target, rank)
       \/ \E a \in Action : CreateBatch(a, target, rank)
  \/ \E r \in Request, i \in Instance, a \in Action : CreateJob(r, i, a)
  \/ \E c \in Request \cup {NoRequest} : Claim(c)
  \/ \E r \in Request, s \in {"running", "succeeded", "failed"}, none \in BOOLEAN :
       \E p \in Port \cup {NoPort} : jobStatus[r] = "running" /\ Patch(r, s, p, none)
  \/ \E r \in Request : Cancel(r) \/ HeartbeatLapses(r)
  \/ \E r \in Request, whole \in BOOLEAN : ScriptSetsStatus(r, whole)

Spec == Init /\ [][Next]_cvars

------------------------------------------------------------------------------
(* Properties *)

TypeOK ==
  /\ jobStatus \in [Request -> JobState]
  /\ jobAction \in [Request -> Actions \cup {"none"}]
  /\ jobInst \in [Request -> Instance \cup {NoInst}]
  /\ older \in [Request -> SUBSET Request]
  /\ stale \subseteq Request /\ retried \subseteq Request /\ interrupted \subseteq Request
  /\ audit \in [Request -> {"none", "success", "failed", "skipped"}]
  /\ instStatus \in [Instance -> InstState]
  /\ restorable \subseteq Instance
  /\ instPort \in [Instance -> Port \cup {NoPort}]
  /\ portOwner \in [Port -> Instance \cup {NoInst}]
  /\ recorded \subseteq Request

\* A delete, restore or permanent deletion that is queued or running is the only
\* active job of its instance: no handler, batch or recovery lets another in.
RetentionAlone ==
  \A r, q \in Request :
    /\ {jobStatus[r], jobStatus[q]} \subseteq {"queued", "running"}
    /\ jobAction[r] \in Retention \cup {"purge_deleted"}
    /\ jobInst[r] = jobInst[q] /\ jobInst[r] # NoInst
    => r = q

\* The same for every action of exclusive_actions, cleanup_failed included.
ExclusiveAlone ==
  \A r, q \in Request :
    /\ {jobStatus[r], jobStatus[q]} \subseteq {"queued", "running"}
    /\ jobAction[r] \in Exclusive
    /\ jobInst[r] = jobInst[q] /\ jobInst[r] # NoInst
    => r = q

\* An instance is provisioning exactly as long as its create job is active: no
\* rollback or recovery leaves a provisioning row nobody works on, or a create
\* job that finish_instance_provisioning would refuse.
ProvisioningBacked ==
  \A i \in Instance :
    instStatus[i] = "provisioning" <=> ActiveJobs(i, {"create"}) # {}

\* The audit row of a request agrees with its job, and an audited job that
\* succeeded or failed, by a report or by the recovery of a claim, has one.
AuditAgrees ==
  \A r \in Request :
    /\ audit[r] = "success" => jobStatus[r] = "succeeded"
    /\ audit[r] = "failed" => jobStatus[r] = "failed"
    /\ audit[r] # "none" => jobAction[r] \in Audited /\ jobStatus[r] \in Terminal
    /\ jobAction[r] \in Audited /\ jobStatus[r] \in {"succeeded", "failed"} => audit[r] # "none"

\* A job that runs has its instance row: a purge never pulls the row from under
\* another job, so no report can fail with "instance not found".
RunningHasInstance ==
  \A r \in Request : jobStatus[r] = "running" => jobInst[r] # NoInst /\ Exists(jobInst[r])

\* A ports row that says allocated names an instance that has a row and this
\* port: no purge, restore or script leaves a booking of a port nobody holds, which
\* the allocator would never offer again.
BookingsBacked ==
  \A p \in Port : portOwner[p] # NoInst => Exists(portOwner[p]) /\ instPort[portOwner[p]] = p

\* One WeChat binding and one approval of an instance at a time, whichever form
\* or batch asked for it: two approvals would race for the same pending device.
PairingAlone ==
  \A r, q \in Request :
    /\ {jobStatus[r], jobStatus[q]} \subseteq {"queued", "running"}
    /\ jobAction[r] \in {"wechat_bind", "approve_latest_device"}
    /\ jobAction[q] = jobAction[r] /\ jobInst[q] = jobInst[r]
    => r = q

\* The Basic Auth flag and the version an instance row shows are those of the
\* change asked for last among those that succeeded, recoveries and reruns of
\* older changes notwithstanding.
SettingsFollowOrder ==
  \A r \in recorded, q \in Request :
    /\ jobStatus[q] = "succeeded" /\ jobAction[q] = jobAction[r] /\ jobInst[q] = jobInst[r]
    => q = r \/ q \in older[r]

\* A claim never takes a running job's turn away: one that lost its executor runs
\* again at once, ahead of all that wait, or fails.  A job leaves the queue by
\* running, by being cancelled, or because its instance is gone for good.
JobTransitions ==
  [][\A r \in Request :
       /\ jobStatus[r] = "queued" => \/ jobStatus'[r] \in {"queued", "running", "cancelled"}
                                     \/ jobStatus'[r] = "failed" /\ jobInst[r] = NoInst
       /\ jobStatus[r] = "running" => jobStatus'[r] \in {"running"} \cup Terminal]_cvars

\* What makes the invariants inductive: an unused request is blank, a job that
\* has an instance has one with a row, an instance is created at most once, an
\* instance with an active permanent deletion is deleted, and one job runs.
Blank        == \A r \in Request : /\ r \in Unused <=> jobAction[r] = "none"
                                   /\ r \in Unused => jobInst[r] = NoInst
JobsHaveRows == \A r \in Request : jobInst[r] # NoInst => Exists(jobInst[r])
CreatedOnce  ==
  \A r, q \in Request :
    /\ jobAction[r] = "create" /\ jobAction[q] = "create"
    /\ jobInst[r] = jobInst[q] /\ jobInst[r] # NoInst
    => r = q
PurgeOfDeleted ==
  \A r \in Request :
    /\ jobStatus[r] \in {"queued", "running"} /\ jobAction[r] = "purge_deleted"
    /\ jobInst[r] # NoInst
    => instStatus[jobInst[r]] = "deleted"
OneRuns == \A r, q \in Request : jobStatus[r] = "running" /\ jobStatus[q] = "running" => r = q
InterruptedFailed == \A r \in interrupted : jobStatus[r] = "failed" /\ jobAction[r] \in Manual

\* The control service's invariant: the three safety invariants its handlers rely
\* on, strengthened to be inductive.
ControlInv ==
  /\ TypeOK /\ Blank /\ JobsHaveRows /\ CreatedOnce /\ PurgeOfDeleted /\ OneRuns
  /\ InterruptedFailed
  /\ RetentionAlone /\ ProvisioningBacked /\ RunningHasInstance

JQ == INSTANCE JobQueue WITH
        status <- jobStatus, ahead <- older, retried <- retried,
        fragile <- {r \in Request : jobAction[r] \in Manual}

\* The queue and the recovery of claims implement the promise of JobQueue.
QueueSpec == JQ!Spec
=============================================================================
