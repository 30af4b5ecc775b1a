------------------------ MODULE ManagerSystem_proofs ------------------------
(***************************************************************************)
(* Theorems about ManagerControl, for any requests, instances, ports,      *)
(* products and batch sizes, and then about ManagerSystem, which composes  *)
(* it with the executor: what the executor does is what ManagerControl     *)
(* lets an executor do, so that all that is proved of the control service  *)
(* holds of the two together; the executor works on the job Control has    *)
(* running, carries out a create, delete or restore once, and runs one     *)
(* WeChat command in a container; and metadata and host agree on every     *)
(* instance nothing came between.                                          *)
(***************************************************************************)
EXTENDS ManagerSystem, TLAPS

------------------------------------------------------------------------------
(* ManagerControl *)

\* What enumerating the rows of a request comes to.
LEMMA RowsFacts ==
  ASSUME NEW target \in Rows(Instance)
  PROVE  DOMAIN target \subseteq Unused /\ target \in [DOMAIN target -> Instance]
BY DEF Rows

LEMMA NothingIsPurged == NoInst \notin Instance /\ NoPort \notin Port /\ NoRequest \notin Request
BY ControlAssumption DEF ControlAssumption

\* The names of the actions and the states, as the provers need them.
LEMMA ActionNames ==
  /\ Manual = {"create", "delete", "restore"}
  /\ Manual \subseteq Actions /\ Settings \subseteq Actions /\ "create" \in Actions
  /\ Action \subseteq Actions /\ "none" \notin Actions
BY ControlAssumption DEF ControlAssumption, Manual, Retention, Actions, Settings, Exclusive,
   Lifecycle, Pairing

------------------------------------------------------------------------------
(* Type correctness *)

LEMMA EnqueueType ==
  ASSUME TypeOK, NEW a \in Actions, NEW target \in Rows(Instance), NEW rank,
         Enqueue(a, target, rank)
  PROVE  /\ jobStatus' \in [Request -> JobState]
         /\ jobAction' \in [Request -> Actions \cup {"none"}]
         /\ jobInst' \in [Request -> Instance \cup {NoInst}]
         /\ older' \in [Request -> SUBSET Request]
         /\ stale' \subseteq Request /\ retried' \subseteq Request /\ interrupted' \subseteq Request
         /\ audit' \in [Request -> {"none", "success", "failed", "skipped"}]
<1> USE DEF Enqueue, TypeOK
<1>1. DOMAIN target \subseteq Request /\ \A r \in DOMAIN target : target[r] \in Instance
  BY RowsFacts DEF Unused
<1>2. jobStatus' \in [Request -> JobState]
  BY DEF JobState
<1>3. jobInst' \in [Request -> Instance \cup {NoInst}]
  BY <1>1
<1>4. older' \in [Request -> SUBSET Request]
  BY <1>1 DEF Created
<1> QED BY <1>2, <1>3, <1>4

LEMMA CreateInstancesType ==
  ASSUME TypeOK, NEW target \in Rows(Instance), NEW rank, CreateInstances(target, rank)
  PROVE  TypeOK'
<1>1. instStatus' \in [Instance -> InstState]
  BY DEF CreateInstances, InsertInstances, TypeOK, InstState
<1> QED BY <1>1, EnqueueType, ActionNames DEF CreateInstances, TypeOK

LEMMA CreateBatchType ==
  ASSUME TypeOK, NEW a \in Action, NEW target \in Rows(Instance), NEW rank,
         CreateBatch(a, target, rank)
  PROVE  TypeOK'
BY EnqueueType, ActionNames DEF CreateBatch, instVars, TypeOK

LEMMA CreateJobType ==
  ASSUME TypeOK, NEW r \in Request, NEW i \in Instance, NEW a \in Action, CreateJob(r, i, a)
  PROVE  TypeOK'
<1>1. /\ jobStatus' \in [Request -> JobState]
      /\ jobAction' \in [Request -> Actions \cup {"none"}]
      /\ jobInst' \in [Request -> Instance \cup {NoInst}]
      /\ older' \in [Request -> SUBSET Request]
  BY ActionNames DEF CreateJob, Enqueue, TypeOK, JobState, Created
<1> QED BY <1>1 DEF CreateJob, Enqueue, TypeOK, instVars

LEMMA ClaimType ==
  ASSUME TypeOK, NEW c \in Request \cup {NoRequest}, Claim(c)
  PROVE  TypeOK'
<1> USE DEF Claim, TypeOK
<1>1. Recovered \in [Request -> JobState]
  BY DEF Recovered, JobState
<1>2. jobStatus' \in [Request -> JobState]
  BY <1>1 DEF JobState
<1>3. interrupted' \subseteq Request /\ stale' \subseteq Request /\ retried' \subseteq Request
  BY DEF Lapsed
<1>4. audit' \in [Request -> {"none", "success", "failed", "skipped"}]
  OBVIOUS
<1>5. instStatus' \in [Instance -> InstState]
  BY DEF InstState
<1> QED BY <1>2, <1>3, <1>4, <1>5

LEMMA PatchType ==
  ASSUME TypeOK, NEW r \in Request, NEW s \in {"running", "succeeded", "failed"},
         NEW p \in Port \cup {NoPort}, NEW none \in BOOLEAN, Patch(r, s, p, none)
  PROVE  TypeOK'
<1> USE DEF TypeOK
<1> DEFINE i == jobInst[r]
<1>1. /\ jobStatus' \in [Request -> JobState] /\ stale' \subseteq Request
      /\ audit' \in [Request -> {"none", "success", "failed", "skipped"}]
  BY DEF Patch, JobState, AuditOutcome, RecordOperation
<1>2. /\ jobInst' \in [Request -> Instance \cup {NoInst}]
      /\ instStatus' \in [Instance -> InstState] /\ restorable' \subseteq Instance
      /\ instPort' \in [Instance -> Port \cup {NoPort}]
      /\ portOwner' \in [Port -> Instance \cup {NoInst}]
      /\ recorded' \subseteq Request
  <2>1. SideEffects(r, s, p) /\ Accepts(r, s, p)
    BY DEF Patch
  <2>2. CASE CreateDone(r, s) /\ FinishProvisioning(i, Provisioned(s), p)
    <3>1. i \in Instance
      BY <2>1, <2>2 DEF Accepts
    <3> QED BY <2>1, <2>2, <3>1 DEF FinishProvisioning, Provisioned, Accepts, CreateDone, InstState
  <2>3. CASE RuntimeDone(r, s) /\ SetRuntimeStatus(i, IF jobAction[r] = "stop" THEN "stopped" ELSE "active")
    BY <2>3 DEF SetRuntimeStatus, InstState
  <2>4. CASE RetainDone(r, s) /\ SetRetentionState(i, jobAction[r])
    <3>1. i \in Instance
      BY <2>1, <2>4 DEF Accepts
    <3> QED BY <2>4, <3>1 DEF SetRetentionState, RecordPort, InstState
  <2>5. CASE PurgeDone(r, s) /\ PurgeInstance(i)
    BY <2>5 DEF PurgeInstance, InstState
  <2>6. CASE SettingDone(r, s) /\ RecordSetting(r)
    BY <2>6 DEF RecordSetting
  <2>7. CASE UNCHANGED <<jobInst, instVars>>
    BY <2>7 DEF instVars
  <2> QED BY <2>1, <2>2, <2>3, <2>4, <2>5, <2>6, <2>7 DEF SideEffects
<1> QED BY <1>1, <1>2 DEF Patch

LEMMA OtherType ==
  ASSUME TypeOK, NEW r \in Request,
         Cancel(r) \/ HeartbeatLapses(r) \/ \E whole \in BOOLEAN : ScriptSetsStatus(r, whole)
  PROVE  TypeOK'
<1> USE DEF TypeOK
<1>1. CASE Cancel(r)
  BY <1>1 DEF Cancel, instVars, JobState
<1>2. CASE HeartbeatLapses(r)
  BY <1>2 DEF HeartbeatLapses, instVars
<1>3. CASE \E whole \in BOOLEAN : ScriptSetsStatus(r, whole)
  <2>1. PICK whole \in BOOLEAN : ScriptSetsStatus(r, whole)
    BY <1>3
  <2>2. jobInst[r] \in Instance
    BY <2>1 DEF ScriptSetsStatus, UpsertInstance
  <2> QED BY <2>1, <2>2 DEF ScriptSetsStatus, UpsertInstance, RecordPort, jobVars, InstState
<1> QED BY <1>1, <1>2, <1>3

\* The type invariant.
THEOREM TypeCorrect == Spec => []TypeOK
<1>1. Init => TypeOK
  <2>1. Init => instStatus \in [Instance -> InstState]
    BY DEF Init, InstState
  <2> QED BY <2>1 DEF Init, TypeOK, JobState
<1>2. TypeOK /\ [Next]_cvars => TypeOK'
  <2> SUFFICES ASSUME TypeOK, Next PROVE TypeOK'
    BY DEF TypeOK, cvars
  <2> QED BY CreateInstancesType, CreateBatchType, CreateJobType, ClaimType, PatchType, OtherType DEF Next, CreateInstance
<1> QED BY <1>1, <1>2, PTL DEF Spec

------------------------------------------------------------------------------
(* The invariant of the control service *)

LEMMA CreateInstancesInv ==
  ASSUME ControlInv, NEW target \in Rows(Instance), NEW rank, CreateInstances(target, rank)
  PROVE  ControlInv'
<1> DEFINE new == DOMAIN target
<1> USE DEF ControlInv
<1>1. /\ new \subseteq Unused /\ new \subseteq Request
      /\ \A r \in new : target[r] \in Instance /\ instStatus[target[r]] = "unborn"
      /\ \A r, q \in new : target[r] = target[q] => r = q
      /\ Range(target) = {target[r] : r \in new}
  BY RowsFacts DEF CreateInstances, IsInjective, Unused, Range
<1>2. /\ jobStatus' = [r \in Request |-> IF r \in new THEN "queued" ELSE jobStatus[r]]
      /\ jobAction' = [r \in Request |-> IF r \in new THEN "create" ELSE jobAction[r]]
      /\ jobInst' = [r \in Request |-> IF r \in new THEN target[r] ELSE jobInst[r]]
      /\ interrupted' = interrupted
      /\ instStatus' = [i \in Instance |-> IF i \in Range(target) THEN "provisioning" ELSE instStatus[i]]
  BY DEF CreateInstances, InsertInstances, Enqueue
<1>3. TypeOK'
  BY CreateInstancesType
\* no job belongs to an unborn instance
<1>4. \A r \in Request : jobInst[r] # NoInst => jobInst[r] \in Instance /\ jobInst[r] \notin Range(target)
  BY <1>1 DEF JobsHaveRows, Exists, TypeOK
<1>5. Blank'
  BY <1>1, <1>2 DEF Blank, Unused
<1>6. JobsHaveRows'
  BY <1>1, <1>2, <1>4 DEF JobsHaveRows, Exists
<1>7. CreatedOnce'
  BY <1>1, <1>2, <1>4 DEF CreatedOnce
<1>8. PurgeOfDeleted'
  BY <1>1, <1>2, <1>4 DEF PurgeOfDeleted
<1>9. OneRuns'
  BY <1>1, <1>2 DEF OneRuns
<1>10. InterruptedFailed'
  BY <1>1, <1>2 DEF InterruptedFailed, TypeOK, Unused
<1>11. RetentionAlone'
  BY <1>1, <1>2, <1>4 DEF RetentionAlone, Retention
<1>12. ProvisioningBacked'
  <2> SUFFICES ASSUME NEW i \in Instance
               PROVE  (instStatus[i] = "provisioning" <=> ActiveJobs(i, {"create"}) # {})'
    BY DEF ProvisioningBacked
  <2>1. CASE i \in Range(target)
    <3>1. PICK r \in new : target[r] = i
      BY <1>1, <2>1
    <3>2. r \in ActiveJobs(i, {"create"})'
      BY <1>1, <1>2, <3>1 DEF ActiveJobs
    <3> QED BY <1>2, <2>1, <3>2 DEF TypeOK
  <2>2. CASE i \notin Range(target)
    <3>1. \A r \in new : r \notin ActiveJobs(i, {"create"}) /\ r \notin ActiveJobs(i, {"create"})'
      BY <1>1, <1>2, <2>2 DEF ActiveJobs, Unused
    <3>2. ActiveJobs(i, {"create"})' = ActiveJobs(i, {"create"})
      BY <1>1, <1>2, <3>1 DEF ActiveJobs
    <3>3. instStatus'[i] = instStatus[i]
      BY <1>2, <2>2 DEF TypeOK
    <3> QED BY <3>2, <3>3 DEF ProvisioningBacked
  <2> QED BY <2>1, <2>2
<1>13. RunningHasInstance'
  BY <1>1, <1>2, <1>4 DEF RunningHasInstance, Exists
<1> QED BY <1>3, <1>5, <1>6, <1>7, <1>8, <1>9, <1>10, <1>11, <1>12, <1>13

\* One or several jobs on existing instances, as CreateJob and CreateBatch make them.
LEMMA EnqueueInv ==
  ASSUME ControlInv, TypeOK', NEW a \in Actions, a # "create",
         NEW new \in SUBSET Unused, NEW target \in [new -> Instance], NEW rank,
         Enqueue(a, target, rank), UNCHANGED instVars,
         \A r, q \in new : target[r] = target[q] => r = q,
         \A r \in new : /\ Exists(target[r])
                        /\ a = "purge_deleted" => instStatus[target[r]] = "deleted"
                        /\ a \in Retention \cup {"purge_deleted"} => ActiveJobs(target[r], Actions) = {}
                        /\ ActiveJobs(target[r], Retention \cup {"purge_deleted"}) = {}
  PROVE  ControlInv'
<1> USE DEF ControlInv
<1>1. new \subseteq Request /\ \A r \in new : target[r] # NoInst
  BY NothingIsPurged DEF Unused
<1>2. /\ jobStatus' = [r \in Request |-> IF r \in new THEN "queued" ELSE jobStatus[r]]
      /\ jobAction' = [r \in Request |-> IF r \in new THEN a ELSE jobAction[r]]
      /\ jobInst' = [r \in Request |-> IF r \in new THEN target[r] ELSE jobInst[r]]
      /\ interrupted' = interrupted /\ instStatus' = instStatus
  BY DEF Enqueue, instVars
<1>3. Blank'
  BY <1>1, <1>2, ActionNames DEF Blank, Unused
<1>4. JobsHaveRows'
  BY <1>1, <1>2 DEF JobsHaveRows, Exists
<1>5. CreatedOnce'
  BY <1>1, <1>2 DEF CreatedOnce
<1>6. PurgeOfDeleted'
  BY <1>1, <1>2 DEF PurgeOfDeleted
<1>7. OneRuns'
  BY <1>1, <1>2 DEF OneRuns
<1>8. InterruptedFailed'
  BY <1>1, <1>2 DEF InterruptedFailed, TypeOK, Unused
<1>9. RetentionAlone'
  <2> SUFFICES ASSUME NEW r \in Request, NEW q \in Request,
                      {jobStatus[r], jobStatus[q]}' \subseteq {"queued", "running"},
                      jobAction'[r] \in Retention \cup {"purge_deleted"},
                      jobInst'[r] = jobInst'[q], jobInst'[r] # NoInst
               PROVE  r = q
    BY DEF RetentionAlone
  \* an active request has an action, so ActiveJobs finds it
  <2>1. \A x \in Request : jobStatus[x] \in {"queued", "running"} /\ jobAction[x] # "none" => jobAction[x] \in Actions
    BY DEF TypeOK
  <2>2. \A x \in Request : jobInst[x] # NoInst => jobStatus[x] # "absent"
    BY DEF Blank, Unused
  <2>3. CASE r \in new /\ q \in new
    BY <2>3, <1>2
  <2>4. CASE r \in new /\ q \notin new
    <3>1. a \in Retention \cup {"purge_deleted"} /\ jobInst[q] = target[r] /\ jobStatus[q] \in {"queued", "running"}
      BY <2>4, <1>1, <1>2
    <3>2. jobAction[q] \in Actions
      BY <3>1, <2>1 DEF Blank, Unused
    <3>3. q \in ActiveJobs(target[r], Actions)
      BY <3>1, <3>2 DEF ActiveJobs
    <3> QED BY <3>1, <3>3, <2>4
  <2>5. CASE r \notin new /\ q \in new
    <3>1. r \in ActiveJobs(target[q], Retention \cup {"purge_deleted"})
      BY <2>5, <1>1, <1>2 DEF ActiveJobs
    <3> QED BY <3>1, <2>5
  <2>6. CASE r \notin new /\ q \notin new
    BY <2>6, <1>2 DEF RetentionAlone
  <2> QED BY <2>3, <2>4, <2>5, <2>6
<1>10. ProvisioningBacked'
  BY <1>1, <1>2 DEF ProvisioningBacked, ActiveJobs, Unused
<1>11. RunningHasInstance'
  BY <1>1, <1>2 DEF RunningHasInstance, Exists
<1> QED BY <1>3, <1>4, <1>5, <1>6, <1>7, <1>8, <1>9, <1>10, <1>11

LEMMA CreateJobInv ==
  ASSUME ControlInv, NEW r \in Request, NEW i \in Instance, NEW a \in Action, CreateJob(r, i, a)
  PROVE  ControlInv'
<1> DEFINE target == [q \in {r} |-> i]
<1>1. TypeOK'
  BY CreateJobType DEF ControlInv
<1>2. a \in Actions /\ a # "create" /\ {r} \in SUBSET Unused /\ target \in [{r} -> Instance]
  BY ActionNames DEF CreateJob
<1>3. Enqueue(a, target, [q \in {r} |-> 1]) /\ UNCHANGED instVars /\ Exists(i)
  BY DEF CreateJob
<1>4. a = "purge_deleted" => instStatus[i] = "deleted"
  BY DEF CreateJob, StatusAllows
<1>5. a \in Retention \cup {"purge_deleted"} => ActiveJobs(i, Actions) = {}
  BY DEF CreateJob, QueueAllows, Exclusive
<1>6. ActiveJobs(i, Retention \cup {"purge_deleted"}) = {}
  BY DEF CreateJob, QueueAllows, Exclusive, ActiveJobs
<1> QED BY <1>1, <1>2, <1>3, <1>4, <1>5, <1>6, EnqueueInv

LEMMA CreateBatchInv ==
  ASSUME ControlInv, NEW a \in Action, NEW target \in Rows(Instance), NEW rank,
         CreateBatch(a, target, rank)
  PROVE  ControlInv'
<1> DEFINE new == DOMAIN target
<1> DEFINE Allowed(i) == DeviceBatchAllows(i, a) \/ ActionBatchAllows(i, a) \/ ProviderBatchAllows(i, a)
<1>1. TypeOK'
  BY CreateBatchType DEF ControlInv
<1>2. new \in SUBSET Unused /\ target \in [new -> Instance]
  BY RowsFacts
<1>3. /\ Enqueue(a, target, rank) /\ UNCHANGED instVars
      /\ \A r, q \in new : target[r] = target[q] => r = q
      /\ \A r \in new : Exists(target[r]) /\ Allowed(target[r])
  BY DEF CreateBatch, IsInjective
<1>4. a \in Actions /\ a # "create" /\ a \notin Retention \cup {"purge_deleted"}
  <2>1. new # {}
    BY DEF Rows
  <2> QED BY <1>3, <2>1, ActionNames DEF DeviceBatchAllows, ActionBatchAllows, ProviderBatchAllows, Pairing, Lifecycle, Retention
<1>5. ASSUME NEW r \in new PROVE ActiveJobs(target[r], Retention \cup {"purge_deleted"}) = {}
  <2>1. target[r] \in Instance /\ target[r] # NoInst
    BY <1>2, NothingIsPurged
  <2>2. CASE instStatus[target[r]] # "deleted" /\ ActiveJobs(target[r], {a} \cup Retention) = {}
    BY <2>1, <2>2 DEF ActiveJobs, ControlInv, PurgeOfDeleted
  <2>3. CASE ActiveJobs(target[r], Actions) = {}
    BY <2>3 DEF ActiveJobs, Actions, Exclusive
  <2> QED BY <2>2, <2>3, <1>3 DEF DeviceBatchAllows, ActionBatchAllows, ProviderBatchAllows
<1> QED BY <1>1, <1>2, <1>3, <1>4, <1>5, EnqueueInv

\* Claiming never touches a retention job's instance and fails the instance of
\* every create job it gives up.
LEMMA ClaimInv ==
  ASSUME ControlInv, NEW c \in Request \cup {NoRequest}, Claim(c)
  PROVE  ControlInv'
<1> USE DEF ControlInv
<1>1. TypeOK'
  BY ClaimType
<1>2. /\ jobAction' = jobAction /\ jobInst' = jobInst
      /\ jobStatus' = [r \in Request |-> IF r = c THEN "running" ELSE Recovered[r]]
      /\ interrupted' = interrupted \cup {r \in Lapsed : jobAction[r] \in Manual}
  BY DEF Claim
<1>3. \A r \in Request :
        /\ jobStatus[r] \notin {"queued", "running"} => Recovered[r] = jobStatus[r]
        /\ Recovered[r] = "running" => jobStatus[r] = "running"
        /\ Recovered[r] = "queued" => jobStatus[r] \in {"queued", "running"} /\ jobInst[r] # NoInst
        /\ r \in Lapsed /\ jobAction[r] \in Manual => Recovered[r] = "failed"
        /\ jobStatus[r] \in {"queued", "running"} /\ jobInst[r] # NoInst
             => Recovered[r] \in {"queued", "running"} \/ (r \in Lapsed /\ jobAction[r] \in Manual)
  BY DEF Recovered, Lapsed
<1>4. /\ c \in Request => Recovered[c] = "queued" /\ \A r \in Request : Recovered[r] # "running"
      /\ c \notin Request => c = NoRequest
  BY NothingIsPurged DEF Claim, NextJobs
<1>5. \A r \in Request : jobStatus'[r] \in {"queued", "running"} => jobStatus[r] \in {"queued", "running"}
  BY <1>2, <1>3, <1>4
\* only a provisioning instance changes, and its row stays
<1>6. \A i \in Instance : instStatus'[i] # instStatus[i] => instStatus[i] = "provisioning" /\ instStatus'[i] = "failed"
  BY DEF Claim
<1>7. Blank'
  BY <1>2, <1>3, <1>4 DEF Blank, Unused, TypeOK, JobState, Recovered
<1>8. JobsHaveRows'
  BY <1>2, <1>6 DEF JobsHaveRows, Exists, TypeOK
<1>9. CreatedOnce'
  BY <1>2 DEF CreatedOnce
<1>10. PurgeOfDeleted'
  BY <1>2, <1>5, <1>6 DEF PurgeOfDeleted, TypeOK
<1>11. OneRuns'
  BY <1>2, <1>3, <1>4 DEF OneRuns
<1>12. InterruptedFailed'
  BY <1>2, <1>3, <1>4 DEF InterruptedFailed, TypeOK, Lapsed
<1>13. RetentionAlone'
  BY <1>2, <1>5 DEF RetentionAlone
<1>14. ProvisioningBacked'
  <2> SUFFICES ASSUME NEW i \in Instance
               PROVE  (instStatus[i] = "provisioning" <=> ActiveJobs(i, {"create"}) # {})'
    BY DEF ProvisioningBacked
  <2>1. i # NoInst
    BY NothingIsPurged
  <2>2. instStatus'[i] = IF /\ instStatus[i] = "provisioning"
                            /\ \E r \in interrupted' : jobAction[r] = "create" /\ jobInst[r] = i
                         THEN "failed" ELSE instStatus[i]
    BY DEF Claim, TypeOK
  <2>3. ASSUME instStatus'[i] = "provisioning" PROVE ActiveJobs(i, {"create"})' # {}
    <3>1. PICK r \in Request : r \in ActiveJobs(i, {"create"})
      BY <2>2, <2>3 DEF ProvisioningBacked, ActiveJobs
    <3>2. r \notin interrupted'
      BY <2>2, <2>3, <3>1 DEF ActiveJobs
    <3>3. Recovered[r] \in {"queued", "running"}
      BY <1>2, <1>3, <2>1, <3>1, <3>2 DEF ActiveJobs
    <3>4. r \in ActiveJobs(i, {"create"})'
      BY <1>2, <3>1, <3>3 DEF ActiveJobs
    <3> QED BY <3>4
  <2>4. ASSUME NEW r \in Request, r \in ActiveJobs(i, {"create"})' PROVE instStatus'[i] = "provisioning"
    <3>1. r \in ActiveJobs(i, {"create"})
      BY <1>2, <1>5, <2>4 DEF ActiveJobs
    <3>2. instStatus[i] = "provisioning"
      BY <3>1 DEF ProvisioningBacked
    <3>3. r \notin interrupted'
      BY <1>12, <2>4 DEF InterruptedFailed, ActiveJobs
    <3>4. \A q \in interrupted' : jobAction[q] = "create" /\ jobInst[q] = i => q = r
      BY <1>1, <2>1, <3>1 DEF CreatedOnce, ActiveJobs, TypeOK
    <3> QED BY <2>2, <3>2, <3>3, <3>4
  <2> QED BY <2>3, <2>4 DEF ActiveJobs
<1>15. RunningHasInstance'
  <2> SUFFICES ASSUME NEW r \in Request, jobStatus'[r] = "running" PROVE (jobInst[r] # NoInst /\ Exists(jobInst[r]))'
    BY DEF RunningHasInstance
  <2>1. jobInst[r] # NoInst
    BY <1>2, <1>3, <1>4 DEF RunningHasInstance
  <2> QED BY <2>1, <1>2, <1>8 DEF JobsHaveRows
<1> QED BY <1>1, <1>7, <1>8, <1>9, <1>10, <1>11, <1>12, <1>13, <1>14, <1>15

\* What a report does to the instance of its job, and to no other.
LEMMA PatchEffects ==
  ASSUME ControlInv, NEW r \in Request, NEW s \in {"running", "succeeded", "failed"},
         NEW p \in Port \cup {NoPort}, NEW none \in BOOLEAN,
         jobStatus[r] = "running", Patch(r, s, p, none)
  PROVE  /\ \A j \in Instance \ {jobInst[r]} : instStatus'[j] = instStatus[j]
         /\ \/ jobInst' = jobInst /\ Exists(jobInst[r])'
            \/ /\ PurgeDone(r, s) /\ instStatus'[jobInst[r]] = "purged"
               /\ jobInst' = [q \in Request |-> IF jobInst[q] = jobInst[r] THEN NoInst ELSE jobInst[q]]
         /\ s = "running" => instStatus' = instStatus /\ jobInst' = jobInst
         /\ (instStatus[jobInst[r]] = "provisioning" /\ ~CreateDone(r, s))
              <=> instStatus'[jobInst[r]] = "provisioning"
<1> DEFINE i == jobInst[r]
<1> USE DEF ControlInv
<1>1. i \in Instance /\ Exists(i)
  BY NothingIsPurged DEF RunningHasInstance, TypeOK
<1>2. SideEffects(r, s, p) /\ Accepts(r, s, p)
  BY DEF Patch
<1>3. CASE CreateDone(r, s) /\ FinishProvisioning(i, Provisioned(s), p)
  BY <1>1, <1>2, <1>3 DEF CreateDone, FinishProvisioning, Provisioned, TypeOK, Exists, PurgeDone
<1>4. CASE RuntimeDone(r, s) /\ SetRuntimeStatus(i, IF jobAction[r] = "stop" THEN "stopped" ELSE "active")
  BY <1>1, <1>2, <1>4 DEF RuntimeDone, SetRuntimeStatus, Accepts, TypeOK, Exists, PurgeDone, Lifecycle, CreateDone
<1>5. CASE RetainDone(r, s) /\ SetRetentionState(i, jobAction[r])
  <2>1. r \notin ActiveJobs(i, {"create"})
    BY <1>5 DEF RetainDone, Retention, ActiveJobs
  <2>2. ActiveJobs(i, {"create"}) = {}
    BY <1>1, <1>5, <2>1, NothingIsPurged DEF ActiveJobs, RetentionAlone, RetainDone
  <2>3. instStatus[i] # "provisioning"
    BY <1>1, <2>2 DEF ProvisioningBacked
  <2> QED BY <1>1, <1>5, <2>3 DEF RetainDone, SetRetentionState, TypeOK, Exists, PurgeDone, Retention, CreateDone
<1>6. CASE PurgeDone(r, s) /\ PurgeInstance(i)
  BY <1>1, <1>2, <1>6 DEF PurgeDone, PurgeInstance, Accepts, TypeOK, CreateDone
<1>7. CASE SettingDone(r, s) /\ RecordSetting(r)
  BY <1>1, <1>7 DEF SettingDone, RecordSetting, CreateDone, Settings, Exists, PurgeDone
<1>8. CASE /\ ~(CreateDone(r, s) \/ PurgeDone(r, s)) 
           /\ UNCHANGED <<jobInst, instVars>>
  BY <1>1, <1>8 DEF instVars, Exists
<1> QED BY <1>2, <1>3, <1>4, <1>5, <1>6, <1>7, <1>8 DEF SideEffects

LEMMA PatchInv ==
  ASSUME ControlInv, NEW r \in Request, NEW s \in {"running", "succeeded", "failed"},
         NEW p \in Port \cup {NoPort}, NEW none \in BOOLEAN,
         jobStatus[r] = "running", Patch(r, s, p, none)
  PROVE  ControlInv'
<1> DEFINE i == jobInst[r]
<1> USE DEF ControlInv
<1>1. TypeOK' /\ i \in Instance /\ i # NoInst
  BY PatchType, NothingIsPurged DEF RunningHasInstance, TypeOK
<1>2. /\ jobAction' = jobAction /\ interrupted' = interrupted
      /\ jobStatus' = [jobStatus EXCEPT ![r] = s]
  BY DEF Patch
<1>3. /\ \A j \in Instance \ {i} : instStatus'[j] = instStatus[j]
      /\ \/ jobInst' = jobInst /\ Exists(i)'
         \/ /\ PurgeDone(r, s) /\ instStatus'[i] = "purged"
            /\ jobInst' = [q \in Request |-> IF jobInst[q] = i THEN NoInst ELSE jobInst[q]]
      /\ s = "running" => instStatus' = instStatus /\ jobInst' = jobInst
      /\ (instStatus[i] = "provisioning" /\ ~CreateDone(r, s)) <=> instStatus'[i] = "provisioning"
  BY PatchEffects
<1>4. \A q \in Request :
        /\ jobInst'[q] # NoInst => jobInst'[q] = jobInst[q]
        /\ jobStatus'[q] \in {"queued", "running"} => jobStatus[q] \in {"queued", "running"} /\ (q # r \/ s = "running")
        /\ jobStatus'[q] = "running" => q = r
  BY <1>2, <1>3 DEF OneRuns, TypeOK
<1>5. Blank'
  BY <1>2, <1>3 DEF Blank, Unused, TypeOK
<1>6. JobsHaveRows'
  BY <1>1, <1>3, <1>4 DEF JobsHaveRows, Exists, TypeOK
<1>7. CreatedOnce'
  BY <1>2, <1>4 DEF CreatedOnce
<1>8. PurgeOfDeleted'
  <2> SUFFICES ASSUME NEW q \in Request, jobStatus'[q] \in {"queued", "running"},
                      jobAction'[q] = "purge_deleted", jobInst'[q] # NoInst
               PROVE  instStatus'[jobInst'[q]] = "deleted"
    BY DEF PurgeOfDeleted
  <2>1. jobInst'[q] = jobInst[q] /\ jobInst[q] \in Instance /\ instStatus[jobInst[q]] = "deleted"
    BY <1>1, <1>2, <1>4 DEF PurgeOfDeleted, TypeOK
  <2>2. CASE jobInst[q] # i
    BY <1>3, <2>1, <2>2
  <2>3. CASE jobInst[q] = i
    <3>1. q = r
      BY <1>1, <1>2, <1>4, <2>3 DEF RetentionAlone
    <3> QED BY <1>3, <1>4, <2>1, <3>1
  <2> QED BY <2>2, <2>3
<1>9. OneRuns'
  BY <1>4 DEF OneRuns
<1>10. InterruptedFailed'
  BY <1>2 DEF InterruptedFailed, TypeOK
<1>11. RetentionAlone'
  BY <1>2, <1>4 DEF RetentionAlone
<1>12. ProvisioningBacked'
  <2> SUFFICES ASSUME NEW j \in Instance
               PROVE  (instStatus[j] = "provisioning" <=> ActiveJobs(j, {"create"}) # {})'
    BY DEF ProvisioningBacked
  <2>0. j # NoInst
    BY NothingIsPurged
  <2>1. CASE j # i
    <3>1. ActiveJobs(j, {"create"})' = ActiveJobs(j, {"create"})
      BY <1>2, <1>3, <2>0, <2>1 DEF ActiveJobs, TypeOK
    <3> QED BY <1>3, <2>1, <3>1 DEF ProvisioningBacked
  <2>2. CASE j = i /\ jobInst' = jobInst /\ ~CreateDone(r, s)
    <3>1. ActiveJobs(j, {"create"})' = ActiveJobs(j, {"create"})
      BY <1>2, <2>2 DEF ActiveJobs, TypeOK, CreateDone
    <3> QED BY <1>3, <2>2, <3>1 DEF ProvisioningBacked
  <2>3. CASE j = i /\ jobInst' = jobInst /\ CreateDone(r, s)
    <3>1. ActiveJobs(j, {"create"})' = {}
      BY <1>1, <1>2, <1>4, <2>3 DEF ActiveJobs, CreateDone, CreatedOnce
    <3> QED BY <1>3, <2>3, <3>1
  <2>4. CASE j = i /\ instStatus'[i] = "purged" /\ \A q \in Request : jobInst'[q] # i
    BY <2>4 DEF ActiveJobs
  <2> QED BY <1>1, <1>3, <2>1, <2>2, <2>3, <2>4 DEF TypeOK
<1>13. RunningHasInstance'
  BY <1>1, <1>2, <1>3, <1>4, <1>6 DEF RunningHasInstance, JobsHaveRows, PurgeDone, TypeOK
<1> QED BY <1>1, <1>5, <1>6, <1>7, <1>8, <1>9, <1>10, <1>11, <1>12, <1>13

LEMMA CancelInv ==
  ASSUME ControlInv, NEW r \in Request, Cancel(r)
  PROVE  ControlInv'
<1> USE DEF ControlInv
<1>1. TypeOK'
  BY OtherType
<1>2. /\ jobAction' = jobAction /\ jobInst' = jobInst /\ interrupted' = interrupted
      /\ instStatus' = instStatus
      /\ jobStatus' = [jobStatus EXCEPT ![r] = "cancelled"] /\ jobStatus[r] \in {"queued", "running"}
      /\ jobAction[r] = "wechat_bind"
  BY DEF Cancel, instVars
<1>3. Blank' /\ JobsHaveRows' /\ CreatedOnce' /\ PurgeOfDeleted' /\ OneRuns'
  BY <1>2 DEF Blank, Unused, JobsHaveRows, Exists, CreatedOnce, PurgeOfDeleted, OneRuns, TypeOK
<1>4. InterruptedFailed' /\ RetentionAlone' /\ RunningHasInstance'
  BY <1>2 DEF InterruptedFailed, RetentionAlone, RunningHasInstance, Exists, TypeOK
<1>5. \A i \in Instance : ActiveJobs(i, {"create"})' = ActiveJobs(i, {"create"})
  BY <1>2 DEF ActiveJobs, TypeOK
<1>6. ProvisioningBacked'
  BY <1>2, <1>5 DEF ProvisioningBacked
<1> QED BY <1>1, <1>3, <1>4, <1>6

\* The scripts write only while a deletion or restoration runs, which is alone.
LEMMA ScriptInv ==
  ASSUME ControlInv, NEW r \in Request, NEW whole \in BOOLEAN, ScriptSetsStatus(r, whole)
  PROVE  ControlInv'
<1> DEFINE i == jobInst[r]
<1> USE DEF ControlInv
<1>1. TypeOK'
  BY OtherType
<1>2. /\ jobStatus' = jobStatus /\ jobAction' = jobAction /\ jobInst' = jobInst
      /\ interrupted' = interrupted
      /\ i \in Instance /\ i # NoInst /\ jobStatus[r] = "running" /\ jobAction[r] \in Retention
      /\ instStatus' = [instStatus EXCEPT ![i] = IF jobAction[r] = "delete" THEN "deleted" ELSE "active"]
  BY DEF ScriptSetsStatus, UpsertInstance, jobVars, TypeOK
<1>3. \A q \in Request : jobStatus[q] \in {"queued", "running"} /\ jobInst[q] = i => q = r
  BY <1>2 DEF RetentionAlone
<1>4. Blank' /\ CreatedOnce' /\ OneRuns' /\ InterruptedFailed' /\ RetentionAlone'
  BY <1>2 DEF Blank, Unused, CreatedOnce, OneRuns, InterruptedFailed, RetentionAlone
<1>5. JobsHaveRows' /\ RunningHasInstance'
  BY <1>2 DEF JobsHaveRows, RunningHasInstance, Exists, TypeOK
<1>6. PurgeOfDeleted'
  BY <1>2, <1>3 DEF PurgeOfDeleted, Retention, TypeOK
<1>7. ProvisioningBacked'
  <2>1. ActiveJobs(i, {"create"}) = {}
    BY <1>2, <1>3 DEF ActiveJobs, Retention
  <2>2. instStatus[i] # "provisioning" /\ instStatus'[i] # "provisioning"
    BY <1>2, <2>1 DEF ProvisioningBacked, TypeOK
  <2>3. \A j \in Instance : ActiveJobs(j, {"create"})' = ActiveJobs(j, {"create"})
    BY <1>2 DEF ActiveJobs
  <2> QED BY <1>2, <2>2, <2>3 DEF ProvisioningBacked, TypeOK
<1> QED BY <1>1, <1>4, <1>5, <1>6, <1>7

\* The invariant does not speak of heartbeats, so one that lapses keeps it.
LEMMA HeartbeatInv ==
  ASSUME ControlInv, NEW r \in Request, HeartbeatLapses(r)
  PROVE  ControlInv'
<1>1. TypeOK'
  BY OtherType DEF ControlInv
<1>2. /\ jobStatus' = jobStatus /\ jobAction' = jobAction /\ jobInst' = jobInst
      /\ interrupted' = interrupted /\ instStatus' = instStatus
  BY DEF HeartbeatLapses, instVars
<1> QED BY <1>1, <1>2 DEF ControlInv, Blank, Unused, JobsHaveRows, Exists, CreatedOnce,
      PurgeOfDeleted, OneRuns, InterruptedFailed, RetentionAlone, ProvisioningBacked,
      ActiveJobs, RunningHasInstance

LEMMA InitInv == Init => ControlInv
<1> SUFFICES ASSUME Init PROVE ControlInv
  OBVIOUS
<1>1. TypeOK
  <2>1. instStatus \in [Instance -> InstState]
    BY DEF Init, InstState
  <2> QED BY <2>1 DEF Init, TypeOK, JobState
<1>2. /\ jobStatus = [r \in Request |-> "absent"] /\ jobInst = [r \in Request |-> NoInst]
      /\ jobAction = [r \in Request |-> "none"] /\ interrupted = {}
      /\ \A i \in Instance : instStatus[i] # "provisioning"
  BY DEF Init
<1> QED BY <1>1, <1>2 DEF ControlInv, Blank, Unused, JobsHaveRows, CreatedOnce, PurgeOfDeleted,
      OneRuns, InterruptedFailed, RetentionAlone, ProvisioningBacked, ActiveJobs, RunningHasInstance

LEMMA NextInv == ControlInv /\ [Next]_cvars => ControlInv'
<1> SUFFICES ASSUME ControlInv, [Next]_cvars PROVE ControlInv'
  OBVIOUS
<1>1. CASE UNCHANGED cvars
  BY <1>1 DEF cvars, ControlInv, TypeOK, Blank, Unused, JobsHaveRows, Exists, CreatedOnce,
     PurgeOfDeleted, OneRuns, InterruptedFailed, RetentionAlone, ProvisioningBacked,
     ActiveJobs, RunningHasInstance
<1>2. CASE \E target \in Rows(Instance) : \E rank \in Ranks(target) :
             \/ CreateInstance(target, rank) \/ CreateInstances(target, rank)
             \/ \E a \in Action : CreateBatch(a, target, rank)
  BY <1>2, CreateInstancesInv, CreateBatchInv DEF CreateInstance
<1>3. CASE \E r \in Request, i \in Instance, a \in Action : CreateJob(r, i, a)
  BY <1>3, CreateJobInv
<1>4. CASE \E c \in Request \cup {NoRequest} : Claim(c)
  BY <1>4, ClaimInv
<1>5. CASE \E r \in Request, s \in {"running", "succeeded", "failed"}, none \in BOOLEAN :
             \E p \in Port \cup {NoPort} : jobStatus[r] = "running" /\ Patch(r, s, p, none)
  BY <1>5, PatchInv
<1>6. CASE \E r \in Request : Cancel(r) \/ HeartbeatLapses(r)
  BY <1>6, CancelInv, HeartbeatInv
<1>7. CASE \E r \in Request, whole \in BOOLEAN : ScriptSetsStatus(r, whole)
  BY <1>7, ScriptInv
<1> QED BY <1>1, <1>2, <1>3, <1>4, <1>5, <1>6, <1>7 DEF Next

\* The invariant of the control service holds whatever the executor reports, the
\* scripts write and the heartbeats do.
THEOREM ControlSafe == Spec => []ControlInv
BY InitInv, NextInv, PTL DEF Spec

\* A deletion, restoration or permanent deletion shares its instance with no
\* other active job.
THEOREM RetentionIsAlone == Spec => []RetentionAlone
<1>1. ControlInv => RetentionAlone
  BY DEF ControlInv
<1> QED BY <1>1, ControlSafe, PTL

\* An instance is provisioning exactly while its create job is active.
THEOREM ProvisioningIsBacked == Spec => []ProvisioningBacked
<1>1. ControlInv => ProvisioningBacked
  BY DEF ControlInv
<1> QED BY <1>1, ControlSafe, PTL

\* A running job has its instance.
THEOREM RunningKeepsInstance == Spec => []RunningHasInstance
<1>1. ControlInv => RunningHasInstance
  BY DEF ControlInv
<1> QED BY <1>1, ControlSafe, PTL

------------------------------------------------------------------------------
(* The ports rows                                                           *)

\* BookingsBacked, inductive: an instance gets its port with its success.
NoPortYet == \A i \in Instance : instStatus[i] \in {"unborn", "provisioning", "failed"} => instPort[i] = NoPort
PortsInv  == ControlInv /\ NoPortYet /\ BookingsBacked

LEMMA PatchPorts ==
  ASSUME PortsInv, NEW r \in Request, NEW s \in {"running", "succeeded", "failed"},
         NEW p \in Port \cup {NoPort}, NEW none \in BOOLEAN,
         jobStatus[r] = "running", Patch(r, s, p, none)
  PROVE  NoPortYet' /\ BookingsBacked'
<1> DEFINE i == jobInst[r]
<1> USE DEF PortsInv
<1>1. i \in Instance /\ i # NoInst /\ Exists(i)
  BY NothingIsPurged DEF ControlInv, RunningHasInstance, TypeOK
<1>2. TypeOK /\ SideEffects(r, s, p) /\ Accepts(r, s, p)
  BY DEF Patch, ControlInv
<1>3. CASE CreateDone(r, s) /\ FinishProvisioning(i, Provisioned(s), p)
  <2>1. CASE UNCHANGED <<instStatus, instPort, portOwner>>
    BY <2>1 DEF NoPortYet, BookingsBacked, Exists
  <2>2. CASE Provisioned(s) # "active" /\ instStatus' = [instStatus EXCEPT ![i] = Provisioned(s)] /\ UNCHANGED <<instPort, portOwner>>
    <3>1. instPort[i] = NoPort
      BY <1>1, <1>2, <1>3, <2>2 DEF Accepts, Provisioned, CreateDone, NoPortYet
    <3> QED BY <1>1, <1>2, <2>2, <3>1 DEF NoPortYet, BookingsBacked, Exists, TypeOK, Provisioned
  <2>3. CASE /\ Provisioned(s) = "active"
             /\ instStatus[i] # "active"
             /\ instStatus' = [instStatus EXCEPT ![i] = "active"]
             /\ instPort' = [instPort EXCEPT ![i] = p]
             /\ portOwner' = [portOwner EXCEPT ![p] = i]
    <3>1. p \in Port /\ instStatus[i] = "provisioning"
      BY <1>2, <1>3, <2>3 DEF Accepts, Provisioned, CreateDone
    \* nothing is booked for an instance that is being made
    <3>2. \A q \in Port : portOwner[q] # i
      BY <1>1, <3>1, NothingIsPurged DEF BookingsBacked, NoPortYet
    <3>3. NoPortYet'
      BY <1>1, <1>2, <2>3 DEF NoPortYet, TypeOK
    <3>4. BookingsBacked'
      BY <1>1, <1>2, <2>3, <3>1, <3>2 DEF BookingsBacked, Exists, TypeOK
    <3> QED BY <3>3, <3>4
  <2> QED BY <1>3, <2>1, <2>2, <2>3 DEF FinishProvisioning
<1>4. CASE RuntimeDone(r, s) /\ SetRuntimeStatus(i, IF jobAction[r] = "stop" THEN "stopped" ELSE "active")
  BY <1>1, <1>2, <1>4 DEF SetRuntimeStatus, NoPortYet, BookingsBacked, Exists, TypeOK
<1>5. CASE RetainDone(r, s) /\ SetRetentionState(i, jobAction[r])
  BY <1>1, <1>2, <1>5 DEF SetRetentionState, RecordPort, NoPortYet, BookingsBacked, Exists, TypeOK
<1>6. CASE PurgeDone(r, s) /\ PurgeInstance(i)
  BY <1>1, <1>2, <1>6 DEF PurgeInstance, NoPortYet, BookingsBacked, Exists, TypeOK
<1>7. CASE UNCHANGED <<instStatus, instPort, portOwner>>
  BY <1>7 DEF NoPortYet, BookingsBacked, Exists
<1> QED BY <1>2, <1>3, <1>4, <1>5, <1>6, <1>7 DEF SideEffects, RecordSetting, instVars

LEMMA ScriptPorts ==
  ASSUME PortsInv, NEW r \in Request, NEW whole \in BOOLEAN, ScriptSetsStatus(r, whole)
  PROVE  NoPortYet' /\ BookingsBacked'
<1> DEFINE i == jobInst[r]
<1>1. TypeOK /\ i \in Instance /\ i # NoInst /\ Exists(i)
  BY NothingIsPurged DEF PortsInv, ControlInv, RunningHasInstance, TypeOK, ScriptSetsStatus, UpsertInstance
<1>2. /\ \E status \in {"deleted", "active"} : instStatus' = [instStatus EXCEPT ![i] = status]
      /\ \E owner \in {i, NoInst} : portOwner' = [p \in Port |-> IF p = instPort[i] THEN owner ELSE portOwner[p]]
      /\ instPort' = instPort
  BY DEF ScriptSetsStatus, UpsertInstance, RecordPort
<1> QED BY <1>1, <1>2 DEF PortsInv, NoPortYet, BookingsBacked, Exists, TypeOK

LEMMA OtherPorts ==
  ASSUME PortsInv, Next,
         ~\E r \in Request, s \in {"running", "succeeded", "failed"}, none \in BOOLEAN :
            \E p \in Port \cup {NoPort} : jobStatus[r] = "running" /\ Patch(r, s, p, none)
  PROVE  NoPortYet' /\ BookingsBacked'
<1> USE DEF PortsInv
<1>1. ASSUME NEW target \in Rows(Instance), NEW rank, CreateInstances(target, rank)
      PROVE  NoPortYet' /\ BookingsBacked'
  <2>1. /\ instStatus' = [i \in Instance |-> IF i \in Range(target) THEN "provisioning" ELSE instStatus[i]]
        /\ \A i \in Range(target) : instStatus[i] = "unborn"
        /\ instPort' = instPort /\ portOwner' = portOwner
    BY <1>1 DEF CreateInstances, InsertInstances, Range
  <2>2. TypeOK
    BY DEF ControlInv
  <2> QED BY <2>1, <2>2 DEF NoPortYet, BookingsBacked, Exists, TypeOK
<1>2. ASSUME NEW c, Claim(c) PROVE NoPortYet' /\ BookingsBacked'
  <2>1. /\ instPort' = instPort /\ portOwner' = portOwner
        /\ \A i \in Instance : instStatus'[i] \in {instStatus[i], "failed"} /\ (instStatus'[i] # instStatus[i] => instStatus[i] = "provisioning")
    BY <1>2 DEF Claim
  <2>2. TypeOK
    BY DEF ControlInv
  <2> QED BY <2>1, <2>2 DEF NoPortYet, BookingsBacked, Exists, TypeOK
<1>3. ASSUME UNCHANGED <<instStatus, instPort, portOwner>>
      PROVE  NoPortYet' /\ BookingsBacked'
  BY <1>3 DEF NoPortYet, BookingsBacked, Exists
<1> QED BY <1>1, <1>2, <1>3, ScriptPorts DEF Next, CreateInstance, CreateBatch, CreateJob, Cancel, HeartbeatLapses, instVars

LEMMA PortsSafe == Spec => []PortsInv
<1>1. Init => PortsInv
  <2> SUFFICES ASSUME Init PROVE PortsInv
    OBVIOUS
  <2>1. NoPortYet
    BY DEF Init, NoPortYet
  <2>2. BookingsBacked
    BY NothingIsPurged DEF Init, BookingsBacked, Exists
  <2> QED BY <2>1, <2>2, InitInv DEF PortsInv
<1>2. ControlInv' /\ PortsInv /\ [Next]_cvars => PortsInv'
  <2> SUFFICES ASSUME ControlInv', PortsInv, [Next]_cvars PROVE NoPortYet' /\ BookingsBacked'
    BY DEF PortsInv
  <2>1. CASE UNCHANGED cvars
    BY <2>1 DEF cvars, PortsInv, NoPortYet, BookingsBacked, Exists
  <2>2. CASE Next
    BY <2>2, PatchPorts, OtherPorts
  <2> QED BY <2>1, <2>2
<1> QED BY <1>1, <1>2, ControlSafe, PTL DEF Spec

\* A booked port is the port of an instance that has a row, whatever is purged,
\* restored or written by the scripts, and whichever port a creation reports.
THEOREM BookingsStayBacked == Spec => []BookingsBacked
<1>1. PortsInv => BookingsBacked
  BY DEF PortsInv
<1> QED BY <1>1, PortsSafe, PTL

------------------------------------------------------------------------------
(* ManagerControl implements JobQueue                                       *)

\* New rows, ranked, are accepted together.
LEMMA EnqueueAccepts ==
  ASSUME ControlInv, NEW a \in Actions, NEW new \in SUBSET Unused, NEW target \in [new -> Instance],
         NEW rank \in [new -> Nat], \A r, q \in new : rank[r] = rank[q] => r = q,
         Enqueue(a, target, rank)
  PROVE  JQ!Accept(new)
<1> USE DEF Enqueue, ControlInv, TypeOK, Unused, Created, JQ!Known
<1>1. new \subseteq Request \ JQ!Known
  OBVIOUS
<1>2. jobStatus' = [r \in Request |-> IF r \in new THEN "queued" ELSE jobStatus[r]]
  OBVIOUS
<1>3. \A r \in new : jobAction[r] = "none"
  BY DEF Blank
<1>4. {r \in Request : jobAction'[r] \in Manual}
        \in {{r \in Request : jobAction[r] \in Manual}, {r \in Request : jobAction[r] \in Manual} \cup new}
  <2>1. CASE a \in Manual
    BY <1>1, <2>1
  <2>2. CASE a \notin Manual
    BY <1>1, <1>3, <2>2, ActionNames
  <2> QED BY <2>1, <2>2
<1>5. \A r \in Request \ new : older'[r] = older[r]
  OBVIOUS
<1>6. /\ JQ!Known = Created
      /\ \A r \in new : older'[r] = Created \cup {q \in new : rank[q] < rank[r]}
  BY <1>1
<1>7. \A r \in new : JQ!Known \subseteq older'[r] /\ older'[r] \subseteq (JQ!Known \cup new) \ {r}
  BY <1>1, <1>6
<1>8. \A r, q \in new : r # q => (q \in older'[r] <=> r \notin older'[q])
  <2> SUFFICES ASSUME NEW r \in new, NEW q \in new, r # q PROVE q \in older'[r] <=> r \notin older'[q]
    OBVIOUS
  <2>1. rank[r] \in Nat /\ rank[q] \in Nat /\ rank[r] # rank[q]
    OBVIOUS
  <2>2. q \in older'[r] <=> rank[q] < rank[r]
    BY <1>1, <1>6
  <2>3. r \in older'[q] <=> rank[r] < rank[q]
    BY <1>1, <1>6
  <2>4. \A x, y \in Nat : x # y => (x < y <=> ~(y < x))
    OBVIOUS
  <2> HIDE DEF Enqueue, ControlInv, TypeOK, Unused, Created, JQ!Known
  <2> QED BY <2>1, <2>2, <2>3, <2>4
<1> QED BY <1>1, <1>2, <1>4, <1>5, <1>7, <1>8 DEF JQ!Accept

\* A claim gives up the lapsed jobs, drops those without an instance and hands
\* out the oldest that waits.
LEMMA ClaimDispatches ==
  ASSUME ControlInv, NEW c \in Request \cup {NoRequest}, Claim(c)
  PROVE  JQ!Next
<1> DEFINE dropped == {r \in Request : (jobStatus[r] = "queued" \/ (r \in Lapsed /\ jobAction[r] \notin Manual))
                                        /\ jobInst[r] = NoInst}
<1> USE DEF ControlInv, TypeOK
<1>1. Lapsed \in SUBSET JQ!Running /\ dropped \in SUBSET (JQ!Waiting \cup Lapsed)
  BY DEF Lapsed, JQ!Running, JQ!Waiting
<1>2. JQ!Settled(Lapsed, dropped) = Recovered
  BY DEF Recovered, JQ!Settled, Lapsed
<1>3. /\ jobStatus' = [r \in Request |-> IF r = c THEN "running" ELSE Recovered[r]]
      /\ c \in NextJobs /\ UNCHANGED <<jobAction, older>>
      /\ retried' = {r \in retried \cup Lapsed : Recovered[r] \notin Terminal}
  BY DEF Claim
<1>4. retried' = {r \in retried \cup Lapsed : Recovered[r] \notin JQ!Ended}
  BY <1>3 DEF JQ!Ended, Terminal
<1>5. CASE c = NoRequest
  <2>1. jobStatus' = Recovered
    BY <1>3, <1>5, NothingIsPurged DEF Recovered
  <2>2. JQ!Dispatch(Lapsed, dropped)
    BY <1>2, <1>3, <1>4, <2>1 DEF JQ!Dispatch
  <2> QED BY <1>1, <2>2 DEF JQ!Next
<1>6. CASE c \in Request
  <2>1. c \in JQ!Startable(Recovered)
    BY <1>3, <1>6, NothingIsPurged DEF NextJobs, JQ!Startable
  <2>2. jobStatus' = [Recovered EXCEPT ![c] = "running"]
    BY <1>3, <1>6 DEF Recovered
  <2>3. JQ!Dispatch(Lapsed, dropped)
    BY <1>2, <1>3, <1>4, <2>1, <2>2 DEF JQ!Dispatch
  <2> QED BY <1>1, <2>3 DEF JQ!Next
<1> QED BY <1>5, <1>6

\* The job queue inside Control keeps what JobQueue promises: order of arrival,
\* one job at a time, final results, and no second start of a create, delete or
\* restore.
THEOREM ControlImplementsQueue == Spec => QueueSpec
<1>1. Init => JQ!Init
  BY ActionNames DEF Init, JQ!Init
<1>2. ControlInv /\ [Next]_cvars => [JQ!Next]_(JQ!vars)
  <2> SUFFICES ASSUME ControlInv, [Next]_cvars PROVE JQ!Next \/ UNCHANGED JQ!vars
    OBVIOUS
  <2> USE DEF ControlInv, TypeOK
  <2>1. ASSUME NEW a \in Actions, NEW target \in Rows(Instance), NEW rank \in Ranks(target),
               Enqueue(a, target, rank)
        PROVE  JQ!Next
    <3>1. DOMAIN target \in SUBSET Unused /\ target \in [DOMAIN target -> Instance]
      BY RowsFacts
    <3>2. rank \in [DOMAIN target -> Nat] /\ \A r, q \in DOMAIN target : rank[r] = rank[q] => r = q
      BY ControlAssumption DEF Ranks, IsInjective, ControlAssumption
    <3>3. JQ!Accept(DOMAIN target)
      BY <2>1, <3>1, <3>2, EnqueueAccepts
    <3> QED BY <3>1, <3>3 DEF JQ!Next, Unused
  <2>2. ASSUME NEW target \in Rows(Instance), NEW rank \in Ranks(target),
               CreateInstance(target, rank) \/ CreateInstances(target, rank) \/ \E a \in Action : CreateBatch(a, target, rank)
        PROVE  JQ!Next
    BY <2>1, <2>2, ActionNames DEF CreateInstance, CreateInstances, CreateBatch
  <2>3. ASSUME NEW r \in Request, NEW i \in Instance, NEW a \in Action, CreateJob(r, i, a)
        PROVE  JQ!Next
    <3>1. JQ!Accept({r})
      <4>1. {r} \in SUBSET Unused /\ [q \in {r} |-> i] \in [{r} -> Instance] /\ [q \in {r} |-> 1] \in [{r} -> Nat]
        BY <2>3 DEF CreateJob
      <4>2. a \in Actions /\ Enqueue(a, [q \in {r} |-> i], [q \in {r} |-> 1])
        BY <2>3, ActionNames DEF CreateJob
      <4> QED BY <4>1, <4>2, EnqueueAccepts
    <3> QED BY <3>1 DEF JQ!Next
  <2>4. ASSUME NEW r \in Request, NEW s \in {"running", "succeeded", "failed"}, NEW p, NEW none,
               jobStatus[r] = "running", Patch(r, s, p, none)
        PROVE  JQ!Next \/ UNCHANGED JQ!vars
    <3>1. jobStatus' = [jobStatus EXCEPT ![r] = s] /\ UNCHANGED <<jobAction, older>>
         /\ retried' = IF s = "running" THEN retried ELSE retried \ {r}
      BY <2>4 DEF Patch
    <3>2. CASE s = "running"
      BY <2>4, <3>1, <3>2 DEF JQ!vars
    <3>3. CASE s # "running"
      BY <2>4, <3>1, <3>3 DEF JQ!Next, JQ!End, JQ!Ended
    <3> QED BY <3>2, <3>3
  <2>5. ASSUME NEW r \in Request, Cancel(r) PROVE JQ!Next
    BY <2>5 DEF Cancel, JQ!Next, JQ!End, JQ!Ended
  <2>6. CASE UNCHANGED <<jobStatus, jobAction, older, retried>>
    BY <2>6 DEF JQ!vars
  <2> QED BY <2>2, <2>3, <2>4, <2>5, <2>6, ClaimDispatches
          DEF Next, cvars, HeartbeatLapses, ScriptSetsStatus, UpsertInstance, jobVars
<1> QED BY <1>1, <1>2, ControlSafe, PTL DEF Spec, QueueSpec, JQ!Spec

\* What JobQueue_proofs shows of every such queue, for this one.
Promised == INSTANCE JobQueue_proofs WITH
              Request <- Request, status <- jobStatus, ahead <- older, retried <- retried,
              fragile <- {r \in Request : jobAction[r] \in Manual}

\* A create, delete or restore that a claim gave up is not put back in the queue.
THEOREM ManualNotRetried == Spec => [](\A r \in retried : jobAction[r] \notin Manual)
<1>1. Promised!Spec <=> QueueSpec
  <2>1. Promised!Init <=> JQ!Init
    BY DEF Promised!Init, JQ!Init
  <2>2. [Promised!Next]_(Promised!vars) <=> [JQ!Next]_(JQ!vars)
    BY DEF Promised!Next, JQ!Next, Promised!vars, JQ!vars, Promised!Accept, JQ!Accept, Promised!End, JQ!End,
       Promised!Dispatch, JQ!Dispatch, Promised!Ended, JQ!Ended, Promised!Settled, JQ!Settled, Promised!Startable,
       JQ!Startable, Promised!Known, JQ!Known, Promised!Running, JQ!Running, Promised!Waiting, JQ!Waiting
  <2> QED BY <2>1, <2>2, PTL DEF Promised!Spec, JQ!Spec, QueueSpec
<1>2. Promised!Spec => []Promised!FragileRunOnce
  BY Promised!QueueFragileOnce
<1>3. TypeOK /\ Promised!FragileRunOnce => \A r \in retried : jobAction[r] \notin Manual
  BY DEF Promised!FragileRunOnce, TypeOK
<1> QED BY <1>1, <1>2, <1>3, TypeCorrect, ControlImplementsQueue, PTL

------------------------------------------------------------------------------
(* What the service records of its jobs: that jobs are carried out in the  *)
(* order they came, that the settings an instance row shows and the audit  *)
(* rows follow them, and that pairing jobs of an instance exclude each     *)
(* other.                                                                  *)


Active(r) == jobStatus[r] \in {"queued", "running"}

\* Of two jobs one came first, and a job that runs or succeeded came before
\* every other that is still to be carried out.
Ordered ==
  \A r \in Created :
    /\ older[r] \subseteq Created
    /\ \A q \in Created \ {r} : q \in older[r] <=> r \notin older[q]
InTurn  ==
  \A r, q \in Request :
    /\ \/ jobStatus[q] \in {"running", "succeeded"} /\ jobStatus[r] = "queued"
       \/ jobStatus[q] = "succeeded" /\ jobStatus[r] = "running"
    => q \in older[r]

\* A value stands in an instance row from a job that succeeded and stored one.
RecordedDone ==
  \A r \in recorded : /\ jobStatus[r] = "succeeded" /\ jobAction[r] \in Settings
                      /\ jobInst[r] # NoInst

\* What a job asks of its instance, the product can do; beside a clean-up only
\* starts, stops and restarts are accepted, so only they lose their instance.
Supported    == \A r \in Request : jobInst[r] # NoInst => Supports(Product[jobInst[r]], jobAction[r])
BesideClean  ==
  \A r, q \in Request :
    /\ Active(r) /\ Active(q) /\ jobAction[r] = "cleanup_failed"
    /\ jobInst[r] = jobInst[q] /\ jobInst[r] # NoInst /\ r # q
    => jobAction[q] \in Lifecycle
OrphansPlain == \A r \in Request : Active(r) /\ jobInst[r] = NoInst => jobAction[r] \in Lifecycle

OrderInv   == ControlInv /\ Ordered /\ InTurn
RecordsInv == /\ OrderInv /\ RecordedDone /\ SettingsFollowOrder
              /\ Supported /\ BesideClean /\ OrphansPlain /\ PairingAlone /\ AuditAgrees

------------------------------------------------------------------------------
(* What the steps do to the jobs *)

\* New jobs wait, behind all there are; the others are left alone.
LEMMA EnqueueEffect ==
  ASSUME TypeOK, NEW a, NEW new \in SUBSET Unused, NEW target \in [new -> Instance],
         NEW rank, Enqueue(a, target, rank)
  PROVE  /\ \A r \in new : /\ jobStatus'[r] = "queued" /\ jobAction'[r] = a
                           /\ jobInst'[r] = target[r] /\ jobStatus[r] = "absent"
                           /\ older'[r] = Created \cup {q \in new : rank[q] < rank[r]}
         /\ \A r \in Request \ new : /\ jobStatus'[r] = jobStatus[r] /\ jobAction'[r] = jobAction[r]
                                     /\ jobInst'[r] = jobInst[r] /\ older'[r] = older[r]
         /\ audit' = audit /\ Created' = Created \cup new
BY DEF Enqueue, Unused, Created

\* A claim requeues nothing but a job that lost its heartbeat, and hands out a
\* job that waits and before which none waits.
LEMMA ClaimEffect ==
  ASSUME ControlInv, NEW c \in Request \cup {NoRequest}, Claim(c)
  PROVE  /\ UNCHANGED <<jobAction, jobInst, older, recorded>>
         /\ jobStatus' = [r \in Request |-> IF r = c THEN "running" ELSE Recovered[r]]
         /\ \A r \in Request :
              /\ ~Active(r) => Recovered[r] = jobStatus[r] /\ r # c
              /\ jobStatus[r] = "queued" => Recovered[r] = IF jobInst[r] = NoInst THEN "failed" ELSE "queued"
              /\ jobStatus[r] = "running" => \/ Recovered[r] = "running"
                                             \/ Recovered[r] = "queued"
                                             \/ Recovered[r] = "failed" /\ r \in interrupted'
         /\ c \in Request => /\ Recovered[c] = "queued"
                             /\ \A r \in Request : Recovered[r] # "running"
                             /\ \A r \in Request : Recovered[r] = "queued" => r \notin older[c]
         /\ c = NoRequest => (\E r \in Request : Recovered[r] = "running") \/ (\A r \in Request : Recovered[r] # "queued")
<1> USE DEF ControlInv
<1>1. /\ UNCHANGED <<jobAction, jobInst, older, recorded>>
      /\ jobStatus' = [r \in Request |-> IF r = c THEN "running" ELSE Recovered[r]]
      /\ c \in NextJobs /\ interrupted' = interrupted \cup {r \in Lapsed : jobAction[r] \in Manual}
  BY DEF Claim
<1>2. \A r \in Request :
        /\ ~Active(r) => Recovered[r] = jobStatus[r]
        /\ jobStatus[r] = "queued" => Recovered[r] = IF jobInst[r] = NoInst THEN "failed" ELSE "queued"
        /\ jobStatus[r] = "running" => \/ Recovered[r] = "running"
                                       \/ Recovered[r] = "queued"
                                       \/ Recovered[r] = "failed" /\ r \in interrupted'
  BY <1>1 DEF Recovered, Lapsed, Active, RunningHasInstance
<1>3. c \in Request => /\ Recovered[c] = "queued"
                       /\ \A r \in Request : Recovered[r] # "running"
                       /\ \A r \in Request : Recovered[r] = "queued" => r \notin older[c]
  BY <1>1, NothingIsPurged DEF NextJobs
<1>4. c = NoRequest => (\E r \in Request : Recovered[r] = "running") \/ (\A r \in Request : Recovered[r] # "queued")
  BY <1>1, NothingIsPurged DEF NextJobs
<1>5. \A r \in Request : ~Active(r) => r # c
  BY <1>2, <1>3 DEF Active
<1> QED BY <1>1, <1>2, <1>3, <1>4, <1>5

\* A report changes the status of its job; only a purge takes instances from jobs.
LEMMA PatchEffect ==
  ASSUME ControlInv, NEW r \in Request, NEW s \in {"running", "succeeded", "failed"},
         NEW p \in Port \cup {NoPort}, NEW none \in BOOLEAN,
         jobStatus[r] = "running", Patch(r, s, p, none)
  PROVE  /\ jobStatus' = [jobStatus EXCEPT ![r] = s] /\ UNCHANGED <<jobAction, older>>
         /\ \/ jobInst' = jobInst /\ recorded' = recorded /\ ~SettingDone(r, s)
            \/ /\ SettingDone(r, s) /\ jobInst' = jobInst
               /\ recorded' = {r} \cup {q \in recorded : jobInst[q] # jobInst[r] \/ jobAction[q] # jobAction[r]}
            \/ /\ PurgeDone(r, s)
               /\ jobInst' = [q \in Request |-> IF jobInst[q] = jobInst[r] THEN NoInst ELSE jobInst[q]]
               /\ recorded' = recorded \ {q \in Request : jobInst[q] = jobInst[r]}
<1>1. SideEffects(r, s, p) /\ jobStatus' = [jobStatus EXCEPT ![r] = s] /\ UNCHANGED <<jobAction, older>>
  BY DEF Patch
<1>2. SettingDone(r, s) => ~CreateDone(r, s) /\ ~RuntimeDone(r, s) /\ ~RetainDone(r, s) /\ ~PurgeDone(r, s)
  BY DEF SettingDone, CreateDone, RuntimeDone, RetainDone, PurgeDone, Settings, Lifecycle, Retention
<1> QED BY <1>1, <1>2 DEF SideEffects, FinishProvisioning, SetRuntimeStatus, SetRetentionState,
           PurgeInstance, RecordSetting, instVars

------------------------------------------------------------------------------
(* The order of the jobs *)

LEMMA EnqueueOrder ==
  ASSUME OrderInv, NEW a, NEW new \in SUBSET Unused, NEW target \in [new -> Instance],
         NEW rank \in [new -> Nat], \A r, q \in new : rank[r] = rank[q] => r = q,
         Enqueue(a, target, rank)
  PROVE  Ordered' /\ InTurn'
<1> USE DEF OrderInv, ControlInv
<1>1. /\ \A r \in new : /\ jobStatus'[r] = "queued" /\ jobStatus[r] = "absent"
                        /\ older'[r] = Created \cup {q \in new : rank[q] < rank[r]}
      /\ \A r \in Request \ new : jobStatus'[r] = jobStatus[r] /\ older'[r] = older[r]
      /\ Created' = Created \cup new
  BY EnqueueEffect
<1>2. /\ new \subseteq Request /\ Created \cap new = {} /\ Created \subseteq Request
      /\ \A r \in Created : older[r] \subseteq Created
  BY DEF Unused, Created, Ordered
<1>3. Ordered'
  <2>0. \A r \in Created \cup new : older'[r] \subseteq Created \cup new
    BY <1>1, <1>2
  <2> SUFFICES ASSUME NEW r \in Created \cup new, NEW q \in Created \cup new, r # q
               PROVE  q \in older'[r] <=> r \notin older'[q]
    BY <1>1, <2>0 DEF Ordered
  <2>1. CASE r \in new /\ q \in new
    <3>1. rank[r] \in Nat /\ rank[q] \in Nat /\ rank[r] # rank[q]
      BY <2>1
    <3>2. (q \in older'[r] <=> rank[q] < rank[r]) /\ (r \in older'[q] <=> rank[r] < rank[q])
      BY <1>1, <1>2, <2>1
    <3>3. \A x, y \in Nat : x # y => (x < y <=> ~(y < x))
      OBVIOUS
    <3> HIDE DEF OrderInv, ControlInv
    <3> QED BY <3>1, <3>2, <3>3
  <2>2. CASE r \in new /\ q \in Created
    BY <1>1, <1>2, <2>2 DEF Created
  <2>3. CASE r \in Created /\ q \in new
    BY <1>1, <1>2, <2>3 DEF Created
  <2>4. CASE r \in Created /\ q \in Created
    BY <1>1, <1>2, <2>4 DEF Ordered, Created
  <2> QED BY <2>1, <2>2, <2>3, <2>4
<1>4. InTurn'
  BY <1>1, <1>2 DEF InTurn, Created
<1> QED BY <1>3, <1>4

LEMMA ClaimOrder ==
  ASSUME OrderInv, NEW c \in Request \cup {NoRequest}, Claim(c)
  PROVE  Ordered' /\ InTurn'
<1> USE DEF OrderInv, ControlInv
<1>1. /\ older' = older
      /\ jobStatus' = [r \in Request |-> IF r = c THEN "running" ELSE Recovered[r]]
      /\ \A r \in Request :
           /\ ~Active(r) => Recovered[r] = jobStatus[r] /\ r # c
           /\ Active(r) => Recovered[r] \in {"queued", "running", "failed"}
           /\ Recovered[r] = "running" => jobStatus[r] = "running"
           /\ Recovered[r] = "succeeded" => jobStatus[r] = "succeeded"
           /\ Recovered[r] = "queued" => jobStatus[r] \in {"queued", "running"}
      /\ c \in Request => /\ Recovered[c] = "queued"
                          /\ \A r \in Request : Recovered[r] # "running"
                          /\ \A r \in Request : Recovered[r] = "queued" => r \notin older[c]
      /\ c \notin Request => c = NoRequest
  BY ClaimEffect DEF Active
<1>2. Created' = Created
  BY <1>1 DEF Created, Active
<1>3. Ordered'
  <2>1. older' = older
    BY <1>1
  <2> QED BY <1>2, <2>1 DEF Ordered
<1>4. InTurn'
  <2> SUFFICES ASSUME NEW r \in Request, NEW q \in Request,
                      \/ jobStatus'[q] \in {"running", "succeeded"} /\ jobStatus'[r] = "queued"
                      \/ jobStatus'[q] = "succeeded" /\ jobStatus'[r] = "running"
               PROVE  q \in older[r]
    BY <1>1 DEF InTurn
  <2>1. CASE q = c
    <3>1. Recovered[r] = "queued" /\ r # c /\ r \notin older[c]
      BY <1>1, <2>1
    <3>2. r \in Created /\ c \in Created
      BY <1>1, <2>1, <3>1 DEF Created, Active
    <3> QED BY <2>1, <3>1, <3>2 DEF Ordered
  <2>2. CASE q # c
    <3>1. jobStatus'[r] = "queued" => r # c /\ Recovered[r] = "queued"
      BY <1>1
    <3>2. jobStatus'[q] = Recovered[q]
      BY <1>1, <2>2
    <3>3. jobStatus'[r] = "running" => jobStatus[r] \in {"queued", "running"}
      BY <1>1
    <3>4. /\ jobStatus'[q] = "running" => jobStatus[q] = "running"
          /\ jobStatus'[q] = "succeeded" => jobStatus[q] = "succeeded"
          /\ jobStatus'[r] = "queued" => jobStatus[r] \in {"queued", "running"}
      BY <1>1, <3>1, <3>2
    <3>5. ~(jobStatus[q] = "running" /\ jobStatus'[q] = "running" /\ jobStatus[r] = "running" /\ q # r)
      BY DEF OneRuns
    <3> QED BY <3>1, <3>2, <3>3, <3>4, <3>5 DEF InTurn
  <2> QED BY <2>1, <2>2
<1> QED BY <1>3, <1>4

LEMMA PatchOrder ==
  ASSUME OrderInv, NEW r \in Request, NEW s \in {"running", "succeeded", "failed"},
         NEW p \in Port \cup {NoPort}, NEW none \in BOOLEAN,
         jobStatus[r] = "running", Patch(r, s, p, none)
  PROVE  Ordered' /\ InTurn'
<1> USE DEF OrderInv, ControlInv
<1>1. jobStatus' = [jobStatus EXCEPT ![r] = s] /\ older' = older
  BY PatchEffect
<1>2. Created' = Created
  BY <1>1 DEF Created, TypeOK
<1>3. Ordered'
  BY <1>1, <1>2 DEF Ordered
<1>4. InTurn'
  BY <1>1 DEF InTurn, OneRuns, TypeOK
<1> QED BY <1>3, <1>4

LEMMA NextOrder ==
  ASSUME OrderInv, [Next]_cvars
  PROVE  Ordered' /\ InTurn'
<1> USE DEF OrderInv
<1>1. ASSUME NEW a \in Actions, NEW target \in Rows(Instance), NEW rank \in Ranks(target),
             Enqueue(a, target, rank)
      PROVE  Ordered' /\ InTurn'
  <2>1. DOMAIN target \in SUBSET Unused /\ target \in [DOMAIN target -> Instance]
    BY RowsFacts
  <2>2. rank \in [DOMAIN target -> Nat] /\ \A r, q \in DOMAIN target : rank[r] = rank[q] => r = q
    BY ControlAssumption DEF Ranks, IsInjective, ControlAssumption
  <2> QED BY <1>1, <2>1, <2>2, EnqueueOrder
<1>2. ASSUME NEW target \in Rows(Instance), NEW rank \in Ranks(target),
             CreateInstance(target, rank) \/ CreateInstances(target, rank) \/ \E a \in Action : CreateBatch(a, target, rank)
      PROVE  Ordered' /\ InTurn'
  BY <1>1, <1>2, ActionNames DEF CreateInstance, CreateInstances, CreateBatch
<1>3. ASSUME NEW r \in Request, NEW i \in Instance, NEW a \in Action, CreateJob(r, i, a)
      PROVE  Ordered' /\ InTurn'
  <2>1. {r} \in SUBSET Unused /\ [q \in {r} |-> i] \in [{r} -> Instance] /\ [q \in {r} |-> 1] \in [{r} -> Nat]
    BY <1>3 DEF CreateJob
  <2>2. Enqueue(a, [q \in {r} |-> i], [q \in {r} |-> 1])
    BY <1>3 DEF CreateJob
  <2> QED BY <2>1, <2>2, EnqueueOrder
<1>4. ASSUME NEW r \in Request, Cancel(r) PROVE Ordered' /\ InTurn'
  <2>1. jobStatus' = [jobStatus EXCEPT ![r] = "cancelled"] /\ older' = older /\ jobStatus[r] \in {"queued", "running"}
    BY <1>4 DEF Cancel
  <2>2. TypeOK
    BY DEF ControlInv
  <2>3. Created' = Created
    BY <2>1, <2>2 DEF Created, TypeOK
  <2> QED BY <2>1, <2>2, <2>3 DEF Ordered, InTurn, TypeOK
<1>5. CASE UNCHANGED <<jobStatus, older>>
  BY <1>5 DEF Ordered, InTurn, Created
<1> QED BY <1>2, <1>3, <1>4, <1>5, ClaimOrder, PatchOrder
        DEF Next, cvars, HeartbeatLapses, ScriptSetsStatus, UpsertInstance, jobVars

\* Jobs run in the order in which they were accepted, recoveries included: what
\* runs or succeeded was accepted before everything still to be done.
THEOREM JobsInTurn == Spec => []OrderInv
<1>1. Init => Ordered /\ InTurn
  BY DEF Init, Ordered, InTurn, Created
<1>2. OrderInv /\ ControlInv' /\ [Next]_cvars => OrderInv'
  BY NextOrder DEF OrderInv
<1>3. Init => OrderInv
  BY <1>1, InitInv DEF OrderInv
<1> QED BY <1>2, <1>3, ControlSafe, PTL DEF Spec

\* The lapsed job that a claim does not give up is the one it hands out again.
THEOREM JobsMoveOn == Spec => JobTransitions
<1> DEFINE Moves(r) ==
       /\ jobStatus[r] = "queued" => \/ jobStatus'[r] \in {"queued", "running", "cancelled"}
                                     \/ jobStatus'[r] = "failed" /\ jobInst[r] = NoInst
       /\ jobStatus[r] = "running" => jobStatus'[r] \in {"running"} \cup Terminal
<1>1. ASSUME OrderInv, [Next]_cvars, NEW r \in Request PROVE Moves(r)
  <2> USE DEF OrderInv, ControlInv
  <2>1. ASSUME NEW c \in Request \cup {NoRequest}, Claim(c) PROVE Moves(r)
    <3>1. /\ jobStatus' = [q \in Request |-> IF q = c THEN "running" ELSE Recovered[q]]
          /\ jobStatus[r] = "queued" => Recovered[r] = IF jobInst[r] = NoInst THEN "failed" ELSE "queued"
          /\ jobStatus[r] = "running" => Recovered[r] \in {"running", "queued", "failed"}
          /\ c = NoRequest => (\E q \in Request : Recovered[q] = "running") \/ (\A q \in Request : Recovered[q] # "queued")
      BY <1>1, <2>1, ClaimEffect
    <3>2. ASSUME jobStatus[r] = "running", Recovered[r] = "queued" PROVE c = r
      <4>1. \A q \in Request : Recovered[q] # "running"
        <5>1. \A q \in Request : Recovered[q] = "running" => jobStatus[q] = "running"
          BY <1>1 DEF Recovered
        <5> QED BY <1>1, <3>2, <5>1 DEF OneRuns
      <4>2. c \in Request /\ Recovered[c] = "queued" /\ r \notin older[c]
        BY <1>1, <2>1, <3>1, <3>2, <4>1, ClaimEffect
      <4>3. jobStatus[c] \in {"queued", "running"}
        BY <1>1, <4>2 DEF Recovered, Lapsed
      <4>4. c # r => jobStatus[c] = "queued"
        BY <1>1, <3>2, <4>2, <4>3 DEF OneRuns
      <4> QED BY <1>1, <3>2, <4>2, <4>4 DEF InTurn
    <3> QED BY <1>1, <3>1, <3>2 DEF Terminal
  <2>2. ASSUME NEW q \in Request, NEW s \in {"running", "succeeded", "failed"}, NEW p, NEW none,
               jobStatus[q] = "running", Patch(q, s, p, none)
        PROVE  Moves(r)
    BY <1>1, <2>2 DEF Patch, TypeOK, Terminal
  <2>3. ASSUME NEW q \in Request, Cancel(q) PROVE Moves(r)
    BY <1>1, <2>3 DEF Cancel, TypeOK, Terminal
  <2>4. ASSUME NEW a, NEW target, NEW rank, DOMAIN target \subseteq Unused, Enqueue(a, target, rank) PROVE Moves(r)
    BY <1>1, <2>4 DEF Enqueue, Unused
  <2>5. CASE jobStatus' = jobStatus
    BY <2>5
  <2>6. \A target \in Rows(Instance) : DOMAIN target \subseteq Unused
    BY RowsFacts
  <2>7. ASSUME NEW q \in Request, NEW i, NEW a, CreateJob(q, i, a) PROVE Moves(r)
    <3>1. DOMAIN [x \in {q} |-> i] \subseteq Unused /\ Enqueue(a, [x \in {q} |-> i], [x \in {q} |-> 1])
      BY <2>7 DEF CreateJob
    <3> QED BY <3>1, <2>4
  <2>8. ASSUME NEW target \in Rows(Instance), NEW rank,
               CreateInstance(target, rank) \/ CreateInstances(target, rank) \/ \E a \in Action : CreateBatch(a, target, rank)
        PROVE  Moves(r)
    BY <2>4, <2>6, <2>8 DEF CreateInstance, CreateInstances, CreateBatch
  <2> HIDE DEF OrderInv, ControlInv, Moves
  <2> QED BY <1>1, <2>1, <2>2, <2>3, <2>5, <2>7, <2>8
          DEF Next, cvars, HeartbeatLapses, ScriptSetsStatus, jobVars
<1>2. OrderInv /\ [Next]_cvars => [\A r \in Request : Moves(r)]_cvars
  BY <1>1
<1> QED BY <1>2, JobsInTurn, PTL DEF Spec, JobTransitions

------------------------------------------------------------------------------
(* Settings, pairing and audit rows *)

\* What the records need beyond the order.
Records == /\ RecordedDone /\ SettingsFollowOrder /\ Supported /\ BesideClean
           /\ OrphansPlain /\ PairingAlone /\ AuditAgrees

LEMMA ActionKinds ==
  /\ Manual \subseteq Audited /\ Settings \cap Lifecycle = {} /\ Audited \cap Lifecycle = {}
  /\ "cleanup_failed" \notin Lifecycle /\ "create" \notin Lifecycle
  /\ "wechat_bind" \notin Audited \cup Lifecycle /\ "approve_latest_device" \notin Lifecycle
  /\ "wechat_bind" \in Actions /\ "approve_latest_device" \in Actions /\ "cleanup_failed" \in Actions
BY DEF Manual, Audited, Settings, Lifecycle, Retention, Pairing, Exclusive, Actions

\* New jobs keep the records when nothing they must not meet is active.
LEMMA EnqueueRecords ==
  ASSUME OrderInv, Records, NEW a \in Actions, NEW new \in SUBSET Unused,
         NEW target \in [new -> Instance], NEW rank, Enqueue(a, target, rank), recorded' = recorded,
         \A r, q \in new : target[r] = target[q] => r = q,
         \A r \in new :
           /\ Supports(Product[target[r]], a)
           /\ a \in {"wechat_bind", "approve_latest_device"} => ActiveJobs(target[r], {a}) = {}
           /\ a \notin Lifecycle => ActiveJobs(target[r], {"cleanup_failed"}) = {}
           /\ a = "cleanup_failed" => ActiveJobs(target[r], Actions) = {}
  PROVE  Records'
<1> USE DEF OrderInv, ControlInv, Records
<1>1. /\ \A r \in new : /\ jobStatus'[r] = "queued" /\ jobAction'[r] = a /\ jobInst'[r] = target[r]
                        /\ jobStatus[r] = "absent" /\ jobInst[r] = NoInst
                        /\ jobAction[r] = "none" /\ audit[r] = "none"
                        /\ target[r] \in Instance /\ target[r] # NoInst
      /\ \A r \in Request \ new : /\ jobStatus'[r] = jobStatus[r] /\ jobAction'[r] = jobAction[r]
                                  /\ jobInst'[r] = jobInst[r] /\ older'[r] = older[r]
      /\ audit' = audit /\ new \subseteq Request
  <2>1. \A r \in new : jobInst[r] = NoInst /\ jobAction[r] = "none" /\ audit[r] = "none"
    BY DEF Blank, AuditAgrees, Unused, Terminal, TypeOK
  <2> QED BY <2>1, EnqueueEffect, NothingIsPurged DEF Unused
<1>2. recorded \cap new = {}
  BY <1>1 DEF RecordedDone, TypeOK
<1>3. RecordedDone'
  BY <1>1, <1>2 DEF RecordedDone, TypeOK
<1>4. SettingsFollowOrder'
  BY <1>1, <1>2 DEF SettingsFollowOrder, TypeOK
<1>5. Supported'
  BY <1>1 DEF Supported
\* an active request has an action
<1>6. \A x \in Request : Active(x) => jobAction[x] \in Actions
  BY DEF Active, Blank, Unused, TypeOK
<1>7. BesideClean'
  <2> SUFFICES ASSUME NEW r \in Request, NEW q \in Request, Active(r)', Active(q)',
                      jobAction'[r] = "cleanup_failed", jobInst'[r] = jobInst'[q],
                      jobInst'[r] # NoInst, r # q
               PROVE  jobAction'[q] \in Lifecycle
    BY DEF BesideClean
  <2>1. CASE r \in new /\ q \in new
    BY <1>1, <2>1
  <2>2. CASE r \in new /\ q \notin new
    <3>1. q \in ActiveJobs(target[r], Actions)
      BY <1>1, <1>6, <2>2 DEF ActiveJobs, Active
    <3> QED BY <1>1, <2>2, <3>1
  <2>3. CASE r \notin new /\ q \in new
    <3>1. r \in ActiveJobs(target[q], {"cleanup_failed"})
      BY <1>1, <2>3 DEF ActiveJobs, Active
    <3> QED BY <1>1, <2>3, <3>1
  <2>4. CASE r \notin new /\ q \notin new
    BY <1>1, <2>4 DEF BesideClean, Active
  <2> QED BY <2>1, <2>2, <2>3, <2>4
<1>8. OrphansPlain'
  BY <1>1 DEF OrphansPlain, Active
<1>9. PairingAlone'
  <2> SUFFICES ASSUME NEW r \in Request, NEW q \in Request, Active(r)', Active(q)',
                      jobAction'[r] \in {"wechat_bind", "approve_latest_device"},
                      jobAction'[q] = jobAction'[r], jobInst'[q] = jobInst'[r]
               PROVE  r = q
    BY DEF PairingAlone, Active
  <2>1. CASE r \in new /\ q \in new
    BY <1>1, <2>1
  <2>2. CASE r \in new /\ q \notin new
    <3>1. q \in ActiveJobs(target[r], {a})
      BY <1>1, <2>2 DEF ActiveJobs, Active
    <3> QED BY <1>1, <2>2, <3>1
  <2>3. CASE r \notin new /\ q \in new
    <3>1. r \in ActiveJobs(target[q], {a})
      BY <1>1, <2>3 DEF ActiveJobs, Active
    <3> QED BY <1>1, <2>3, <3>1
  <2>4. CASE r \notin new /\ q \notin new
    BY <1>1, <2>4 DEF PairingAlone, Active
  <2> QED BY <2>1, <2>2, <2>3, <2>4
<1>10. AuditAgrees'
  BY <1>1 DEF AuditAgrees, Terminal
<1> QED BY <1>3, <1>4, <1>5, <1>7, <1>8, <1>9, <1>10

LEMMA CreateInstancesRecords ==
  ASSUME OrderInv, Records, NEW target \in Rows(Instance), NEW rank, CreateInstances(target, rank)
  PROVE  Records'
<1> DEFINE new == DOMAIN target
<1> USE DEF OrderInv, ControlInv
<1>1. new \in SUBSET Unused /\ target \in [new -> Instance] /\ "create" \in Actions
  BY RowsFacts, ActionNames
<1>2. /\ Enqueue("create", target, rank) /\ recorded' = recorded
      /\ \A r, q \in new : target[r] = target[q] => r = q
      /\ \A r \in new : instStatus[target[r]] = "unborn"
  BY DEF CreateInstances, IsInjective
<1>3. \A r \in new : Supports(Product[target[r]], "create")
  BY DEF Supports, Pairing
<1>4. \A r \in new : \A A : ActiveJobs(target[r], A) = {}
  BY <1>1, <1>2, NothingIsPurged DEF JobsHaveRows, Exists, ActiveJobs
<1> QED BY <1>1, <1>2, <1>3, <1>4, EnqueueRecords

LEMMA CreateJobRecords ==
  ASSUME OrderInv, Records, NEW r \in Request, NEW i \in Instance, NEW a \in Action, CreateJob(r, i, a)
  PROVE  Records'
<1> DEFINE target == [q \in {r} |-> i]
<1>1. /\ a \in Actions /\ {r} \in SUBSET Unused /\ target \in [{r} -> Instance]
      /\ Enqueue(a, target, [q \in {r} |-> 1]) /\ recorded' = recorded /\ Supports(Product[i], a)
  BY ActionNames DEF CreateJob, instVars
<1>2. /\ a = "cleanup_failed" => ActiveJobs(i, Actions) = {}
      /\ ActiveJobs(i, {"cleanup_failed"}) = {}
      /\ a \in {"wechat_bind", "approve_latest_device"} => ActiveJobs(i, {a}) = {}
  BY DEF CreateJob, QueueAllows, Exclusive, ActiveJobs
<1>3. DOMAIN target = {r} /\ target[r] = i
  OBVIOUS
<1>4. \A q \in {r} :
        /\ Supports(Product[target[q]], a)
        /\ a \in {"wechat_bind", "approve_latest_device"} => ActiveJobs(target[q], {a}) = {}
        /\ a \notin Lifecycle => ActiveJobs(target[q], {"cleanup_failed"}) = {}
        /\ a = "cleanup_failed" => ActiveJobs(target[q], Actions) = {}
  BY <1>1, <1>2, <1>3
<1> HIDE DEF target
<1> QED BY <1>1, <1>4, EnqueueRecords

LEMMA CreateBatchRecords ==
  ASSUME OrderInv, Records, NEW a \in Action, NEW target \in Rows(Instance), NEW rank,
         CreateBatch(a, target, rank)
  PROVE  Records'
<1> DEFINE new == DOMAIN target
<1> DEFINE Allowed(i) == DeviceBatchAllows(i, a) \/ ActionBatchAllows(i, a) \/ ProviderBatchAllows(i, a)
<1> USE DEF OrderInv, ControlInv
<1>1. new \in SUBSET Unused /\ target \in [new -> Instance] /\ a \in Actions /\ new # {}
  BY RowsFacts, ActionNames DEF Rows
<1>2. /\ Enqueue(a, target, rank) /\ recorded' = recorded
      /\ \A r, q \in new : target[r] = target[q] => r = q
      /\ \A r \in new : Supports(Product[target[r]], a) /\ Allowed(target[r])
  BY DEF CreateBatch, IsInjective, instVars
<1>3. a # "cleanup_failed" /\ a # "wechat_bind"
  BY <1>1, <1>2 DEF DeviceBatchAllows, ActionBatchAllows, ProviderBatchAllows, Pairing, Lifecycle
<1>4. a = "approve_latest_device" => \A r \in new : ActiveJobs(target[r], {a}) = {}
  BY <1>2 DEF DeviceBatchAllows, ActionBatchAllows, ProviderBatchAllows, Lifecycle, ActiveJobs
\* a clean-up is an EvoScientist instance's, which supports no pairing and no skills
<1>5. ASSUME NEW r \in new, a \notin Lifecycle PROVE ActiveJobs(target[r], {"cleanup_failed"}) = {}
  <2>1. CASE a = "set_model_provider"
    BY <1>2, <2>1, ActionKinds DEF DeviceBatchAllows, ActionBatchAllows, ProviderBatchAllows, Lifecycle,
       Pairing, ActiveJobs
  <2>2. CASE a # "set_model_provider"
    <3>1. a \in Pairing \cup {"install_skill"}
      BY <1>2, <1>5, <2>2 DEF DeviceBatchAllows, ActionBatchAllows, ProviderBatchAllows
    <3>2. Product[target[r]] = "openclaw"
      BY <1>2, <3>1 DEF Supports, Pairing
    <3>3. \A q \in Request : jobInst[q] = target[r] => jobAction[q] # "cleanup_failed"
      <4>1. ~Supports(Product[target[r]], "cleanup_failed")
        BY <3>2 DEF Supports, Pairing
      <4>2. \A q \in Request : jobInst[q] = target[r] => Supports(Product[target[r]], jobAction[q])
        BY <1>1, NothingIsPurged DEF Records, Supported
      <4> QED BY <4>1, <4>2
    <3> QED BY <3>3 DEF ActiveJobs
  <2> QED BY <2>1, <2>2
<1> HIDE DEF Allowed
<1> QED BY <1>1, <1>2, <1>3, <1>4, <1>5, EnqueueRecords

LEMMA ClaimRecords ==
  ASSUME OrderInv, Records, ControlInv', NEW c \in Request \cup {NoRequest}, Claim(c)
  PROVE  Records'
<1> USE DEF OrderInv, ControlInv, Records
<1>1. /\ UNCHANGED <<jobAction, jobInst, older, recorded>>
      /\ \A r \in Request :
           /\ ~Active(r) => jobStatus'[r] = jobStatus[r]
           /\ Active(r) => jobStatus'[r] \in {"queued", "running", "failed"}
           /\ jobStatus[r] = "queued" /\ jobStatus'[r] = "failed" => jobInst[r] = NoInst
           /\ jobStatus[r] = "running" /\ jobStatus'[r] = "failed" => r \in interrupted'
      /\ interrupted' = interrupted \cup {r \in Lapsed : jobAction[r] \in Manual}
      /\ \A r \in Request : audit'[r] = IF r \in interrupted' /\ audit[r] = "none" THEN "failed" ELSE audit[r]
  <2>1. /\ jobStatus' = [r \in Request |-> IF r = c THEN "running" ELSE Recovered[r]]
        /\ UNCHANGED <<jobAction, jobInst, older, recorded>>
        /\ \A r \in Request :
             /\ ~Active(r) => Recovered[r] = jobStatus[r] /\ r # c
             /\ jobStatus[r] = "queued" => Recovered[r] = IF jobInst[r] = NoInst THEN "failed" ELSE "queued"
             /\ jobStatus[r] = "running" => \/ Recovered[r] = "running"
                                            \/ Recovered[r] = "queued"
                                            \/ Recovered[r] = "failed" /\ r \in interrupted'
    BY ClaimEffect
  <2> QED BY <2>1 DEF Claim, Active
<1>2. RecordedDone' /\ SettingsFollowOrder'
  BY <1>1 DEF RecordedDone, SettingsFollowOrder, Active, TypeOK
<1>3. Supported' /\ BesideClean' /\ OrphansPlain' /\ PairingAlone'
  BY <1>1 DEF Supported, BesideClean, OrphansPlain, PairingAlone, Active
<1>4. AuditAgrees'
  <2> SUFFICES ASSUME NEW r \in Request
               PROVE  /\ audit'[r] = "success" => jobStatus'[r] = "succeeded"
                      /\ audit'[r] = "failed" => jobStatus'[r] = "failed"
                      /\ audit'[r] # "none" => jobAction'[r] \in Audited /\ jobStatus'[r] \in Terminal
                      /\ jobAction'[r] \in Audited /\ jobStatus'[r] \in {"succeeded", "failed"} => audit'[r] # "none"
    BY DEF AuditAgrees
  <2>1. r \in interrupted' => jobStatus'[r] = "failed" /\ jobAction[r] \in Audited
    BY <1>1, ActionKinds DEF InterruptedFailed
  <2>2. CASE ~Active(r)
    BY <1>1, <2>1, <2>2 DEF AuditAgrees, Active, Terminal
  <2>3. CASE Active(r)
    <3>1. audit[r] = "none"
      BY <2>3 DEF AuditAgrees, Active, Terminal
    <3>2. jobInst[r] = NoInst => jobAction[r] \notin Audited
      BY <2>3, ActionKinds DEF OrphansPlain
    <3> QED BY <1>1, <2>1, <2>3, <3>1, <3>2 DEF Active, Terminal
  <2> QED BY <2>2, <2>3
<1> QED BY <1>2, <1>3, <1>4

LEMMA PatchRecords ==
  ASSUME OrderInv, Records, NEW r \in Request, NEW s \in {"running", "succeeded", "failed"},
         NEW p \in Port \cup {NoPort}, NEW none \in BOOLEAN,
         jobStatus[r] = "running", Patch(r, s, p, none)
  PROVE  Records'
<1> USE DEF OrderInv, ControlInv, Records
<1>1. /\ jobStatus' = [jobStatus EXCEPT ![r] = s] /\ UNCHANGED <<jobAction, older>>
      /\ \/ jobInst' = jobInst /\ recorded' = recorded /\ ~SettingDone(r, s)
         \/ /\ SettingDone(r, s) /\ jobInst' = jobInst
            /\ recorded' = {r} \cup {q \in recorded : jobInst[q] # jobInst[r] \/ jobAction[q] # jobAction[r]}
         \/ /\ PurgeDone(r, s)
            /\ jobInst' = [q \in Request |-> IF jobInst[q] = jobInst[r] THEN NoInst ELSE jobInst[q]]
            /\ recorded' = recorded \ {q \in Request : jobInst[q] = jobInst[r]}
  BY PatchEffect
<1>2. jobInst[r] # NoInst /\ recorded \subseteq Request /\ r \notin recorded
  BY DEF RunningHasInstance, RecordedDone, TypeOK
<1>3. \A q \in Request : /\ jobInst'[q] # NoInst => jobInst'[q] = jobInst[q]
                         /\ q # r => jobStatus'[q] = jobStatus[q]
                         /\ Active(q)' => Active(q)
  BY <1>1 DEF TypeOK, Active
<1>4. RecordedDone'
  BY <1>1, <1>2, <1>3 DEF RecordedDone, SettingDone, TypeOK
<1>5. SettingsFollowOrder'
  <2> SUFFICES ASSUME NEW x \in recorded', NEW q \in Request, jobStatus'[q] = "succeeded",
                      jobAction[q] = jobAction[x], jobInst'[q] = jobInst'[x]
               PROVE  q = x \/ q \in older[x]
    BY <1>1 DEF SettingsFollowOrder
  <2>1. x \in Request /\ jobInst'[x] # NoInst /\ jobInst[q] = jobInst[x] /\ jobAction[x] \in Settings
    BY <1>1, <1>2, <1>3, <1>4 DEF RecordedDone
  <2>2. CASE x = r
    BY <1>3, <2>2 DEF InTurn
  <2>3. CASE x # r /\ q # r
    BY <1>1, <1>3, <2>1, <2>3 DEF SettingsFollowOrder
  <2>4. CASE x # r /\ q = r
    BY <1>1, <2>1, <2>4 DEF SettingDone, TypeOK
  <2> QED BY <2>2, <2>3, <2>4
<1>6. Supported' /\ BesideClean'
  BY <1>1, <1>3 DEF Supported, BesideClean
<1>7. OrphansPlain'
  <2> SUFFICES ASSUME NEW q \in Request, Active(q)', jobInst'[q] = NoInst, jobInst[q] # NoInst
               PROVE  jobAction[q] \in Lifecycle
    BY <1>1, <1>3 DEF OrphansPlain
  <2>1. PurgeDone(r, s) /\ jobInst[q] = jobInst[r]
    BY <1>1
  <2>2. q # r
    BY <1>1, <2>1 DEF PurgeDone, Active, TypeOK
  <2>3. Active(q) /\ Active(r)
    BY <1>3 DEF Active
  <2>4. jobAction[r] # "purge_deleted"
    BY <1>2, <2>1, <2>2, <2>3 DEF RetentionAlone, Active
  <2> QED BY <1>2, <2>1, <2>2, <2>3, <2>4 DEF PurgeDone, BesideClean
<1>8. PairingAlone'
  <2> SUFFICES ASSUME NEW x \in Request, NEW q \in Request, Active(x)', Active(q)',
                      jobAction[x] \in {"wechat_bind", "approve_latest_device"},
                      jobAction[q] = jobAction[x], jobInst'[q] = jobInst'[x]
               PROVE  x = q
    BY <1>1 DEF PairingAlone, Active
  <2>1. jobInst'[x] # NoInst
    BY <1>1, <1>7, ActionKinds DEF OrphansPlain
  <2> QED BY <1>3, <2>1 DEF PairingAlone, Active
<1>9. AuditAgrees'
  <2>1. audit[r] = "none"
    BY DEF AuditAgrees, Terminal
  <2>2. audit' = IF s \in {"succeeded", "failed"} /\ jobAction[r] \in Audited
                 THEN [audit EXCEPT ![r] = AuditOutcome(r, s, none)] ELSE audit
    BY DEF Patch, RecordOperation
  <2>3. AuditOutcome(r, s, none) \in {"skipped", IF s = "succeeded" THEN "success" ELSE "failed"}
    BY DEF AuditOutcome
  <2>4. \A q \in Request \ {r} : audit'[q] = audit[q]
    BY <2>2 DEF TypeOK
  <2>5. audit'[r] = IF s \in {"succeeded", "failed"} /\ jobAction[r] \in Audited
                    THEN AuditOutcome(r, s, none) ELSE "none"
    BY <2>1, <2>2 DEF TypeOK
  <2>6. jobStatus'[r] = s
    BY <1>1 DEF TypeOK
  <2>7. \A q \in Request \ {r} : jobStatus'[q] = jobStatus[q] /\ jobAction'[q] = jobAction[q]
    BY <1>1, <1>3
  <2> QED BY <1>1, <2>3, <2>4, <2>5, <2>6, <2>7 DEF AuditAgrees, Terminal
<1> QED BY <1>4, <1>5, <1>6, <1>7, <1>8, <1>9

LEMMA CancelRecords ==
  ASSUME OrderInv, Records, NEW r \in Request, Cancel(r)
  PROVE  Records'
<1> USE DEF OrderInv, ControlInv, Records
<1>1. /\ UNCHANGED <<jobAction, jobInst, older, audit, recorded>>
      /\ jobStatus' = [jobStatus EXCEPT ![r] = "cancelled"]
      /\ jobStatus[r] \in {"queued", "running"} /\ jobAction[r] = "wechat_bind"
  BY DEF Cancel, instVars
<1>2. RecordedDone' /\ SettingsFollowOrder' /\ Supported'
  BY <1>1 DEF RecordedDone, SettingsFollowOrder, Supported, TypeOK
<1>3. BesideClean' /\ OrphansPlain' /\ PairingAlone'
  BY <1>1 DEF BesideClean, OrphansPlain, PairingAlone, Active, TypeOK
<1>4. AuditAgrees'
  BY <1>1, ActionKinds DEF AuditAgrees, Terminal, TypeOK
<1> QED BY <1>2, <1>3, <1>4

\* Heartbeats and the scripts do not touch what the records speak of.
LEMMA OtherRecords ==
  ASSUME Records, UNCHANGED <<jobStatus, jobAction, jobInst, older, audit, recorded>>
  PROVE  Records'
BY DEF Records, RecordedDone, SettingsFollowOrder, Supported, BesideClean, OrphansPlain,
   PairingAlone, AuditAgrees, Active

LEMMA NextRecords ==
  ASSUME OrderInv, Records, ControlInv', [Next]_cvars
  PROVE  Records'
<1>1. ASSUME NEW target \in Rows(Instance), NEW rank,
             CreateInstance(target, rank) \/ CreateInstances(target, rank) \/ \E a \in Action : CreateBatch(a, target, rank)
      PROVE  Records'
  BY <1>1, CreateInstancesRecords, CreateBatchRecords DEF CreateInstance
<1>2. CASE UNCHANGED <<jobStatus, jobAction, jobInst, older, audit, recorded>>
  BY <1>2, OtherRecords
<1> QED BY <1>1, <1>2, CreateJobRecords, ClaimRecords, PatchRecords, CancelRecords
        DEF Next, cvars, HeartbeatLapses, ScriptSetsStatus, UpsertInstance, jobVars, instVars

\* Order and records together, for any requests, instances, products and batches.
THEOREM RecordsSafe == Spec => []RecordsInv
<1>1. Init => Records
  BY DEF Init, Records, RecordedDone, SettingsFollowOrder, Supported, BesideClean, OrphansPlain,
     PairingAlone, AuditAgrees, Active, Terminal, Audited, Settings, Pairing, Exclusive, Retention
<1>2. Records /\ OrderInv /\ ControlInv' /\ [Next]_cvars => Records'
  BY NextRecords
<1>3. OrderInv => ControlInv
  BY DEF OrderInv
<1>4. RecordsInv <=> OrderInv /\ Records
  BY DEF RecordsInv, Records
<1> QED BY <1>1, <1>2, <1>3, <1>4, JobsInTurn, PTL DEF Spec

\* The settings an instance row shows are those of the change asked for last.
THEOREM SettingsStayInOrder == Spec => []SettingsFollowOrder
<1>1. RecordsInv => SettingsFollowOrder
  BY DEF RecordsInv
<1> QED BY <1>1, RecordsSafe, PTL

\* The audit rows agree with the jobs, by report or recovery.
THEOREM AuditStaysTrue == Spec => []AuditAgrees
<1>1. RecordsInv => AuditAgrees
  BY DEF RecordsInv
<1> QED BY <1>1, RecordsSafe, PTL

\* One WeChat binding and one approval of an instance at a time.
THEOREM PairingStaysAlone == Spec => []PairingAlone
<1>1. RecordsInv => PairingAlone
  BY DEF RecordsInv
<1> QED BY <1>1, RecordsSafe, PTL

\* A clean-up that waits or runs has a failed instance: what is accepted beside it,
\* starts, stops and restarts, is refused on a failed instance.
CleanupOfFailed ==
  \A r \in Request :
    Active(r) /\ jobAction[r] = "cleanup_failed" /\ jobInst[r] # NoInst
    => instStatus[jobInst[r]] = "failed"

LEMMA CleanupStep ==
  ASSUME RecordsInv, CleanupOfFailed, [Next]_cvars
  PROVE  CleanupOfFailed'
<1> USE DEF RecordsInv, OrderInv, ControlInv
\* an instance that has a job keeps its status but for the report of a job of its own
<1>1. ASSUME NEW a, NEW new \in SUBSET Unused, NEW target \in [new -> Instance], NEW rank, Enqueue(a, target, rank),
             a = "cleanup_failed" => \A r \in new : instStatus'[target[r]] = "failed",
             \A i \in Instance : Exists(i) => instStatus'[i] = instStatus[i]
      PROVE  CleanupOfFailed'
  <2>1. /\ \A r \in new : jobAction'[r] = a /\ jobInst'[r] = target[r]
        /\ \A r \in Request \ new : /\ jobStatus'[r] = jobStatus[r] /\ jobAction'[r] = jobAction[r]
                                    /\ jobInst'[r] = jobInst[r]
    BY <1>1, EnqueueEffect
  <2> QED BY <1>1, <2>1 DEF CleanupOfFailed, Active, JobsHaveRows, TypeOK
<1>2. ASSUME NEW target \in Rows(Instance), NEW rank, CreateInstances(target, rank) PROVE CleanupOfFailed'
  <2>1. \A i \in Instance : Exists(i) => instStatus'[i] = instStatus[i]
    BY <1>2 DEF CreateInstances, InsertInstances, Range, Exists
  <2>2. DOMAIN target \in SUBSET Unused /\ target \in [DOMAIN target -> Instance]
    BY RowsFacts
  <2>3. PICK a \in {"create"} : Enqueue(a, target, rank)
    BY <1>2 DEF CreateInstances
  <2> QED BY <1>1, <2>1, <2>2, <2>3
<1>3. ASSUME NEW target \in Rows(Instance), NEW rank, NEW a \in Action, CreateBatch(a, target, rank) PROVE CleanupOfFailed'
  <2>1. DOMAIN target # {}
    BY DEF Rows
  <2>2. a # "cleanup_failed"
    BY <1>3, <2>1 DEF CreateBatch, DeviceBatchAllows, ActionBatchAllows, ProviderBatchAllows, Pairing, Lifecycle
  <2>3. instStatus' = instStatus
    BY <1>3 DEF CreateBatch, instVars
  <2> QED BY <1>1, <1>3, <2>2, <2>3, RowsFacts DEF CreateBatch
<1>4. ASSUME NEW r \in Request, NEW i \in Instance, NEW a \in Action, CreateJob(r, i, a) PROVE CleanupOfFailed'
  <2> DEFINE target == [q \in {r} |-> i]
  <2>1. /\ {r} \in SUBSET Unused /\ target \in [{r} -> Instance] /\ Enqueue(a, target, [q \in {r} |-> 1])
        /\ instStatus' = instStatus /\ target[r] = i
        /\ a = "cleanup_failed" => instStatus[i] = "failed"
    BY <1>4 DEF CreateJob, StatusAllows, instVars
  <2> HIDE DEF target
  <2> QED BY <1>1, <2>1
<1>5. ASSUME NEW c \in Request \cup {NoRequest}, Claim(c) PROVE CleanupOfFailed'
  <2>1. /\ UNCHANGED <<jobAction, jobInst>>
        /\ \A r \in Request : Active(r)' => Active(r)
    BY <1>5, ClaimEffect DEF Active
  <2>2. \A i \in Instance : instStatus[i] = "failed" => instStatus'[i] = "failed"
    BY <1>5 DEF Claim
  <2> QED BY <2>1, <2>2 DEF CleanupOfFailed, TypeOK
<1>6. ASSUME NEW q \in Request, NEW s \in {"running", "succeeded", "failed"},
             NEW p \in Port \cup {NoPort}, NEW none \in BOOLEAN,
             jobStatus[q] = "running", Patch(q, s, p, none)
      PROVE  CleanupOfFailed'
  <2> SUFFICES ASSUME NEW r \in Request, Active(r)', jobAction'[r] = "cleanup_failed", jobInst'[r] # NoInst
               PROVE  instStatus'[jobInst'[r]] = "failed"
    BY DEF CleanupOfFailed
  <2>1. /\ jobStatus' = [jobStatus EXCEPT ![q] = s] /\ jobAction' = jobAction
        /\ jobInst'[r] = jobInst[r] /\ Active(q)
    BY <1>6, PatchEffect DEF Active, TypeOK
  <2>2. Active(r) /\ instStatus[jobInst[r]] = "failed" /\ jobInst[r] \in Instance
    BY <2>1 DEF Active, CleanupOfFailed, TypeOK
  <2>3. /\ \A j \in Instance \ {jobInst[q]} : instStatus'[j] = instStatus[j]
        /\ s = "running" => instStatus' = instStatus
    BY <1>6, PatchEffects
  <2>4. CASE r = q
    <3>1. s = "running"
      BY <2>1, <2>4 DEF Active, TypeOK
    <3> QED BY <2>1, <2>2, <2>3, <3>1
  <2>5. CASE r # q /\ jobInst[r] = jobInst[q]
    <3>1. jobAction[q] \in Lifecycle
      BY <2>1, <2>2, <2>5 DEF BesideClean
    <3>2. ~RuntimeDone(q, s)
      BY <1>6, <2>2, <2>5 DEF Patch, Accepts
    <3>3. instStatus' = instStatus
      BY <1>6, <3>1, <3>2, ActionKinds DEF Patch, SideEffects, CreateDone, RetainDone, PurgeDone, SettingDone, RecordSetting,
         instVars, Lifecycle, Retention
    <3> QED BY <2>1, <2>2, <3>3
  <2>6. CASE jobInst[r] # jobInst[q]
    BY <2>1, <2>2, <2>3, <2>6
  <2> QED BY <2>4, <2>5, <2>6
<1>7. ASSUME NEW q \in Request, Cancel(q) PROVE CleanupOfFailed'
  BY <1>7 DEF Cancel, instVars, CleanupOfFailed, Active, TypeOK
<1>8. ASSUME NEW q \in Request, NEW whole \in BOOLEAN, ScriptSetsStatus(q, whole) PROVE CleanupOfFailed'
  <2>1. /\ UNCHANGED <<jobStatus, jobAction, jobInst>> /\ jobStatus[q] = "running" /\ jobAction[q] \in Retention
        /\ jobInst[q] # NoInst
        /\ \A i \in Instance \ {jobInst[q]} : instStatus'[i] = instStatus[i]
    BY <1>8 DEF ScriptSetsStatus, UpsertInstance, jobVars, TypeOK
  <2>2. \A r \in Request : Active(r) /\ jobInst[r] = jobInst[q] => r = q
    BY <2>1 DEF RetentionAlone, Active
  <2> QED BY <2>1, <2>2 DEF CleanupOfFailed, Active, TypeOK, Retention
<1>9. CASE UNCHANGED <<jobStatus, jobAction, jobInst, instStatus>>
  BY <1>9 DEF CleanupOfFailed, Active
<1> QED BY <1>2, <1>3, <1>4, <1>5, <1>6, <1>7, <1>8, <1>9
        DEF Next, CreateInstance, cvars, HeartbeatLapses, instVars

LEMMA CleanupsSafe == Spec => []CleanupOfFailed
<1>1. Init => CleanupOfFailed
  BY DEF Init, CleanupOfFailed, Active
<1>2. RecordsInv /\ CleanupOfFailed /\ [Next]_cvars => CleanupOfFailed'
  BY CleanupStep
<1> QED BY <1>1, <1>2, RecordsSafe, PTL DEF Spec

------------------------------------------------------------------------------
(* ManagerSystem *)

\* The executor has a job.
Busy == pc \notin {"idle", "down"}

\* The job it has is the one Control has running, unless it is a binding that was
\* cancelled or a report of its end has reached Control without being answered; it
\* has its instance until its purge may have been reported.
HasJob     == Busy <=> job \in Request
JobClaimed == Busy => jobStatus[job] \in {"running"} \cup Terminal
JobRuns    ==
  Busy /\ pc \notin {"undo", "failure", "error"} =>
    jobStatus[job] = "running" \/ (action = "wechat_bind" /\ jobStatus[job] = "cancelled")
JobPlaced  == Busy /\ pc # "error" => inst # NoInst

\* What a step of the executor is about.
RightAction ==
  /\ At("attempt") => action \in Lifecycle
  /\ At("working") => action # "wechat_bind"
  /\ At("script")  => action \in Retention /\ OpenClaw(inst)
  /\ pc \in {"ingress", "undo"} => action = "create"
  /\ pc \in {"bind", "bound", "unbind"} => action = "wechat_bind"

ExecutorInv == /\ ControlInv /\ SystemTypeOK
               /\ HasJob /\ JobClaimed /\ JobRuns /\ JobPlaced /\ RightAction

\* An operation was set to a job at most once, and not before the executor works on it.
Once ==
  \A r \in Request :
    /\ executions[r] < 2
    /\ executions[r] > 0 => jobAction[r] \in Manual /\ jobStatus[r] \in {"running"} \cup Terminal
    /\ executions[r] > 0 /\ job = r => pc \notin {"accepted", "attempt", "working"}
OnceInv == ExecutorInv /\ Once

\* A command that the executor does not watch is in a doubtful container, or its
\* container is gone.
Watched ==
  \A r \in binding :
    /\ jobAction[r] = "wechat_bind" /\ jobStatus[r] # "absent"
    /\ \/ r = job /\ pc \in {"bound", "unbind"}
       \/ jobInst[r] \in doubtful \cup {NoInst}
BindingInv == ExecutorInv /\ Watched

------------------------------------------------------------------------------
(* The host *)

LEMMA EndsHaveRuntime ==
  ASSUME NEW s, NEW a, NEW X, NEW ok, NEW e \in Ends(s, a, X, ok)
  PROVE  e.runtime \in X
BY DEF Ends

\* Whatever an operation leaves of an instance is one of the states listed.
LEMMA OperationsLeaveRuntimes ==
  ASSUME NEW s, s.runtime \in Runtime, NEW a,
         NEW e \in GoodEnds(s, a) \cup SlackEnds(s, a) \cup BadEnds(s, a) \cup CutEnds(s, a)
  PROVE  e.runtime \in Runtime
<1>1. Succeeds(s, a) \subseteq Runtime
  BY DEF Succeeds, CreateEnds, DeleteEnds, ScriptDeletes, AdapterDeletes, RestoreEnds, PurgeEnds, CleanupEnds, Serves,
     Remains, Runtime, Deployed, Archived
<1>2. Slackens(s, a) \subseteq Runtime
  BY DEF Slackens, Runtime, Deployed, Archived
<1>3. Fails(s, a) \subseteq Runtime
  <2>1. /\ DeleteFails(s) \subseteq Runtime /\ RestoreFails(s) \subseteq Runtime
        /\ OthersFail(s) \subseteq Runtime /\ CleanupEnds(s) \subseteq Runtime
    BY DEF DeleteFails, DeleteEnds, ScriptDeletes, AdapterDeletes, RestoreFails, OthersFail, CleanupEnds,
       Runtime, Deployed, Archived
  <2> QED BY <2>1 DEF Fails, Runtime, Deployed
<1> QED BY <1>1, <1>2, <1>3, EndsHaveRuntime DEF GoodEnds, SlackEnds, BadEnds, CutEnds

\* An operation changes its instance only.
LEMMA LeftEffect ==
  ASSUME SystemTypeOK, Busy, inst \in Instance, NEW ends, Left(ends),
         \A e \in ends : e.runtime \in Runtime
  PROVE  /\ runtime' \in [Instance -> Runtime] /\ husks' \subseteq Instance
         /\ \A i \in Instance \ {inst} : runtime'[i] = runtime[i] /\ (i \in husks' <=> i \in husks)
BY DEF Left, SystemTypeOK

------------------------------------------------------------------------------
(* What the executor knows when it goes on *)

Executor == /\ pc \in Step /\ seen \in {"live", "deleted", "restorable"} /\ attempt \in 0..MaxAttempts
            /\ HasJob /\ JobClaimed /\ JobRuns /\ JobPlaced /\ RightAction

\* A step of run_once that goes on with what suits the job.
LEMMA GoesOn ==
  ASSUME ExecutorInv, Busy, NEW next \in Step, Goto(next),
         jobAction' = jobAction, jobStatus'[job] \in {"running"} \cup Terminal,
         next \notin {"undo", "failure", "error", "idle", "down"} =>
           jobStatus'[job] = "running" \/ (action = "wechat_bind" /\ jobStatus'[job] = "cancelled"),
         next \notin {"error", "idle", "down"} => jobInst'[job] # NoInst,
         next = "attempt" => action \in Lifecycle /\ attempt < MaxAttempts,
         next = "working" => action # "wechat_bind",
         next = "script"  => action \in Retention /\ OpenClaw(jobInst'[job]),
         next \in {"ingress", "undo"} => action = "create",
         next \in {"bind", "bound", "unbind"} => action = "wechat_bind"
  PROVE  Executor' /\ job' \in Request \cup {NoRequest}
<1>1. attempt \in Nat /\ attempt \in 0..MaxAttempts /\ MaxAttempts \in Nat /\ NoRequest \notin Request /\ job \in Request
  BY SystemAssumption, NothingIsPurged DEF SystemAssumption, ExecutorInv, SystemTypeOK, HasJob
<1>2. /\ pc' = next
      /\ job' = IF next \in {"idle", "down"} THEN NoRequest ELSE job
      /\ seen' \in {"live", "deleted", "restorable"}
  BY DEF Goto, ExecutorInv, SystemTypeOK
<1>3. attempt' \in 0..MaxAttempts
  <2>1. attempt' = IF next = "attempt" THEN attempt + 1 ELSE IF next = "working" THEN attempt ELSE 0
    BY DEF Goto
  <2> QED BY <1>1, <2>1
<1>4. HasJob' /\ JobClaimed' /\ JobRuns' /\ JobPlaced'
  BY <1>1, <1>2 DEF HasJob, JobClaimed, JobRuns, JobPlaced, Busy, inst, action
<1>5. RightAction'
  BY <1>1, <1>2 DEF RightAction, At, inst, action
<1> QED BY <1>1, <1>2, <1>3, <1>4, <1>5 DEF Executor

\* What a report to Control comes to: a step of the control service, or none.
LEMMA ReportEffect ==
  ASSUME ExecutorInv, Busy, NEW s \in {"running", "succeeded", "failed"},
         NEW p \in Port \cup {NoPort}, NEW none \in BOOLEAN, NEW next, NEW raised,
         Report(s, p, none, next, raised)
  PROVE  /\ [Next]_cvars /\ jobAction' = jobAction /\ world' = world
         /\ \A r \in Request \ {job} : jobStatus'[r] = jobStatus[r]
         /\ jobStatus'[job] = jobStatus[job] \/ (jobStatus[job] = "running" /\ jobStatus'[job] = s)
         /\ \/ jobInst' = jobInst
            \/ /\ PurgeDone(job, s)
               /\ jobInst' = [q \in Request |-> IF jobInst[q] = inst THEN NoInst ELSE jobInst[q]]
         /\ \/ Goto(next) /\ jobStatus[job] = "running" /\ jobStatus'[job] = s
            \/ Goto(raised)
         /\ doubtful \subseteq doubtful' /\ doubtful' \subseteq Instance
         /\ lost' \in 0..MaxLost /\ crashes' = crashes
<1>1. job \in Request /\ TypeOK /\ jobStatus[job] # "queued" /\ inst \in Instance \cup {NoInst}
  BY DEF ExecutorInv, ControlInv, HasJob, JobClaimed, Terminal, TypeOK, inst
<1>2. /\ Doubted \subseteq Instance /\ doubtful \subseteq Doubted
      /\ doubtful \subseteq Instance /\ lost \in 0..MaxLost /\ MaxLost \in Nat
  BY <1>1, SystemAssumption DEF Doubted, ExecutorInv, SystemTypeOK, SystemAssumption
<1>3. ASSUME Patch(job, s, p, none)
      PROVE  /\ Next /\ jobAction' = jobAction /\ jobStatus[job] = "running"
             /\ jobStatus' = [jobStatus EXCEPT ![job] = s]
             /\ \/ jobInst' = jobInst
                \/ /\ PurgeDone(job, s)
                   /\ jobInst' = [q \in Request |-> IF jobInst[q] = inst THEN NoInst ELSE jobInst[q]]
  <2>1. jobStatus[job] = "running"
    BY <1>1, <1>3 DEF Patch, Accepts
  <2>2. Next
    BY <1>1, <1>3, <2>1 DEF Next
  <2> QED BY <1>1, <1>3, <2>1, <2>2, PatchEffect DEF ExecutorInv, inst
<1>4. CASE Patch(job, s, p, none) /\ Goto(next) /\ UNCHANGED faults /\ UNCHANGED world
  BY <1>1, <1>2, <1>3, <1>4 DEF faults, TypeOK
<1>5. CASE /\ UNCHANGED <<cvars, lost, crashes>> /\ Goto(raised) /\ UNCHANGED world
           /\ doubtful' = doubtful \/ doubtful' = Doubted
  BY <1>1, <1>2, <1>5 DEF ExecutorInv, SystemTypeOK, cvars
<1>6. CASE /\ LoseCall /\ (Patch(job, s, p, none) \/ UNCHANGED cvars)
           /\ Goto(raised) /\ doubtful' = (IF s = "running" THEN doubtful ELSE Doubted)
           /\ crashes' = crashes /\ UNCHANGED world
  <2>1. lost' \in 0..MaxLost
    <3>1. lost < MaxLost /\ lost' = lost + 1
      BY <1>6 DEF LoseCall
    <3>2. lost \in Nat
      BY <1>2
    <3> QED BY <1>2, <3>1, <3>2
  <2>2. CASE Patch(job, s, p, none)
    BY <1>1, <1>2, <1>3, <1>6, <2>1, <2>2 DEF TypeOK
  <2>3. CASE UNCHANGED cvars
    BY <1>1, <1>2, <1>6, <2>1, <2>3 DEF cvars
  <2> QED BY <1>6, <2>2, <2>3
<1> QED BY <1>4, <1>5, <1>6 DEF Report

\* Of the jobs there are, clients and time change nothing but that bindings are cancelled.
JobsKept ==
  \A r \in Request : jobStatus[r] # "absent" =>
    /\ jobAction'[r] = jobAction[r] /\ jobInst'[r] = jobInst[r]
    /\ jobStatus'[r] = jobStatus[r] \/ (jobAction[r] = "wechat_bind" /\ jobStatus'[r] = "cancelled")

LEMMA ClientEffect ==
  ASSUME ControlInv, Client
  PROVE  /\ Next /\ JobsKept
         /\ \A r \in Request : jobStatus'[r] = "absent" \/ jobStatus'[r] = "queued" \/ jobStatus'[r] = jobStatus[r]
                               \/ (jobAction[r] = "wechat_bind" /\ jobStatus'[r] = "cancelled")
         /\ UNCHANGED <<control, world, faults>>
<1> USE DEF ControlInv, TypeOK, JobsKept
<1>1. Next /\ UNCHANGED <<control, world, faults>>
  BY DEF Client, Next
<1>2. ASSUME NEW a, NEW target, NEW rank, DOMAIN target \subseteq Unused, Enqueue(a, target, rank)
      PROVE  JobsKept /\ \A r \in Request : jobStatus'[r] = "absent" \/ jobStatus'[r] = "queued" \/ jobStatus'[r] = jobStatus[r]
  BY <1>2 DEF Enqueue, Unused
<1>3. ASSUME NEW r \in Request, NEW i, NEW a, CreateJob(r, i, a)
      PROVE  JobsKept /\ \A q \in Request : jobStatus'[q] = "absent" \/ jobStatus'[q] = "queued" \/ jobStatus'[q] = jobStatus[q]
  <2>1. DOMAIN [x \in {r} |-> i] \subseteq Unused /\ Enqueue(a, [x \in {r} |-> i], [x \in {r} |-> 1])
    BY <1>3 DEF CreateJob
  <2> QED BY <2>1, <1>2
<1>4. ASSUME NEW r \in Request, Cancel(r)
      PROVE  JobsKept /\ \A q \in Request : jobStatus'[q] = jobStatus[q] \/ (jobAction[q] = "wechat_bind" /\ jobStatus'[q] = "cancelled")
  BY <1>4 DEF Cancel
<1>5. ASSUME NEW target \in Rows(Instance), NEW rank,
             CreateInstance(target, rank) \/ CreateInstances(target, rank) \/ \E a \in Action : CreateBatch(a, target, rank)
      PROVE  JobsKept /\ \A r \in Request : jobStatus'[r] = "absent" \/ jobStatus'[r] = "queued" \/ jobStatus'[r] = jobStatus[r]
  <2>1. DOMAIN target \subseteq Unused
    BY RowsFacts
  <2> QED BY <1>2, <1>5, <2>1 DEF CreateInstance, CreateInstances, CreateBatch
<1> HIDE DEF ControlInv, TypeOK, JobsKept
<1> QED BY <1>1, <1>3, <1>4, <1>5 DEF Client

\* Whoever else takes a step, the executor knows as much as before.
LEMMA KnowsStill ==
  ASSUME ExecutorInv, JobsKept, UNCHANGED control
  PROVE  Executor' /\ job' \in Request \cup {NoRequest}
<1>1. /\ pc' = pc /\ job' = job /\ seen' = seen /\ attempt' = attempt
      /\ Busy => /\ jobStatus[job] # "absent" /\ job \in Request
  BY DEF control, ExecutorInv, HasJob, JobClaimed, Terminal
<1>2. Busy => /\ jobAction'[job] = jobAction[job] /\ jobInst'[job] = jobInst[job]
              /\ jobStatus'[job] = jobStatus[job] \/ (jobAction[job] = "wechat_bind" /\ jobStatus'[job] = "cancelled")
  BY <1>1 DEF JobsKept
<1>3. HasJob' /\ JobClaimed' /\ JobRuns' /\ JobPlaced'
  BY <1>1, <1>2 DEF ExecutorInv, HasJob, JobClaimed, JobRuns, JobPlaced, Busy, inst, action, Terminal
<1>4. RightAction'
  BY <1>1, <1>2 DEF ExecutorInv, RightAction, At, Busy, inst, action, OpenClaw
<1> QED BY <1>1, <1>3, <1>4 DEF Executor, ExecutorInv, SystemTypeOK

\* What is there and what is doubtful, by type.
WorldOK ==
  /\ runtime \in [Instance -> Runtime]
  /\ husks \subseteq Instance /\ doubtful \subseteq Instance
  /\ binding \subseteq Request
  /\ executions \in [Request -> 0..2]
  /\ lost \in 0..MaxLost /\ crashes \in 0..MaxCrashes

LEMMA Together ==
  ASSUME ExecutorInv, [Next]_cvars, Executor', job' \in Request \cup {NoRequest}, WorldOK'
  PROVE  ExecutorInv'
<1>1. ControlInv'
  BY NextInv DEF ExecutorInv
<1>2. SystemTypeOK'
  BY <1>1 DEF SystemTypeOK, WorldOK, Executor, ControlInv
<1> QED BY <1>1, <1>2 DEF ExecutorInv, Executor

\* Where the executor works on an instance there is one.
LEMMA AtWork ==
  ASSUME ExecutorInv, Busy, pc # "error"
  PROVE  /\ job \in Request /\ inst \in Instance /\ action \in Actions \cup {"none"}
         /\ Described(inst).runtime \in Runtime
BY NothingIsPurged DEF ExecutorInv, JobPlaced, HasJob, SystemTypeOK, TypeOK, inst, action, Described

LEMMA OperateEffect ==
  ASSUME ExecutorInv, At("working"), NEW ends, Operate(ends),
         \A e \in ends : e.runtime \in Runtime
  PROVE  /\ runtime' \in [Instance -> Runtime] /\ husks' \subseteq Instance
         /\ executions' \in [Request -> 0..2] /\ binding' = binding
         /\ \A r \in Request : executions'[r] = executions[r] \/ (r = job /\ action \in Manual)
         /\ executions[job] = 0 => executions'[job] < 2
         /\ \A i \in Instance \ {inst} : runtime'[i] = runtime[i] /\ (i \in husks' <=> i \in husks)
<1>1. Busy /\ pc # "error"
  BY DEF At, Busy
<1>2. job \in Request /\ inst \in Instance /\ SystemTypeOK /\ executions \in [Request -> 0..2]
  BY <1>1, AtWork DEF ExecutorInv, SystemTypeOK
<1>3. /\ Left(ends) /\ binding' = binding
      /\ executions' = IF action \in Manual
                       THEN [executions EXCEPT ![job] = IF @ = 0 THEN 1 ELSE 2] ELSE executions
  BY DEF Operate
<1>4. /\ executions' \in [Request -> 0..2]
      /\ \A r \in Request : executions'[r] = executions[r] \/ (r = job /\ action \in Manual)
      /\ executions[job] = 0 => executions'[job] < 2
  BY <1>2, <1>3
<1> QED BY <1>1, <1>2, <1>3, <1>4, LeftEffect

------------------------------------------------------------------------------
(* The steps *)

LEMMA PollStep ==
  ASSUME ExecutorInv, Poll
  PROVE  [Next]_cvars /\ Executor' /\ job' \in Request \cup {NoRequest} /\ WorldOK'
<1>1. PICK c \in Request \cup {NoRequest} :
        /\ Claim(c)
        /\ \/ /\ c # NoRequest
              /\ pc' \in FirstSteps(c) /\ job' = c /\ seen' = SeenAs(jobInst[c])
              /\ attempt' = IF pc' = "attempt" THEN 1 ELSE 0
              /\ UNCHANGED lost
           \/ c = NoRequest /\ UNCHANGED <<control, lost>>
           \/ c # NoRequest /\ LoseCall /\ UNCHANGED control
  BY DEF Poll
<1>2. /\ pc = "idle" /\ ~Busy /\ job = NoRequest /\ UNCHANGED <<world, doubtful, crashes>>
      /\ job \notin Request
  BY NothingIsPurged DEF Poll, At, Busy, ExecutorInv, SystemTypeOK, HasJob
<1>3. [Next]_cvars
  BY <1>1 DEF Next
<1>4. lost' \in 0..MaxLost
  <2>1. lost \in 0..MaxLost /\ MaxLost \in Nat
    BY SystemAssumption DEF ExecutorInv, SystemTypeOK, SystemAssumption
  <2>2. lost' = lost \/ (lost < MaxLost /\ lost' = lost + 1)
    BY <1>1 DEF LoseCall
  <2> QED BY <2>1, <2>2
<1>5. WorldOK'
  BY <1>2, <1>4 DEF WorldOK, world, ExecutorInv, SystemTypeOK
<1>6. CASE UNCHANGED control
  <2>1. pc' = "idle" /\ job' = NoRequest /\ seen' = seen /\ attempt' = attempt
    BY <1>2, <1>6 DEF control
  <2> QED BY <1>2, <1>3, <1>5, <2>1 DEF Executor, ExecutorInv, SystemTypeOK, HasJob, JobClaimed, JobRuns, JobPlaced,
             RightAction, Busy, At
<1>7. CASE /\ c # NoRequest
           /\ pc' \in FirstSteps(c) /\ job' = c /\ seen' = SeenAs(jobInst[c])
           /\ attempt' = IF pc' = "attempt" THEN 1 ELSE 0
  <2>1. c \in Request /\ UNCHANGED <<jobAction, jobInst>> /\ jobStatus'[c] = "running" /\ Recovered[c] = "queued"
    BY <1>1, <1>7, ClaimEffect DEF ExecutorInv
  <2>2. jobInst[c] # NoInst
    BY <2>1 DEF Recovered
  <2>3. /\ pc' \in {"error", "accepted", "success", "attempt"}
        /\ pc' = "attempt" => jobAction[c] \in Lifecycle
    BY <1>7 DEF FirstSteps, Lifecycle
  <2>4. seen' \in {"live", "deleted", "restorable"}
    BY <1>7 DEF SeenAs
  <2>5. attempt' \in 0..MaxAttempts
    BY <1>7, SystemAssumption DEF SystemAssumption
  <2>6. Executor'
    BY <1>7, <2>1, <2>2, <2>3, <2>4, <2>5 DEF Executor, HasJob, JobClaimed, JobRuns, JobPlaced, RightAction,
       Busy, At, inst, action, Step
  <2> QED BY <1>3, <1>5, <1>7, <2>1, <2>6
<1> QED BY <1>1, <1>6, <1>7

LEMMA AnnounceStep ==
  ASSUME ExecutorInv, Announce
  PROVE  [Next]_cvars /\ Executor' /\ job' \in Request \cup {NoRequest} /\ WorldOK'
<1>1. /\ Busy /\ pc \in {"accepted", "attempt"} /\ job \in Request /\ inst \in Instance
      /\ jobStatus[job] \in {"running"} \cup Terminal
      /\ jobStatus[job] = "running" \/ (action = "wechat_bind" /\ jobStatus[job] = "cancelled")
  BY AtWork DEF Announce, At, Busy, ExecutorInv, JobClaimed, JobRuns
<1>2. PICK next \in {AfterAccepted, "working"} :
        /\ Report("running", NoPort, FALSE, next, "error")
        /\ next = AfterAccepted \/ (At("attempt") /\ next = "working")
  BY DEF Announce
<1>3. /\ [Next]_cvars /\ jobAction' = jobAction /\ world' = world /\ jobInst' = jobInst
      /\ jobStatus'[job] = jobStatus[job] \/ (jobStatus[job] = "running" /\ jobStatus'[job] = "running")
      /\ (Goto(next) /\ jobStatus[job] = "running") \/ Goto("error")
      /\ doubtful' \subseteq Instance /\ lost' \in 0..MaxLost /\ crashes' = crashes
  BY <1>1, <1>2, ReportEffect DEF PurgeDone
<1>4. /\ next \in {"failure", "error", "bind", "working"}
      /\ next = "bind" => action = "wechat_bind"
      /\ next = "working" => action # "wechat_bind"
  BY <1>2 DEF AfterAccepted, ExecutorInv, RightAction, Lifecycle
<1>5. WorldOK'
  BY <1>3 DEF WorldOK, world, ExecutorInv, SystemTypeOK
<1>6. Executor' /\ job' \in Request \cup {NoRequest}
  <2>1. CASE Goto("error")
    BY <1>1, <1>3, <2>1, GoesOn DEF Step
  <2>2. CASE Goto(next) /\ jobStatus[job] = "running"
    <3>1. next \in Step /\ jobInst'[job] # NoInst
      BY <1>1, <1>3, <1>4, NothingIsPurged DEF Step, inst
    <3> QED BY <1>1, <1>3, <1>4, <2>2, <3>1, GoesOn
  <2> QED BY <1>3, <2>1, <2>2
<1> QED BY <1>3, <1>5, <1>6

\* The steps that leave the job as it is, and go on with next.
LEMMA QuietlyOn ==
  ASSUME ExecutorInv, Busy, UNCHANGED cvars, NEW next \in Step, Goto(next),
         pc \in {"undo", "failure", "error"} => next \in {"undo", "failure", "error", "idle", "down"},
         pc = "error" => next \in {"error", "idle", "down"},
         next = "attempt" => action \in Lifecycle /\ attempt < MaxAttempts,
         next = "working" => action # "wechat_bind",
         next = "script"  => action \in Retention /\ OpenClaw(inst),
         next \in {"ingress", "undo"} => action = "create",
         next \in {"bind", "bound", "unbind"} => action = "wechat_bind"
  PROVE  [Next]_cvars /\ Executor' /\ job' \in Request \cup {NoRequest}
<1>1. jobAction' = jobAction /\ jobStatus' = jobStatus /\ jobInst' = jobInst
  BY DEF cvars
<1>2. /\ jobStatus[job] \in {"running"} \cup Terminal
      /\ next \notin {"undo", "failure", "error", "idle", "down"} =>
           jobStatus[job] = "running" \/ (action = "wechat_bind" /\ jobStatus[job] = "cancelled")
      /\ next \notin {"error", "idle", "down"} => inst # NoInst
  BY DEF ExecutorInv, JobClaimed, JobRuns, JobPlaced
<1> QED BY <1>1, <1>2, GoesOn DEF inst

LEMMA WorkStep ==
  ASSUME ExecutorInv, WorkSucceeds \/ WorkFails
  PROVE  [Next]_cvars /\ Executor' /\ job' \in Request \cup {NoRequest} /\ WorldOK'
<1> DEFINE d == Described(inst)
<1> DEFINE ends == GoodEnds(d, action) \cup SlackEnds(d, action) \cup BadEnds(d, action)
<1>1. /\ Busy /\ At("working") /\ pc = "working" /\ action # "wechat_bind" /\ UNCHANGED <<cvars, lost, crashes>>
      /\ Doubted \subseteq Instance /\ doubtful \subseteq Instance
      /\ d.runtime \in Runtime
  BY AtWork DEF WorkSucceeds, WorkFails, Busy, At, ExecutorInv, RightAction, Doubted, SystemTypeOK
<1>2. PICK E \in SUBSET ends : Operate(E)
  BY DEF WorkSucceeds, WorkFails
<1>3. WorldOK'
  <2>1. doubtful' \subseteq Instance
    BY <1>1 DEF WorkSucceeds, WorkFails
  <2>2. \A e \in E : e.runtime \in Runtime
    BY <1>1, <1>2, OperationsLeaveRuntimes
  <2> QED BY <1>1, <1>2, <2>1, <2>2, OperateEffect DEF WorldOK, ExecutorInv, SystemTypeOK
<1>4. PICK next \in Step : /\ Goto(next)
                           /\ next \in {"attempt", "failure", "error", "ingress", "script", "client", "success"}
                           /\ next = "attempt" => TriesAgain
                           /\ next = "ingress" => action = "create"
                           /\ next = "script" => action \in Retention /\ OpenClaw(inst)
  <2>1. CASE WorkSucceeds
    <3>1. /\ AfterWork \in {"ingress", "script", "client", "success"}
          /\ AfterWork = "ingress" => action = "create"
          /\ AfterWork = "script" => action \in Retention /\ OpenClaw(inst)
      BY DEF AfterWork
    <3> QED BY <2>1, <3>1 DEF WorkSucceeds, Step
  <2>2. CASE WorkFails
    BY <2>2 DEF WorkFails, Step
  <2> QED BY <2>1, <2>2
<1>5. [Next]_cvars /\ Executor' /\ job' \in Request \cup {NoRequest}
  <2>1. TriesAgain => action \in Lifecycle /\ attempt < MaxAttempts
    BY DEF TriesAgain, Lifecycle
  <2> QED BY <1>1, <1>4, <2>1, QuietlyOn
<1> QED BY <1>3, <1>5

LEMMA ScriptStep ==
  ASSUME ExecutorInv, ScriptWrites
  PROVE  [Next]_cvars /\ Executor' /\ job' \in Request \cup {NoRequest} /\ WorldOK'
<1>1. Busy /\ pc = "script" /\ job \in Request /\ inst # NoInst
  BY AtWork, NothingIsPurged DEF ScriptWrites, At, Busy
<1>2. WorldOK'
  BY DEF ScriptWrites, WorldOK, world, faults, ExecutorInv, SystemTypeOK
<1>3. [Next]_cvars /\ jobStatus' = jobStatus /\ jobAction' = jobAction /\ jobInst' = jobInst
  <2>1. CASE UNCHANGED cvars
    BY <2>1 DEF cvars
  <2>2. ASSUME NEW whole \in BOOLEAN, ScriptSetsStatus(job, whole)
        PROVE  Next /\ jobStatus' = jobStatus /\ jobAction' = jobAction /\ jobInst' = jobInst
    BY <1>1, <2>2 DEF Next, ScriptSetsStatus, jobVars
  <2>3. \A whole \in {FALSE, runtime[inst] = "archived"} : whole \in BOOLEAN
    OBVIOUS
  <2> QED BY <2>1, <2>2, <2>3 DEF ScriptWrites
<1>4. /\ jobStatus[job] \in {"running"} \cup Terminal
      /\ jobStatus[job] = "running" \/ (action = "wechat_bind" /\ jobStatus[job] = "cancelled")
      /\ Goto("success")
  BY <1>1 DEF ScriptWrites, ExecutorInv, JobClaimed, JobRuns
<1>5. Executor' /\ job' \in Request \cup {NoRequest}
  BY <1>1, <1>3, <1>4, GoesOn DEF Step, inst
<1> QED BY <1>2, <1>3, <1>5

LEMMA RevokeStep ==
  ASSUME ExecutorInv, RevokeClient
  PROVE  [Next]_cvars /\ Executor' /\ job' \in Request \cup {NoRequest} /\ WorldOK'
<1>1. /\ Busy /\ pc \in {"client", "undo"} /\ UNCHANGED <<cvars, world>>
      /\ doubtful \subseteq Instance /\ Doubted \subseteq Instance
  BY AtWork DEF RevokeClient, Busy, ExecutorInv, SystemTypeOK, Doubted
<1>2. PICK next \in {"success", "error"} : Goto(next) /\ (next = "success" => pc = "client")
  BY DEF RevokeClient, At
<1>3. WorldOK'
  <2>1. lost' \in 0..MaxLost /\ crashes' = crashes /\ doubtful' \subseteq Instance
    <3>1. lost \in 0..MaxLost /\ MaxLost \in Nat
      BY SystemAssumption DEF ExecutorInv, SystemTypeOK, SystemAssumption
    <3>2. /\ lost' = lost \/ (lost < MaxLost /\ lost' = lost + 1)
          /\ doubtful' = doubtful \/ doubtful' = Doubted
          /\ crashes' = crashes
      BY DEF RevokeClient, LoseCall, faults
    <3> QED BY <1>1, <3>1, <3>2
  <2> QED BY <1>1, <2>1 DEF WorldOK, world, ExecutorInv, SystemTypeOK
<1>4. [Next]_cvars /\ Executor' /\ job' \in Request \cup {NoRequest}
  BY <1>1, <1>2, QuietlyOn DEF Step
<1> QED BY <1>3, <1>4

LEMMA IngressStep ==
  ASSUME ExecutorInv, PublishIngress
  PROVE  [Next]_cvars /\ Executor' /\ job' \in Request \cup {NoRequest} /\ WorldOK'
<1>1. /\ Busy /\ pc = "ingress" /\ UNCHANGED <<cvars, world, lost, crashes>> /\ action = "create"
      /\ doubtful \subseteq Instance /\ Doubted \subseteq Instance
  BY AtWork DEF PublishIngress, Busy, At, ExecutorInv, SystemTypeOK, Doubted, RightAction
<1>2. PICK next \in {"success", "undo", "error"} : Goto(next)
  BY DEF PublishIngress
<1>3. WorldOK'
  BY <1>1 DEF PublishIngress, WorldOK, world, ExecutorInv, SystemTypeOK
<1>4. [Next]_cvars /\ Executor' /\ job' \in Request \cup {NoRequest}
  BY <1>1, <1>2, QuietlyOn DEF Step
<1> QED BY <1>3, <1>4

LEMMA UndoStep ==
  ASSUME ExecutorInv, Undo
  PROVE  [Next]_cvars /\ Executor' /\ job' \in Request \cup {NoRequest} /\ WorldOK'
<1> DEFINE d == Described(inst)
<1> DEFINE ends == GoodEnds(d, "delete") \cup SlackEnds(d, "delete") \cup BadEnds(d, "delete")
<1>1. /\ Busy /\ pc = "undo" /\ UNCHANGED <<cvars, binding, executions, lost, crashes>>
      /\ doubtful \subseteq Instance /\ Doubted \subseteq Instance /\ inst \in Instance
      /\ d.runtime \in Runtime
  BY AtWork DEF Undo, Busy, At, ExecutorInv, SystemTypeOK, Doubted
<1>2. PICK E \in SUBSET ends : Left(E)
  BY DEF Undo
<1>3. \A e \in E : e.runtime \in Runtime
  BY <1>1, <1>2, OperationsLeaveRuntimes
<1>4. doubtful' \subseteq Instance
  BY <1>1 DEF Undo
<1>5. runtime' \in [Instance -> Runtime] /\ husks' \subseteq Instance
  BY <1>1, <1>2, <1>3, LeftEffect DEF ExecutorInv
<1>6. WorldOK'
  BY <1>1, <1>4, <1>5 DEF WorldOK, ExecutorInv, SystemTypeOK
<1>7. PICK next \in {"failure", "error"} : Goto(next)
  BY DEF Undo
<1>8. [Next]_cvars /\ Executor' /\ job' \in Request \cup {NoRequest}
  BY <1>1, <1>7, QuietlyOn DEF Step
<1> QED BY <1>6, <1>8

LEMMA EndReportStep ==
  ASSUME ExecutorInv, ReportSuccess \/ ReportFailure \/ ReportError
  PROVE  [Next]_cvars /\ Executor' /\ job' \in Request \cup {NoRequest} /\ WorldOK'
<1>1. /\ Busy /\ pc \in {"success", "failure", "error"} /\ job \in Request
      /\ jobStatus[job] \in {"running"} \cup Terminal
      /\ pc # "error" => inst # NoInst
  BY DEF ReportSuccess, ReportFailure, ReportError, At, Busy, ExecutorInv, HasJob, JobClaimed, JobPlaced
<1>2. Notes \subseteq BOOLEAN
  BY DEF Notes
<1>3. PICK s \in {"succeeded", "failed"}, p \in Port \cup {NoPort}, none \in BOOLEAN, raised \in {"undo", "error", "idle"} :
        /\ Report(s, p, none, "idle", raised)
        /\ raised = "undo" => pc = "success" /\ action = "create"
  <2>1. CASE ReportSuccess
    <3>1. PICK p \in Port \cup {NoPort}, none \in Notes :
                 Report("succeeded", p, none, "idle", IF action = "create" THEN "undo" ELSE "error")
      BY <2>1 DEF ReportSuccess
    <3>2. pc = "success" /\ none \in BOOLEAN
      BY <1>2, <2>1 DEF ReportSuccess, At
    <3>3. CASE action = "create"
      BY <3>1, <3>2, <3>3
    <3>4. CASE action # "create"
      BY <3>1, <3>2, <3>4
    <3> QED BY <3>3, <3>4
  <2>2. CASE ReportFailure
    BY <1>2, <2>2 DEF ReportFailure
  <2>3. CASE ReportError
    BY <2>3 DEF ReportError
  <2> QED BY <2>1, <2>2, <2>3
<1>4. /\ [Next]_cvars /\ jobAction' = jobAction /\ world' = world
      /\ jobStatus'[job] = jobStatus[job] \/ (jobStatus[job] = "running" /\ jobStatus'[job] = s)
      /\ \/ jobInst' = jobInst
         \/ PurgeDone(job, s)
      /\ Goto("idle") \/ Goto(raised)
      /\ doubtful' \subseteq Instance /\ lost' \in 0..MaxLost /\ crashes' = crashes
  BY <1>1, <1>3, ReportEffect
<1>5. WorldOK'
  BY <1>4 DEF WorldOK, world, ExecutorInv, SystemTypeOK
<1>6. jobStatus'[job] \in {"running"} \cup Terminal
  BY <1>1, <1>3, <1>4 DEF Terminal
<1>7. Executor' /\ job' \in Request \cup {NoRequest}
  <2>1. CASE Goto("idle")
    BY <1>1, <1>4, <1>6, <2>1, GoesOn DEF Step
  <2>2. CASE raised = "error" /\ Goto("error")
    BY <1>1, <1>4, <1>6, <2>2, GoesOn DEF Step
  <2>3. CASE raised = "undo" /\ Goto("undo")
    <3>1. action = "create" /\ inst # NoInst
      BY <1>1, <1>3, <2>3
    <3>2. jobInst' = jobInst
      BY <1>4, <3>1 DEF PurgeDone, action
    <3> QED BY <1>1, <1>4, <1>6, <2>3, <3>1, <3>2, GoesOn DEF Step, inst
  <2> QED BY <1>3, <1>4, <2>1, <2>2, <2>3
<1> QED BY <1>4, <1>5, <1>7

LEMMA BindStep ==
  ASSUME ExecutorInv, BindStarts \/ BindPolls \/ BindExits \/ Unbind
  PROVE  [Next]_cvars /\ Executor' /\ job' \in Request \cup {NoRequest} /\ WorldOK'
<1>1. /\ Busy /\ pc \in {"bind", "bound", "unbind"} /\ UNCHANGED <<cvars, runtime, husks, executions, lost, crashes>>
      /\ action = "wechat_bind" /\ job \in Request
      /\ doubtful \subseteq Instance /\ Doubted \subseteq Instance
  BY AtWork DEF BindStarts, BindPolls, BindExits, Unbind, world, faults, Busy, At, ExecutorInv, RightAction,
     SystemTypeOK, Doubted
<1>2. binding' \subseteq Request /\ doubtful' \subseteq Instance
  BY <1>1 DEF BindStarts, BindPolls, BindExits, Unbind, world, faults, ExecutorInv, SystemTypeOK
<1>3. WorldOK'
  BY <1>1, <1>2 DEF WorldOK, ExecutorInv, SystemTypeOK
<1>4. PICK next \in {"bound", "unbind", "idle", "success", "failure", "error"} : Goto(next)
  BY DEF BindStarts, BindPolls, BindExits, Unbind
<1>5. [Next]_cvars /\ Executor' /\ job' \in Request \cup {NoRequest}
  BY <1>1, <1>4, QuietlyOn DEF Step
<1> QED BY <1>3, <1>5

LEMMA SpeakStep ==
  ASSUME ExecutorInv, BindSpeaks
  PROVE  [Next]_cvars /\ Executor' /\ job' \in Request \cup {NoRequest} /\ WorldOK'
<1>1. /\ Busy /\ pc = "bound" /\ job \in Request /\ inst # NoInst /\ action = "wechat_bind"
      /\ jobStatus[job] = "running" \/ jobStatus[job] = "cancelled"
      /\ Report("running", NoPort, FALSE, "bound", "unbind")
  BY AtWork, NothingIsPurged DEF BindSpeaks, At, Busy, ExecutorInv, JobRuns, RightAction
<1>2. /\ [Next]_cvars /\ jobAction' = jobAction /\ world' = world /\ jobInst' = jobInst
      /\ jobStatus'[job] = jobStatus[job] \/ jobStatus'[job] = "running"
      /\ Goto("bound") \/ Goto("unbind")
      /\ doubtful' \subseteq Instance /\ lost' \in 0..MaxLost /\ crashes' = crashes
  BY <1>1, ReportEffect DEF PurgeDone
<1>3. WorldOK'
  BY <1>2 DEF WorldOK, world, ExecutorInv, SystemTypeOK
<1>4. Executor' /\ job' \in Request \cup {NoRequest}
  BY <1>1, <1>2, GoesOn DEF Step, Terminal, inst
<1> QED BY <1>2, <1>3, <1>4

LEMMA CrashStep ==
  ASSUME ExecutorInv, Crash
  PROVE  [Next]_cvars /\ Executor' /\ job' \in Request \cup {NoRequest} /\ WorldOK'
<1>1. /\ Busy /\ UNCHANGED <<cvars, lost>> /\ Goto("down") /\ doubtful' = Doubted
      /\ doubtful \subseteq Instance /\ crashes \in 0..MaxCrashes /\ crashes < MaxCrashes /\ crashes' = crashes + 1
  BY DEF Crash, Busy, ExecutorInv, SystemTypeOK
<1>2. Doubted \subseteq Instance
  BY <1>1 DEF Doubted, ExecutorInv, SystemTypeOK, TypeOK, HasJob, inst
<1>3. crashes' \in 0..MaxCrashes
  BY <1>1, SystemAssumption DEF SystemAssumption
<1>4. CASE At("working")
  <2>1. \A e \in CutEnds(Described(inst), action) : e.runtime \in Runtime
    BY <1>1, <1>4, AtWork, OperationsLeaveRuntimes DEF At
  <2>2. WorldOK'
    BY <1>1, <1>2, <1>3, <1>4, <2>1, OperateEffect DEF Crash, WorldOK, ExecutorInv, SystemTypeOK
  <2> QED BY <1>1, <2>2, QuietlyOn DEF Step
<1>5. CASE ~At("working")
  <2>1. WorldOK'
    BY <1>1, <1>2, <1>3, <1>5 DEF Crash, WorldOK, world, ExecutorInv, SystemTypeOK
  <2> QED BY <1>1, <2>1, QuietlyOn DEF Step
<1> QED BY <1>4, <1>5

LEMMA RestartStep ==
  ASSUME ExecutorInv, Restart
  PROVE  [Next]_cvars /\ Executor' /\ job' \in Request \cup {NoRequest} /\ WorldOK'
<1>1. pc' = "idle" /\ job' = NoRequest /\ seen' = "live" /\ attempt' = 0 /\ NoRequest \notin Request
  BY NothingIsPurged DEF Restart, Goto
<1>2. WorldOK'
  BY DEF Restart, WorldOK, world, faults, ExecutorInv, SystemTypeOK
<1>3. 0 \in 0..MaxAttempts
  BY SystemAssumption DEF SystemAssumption
<1>4. Executor'
  BY <1>1, <1>3 DEF Executor, HasJob, JobClaimed, JobRuns, JobPlaced, RightAction, Busy, At, Step
<1> QED BY <1>1, <1>2, <1>4 DEF Restart

LEMMA OtherStep ==
  ASSUME ExecutorInv,
         Client \/ (\E r \in Request : Lapse(r) \/ BindExpires(r)) \/ UNCHANGED svars
  PROVE  [Next]_cvars /\ Executor' /\ job' \in Request \cup {NoRequest} /\ WorldOK'
<1>1. [Next]_cvars /\ JobsKept
  <2>1. CASE Client
    BY <2>1, ClientEffect DEF ExecutorInv
  <2>2. ASSUME NEW r \in Request, Lapse(r) PROVE Next /\ JobsKept
    BY <2>2 DEF Lapse, HeartbeatLapses, Next, JobsKept
  <2>3. CASE UNCHANGED cvars
    BY <2>3 DEF JobsKept, cvars
  <2> QED BY <2>1, <2>2, <2>3 DEF BindExpires, svars
<1>2. UNCHANGED control /\ UNCHANGED faults /\ UNCHANGED <<runtime, husks, executions>> /\ binding' \subseteq binding
  BY ClientEffect DEF ExecutorInv, Lapse, BindExpires, svars, world
<1>3. WorldOK'
  BY <1>2 DEF WorldOK, faults, ExecutorInv, SystemTypeOK
<1> QED BY <1>1, <1>2, <1>3, KnowsStill

LEMMA SystemStep ==
  ASSUME ExecutorInv, [SystemNext]_svars
  PROVE  [Next]_cvars /\ ExecutorInv'
<1>1. [Next]_cvars /\ Executor' /\ job' \in Request \cup {NoRequest} /\ WorldOK'
  BY PollStep, AnnounceStep, WorkStep, ScriptStep, RevokeStep, IngressStep, UndoStep, EndReportStep,
     BindStep, SpeakStep, CrashStep, RestartStep, OtherStep DEF SystemNext, RunOnce
<1> QED BY <1>1, Together

LEMMA SystemStarts == SystemInit => ExecutorInv
<1> SUFFICES ASSUME SystemInit PROVE ExecutorInv
  OBVIOUS
<1>1. ControlInv /\ NoRequest \notin Request
  BY InitInv, NothingIsPurged DEF SystemInit
<1>2. SystemTypeOK
  <2>1. 0 \in 0..2 /\ 0 \in 0..MaxAttempts /\ 0 \in 0..MaxLost /\ 0 \in 0..MaxCrashes
    BY SystemAssumption DEF SystemAssumption
  <2>2. runtime \in [Instance -> Runtime]
    BY DEF SystemInit, Runtime, Deployed
  <2>3. executions \in [Request -> 0..2]
    BY <2>1 DEF SystemInit
  <2> QED BY <1>1, <2>1, <2>2, <2>3 DEF SystemInit, SystemTypeOK, ControlInv, Step
<1>3. HasJob /\ JobClaimed /\ JobRuns /\ JobPlaced /\ RightAction
  BY <1>1 DEF SystemInit, HasJob, JobClaimed, JobRuns, JobPlaced, RightAction, Busy, At
<1> QED BY <1>1, <1>2, <1>3 DEF ExecutorInv

------------------------------------------------------------------------------
(* The theorems *)

\* What the executor knows of its job is true whatever is lost, cancelled or cut off.
THEOREM ExecutorKnows == System => []ExecutorInv
BY SystemStarts, SystemStep, PTL DEF System

\* Executor, host and control service stay in their types.
THEOREM SystemTypeCorrect == System => []SystemTypeOK
<1>1. ExecutorInv => SystemTypeOK
  BY DEF ExecutorInv
<1> QED BY <1>1, ExecutorKnows, PTL

\* Control with this executor is Control with an executor that may report anything
\* about the job that runs.
THEOREM SystemImplementsControl == System => Spec
<1>1. SystemInit => Init
  BY DEF SystemInit
<1>2. ExecutorInv /\ [SystemNext]_svars => [Next]_cvars
  BY SystemStep
<1> QED BY <1>1, <1>2, ExecutorKnows, PTL DEF System, Spec

\* An adapter is set to work on a job only while Control has it running, and no
\* other job runs meanwhile.
THEOREM WorksOnItsJob == System => []WorksOnRunningJob
<1>1. ExecutorInv => WorksOnRunningJob
  <2> SUFFICES ASSUME ExecutorInv, At("working") PROVE WorksOnRunningJob
    BY DEF WorksOnRunningJob
  <2>1. Busy /\ action # "wechat_bind" /\ pc = "working"
    BY DEF At, Busy, ExecutorInv, RightAction
  <2>2. jobStatus[job] = "running" /\ job \in Request
    BY <2>1 DEF ExecutorInv, JobRuns, HasJob
  <2> QED BY <2>2 DEF WorksOnRunningJob, ExecutorInv, ControlInv, OneRuns
<1> QED BY <1>1, ExecutorKnows, PTL

\* Hence what is proved of the control service holds of the two.
THEOREM SystemKeepsControl ==
  System => [](ControlInv /\ BookingsBacked /\ SettingsFollowOrder /\ PairingAlone /\ AuditAgrees)
BY SystemImplementsControl, ControlSafe, BookingsStayBacked, SettingsStayInOrder, PairingStaysAlone,
   AuditStaysTrue, PTL

------------------------------------------------------------------------------
(* Once for each request, and one command in a container *)

Reports == Announce \/ BindSpeaks \/ ReportSuccess \/ ReportFailure \/ ReportError

\* All the reports have in common.
LEMMA ReportsEffect ==
  ASSUME ExecutorInv, Reports
  PROVE  /\ Busy /\ job \in Request /\ world' = world /\ doubtful \subseteq doubtful'
         /\ jobAction' = jobAction /\ \A r \in Request \ {job} : jobStatus'[r] = jobStatus[r]
         /\ jobStatus[job] \in {"running"} \cup Terminal /\ jobStatus'[job] \in {"running"} \cup Terminal
         /\ \A r \in Request : jobInst'[r] \in {jobInst[r], NoInst}
         /\ job' \in {job, NoRequest} /\ pc' \notin {"accepted", "attempt"}
         /\ pc' = "working" => pc \in {"accepted", "attempt"}
         /\ BindSpeaks => pc = "bound" /\ job' = job /\ pc' \in {"bound", "unbind"}
         /\ pc \notin {"bound", "unbind"} \/ BindSpeaks
<1>1. /\ Busy /\ job \in Request /\ jobStatus[job] \in {"running"} \cup Terminal
      /\ pc \notin {"bound", "unbind"} \/ BindSpeaks
  BY DEF Reports, Announce, BindSpeaks, ReportSuccess, ReportFailure, ReportError, At, Busy, ExecutorInv,
     HasJob, JobClaimed
<1>2. ASSUME NEW s \in {"running", "succeeded", "failed"}, NEW p \in Port \cup {NoPort},
             NEW none \in BOOLEAN, NEW next, NEW raised, Report(s, p, none, next, raised)
      PROVE  /\ world' = world /\ doubtful \subseteq doubtful' /\ jobAction' = jobAction
             /\ \A r \in Request \ {job} : jobStatus'[r] = jobStatus[r]
             /\ jobStatus'[job] \in {"running"} \cup Terminal
             /\ \A r \in Request : jobInst'[r] \in {jobInst[r], NoInst}
             /\ Goto(next) \/ Goto(raised)
  BY <1>1, <1>2, ReportEffect DEF Terminal
<1>3. PICK s \in {"running", "succeeded", "failed"}, p \in Port \cup {NoPort}, none \in BOOLEAN,
           next \in {"idle", "bound", "failure", "error", "bind", "working"}, raised \in {"error", "unbind", "undo", "idle"} :
        /\ Report(s, p, none, next, raised)
        /\ next = "working" => pc \in {"accepted", "attempt"}
        /\ BindSpeaks => pc = "bound" /\ next = "bound" /\ raised = "unbind"
  <2>1. CASE Announce
    <3>1. AfterAccepted \in {"failure", "error", "bind", "working"}
      BY DEF AfterAccepted
    <3> QED BY <2>1, <3>1 DEF Announce, At, BindSpeaks
  <2>2. CASE BindSpeaks
    BY <2>2 DEF BindSpeaks, At
  <2>3. CASE ReportSuccess
    <3>1. PICK p \in Port \cup {NoPort}, none \in Notes :
                 Report("succeeded", p, none, "idle", IF action = "create" THEN "undo" ELSE "error")
      BY <2>3 DEF ReportSuccess
    <3>2. none \in BOOLEAN /\ ~BindSpeaks
      BY <2>3 DEF Notes, ReportSuccess, BindSpeaks, At
    <3>3. CASE action = "create"
      BY <3>1, <3>2, <3>3
    <3>4. CASE action # "create"
      BY <3>1, <3>2, <3>4
    <3> QED BY <3>3, <3>4
  <2>4. CASE ReportFailure
    BY <2>4 DEF ReportFailure, Notes, BindSpeaks, At
  <2>5. CASE ReportError
    BY <2>5 DEF ReportError, BindSpeaks, At
  <2> QED BY <2>1, <2>2, <2>3, <2>4, <2>5 DEF Reports
<1>4. job' \in {job, NoRequest} /\ pc' \in {next, raised} /\ (pc' \in {"bound", "unbind"} => job' = job)
  BY <1>2, <1>3 DEF Goto
<1> QED BY <1>1, <1>2, <1>3, <1>4

\* What no step undoes: doubt, and what a job is; a create, delete or restore that
\* was claimed is never queued again.
LEMMA StepFacts ==
  ASSUME ExecutorInv, [SystemNext]_svars
  PROVE  /\ doubtful \subseteq doubtful'
         /\ \A r \in Request : jobStatus[r] # "absent" =>
              jobStatus'[r] # "absent" /\ jobAction'[r] = jobAction[r] /\ jobInst'[r] \in {jobInst[r], NoInst}
         /\ \A r \in Request : jobAction[r] \in Manual /\ jobStatus[r] \in {"running"} \cup Terminal =>
              jobStatus'[r] \in {"running"} \cup Terminal
<1>1. CASE Poll
  <2>1. PICK c \in Request \cup {NoRequest} : Claim(c)
    BY <1>1 DEF Poll
  <2>2. UNCHANGED <<jobAction, jobInst, doubtful>>
    BY <1>1, <2>1, ClaimEffect DEF Poll, ExecutorInv
  <2>3. /\ jobStatus' = [r \in Request |-> IF r = c THEN "running" ELSE Recovered[r]]
        /\ \A r \in Request : Recovered[r] = "absent" => jobStatus[r] = "absent"
        /\ \A r \in Request : jobAction[r] \in Manual /\ jobStatus[r] \in {"running"} \cup Terminal =>
              Recovered[r] \in {"running"} \cup Terminal
    BY <2>1 DEF Claim, Recovered, Terminal, Lapsed
  <2> QED BY <2>2, <2>3
<1>2. CASE Reports
  BY <1>2, ReportsEffect DEF Terminal
<1>3. CASE Client
  BY <1>3, ClientEffect DEF JobsKept, ExecutorInv, faults, Terminal
<1>4. CASE UNCHANGED <<jobStatus, jobAction, jobInst>> /\ doubtful \subseteq doubtful'
  BY <1>4
<1>5. CASE WorkSucceeds \/ WorkFails \/ ScriptWrites \/ RevokeClient \/ PublishIngress \/ Undo
           \/ BindStarts \/ BindPolls \/ BindExits \/ Unbind \/ Crash \/ Restart
  <2>1. UNCHANGED <<jobStatus, jobAction, jobInst>>
    BY <1>5 DEF cvars, WorkSucceeds, WorkFails, ScriptWrites, ScriptSetsStatus, jobVars, RevokeClient, PublishIngress,
       Undo, BindStarts, BindPolls, BindExits, Unbind, Crash, Restart
  <2>2. doubtful' \in {doubtful, Doubted} /\ doubtful \subseteq Doubted
    BY <1>5 DEF faults, WorkSucceeds, WorkFails, ScriptWrites, RevokeClient, PublishIngress,
       Undo, BindStarts, BindPolls, BindExits, Unbind, Crash, Restart, Doubted
  <2> QED BY <1>4, <2>1, <2>2
<1>6. CASE (\E r \in Request : Lapse(r) \/ BindExpires(r)) \/ UNCHANGED svars
  BY <1>6, <1>4 DEF Lapse, HeartbeatLapses, BindExpires, svars, cvars, faults
<1> QED BY <1>1, <1>2, <1>3, <1>5, <1>6 DEF SystemNext, RunOnce, Reports

LEMMA OnceStep ==
  ASSUME OnceInv, [SystemNext]_svars
  PROVE  Once'
<1> USE DEF OnceInv
<1>1. /\ executions \in [Request -> 0..2] /\ executions' \in [Request -> 0..2]
      /\ NoRequest \notin Request
  BY SystemStep, NothingIsPurged DEF ExecutorInv, SystemTypeOK
<1>2. \A r \in Request : executions[r] > 0 =>
        jobAction'[r] \in Manual /\ jobStatus'[r] \in {"running"} \cup Terminal
  <2> SUFFICES ASSUME NEW r \in Request, executions[r] > 0
               PROVE  jobAction'[r] \in Manual /\ jobStatus'[r] \in {"running"} \cup Terminal
    OBVIOUS
  <2>1. jobAction[r] \in Manual /\ jobStatus[r] \in {"running"} \cup Terminal /\ jobStatus[r] # "absent"
    BY DEF Once, Terminal
  <2> QED BY <2>1, StepFacts
\* it is enough that the executor does not take up a job that was worked on
<1>3. SUFFICES \/ /\ executions' = executions
                  /\ \A r \in Request : executions[r] > 0 /\ job' = r => pc' \notin {"accepted", "attempt", "working"}
               \/ At("working") /\ (WorkSucceeds \/ WorkFails \/ Crash)
  <2>1. CASE /\ executions' = executions
             /\ \A r \in Request : executions[r] > 0 /\ job' = r => pc' \notin {"accepted", "attempt", "working"}
    BY <1>2, <2>1 DEF Once
  <2>2. CASE At("working") /\ (WorkSucceeds \/ WorkFails \/ Crash)
    <3>1. PICK E : Operate(E) /\ \A e \in E : e.runtime \in Runtime
      <4>1. Busy /\ Described(inst).runtime \in Runtime
        BY <2>2, AtWork DEF At, Busy
      <4>2. PICK E : Operate(E) /\ E \subseteq GoodEnds(Described(inst), action) \cup SlackEnds(Described(inst), action)
                                   \cup BadEnds(Described(inst), action) \cup CutEnds(Described(inst), action)
        BY <2>2 DEF WorkSucceeds, WorkFails, Crash
      <4>3. \A e \in E : e.runtime \in Runtime
        BY <4>1, <4>2, OperationsLeaveRuntimes
      <4> QED BY <4>2, <4>3
    <3>2. /\ \A r \in Request : executions'[r] = executions[r] \/ (r = job /\ action \in Manual)
          /\ executions[job] = 0 => executions'[job] < 2
      BY <2>2, <3>1, OperateEffect
    <3>3. job \in Request /\ executions[job] = 0 /\ jobStatus[job] \in {"running"} \cup Terminal /\ jobStatus[job] # "absent"
      <4>1. Busy /\ pc = "working"
        BY <2>2 DEF At, Busy
      <4>2. job \in Request /\ jobStatus[job] \in {"running"} \cup Terminal
        BY <4>1 DEF ExecutorInv, HasJob, JobClaimed
      <4> QED BY <1>1, <4>1, <4>2 DEF Once, Terminal
    <3>4. action \in Manual => /\ jobAction'[job] \in Manual /\ jobStatus'[job] \in {"running"} \cup Terminal
                               /\ pc' \notin {"accepted", "attempt", "working"}
      <4>1. action \in Manual => jobAction'[job] \in Manual /\ jobStatus'[job] \in {"running"} \cup Terminal
        BY <3>3, StepFacts DEF action
      <4>2. action \in Manual => ~TriesAgain
        BY DEF Manual, Retention, TriesAgain
      <4>3. AfterWork \notin {"accepted", "attempt", "working"}
        BY DEF AfterWork
      <4> QED BY <2>2, <4>1, <4>2, <4>3 DEF WorkSucceeds, WorkFails, Crash, Goto
    <3>5. job' = job \/ job' = NoRequest
      BY <2>2 DEF WorkSucceeds, WorkFails, Crash, Goto
    <3>6. \A r \in Request : executions'[r] < 2
      BY <1>1, <3>2, <3>3 DEF Once
    <3>7. \A r \in Request : executions'[r] > 0 =>
            jobAction'[r] \in Manual /\ jobStatus'[r] \in {"running"} \cup Terminal
      BY <1>1, <1>2, <3>2, <3>4
    <3>8. \A r \in Request : executions'[r] > 0 /\ job' = r => pc' \notin {"accepted", "attempt", "working"}
      BY <1>1, <3>2, <3>3, <3>4, <3>5
    <3> QED BY <3>6, <3>7, <3>8 DEF Once
  <2> QED BY <1>3, <2>1, <2>2
<1>4. CASE Poll
  <2>1. executions' = executions /\ pc = "idle"
    BY <1>4 DEF Poll, world, At
  <2>2. PICK c \in Request \cup {NoRequest} : Claim(c) /\ (job' = c \/ pc' = pc)
    BY <1>4 DEF Poll, control
  <2>3. \A r \in Request : executions[r] > 0 => r # c
    <3>1. c \in Request => Recovered[c] = "queued"
      BY <2>2, ClaimEffect DEF ExecutorInv
    <3>2. \A r \in Request : executions[r] > 0 => Recovered[r] # "queued"
      BY DEF Once, Recovered, Lapsed, Terminal
    <3> QED BY <3>1, <3>2
  <2> QED BY <2>1, <2>2, <2>3
<1>5. CASE Reports
  <2>1. executions' = executions /\ job' \in {job, NoRequest} /\ pc' \notin {"accepted", "attempt"}
        /\ (pc' = "working" => pc \in {"accepted", "attempt"})
    BY <1>5, ReportsEffect DEF world
  <2> QED BY <1>1, <2>1 DEF Once
<1>6. CASE ScriptWrites \/ RevokeClient \/ PublishIngress \/ Undo \/ BindStarts \/ BindPolls \/ BindExits \/ Unbind \/ Restart
           \/ (Crash /\ ~At("working"))
  BY <1>6 DEF ScriptWrites, RevokeClient, PublishIngress, Undo, BindStarts, BindPolls, BindExits, Unbind, Restart, Crash,
     Goto, world
<1>7. CASE Client \/ (\E r \in Request : Lapse(r) \/ BindExpires(r)) \/ UNCHANGED svars
  <2>1. executions' = executions /\ job' = job /\ pc' = pc
    BY <1>7, ClientEffect DEF ExecutorInv, Lapse, BindExpires, svars, control, world
  <2> QED BY <2>1 DEF Once
<1>8. CASE WorkSucceeds \/ WorkFails
  BY <1>8 DEF WorkSucceeds, WorkFails
<1> QED BY <1>4, <1>5, <1>6, <1>7, <1>8 DEF SystemNext, RunOnce, Reports

\* A create, delete or restore is carried out at most once for a request: a job that
\* was claimed is never queued again, and within run_once it is not tried again.
THEOREM ManualRunsOnce == System => []ManualOnce
<1>1. SystemInit => OnceInv
  BY SystemStarts DEF SystemInit, OnceInv, Once
<1>2. OnceInv /\ [SystemNext]_svars => OnceInv'
  BY SystemStep, OnceStep DEF OnceInv
<1>3. OnceInv => ManualOnce
  BY DEF OnceInv, Once, ManualOnce
<1> QED BY <1>1, <1>2, <1>3, PTL DEF System

LEMMA BindingStep ==
  ASSUME BindingInv, [SystemNext]_svars
  PROVE  Watched'
<1> USE DEF BindingInv
<1> DEFINE Own(r) == r = job /\ pc \in {"bound", "unbind"}
<1>1. /\ binding \subseteq Request /\ NoRequest \notin Request /\ doubtful \subseteq doubtful'
      /\ \A r \in binding : /\ jobAction'[r] = "wechat_bind" /\ jobStatus'[r] # "absent"
                            /\ jobInst'[r] \in {jobInst[r], NoInst}
  BY StepFacts, NothingIsPurged DEF Watched, ExecutorInv, SystemTypeOK
\* a command stays as it is unless it was the executor's own
<1>2. ASSUME NEW r \in binding, ~Own(r) PROVE jobInst'[r] \in doubtful' \cup {NoInst}
  BY <1>1, <1>2 DEF Watched
<1>3. SUFFICES /\ \A r \in binding' \ binding : r \in Request /\ jobAction'[r] = "wechat_bind" /\ jobStatus'[r] # "absent" /\ Own(r)'
               /\ \A r \in binding \cap binding' : Own(r) => Own(r)' \/ jobInst'[r] \in doubtful' \cup {NoInst}
  BY <1>1, <1>2 DEF Watched
<1>4. CASE BindStarts
  <2>1. Busy /\ pc = "bind" /\ job \in Request /\ jobAction[job] = "wechat_bind" /\ jobStatus[job] # "absent"
    BY <1>4 DEF BindStarts, At, Busy, ExecutorInv, HasJob, JobClaimed, RightAction, action, Terminal
  <2>2. binding' = binding \cup {job} /\ pc' = "bound" /\ job' = job
    BY <1>4 DEF BindStarts, Goto
  <2>3. jobAction'[job] = "wechat_bind" /\ jobStatus'[job] # "absent"
    BY <2>1, StepFacts
  <2> QED BY <2>1, <2>2, <2>3
<1>5. CASE BindPolls
  BY <1>5 DEF BindPolls, Goto, world
<1>6. CASE BindExits
  BY <1>6 DEF BindExits
<1>7. CASE Unbind \/ Crash
  <2>1. CASE binding' \subseteq binding \ {job}
    BY <2>1
  <2>2. CASE binding' = binding /\ doubtful' = Doubted
    <3>1. \A r \in binding : Own(r) => jobInst[r] \in doubtful' \cup {NoInst}
      BY <2>2 DEF Doubted, inst
    <3> QED BY <1>1, <2>2, <3>1
  <2> QED BY <1>7, <2>1, <2>2 DEF Unbind, Crash, Operate, world
<1>8. CASE Reports
  BY <1>8, ReportsEffect DEF world
<1>9. CASE Client \/ (\E r \in Request : Lapse(r) \/ BindExpires(r)) \/ UNCHANGED svars
  <2>1. binding' \subseteq binding /\ job' = job /\ pc' = pc
    BY <1>9, ClientEffect DEF ExecutorInv, Lapse, BindExpires, svars, control, world
  <2> QED BY <2>1
<1>10. CASE Poll \/ WorkSucceeds \/ WorkFails \/ ScriptWrites \/ RevokeClient \/ PublishIngress \/ Undo \/ Restart
  BY <1>10 DEF Poll, WorkSucceeds, WorkFails, ScriptWrites, RevokeClient, PublishIngress, Undo, Restart, Operate, At, world
<1> QED BY <1>4, <1>5, <1>6, <1>7, <1>8, <1>9, <1>10 DEF SystemNext, RunOnce, Reports

\* In the container of an instance that is not doubtful at most one WeChat command
\* runs: a second binding is claimed only once the first has ended and its command
\* was ended with it.
THEOREM BindsOneAtATime == System => []OneBinding
<1>1. SystemInit => BindingInv
  BY SystemStarts DEF SystemInit, BindingInv, Watched
<1>2. BindingInv /\ [SystemNext]_svars => BindingInv'
  BY SystemStep, BindingStep DEF BindingInv
<1>3. BindingInv => OneBinding
  BY DEF BindingInv, Watched, OneBinding
<1> QED BY <1>1, <1>2, <1>3, PTL DEF System

------------------------------------------------------------------------------
(* The metadata and the host *)

DeletedLook(i) == runtime[i] \in Archived \/ (OpenClaw(i) /\ runtime[i] \in {"none", "buried"})
ActiveLook(i)  == runtime[i] = "up" \/ (~OpenClaw(i) /\ runtime[i] = "stopped")

\* How i looks when operation a has been carried out on it and not been reported.
Done(a, i) ==
  CASE a = "create"  -> runtime[i] = "up"
    [] a = "delete"  -> DeletedLook(i)
    [] a = "restore" -> ActiveLook(i) /\ (Product[i] = "hermes" \/ ~PortTaken(i))
    [] a \in {"purge_deleted", "cleanup_failed"} -> runtime[i] \notin Deployed
    [] a \in {"start", "restart"} -> runtime[i] = "up" /\ instStatus[i] \in {"active", "stopped"}
    [] a = "stop"    -> IF instStatus[i] \in {"active", "stopped"} THEN runtime[i] = "stopped" ELSE Agrees(i)
    [] OTHER         -> Agrees(i)

Before == {"idle", "down", "accepted", "attempt", "working", "bind", "bound", "unbind"}
After  == {"ingress", "script", "client", "success", "undo"}

\* How the instance of a job stands that the executor has brought to step p: it
\* agrees with the metadata up to the operation, looks as the operation leaves it
\* up to the report, and agrees again when there is only a failure to report; a
\* creation that is reported failed has been undone.
StandsAt(p, a, i) ==
  /\ p \in Before => Agrees(i)
  /\ p \in After => Done(a, i)
  /\ p \in {"failure", "error"} =>
       IF a = "create" THEN runtime[i] \in {"none"} \cup Archived ELSE Agrees(i)
Stands(i) ==
  IF AtRest(i) THEN Agrees(i)
  ELSE StandsAt(pc, action, i) /\ (action # "wechat_bind" => jobStatus[job] = "running")
AllStand == \A i \in Instance \ doubtful : Stands(i)

\* What the claim's answer said of an instance to be purged is still true.
SeenPurge ==
  Busy /\ action = "purge_deleted" /\ inst \in Instance =>
    /\ seen = "restorable" => inst \in restorable
    /\ pc \in {"working", "client", "success"} => seen = "restorable"

\* OpenClaw's scripts keep no note of whether an instance was running.
ClawsArchive == \A i \in Instance : OpenClaw(i) => runtime[i] # "archived_off"

HostInv  == ClawsArchive /\ SeenPurge /\ AllStand
AgreeInv == ExecutorInv /\ RecordsInv /\ PortsInv /\ CleanupOfFailed /\ HostInv

\* What an operation that succeeds leaves of an instance that is in order.
LEMMA GoodEndLooks ==
  ASSUME NEW s, s.product \in Products, s.runtime \in Runtime \ {"broken"},
         s.product = "openclaw" => s.runtime # "archived_off",
         NEW a, NEW e \in GoodEnds(s, a)
  PROVE  /\ a = "create" => e.runtime = "up"
         /\ a = "delete" => \/ e.runtime \in Archived
                            \/ s.product = "openclaw" /\ e.runtime \in {"none", "buried"} /\ s.runtime # "up"
         /\ a = "restore" => /\ e.runtime = "up" \/ (s.product # "openclaw" /\ e.runtime = "stopped")
                             /\ s.product = "hermes" \/ ~s.taken
         /\ a = "purge_deleted" /\ s.runtime \notin Deployed => e.runtime \notin Deployed
         /\ a = "cleanup_failed" => e.runtime \notin Deployed
         /\ a \in {"start", "restart"} => e.runtime = "up" /\ s.runtime \in Deployed
         /\ a = "stop" => e.runtime = "stopped" /\ s.runtime \in Deployed
         /\ a \notin {"create", "delete", "restore", "purge_deleted", "cleanup_failed", "start", "restart", "stop"}
              => e.runtime = s.runtime
<1>1. e.runtime \in Succeeds(s, a)
  BY EndsHaveRuntime DEF GoodEnds
<1>2. CASE a = "create"
  BY <1>1, <1>2 DEF Succeeds, CreateEnds
<1>3. CASE a = "delete"
  BY <1>1, <1>3 DEF Succeeds, DeleteEnds, Script, ScriptDeletes, AdapterDeletes, Deployed, Archived, Runtime
<1>4. CASE a = "restore"
  <2>1. e.runtime \in RestoreEnds(s) /\ Remains(s) = {}
    BY <1>1, <1>4 DEF Succeeds, Remains
  <2>2. CASE s.product # "hermes" /\ s.taken
    BY <2>1, <2>2 DEF RestoreEnds
  <2>3. CASE s.runtime = "archived" /\ ~(s.product # "hermes" /\ s.taken)
    BY <1>4, <2>1, <2>3 DEF RestoreEnds, Halfway, Deployed
  <2>4. CASE s.runtime = "archived_off" /\ ~(s.product # "hermes" /\ s.taken)
    BY <1>4, <2>1, <2>4 DEF RestoreEnds, Halfway, Deployed
  <2>5. CASE s.runtime \notin Archived /\ ~(s.product # "hermes" /\ s.taken)
    <3>1. Halfway(s) /\ e.runtime \in {"up", "stopped"}
      BY <2>1, <2>5 DEF RestoreEnds, Archived
    <3> QED BY <1>4, <2>5, <3>1 DEF Halfway, Script
  <2> QED BY <2>2, <2>3, <2>4, <2>5 DEF Archived
<1>5. CASE a = "purge_deleted"
  BY <1>1, <1>5 DEF Succeeds, PurgeEnds, Remains, Script, Deployed, Archived, Runtime
<1>6. CASE a = "cleanup_failed"
  BY <1>1, <1>6 DEF Succeeds, CleanupEnds, Deployed
<1>7. CASE a \in {"start", "restart", "stop"}
  <2>1. Remains(s) = {}
    BY DEF Remains
  <2>2. s.runtime \in Deployed /\ e.runtime \in Serves(s, a)
    BY <1>1, <1>7 DEF Succeeds
  <2>3. e.runtime = (IF a = "stop" THEN "stopped" ELSE "up")
    BY <1>7, <2>1, <2>2 DEF Serves
  <2> QED BY <1>7, <2>2, <2>3
<1>8. CASE a \notin {"create", "delete", "restore", "purge_deleted", "cleanup_failed", "start", "restart", "stop"}
  BY <1>1, <1>8 DEF Succeeds, Serves, Remains, Deployed
<1> QED BY <1>2, <1>3, <1>4, <1>5, <1>6, <1>7, <1>8

LEMMA ClawEnds ==
  ASSUME NEW s, s.product = "openclaw", s.runtime # "archived_off", NEW a,
         NEW e \in GoodEnds(s, a) \cup SlackEnds(s, a) \cup BadEnds(s, a) \cup CutEnds(s, a)
  PROVE  e.runtime # "archived_off"
<1>1. "archived_off" \notin Succeeds(s, a)
  BY DEF Succeeds, CreateEnds, DeleteEnds, Script, ScriptDeletes, RestoreEnds, Halfway, PurgeEnds, CleanupEnds, Serves,
     Remains, Deployed, Archived
<1>2. "archived_off" \notin Slackens(s, a)
  BY DEF Slackens, Script
<1>3. "archived_off" \notin Fails(s, a)
  <2>1. /\ "archived_off" \notin DeleteFails(s) /\ "archived_off" \notin RestoreFails(s)
        /\ "archived_off" \notin OthersFail(s) /\ "archived_off" \notin CleanupEnds(s)
    BY DEF DeleteFails, DeleteEnds, Script, ScriptDeletes, RestoreFails, Halfway, OthersFail, CleanupEnds,
       Deployed, Archived
  <2> QED BY <2>1 DEF Fails, Deployed
<1>4. \A X, ok : e \in Ends(s, a, X, ok) => e.runtime \in X
  BY DEF Ends
<1> QED BY <1>1, <1>2, <1>3, <1>4 DEF GoodEnds, SlackEnds, BadEnds, CutEnds

------------------------------------------------------------------------------
(* Step by step *)

LEMMA Mine ==
  ASSUME AgreeInv, Busy, inst \in Instance \ doubtful
  PROVE  /\ StandsAt(pc, action, inst) /\ jobInst[job] = inst /\ job \in Request
         /\ action # "wechat_bind" => jobStatus[job] = "running"
         /\ instStatus[inst] \notin {"unborn", "purged"}
         /\ action = "create" => instStatus[inst] = "provisioning"
<1>1. job \in Request /\ ~AtRest(inst) /\ Stands(inst)
  BY DEF AgreeInv, HostInv, AllStand, AtRest, ExecutorInv, HasJob, Busy
<1>2. StandsAt(pc, action, inst) /\ (action # "wechat_bind" => jobStatus[job] = "running")
  BY <1>1 DEF Stands
<1>3. instStatus[inst] \notin {"unborn", "purged"}
  BY <1>1, NothingIsPurged DEF inst, AgreeInv, ExecutorInv, ControlInv, JobsHaveRows, Exists
<1>4. action = "create" => instStatus[inst] = "provisioning"
  <2> SUFFICES ASSUME action = "create" PROVE instStatus[inst] = "provisioning"
    OBVIOUS
  <2>1. job \in ActiveJobs(inst, {"create"})
    BY <1>1, <1>2 DEF ActiveJobs, inst, action
  <2> QED BY <2>1 DEF AgreeInv, ExecutorInv, ControlInv, ProvisioningBacked
<1> QED BY <1>1, <1>2, <1>3, <1>4 DEF inst

\* A step of the executor concerns the instance of its job.
LEMMA StandsAfter ==
  ASSUME AgreeInv, Busy, doubtful \subseteq doubtful', jobAction' = jobAction,
         NEW next \in Step, Goto(next), jobInst'[job] \in {inst, NoInst},
         \A i \in Instance \ {inst} : instStatus'[i] = instStatus[i] /\ runtime'[i] = runtime[i],
         NEW k, k = inst, NEW a, a = action,
         k \in Instance /\ OpenClaw(k) => runtime'[k] # "archived_off",
         a = "purge_deleted" => \/ jobInst'[job] = NoInst
                                \/ restorable' = restorable /\ (next \in {"working", "client", "success"} => seen = "restorable"),
         k \in Instance \ doubtful' =>
           /\ StandsAt(next, a, k)'
           /\ jobInst'[job] = NoInst => next = "idle"
           /\ next \notin {"idle", "down"} /\ a # "wechat_bind" => jobStatus'[job] = "running"
  PROVE  HostInv'
<1>1. /\ pc' = next /\ job \in Request /\ NoInst \notin Instance /\ NoRequest \notin Request
      /\ job' = IF next \in {"idle", "down"} THEN NoRequest ELSE job
      /\ seen' = IF next \in {"idle", "down"} THEN "live" ELSE seen
  BY NothingIsPurged DEF Goto, AgreeInv, ExecutorInv, HasJob
<1>2. next \notin {"idle", "down"} => action' = a /\ inst' = jobInst'[job]
  BY <1>1 DEF action, inst
<1>3. ClawsArchive'
  BY DEF ClawsArchive, OpenClaw, AgreeInv, HostInv
<1>4. SeenPurge'
  <2> SUFFICES ASSUME next \notin {"idle", "down"}, a = "purge_deleted", jobInst'[job] \in Instance
               PROVE  /\ seen = "restorable" => jobInst'[job] \in restorable'
                      /\ next \in {"working", "client", "success"} => seen = "restorable"
    BY <1>1, <1>2 DEF SeenPurge, Busy
  <2>1. jobInst'[job] = inst /\ restorable' = restorable /\ (next \in {"working", "client", "success"} => seen = "restorable")
    BY <1>1
  <2> QED BY <2>1 DEF AgreeInv, HostInv, SeenPurge
<1>5. AllStand'
  <2> SUFFICES ASSUME NEW i \in Instance \ doubtful' PROVE Stands(i)'
    BY DEF AllStand
  <2>1. CASE i # k
    <3>1. AtRest(i) /\ Agrees(i)
      BY <2>1 DEF AtRest, AgreeInv, HostInv, AllStand, Stands
    <3>2. Agrees(i)'
      BY <2>1, <3>1 DEF Agrees, OpenClaw
    <3>3. AtRest(i)'
      BY <1>1, <1>2, <2>1 DEF AtRest
    <3> QED BY <3>2, <3>3 DEF Stands
  <2>2. CASE i = k
    <3>1. CASE next \in {"idle", "down"}
      <4>1. AtRest(i)' /\ Agrees(i)'
        BY <1>1, <2>2, <3>1 DEF AtRest, StandsAt, Before
      <4> QED BY <4>1 DEF Stands
    <3>2. CASE next \notin {"idle", "down"}
      <4>1. inst' = i /\ ~AtRest(i)' /\ action' = a
        BY <1>1, <1>2, <2>2, <3>2 DEF AtRest
      <4>2. StandsAt(pc, action, i)'
        BY <1>1, <2>2, <4>1 DEF StandsAt
      <4>3. (action # "wechat_bind" => jobStatus[job] = "running")'
        BY <1>1, <2>2, <3>2, <4>1
      <4> QED BY <4>1, <4>2, <4>3 DEF Stands
    <3> QED BY <3>1, <3>2
  <2> QED BY <2>1, <2>2
<1> QED BY <1>3, <1>4, <1>5 DEF HostInv

\* Nothing that Agrees and Done look at has changed.
LEMMA LooksTheSame ==
  ASSUME NEW k, runtime' = runtime, instStatus' = instStatus, instPort' = instPort
  PROVE  /\ Agrees(k)' <=> Agrees(k)
         /\ \A a : Done(a, k)' <=> Done(a, k)
<1>1. Agrees(k)' <=> Agrees(k)
  BY DEF Agrees, OpenClaw
<1>2. (PortTaken(k)' <=> PortTaken(k)) /\ (DeletedLook(k)' <=> DeletedLook(k)) /\ (ActiveLook(k)' <=> ActiveLook(k))
  BY DEF PortTaken, DeletedLook, ActiveLook, OpenClaw
<1> QED BY <1>1, <1>2 DEF Done

\* What agrees and is not there has not been broken.
LEMMA SoundWhereAgreed ==
  ASSUME AgreeInv, NEW k \in Instance, Agrees(k), instStatus[k] \notin {"unborn", "purged"}
  PROVE  /\ Described(k).runtime \in Runtime \ {"broken"} /\ Described(k).product \in Products
         /\ Described(k).product = "openclaw" => Described(k).runtime # "archived_off"
         /\ Described(k).runtime = runtime[k] /\ Described(k).product = Product[k]
         /\ Described(k).taken = PortTaken(k)
         /\ runtime[k] \in Deployed => instStatus[k] \in {"active", "stopped"}
<1>1. runtime[k] \in Runtime /\ instStatus[k] \in InstState /\ Product[k] \in Products
  BY ControlAssumption DEF ControlAssumption, AgreeInv, ExecutorInv, SystemTypeOK, TypeOK
<1>2. runtime[k] # "broken" /\ (runtime[k] \in Deployed => instStatus[k] \in {"active", "stopped"})
  BY <1>1 DEF Agrees, InstState, Archived, Deployed
<1>3. Product[k] = "openclaw" => runtime[k] # "archived_off"
  BY DEF AgreeInv, HostInv, ClawsArchive, OpenClaw
<1> QED BY <1>1, <1>2, <1>3 DEF Described

LEMMA SucceedsAgrees ==
  ASSUME AgreeInv, At("working"), inst \in Instance \ doubtful,
         UNCHANGED <<instStatus, instPort>>,
         NEW e \in GoodEnds(Described(inst), action), runtime' = [runtime EXCEPT ![inst] = e.runtime],
         NEW k, k = inst, NEW a, a = action
  PROVE  Done(a, k)'
<1>1. /\ Busy /\ Agrees(k) /\ k \in Instance /\ instStatus[k] \notin {"unborn", "purged"} /\ job \in Request
      /\ jobInst[job] = k /\ jobAction[job] = a /\ jobStatus[job] \in {"running"} \cup Terminal
      /\ a # "wechat_bind" => jobStatus[job] = "running"
      /\ a # "wechat_bind"
      /\ a = "create" => instStatus[k] = "provisioning"
  BY Mine DEF At, Busy, StandsAt, Before, AgreeInv, ExecutorInv, JobClaimed, RightAction, action
<1> DEFINE d == Described(k)
<1>2. /\ d.runtime \in Runtime \ {"broken"} /\ d.product \in Products
      /\ d.product = "openclaw" => d.runtime # "archived_off"
      /\ d.runtime = runtime[k] /\ d.product = Product[k]
      /\ d.taken = PortTaken(k)
      /\ runtime[k] \in Deployed => instStatus[k] \in {"active", "stopped"}
  BY <1>1, SoundWhereAgreed
<1>3. e \in GoodEnds(d, a)
  OBVIOUS
<1>4. runtime'[k] = e.runtime /\ \A i \in Instance \ {k} : runtime'[i] = runtime[i]
  BY <1>1 DEF AgreeInv, ExecutorInv, SystemTypeOK
<1>5. PortTaken(k)' <=> PortTaken(k)
  BY <1>4 DEF PortTaken
<1>6. a = "purge_deleted" => runtime[k] \notin Deployed
  <2> SUFFICES ASSUME a = "purge_deleted" PROVE runtime[k] \notin Deployed
    OBVIOUS
  <2>1. instStatus[k] = "deleted"
    BY <1>1, NothingIsPurged DEF AgreeInv, ExecutorInv, ControlInv, PurgeOfDeleted
  <2> QED BY <1>2, <2>1
<1> HIDE DEF d
<1>7. CASE a = "create"
  BY <1>2, <1>3, <1>4, <1>7, GoodEndLooks DEF Done
<1>8. CASE a = "delete"
  BY <1>2, <1>3, <1>4, <1>8, GoodEndLooks DEF Done, DeletedLook, OpenClaw
<1>9. CASE a = "restore"
  <2>1. ActiveLook(k)'
    BY <1>2, <1>3, <1>4, <1>9, GoodEndLooks DEF ActiveLook, OpenClaw
  <2>2. Product[k] = "hermes" \/ ~PortTaken(k)
    BY <1>2, <1>3, <1>9, GoodEndLooks
  <2> QED BY <1>5, <1>9, <2>1, <2>2 DEF Done
<1>10. CASE a \in {"purge_deleted", "cleanup_failed"}
  BY <1>2, <1>3, <1>4, <1>6, <1>10, GoodEndLooks DEF Done
<1>11. CASE a \in {"start", "restart"}
  BY <1>2, <1>3, <1>4, <1>11, GoodEndLooks DEF Done
<1>12. CASE a = "stop"
  BY <1>2, <1>3, <1>4, <1>12, GoodEndLooks DEF Done
<1>13. CASE a \notin {"create", "delete", "restore", "purge_deleted", "cleanup_failed", "start", "restart", "stop"}
  <2>1. runtime'[k] = runtime[k]
    BY <1>2, <1>3, <1>4, <1>13, GoodEndLooks
  <2>2. Agrees(k)'
    BY <1>1, <2>1 DEF Agrees, OpenClaw
  <2> QED BY <1>13, <2>2 DEF Done
<1> QED BY <1>7, <1>8, <1>9, <1>10, <1>11, <1>12, <1>13

\* An operation leaves the instances it is not about alone, and no note that one
\* of OpenClaw's was stopped.
LEMMA LeavesOthers ==
  ASSUME AgreeInv, Busy, inst \in Instance, NEW a, NEW E, Left(E),
         E \subseteq GoodEnds(Described(inst), a) \cup SlackEnds(Described(inst), a)
                     \cup BadEnds(Described(inst), a) \cup CutEnds(Described(inst), a)
  PROVE  /\ \A i \in Instance \ {inst} : runtime'[i] = runtime[i]
         /\ OpenClaw(inst) => runtime'[inst] # "archived_off"
<1>1. /\ runtime \in [Instance -> Runtime]
      /\ Described(inst).product = Product[inst] /\ Described(inst).runtime = runtime[inst]
      /\ OpenClaw(inst) => runtime[inst] # "archived_off"
  BY DEF AgreeInv, HostInv, ExecutorInv, SystemTypeOK, Described, ClawsArchive
<1>2. PICK e \in E : runtime' = [runtime EXCEPT ![inst] = e.runtime]
  BY DEF Left
<1>3. OpenClaw(inst) => e.runtime # "archived_off"
  BY <1>1, ClawEnds DEF OpenClaw
<1> QED BY <1>1, <1>2, <1>3

LEMMA SucceedsKeeps ==
  ASSUME AgreeInv, WorkSucceeds
  PROVE  HostInv'
<1>1. /\ Busy /\ At("working") /\ pc = "working" /\ inst \in Instance /\ job \in Request
      /\ UNCHANGED <<cvars, lost, crashes>> /\ doubtful \subseteq doubtful'
  BY AtWork DEF WorkSucceeds, At, Busy, AgreeInv, Doubted
<1>2. UNCHANGED <<jobStatus, jobAction, jobInst, instStatus, instPort, restorable>>
  BY <1>1 DEF cvars
<1>3. PICK next \in Step : Goto(next) /\ next = AfterWork
  BY DEF WorkSucceeds, AfterWork, Step
<1>4. next \in {"ingress", "script", "client", "success"}
  BY <1>3 DEF AfterWork
<1>5. /\ \A i \in Instance \ {inst} : runtime'[i] = runtime[i]
      /\ OpenClaw(inst) => runtime'[inst] # "archived_off"
  BY <1>1, LeavesOthers DEF WorkSucceeds, Operate
<1>6. PICK k, a : k = inst /\ a = action
  OBVIOUS
<1>7. k \in Instance \ doubtful' => /\ StandsAt(next, a, k)'
                                    /\ next \notin {"idle", "down"} /\ a # "wechat_bind" => jobStatus'[job] = "running"
  <2> SUFFICES ASSUME k \in Instance \ doubtful'
               PROVE  StandsAt(next, a, k)' /\ (a # "wechat_bind" => jobStatus'[job] = "running")
    OBVIOUS
  <2>1. inst \in Instance \ doubtful /\ inst \notin doubtful' /\ inst # NoInst
    BY <1>1, <1>6, NothingIsPurged
  <2>2. Operate(GoodEnds(Described(inst), action))
    BY <2>1 DEF WorkSucceeds, Doubted
  <2>3. PICK e \in GoodEnds(Described(inst), action) : runtime' = [runtime EXCEPT ![inst] = e.runtime]
    BY <2>2 DEF Operate, Left
  <2>4. Done(a, k)'
    BY <1>1, <1>2, <1>6, <2>1, <2>3, SucceedsAgrees
  <2>5. a # "wechat_bind" => jobStatus[job] = "running"
    BY <1>1, <1>6, <2>1, Mine
  <2> QED BY <1>2, <1>4, <2>4, <2>5 DEF StandsAt, Before
<1>8. action = "purge_deleted" => seen = "restorable"
  BY <1>1 DEF AgreeInv, HostInv, SeenPurge
<1> QED BY <1>1, <1>2, <1>3, <1>4, <1>5, <1>6, <1>7, <1>8, StandsAfter, NothingIsPurged DEF inst

LEMMA FailsKeeps ==
  ASSUME AgreeInv, WorkFails
  PROVE  HostInv'
<1>1. /\ Busy /\ At("working") /\ pc = "working" /\ inst \in Instance /\ job \in Request
      /\ UNCHANGED <<cvars, lost, crashes>> /\ doubtful \subseteq doubtful'
  BY AtWork DEF WorkFails, At, Busy, AgreeInv, Doubted
<1>2. UNCHANGED <<jobStatus, jobAction, jobInst, instStatus, instPort, restorable>>
  BY <1>1 DEF cvars
<1>3. PICK next \in {"attempt", "failure", "error"} : Goto(next)
  BY DEF WorkFails
<1>5. /\ \A i \in Instance \ {inst} : runtime'[i] = runtime[i]
      /\ OpenClaw(inst) => runtime'[inst] # "archived_off"
  BY <1>1, LeavesOthers DEF WorkFails, Operate
<1>6. PICK k, a : k = inst /\ a = action
  OBVIOUS
<1>7. k \in Instance \ doubtful' => /\ StandsAt(next, a, k)'
                                    /\ next \notin {"idle", "down"} /\ a # "wechat_bind" => jobStatus'[job] = "running"
  <2> SUFFICES ASSUME k \in Instance \ doubtful'
               PROVE  StandsAt(next, a, k)' /\ (a # "wechat_bind" => jobStatus'[job] = "running")
    OBVIOUS
  <2>1. inst \in Instance \ doubtful /\ inst \notin doubtful' /\ inst # NoInst
    BY <1>1, <1>6, NothingIsPurged
  <2>2. runtime' = runtime
    BY <2>1 DEF WorkFails, Doubted
  <2>3. /\ Agrees(k) /\ (a # "wechat_bind" => jobStatus[job] = "running")
        /\ a = "create" => instStatus[k] = "provisioning"
    BY <1>1, <1>6, <2>1, Mine DEF StandsAt, Before
  <2>4. Agrees(k)' /\ (a = "create" => runtime'[k] = "none")
    BY <1>2, <2>2, <2>3, LooksTheSame DEF Agrees
  <2> QED BY <1>2, <2>3, <2>4 DEF StandsAt, After
<1> QED BY <1>1, <1>2, <1>3, <1>5, <1>6, <1>7, StandsAfter, NothingIsPurged DEF inst, Step

LEMMA UndoKeeps ==
  ASSUME AgreeInv, Undo
  PROVE  HostInv'
<1>1. /\ Busy /\ pc = "undo" /\ action = "create" /\ inst \in Instance /\ job \in Request
      /\ UNCHANGED cvars /\ doubtful \subseteq doubtful'
  BY AtWork DEF Undo, At, Busy, AgreeInv, ExecutorInv, RightAction, Doubted
<1>2. UNCHANGED <<jobStatus, jobAction, jobInst, instStatus, instPort, restorable>>
  BY <1>1 DEF cvars
<1>3. PICK next \in {"failure", "error"} : Goto(next)
  BY DEF Undo
<1>5. /\ \A i \in Instance \ {inst} : runtime'[i] = runtime[i]
      /\ OpenClaw(inst) => runtime'[inst] # "archived_off"
  BY <1>1, LeavesOthers DEF Undo
<1>6. PICK k, a : k = inst /\ a = action
  OBVIOUS
<1>7. k \in Instance \ doubtful' => /\ StandsAt(next, a, k)'
                                    /\ next \notin {"idle", "down"} /\ a # "wechat_bind" => jobStatus'[job] = "running"
  <2> SUFFICES ASSUME k \in Instance \ doubtful'
               PROVE  StandsAt(next, a, k)' /\ (a # "wechat_bind" => jobStatus'[job] = "running")
    OBVIOUS
  <2>1. inst \in Instance \ doubtful /\ inst \notin doubtful' /\ inst # NoInst
    BY <1>1, <1>6, NothingIsPurged
  <2>2. PICK e \in GoodEnds(Described(inst), "delete") : runtime' = [runtime EXCEPT ![inst] = e.runtime]
    BY <2>1 DEF Undo, Doubted, Left
  <2>3. Done(action, inst) /\ jobStatus[job] = "running"
    BY <1>1, <2>1, Mine DEF StandsAt, After
  <2>4. runtime[inst] = "up"
    BY <1>1, <2>3 DEF Done
  <2>5. /\ Described(inst).product \in Products /\ Described(inst).runtime = "up"
        /\ "up" \in Runtime \ {"broken"}
    BY <1>1, <2>4, ControlAssumption DEF Described, ControlAssumption, Runtime, Deployed
  <2>6. e.runtime \in Archived
    BY <2>2, <2>5, GoodEndLooks
  <2>7. runtime'[k] \in Archived
    BY <1>1, <1>6, <2>2, <2>6 DEF AgreeInv, ExecutorInv, SystemTypeOK
  <2> QED BY <1>1, <1>2, <1>6, <2>3, <2>7 DEF StandsAt, Before, After
<1> QED BY <1>1, <1>2, <1>3, <1>5, <1>6, <1>7, StandsAfter, NothingIsPurged DEF inst, Step

LEMMA CrashKeeps ==
  ASSUME AgreeInv, Crash
  PROVE  HostInv'
<1>1. /\ Busy /\ job \in Request /\ UNCHANGED <<jobStatus, jobAction, jobInst, instStatus>>
      /\ doubtful \subseteq doubtful' /\ Goto("down") /\ "down" \in Step
      /\ inst \in Instance \cup {NoInst} /\ doubtful' = Doubted
  BY DEF Crash, cvars, Busy, AgreeInv, ExecutorInv, HasJob, Doubted, Step, SystemTypeOK, TypeOK, inst
<1>2. /\ \A i \in Instance \ {inst} : runtime'[i] = runtime[i]
      /\ inst \in Instance /\ OpenClaw(inst) => runtime'[inst] # "archived_off"
  <2>1. CASE At("working")
    BY <1>1, <2>1, LeavesOthers, AtWork DEF Crash, Operate, At, AgreeInv
  <2>2. CASE ~At("working")
    BY <2>2 DEF Crash, world, AgreeInv, HostInv, ClawsArchive
  <2> QED BY <2>1, <2>2
<1>3. inst \notin Instance \ doubtful' /\ restorable' = restorable
  BY <1>1, NothingIsPurged DEF Doubted, Crash, cvars
<1> QED BY <1>1, <1>2, <1>3, StandsAfter DEF inst

LEMMA ScriptKeeps ==
  ASSUME AgreeInv, ScriptWrites
  PROVE  HostInv'
<1>1. /\ Busy /\ pc = "script" /\ action \in Retention /\ inst \in Instance /\ job \in Request
      /\ OpenClaw(inst) /\ Goto("success") /\ UNCHANGED <<runtime, doubtful>>
  BY AtWork DEF ScriptWrites, At, Busy, AgreeInv, ExecutorInv, RightAction, world, faults
<1>2. /\ UNCHANGED <<jobStatus, jobAction, jobInst, instPort>>
      /\ \A i \in Instance \ {inst} : instStatus'[i] = instStatus[i]
  <2>1. CASE UNCHANGED cvars
    BY <2>1 DEF cvars
  <2>2. ASSUME NEW whole, ScriptSetsStatus(job, whole)
        PROVE  /\ UNCHANGED <<jobStatus, jobAction, jobInst, instPort>>
               /\ \A i \in Instance \ {inst} : instStatus'[i] = instStatus[i]
    BY <2>2 DEF ScriptSetsStatus, UpsertInstance, jobVars, inst, AgreeInv, ExecutorInv, SystemTypeOK, TypeOK
  <2> QED BY <2>1, <2>2 DEF ScriptWrites
<1>3. PICK k, a : k = inst /\ a = action
  OBVIOUS
<1>4. OpenClaw(k) => runtime'[k] # "archived_off"
  BY <1>1, <1>3 DEF AgreeInv, HostInv, ClawsArchive
<1>5. k \in Instance \ doubtful' => StandsAt("success", a, k)' /\ (a # "wechat_bind" => jobStatus'[job] = "running")
  <2> SUFFICES ASSUME k \in Instance \ doubtful
               PROVE  StandsAt("success", a, k)' /\ (a # "wechat_bind" => jobStatus'[job] = "running")
    BY <1>1
  <2>1. Done(a, k) /\ (a # "wechat_bind" => jobStatus[job] = "running")
    BY <1>1, <1>3, Mine DEF StandsAt, After
  <2>2. (DeletedLook(k)' <=> DeletedLook(k)) /\ (ActiveLook(k)' <=> ActiveLook(k)) /\ (PortTaken(k)' <=> PortTaken(k))
    BY <1>1, <1>2 DEF DeletedLook, ActiveLook, OpenClaw, PortTaken
  <2>3. CASE a = "delete"
    BY <1>2, <2>1, <2>2, <2>3 DEF Done, StandsAt, Before
  <2>4. CASE a = "restore"
    BY <1>2, <2>1, <2>2, <2>4 DEF Done, StandsAt, Before
  <2> QED BY <1>1, <1>3, <2>3, <2>4 DEF Retention
<1>6. a # "purge_deleted"
  BY <1>1, <1>3 DEF Retention
<1> QED BY <1>1, <1>2, <1>3, <1>4, <1>5, <1>6, StandsAfter, NothingIsPurged DEF inst, Step

\* Where neither the host nor the metadata change, an instance that is not doubtful
\* stands as well at the next step.
LEMMA SameElsewhere ==
  ASSUME AgreeInv, Busy, UNCHANGED <<runtime, jobAction, jobInst, instStatus, instPort, restorable>>,
         doubtful \subseteq doubtful', NEW next \in Step, Goto(next),
         action = "purge_deleted" => (next \in {"working", "client", "success"} => seen = "restorable"),
         inst \in Instance \ doubtful' =>
           /\ StandsAt(next, action, inst)
           /\ next \notin {"idle", "down"} /\ action # "wechat_bind" => jobStatus'[job] = "running"
  PROVE  HostInv'
<1>1. PICK k, a : k = inst /\ a = action
  OBVIOUS
<1>2. k \in Instance /\ OpenClaw(k) => runtime'[k] # "archived_off"
  BY DEF AgreeInv, HostInv, ClawsArchive
<1>3. StandsAt(next, a, k) => StandsAt(next, a, k)'
  BY LooksTheSame DEF StandsAt
<1>4. inst \in Instance => inst # NoInst
  BY NothingIsPurged
<1> QED BY <1>1, <1>2, <1>3, <1>4, StandsAfter DEF inst

LEMMA RevokeKeeps ==
  ASSUME AgreeInv, RevokeClient
  PROVE  HostInv'
<1>1. /\ Busy /\ pc \in {"client", "undo"} /\ inst \in Instance /\ UNCHANGED <<cvars, world>>
      /\ doubtful \subseteq doubtful' /\ (pc = "undo" => action = "create")
  BY AtWork DEF RevokeClient, Busy, AgreeInv, ExecutorInv, RightAction, faults, Doubted
<1>2. UNCHANGED <<runtime, jobStatus, jobAction, jobInst, instStatus, instPort, restorable>>
  BY <1>1 DEF cvars, world
<1>3. CASE Goto("success") /\ pc = "client"
  <2>1. inst \in Instance \ doubtful' =>
           StandsAt("success", action, inst) /\ (action # "wechat_bind" => jobStatus'[job] = "running")
    BY <1>1, <1>2, <1>3, Mine DEF StandsAt, Before, After
  <2>2. action = "purge_deleted" => seen = "restorable"
    BY <1>1, <1>3 DEF AgreeInv, HostInv, SeenPurge
  <2> QED BY <1>1, <1>2, <1>3, <2>1, <2>2, SameElsewhere DEF Step
<1>4. CASE Goto("error") /\ doubtful' = Doubted
  <2>1. inst \notin Instance \ doubtful'
    BY <1>1, <1>4, NothingIsPurged DEF Doubted
  <2> QED BY <1>1, <1>2, <1>4, <2>1, SameElsewhere DEF Step
<1> QED BY <1>3, <1>4 DEF RevokeClient, At

LEMMA IngressKeeps ==
  ASSUME AgreeInv, PublishIngress
  PROVE  HostInv'
<1>1. /\ Busy /\ pc = "ingress" /\ inst \in Instance /\ UNCHANGED <<cvars, world>>
      /\ doubtful \subseteq doubtful' /\ action = "create"
  BY AtWork DEF PublishIngress, At, Busy, AgreeInv, ExecutorInv, RightAction, Doubted
<1>2. UNCHANGED <<runtime, jobStatus, jobAction, jobInst, instStatus, instPort, restorable>>
  BY <1>1 DEF cvars, world
<1>3. ASSUME NEW next \in {"success", "undo"}, Goto(next)
      PROVE  HostInv'
  <2>1. inst \in Instance \ doubtful' =>
           StandsAt(next, action, inst) /\ (action # "wechat_bind" => jobStatus'[job] = "running")
    BY <1>1, <1>2, <1>3, Mine DEF StandsAt, Before, After
  <2> QED BY <1>1, <1>2, <1>3, <2>1, SameElsewhere DEF Step
<1>4. CASE Goto("error") /\ doubtful' = Doubted
  <2>1. inst \notin Instance \ doubtful'
    BY <1>1, <1>4, NothingIsPurged DEF Doubted
  <2> QED BY <1>1, <1>2, <1>4, <2>1, SameElsewhere DEF Step
<1> QED BY <1>3, <1>4 DEF PublishIngress

LEMMA BindKeeps ==
  ASSUME AgreeInv, BindStarts \/ BindPolls \/ BindExits \/ Unbind
  PROVE  HostInv'
<1>1. /\ Busy /\ pc \in {"bind", "bound", "unbind"} /\ inst \in Instance /\ action = "wechat_bind"
      /\ doubtful \subseteq doubtful'
      /\ UNCHANGED <<runtime, jobStatus, jobAction, jobInst, instStatus, instPort, restorable>>
  BY AtWork DEF BindStarts, BindPolls, BindExits, Unbind, At, Busy, AgreeInv, ExecutorInv, RightAction,
     cvars, world, faults, Doubted
<1>2. PICK next \in {"bound", "unbind", "idle", "success", "failure", "error"} : Goto(next)
  BY DEF BindStarts, BindPolls, BindExits, Unbind
<1>3. inst \in Instance \ doubtful' => Agrees(inst)
  BY <1>1, Mine DEF StandsAt, Before
<1>4. inst \in Instance \ doubtful' => StandsAt(next, action, inst)
  BY <1>1, <1>3 DEF StandsAt, Done
<1> QED BY <1>1, <1>2, <1>4, SameElsewhere DEF Step

\* "running" changes nothing of the instance.
LEMMA RunningReport ==
  ASSUME AgreeInv, Announce \/ BindSpeaks
  PROVE  HostInv'
<1>1. /\ Busy /\ pc \in {"accepted", "attempt", "bound"} /\ inst \in Instance /\ job \in Request
      /\ pc = "attempt" => action \in Lifecycle
      /\ pc = "bound" => action = "wechat_bind"
  BY AtWork DEF Announce, BindSpeaks, At, Busy, AgreeInv, ExecutorInv, RightAction
<1>2. PICK next \in {"failure", "error", "bind", "working", "bound"}, raised \in {"error", "unbind"} :
        /\ Report("running", NoPort, FALSE, next, raised)
        /\ next = "working" /\ action = "purge_deleted" => seen = "restorable"
  <2>1. /\ AfterAccepted \in {"failure", "error", "bind", "working"}
        /\ AfterAccepted = "working" /\ action = "purge_deleted" => seen = "restorable"
    BY DEF AfterAccepted, NeedsUp, Pairing
  <2>2. CASE Announce
    BY <1>1, <2>1, <2>2 DEF Announce, At, Lifecycle
  <2>3. CASE BindSpeaks
    BY <2>3 DEF BindSpeaks
  <2> QED BY <2>2, <2>3
<1>3. ASSUME Patch(job, "running", NoPort, FALSE)
      PROVE  UNCHANGED <<instStatus, instPort, restorable>>
  <2>1. SideEffects(job, "running", NoPort)
    BY <1>3 DEF Patch
  <2> QED BY <2>1 DEF SideEffects, CreateDone, RuntimeDone, RetainDone, PurgeDone, SettingDone, instVars
<1>4. /\ doubtful' = doubtful /\ runtime' = runtime /\ UNCHANGED <<instStatus, instPort, restorable>>
      /\ UNCHANGED <<jobAction, jobInst>> /\ (Goto(next) \/ Goto(raised))
      /\ jobStatus'[job] = jobStatus[job] \/ jobStatus'[job] = "running"
  <2>1. /\ jobAction' = jobAction /\ jobInst' = jobInst /\ world' = world
        /\ jobStatus'[job] = jobStatus[job] \/ jobStatus'[job] = "running"
        /\ Goto(next) \/ Goto(raised)
    BY <1>1, <1>2, ReportEffect DEF PurgeDone, AgreeInv
  <2>2. doubtful' = doubtful
    BY <1>2 DEF Report, faults
  <2>3. UNCHANGED <<instStatus, instPort, restorable>>
    BY <1>2, <1>3 DEF Report, cvars
  <2> QED BY <2>1, <2>2, <2>3 DEF world
<1>5. ASSUME inst \in Instance \ doubtful', NEW n \in {next, raised}
      PROVE  StandsAt(n, action, inst) /\ (action # "wechat_bind" => jobStatus'[job] = "running")
  <2>1. /\ Agrees(inst) /\ (action # "wechat_bind" => jobStatus[job] = "running")
        /\ action = "create" => instStatus[inst] = "provisioning"
    BY <1>1, <1>4, <1>5, Mine DEF StandsAt, Before
  <2>2. action = "create" => runtime[inst] = "none"
    BY <2>1 DEF Agrees
  <2> QED BY <1>2, <1>4, <2>1, <2>2 DEF StandsAt, After
<1>6. PICK n \in {next, raised} : Goto(n) /\ n \in Step
  BY <1>2, <1>4 DEF Step
<1>7. action = "purge_deleted" => (n \in {"working", "client", "success"} => seen = "restorable")
  BY <1>2, <1>6
<1>8. inst \in Instance \ doubtful' =>
        StandsAt(n, action, inst) /\ (action # "wechat_bind" => jobStatus'[job] = "running")
  BY <1>5
<1>9. /\ doubtful \subseteq doubtful'
      /\ UNCHANGED <<runtime, jobAction, jobInst, instStatus, instPort, restorable>>
  BY <1>4
<1> QED BY <1>1, <1>6, <1>7, <1>8, <1>9, SameElsewhere

\* Nothing the executor knows changes, and of what is there nothing but the row of
\* an instance that is being made.
LEMMA ControlAlone ==
  ASSUME AgreeInv, UNCHANGED <<pc, job, seen>>, UNCHANGED <<runtime, instPort, restorable, doubtful>>, JobsKept,
         \A i \in Instance : instStatus'[i] = instStatus[i] \/ (instStatus[i] = "unborn" /\ instStatus'[i] = "provisioning")
  PROVE  HostInv'
<1>1. Busy => /\ job \in Request /\ jobStatus[job] # "absent"
  BY DEF AgreeInv, ExecutorInv, HasJob, JobClaimed, Terminal
<1>2. Busy => /\ action' = action /\ inst' = inst
              /\ jobStatus'[job] = jobStatus[job] \/ action = "wechat_bind"
  BY <1>1 DEF JobsKept, action, inst
<1>3. ClawsArchive' /\ SeenPurge'
  BY <1>2 DEF AgreeInv, HostInv, ClawsArchive, OpenClaw, SeenPurge, Busy
<1>4. AllStand'
  <2> SUFFICES ASSUME NEW i \in Instance \ doubtful PROVE Stands(i)'
    BY DEF AllStand
  <2>1. Stands(i)
    BY DEF AgreeInv, HostInv, AllStand
  <2>2. Agrees(i) => Agrees(i)'
    <3>1. CASE instStatus'[i] = instStatus[i]
      BY <3>1 DEF Agrees, OpenClaw
    <3>2. CASE instStatus[i] = "unborn" /\ instStatus'[i] = "provisioning"
      BY <3>2 DEF Agrees
    <3> QED BY <3>1, <3>2
  <2>3. CASE AtRest(i)
    <3>1. AtRest(i)'
      BY <1>2, <2>3 DEF AtRest, Busy
    <3> QED BY <2>1, <2>2, <2>3, <3>1 DEF Stands
  <2>4. CASE ~AtRest(i)
    <3>1. Busy /\ inst = i /\ ~AtRest(i)'
      BY <1>2, <2>4 DEF AtRest, Busy
    <3>2. /\ StandsAt(pc, action, i) /\ instStatus[i] # "unborn"
          /\ action # "wechat_bind" => jobStatus[job] = "running"
      BY <3>1, Mine
    <3>3. instStatus'[i] = instStatus[i]
      BY <3>2
    <3>4. Agrees(i)' <=> Agrees(i)
      BY <3>3 DEF Agrees, OpenClaw
    <3>5. (PortTaken(i)' <=> PortTaken(i)) /\ (DeletedLook(i)' <=> DeletedLook(i)) /\ (ActiveLook(i)' <=> ActiveLook(i))
      BY DEF PortTaken, DeletedLook, ActiveLook, OpenClaw
    <3>6. \A a : Done(a, i)' <=> Done(a, i)
      BY <3>3, <3>4, <3>5 DEF Done
    <3>7. StandsAt(pc, action, i)'
      BY <1>2, <3>1, <3>2, <3>4, <3>6 DEF StandsAt
    <3> QED BY <1>2, <3>1, <3>2, <3>7 DEF Stands
  <2> QED BY <2>3, <2>4
<1> QED BY <1>3, <1>4 DEF HostInv

LEMMA ClientKeeps ==
  ASSUME AgreeInv, Client
  PROVE  HostInv'
<1>1. JobsKept /\ UNCHANGED <<control, world, faults>>
  BY ClientEffect DEF AgreeInv, ExecutorInv
<1>2. ASSUME NEW target, NEW rank, CreateInstances(target, rank)
      PROVE  /\ UNCHANGED <<instPort, restorable>>
             /\ \A i \in Instance : instStatus'[i] = instStatus[i] \/ (instStatus[i] = "unborn" /\ instStatus'[i] = "provisioning")
  BY <1>2 DEF CreateInstances, InsertInstances, Range
<1>3. CASE instVars' = instVars
  BY <1>1, <1>3, ControlAlone DEF instVars, control, world, faults
<1>4. /\ UNCHANGED <<instPort, restorable>>
      /\ \A i \in Instance : instStatus'[i] = instStatus[i] \/ (instStatus[i] = "unborn" /\ instStatus'[i] = "provisioning")
  BY <1>2 DEF Client, CreateInstance, CreateBatch, CreateJob, Cancel, instVars
<1> QED BY <1>1, <1>4, ControlAlone DEF control, world, faults

LEMMA OthersKeep ==
  ASSUME AgreeInv, (\E r \in Request : Lapse(r) \/ BindExpires(r)) \/ UNCHANGED svars
  PROVE  HostInv'
<1>1. /\ UNCHANGED <<pc, job, seen>> /\ UNCHANGED <<runtime, instPort, restorable, doubtful>>
      /\ UNCHANGED <<instStatus, jobStatus, jobAction, jobInst>>
  BY DEF Lapse, HeartbeatLapses, BindExpires, svars, cvars, instVars, control, world, faults
<1>2. JobsKept
  BY <1>1 DEF JobsKept
<1> QED BY <1>1, <1>2, ControlAlone

LEMMA RestartKeeps ==
  ASSUME AgreeInv, Restart
  PROVE  HostInv'
<1>1. /\ pc \in {"idle", "down"} /\ pc' = "idle" /\ UNCHANGED <<runtime, instStatus, instPort, doubtful>>
  BY DEF Restart, At, Goto, cvars, world, faults
<1>2. ClawsArchive' /\ SeenPurge'
  BY <1>1 DEF AgreeInv, HostInv, ClawsArchive, OpenClaw, SeenPurge, Busy
<1>3. \A i \in Instance \ doubtful : Agrees(i) /\ AtRest(i)'
  BY <1>1 DEF AgreeInv, HostInv, AllStand, Stands, AtRest
<1>4. \A i \in Instance \ doubtful : Agrees(i)'
  BY <1>1, <1>3, LooksTheSame
<1> QED BY <1>1, <1>2, <1>3, <1>4 DEF HostInv, AllStand, Stands

LEMMA PollKeeps ==
  ASSUME AgreeInv, Poll
  PROVE  HostInv'
<1>1. PICK c \in Request \cup {NoRequest} :
        /\ Claim(c)
        /\ \/ /\ c # NoRequest
              /\ pc' \in FirstSteps(c) /\ job' = c /\ seen' = SeenAs(jobInst[c])
           \/ UNCHANGED control
  BY DEF Poll
<1>2. /\ pc = "idle" /\ UNCHANGED <<runtime, doubtful>> /\ UNCHANGED <<jobAction, jobInst, instPort, restorable>>
      /\ \A i \in Instance : instStatus'[i] = instStatus[i] \/ (instStatus[i] = "provisioning" /\ instStatus'[i] = "failed")
  BY <1>1 DEF Poll, At, world, Claim
<1>3. \A i \in Instance \ doubtful : Agrees(i)
  BY <1>2 DEF AgreeInv, HostInv, AllStand, Stands, AtRest
<1>4. ASSUME NEW i \in Instance \ doubtful PROVE Agrees(i)'
  <2>1. CASE instStatus'[i] = instStatus[i]
    BY <1>2, <1>3, <2>1 DEF Agrees, OpenClaw
  <2>2. CASE instStatus[i] = "provisioning" /\ instStatus'[i] = "failed"
    <3>1. runtime[i] = "none"
      BY <1>3, <2>2 DEF Agrees
    <3> QED BY <1>2, <2>2, <3>1 DEF Agrees
  <2> QED BY <1>2, <2>1, <2>2
<1>5. ClawsArchive'
  BY <1>2 DEF AgreeInv, HostInv, ClawsArchive, OpenClaw
<1>6. CASE UNCHANGED control
  <2>1. pc' = "idle" /\ job' = job
    BY <1>2, <1>6 DEF control
  <2>2. SeenPurge'
    BY <2>1 DEF SeenPurge, Busy
  <2>3. \A i \in Instance : AtRest(i)'
    BY <2>1 DEF AtRest
  <2> QED BY <1>2, <1>4, <1>5, <2>2, <2>3 DEF HostInv, AllStand, Stands
<1>7. CASE c # NoRequest /\ pc' \in FirstSteps(c) /\ job' = c /\ seen' = SeenAs(jobInst[c])
  <2>1. /\ c \in Request /\ jobStatus'[c] = "running" /\ Recovered[c] = "queued"
        /\ jobStatus[c] \in {"queued", "running"}
    BY <1>1, <1>7, ClaimEffect DEF AgreeInv, ExecutorInv, Active
  <2>2. inst' = jobInst[c] /\ action' = jobAction[c]
    BY <1>2, <1>7 DEF inst, action
  <2>3. /\ pc' \in {"error", "accepted", "success", "attempt"}
        /\ pc' = "success" => \/ jobAction[c] = "start" /\ runtime[jobInst[c]] = "up"
                              \/ jobAction[c] = "stop" /\ LooksStopped(jobInst[c])
        /\ pc' = "error" => SeenAs(jobInst[c]) # "live" \/ jobAction[c] = "wechat_bind"
    BY <1>7 DEF FirstSteps
  <2>4. SeenPurge'
    BY <1>2, <1>7, <2>2, <2>3 DEF SeenPurge, SeenAs
  <2>5. ASSUME NEW i \in Instance \ doubtful PROVE Stands(i)'
    <3>1. CASE i # jobInst[c]
      BY <1>4, <2>2, <3>1 DEF Stands, AtRest
    <3>2. CASE i = jobInst[c]
      <4>0. PICK a : a = jobAction[c]
        OBVIOUS
      <4>1. ~AtRest(i)'
        BY <2>2, <2>3, <3>2 DEF AtRest
      <4>2. pc' = "success" => Done(a, i)'
        <5>1. CASE a = "start"
          <6>1. pc' = "success" => runtime'[i] = "up" /\ Agrees(i)'
            BY <1>2, <1>4, <2>3, <3>2, <4>0, <5>1
          <6>2. runtime'[i] = "up" /\ Agrees(i)' => instStatus'[i] = "active"
            BY DEF Agrees, Archived, Deployed
          <6> QED BY <5>1, <6>1, <6>2 DEF Done
        <5>2. CASE a = "stop"
          <6>1. pc' = "success" => LooksStopped(i)
            BY <2>3, <3>2, <4>0, <5>2
          <6>2. instStatus'[i] \in {"active", "stopped"} /\ Agrees(i)' => runtime'[i] \in {"up", "stopped"}
            BY DEF Agrees
          <6>3. LooksStopped(i) /\ runtime'[i] \in {"up", "stopped"} => runtime'[i] = "stopped"
            BY <1>2 DEF LooksStopped
          <6> QED BY <1>4, <5>2, <6>1, <6>2, <6>3 DEF Done
        <5> QED BY <2>3, <4>0, <5>1, <5>2
      <4>3. pc' = "error" => a # "create"
        <5> SUFFICES ASSUME a = "create", pc' = "error" PROVE FALSE
          OBVIOUS
        <5>1. c \in ActiveJobs(i, {"create"})
          BY <2>1, <3>2, <4>0 DEF ActiveJobs
        <5>2. instStatus[i] = "provisioning"
          BY <5>1 DEF AgreeInv, ExecutorInv, ControlInv, ProvisioningBacked
        <5> QED BY <2>3, <3>2, <4>0, <5>2 DEF SeenAs
      <4>4. StandsAt(pc, action, i)'
        BY <1>4, <2>2, <2>3, <4>0, <4>2, <4>3 DEF StandsAt, After
      <4> QED BY <1>7, <2>1, <4>1, <4>4 DEF Stands
    <3> QED BY <3>1, <3>2
  <2> QED BY <1>2, <1>5, <2>4, <2>5 DEF HostInv, AllStand
<1> QED BY <1>1, <1>6, <1>7

\* What a success that Control accepts makes of the instance's row.
LEMMA AcceptedSuccess ==
  ASSUME AgreeInv, job \in Request, inst \in Instance, jobStatus[job] = "running",
         action = "create" => instStatus[inst] = "provisioning",
         NEW p, NEW none, Patch(job, "succeeded", p, none),
         NEW k, k = inst, NEW a, a = action
  PROVE  /\ a \in {"create", "start", "restart", "restore"} => instStatus'[k] = "active"
         /\ a = "stop" => instStatus'[k] = "stopped" /\ instStatus[k] \in {"active", "stopped"}
         /\ a = "delete" => instStatus'[k] = "deleted"
         /\ a \in {"purge_deleted", "cleanup_failed"} => instStatus'[k] = "purged" /\ jobInst'[job] = NoInst
         /\ a \notin {"create", "start", "restart", "restore", "stop", "delete", "purge_deleted", "cleanup_failed"}
              => instStatus'[k] = instStatus[k]
<1>1. /\ instStatus \in [Instance -> InstState] /\ jobInst \in [Request -> Instance \cup {NoInst}]
      /\ jobInst[job] = k /\ jobAction[job] = a /\ k \in Instance
  BY DEF AgreeInv, ExecutorInv, SystemTypeOK, TypeOK, inst, action
<1>2. SideEffects(job, "succeeded", p) /\ Accepts(job, "succeeded", p)
  BY DEF Patch
<1>3. CASE a = "create"
  BY <1>1, <1>2, <1>3 DEF SideEffects, CreateDone, RuntimeDone, RetainDone, PurgeDone, SettingDone, Lifecycle,
     Retention, Settings, FinishProvisioning, Provisioned
<1>4. CASE a \in Lifecycle
  <2>1. SetRuntimeStatus(k, IF a = "stop" THEN "stopped" ELSE "active") /\ instStatus[k] \in {"active", "stopped"}
    BY <1>1, <1>2, <1>4 DEF SideEffects, CreateDone, RuntimeDone, RetainDone, PurgeDone, SettingDone, Lifecycle,
       Retention, Settings, Accepts
  <2> QED BY <1>1, <1>4, <2>1 DEF SetRuntimeStatus, Lifecycle
<1>5. CASE a \in Retention
  <2>1. SetRetentionState(k, a)
    BY <1>1, <1>2, <1>5 DEF SideEffects, CreateDone, RuntimeDone, RetainDone, PurgeDone, SettingDone, Lifecycle,
       Retention, Settings
  <2> QED BY <1>1, <1>5, <2>1 DEF SetRetentionState, Retention
<1>6. CASE a \in {"purge_deleted", "cleanup_failed"}
  <2>1. PurgeInstance(k)
    BY <1>1, <1>2, <1>6 DEF SideEffects, CreateDone, RuntimeDone, RetainDone, PurgeDone, SettingDone, Lifecycle,
       Retention, Settings
  <2> QED BY <1>1, <1>6, <2>1 DEF PurgeInstance
<1>7. CASE a \notin Lifecycle \cup Retention \cup {"create", "purge_deleted", "cleanup_failed"}
  <2>1. instStatus' = instStatus
    BY <1>1, <1>2, <1>7 DEF SideEffects, CreateDone, RuntimeDone, RetainDone, PurgeDone, SettingDone,
       RecordSetting, instVars
  <2> QED BY <1>7, <2>1 DEF Lifecycle, Retention
<1> QED BY <1>3, <1>4, <1>5, <1>6, <1>7 DEF Lifecycle, Retention

\* No report of a job that runs is refused for its audit row.
LEMMA NotAudited ==
  ASSUME AgreeInv, job \in Request, jobStatus[job] = "running"
  PROVE  audit[job] = "none"
BY DEF AgreeInv, RecordsInv, AuditAgrees, Terminal

\* A success is refused only of a stop that found the instance gone from service
\* and of a restore whose port was given away.
LEMMA RefusedSuccess ==
  ASSUME AgreeInv, At("success"), inst \in Instance \ doubtful, action # "create",
         NEW p, ~Accepts(job, "succeeded", p)
  PROVE  Agrees(inst) \/ (action = "restore" /\ PortGivenAway(inst))
<1> DEFINE k == inst
<1>1. /\ Busy /\ job \in Request /\ jobInst[job] = k /\ jobAction[job] = action /\ k # NoInst
      /\ Done(action, k) /\ (action # "wechat_bind" => jobStatus[job] = "running")
      /\ pc = "success"
  BY Mine, NothingIsPurged DEF At, Busy, StandsAt, After, inst, action
<1>2. action # "wechat_bind" => jobStatus[job] = "running" /\ audit[job] = "none"
  BY <1>1, NotAudited
<1>3. CASE action \in {"start", "restart"}
  BY <1>1, <1>2, <1>3 DEF Done, Accepts, CreateDone, RuntimeDone, RetainDone, PurgeDone, SettingDone, Lifecycle, Retention, Settings
<1>4. CASE action = "stop"
  <2>1. instStatus[k] \notin {"active", "stopped"}
    BY <1>1, <1>2, <1>4 DEF Accepts, CreateDone, RuntimeDone, RetainDone, PurgeDone, SettingDone, Lifecycle, Retention, Settings
  <2> QED BY <1>1, <1>4, <2>1 DEF Done
<1>5. CASE action = "delete"
  BY <1>1, <1>2, <1>5 DEF Accepts, CreateDone, RuntimeDone, RetainDone, PurgeDone, SettingDone, Lifecycle, Retention, Settings
<1>6. CASE action = "restore"
  <2>1. ~LivePortFree(k, instPort[k])
    BY <1>1, <1>2, <1>6 DEF Accepts, CreateDone, RuntimeDone, RetainDone, PurgeDone, SettingDone, Lifecycle, Retention, Settings
  <2>2. PICK j \in Instance \ {k} : instPort[k] # NoPort /\ instPort[j] = instPort[k] /\ instStatus[j] \in Live
    BY <2>1 DEF LivePortFree
  <2>3. Product[k] = "hermes" \/ j \in doubtful
    <3> SUFFICES ASSUME Product[k] # "hermes", j \notin doubtful PROVE FALSE
      OBVIOUS
    <3>1. runtime[j] \notin {"up", "stopped"}
      BY <1>1, <1>6, <2>2 DEF Done, PortTaken
    <3>2. Agrees(j)
      BY <2>2 DEF AgreeInv, HostInv, AllStand, Stands, AtRest
    <3>3. instStatus[j] \notin {"provisioning", "failed"}
      BY <2>2 DEF AgreeInv, PortsInv, NoPortYet
    <3> QED BY <2>2, <3>1, <3>2, <3>3 DEF Agrees, Live
  <2> QED BY <1>6, <2>2, <2>3 DEF PortGivenAway
<1>7. CASE action \in {"purge_deleted", "cleanup_failed"}
  <2>1. action = "purge_deleted" => instStatus[k] = "deleted" /\ k \in restorable
    BY <1>1, <1>2 DEF AgreeInv, HostInv, SeenPurge, ExecutorInv, ControlInv, PurgeOfDeleted
  <2>2. action = "cleanup_failed" => instStatus[k] = "failed"
    BY <1>1, <1>2 DEF AgreeInv, CleanupOfFailed, Active
  <2> QED BY <1>1, <1>2, <1>7, <2>1, <2>2 DEF Accepts, CreateDone, RuntimeDone, RetainDone, PurgeDone, SettingDone, Lifecycle, Retention, Settings
<1>8. CASE action \notin Lifecycle \cup Retention \cup {"purge_deleted", "cleanup_failed"}
  BY <1>1, <1>8 DEF Done, Lifecycle, Retention
<1> QED BY <1>3, <1>4, <1>5, <1>6, <1>7, <1>8 DEF Lifecycle, Retention

LEMMA SuccessKeeps ==
  ASSUME AgreeInv, ReportSuccess
  PROVE  HostInv'
<1>1. /\ Busy /\ At("success") /\ pc = "success" /\ inst \in Instance /\ job \in Request
      /\ inst # NoInst
  BY AtWork, NothingIsPurged DEF ReportSuccess, At, Busy, AgreeInv
<1>2. PICK p \in Port \cup {NoPort}, none \in BOOLEAN, raised \in {"undo", "error"} :
        /\ Report("succeeded", p, none, "idle", raised)
        /\ raised = "undo" <=> action = "create"
  <2>1. PICK p \in Port \cup {NoPort}, none \in Notes :
               Report("succeeded", p, none, "idle", IF action = "create" THEN "undo" ELSE "error")
    BY DEF ReportSuccess
  <2>2. none \in BOOLEAN
    BY DEF Notes
  <2>3. CASE action = "create"
    BY <2>1, <2>2, <2>3
  <2>4. CASE action # "create"
    BY <2>1, <2>2, <2>4
  <2> QED BY <2>3, <2>4
<1>3. /\ jobAction' = jobAction /\ world' = world /\ runtime' = runtime
      /\ jobInst'[job] \in {inst, NoInst} /\ doubtful \subseteq doubtful'
  BY <1>1, <1>2, ReportEffect DEF AgreeInv, inst, world
<1>4. PICK k, a : k = inst /\ a = action
  OBVIOUS
<1>5. k \in Instance /\ OpenClaw(k) => runtime'[k] # "archived_off"
  BY <1>3 DEF AgreeInv, HostInv, ClawsArchive
<1>6. ASSUME Patch(job, "succeeded", p, none)
      PROVE  /\ jobStatus[job] = "running"
             /\ \A i \in Instance \ {inst} : instStatus'[i] = instStatus[i]
             /\ a = "purge_deleted" => jobInst'[job] = NoInst
             /\ k \notin doubtful => Agrees(k)'
  <2>1. jobStatus[job] = "running"
    BY <1>1, <1>6 DEF Patch, Accepts, AgreeInv, ExecutorInv, JobClaimed, Terminal
  <2>2. \A i \in Instance \ {inst} : instStatus'[i] = instStatus[i]
    <3>1. ControlInv
      BY DEF AgreeInv, ExecutorInv
    <3>2. \A i \in Instance \ {jobInst[job]} : instStatus'[i] = instStatus[i]
      BY <1>1, <1>6, <2>1, <3>1, PatchEffects
    <3> QED BY <3>2 DEF inst
  <2>3. action = "create" => instStatus[inst] = "provisioning"
    <3> SUFFICES ASSUME action = "create" PROVE instStatus[inst] = "provisioning"
      OBVIOUS
    <3>1. job \in ActiveJobs(inst, {"create"})
      BY <1>1, <2>1 DEF ActiveJobs, inst, action
    <3> QED BY <1>1, <3>1 DEF AgreeInv, ExecutorInv, ControlInv, ProvisioningBacked
  <2>4. /\ a \in {"create", "start", "restart", "restore"} => instStatus'[k] = "active"
        /\ a = "stop" => instStatus'[k] = "stopped" /\ instStatus[k] \in {"active", "stopped"}
        /\ a = "delete" => instStatus'[k] = "deleted"
        /\ a \in {"purge_deleted", "cleanup_failed"} => instStatus'[k] = "purged" /\ jobInst'[job] = NoInst
        /\ a \notin {"create", "start", "restart", "restore", "stop", "delete", "purge_deleted", "cleanup_failed"}
             => instStatus'[k] = instStatus[k]
    BY <1>1, <1>4, <1>6, <2>1, <2>3, AcceptedSuccess
  <2>5. ASSUME k \notin doubtful PROVE Agrees(k)'
    <3>1. Done(a, k)
      BY <1>1, <1>4, <2>5, Mine DEF StandsAt, After
    <3>2. CASE a \in {"create", "start", "restart"}
      BY <1>3, <2>4, <3>1, <3>2 DEF Done, Agrees
    <3>3. CASE a = "restore"
      BY <1>3, <2>4, <3>1, <3>3 DEF Done, ActiveLook, Agrees, OpenClaw
    <3>4. CASE a = "stop"
      BY <1>3, <2>4, <3>1, <3>4 DEF Done, Agrees
    <3>5. CASE a = "delete"
      BY <1>3, <2>4, <3>1, <3>5 DEF Done, DeletedLook, Agrees, OpenClaw
    <3>6. CASE a \in {"purge_deleted", "cleanup_failed"}
      BY <1>3, <2>4, <3>1, <3>6 DEF Done, Agrees
    <3>7. CASE a \notin {"create", "start", "restart", "restore", "stop", "delete", "purge_deleted", "cleanup_failed"}
      <4>1. Agrees(k)
        BY <3>1, <3>7 DEF Done
      <4> QED BY <1>3, <2>4, <3>7, <4>1 DEF Agrees, OpenClaw
    <3> QED BY <3>2, <3>3, <3>4, <3>5, <3>6, <3>7
  <2> QED BY <2>1, <2>2, <2>4, <2>5
\* answered
<1>7. CASE Patch(job, "succeeded", p, none) /\ Goto("idle") /\ doubtful' = doubtful
  <2>1. k \in Instance \ doubtful' => StandsAt("idle", a, k)'
    BY <1>6, <1>7 DEF StandsAt, After
  <2> QED BY <1>1, <1>3, <1>4, <1>5, <1>6, <1>7, <2>1, StandsAfter DEF Step
\* refused
<1>8. CASE /\ ~Accepts(job, "succeeded", p) /\ Goto(raised) /\ UNCHANGED cvars
           /\ doubtful' = IF action = "restore" /\ PortGivenAway(inst) THEN Doubted ELSE doubtful
  <2>1. UNCHANGED <<runtime, jobAction, jobInst, jobStatus, instStatus, instPort, restorable>>
    BY <1>3, <1>8 DEF cvars
  <2>2. ASSUME inst \in Instance \ doubtful'
        PROVE  StandsAt(raised, action, inst) /\ (action # "wechat_bind" => jobStatus'[job] = "running")
    <3>1. inst \in Instance \ doubtful /\ ~(action = "restore" /\ PortGivenAway(inst))
      BY <1>1, <1>3, <1>8, <2>2 DEF Doubted
    <3>2. Done(action, inst) /\ (action # "wechat_bind" => jobStatus[job] = "running")
      BY <1>1, <3>1, Mine DEF StandsAt, After
    <3>3. action # "create" => Agrees(inst)
      BY <1>1, <1>8, <3>1, RefusedSuccess
    <3>4. StandsAt(raised, action, inst)
      BY <1>2, <3>2, <3>3 DEF StandsAt, Before, After
    <3> QED BY <2>1, <3>2, <3>4
  <2> QED BY <1>1, <1>2, <1>3, <1>8, <2>1, <2>2, SameElsewhere DEF Step
\* lost
<1>9. CASE /\ Patch(job, "succeeded", p, none) \/ UNCHANGED cvars
           /\ Goto(raised) /\ doubtful' = Doubted
  <2>1. k \notin Instance \ doubtful'
    BY <1>1, <1>4, <1>9 DEF Doubted
  <2>2. \A i \in Instance \ {inst} : instStatus'[i] = instStatus[i] /\ runtime'[i] = runtime[i]
    BY <1>3, <1>6, <1>9 DEF cvars
  <2>3. a = "purge_deleted" => \/ jobInst'[job] = NoInst
                               \/ restorable' = restorable
    BY <1>6, <1>9 DEF cvars
  <2>4. raised \in Step /\ raised \notin {"working", "client", "success"}
    BY <1>2 DEF Step
  <2> QED BY <1>1, <1>3, <1>4, <1>5, <1>9, <2>1, <2>2, <2>3, <2>4, StandsAfter
<1> QED BY <1>2, <1>7, <1>8, <1>9 DEF Report, faults

\* What a failure that Control accepts makes of the instance's row.
LEMMA AcceptedFailure ==
  ASSUME AgreeInv, job \in Request, inst \in Instance, NEW p, NEW none, Patch(job, "failed", p, none),
         action = "create" => instStatus[inst] = "provisioning",
         NEW k, k = inst, NEW a, a = action
  PROVE  /\ instStatus'[k] = IF a = "create" THEN "failed" ELSE instStatus[k]
         /\ UNCHANGED <<jobInst, restorable>>
         /\ \A i \in Instance \ {k} : instStatus'[i] = instStatus[i]
<1>1. instStatus \in [Instance -> InstState] /\ jobInst[job] = k /\ jobAction[job] = a /\ k \in Instance
  BY DEF AgreeInv, ExecutorInv, SystemTypeOK, TypeOK, inst, action
<1>2. SideEffects(job, "failed", p)
  BY DEF Patch
<1>3. CASE a = "create"
  <2>1. FinishProvisioning(k, "failed", p)
    BY <1>1, <1>2, <1>3 DEF SideEffects, CreateDone, RuntimeDone, RetainDone, PurgeDone, SettingDone, Provisioned
  <2> QED BY <1>1, <1>3, <2>1 DEF FinishProvisioning
<1>4. CASE a # "create"
  <2>1. UNCHANGED <<jobInst, instVars>>
    BY <1>1, <1>2, <1>4 DEF SideEffects, CreateDone, RuntimeDone, RetainDone, PurgeDone, SettingDone
  <2> QED BY <1>4, <2>1 DEF instVars
<1> QED BY <1>3, <1>4

LEMMA FailureKeeps ==
  ASSUME AgreeInv, ReportFailure \/ ReportError
  PROVE  HostInv'
<1>1. /\ Busy /\ pc \in {"failure", "error"} /\ job \in Request /\ inst \in Instance \cup {NoInst}
      /\ NoInst \notin Instance
      /\ jobStatus[job] \in {"running"} \cup Terminal
  BY NothingIsPurged DEF ReportFailure, ReportError, At, Busy, AgreeInv, ExecutorInv, HasJob, JobClaimed,
     SystemTypeOK, TypeOK, inst
<1>2. PICK none \in BOOLEAN, raised \in {"error", "idle"} :
        /\ Report("failed", NoPort, none, "idle", raised)
        /\ raised = "idle" => pc = "error"
  <2>1. Notes \subseteq BOOLEAN
    BY DEF Notes
  <2>2. CASE ReportFailure
    BY <2>1, <2>2 DEF ReportFailure
  <2>3. CASE ReportError
    BY <2>3 DEF ReportError, At
  <2> QED BY <2>2, <2>3
<1>3. /\ jobAction' = jobAction /\ world' = world /\ runtime' = runtime
      /\ jobInst'[job] \in {inst, NoInst} /\ doubtful \subseteq doubtful'
  BY <1>1, <1>2, ReportEffect DEF AgreeInv, inst, world
<1>4. PICK k, a : k = inst /\ a = action
  OBVIOUS
<1>5. k \in Instance /\ OpenClaw(k) => runtime'[k] # "archived_off"
  BY <1>3 DEF AgreeInv, HostInv, ClawsArchive
<1>6. k \in Instance \ doubtful =>
        /\ IF a = "create" THEN runtime[k] \in {"none"} \cup Archived ELSE Agrees(k)
        /\ a # "wechat_bind" => jobStatus[job] = "running"
        /\ instStatus[k] \notin {"unborn", "purged"}
        /\ a = "create" => instStatus[k] = "provisioning"
  BY <1>1, <1>4, Mine DEF StandsAt
<1>7. ASSUME Patch(job, "failed", NoPort, none)
      PROVE  /\ \A i \in Instance \ {inst} : instStatus'[i] = instStatus[i]
             /\ restorable' = restorable /\ jobInst' = jobInst
             /\ k \in Instance \ doubtful => Agrees(k)'
  <2>1. jobStatus[job] = "running"
    BY <1>1, <1>7 DEF Patch, Accepts, Terminal
  <2>2. inst \in Instance
    BY <1>1, <2>1, NothingIsPurged DEF AgreeInv, ExecutorInv, ControlInv, RunningHasInstance, inst
  <2>3. action = "create" => instStatus[inst] = "provisioning"
    <3> SUFFICES ASSUME action = "create" PROVE instStatus[inst] = "provisioning"
      OBVIOUS
    <3>1. job \in ActiveJobs(inst, {"create"})
      BY <1>1, <2>1 DEF ActiveJobs, inst, action
    <3> QED BY <2>2, <3>1 DEF AgreeInv, ExecutorInv, ControlInv, ProvisioningBacked
  <2>4. /\ instStatus'[k] = IF a = "create" THEN "failed" ELSE instStatus[k]
        /\ UNCHANGED <<jobInst, restorable>>
        /\ \A i \in Instance \ {k} : instStatus'[i] = instStatus[i]
    BY <1>1, <1>4, <1>7, <2>2, <2>3, AcceptedFailure
  <2>5. ASSUME k \in Instance \ doubtful PROVE Agrees(k)'
    <3>1. CASE a = "create"
      BY <1>3, <1>6, <2>4, <2>5, <3>1 DEF Agrees
    <3>2. CASE a # "create"
      BY <1>3, <1>6, <2>4, <2>5, <3>2 DEF Agrees, OpenClaw
    <3> QED BY <3>1, <3>2
  <2> QED BY <1>4, <2>4, <2>5
\* answered
<1>8. CASE Patch(job, "failed", NoPort, none) /\ Goto("idle") /\ doubtful' = doubtful
  <2>1. k \in Instance \ doubtful' => StandsAt("idle", a, k)'
    BY <1>7, <1>8 DEF StandsAt, After
  <2>2. jobInst'[job] = NoInst => k \notin Instance
    BY <1>1, <1>4, <1>7, <1>8 DEF inst
  <2> QED BY <1>1, <1>3, <1>4, <1>5, <1>7, <1>8, <2>1, <2>2, StandsAfter DEF Step
\* refused: not so the failure of a creation
<1>9. CASE ~Accepts(job, "failed", NoPort) /\ Goto(raised) /\ UNCHANGED cvars /\ doubtful' = doubtful
  <2>1. UNCHANGED <<runtime, jobAction, jobInst, jobStatus, instStatus, instPort, restorable>>
    BY <1>3, <1>9 DEF cvars
  <2>2. ASSUME inst \in Instance \ doubtful
        PROVE  StandsAt(raised, action, inst) /\ (action # "wechat_bind" => jobStatus'[job] = "running")
    <3>1. action # "create"
      <4> SUFFICES ASSUME action = "create" PROVE FALSE
        OBVIOUS
      <4>1. jobStatus[job] = "running" /\ audit[job] = "none" /\ instStatus[inst] = "provisioning" /\ inst # NoInst
        BY <1>1, <1>4, <1>6, <2>2, NotAudited
      <4> QED BY <1>9, <4>1 DEF Accepts, CreateDone, RuntimeDone, RetainDone, PurgeDone, SettingDone, Provisioned, inst
    <3>2. Agrees(inst) /\ (action # "wechat_bind" => jobStatus[job] = "running")
      BY <1>4, <1>6, <2>2, <3>1
    <3> QED BY <1>2, <2>1, <3>1, <3>2 DEF StandsAt, After
  <2> QED BY <1>1, <1>2, <1>3, <1>9, <2>1, <2>2, SameElsewhere DEF Step
\* lost
<1>10. CASE /\ Patch(job, "failed", NoPort, none) \/ UNCHANGED cvars
            /\ Goto(raised) /\ doubtful' = Doubted
  <2>1. k \notin Instance \ doubtful'
    BY <1>1, <1>4, <1>10 DEF Doubted
  <2>2. \A i \in Instance \ {inst} : instStatus'[i] = instStatus[i] /\ runtime'[i] = runtime[i]
    BY <1>3, <1>7, <1>10 DEF cvars
  <2>3. restorable' = restorable
    BY <1>7, <1>10 DEF cvars
  <2>4. raised \in Step /\ raised \notin {"working", "client", "success"}
    BY <1>2 DEF Step
  <2> QED BY <1>1, <1>3, <1>4, <1>5, <1>10, <2>1, <2>2, <2>3, <2>4, StandsAfter
<1> QED BY <1>2, <1>8, <1>9, <1>10 DEF Report, faults

LEMMA HostStep ==
  ASSUME AgreeInv, [SystemNext]_svars
  PROVE  HostInv'
BY SucceedsKeeps, FailsKeeps, UndoKeeps, CrashKeeps, ScriptKeeps, RevokeKeeps, IngressKeeps, BindKeeps,
   RunningReport, ClientKeeps, OthersKeep, RestartKeeps, PollKeeps, SuccessKeeps, FailureKeeps
   DEF SystemNext, RunOnce

\* Whenever the executor is not at work on an instance that is not doubtful, the
\* metadata and the host agree on it: whatever was lost or cut off, and whatever
\* happened to the other instances meanwhile.
THEOREM MetadataStaysTrue == System => []MetadataAgrees
<1>1. SystemInit => HostInv
  <2> SUFFICES ASSUME SystemInit PROVE HostInv
    OBVIOUS
  <2>1. \A i \in Instance : instStatus[i] \in {"unborn", "active"} /\ runtime[i] = IF instStatus[i] = "active" THEN "up" ELSE "none"
    BY DEF SystemInit, Init
  <2>2. \A i \in Instance : Agrees(i)
    BY <2>1 DEF Agrees
  <2>3. pc = "idle"
    BY DEF SystemInit
  <2> QED BY <2>1, <2>2, <2>3 DEF HostInv, ClawsArchive, SeenPurge, Busy, AllStand, Stands, AtRest
<1>2. ExecutorInv /\ RecordsInv /\ PortsInv /\ CleanupOfFailed /\ HostInv /\ [SystemNext]_svars => HostInv'
  BY HostStep DEF AgreeInv
<1>3. HostInv => MetadataAgrees
  BY DEF HostInv, AllStand, Stands, MetadataAgrees
<1> QED BY <1>1, <1>2, <1>3, ExecutorKnows, SystemImplementsControl, RecordsSafe, PortsSafe, CleanupsSafe,
           PTL DEF System
=============================================================================
