# OpenClaw Manager in TLA+

A model of OpenClaw Manager: `manager-control` (job queue, metadata, accounts and
sessions, members, the Hermes auth bridge), `manager-executor` with the product
adapters and the provisioning scripts, the pool of ports, and the tenant networks.
TLC checks safety and liveness on small instances; all safety properties but some of
the adapters', and the refinements between control service, executor, queue and session
table, are proved with TLAPS for every value of the constants. All paths below are
relative to `src/`.

## 1. The system

Web front ends send requests to `manager-control`, the only service that writes the
metadata database. It turns operations into rows of `execution_jobs`. One
`manager-executor` polls for a job, runs it on the Docker host, and reports with
PATCH calls; one job runs at a time. The scripts the executor calls write to the
metadata database themselves at the end. All products share one range of host ports
and, EvoScientist excepted, one Nginx; each instance has a Docker network of its own.
Users log in through the UIS, a local password or an emergency login; a Hermes
instance sends its visitors to the manager, which hands out one-time codes.

```
 UIS, browsers --> admin/user web --HTTP--> manager-control <--claim/PATCH/GET-- manager-executor
                                                |   ^                                |
                        Hermes plugin --codes---|---+                                v
                                                v                        adapters, *.sh --> Docker, Nginx,
                          migration script --> metadata (SQL) <--metadata_cli.py--/         networks, users/,
                                                                                            recycle bin, model proxy
```

| Component | State | Operations | What is hard | What makes it correct |
|---|---|---|---|---|
| job queue: `services/manager-control/app.py`, `metadata_store.py` 956-1294 | `execution_jobs` | create by single request or batch, claim with recovery of stale jobs, PATCH, cancel | single and batch handlers have different checks; a slow job is taken for stale; results that arrive after a recovery | one job at a time, in order; final results; creations, deletions and restores never rerun; exclusive jobs are alone |
| instances, `ports`, `operation_records`: `metadata_store.py`, `db/schema.sql` | status, restore state, port, bookings, audit rows | side effects of PATCH, of recovery and of the scripts' own writes | one transaction with several helpers, each of which may refuse | no abandoned `provisioning`, no job without its row, no booking without an instance, audit = job |
| executor: `services/manager-executor/executor.py` | position in `run_once`, running WeChat command | claim, announce, operate, publish, roll back, report, retry; WeChat binding with cancellation | lost calls, death between any two steps, reports refused after the work was done | no second execution, metadata and host agree, every job ends |
| adapters and scripts: `services/manager-web/instance_adapters.py`, `scripts/*.sh` | containers, data directories, recycle bin, sites, settings | create, delete, restore, purge, cleanup, start/stop/restart, version, ingress, model provider, skills, Basic Auth | a command fails, times out done or not done, a file operation raises, the executor is killed; roll-backs that do not undo everything | success means done, "rolled back" means as before, data survive all but a permanent deletion |
| port pool: `scripts/lib_port_allocator.sh`, `ports` rows, Nginx compose file | `ports.txt`, rows, mappings, sites | allocate, book, publish, release | reuse, rewinding cursor, ports of recycled instances | an active instance keeps its port and is reached there |
| tenant-network allocator: `scripts/tenant_network_allocator.py`, `lib_tenant_network.sh` | Docker's networks, lock file | prepare networks with roll-back, remove unused ones | two runs at once, removal without the lock, foreign networks, a full pool, death while holding the lock | no subnet planned twice, a roll-back removes its own only |
| accounts and sessions: `metadata_store.py`, `web_common.py`, `user_app.py`, `admin_app.py` | users, identities, credentials with lock, sessions, active provider | logins, logouts, imports, disabling, password resets, redeployment | logins that are under way while an account or sign-on ends; lock and reset in any order | bounded guesses, disabled and signed-out users stay out, an administrator remains |
| members and Hermes auth bridge: `hermes_auth_bridge.py`, `manager-control/app.py`, `templates/hermes/plugins/campus-uis-bridge`, `scripts/migrate_hermes_uis_auth.py` | members, clients, codes, tokens, `.env` | change members, authorise, redeem, create and revoke clients, migrate | a code is redeemed while what stands behind it goes; the script runs beside the executor | tokens are backed, client = `.env`, tokens of a former life are refused |
| model proxy: `services/model-proxy/app.py` | token and allow-list files | answer by token and model | the files change in several steps | an instance is never locked out by a change that fails |
| read API, activity, other forms, observability, PDF service, consistency checker | none of their own | reads, forms, streaming | – | – |

`PROJECT.json` lists the components with their status, and under `hazards` what in
this code a test would hardly reach, each at its line, with the properties that would
show it going wrong.

## 2. Modules

| Module | Models | Composes |
|---|---|---|
| `JobQueue` | abstract: what the queue promises its callers | – |
| `ManagerControl` | queue, instance rows, ports rows, audit rows; the executor may report anything | implements `JobQueue` (`QueueSpec`) |
| `ManagerSystem` | the real executor, lost calls, death; adapters by their ends | extends `ManagerControl`, implements it (`Spec` as a property); uses `HostEnds` |
| `HostEnds` | what each operation may leave of an instance | used by `ManagerSystem` and `HostPromise` |
| `HostPromise` | abstract: an operation begins, and ends with one of those ends | – |
| `AdapterHost` | host, kinds of steps (commands, file operations, calls), faults | – |
| `OpenClawAdapter`, `EvoAdapter`, `HermesAdapter` | the life-cycle operations of each product, command by command, with their roll-backs | extend `AdapterHost` |
| `Settings` | model provider of the three products, skills, Basic Auth | extends `AdapterHost` |
| `Adapters` | all of them, and their properties | implements `HostPromise` (`Promise`) |
| `PortPool` | allocator, ports rows, mappings and sites | stands beside `ManagerSystem`, see below |
| `TenantNetworks` | runs of the network allocator, attachments, removals, other networks | stands alone |
| `SessionTable` | abstract: session rows and the accounts they are for | – |
| `Access` | accounts, credentials, logins, sessions, provider, redeployment | implements `SessionTable` (`KeepsTable`) |
| `AuthBridge` | members, clients, codes, tokens; the executor's jobs and the migration script as far as clients go | uses `SessionTable` for sessions |
| `MC*` | functions and symmetry for TLC | – |
| `*_proofs` | theorems | extend the module they are about; `ManagerSystem_proofs` has those about `ManagerControl`, too, and `AdaptersPromise_proofs` goes on from `Adapters_proofs` |

**ManagerControl.** Control is one synchronous gunicorn worker
(`services/manager-control/Dockerfile:14`), and each write is a transaction, so a
handler is one action: `CreateInstance`, `CreateInstances`, `CreateJob`,
`CreateBatch`, `Claim`, `Patch`, `Cancel`. Two writers are not handlers: time
(`HeartbeatLapses`: STALE_SECONDS pass) and `ScriptSetsStatus`, the
`set-instance-status` call at the end of `delete_user.sh` and `restore_user.sh`. A
refused request changes nothing and is not a step. `Accepts` gathers the transition
table of PATCH and every `ValueError` or integrity error its helpers can raise;
`SideEffects` is what they write. `older[r]` is the order of `(created_at, id)`.
`jobInst` becomes `NoInst` when the row is deleted (`ON DELETE SET NULL`). An instance
is its public id, which is never reused; a name may be. The value carried by a setting
is identified with its request.

**ManagerSystem.** `pc` is the position in `run_once`; each step between two calls is
an action. Host state is one value per instance (`runtime`: up, stopped, broken,
archived, archived_off, buried, none) and `husks` (recycle entries without data). An
operation is one step with one of the ends of `HostEnds`; `Adapters` shows that the
adapters come to no other. Any call may be lost before or after Control committed it
(`Report`). `doubtful` collects the instances with an operation that was cut off, half
undone or not reported, and those restored onto a port that had been given away in
between (`PortGivenAway`: Control refuses the report of such a restore), so that
properties can say what holds *but for* those.

**AdapterHost, the three adapters, Settings.** One instance on the host and one
operation at a time, as the executor runs them. `pc` names the next step, `stack` the
functions that wait (an operation calls start, stop, restart, ingress, as the code
does), `kept` the local variables. `Runs` is a command that is done, fails (with what
it may have done by then), or times out and raises, done or not; `Writes` and `Moves`
are file operations, which raise; `Reads` an inspection; `Tries` a command whose code
is ignored; `Decides` a branch. `Killed` ends everything without a roll-back. A
creation includes what the executor does after it, the publication and the retraction.
`RowAfter` is where Control's row then stands, and `Admitted` what Control accepts in
that state, so that TLC runs the sequences of operations that the platform lets
through. `Menus` are the requests made of one instance: its life cycle; its provider
changes between starts and stops; its skills and Basic Auth. What the settings touch
(token, allow-list, configuration, skills directory, password of the site) and the
life cycle read and write apart from each other, except that start, stop and restart
need both.

**PortPool.** `cursor` is `ports.txt`; `owner` and `released` are the ports rows;
`mapped` and `listens` the Nginx compose file and the ingress configurations. One
executor runs one job at a time, so an operation with its report is one action.
`Backend` chooses the branch of `allocate_port`: PostgreSQL asks for the live
instances' ports and never goes back to released ones; SQLite reuses released rows and
writes port+1 to `ports.txt` either way. The probe binds a socket in the executor's
own container (`services/docker-compose.yml:25`), where ports published on the host
are free, so it excludes nothing. `ManagerSystem` leaves open which port a creation
reports, and is thereby more general than `PortPool` about ports.

**TenantNetworks.** Subnets are the numbers of the pool in order. A run waits for the
lock, looks its networks up, surveys Docker, creates, and on a refusal removes what it
created. Each of these is a step; `Create` and `Undo` are one per network. Docker
refuses a name or a subnet that is taken. Attachments, `remove_tenant_network_if_unused`
and networks that are not the platform's go on beside it without the lock, and a run
may be killed at any step: `run_command`'s time-out kills bash only, so an allocator
may also go on as an orphan beside the next one, which is why there are two runs. Host
routes that overlap the pool make a run fail before it plans.

**Access.** A login is a row in `user_sessions` made for an account that exists and is
active at that moment; an external one is a callback at the web service (`Callback`)
and a call to Control later (`ExternalLogin`), between which the account or the sign-on
may end. `configured` is the environment each service was started with: they are
restarted one after the other. A password is right or wrong; `guesses` counts the wrong
ones that were compared with the hash since the last success, reset or lapse of a lock.

**AuthBridge.** Sessions are `SessionTable`'s rows. A code is bound to session, user,
instance and client, goes with any of them (`ON DELETE CASCADE`), and is redeemed
within its time. The executor's create, delete and restore are cut where the client's
life meets them: files, registration, start, move, revocation, report; `doubt` collects
the instances with a call that was lost or a step of the script that a job interrupted.

**JobQueue** knows nothing of instances: accept in order, dispatch the first waiting
job when nothing runs, give up running jobs (fragile ones fail, others wait again at
their old place), end. `ManagerControl` refines it with `status <- jobStatus,
ahead <- older, fragile <- jobs with a Manual action, retried <- retried`.

## 3. What is checked

| Run | Instance | Properties |
|---|---|---|
| `ControlMix` | 4 requests, an EvoScientist and an OpenClaw instance, 1 port, batches of 2; life cycle, pairing and settings | `ControlInv`, `RetentionAlone`, `ProvisioningBacked`, `RunningHasInstance`, `BookingsBacked`, `AuditAgrees`, `PairingAlone`, `SettingsFollowOrder`, `JobTransitions`, `QueueSpec` |
| `SystemMix` | 3 requests, an EvoScientist and an OpenClaw instance, 1 lost call, bindings | `MetadataAgrees`, `OneBinding` |
| `SystemHermes` | 3 requests, 1 Hermes instance, 2 lost calls, 1 crash | `SystemTypeOK`, `ManualOnce`, `WorksOnRunningJob`, `Spec` |
| `SystemSettles` | 2 requests, 1 lost call, 1 crash, fair | `JobsSettle`, `CancelStopsBinding` |
| `AdapterHolds` | each product, three menus (life cycle; provider and skills or Basic Auth, each between creations, starts, stops, deletions and restores), 3 faults | `RolledBack`, `Delivered`, `DataKept`, `ProviderAdmitted`, `Promise` |
| `PoolKept` | 3 products, 4 ports, PostgreSQL, `ports.txt` may be lost | `PoolInv`, `ActiveReached`, `RestorablePortKept`, `ActivePortsBooked`, `SitesKept` |
| `NetworksKept` | 2 networks, 2 runs, 4 subnets of which 1 is excluded and 1 may be a foreign network's | `NetworksInv`, `PlansHold`, `Prepared`, `FailureUndone` |
| `AccessHolds` | 2 administrators, 1 session, 1 sign-on, 2 wrong guesses, 1 redeployment | `GuessesBounded`, `DisabledStaysOut`, `LogoutEndsSessions`, `AdminRemains`, `KeepsTable` |
| `BridgeHolds` | 1 Hermes instance, owner and another user, 1 code, 2 clients, 1 fault | `CredentialMatches`, `RestoredForgetsTokens`, `TokensBacked` |

`ControlInv` contains the type invariant of the control service, `PoolInv` and
`NetworksInv` those of theirs; `AdapterTypeOK`, `AccessTypeOK` and `BridgeTypeOK` are
stated in their modules, the last two of them proved as parts of inductive invariants.

What they show:

* However single requests, batches, slow jobs, recoveries and cancellations meet, a
  deletion, restore or permanent deletion has its instance to itself; an instance is
  `provisioning` exactly while its create job is active; the running job never loses its
  row; a stale job requeued keeps its place, so settings are applied in order; results
  are final and audited once.
* With a real executor that loses calls and dies, no creation, deletion or restore is
  carried out twice, the executor works on the job Control thinks is running, and
  metadata and host agree on every instance that is not doubtful, whatever happened to
  the others. Three allowances are part of `Agrees`: Hermes and EvoScientist restore a
  stopped instance stopped although every restore is recorded `active`; an OpenClaw
  instance whose creation failed can be deleted with nothing to archive; and what an
  undone creation left in the recycle bin may outlast the row.
* Every step of the composed system is a step of `ManagerControl`, so what is proved of
  `ManagerControl` holds of it. Every job ends, and the command of a cancelled binding
  stops.
* Whichever single command of an operation fails, what the adapter then calls rolled
  back is as it was; what it calls done without a failure is done and reached; no
  sequence of operations, failures and deaths loses data but a permanent deletion; and
  every operation ends in one of the ways `ManagerSystem` counts with (three faults, so
  that an operation, its roll-back and the next operation fail).
* A change of the model provider of a Hermes or EvoScientist instance never locks it out
  of the proxy, not even half-way. OpenClaw's script narrows the allow-list before it
  changes the configuration and puts nothing back, so the property leaves it out.
* With PostgreSQL and until `ports.txt` is lost, every port is given out once and
  nobody's site or mapping is disturbed. If it is lost, a recycled instance can lose its
  port, but no active instance loses its site.
* Two runs of the network allocator never take what the other has planned, and the
  roll-back of one never removes a network of the other, with removals that take no lock
  and deaths in between. Only a network that is not the platform's can spoil a plan.
* However logins, resets and lapsing locks mix, no more than `MaxFailures` wrong
  passwords are compared before the lock; a disabled account has no session whatever was
  under way, unless an import (which ends no session) set its status; a sign-on that the
  UIS ended has no session but one whose login was still on its way; administrators
  cannot lock each other out.
* A Hermes instance at rest is registered with the client of its `.env`, unless a fault
  or the migration script came between; a token is issued once and only while session,
  user, instance and client are there; a restored instance refuses older tokens.

**Bounds.** `MaxBatch` (the code allows 100), `MaxAttempts` = 2 (one retry), `MaxLost`,
`MaxCrashes`, `MaxFaults`, `MaxFailures`, `MaxRedeploys`, `MaxClients`, `Menus`, and the
numbers of requests, instances, ports, networks, users, sessions and codes. Four
requests are enough for a job that runs, one that waits, a batch of two, and a late
report; the safety of the queue for any number is proved. Three requests take an
instance through three operations of its life, and `Init` starts it active or not yet
created, so that delete-restore-purge and create-delete-restore are both there. Two
instances are needed for batches and exclusivity. Four ports for three instances let the
range run out. A second loss or crash adds nothing to an instance that is already
doubtful; `SystemHermes` loses two, so that a report and the error report that follows
are both lost. The adapters' operations are unbounded in number; only faults are counted.
Three usable subnets for two networks, one of them contended by a foreign network, let a
plan succeed, be refused half-way, and find no room. One session row is enough to see it
made under a provider, ended and made again; two users are needed for one who disables
the other. Requests, users, sessions, networks and runs are symmetric where a run says
so; the liveness run uses no symmetry.

**Fairness** (`FairSystem`). `RunOnce`: the executor's loop in `main()`
(`executor.py:695-704`) goes on for ever and its calls and subprocesses return or time
out. `Restart`: `restart: unless-stopped` (`services/docker-compose.yml`). `BindExits`,
`BindExpires`: the command runs under `timeout 300s` (`executor.py:433`). `BindPolls`:
the loop asks Control at each turn. `Lapse`: time. All weak; nothing is assumed about
clients. That STALE_SECONDS (900) outlasts the 300 seconds is a guard of `Lapse`.

Deadlock is checked in `ControlMix`, the `System*` runs and `NetworksKept`; not where
the system may really stop: the range of ports runs out, an instance whose faults are
used up and that admits no operation rests, all sessions and codes are used.

## 4. What is proved

Each `*_proofs` module proves theorems about the module it is named after;
`ManagerSystem_proofs` begins with those about `ManagerControl`, which it needs, and
`AdaptersPromise_proofs` ends those about `Adapters` with the refinement, `Delivered` and
`RolledBack`. Of the 40 properties of the runs that pass, 38 are the subject of a theorem,
two of them (`Delivered`, `RolledBack`) for Hermes only. Assumptions on constants are
`ControlAssumption`, `SystemAssumption`, `PoolAssumption`, `NetworksAssumption`,
`AccessAssumption`, `BridgeAssumption` and `HostAssumption`, evaluated by TLC in the runs of their modules.

* **Control service** (any sets of requests, instances, ports, products, actions).
  `ControlInv` is inductive. Beyond the type invariant it consists of the three
  properties wanted, `RetentionAlone`, `ProvisioningBacked`, `RunningHasInstance`,
  and what they need: unused requests are blank (`Blank`), active jobs have rows
  unless the instance was purged (`JobsHaveRows`), an instance has one create job
  (`CreatedOnce`), an active purge is on a deleted instance (`PurgeOfDeleted`), one
  job runs (`OneRuns`), interrupted jobs are failed (`InterruptedFailed`). Without
  `OneRuns` and `CreatedOnce` a late report could meet a row that is gone; without
  `PurgeOfDeleted` a purge could take a provisioning row. There is one lemma per
  action (`CreateJobInv`, `ClaimInv`, ...); `PatchEffects` sums up what a report does to
  the instance, so that `PatchInv` need not open every helper. `TypeCorrect`,
  `ControlSafe`, `RetentionIsAlone`, `ProvisioningIsBacked`, `RunningKeepsInstance`
  follow.
* `BookingsStayBacked` needs more: `ControlInv` with `BookingsBacked` and the fact that
  an instance that was never active has no port.
* **Records of the control service** (in `ManagerSystem_proofs`). `OrderInv` adds to
  `ControlInv` that `older` orders the requests (`Ordered`) and that a job which runs or
  succeeded came before every job still to be done (`InTurn`): `JobsInTurn`, and from it
  the action property `JobsMoveOn`. Four more facts make `AuditAgrees`, `PairingAlone`
  and `SettingsFollowOrder` inductive (`RecordsInv`): a recorded value comes from a
  change that succeeded (`RecordedDone`); a job asks only for what the product supports
  (`Supported`); beside a clean-up only starts, stops and restarts are accepted
  (`BesideClean`), so that only those can lose their instance (`OrphansPlain`) and no
  change of a setting ends without a row to write to. `SettingsStayInOrder`,
  `AuditStaysTrue` and `PairingStaysAlone` follow.
* **Refinement**, `ControlImplementsQueue`: initial states map to initial states and
  every action, `Claim` with its recovery included, to a step of `JobQueue` or a
  stutter, under `ControlInv` (a `Claim` is `Dispatch` of the lapsed jobs, dropping
  those without instance).
* **JobQueue**: `QueueRunsOne`, `QueueResultsFinal`, `QueueFragileOnce`; by the
  refinement they hold of the control service, which `ManualNotRetried` draws for the
  last: a create, delete or restore that a claim gave up is not put back.
* **Composed system** (`ManagerSystem_proofs`), for any numbers of requests, instances,
  lost calls and deaths. `ExecutorInv` says what the executor knows: it has a job from
  the claim to the last report, that job is the one Control has running (or a binding
  that was cancelled, or, while a failure is reported, one that has ended), it keeps its
  instance, and each position in `run_once` suits the job's action. From it follow
  `SystemTypeCorrect`, `WorksOnItsJob` and the refinement `SystemImplementsControl`, so
  that every theorem about `ManagerControl` holds here (`SystemKeepsControl`).
  `ManualRunsOnce` adds that an operation was counted only for a job that was claimed
  and will not be attempted again; `BindsOneAtATime`, that a command nobody watches is
  in a doubtful or deleted container. `MetadataStaysTrue` (`MetadataAgrees`) needs the
  most: `AgreeInv` joins `ExecutorInv`, the records, the ports (an instance that was
  never active has none), and how the instance of the job stands at each position
  (`StandsAt`): as the metadata say up to the operation, as the operation leaves it
  (`Done`) up to the report, and as the metadata say again once there is only a failure
  to report. What the claim said of an instance to be purged must still hold when it is
  purged (`SeenPurge`). One lemma about `HostEnds` tells how each end looks, one per
  action what it does to the metadata, and the rest is matching the two.
* **Port pool** with `Backend = "postgres"`, for any instances, products and range:
  `PortsGivenInOrder` (`PoolInv` is inductive; the point is that, until `ports.txt` is
  lost, every port in use or in the recycle bin lies below the cursor, so a new one is
  nobody's), then `ActiveStaysReached`, `RestorableKeepsPort`, `ActiveRowsAgree`. `SitesStay` holds
  with `ports.txt` lost as well: its invariant `SitesInv` never mentions the cursor and
  rests on the unique index over live ports alone (`idx_instances_live_port`).
* **Network allocator**, for any networks, runs, pool, exclusions and foreign networks:
  `NetworksSafe` (`NetworksInv` is inductive), `PlansNeverTaken`, `PreparedStays`, and
  the action property `FailuresUndone`. What `PlansHold` and `Prepared` need is that the
  run that works has the lock (`LockHeld`), that what a run found or made stays until
  somebody removes it (`FoundStays`), and that no network a run has made is one that a
  successful run still has (`MadeAnew`): without the last, a roll-back could take away
  what another run has reported.
* **Accounts and sessions**, for any accounts, cookies, sign-ons and deployments:
  `AccessSafe` (`AccessInv` is inductive), from which `GuessesStayBounded`,
  `DisabledStayOut`, `SignedOutStayOut` and `AdministratorRemains`. Two things are
  added to make them so: `GuessesRecorded`, that the wrong passwords since the last
  reset are those the credential has counted, and `SignOnsSeen`, that a session of a
  sign-on is there only once Control has seen its callback. Most actions are handled by
  what they do to rows: a row stays, goes, lapses, or is made for an active account
  (`RowsStep`). That is also what `SessionTable` allows, so `AccessKeepsTable`, the
  refinement, follows from the same lemmas.
* **Auth bridge** (`AuthBridge_proofs`), for any users, instances, codes, clients and
  faults: `BridgeSafe` (`BridgeInv` is inductive), from which `BridgeTypeCorrect`,
  `CredentialsMatch`, `RestoredForgets` and the action property `TokensStayBacked`. The
  invariant says that client ids are drawn in ascending order, so that a fresh one is
  in no token (`IdsDrawn`); that a code is there only with its session and has a token
  only if it was used (`CodesBacked`); and for each instance that no fault and no step
  of the script came between, what `.env`, registration and data are at each point of a
  creation, deletion, restore or migration (`Sound`), among it that no token of a
  restored instance is for the client in its `.env`. Every step is about one instance
  and leaves the others alone (`LocalTo`), so each is looked at with one instance only.

* **Adapters** (`Adapters_proofs`), for any number of faults and any sequence of
  operations that the platform admits. `AdaptersPlaced` says where the running operation
  can stand: each step and each function waiting on the stack belong to a kind
  (`Kind`), a function has at most three callers (`Callers`, `Chain`), and some kinds
  run for one operation only (`Suits`: permanent deletion only when it was asked for).
  One lemma per function of the adapters tells that each of its steps goes on within the
  function, calls or returns (`Proceeds`), and what it leaves alone. `DataInv` adds two
  facts about the recycle bin: a deletion that is undone takes the entry away only once
  the data are back, and OpenClaw has data in the bin only under an entry. With them
  `DataStays` follows: moving parts one by one loses none (`MovesKeep`), and
  where a roll-back removes a recycle entry, what the entry holds is at home as well.
  `ProviderStays` needs what a change of provider knows on its way (`KeyInv`): what it
  noted is what the instance had, the allow-list only grows until the last step, the
  model wanted is allowed before the configuration names it, and a roll-back puts the
  configuration back before token and allow-list (`Granted`).

* **Adapters keep their promise**: `AdaptersKeepPromise` (`Adapters_proofs` for Hermes,
  `AdaptersPromise_proofs` for OpenClaw, EvoScientist and the theorem), the refinement
  of `HostPromise` by `Adapters` with any number of faults. It closes the gap below
  `ManagerSystem`, which takes an operation for one step with an end of `HostEnds`. A
  step of an adapter is one of four: an operation is opened (`Begins`), goes on (a
  stutter: the mapping shows the instance as the operation found it), is concluded
  (`Finishes`), or a deployment that was cleaned up is forgotten. To conclude with one
  of the ends for the outcome, what the operation may have done so far has to be
  invariant. `PromiseInv` is `DataInv` with one invariant per product (`HermesInv`,
  `ClawInv`, `EvoInv`), each in two parts. While nothing runs, it says what Control's row
  implies of the host (`HermesRested`, ...): without it an operation would begin from
  states that `Admitted` excludes. While an operation runs, it says what of the instance
  is as it was and what may have changed (`HermesLeaves`, ...), and, for operations with
  a roll-back or with an order that matters, what holds at each position with its
  callers and local variables (`UpdateAt`, `EvoDeleteAt`, `ClawRestoreAt`, ...): that
  EvoScientist's update knows the image it goes back to only with the data in place,
  that a deletion noted whether the container ran before it removed it, that a restore
  reads that note before the entry goes. A roll-back that is cut off, fails or succeeds
  then leaves one of the ends for its outcome. One lemma per function of the adapters,
  with the function that called it as parameter, carries the invariant over its steps.

* **A success of the Hermes adapter is one**: `HermesDeliversAll`, `Delivered` for
  Hermes with any number of faults. `ClearInv` is `PromiseInv`'s companion: it describes
  an operation that has met no failure (`Smooth`) and began on an instance nothing had
  gone wrong with. `HermesAt` gives, for every position an operation may be at with its
  callers and local variables, each field of the host as it is by then: as the operation
  found it, or as the steps behind it have left it. `Counted` ties this to the property:
  faults never fall, so an operation that ends with as many as it began with met none
  at any step. The lemmas follow the functions as those of the promise do
  (`StopsClear`, `RevivesClear`, ...), and those that fail or roll back need no
  description at all, which is what makes `Delivered` shorter to prove than `RolledBack`.
* **What Hermes reports as rolled back is back**: `HermesRollsBack`, `RolledBack` for
  Hermes with any number of faults. `BackInv` describes an operation that has met one
  failure at most (`Slight`) and began on a sound instance. `SettledAs` has the containers
  Hermes does not use as they were, and the settings, of all operations but a change of
  the model provider; `CourseAt` has a
  predicate per operation with a roll-back (`RenewBack`, `DropBack`, `BuildBack`,
  `ReviveBack`, `ProvideBack`): what is as the operation found it, what its local
  variables note of that, and what the roll-back has put back so far. Where a roll-back
  is under way, the one failure is behind it (`faults > before.faults`), so the commands
  that build the runtime again succeed: that excludes every way on but the one to the end.
  A manifest is in the entry that is listed and in no other (`NotesOn`), so an entry that
  was not there when a deletion began has left no note either. `BackSteps` puts the
  operations together; `PutBack` is what is shown at the end, and `RevertsLater` that
  `RolledBack` follows. The invariant was first checked with TLC.

Only model-checked: `JobsSettle` and `CancelStopsBinding`, which are liveness under
fairness and out of the prover's reach; `RolledBack` and `Delivered` for OpenClaw and
EvoScientist. The products share neither functions nor local variables, so each needs an
invariant like `HermesAt` and `BackInv` for its own; for `RolledBack` it describes all of
the host at each step of each roll-back, for each step that may have failed.

## 5. Where the code and what is said of it differ

Each has a run whose counterexample shows it:

* `ExclusiveJobs`: `create_action_batch` (`manager-control/app.py:1867`) looks only
  for the same action, a delete or a restore, so it queues a start beside an active
  `cleanup_failed`; the single handler refuses that (`app.py:2401`, `2435`).
* `PurgedData`: after a restore that failed at its nginx test, permanent deletion takes
  the empty recycle entry for the data: the row goes, directory and container stay, what
  the consistency checker calls `metadata_orphan_dir`.
* `FailedUpdate`: an EvoScientist update with a version that is no digest, or whose
  inspection times out, removes both containers in its roll-back before it knows which
  image to go back to (`instance_adapters.py:1489-1521`); nothing runs afterwards, where
  `docs/evoscientist-adapter.md:66` promises the previous image.

Seen while modelling, without a run of their own. In the adapters
(`manager-web/instance_adapters.py`) and scripts:

* A Hermes restart of a stopped instance starts it with its site disabled (1717-1725),
  and a refresh of its ingress enables the site of a container that is stopped.
* A stopped instance is restored stopped and recorded `active`;
  `docs/hermes-adapter.md:52` says a restore recreates the same state. It also says the
  same port; with SQLite that port may have been given away in between.
* The Hermes restore loses the manifest when its last `rmtree` fails and it rolls back
  (2266-2316); its update's `docker rm` stands outside the try, so a time-out there
  leaves nothing running.
* EvoScientist's update and restore ignore a final `stop` that fails, and a restore
  whose final `stop` times out removes the containers after the recycle entry is gone.
* A Hermes deletion that times out while cleaning up networks leaves the data archived
  and the row live; a deletion that was killed leaves a recycle entry, with which later
  deletions are refused. A second OpenClaw deletion after a killed one buries the data
  under an empty entry; `delete_user.sh` ignores a `docker compose down` that fails.
* A creation whose publication raises is not undone (`executor.py:377`), and one that
  is retracted archives its data while it reports "resources removed" (`executor.py:396`).
  An OpenClaw creation that times out is killed with SIGKILL, so its exit trap does not
  run.
* A killed OpenClaw update leaves the new image in the compose file and the old
  container. `set_model_provider.sh` rolls nothing back. The roll-back of an EvoScientist
  provider change leaves a container that was restarted already with the new
  configuration, and a `docker exec` that timed out may go on in the container.
* With `ports.txt` lost, `restore_user.sh` onto a port an EvoScientist container holds
  stops under `set -e` (line 327) and leaves a mapping with which the shared Nginx cannot
  start (`RestoreStopsNginx`). With SQLite, permanent deletion releases ports rows by
  number, also when the number has been another instance's since
  (`metadata_store.py:1597`), and the reuse of a released port sets the cursor back.

In Control:

* `docs/architecture/manager-control.md:69` says that a running job without heartbeat
  is requeued; a stale create, delete or restore is failed for a human
  (`metadata_store.py:1117`). The model, and `QueueFragileOnce`, follow the code.
* `metadata-data-dictionary.md:165` says that sessions are cleared when the provider
  changes; in mixed mode (`app.py:444`, 615, 639, 688) they are not.
* `metadata-data-dictionary.md:238` defines `restorable` as complete recycled data; an
  OpenClaw instance whose creation failed becomes restorable with nothing.
* `hermes-uis-auth-bridge.md:254` says that a deleted instance's client is revoked; the
  migration script can register one for an instance whose deletion has passed that point
  (`migrate_hermes_uis_auth.py:173`), and every restore is then refused.
* When the answer to a create's success is lost, the executor removes an instance that
  Control has recorded active (`ReportSuccess`, `Undo`).

## 6. Not modelled

The forms and pages that only call Control; reads (status, logs, activity, usage); the
streaming of the model proxy; the consistency checker and the metadata migrations, which
are one-shot tools (the checker's rules are used as properties); operators who run
scripts or `metadata_cli.py` by hand, except for identities and passwords; a second
executor or a second Control worker (neither is deployed); messages and outputs of jobs;
the one-time file with a creation's password, which is deleted when it is read; the
signing keys of the bridge. Roles required for a request other than those of the bridge
and the members are guards of handlers: the requests of `ManagerControl` come from
authorised callers.

## 7. Plan

Done: abstract queue, control service, executor with faults, port pool, adapters step by
step, tenant networks, accounts and sessions, members and auth bridge; their proofs,
those of the adapters up to the promise that `ManagerSystem` relies on, and what Hermes delivers and rolls back. What
would follow:

1. `Delivered` and `RolledBack` of OpenClaw and EvoScientist for any number of faults.
2. `PlatformRuns`: adapters and network allocator composed, with an orphaned allocator
   beside the next operation.
3. SQLite in `PortPool`, with the properties that hold there.
