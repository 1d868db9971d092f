# Verification of docker-machine-operator

The operator turns `Machine` objects of a Kubernetes cluster into hosts in a
cloud, by running `docker-machine`, and reports how the host's startup script
ended. This directory holds TLA+ models of it, TLC configurations that check them
on small instances, and proofs that TLAPS checks for every instance.

## The system

| Part | Source | State | Operations |
|---|---|---|---|
| Machine status | `api/v1alpha1/helper.go`, the `conditions` package | conditions, phase | `MarkTrue`, `MarkFalse`, `SetSummary`, `GetPhase` |
| Machine reconciler | `pkg/controller/machine_controller.go`, `util.go`, `machine.go`, `cluster.go` | `r.machineObj`, where the worker is | `Reconcile`: first phase, finalizer, creation, script check, deletion, `requeueWithError` |
| API server and informer cache | `client.CreateOrPatch`, the status committer, controller-runtime | versions of each Machine, the cached one | writes, watch events, deletion held back by the finalizer |
| docker-machine and the host | `exec.Command("docker-machine", ...)` | the store of hosts, the virtual machines, the result file on each | create, scp, rm; the script writes its result |
| Files of the operator | `/tmp/result.txt`, `/tmp/<ns>-<name>-startup.sh` | their existence and content | written, read, reused, removed by the reconciler |
| AWS environment | `pkg/controller/aws.go` | VPC, subnet, gateway, route, security group; three annotations | `createAWSEnvironment`, its rollback, `cleanupAWSResources` |
| Azure resource group | `pkg/controller/azure.go` | the groups, by name | made by docker-machine, `deleteAzureResourceGroup` |
| Work queue | controller-runtime and client-go under `vendor/`, set up in `machine_controller.go` and `pkg/cmds/server/server.go` | queue, dirty and processing sets, delayed adds, workers | notifications, 60 s resync, Get, Done, retries, restart |
| Driver controller, flags, generated code | `driver_controller.go`, `pkg/cmds`, `api` | none of interest | wiring |

How they interact: one worker (MaxConcurrentReconciles is 1) takes a Machine from
the queue, reads it from the cache into `r.machineObj`, and makes a sequence of
calls: status patches, finalizer and annotation patches, EC2 and Azure calls,
docker-machine commands. Users edit and delete the Machine, watch events are late,
calls fail with or without effect, and the process restarts between any two calls.

What is hard here: the cache is behind the server, and merge patches are computed
against it; `r.machineObj` and `/tmp/result.txt` are shared by all Machines, and a
host name and a resource group by some; `MachineCreating`, which guards a second
`docker-machine create`, is set in memory before a command of up to 15 minutes;
cleanup is several calls with one finalizer at the end; ids of AWS resources exist
in annotations only. `PROJECT.json` lists each hazard at its line with the
properties that would catch it.

## Modules

| Module | Models | Extends |
|---|---|---|
| `MachineConditions` | conditions, `SetSummary`, `GetPhase` | |
| `MachineController` | reconciler, API server, cache, docker-machine, virtual machines, files, resource groups | `MachineConditions` |
| `MachineLifecycle` | what the operator promises about Machines and the things it makes for them | |
| `AWSEnvironment` | the network of an AWS Machine | |
| `WorkQueue` | how reconciles are scheduled | |
| `MCMachineController`, `MCAWSEnvironment`, `MCWorkQueue` | instances for TLC | the module of that name |
| `MachineControllerProofs` | inductive invariant, types, finalizer | `MachineController` |
| `MachineLifecycleProofs` | `MachineController` implements `MachineLifecycle` | `MachineControllerProofs` |
| `MachineStatusProofs` | what a stale status patch cannot do; the conditions of every copy of a Machine | `MachineControllerProofs` |
| `MachineReadyProofs` | a ready Machine has its host | `MachineStatusProofs` |
| `MachineVerdictProofs` | a verdict is that of the Machine's own script, Success is earned | `MachineReadyProofs` |
| `AWSEnvironmentInvariant` | inductive invariant of the network; its first part is kept | `AWSEnvironment` |
| `AWSEnvironmentProofs` | the other two parts are kept; safety of the network | `AWSEnvironmentInvariant` |
| `WorkQueueProofs` | inductive invariant and safety of the queue | `WorkQueue` |

### MachineController

One action per call that leaves the process; `pc` names the call the worker makes
next. A read of the cache belongs to the step of the write that follows it: between
the two only the watch could act, and the watch may as well be late.

| State | Code |
|---|---|
| `hist[m]` | versions of Machine m: first the cached one, last the stored one, events under way between |
| `cur`, `mobj`, `seen` | `r.machineObj`: which Machine, its content, the position of its resourceVersion in `hist` |
| `store` | docker-machine's local store, which knows hosts by the Machine's name without its namespace |
| `host`, `result` | the virtual machine of each name (none, half made, up) and `/tmp/result.txt` on it |
| `resultFile`, `scriptFile` | the operator's `/tmp/result.txt` with its content; each startup script file: none, cut short or whole |
| `group` | the Azure resource groups that exist; `GetResourceGroupName` is the parameter or the default, which Machines share |
| `budget` | the disturbances that may still come |

* `UpdateMachineStatus` is `updateMachineStatus` with the committer: Get from the
  cache, summary and phase, and a merge patch of the fields that differ from the
  cached copy. The patch carries `machineObj`'s resourceVersion exactly when that
  differs from the cached one (`Accepted`).
* `PatchFinalizer` is `patchFinalizer` through `CreateOrPatch`, which creates the
  object when the cache does not hold it.
* `Reconcile` (with `AfterGet`), `InitPhase`, `EnsureFinalizer`, `SkipCreation`,
  `SetInitialConditions`, `PatchAnnotation`, `CreatePrerequisites`,
  `ScriptSecretMissing`, `AuthSecretMissing`, `GetMachineCreationArgs`,
  `CreateSucceeds`, `CreateFails`, `CommitCreated` follow `Reconcile` and
  `createMachine` call by call; `ScriptNotDue`, `ScpFails`, `ScpSucceeds`,
  `ReadFails`, `ReadResult` are `isScriptFinished`; `CommitTerminating`,
  `DeleteDockerMachine`, `CleanupAWSResources`, `DeleteAzureResourceGroup`,
  `RemoveFinalizer` are `removeFinalizerAfterCleanup`; `FinalStatus` is the update
  at the end and that of `requeueWithError`.
* A write that fails may have been stored. A creation that fails or is cut short by
  a crash leaves nothing, an entry in the store, that and the resource group, or
  those and a virtual machine (`CutShort`). A script file whose writing fails or is
  cut short stays, and the next attempt takes it for the script.
* Deleting a resource group takes every virtual machine in it along, those of other
  Machines included (`GroupGoes`).
* Whether `docker-machine rm` fails for an unknown host (`RmMissingFails`), and
  whether the operator's disk survives a restart (`DiskSurvives`; the store is in
  the container's file system), are constants, since the repository does not fix them.

### MachineLifecycle

The promise, without cache, conditions, worker and errors. A Machine is absent, new,
held by the finalizer, or terminating; the things it claims are the host of its
name, its script file and its resource group. Things come into being only for a
Machine that is held; nothing is cleaned up on behalf of a Machine that is held and
not marked for deletion; a held Machine leaves only through terminating, and only
when nothing that it claims is left. The mapping (`Lifecycle` in `MachineController`)
reads the life of a Machine off its stored version and the things off `store`,
`scriptFile` and `group`.

### AWSEnvironment

One Machine with the finalizer in place. The worker builds the network call by
call (`CreateVpc`, `AnnotateVpc`, `WaitForVpc`, `CreateSubnet`, `CreateGateway`,
`AttachGateway`, `CreateRoute`, `AnnotateGateway`, `AnnotateSubnet`), then runs
docker-machine (`CreateHost`). What `deleteAwsInternetGateway`, `deleteAwsSubnet`
and `deleteAwsVpc` do is a list of deletion calls that depends on the annotations
in `machineObj` only, which does not change meanwhile: `todo` is what is left of it,
for a rollback (`pc = "undo"`) or the cleanup. `net` is the cloud: EC2 refuses to
delete a VPC with a subnet, an attached gateway or a security group in it, a second
subnet over the same range, and a second gateway for a VPC.

`WaitForVpc` may give up whenever the VPC is not available yet, which stands for
every number of polls. Ids that nobody mentions any more may be given out again,
which keeps the state finite; ids are only compared.

The rest of the reconcile is reduced to what the network depends on: whether the
Machine is deleted or its host has been tried is read from the cache, and
`machineObj` is then that copy or, when the status update had something to write,
the stored object. So a retry may miss any of the annotations that the reconcile
before it has written. `docker-machine rm` is taken to pass over a host that is not
there, and the credentials that are read after it may fail.

`happened` counts the disturbances: refused calls, lost answers, failing writes,
restarts, and reconciles that start from a copy whose VPC annotation is not the
stored one (`stale`). The last is counted because `createAwsVpc` decides by that
annotation whether there is a VPC: with an outdated one the code makes a second VPC
and forgets the first, or cleans up the wrong one. The properties say how many of
these they allow.

### WorkQueue

The informer's notifications (`CacheChanges`, `Resync`, `Notify`), the queue of
client-go with its `queue`, `dirty` and `processing` (`Add`, `Get`, `Done`), the
delayed adds of `AddAfter` and `AddRateLimited` (`waiting`, `DelayIsOver`), and the
workers: `Read` is the Get at the start of Reconcile, `Succeed` and `TryAgain` its
outcomes, and `Done` is deferred to after what the outcome has added. `Restart` loses
all of it, and the new informer lists what there is. `due` is a history variable: the
Machines for which a reason to reconcile has arisen since the cache was last read.

`MachineController` lets any cached Machine be taken up whenever the worker is idle,
which includes every order this queue can produce; what it assumes of the queue (a
cached Machine is taken up again and again, one reconcile at a time) is
`TakenUpAgain` and `OneReconcileAtATime` here.

## Runs

`queue` checks for deadlock. The other runs set `CHECK_DEADLOCK FALSE`: a Machine may
be gone for good with all creations used up, and then nothing need happen. The
liveness runs check that the system does not stop where it must not.

### Properties that hold

| Run | Instance | Shows |
|---|---|---|
| `core` | one Azure Machine in the default group, created twice, lag 2, one fault, edit and restart | `TypeOK`; `ResourcesGuarded`: a host, a virtual machine, a script file or a resource group exists only under a stored finalizer; `ReadyHasHost`; `StatusIsWhole`: conditions are stored only under the finalizer, report both `MachineReady` and `ClusterOperationComplete` and carry their own summary, although patches are computed against stale copies; `SuccessIsEarned`: no status of the first incarnation is written to the second; `TerminatingIsFinal`: once the cache shows the deletion a stale reconcile cannot overwrite Terminating; `KeepsLifecycle`: the controller implements `MachineLifecycle` |
| `pair` | an AWS and an Azure Machine, two creations, lag 1, one fault | `VerdictIsOwn`: each Machine gets the verdict of its own script although the result file is shared; `ResourcesGuarded` while the other Machine is cleaned up or created again |
| `progress` | one Google Machine, lag 1, one fault, edit, restart; `docker-machine rm` passes over a missing host | `DeletionCompletes`; `CreationIsDecided`: a host or a recorded failure; `VerdictIsRecorded`: the verdict of an ended script reaches the status |
| `aws_env` | lag 3; three disturbances: up to two refused calls, one lost answer, failing write, restart, reconcile with an outdated VPC annotation | `TypeOK`: no deletion call with an empty id; `EnvironmentComplete`: when `createAWSEnvironment` succeeds the annotated parts belong together, if no reconcile had an outdated VPC annotation; `HostStaysConnected`: no retry, rollback or interrupted cleanup takes the network from under a host, with one such reconcile at most; `NetworkIsRemoved`: the Machine goes only when its VPC is gone with all in it, whatever failed, and after refused calls alone with no other VPC left, if no reconcile had an outdated VPC annotation; `DeletionSurvivesRefusal`: one refused call, wherever it is, does not keep the deletion from completing, also from outdated copies |
| `queue` | two Machines, two workers (one more than the operator starts), one restart | `TypeOK`; `QueueIsExact`; `OneReconcileAtATime`; `NothingIsLost`: no reason to reconcile is lost to de-duplication; `TakenUpAgain`: no Machine starves |

### Disagreements between code and documentation

| Run | Property that fails | Why |
|---|---|---|
| `failed_create` | `FailedCreateNotReady` | a retry from a stale copy takes "already exists" for success |
| `deletion_azure` | `DeletionOfHostCompletes` | a resource group that is already gone is an error on every retry |
| `success_lost` | `SuccessIsStable` | the test for a finished script looks for conditions named after phases |
| `resurrection` | `NoResurrection` | `CreateOrPatch` creates a Machine that a user has just deleted |
| `cut_script` | `ScriptIsComplete` | a script file that was cut short is reused and reported as ready |
| `aws_deletion_stuck` | `EnvironmentDeletionCompletes` | a part whose annotation was not written is not cleaned up, and the VPC cannot be deleted |
| `aws_never_tried` | `HostIsTried` | the rollback leaves the annotation of the deleted VPC |

### Bounds

`Budget` and, in `AWSEnvironment`, `Scenarios` say how often the disturbances occur
(`AnyFew`: two refusals, one of each other sort, `MaxTotal`, three, together),
`MaxLag` how many events of a Machine may be undelivered, `MaxIds` how many EC2 ids
are in use, `MaxCrashes` how often the operator restarts. One disturbance of each kind can already hit any call,
in any order with the others; two Machines are what it takes to share the worker and
the result file, and two creations to meet what an earlier incarnation has left. For
the properties proved below the bounds do not matter.

Some results depend on their bounds, and these are the limits:

* `DeletionSurvivesRefusal` allows one refused call. With two (the route is refused,
  then the detaching in its rollback) the network is left as in `aws_deletion_stuck`.
* `EnvironmentComplete` and `NetworkIsRemoved` allow no reconcile that starts from an
  outdated VPC annotation, and after one they fail. A retry that does not see the
  annotation makes a second VPC and keeps the subnet and gateway annotations of the
  first: docker-machine is then run with a subnet of another VPC, and the first VPC is
  never deleted. A deletion that does not see it cleans up nothing. Copies that lack
  the other annotations do no harm.
* `HostStaysConnected` allows one such reconcile. After two of them (with the cache
  six events behind) a rollback in one VPC deletes the route of the host in another.
* That no other VPC is left after the deletion needs `OnlyRefusals`. A crash, a lost
  answer or a failing write between `CreateVpc` and its annotation loses the id of the
  VPC.
* `NetworkIsRemoved` speaks of gateways that are attached: if `DeleteInternetGateway` is refused
  once the gateway is detached, the error is logged, the VPC is deleted and the
  gateway stays.
* `ReadyHasHost` and `SuccessIsEarned` need a disk that survives and host names of
  their own: two Machines of one name in two namespaces share a host, and deleting
  one leaves the other ready without a host. `VerdictIsOwn` needs the names, not the
  disk. `SuccessIsEarned` and `VerdictIsOwn` also need a resource group of their own: the
  deletion of a shared group takes the virtual machines of the other Machines along, and
  the deletion of the next Machine then finds no group.
* `ResourcesGuarded` covers virtual machines if the disk survives restarts. If not, a
  Machine deleted after a restart leaves its virtual machine behind: `docker-machine
  rm` no longer knows it.
* `DeletionCompletes` needs a `docker-machine rm` that succeeds for an unknown host
  (`RmMissingFails = FALSE`). Otherwise `client.IgnoreNotFound`, which knows API errors
  only, passes the error on, and a Machine deleted before its host exists stays.

### Fairness

`MachineController`: `WF(WorkerStep)`: every call returns or has a timeout
(docker-machine create has 15 minutes). `SF(Reconcile(m))`: a cached Machine is taken
up again and again, which is `TakenUpAgain` of `WorkQueue`. `WF(Deliver(m))`: the
informer's watch is re-established. `WF(host[n] = "up" /\ ScriptWrites(n))`: the
startup script on a host that is up ends. `AWSEnvironment`: `WF(VpcAvailable)`: EC2
makes a VPC available. `WorkQueue`: the goroutines of informer and queue and the
resync timer run on, some idle worker takes a queued item, and a Reconcile returns
in the end, with any outcome. Nothing is assumed of users, faults and restarts.

## Proofs

All of them are for every value of the constants; each module's `ASSUME` gives the
types of its constants and nothing else, except where a hypothesis is named.

`MachineControllerProofs`: for every set of Machines (sharing host names and resource
groups or not), every mix of drivers, every lag and every number of disturbances

* `TypeCorrect`: `Spec => []TypeOK`;
* `FinalizerGuards`: `Spec => []ResourcesGuarded`, the safety property on which the
  operator's cleanup rests;
* `InvariantHolds`: `Spec => []IInv`, from which both follow.

`ResourcesGuarded` is not inductive: whether a step keeps it depends on what the
worker believes, which it read from a cached version. `IInv` adds

* `HistOK`, what the versions between cache and server can look like: a version
  marked for deletion has the finalizer; a version with the finalizer and without a
  mark is there only while the finalizer is still stored; after a mark comes no
  unmarked version with a finalizer, and after a mark that is over no second one; a
  mark that the cache has not reached has its finalizer still in place. So the cache
  may be as late as it likes, and what Reconcile concludes from it (live: the
  finalizer is stored; marked: no live version is left) is true of the server;
* `WorkerOK`, what is known at each `pc`: while it builds, the finalizer is stored;
  before it adds the finalizer no mark is pending, unless the finalizer is there
  already; while it terminates no live version is left; before it removes the
  finalizer, host, script file and, for an Azure Machine, resource group are gone;
* `HostsKnown`: if the disk survives, docker-machine's store knows every virtual
  machine.

The proof has lemmas on histories (`TailHistory`, `AppendHistory`), on the status
operators, on writes (`EmitKeeps`, `KindStepKeeps`, `StatusStepKeeps`,
`WorkStepKeeps`), and then one per action or group of actions, put together in
`StepKeeps`.

`MachineLifecycleProofs`: `LifecycleKept`, `Spec => KeepsLifecycle`. With `IInv` every
step of users, watch, worker and restart is a step of `MachineLifecycle` under the
mapping, or a stutter: what `WorkerOK` says of the stage is what the guard of the
abstract step asks for (`InCharge` for `Build`, nothing claimed left for `Release`).

`MachineStatusProofs`: `TerminatingStays`, `Spec => TerminatingIsFinal`, and
`StatusStaysWhole`, `Spec => []StatusIsWhole`, both without further hypotheses.

* `TerminatingStays` needs `SeenOK` on top of `IInv`: `machineObj`'s resourceVersion, if
  the cache has not moved past it, is a position in the history, and `machineObj` agrees
  with that version on the deletion mark. A patch that is accepted is then of a copy as
  new as the cached or the stored version.
* `StatusIsWhole` is about the stored copy; whether a step keeps it depends on the others,
  since a merge patch writes only what differs from the cached copy. `CopyInv` is about
  all of them. `CopiesOK`: every version that has conditions has the finalizer, reports
  `MachineReady` and `ClusterOperationComplete` and has their summary, and conditions are
  not taken back while the finalizer is there. `LocalOK`: `machineObj` has both conditions
  or none, and has some only while the finalizer is stored, unless it echoes the version
  it was read from, in which case its patch writes no conditions.

`MachineReadyProofs`: `ReadyMeansHost`, `Spec => []ReadyHasHost`, from two hypotheses: the
disk survives (`DiskSurvives`) and no two Machines have a host name in common
(`NamesDiffer`; with a shared name the deletion of one Machine takes the other's host).
The condition is copied from memory to the server, through the watch into the cache and
back into `machineObj`, so the invariant, `ReadyInv`, is about every copy. `VersionsOK`:
a version that says ready is under the finalizer and has an up-to-date summary, and if the
host is gone it and all versions back to the cached one are of the deletion. `MemoryOK`:
while the worker takes its Machine for a live one, every version that says ready has its
host; once it deletes, a `machineObj` that says ready only echoes the version it was read
from, so that its status patch changes nothing. It builds on `IInv` (who holds the
finalizer) and on `SeenOK` of `MachineStatusProofs`.

`MachineVerdictProofs`: `VerdictBelongs`, `Spec => []VerdictIsOwn`, for Machines with host
names (`NamesDiffer`) and Azure resource groups (`GroupsDiffer`) of their own, and
`SuccessEarned`, `Spec => []SuccessIsEarned`, with `DiskSurvives` besides. `GroupsDiffer` is
needed because a shared group takes the other Machine's virtual machine along, and its
result with it; the disk only because `SuccessIsEarned` also asks for the entry in
docker-machine's store. Both follow from `VerdictInv`. `ReportsOK`: every version agrees with
the result on the host, in conditions and phase, unless it and all versions back to the
cached one are of the deletion; and a phase Success is under the finalizer. `BeliefOK`:
while the worker takes its Machine for a live one, `machineObj` and all versions agree with
the result; after that a `machineObj` that does not agree only echoes its version; and
the file that `ReadResult` is about to read was copied from the host of the Machine it is
read for. `ResultsHosted`: there is no result without a host. `CopyInv` is used
three times: a status that reports on the script has the phase Success only with the
verdict (`SuccessNeedsVerdict`), a settled echo is patched with nothing, and a Machine
without the finalizer has no verdict that could outlive the host.

`AWSEnvironmentProofs`, for any number of ids, events and disturbances and any lag of the
cache: `EnvironmentTyped`, `CreatedEnvironmentIsComplete` (`EnvironmentComplete`),
`HostKeepsItsNetwork` (`HostStaysConnected`), `NoNetworkIsLeft` (`NetworkIsRemoved`), from
`EnvironmentInvariant`. Nothing is assumed of the cache; the properties themselves say how
many reconciles with an outdated VPC annotation they allow, and the invariant has a part
for each of the three cases.

* `Base` holds always: EC2 deletes nothing that is in use and makes one subnet in a VPC
  (`CloudOK`), what the worker has made is still there (`WorkerOK`), a list of deletions
  ends with the VPC (`TodoOK`).
* `Near` holds until the second such reconcile. The worker builds in the stored VPC
  (`BuildOK`). A copy that shows the stored VPC and not the stored subnet shows none, and
  the range of that VPC is taken (`UpToDate`): the retry fails at `CreateSubnet`, and its
  rollback, which knows of no subnet, asks for nothing but the VPC, which EC2 refuses to
  delete. Every other rollback is in a VPC that neither the subnet annotation nor the host
  is in (`UndoOK`). So the annotated subnet and the host stay linked (`LinkOK`, `HostOK`).
* `Exact` holds until the first. The annotations are set once and in order, VPC first and
  subnet last (`OrderOK`), a subnet annotation stands for a whole network (`CompleteOK`),
  the worker knows them (`KnownOK`), and only an answer, a write or a restart can leave a
  VPC that is not annotated (`OneVpcOK`).

`Near` of the next state needs `Exact` of this one: the first outdated copy can only be one
without a VPC annotation, so the reconcile that starts from it has no old VPC to work on.

`WorkQueueProofs`, for any Machines, workers and restarts: `QueueTyped`, `QueueStaysExact`,
`NeverTwoReconciles`, `NoReasonIsLost`, from `QueueInvariant`. The two first need each
other and `ProcessingIsExact`: an item is pushed only when no worker has it, and a
worker takes only what nobody has.

Every safety invariant and action property of the passing runs is proved. Only
model-checked is liveness: `DeletionCompletes`, `VerdictIsRecorded`, `CreationIsDecided`,
`DeletionSurvivesRefusal` and `TakenUpAgain`.
Liveness under fairness is outside what the proof system can do (it has no reasoning
about `ENABLED`), as is induction over data and everything with `RECURSIVE` operators,
of which there are none here.

## Not modelled

* The Driver controller (its `Reconcile` is empty), flags, probes and exit codes,
  generated code, the AMI table. `--resync-period` and `NumThreads` are not used by
  `Run`: resync is the hard-coded 60 s, and there is one worker.
* Messages, severities and times of conditions; logs.
* Edits of the driver, the script reference or the resource group parameter of a
  Machine that exists: a user's edit changes nothing that the model looks at.
* A secret whose content changes between two attempts: the script file keeps the
  first. An error of `os.Remove` in `deleteFiles`, which the code passes over.
* A second replica of the operator (leader election is off by default) with a store
  and a `/tmp` of its own. Nothing in the repository says what should hold then, and
  every property about `store` would need a reading of its own.
* How long the delays of the queue are, its metrics, and `ShutDown`, after which the
  process ends (`Restart`).
