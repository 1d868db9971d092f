------------------------- MODULE MachineController -------------------------
(***************************************************************************)
(* The Machine controller (pkg/controller): one reconcile worker, the API  *)
(* server it writes to, the informer cache it reads from, the docker-      *)
(* machine command it runs and the files it keeps on the operator's disk.  *)
(*                                                                         *)
(* Every call that leaves the process (an API write, a docker-machine      *)
(* command) is one step of the worker, so users, the watch and a crash can *)
(* come between any two of them.  A read of the cache is made in the step  *)
(* of the write that follows it: nothing but the watch could move the      *)
(* cache in between, and the watch may as well be late.                    *)
(*                                                                         *)
(* hist[m] is the history of Machine m from the informer's position on:    *)
(* its first element is what the cache holds, its last what the API server *)
(* holds, the ones between are events under way.  resourceVersions are     *)
(* positions in it: "seen" is the position of the version machineObj was   *)
(* last read or written at, 0 once the cache has moved past it.            *)
(***************************************************************************)
EXTENDS MachineConditions, Sequences

CONSTANTS
  Machines,        \* Machine objects, by namespace and name
  NoMachine,       \* r.machineObj before the first reconcile (nil)
  Names,           \* docker-machine host names
  Name,            \* [Machines -> Names]: metadata.name, without the namespace
  Driver,          \* [Machines -> Drivers]: spec.driver.name
  Scripted,        \* the Machines that have a spec.scriptRef
  Groups,          \* names of Azure resource groups
  GroupParam,      \* [Machines -> Groups or ""]: the resource group parameter, if set
  RmMissingFails,  \* does docker-machine rm exit non-zero for an unknown host?
  DiskSurvives,    \* is the operator's disk still there after a restart?
  MaxLag,          \* bound: undelivered events per Machine
  Budget           \* bound: how often each disturbance of Disturbances occurs

Drivers == {"google", "amazonec2", "azure"}
DefaultGroup == "docker-machine"

\* fault: an API write, a read or a command fails; edit: a user changes a
\* spec, label or annotation; crash: the operator restarts; create: a user
\* creates a Machine.
Disturbances == {"fault", "edit", "crash", "create"}

ASSUME ConstantsAssumption ==
  /\ NoMachine \notin Machines
  /\ Name \in [Machines -> Names]
  /\ Driver \in [Machines -> Drivers]
  /\ Scripted \subseteq Machines
  /\ DefaultGroup \in Groups
  /\ GroupParam \in [Machines -> Groups \cup {""}]
  /\ RmMissingFails \in BOOLEAN
  /\ DiskSurvives \in BOOLEAN
  /\ MaxLag \in Nat
  /\ Budget \in [Disturbances -> Nat]

VARIABLES
  hist,        \* per Machine, the versions from the cached one to the current
  cur,         \* the Machine r.machineObj holds, NoMachine for nil
  mobj,        \* r.machineObj: the in-memory copy the handlers work on
  seen,        \* position in hist[cur] of mobj's resourceVersion
  pc,          \* where the worker is
  store,       \* docker-machine's local store: is there an entry for the host?
  host,        \* the virtual machine of each host name
  result,      \* /tmp/result.txt on each host, written by the startup script
  resultFile,  \* /tmp/result.txt on the operator's disk
  scriptFile,  \* the startup script file of each Machine on the operator's disk
  group,       \* the Azure resource groups: does it exist?
  budget       \* disturbances left

vars == <<hist, cur, mobj, seen, pc, store, host, result, resultFile, scriptFile, group, budget>>
cloud == <<host, result, group>>
disk == <<store, resultFile, scriptFile>>

\* A version of a Machine object; ex is FALSE in the version that records
\* that there is none.
Objects == [ex : BOOLEAN, fin : BOOLEAN, del : BOOLEAN,
            phase : Phases, conds : Conditions]
Gone == [ex |-> FALSE, fin |-> FALSE, del |-> FALSE, phase |-> "", conds |-> NoConditions]
Fresh == [Gone EXCEPT !.ex = TRUE]

Api(m) == hist[m][Len(hist[m])]
Cached(m) == Head(hist[m])

PcStates == {"idle", "initPhase", "termStatus", "rm", "cloud", "unfinalize",
             "finalizer", "initConds", "prereq", "args", "create", "created",
             "script", "read", "final", "requeue"}

\* half: made by a creation that did not come to its end, running or not.
HostStates == {"none", "half", "up"}
\* void: nothing is ever written, since the script was cut short.
Results == {"none", "void", "garbage", "ok", "fail"}
ScriptFiles == {"none", "cut", "whole"}

\* The types of the variables.
TypeOK ==
  /\ hist \in [Machines -> Seq(Objects)]
  /\ \A m \in Machines : Len(hist[m]) \in 1..(MaxLag + 1)
  /\ cur \in Machines \cup {NoMachine}
  /\ mobj \in Objects
  /\ seen \in Nat
  /\ pc \in PcStates
  /\ store \in [Names -> BOOLEAN]
  /\ host \in [Names -> HostStates]
  /\ result \in [Names -> Results]
  /\ resultFile \in Results
  /\ scriptFile \in [Machines -> ScriptFiles]
  /\ group \in [Groups -> BOOLEAN]
  /\ budget \in [Disturbances -> Nat]
  /\ pc # "idle" => cur \in Machines

Init ==
  /\ hist = [m \in Machines |-> <<Gone>>]
  /\ cur = NoMachine
  /\ mobj = Gone
  /\ seen = 0
  /\ pc = "idle"
  /\ store = [n \in Names |-> FALSE]
  /\ host = [n \in Names |-> "none"]
  /\ result = [n \in Names |-> "none"]
  /\ resultFile = "none"
  /\ scriptFile = [m \in Machines |-> "none"]
  /\ group = [g \in Groups |-> FALSE]
  /\ budget = Budget

Spend(d) == budget[d] > 0 /\ budget' = [budget EXCEPT ![d] = @ - 1]

-----------------------------------------------------------------------------
(* The API server and the watch.                                           *)

\* The server stores a new version of m and emits an event for it.
Emit(m, new) ==
  /\ Len(hist[m]) <= MaxLag
  /\ hist' = [hist EXCEPT ![m] = Append(@, new)]

\* A write that changes nothing makes no version.
Put(m, new) == IF new = Api(m) THEN UNCHANGED hist ELSE Emit(m, new)

\* The informer takes the next event of m into the cache.
Deliver(m) ==
  /\ Len(hist[m]) > 1
  /\ hist' = [hist EXCEPT ![m] = Tail(@)]
  /\ seen' = IF m = cur /\ seen > 0 THEN seen - 1 ELSE seen
  /\ UNCHANGED <<cur, mobj, pc, cloud, disk, budget>>

\* A user creates Machine m.
UserCreate(m) ==
  /\ ~Api(m).ex
  /\ Spend("create")
  /\ Emit(m, Fresh)
  /\ UNCHANGED <<cur, mobj, seen, pc, cloud, disk>>

\* A user changes something of m that the operator does not look at again.
UserEdit(m) ==
  /\ Api(m).ex
  /\ Spend("edit")
  /\ Emit(m, Api(m))
  /\ UNCHANGED <<cur, mobj, seen, pc, cloud, disk>>

\* A user deletes m: the finalizer, if any, holds the object back.
UserDelete(m) ==
  /\ Api(m).ex /\ ~Api(m).del
  /\ Emit(m, IF Api(m).fin THEN [Api(m) EXCEPT !.del = TRUE] ELSE Gone)
  /\ UNCHANGED <<cur, mobj, seen, pc, cloud, disk, budget>>

-----------------------------------------------------------------------------
(* The three ways in which the reconciler writes to the API server.        *)

\* The object as updateMachineStatus is about to commit it.
Summarised(o) ==
  LET conds == SetSummary(o.conds)
  IN  [o EXCEPT !.conds = conds, !.phase = GetPhase(o.del, conds)]

SameStatus(a, b) == a.conds = b.conds /\ a.phase = b.phase

\* The merge patch of the committer touches a field of the status only where
\* the new value differs from the cached one.
StatusPatched(m, o) ==
  [Api(m) EXCEPT
     !.conds = IF o.conds = Cached(m).conds THEN @ ELSE o.conds,
     !.phase = IF o.phase = Cached(m).phase THEN @ ELSE o.phase]

\* Mutant of Accepted: the patch never carries a resourceVersion.
Accepted_AnyVersion(m) == Api(m).ex

\* The patch carries machineObj's resourceVersion when it differs from that of
\* the cached copy, and the server then refuses it unless it is the current one.
Accepted(m) == Api(m).ex /\ seen \in {1, Len(hist[m])}

\* updateMachineStatus of the current Machine, whose in-memory copy is o:
\* ok and err are where the worker goes on.
UpdateMachineStatus(o, ok, err) ==
  LET n == Summarised(o)
      new == StatusPatched(cur, n)
  IN
  /\ UNCHANGED cur
  /\ \/ /\ ~Cached(cur).ex                       \* the Get finds nothing
        /\ mobj' = o /\ pc' = err
        /\ UNCHANGED <<hist, seen, budget>>
     \/ /\ Cached(cur).ex                        \* nothing to commit
        /\ SameStatus(n, Cached(cur))
        /\ mobj' = n /\ pc' = ok
        /\ UNCHANGED <<hist, seen, budget>>
     \/ /\ Cached(cur).ex                        \* the patch is applied
        /\ ~SameStatus(n, Cached(cur))
        /\ Accepted(cur)
        /\ Put(cur, new)
        /\ mobj' = new /\ seen' = Len(hist'[cur]) /\ pc' = ok
        /\ UNCHANGED budget
     \/ /\ Cached(cur).ex                        \* conflict, or not found
        /\ ~SameStatus(n, Cached(cur))
        /\ ~Accepted(cur)
        /\ mobj' = n /\ pc' = err
        /\ UNCHANGED <<hist, seen, budget>>
     \/ /\ Cached(cur).ex                        \* the request or its answer is lost
        /\ ~SameStatus(n, Cached(cur))
        /\ Spend("fault")
        /\ mobj' = n /\ pc' = err
        /\ UNCHANGED seen
        /\ UNCHANGED hist \/ (Accepted(cur) /\ Put(cur, new))

\* The object that CreateOrPatch makes when the cache does not hold it: the
\* server keeps the finalizers of the new object and drops its status.
Recreated(f) == [Fresh EXCEPT !.fin = f]

\* The stored object when the finalizer is set to f by a merge patch computed
\* against the cached copy.
FinalizerPatched(m, f) ==
  IF Cached(m).fin = f THEN Api(m) ELSE [Api(m) EXCEPT !.fin = f]

\* Without a finalizer an object marked for deletion goes.
Stored(o) == IF o.del /\ ~o.fin THEN Gone ELSE o

\* patchFinalizer: CreateOrPatch of the current Machine with its finalizer
\* added (f) or removed (~f); missing is where a NotFound answer leads.
PatchFinalizer(f, ok, missing, err) ==
  LET new == IF Cached(cur).ex THEN FinalizerPatched(cur, f) ELSE Recreated(f)
  IN
  /\ UNCHANGED cur
  /\ \/ /\ Cached(cur).ex = Api(cur).ex          \* patched, or created anew
        /\ Put(cur, Stored(new))
        /\ mobj' = new /\ seen' = Len(hist'[cur]) /\ pc' = ok
        /\ UNCHANGED budget
     \/ /\ Cached(cur).ex /\ ~Api(cur).ex        \* NotFound
        /\ pc' = missing
        /\ UNCHANGED <<hist, mobj, seen, budget>>
     \/ /\ ~Cached(cur).ex /\ Api(cur).ex        \* AlreadyExists
        /\ pc' = err
        /\ UNCHANGED <<hist, mobj, seen, budget>>
     \/ /\ Spend("fault")                        \* the request or its answer is lost
        /\ pc' = err
        /\ UNCHANGED <<mobj, seen>>
        /\ UNCHANGED hist \/ (Cached(cur).ex = Api(cur).ex /\ Put(cur, Stored(new)))

-----------------------------------------------------------------------------
(* Reconcile, from the Get to the first call that leaves the process.      *)

\* Mutant of AfterGet: the deletion mark is not looked at.
AfterGet_DeletionUnseen(o) ==
  CASE o.phase = "" -> "initPhase"
    [] o.phase # "" /\ ~o.fin -> "finalizer"
    [] OTHER -> "initConds"

\* Mutant of AfterGet: a Machine that has failed is cleaned up like a deleted one.
AfterGet_FailedCleaned(o) ==
  CASE o.phase = "" -> "initPhase"
    [] o.phase # "" /\ (o.del \/ o.phase = "Failed") /\ o.fin -> "termStatus"
    [] o.phase # "" /\ o.del /\ ~o.fin -> "idle"
    [] o.phase # "" /\ ~o.del /\ ~o.fin -> "finalizer"
    [] OTHER -> "initConds"

\* Where Reconcile goes with the object it has read.
AfterGet(o) ==
  CASE o.phase = "" -> "initPhase"
    [] o.phase # "" /\ o.del /\ o.fin -> "termStatus"
    [] o.phase # "" /\ o.del /\ ~o.fin -> "idle"
    [] o.phase # "" /\ ~o.del /\ ~o.fin -> "finalizer"
    [] OTHER -> "initConds"

\* The worker takes up m.  The periodic resync puts every cached Machine back
\* into the queue, so m may be taken up at any time; a Machine that is not in
\* the cache is dropped without a trace.
Reconcile(m) ==
  /\ pc = "idle"
  /\ Cached(m).ex
  /\ cur' = m /\ mobj' = Cached(m) /\ seen' = 1
  /\ pc' = AfterGet(Cached(m))
  /\ UNCHANGED <<hist, budget, cloud, disk>>

\* The Get fails otherwise than with NotFound: requeueWithError works on the
\* object of the previous reconcile, or panics (and the controller recovers)
\* when there was none.
ReconcileGetFails ==
  /\ pc = "idle"
  /\ Spend("fault")
  /\ pc' = IF cur = NoMachine THEN "idle" ELSE "requeue"
  /\ UNCHANGED <<hist, cur, mobj, seen, cloud, disk>>

\* A new Machine gets its first phase, and the reconcile ends.
InitPhase ==
  /\ pc = "initPhase"
  /\ UpdateMachineStatus(mobj, "idle", "idle")
  /\ UNCHANGED <<cloud, disk>>

\* The update at the end of a reconcile, and the one of requeueWithError: either
\* way the Machine is reconciled again later.
FinalStatus ==
  /\ pc \in {"final", "requeue"}
  /\ UpdateMachineStatus(mobj, "idle", "idle")
  /\ UNCHANGED <<cloud, disk>>

EnsureFinalizer ==
  /\ pc = "finalizer"
  /\ PatchFinalizer(TRUE, "initConds", "idle", "requeue")
  /\ UNCHANGED <<cloud, disk>>

-----------------------------------------------------------------------------
(* createMachine                                                           *)

\* Mutant of CreationDone: any MachineReady condition, a False one included, ends it.
CreationDone_AnyCondition(conds) == conds["MachineReady"] # "Absent"

\* Creation is attempted until MachineCreating or MachineReady is True.
CreationDone(conds) ==
  IsConditionTrue(conds, "MachineCreating") \/ IsConditionTrue(conds, "MachineReady")

SkipCreation ==
  /\ pc = "initConds"
  /\ CreationDone(mobj.conds)
  /\ pc' = "script"
  /\ UNCHANGED <<hist, cur, mobj, seen, budget, cloud, disk>>

InitialConditions(conds) ==
  MarkFalse(MarkFalse(conds, "MachineReady", "MachineCreating"),
            "ClusterOperationComplete", "WaitingForScriptRun")

SetInitialConditions ==
  /\ pc = "initConds"
  /\ ~CreationDone(mobj.conds)
  /\ UpdateMachineStatus([mobj EXCEPT !.conds = InitialConditions(@)],
                         IF Driver[cur] = "amazonec2" THEN "prereq" ELSE "args",
                         "requeue")
  /\ UNCHANGED <<cloud, disk>>

\* createAWSEnvironment, seen from here: each of its annotations (VPC, subnet,
\* gateway) is a CreateOrPatch of the Machine that refreshes machineObj.  The
\* finalizer keeps the object on the server, so what is missing is at most its
\* copy in the cache, and creating it anew is refused.
PatchAnnotation ==
  /\ pc = "prereq"
  /\ \/ /\ Cached(cur).ex
        /\ Emit(cur, Api(cur))
        /\ mobj' = Api(cur) /\ seen' = Len(hist'[cur])
        /\ UNCHANGED <<pc, budget>>
     \/ /\ IF Cached(cur).ex THEN Spend("fault") ELSE UNCHANGED budget
        /\ pc' = "requeue"
        /\ UNCHANGED <<mobj, seen>>
        /\ UNCHANGED hist \/ (Cached(cur).ex /\ Emit(cur, Api(cur)))
  /\ UNCHANGED <<cur, cloud, disk>>

CreatePrerequisites ==
  /\ pc = "prereq"
  /\ \/ pc' = "args" /\ UNCHANGED budget
     \/ pc' = "requeue" /\ Spend("fault")
  /\ UNCHANGED <<hist, cur, mobj, seen, cloud, disk>>

\* getStartupScriptArgs writes the script file, or takes the one that exists.
ScriptWritten ==
  [scriptFile EXCEPT ![cur] = IF @ = "none" /\ cur \in Scripted THEN "whole" ELSE @]

\* What a write that fails or is cut short leaves behind.
ScriptCut == [scriptFile EXCEPT ![cur] = IF @ = "none" /\ cur \in Scripted THEN "cut" ELSE @]

ScriptMarked(conds) ==
  IF cur \in Scripted THEN MarkTrue(conds, "ScriptReady") ELSE conds

\* It fails for want of the secret or its data, or when it cannot write the file.
ScriptSecretMissing ==
  /\ pc = "args"
  /\ cur \in Scripted
  /\ Spend("fault")
  /\ mobj' = [mobj EXCEPT !.conds = MarkFalse(@, "ScriptReady", "ScriptDataNotFound")]
  /\ pc' = "requeue"
  /\ scriptFile' \in {scriptFile, ScriptCut}
  /\ UNCHANGED <<hist, cur, seen, cloud, store, resultFile>>

AuthSecretMissing ==
  /\ pc = "args"
  /\ Spend("fault")
  /\ scriptFile' = ScriptWritten
  /\ mobj' = [mobj EXCEPT !.conds =
                MarkFalse(ScriptMarked(@), "AuthDataReady", "AuthDataNotFound")]
  /\ pc' = "requeue"
  /\ UNCHANGED <<hist, cur, seen, cloud, store, resultFile>>

GetMachineCreationArgs ==
  /\ pc = "args"
  /\ scriptFile' = ScriptWritten
  /\ UpdateMachineStatus(
       [mobj EXCEPT !.conds = MarkTrue(ScriptMarked(@), "AuthDataReady")],
       "create", "requeue")
  /\ UNCHANGED <<cloud, store, resultFile>>

\* MachineCreating is marked before the command runs, but only in memory.
Creating(conds) == MarkTrue(conds, "MachineCreating")

\* Machines that do not set the parameter share the default group.
GetResourceGroupName(m) == IF GroupParam[m] = "" THEN DefaultGroup ELSE GroupParam[m]

\* The azure driver of docker-machine creates the resource group.
GroupMade ==
  [g \in Groups |-> group[g] \/ (Driver[cur] = "azure" /\ g = GetResourceGroupName(cur))]

Entered == [store EXCEPT ![Name[cur]] = TRUE]

\* docker-machine knows the host, or the cloud has one of that name.
AlreadyExists == store[Name[cur]] \/ host[Name[cur]] # "none"

\* What a creation that is cut short leaves: nothing, or its host entered in the
\* store, perhaps with its resource group and a virtual machine.
CutShort ==
  {<<store, host, group>>} \cup
    IF AlreadyExists THEN {}
    ELSE {<<Entered, host, group>>, <<Entered, host, GroupMade>>,
          <<Entered, [host EXCEPT ![Name[cur]] = "half"], GroupMade>>}

\* A script that was cut short may never come to writing its result.
ScriptOutcomes == IF scriptFile[cur] = "cut" THEN {"none", "void"} ELSE {"none"}

\* docker-machine create succeeds, or says that the host "already exists",
\* which counts as success whatever became of the host's first creation.
CreateSucceeds ==
  /\ pc = "create"
  /\ store' = Entered
  /\ IF AlreadyExists
     THEN UNCHANGED cloud
     ELSE /\ host' = [host EXCEPT ![Name[cur]] = "up"]
          /\ \E r \in ScriptOutcomes : result' = [result EXCEPT ![Name[cur]] = r]
          /\ group' = GroupMade
  /\ mobj' = [mobj EXCEPT !.conds = MarkTrue(Creating(@), "MachineReady")]
  /\ pc' = "created"
  /\ UNCHANGED <<hist, cur, seen, budget, resultFile, scriptFile>>

\* Mutant of CreateFails: the exit status of the command is not looked at.
CreateFails_Unnoticed ==
  /\ pc = "create"
  /\ ~store[Name[cur]]
  /\ Spend("fault")
  /\ \E c \in CutShort : store' = c[1] /\ host' = c[2] /\ group' = c[3]
  /\ mobj' = [mobj EXCEPT !.conds = MarkTrue(Creating(@), "MachineReady")]
  /\ pc' = "created"
  /\ UNCHANGED <<hist, cur, seen, result, resultFile, scriptFile>>

\* It fails, or is killed after machineCreationTimeout.
CreateFails ==
  /\ pc = "create"
  /\ ~store[Name[cur]]
  /\ Spend("fault")
  /\ \E c \in CutShort : store' = c[1] /\ host' = c[2] /\ group' = c[3]
  /\ mobj' = [mobj EXCEPT !.conds =
                MarkFalse(Creating(@), "MachineReady", "MachineCreationFailed")]
  /\ pc' = "requeue"
  /\ UNCHANGED <<hist, cur, seen, result, resultFile, scriptFile>>

CommitCreated ==
  /\ pc = "created"
  /\ UpdateMachineStatus(mobj, "script", "requeue")
  /\ UNCHANGED <<cloud, disk>>

-----------------------------------------------------------------------------
(* isScriptFinished                                                        *)

\* Mutant of ScriptDue: a Machine marked MachineCreating is passed over.
ScriptDue_NotCreating(conds) ==
  IsConditionTrue(conds, "MachineReady") /\ ~IsConditionTrue(conds, "MachineCreating")

\* The script is looked for once the Machine is ready.  The second test asks
\* for conditions named after phases.
ScriptDue(conds) ==
  /\ IsConditionTrue(conds, "MachineReady")
  /\ ~IsConditionTrue(conds, "Success")
  /\ ~IsConditionTrue(conds, "Failed")

ScriptNotDue ==
  /\ pc = "script"
  /\ ~ScriptDue(mobj.conds)
  /\ pc' = "final"
  /\ UNCHANGED <<hist, cur, mobj, seen, budget, cloud, disk>>

\* docker-machine scp knows the host and finds the result file on it.
ResultThere(n) == store[n] /\ result[n] \in {"garbage", "ok", "fail"}

\* Mutant of ScpFails: the reconcile goes on to read the file it could not copy.
ScpFails_ReadOn ==
  /\ pc = "script"
  /\ ScriptDue(mobj.conds)
  /\ IF ResultThere(Name[cur]) THEN Spend("fault") ELSE UNCHANGED budget
  /\ pc' = "read"
  /\ UNCHANGED <<hist, cur, mobj, seen, cloud, disk>>

ScpFails ==
  /\ pc = "script"
  /\ ScriptDue(mobj.conds)
  /\ IF ResultThere(Name[cur]) THEN Spend("fault") ELSE UNCHANGED budget
  /\ mobj' = [mobj EXCEPT !.conds =
                MarkFalse(@, "ClusterOperationComplete", "WaitingForScriptCompletion")]
  /\ pc' = "final"
  /\ UNCHANGED <<hist, cur, seen, cloud, disk>>

ScpSucceeds ==
  /\ pc = "script"
  /\ ScriptDue(mobj.conds)
  /\ ResultThere(Name[cur])
  /\ resultFile' = result[Name[cur]]
  /\ pc' = "read"
  /\ UNCHANGED <<hist, cur, mobj, seen, budget, cloud, store, scriptFile>>

\* The file cannot be opened, or none of its lines is a number: it stays.
ReadFails ==
  /\ pc = "read"
  /\ IF resultFile = "garbage" THEN UNCHANGED budget ELSE Spend("fault")
  /\ pc' = "requeue"
  /\ UNCHANGED <<hist, cur, mobj, seen, cloud, disk>>

\* Mutant of Verdict: any number counts as success.
Verdict_AnyNumber(conds) == MarkTrue(conds, "ClusterOperationComplete")

Verdict(conds) ==
  IF resultFile = "ok"
  THEN MarkTrue(conds, "ClusterOperationComplete")
  ELSE MarkFalse(conds, "ClusterOperationComplete", "ClusterOperationFailed")

\* The verdict is marked and the file removed, unless the removal fails.
ReadResult ==
  /\ pc = "read"
  /\ resultFile \in {"ok", "fail"}
  /\ mobj' = [mobj EXCEPT !.conds = Verdict(@)]
  /\ \/ /\ resultFile' = "none"
        /\ pc' = IF resultFile = "ok" THEN "final" ELSE "requeue"
        /\ UNCHANGED budget
     \/ /\ pc' = "requeue"
        /\ Spend("fault")
        /\ UNCHANGED resultFile
  /\ UNCHANGED <<hist, cur, seen, cloud, store, scriptFile>>

-----------------------------------------------------------------------------
(* removeFinalizerAfterCleanup                                             *)

\* Mutant of CommitTerminating: the finalizer goes before the cleanup.
CommitTerminating_NoCleanup ==
  /\ pc = "termStatus"
  /\ UpdateMachineStatus(mobj, "unfinalize", "requeue")
  /\ UNCHANGED <<cloud, disk>>

CommitTerminating ==
  /\ pc = "termStatus"
  /\ UpdateMachineStatus(mobj, "rm", "requeue")
  /\ UNCHANGED <<cloud, disk>>

\* Where the cleanup goes on once docker-machine rm has succeeded.
AfterRm == IF Driver[cur] = "google" THEN "unfinalize" ELSE "cloud"

\* The virtual machines of the names in N go, with what is on them.
HostsGo(N) ==
  /\ host' = [n \in Names |-> IF n \in N THEN "none" ELSE host[n]]
  /\ result' = [n \in Names |-> IF n \in N THEN "none" ELSE result[n]]

\* Mutant of DeleteDockerMachine: every error of the command is ignored.
DeleteDockerMachine_ErrorDropped ==
  /\ pc = "rm"
  /\ scriptFile' = [scriptFile EXCEPT ![cur] = "none"]
  /\ pc' = AfterRm
  /\ \/ /\ store' = [store EXCEPT ![Name[cur]] = FALSE]
        /\ HostsGo({Name[cur]})
        /\ UNCHANGED budget
     \/ Spend("fault") /\ UNCHANGED <<store, host, result>>
  /\ UNCHANGED <<hist, cur, mobj, seen, resultFile, group>>

\* deleteFiles removes the startup script (its other path names no file of the
\* operator); deleteDockerMachine removes the host and passes on any error.
DeleteDockerMachine ==
  /\ pc = "rm"
  /\ scriptFile' = [scriptFile EXCEPT ![cur] = "none"]
  /\ \/ /\ store[Name[cur]]
        /\ store' = [store EXCEPT ![Name[cur]] = FALSE]
        /\ HostsGo({Name[cur]})
        /\ pc' = AfterRm
        /\ UNCHANGED budget
     \/ /\ ~store[Name[cur]]
        /\ pc' = IF RmMissingFails THEN "requeue" ELSE AfterRm
        /\ UNCHANGED <<store, host, result, budget>>
     \/ /\ Spend("fault")
        /\ pc' = "requeue"
        /\ UNCHANGED <<store, host, result>>
  /\ UNCHANGED <<hist, cur, mobj, seen, resultFile, group>>

\* cleanupAWSResources, seen from here.
CleanupAWSResources ==
  /\ pc = "cloud"
  /\ Driver[cur] = "amazonec2"
  /\ \/ pc' = "unfinalize" /\ UNCHANGED budget
     \/ pc' = "requeue" /\ Spend("fault")
  /\ UNCHANGED <<hist, cur, mobj, seen, cloud, disk>>

\* The hosts that docker-machine has put into resource group g.
HostsIn(g) ==
  {Name[m] : m \in {x \in Machines : Driver[x] = "azure" /\ GetResourceGroupName(x) = g}}

\* The resource group goes, with every virtual machine in it.
GroupGoes(g) == group' = [group EXCEPT ![g] = FALSE] /\ HostsGo(HostsIn(g))

\* deleteAzureResourceGroup: a group that is not there is an error, and a deletion
\* that was accepted may still be reported as failed.
DeleteAzureResourceGroup ==
  LET g == GetResourceGroupName(cur) IN
  /\ pc = "cloud"
  /\ Driver[cur] = "azure"
  /\ \/ group[g] /\ GroupGoes(g) /\ pc' = "unfinalize" /\ UNCHANGED budget
     \/ ~group[g] /\ pc' = "requeue" /\ UNCHANGED <<cloud, budget>>
     \/ /\ group[g] /\ pc' = "requeue" /\ Spend("fault")
        /\ UNCHANGED cloud \/ GroupGoes(g)
  /\ UNCHANGED <<hist, cur, mobj, seen, disk>>

RemoveFinalizer ==
  /\ pc = "unfinalize"
  /\ PatchFinalizer(FALSE, "idle", "requeue", "requeue")
  /\ UNCHANGED <<cloud, disk>>

-----------------------------------------------------------------------------
(* The host and the process.                                               *)

\* The startup script on host n writes its result: a number at once, or first
\* something that is not one yet.
ScriptWrites(n) ==
  /\ host[n] # "none"
  /\ \E m \in Scripted : Name[m] = n
  /\ \/ result[n] = "none" /\ \E r \in {"garbage", "ok", "fail"} : result' = [result EXCEPT ![n] = r]
     \/ result[n] = "garbage" /\ \E r \in {"ok", "fail"} : result' = [result EXCEPT ![n] = r]
  /\ UNCHANGED <<hist, cur, mobj, seen, pc, budget, host, group, disk>>

\* The operator restarts: memory is lost, the new cache is filled from the
\* server, a creation or a file being written is cut short, and the disk is kept or
\* is that of a new container.
Crash ==
  /\ Spend("crash")
  /\ cur' = NoMachine /\ mobj' = Gone /\ seen' = 0 /\ pc' = "idle"
  /\ hist' = [m \in Machines |-> <<Api(m)>>]
  /\ \E c \in IF pc = "create" THEN CutShort ELSE {<<store, host, group>>} :
       /\ store' = IF DiskSurvives THEN c[1] ELSE [n \in Names |-> FALSE]
       /\ host' = c[2]
       /\ group' = c[3]
  /\ \E f \in IF pc = "args" THEN {scriptFile, ScriptCut, ScriptWritten} ELSE {scriptFile} :
       scriptFile' = IF DiskSurvives THEN f ELSE [m \in Machines |-> "none"]
  /\ resultFile' = IF DiskSurvives THEN resultFile ELSE "none"
  /\ UNCHANGED result

-----------------------------------------------------------------------------

\* A step of the worker inside a reconcile.
WorkerStep ==
  \/ InitPhase \/ FinalStatus \/ EnsureFinalizer
  \/ SkipCreation \/ SetInitialConditions \/ PatchAnnotation \/ CreatePrerequisites
  \/ ScriptSecretMissing \/ AuthSecretMissing \/ GetMachineCreationArgs
  \/ CreateSucceeds \/ CreateFails \/ CommitCreated
  \/ ScriptNotDue \/ ScpFails \/ ScpSucceeds \/ ReadFails \/ ReadResult
  \/ CommitTerminating \/ DeleteDockerMachine
  \/ CleanupAWSResources \/ DeleteAzureResourceGroup \/ RemoveFinalizer

Next ==
  \/ \E m \in Machines : \/ Deliver(m) \/ Reconcile(m)
                         \/ UserCreate(m) \/ UserEdit(m) \/ UserDelete(m)
  \/ \E n \in Names : ScriptWrites(n)
  \/ WorkerStep
  \/ ReconcileGetFails
  \/ Crash

Spec == Init /\ [][Next]_vars

\* The worker goes on with what it has begun (every call has a timeout or
\* returns), the queue hands out every cached Machine again and again, the
\* watch delivers its events, and the startup script of a host that is up ends.
Fairness ==
  /\ WF_vars(WorkerStep)
  /\ \A m \in Machines : SF_vars(Reconcile(m)) /\ WF_vars(Deliver(m))
  /\ \A n \in Names : WF_vars(host[n] = "up" /\ ScriptWrites(n))

FairSpec == Spec /\ Fairness

-----------------------------------------------------------------------------
(* Properties                                                              *)

\* The object of m exists and carries the operator's finalizer.
Held(m) == Api(m).ex /\ Api(m).fin

\* Whatever the operator has made - a docker-machine host, a startup script on its
\* disk, an Azure resource group - is covered by the finalizer of a Machine that it
\* belongs to: ensureFinalizer has been stored before, and the finalizer is removed
\* only after the cleanup.  A virtual machine is known to docker-machine, and so
\* covered too, as long as the store is not lost.
ResourcesGuarded ==
  /\ \A n \in Names : store[n] \/ (DiskSurvives /\ host[n] # "none")
       => \E m \in Machines : Name[m] = n /\ Held(m)
  /\ \A m \in Machines : scriptFile[m] # "none" => Held(m)
  /\ \A g \in Groups : group[g]
       => \E m \in Machines : Driver[m] = "azure" /\ GetResourceGroupName(m) = g /\ Held(m)

\* What a Machine claims: the host of its name, its script file, its resource group.
Claims ==
  [m \in Machines |->
     {<<"host", Name[m]>>, <<"script", m>>} \cup
       {<<"group", g>> : g \in {x \in Groups : Driver[m] = "azure" /\ x = GetResourceGroupName(m)}}]

\* The things there are.
Existing ==
  {<<"host", n>> : n \in {x \in Names : store[x]}} \cup
  {<<"script", m>> : m \in {x \in Machines : scriptFile[x] # "none"}} \cup
  {<<"group", g>> : g \in {x \in Groups : group[x]}}

Life(o) ==
  CASE ~o.ex -> "absent"
    [] o.ex /\ o.del -> "terminating"
    [] o.ex /\ ~o.del /\ o.fin -> "held"
    [] OTHER -> "new"

Lifecycle == INSTANCE MachineLifecycle WITH
  Things <- {<<"host", n>> : n \in Names} \cup {<<"script", m>> : m \in Machines}
              \cup {<<"group", g>> : g \in Groups},
  Durable <- DiskSurvives,
  life <- [m \in Machines |-> Life(Api(m))],
  exists <- Existing

\* The controller keeps the promises of MachineLifecycle: nothing is made for a
\* Machine before ensureFinalizer is stored, nothing is cleaned up for a Machine
\* that is not being deleted, and removeFinalizerAfterCleanup lets a Machine go only
\* when nothing it claims is left - whatever the cache, errors and restarts do.
KeepsLifecycle == Lifecycle!Spec

\* A Machine that reports MachineReady and is not being deleted has a host in
\* docker-machine's store: createMachine marks it only after the command, and
\* deleteDockerMachine runs only for Machines marked for deletion.
ReadyHasHost ==
  \A m \in Machines :
    Api(m).conds["MachineReady"] = "True" /\ ~Api(m).del => store[Name[m]]

\* The status of a Machine is whole: it has conditions only while it carries the
\* finalizer, then reports both on the host and on the script, and its Ready condition
\* is the summary of the others.  So updateMachineStatus never gives a new Machine the
\* status of a deleted one of the same name, although it patches what the server has
\* with the difference of two copies that may both be late.
StatusIsWhole ==
  \A m \in Machines : Api(m).conds # NoConditions =>
    /\ Held(m)
    /\ Api(m).conds["MachineReady"] # "Absent"
    /\ Api(m).conds["ClusterOperationComplete"] # "Absent"
    /\ SetSummary(Api(m).conds) = Api(m).conds

\* The verdict that isScriptFinished records for a Machine is the one that the
\* script on its own host wrote, although all Machines share /tmp/result.txt.
VerdictIsOwn ==
  \A m \in Machines : ~Api(m).del =>
    /\ Api(m).conds["ClusterOperationComplete"] = "True" => result[Name[m]] = "ok"
    /\ Api(m).conds["ClusterOperationComplete"] = "ClusterOperationFailed" => result[Name[m]] = "fail"

\* The phase Success is reported only while there is a virtual machine, known to
\* docker-machine, whose script ended with 0.
SuccessIsEarned ==
  \A m \in Machines : Api(m).phase = "Success" /\ ~Api(m).del =>
    store[Name[m]] /\ host[Name[m]] # "none" /\ result[Name[m]] = "ok"

\* Once the cache shows that a Machine is being deleted, its phase Terminating is
\* final: a reconcile that still works on a copy read before the deletion has a
\* stale resourceVersion in its status patch, and the server refuses it.
TerminatingIsFinal ==
  [][\A m \in Machines :
       Cached(m).del /\ Api(m).del /\ Api(m).phase = "Terminating" /\ Api(m)'.ex
         => Api(m)'.phase = "Terminating"]_vars

\* A docker-machine host that failed to be created is never reported ready by
\* createMachine.
FailedCreateNotReady ==
  \A m \in Machines :
    Api(m).conds["MachineReady"] = "True" /\ ~Api(m).del => host[Name[m]] = "up"

\* A Machine that reports ScriptReady has its whole startup script on the disk: an
\* attempt that was "unable to create script" is made up for.
ScriptIsComplete ==
  \A m \in Machines : Api(m).conds["ScriptReady"] = "True" => scriptFile[m] # "cut"

\* The phase Success is left only for Terminating: what isScriptFinished has found
\* out once is not found out again.
SuccessIsStable ==
  [][\A m \in Machines :
       Api(m).phase = "Success" /\ Api(m)'.ex => Api(m)'.phase \in {"Success", "Terminating"}]_vars

\* Only a user brings a Machine into being: patchFinalizer does not create again
\* what a user has deleted.
NoResurrection ==
  [][\A m \in Machines :
       ~Api(m).ex /\ Api(m)'.ex => budget'["create"] < budget["create"]]_vars

\* The deletion of a Machine is completed: removeFinalizerAfterCleanup gets through
\* in the end and the object goes.
DeletionCompletes ==
  \A m \in Machines : Api(m).del ~> ~Api(m).ex

\* The deletion of a Machine whose host is in the store is completed: the first
\* cleanup removes the host and the finalizer.
DeletionOfHostCompletes ==
  \A m \in Machines : Api(m).del /\ store[Name[m]] ~> ~Api(m).ex

\* The creation of a Machine comes to a decision, unless the Machine is deleted:
\* whatever errors, edits and restarts come between, createMachine gets as far as the
\* command in the end and its outcome into the status.
CreationIsDecided ==
  \A m \in Machines :
    Api(m).ex ~> \/ Api(m).conds["MachineReady"] \in {"True", "MachineCreationFailed"}
                 \/ Api(m).del \/ ~Api(m).ex

\* When the script on the host of a ready Machine has ended, its verdict gets into
\* the status of the Machine, unless the Machine is deleted: isScriptFinished is
\* run again and again, whatever errors, edits and restarts come between.
VerdictIsRecorded ==
  \A m \in Machines :
    Api(m).conds["MachineReady"] = "True" /\ result[Name[m]] \in {"ok", "fail"} ~>
      \/ Api(m).conds["ClusterOperationComplete"] \in {"True", "ClusterOperationFailed"}
      \/ Api(m).del \/ ~Api(m).ex
=============================================================================
