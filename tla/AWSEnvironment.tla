--------------------------- MODULE AWSEnvironment ---------------------------
(***************************************************************************)
(* The network that the operator builds for an AWS Machine before it runs  *)
(* docker-machine, and takes down in the cleanup (pkg/controller/aws.go):  *)
(* a VPC, a subnet over the whole of it, an internet gateway and a default *)
(* route.  The ids of what was made are kept in annotations of the Machine *)
(* and nowhere else.                                                       *)
(*                                                                         *)
(* Every EC2 call and every annotation is a step, so a crash can come      *)
(* between any two.  What a failed step undoes is a fixed list of deletion *)
(* calls (machineObj does not change meanwhile): todo is what is left of   *)
(* it.  The rest of the reconcile is as in MachineController, reduced to   *)
(* what the environment depends on.                                        *)
(*                                                                         *)
(* EC2 ids are never reused, but they are only compared: an id that nothing*)
(* mentions any more may stand for a new one.                              *)
(***************************************************************************)
EXTENDS Integers, Sequences

CONSTANTS
  MaxIds,     \* bound: EC2 ids in use at a time (EC2 has limits of its own)
  MaxLag,     \* bound: undelivered events of the Machine
  Scenarios   \* bound: how often the disturbances occur together

\* refused: a call to EC2, to docker-machine or for a secret fails and does
\* nothing; lost: EC2 does what it is asked and the answer is an error; patch: a
\* write to the API server fails, stored or not; crash: the operator restarts;
\* stale: a reconcile starts from a copy with another VPC annotation than the stored.
Disturbances == {"refused", "lost", "patch", "crash", "stale"}

ASSUME EnvironmentAssumption ==
  /\ MaxIds \in Nat
  /\ MaxLag \in Nat \ {0}
  /\ Scenarios \subseteq [Disturbances -> Nat]

VARIABLES
  hist,     \* the versions of the Machine, from the cached one to the current
  mobj,     \* r.machineObj
  own,      \* ids of the resources the handler has just made or looked up
  pc,       \* where the worker is
  todo,     \* the deletion calls still to be made
  net,      \* what there is in the cloud
  happened \* how often each disturbance has happened

vars == <<hist, mobj, own, pc, todo, net, happened>>

Ids == 1..MaxIds
None == 0    \* an annotation that is not set

\* A version of the Machine: its annotations, whether docker-machine create has
\* been tried (MachineCreating or MachineReady is True), the deletion mark.
Versions == [vpc : Ids \cup {None}, subnet : Ids \cup {None}, gateway : Ids \cup {None},
             done : BOOLEAN, del : BOOLEAN]
Blank == [vpc |-> None, subnet |-> None, gateway |-> None, done |-> FALSE, del |-> FALSE]
Nothing == [vpc |-> None, subnet |-> None, gateway |-> None]

\* subnets are pairs of subnet and VPC, attached pairs of gateway and VPC; routes
\* and groups are the VPCs with a default route, and with a security group made
\* by docker-machine; host is the subnet the host is in.
Networks == [vpcs : SUBSET Ids, available : SUBSET Ids, subnets : SUBSET (Ids \X Ids),
             gateways : SUBSET Ids, attached : SUBSET (Ids \X Ids),
             routes : SUBSET Ids, groups : SUBSET Ids, host : Ids \cup {None}]
NoNetwork == [vpcs |-> {}, available |-> {}, subnets |-> {}, gateways |-> {},
              attached |-> {}, routes |-> {}, groups |-> {}, host |-> None]

Calls == [call : {"route", "detach", "gateway", "subnet", "groups", "vpc"},
          id : Ids, vpc : Ids]

PcStates == {"idle", "createVpc", "annotateVpc", "wait", "getVpc", "createSubnet",
             "createGateway", "attach", "route", "annotateGateway", "annotateSubnet",
             "create", "commit", "undo", "rm", "cleanup", "unfinalize", "removed"}

\* The types of the variables.  Deletion calls are left exactly while a rollback
\* or a cleanup is under way, and none is made with an empty id: deleteAwsVpc and
\* deleteAwsSubnet look at the annotations first.
TypeOK ==
  /\ hist \in Seq(Versions) /\ Len(hist) \in 1..(MaxLag + 1)
  /\ mobj \in Versions
  /\ own \in [vpc : Ids \cup {None}, subnet : Ids \cup {None}, gateway : Ids \cup {None}]
  /\ pc \in PcStates
  /\ todo \in Seq(Calls)
  /\ net \in Networks
  /\ happened \in [Disturbances -> Nat]
  /\ todo # <<>> <=> pc \in {"undo", "cleanup"}

Init ==
  /\ hist = <<Blank>>
  /\ mobj = Blank
  /\ own = Nothing
  /\ pc = "idle"
  /\ todo = <<>>
  /\ net = NoNetwork
  /\ happened = [d \in Disturbances |-> 0]

\* A disturbance happens, if that is within the bound.
Happens(d) ==
  /\ happened' = [happened EXCEPT ![d] = @ + 1]
  /\ happened' \in Scenarios

Api == hist[Len(hist)]
Cached == Head(hist)

Emit(new) ==
  /\ Len(hist) <= MaxLag
  /\ hist' = Append(hist, new)

Annotations(o) == {o.vpc, o.subnet, o.gateway}

\* The ids that something in the cloud has or that somebody remembers.
Mentioned ==
  net.vpcs \cup net.gateways \cup {s[1] : s \in net.subnets}
    \cup Annotations(mobj) \cup Annotations(own)
    \cup UNION {Annotations(hist[i]) : i \in 1..Len(hist)}
Room == Ids \ Mentioned # {}
NewId == CHOOSE i \in Ids : i \notin Mentioned

-----------------------------------------------------------------------------
(* How a handler goes on.                                                  *)

\* The reconcile ends; nothing of its memory is used again.
Return ==
  /\ pc' = "idle" /\ mobj' = Blank /\ own' = Nothing /\ todo' = <<>>

Goto(l) == pc' = l /\ UNCHANGED <<mobj, own, todo>>

\* It goes on with the new resource id in hand.
Holding(ids, l) == pc' = l /\ own' = ids /\ UNCHANGED <<mobj, todo>>

Call(c, id, vpc) == [call |-> c, id |-> id, vpc |-> vpc]

\* The calls of deleteAwsInternetGateway, deleteAwsSubnet and deleteAwsVpc.
DeleteAwsInternetGateway(g, v) ==
  <<Call("route", v, v), Call("detach", g, v), Call("gateway", g, v)>>

DeleteAwsSubnet(s) ==
  (IF mobj.gateway # None THEN DeleteAwsInternetGateway(mobj.gateway, mobj.vpc) ELSE <<>>)
    \o <<Call("subnet", s, mobj.vpc)>>

\* Mutant of DeleteAwsVpc: the VPC annotation is not looked at.
DeleteAwsVpc_NoGuard(v) ==
  (IF mobj.subnet # None THEN DeleteAwsSubnet(mobj.subnet) ELSE <<>>)
    \o <<Call("groups", v, v), Call("vpc", v, v)>>

DeleteAwsVpc(v) ==
  IF mobj.vpc = None
  THEN <<>>
  ELSE (IF mobj.subnet # None THEN DeleteAwsSubnet(mobj.subnet) ELSE <<>>)
         \o <<Call("groups", v, v), Call("vpc", v, v)>>

\* What a failing step has undone before its error is returned.
Rollback(calls) ==
  IF calls = <<>>
  THEN Return
  ELSE pc' = "undo" /\ todo' = calls /\ UNCHANGED <<mobj, own>>

\* A call that EC2 can carry out if possible, with the effect new: it is answered,
\* its answer is lost, or it is refused.
Ask(possible, new, Then, Otherwise) ==
  \/ possible /\ net' = new /\ Then /\ UNCHANGED happened
  \/ possible /\ net' = new /\ Otherwise /\ Happens("lost")
  \/ UNCHANGED net /\ Otherwise /\ IF possible THEN Happens("refused") ELSE UNCHANGED happened

\* patchAnnotation: the annotation is merged into the stored object, which
\* machineObj then is a copy of.
PatchAnnotation(new, l, Otherwise) ==
  /\ \/ Emit(new) /\ mobj' = new /\ pc' = l /\ UNCHANGED <<own, todo, happened>>
     \/ Happens("patch") /\ Otherwise /\ (Emit(new) \/ UNCHANGED hist)
  /\ UNCHANGED net

-----------------------------------------------------------------------------
(* createAWSEnvironment                                                    *)

\* Mutant of FirstCall: one annotation is enough.
FirstCall_AnyAnnotation(o) ==
  CASE o.vpc # None \/ o.subnet # None \/ o.gateway # None -> "create"
    [] OTHER -> "createVpc"

\* With all three annotations set there is nothing to do; a VPC that is annotated
\* is looked up.
FirstCall(o) ==
  CASE o.vpc # None /\ o.subnet # None /\ o.gateway # None -> "create"
    [] o.vpc = None -> "createVpc"
    [] OTHER -> "getVpc"

\* The Machine is taken up.  Whether it is deleted or done is read from the cache;
\* machineObj is that copy, or the stored object if the status update that comes
\* first had something to write.  The cache may be behind in everything; how often
\* the VPC annotation is not the stored one is counted.
Reconcile ==
  /\ pc = "idle"
  /\ Cached.del \/ ~Cached.done
  /\ \E o \in {Cached, Api} :
       /\ mobj' = o /\ pc' = IF Cached.del THEN "rm" ELSE FirstCall(o)
       /\ IF o.vpc # Api.vpc THEN Happens("stale") ELSE UNCHANGED happened
  /\ UNCHANGED <<hist, own, todo, net>>

CreateVpc ==
  /\ pc = "createVpc"
  /\ Ask(Room, [net EXCEPT !.vpcs = @ \cup {NewId}],
         Holding([own EXCEPT !.vpc = NewId], "annotateVpc"), Return)
  /\ UNCHANGED hist

\* A VPC whose id cannot be stored is left to itself.
AnnotateVpc ==
  /\ pc = "annotateVpc"
  /\ PatchAnnotation([Api EXCEPT !.vpc = own.vpc], "wait", Return)

\* The subnet is made unless it is annotated.
AfterVpc == IF mobj.subnet = None THEN "createSubnet" ELSE "create"

\* waitForState: polls until the VPC is available, an error or the timeout.
WaitForVpc ==
  /\ pc = "wait"
  /\ \/ own.vpc \in net.available /\ Goto(AfterVpc) /\ UNCHANGED happened
     \/ own.vpc \notin net.available /\ Rollback(DeleteAwsVpc(own.vpc)) /\ UNCHANGED happened
     \/ Happens("refused") /\ Rollback(DeleteAwsVpc(own.vpc))
  /\ UNCHANGED <<hist, net>>

GetVPC ==
  /\ pc = "getVpc"
  /\ Ask(mobj.vpc \in net.vpcs, net, Holding([own EXCEPT !.vpc = mobj.vpc], AfterVpc), Return)
  /\ UNCHANGED hist

\* The subnet takes the whole address range: there is no room for a second one.
CreateSubnet ==
  /\ pc = "createSubnet"
  /\ Ask(Room /\ own.vpc \in net.vpcs /\ \A s \in net.subnets : s[2] # own.vpc,
         [net EXCEPT !.subnets = @ \cup {<<NewId, own.vpc>>}],
         Holding([own EXCEPT !.subnet = NewId], "createGateway"), Rollback(DeleteAwsVpc(own.vpc)))
  /\ UNCHANGED hist

\* What createAwsSubnet and createAwsVpc undo when the gateway fails.
UndoSubnet == DeleteAwsSubnet(own.subnet) \o DeleteAwsVpc(own.vpc)
UndoGateway == DeleteAwsInternetGateway(own.gateway, own.vpc) \o UndoSubnet

CreateGateway ==
  /\ pc = "createGateway"
  /\ Ask(Room, [net EXCEPT !.gateways = @ \cup {NewId}],
         Holding([own EXCEPT !.gateway = NewId], "attach"), Rollback(UndoSubnet))
  /\ UNCHANGED hist

\* A VPC has one gateway at most.
AttachGateway ==
  /\ pc = "attach"
  /\ Ask(own.vpc \in net.vpcs /\ \A a \in net.attached : a[2] # own.vpc,
         [net EXCEPT !.attached = @ \cup {<<own.gateway, own.vpc>>}],
         Goto("route"), Rollback(UndoGateway))
  /\ UNCHANGED hist

CreateRoute ==
  /\ pc = "route"
  /\ Ask(own.vpc \in net.vpcs \ net.routes, [net EXCEPT !.routes = @ \cup {own.vpc}],
         Goto("annotateGateway"), Rollback(UndoGateway))
  /\ UNCHANGED hist

AnnotateGateway ==
  /\ pc = "annotateGateway"
  /\ PatchAnnotation([Api EXCEPT !.gateway = own.gateway], "annotateSubnet", Rollback(UndoSubnet))

AnnotateSubnet ==
  /\ pc = "annotateSubnet"
  /\ PatchAnnotation([Api EXCEPT !.subnet = own.subnet], "create", Rollback(DeleteAwsVpc(own.vpc)))

-----------------------------------------------------------------------------
(* The host: createMachine after the environment, as far as it matters.    *)

\* docker-machine create, in the annotated subnet of the annotated VPC.  It may
\* not be reached for want of a secret, and may leave its security group when it
\* fails.
CreateHost ==
  LET there == net.host # None
      possible == <<mobj.subnet, mobj.vpc>> \in net.subnets
      grouped == [net EXCEPT !.groups = @ \cup {mobj.vpc}]
  IN
  /\ pc = "create"
  /\ \/ there /\ UNCHANGED <<net, happened>> /\ Goto("commit")
     \/ /\ ~there /\ possible
        /\ net' = [grouped EXCEPT !.host = mobj.subnet]
        /\ UNCHANGED happened /\ Goto("commit")
     \/ ~there /\ ~possible /\ UNCHANGED <<net, happened>> /\ Goto("commit")
     \/ ~there /\ possible /\ net' \in {net, grouped} /\ Happens("refused") /\ Goto("commit")
     \/ UNCHANGED net /\ Happens("refused") /\ Return
  /\ UNCHANGED hist

\* The status that says that the creation has been tried is stored, or is not.
CommitCreated ==
  /\ pc = "commit"
  /\ \/ Emit([Api EXCEPT !.done = TRUE]) /\ UNCHANGED happened
     \/ UNCHANGED hist /\ Happens("patch")
  /\ Return
  /\ UNCHANGED net

-----------------------------------------------------------------------------
(* cleanupAWSResources, and the rollback of createAWSEnvironment.          *)

\* Mutant of DeleteDockerMachine: an error of docker-machine rm is only logged.
DeleteDockerMachine_ErrorDropped ==
  /\ pc = "rm"
  /\ \/ net' = [net EXCEPT !.host = None] /\ UNCHANGED happened
     \/ UNCHANGED net /\ Happens("refused")
  /\ todo' = DeleteAwsVpc(mobj.vpc)
  /\ pc' = IF todo' = <<>> THEN "unfinalize" ELSE "cleanup"
  /\ UNCHANGED <<hist, mobj, own>>

\* The host goes first (a host that is not there is passed over).  It stays, or it
\* goes and the credentials for the cleanup cannot be read, or the cleanup starts.
DeleteDockerMachine ==
  /\ pc = "rm"
  /\ \/ UNCHANGED net /\ Happens("refused") /\ Return
     \/ net' = [net EXCEPT !.host = None] /\ Happens("refused") /\ Return
     \/ /\ net' = [net EXCEPT !.host = None]
        /\ todo' = DeleteAwsVpc(mobj.vpc)
        /\ pc' = IF todo' = <<>> THEN "unfinalize" ELSE "cleanup"
        /\ UNCHANGED <<mobj, own, happened>>
  /\ UNCHANGED hist

\* Can EC2 carry out the deletion?
Possible(c) ==
  CASE c.call = "route" -> c.id \in net.routes
    [] c.call = "detach" -> <<c.id, c.vpc>> \in net.attached
    [] c.call = "gateway" -> c.id \in net.gateways /\ \A a \in net.attached : a[1] # c.id
    [] c.call = "subnet" -> c.id # net.host /\ \E s \in net.subnets : s[1] = c.id
    [] c.call = "groups" -> c.id \in net.groups /\ <<net.host, c.id>> \notin net.subnets
    [] OTHER -> /\ c.id \in net.vpcs \ net.groups
                /\ \A x \in net.subnets \cup net.attached : x[2] # c.id

\* The cloud after the deletion.
Without(c) ==
  CASE c.call = "route" -> [net EXCEPT !.routes = @ \ {c.id}]
    [] c.call = "detach" -> [net EXCEPT !.attached = @ \ {<<c.id, c.vpc>>}]
    [] c.call = "gateway" -> [net EXCEPT !.gateways = @ \ {c.id}]
    [] c.call = "subnet" -> [net EXCEPT !.subnets = {s \in @ : s[1] # c.id}]
    [] c.call = "groups" -> [net EXCEPT !.groups = @ \ {c.id}]
    [] OTHER -> [net EXCEPT !.vpcs = @ \ {c.id}, !.available = @ \ {c.id}, !.routes = @ \ {c.id}]

\* An error of these calls is logged at most, or joined to the one that is
\* returned anyway.
DeleteCall ==
  /\ pc \in {"undo", "cleanup"}
  /\ Head(todo).call # "vpc"
  /\ \/ Possible(Head(todo)) /\ net' = Without(Head(todo)) /\ UNCHANGED happened
     \/ /\ IF Possible(Head(todo)) THEN Happens("refused") ELSE UNCHANGED happened
        /\ UNCHANGED net
  /\ todo' = Tail(todo)
  /\ UNCHANGED <<hist, mobj, own, pc>>

\* The security groups cannot be listed: deleteAwsVpc gives up.
DescribeGroupsFails ==
  /\ pc \in {"undo", "cleanup"}
  /\ Head(todo).call = "groups"
  /\ Happens("refused")
  /\ Return
  /\ UNCHANGED <<hist, net>>

\* Mutant of DeleteVpc: its error is logged like the others.
DeleteVpc_ErrorDropped ==
  LET c == Head(todo) IN
  /\ pc \in {"undo", "cleanup"}
  /\ c.call = "vpc"
  /\ net' = IF Possible(c) THEN Without(c) ELSE net
  /\ IF pc = "cleanup"
     THEN pc' = "unfinalize" /\ todo' = <<>> /\ UNCHANGED <<mobj, own>>
     ELSE Return
  /\ UNCHANGED <<hist, happened>>

\* Mutant of DeleteVpc: a VPC that does not exist is an error.
DeleteVpc_MissingFails ==
  LET c == Head(todo) IN
  /\ pc \in {"undo", "cleanup"}
  /\ c.call = "vpc"
  /\ Ask(Possible(c), Without(c),
         IF pc = "cleanup"
         THEN pc' = "unfinalize" /\ todo' = <<>> /\ UNCHANGED <<mobj, own>>
         ELSE Return,
         Return)
  /\ UNCHANGED hist

\* The last call decides: the VPC is gone, or was not there ("does not exist"), or
\* the cleanup has failed.  A rollback returns the error that led to it.
DeleteVpc ==
  LET c == Head(todo) IN
  /\ pc \in {"undo", "cleanup"}
  /\ c.call = "vpc"
  /\ Ask(Possible(c) \/ c.id \notin net.vpcs, Without(c),
         IF pc = "cleanup"
         THEN pc' = "unfinalize" /\ todo' = <<>> /\ UNCHANGED <<mobj, own>>
         ELSE Return,
         Return)
  /\ UNCHANGED hist

\* The finalizer is removed, and the Machine with it.
RemoveFinalizer ==
  /\ pc = "unfinalize"
  /\ \/ pc' = "removed" /\ mobj' = Blank /\ UNCHANGED <<own, todo, happened>>
     \/ Happens("patch") /\ Return
  /\ UNCHANGED <<hist, net>>

-----------------------------------------------------------------------------
(* The environment of the operator.                                        *)

Deliver ==
  /\ Len(hist) > 1
  /\ hist' = Tail(hist)
  /\ UNCHANGED <<mobj, own, pc, todo, net, happened>>

UserDelete ==
  /\ pc # "removed" /\ ~Api.del
  /\ Emit([Api EXCEPT !.del = TRUE])
  /\ UNCHANGED <<mobj, own, pc, todo, net, happened>>

\* A VPC becomes available some time after its creation.
VpcAvailable ==
  /\ \E v \in net.vpcs \ net.available : net' = [net EXCEPT !.available = @ \cup {v}]
  /\ UNCHANGED <<hist, mobj, own, pc, todo, happened>>

Crash ==
  /\ pc # "removed"
  /\ Happens("crash")
  /\ hist' = <<Api>>
  /\ Return
  /\ UNCHANGED net

WorkerStep ==
  \/ CreateVpc \/ AnnotateVpc \/ WaitForVpc \/ GetVPC
  \/ CreateSubnet \/ CreateGateway \/ AttachGateway \/ CreateRoute
  \/ AnnotateGateway \/ AnnotateSubnet \/ CreateHost \/ CommitCreated
  \/ DeleteDockerMachine \/ DeleteCall \/ DescribeGroupsFails \/ DeleteVpc
  \/ RemoveFinalizer

Next == Reconcile \/ WorkerStep \/ Deliver \/ UserDelete \/ VpcAvailable \/ Crash

Spec == Init /\ [][Next]_vars

\* The worker goes on, the Machine is reconciled again and again, the watch
\* delivers its events, and EC2 makes a VPC available.
Fairness == WF_vars(WorkerStep) /\ WF_vars(Reconcile) /\ WF_vars(Deliver) /\ WF_vars(VpcAvailable)

FairSpec == Spec /\ Fairness

-----------------------------------------------------------------------------
(* Properties                                                              *)

\* No answer and no write was lost, and the operator was not restarted.
OnlyRefusals == \A d \in {"lost", "patch", "crash"} : happened[d] = 0

\* When createAWSEnvironment has returned without an error, the annotated subnet
\* is in the annotated VPC, and the annotated gateway is attached to that VPC and
\* routed: early returns on annotations and rollbacks do not contradict each other.
\* Copies that lack the other annotations are allowed for; a reconcile that does not
\* see the VPC annotation is not, it makes a second VPC and keeps the old subnet.
EnvironmentComplete ==
  pc = "create" /\ happened["stale"] = 0 =>
    /\ <<mobj.subnet, mobj.vpc>> \in net.subnets
    /\ <<mobj.gateway, mobj.vpc>> \in net.attached
    /\ mobj.vpc \in net.routes

\* A host is in a VPC that has a gateway and a route, from docker-machine create to
\* docker-machine rm: neither a retry of createAWSEnvironment from a copy that does
\* not show the work done, nor its rollback, nor an interrupted cleanup takes the
\* network away from under it.  One reconcile with an outdated VPC annotation is
\* allowed for; after two the rollback for one VPC may hit the route of the other.
HostStaysConnected ==
  net.host # None /\ happened["stale"] <= 1 =>
    \E v \in net.routes : <<net.host, v>> \in net.subnets /\ \E a \in net.attached : a[2] = v

\* When the Machine is gone, its VPC is gone with the subnet, the gateway and the
\* security group that were in it, whatever failed; and if calls were only refused,
\* those of the rollback and of the cleanup included, no other VPC is left either.
\* A reconcile that did not see the VPC annotation is not allowed for: its Machine
\* loses the first VPC, or is removed without a cleanup.
NetworkIsRemoved ==
  pc = "removed" /\ happened["stale"] = 0 =>
    /\ Api.vpc \notin net.vpcs \cup net.groups
    /\ \A x \in net.subnets \cup net.attached : x[2] # Api.vpc
    /\ OnlyRefusals => net.vpcs = {} /\ net.subnets = {} /\ net.groups = {}

\* The deletion of the Machine gets through cleanupAWSResources in the end.
EnvironmentDeletionCompletes == Api.del ~> pc = "removed"

\* It does so when at most one call is refused and no answer, write or operator is
\* lost, whatever the copies lack that the reconciles start from: a retry finds and
\* removes whatever is left, or passes over what is gone.
DeletionSurvivesRefusal ==
  Api.del ~> pc = "removed" \/ ~OnlyRefusals \/ happened["refused"] > 1

\* The host is tried in the end, unless the Machine is deleted: after an error the
\* environment is built again.
HostIsTried == <>(Api.done \/ Api.del)
=============================================================================
