------------------------ MODULE AWSEnvironmentProofs ------------------------
(***************************************************************************)
(* The second and the third part of the invariant of the AWS environment   *)
(* are kept by every step, and what follows from the invariant: the        *)
(* theorems are at the end.                                                *)
(***************************************************************************)
EXTENDS AWSEnvironmentInvariant

-----------------------------------------------------------------------------
(* Near: what holds until a second reconcile starts from an outdated VPC.   *)

\* The VPC and the subnet annotations stay as they are; all annotations do.
Quiet ==
  /\ Alike(Api', Api) /\ \A c \in Copies' : \E d \in Copies : Alike(c, d)
  /\ Cached.del => Cached'.del
Silent ==
  /\ Same(Api', Api) /\ \A c \in Copies' : \E d \in Copies : Same(c, d)
  /\ Cached.del => Cached'.del

\* Annotations that all stay include the VPC and the subnet.
LEMMA SilentIsQuiet == Silent => Quiet
BY DEF Silent, Quiet, Same, Alike

\* Without a write they stay.
LEMMA UnwrittenIsSilent == ASSUME Base, UNCHANGED hist PROVE Silent
BY Unwritten DEF Base, Silent, Same

\* A worker that builds has started with a network that was standing.
LEMMA StandingKept ==
  ASSUME Cached.del => Cached'.del,
         pc' \in Building \cup {"undo"} => pc \in Building \cup {"undo"} \/ ~Cached.del
  PROVE  Standing' => Standing
BY DEF Standing

\* Where the annotations stay and the network loses nothing but the host.
LEMMA NearFrame ==
  ASSUME NearOK, Quiet, Standing' => Standing,
         net.subnets \subseteq net'.subnets, net.attached \subseteq net'.attached,
         net.routes \subseteq net'.routes,
         <<Api.subnet, Api.vpc>> \in net'.subnets => <<Api.subnet, Api.vpc>> \in net.subnets
  PROVE  /\ CopiesOK' /\ LinkOK'
         /\ net'.host \in {net.host, None} => HostOK'
         /\ UpToDate(mobj) /\ Alike(mobj', mobj) => UpToDate(mobj)'
<1>1. Api'.vpc = Api.vpc /\ Api'.subnet = Api.subnet
  BY DEF Quiet, Alike
<1>2. LinkOK'
  BY <1>1 DEF NearOK, LinkOK, Linked
<1>3. net'.host \in {net.host, None} => HostOK'
  BY DEF NearOK, HostOK, Linked
<1>4. ASSUME NEW c \in Copies' PROVE UpToDate(c)'
  <2>1. PICK d \in Copies : Alike(c, d)
    BY <1>4 DEF Quiet
  <2>2. UpToDate(d)
    BY <2>1 DEF NearOK, CopiesOK
  <2>. QED  BY <1>1, <2>1, <2>2 DEF UpToDate, Alike
<1>5. CopiesOK'
  BY <1>4 DEF CopiesOK
<1>6. UpToDate(mobj) /\ Alike(mobj', mobj) => UpToDate(mobj)'
  BY <1>1 DEF UpToDate, Alike
<1>. QED  BY <1>2, <1>3, <1>5, <1>6

\* A worker that does not build and does not undo.
LEMMA NotBuilding ==
  pc' \notin InVpc \cup {"undo"} => BuildOK' /\ UndoOK'
BY DEF BuildOK, UndoOK, InVpc, AfterAnnotateVpc

\* The end of a reconcile, or the beginning of one that has nothing yet.
LEMMA NearLeft ==
  ASSUME NearOK, Quiet, Standing' => Standing, pc' \notin InVpc \cup {"undo"},
         net.subnets \subseteq net'.subnets, net.attached \subseteq net'.attached,
         net.routes \subseteq net'.routes,
         <<Api.subnet, Api.vpc>> \in net'.subnets => <<Api.subnet, Api.vpc>> \in net.subnets,
         net'.host \in {net.host, None}
  PROVE  NearOK'
BY NearFrame, NotBuilding DEF NearOK

\* A reconcile may end anywhere.
LEMMA ReturnNear ==
  ASSUME Base, NearOK, Quiet, Return, UNCHANGED net
  PROVE  NearOK'
<1>1. pc' = "idle"
  BY DEF Return
<1>2. Standing' => Standing
  BY <1>1, StandingKept DEF Quiet, Building, InVpc, AfterAnnotateVpc, AfterSubnet
<1>. QED  BY <1>1, <1>2, NearLeft DEF InVpc, AfterAnnotateVpc, AfterSubnet

\* A rollback in a VPC that nobody uses, or of an empty VPC.
LEMMA RollbackNear ==
  ASSUME Base, NearOK, Quiet, Grows, NEW calls, Deletion(calls), Rollback(calls), pc \in Building,
         (Unused(Api.vpc)' /\ Within(calls, Api.vpc)) \/ OnlyVpcCalls(calls)
  PROVE  NearOK'
<1>1. pc' = "undo" /\ todo' = calls
  BY DEF Rollback, Deletion
<1>2. Standing' => Standing
  BY <1>1, StandingKept DEF Quiet
<1>3. CopiesOK' /\ LinkOK' /\ HostOK'
  BY <1>2, NearFrame DEF Grows
<1>4. BuildOK'
  BY <1>1 DEF BuildOK, InVpc, AfterAnnotateVpc, AfterSubnet
<1>5. UndoOK'
  BY <1>1 DEF UndoOK, Quiet, Alike
<1>. QED  BY <1>3, <1>4, <1>5 DEF NearOK

\* A reconcile starts with the stored VPC, or without one, or with the cleanup.
LEMMA ReconcileNear == ASSUME Base, Near, Exact, Reconcile, happened'["stale"] <= 1 PROVE NearOK'
<1>1. PICK o \in {Cached, Api} :
        /\ mobj' = o /\ pc' = IF Cached.del THEN "rm" ELSE FirstCall(o)
        /\ IF o.vpc # Api.vpc THEN Happens("stale") ELSE UNCHANGED happened
  BY DEF Reconcile
<1>2. UNCHANGED <<hist, own, todo, net>> /\ pc = "idle"
  BY DEF Reconcile
<1>3. Counting
  BY <1>1, Disturbed
<1>4. NearOK
  BY <1>3, Counted DEF Base, Near
<1>5. Quiet /\ Api' = Api /\ Cached' = Cached
  BY <1>2, UnwrittenIsSilent, SilentIsQuiet, Unwritten DEF Base
<1>6. pc' # "rm" => ~Cached.del
  BY <1>1 DEF FirstCall
<1>7. Standing' => Standing
  BY <1>5, <1>6, StandingKept DEF Quiet, Building, InVpc, AfterAnnotateVpc, AfterSubnet
<1>8. CopiesOK' /\ LinkOK' /\ HostOK'
  BY <1>2, <1>4, <1>5, <1>7, NearFrame
<1>9. CASE pc' \in {"rm", "createVpc"}
  BY <1>8, <1>9, NotBuilding DEF NearOK, InVpc, AfterAnnotateVpc, AfterSubnet
<1>10. CASE pc' \notin {"rm", "createVpc"}
  <2>1. pc' \in {"create", "getVpc"} /\ o.vpc # None
    BY <1>1, <1>10 DEF FirstCall
  <2>2. o.vpc = Api.vpc
    <3>1. SUFFICES ASSUME o.vpc # Api.vpc PROVE FALSE
      OBVIOUS
    <3>2. happened["stale"] = 0
      BY <1>1, <1>3, <3>1, Counted DEF Base, TypeOK, Disturbances
    <3>3. o.vpc \in {None, Api.vpc}
      BY <3>2, CopiesTyped DEF Base, Exact, ExactOK, OrderOK
    <3>. QED  BY <2>1, <3>1, <3>3
  <2>3. o \in Copies'
    BY <1>5, <1>2, CopiesTyped, Unwritten DEF Base
  <2>4. UpToDate(mobj)' /\ mobj'.vpc = Api'.vpc
    BY <1>1, <1>5, <1>8, <2>2, <2>3 DEF CopiesOK, UpToDate
  <2>5. BuildOK' /\ UndoOK'
    BY <2>1, <2>4 DEF BuildOK, UndoOK, AfterAnnotateVpc, AfterSubnet
  <2>. QED  BY <1>8, <2>5 DEF NearOK
<1>. QED  BY <1>9, <1>10

\* A VPC that is not annotated yet is nothing to the rest.
LEMMA CreateVpcNear == ASSUME Base, NearOK, CreateVpc PROVE NearOK'
<1>. DEFINE new == [net EXCEPT !.vpcs = @ \cup {NewId}]
<1>1. /\ pc = "createVpc" /\ UNCHANGED hist /\ pc' \in {"annotateVpc", "idle"}
      /\ UNCHANGED net \/ net' = new
  BY DEF CreateVpc, Ask, Holding, Return
<1>2. net'.subnets = net.subnets /\ net'.attached = net.attached /\ net'.routes = net.routes
      /\ net'.host = net.host
  BY <1>1 DEF Base, TypeOK, Networks
<1>3. Quiet
  BY <1>1, UnwrittenIsSilent, SilentIsQuiet
<1>4. Standing' => Standing
  BY <1>1, <1>3, StandingKept DEF Quiet, Building
<1>. QED  BY <1>1, <1>2, <1>3, <1>4, NearLeft DEF InVpc, AfterAnnotateVpc, AfterSubnet

\* The new VPC is nobody's: no older copy has it, and there is nothing in it.
LEMMA AnnotateVpcNear == ASSUME Base, NearOK, AnnotateVpc PROVE NearOK'
<1>. DEFINE new == [Api EXCEPT !.vpc = own.vpc]
<1>1. /\ pc = "annotateVpc" /\ own.vpc \in Ids /\ UNCHANGED net
      /\ \A s \in net.subnets : s[2] # own.vpc
      /\ \A c \in Copies : c.vpc # own.vpc
  BY DEF AnnotateVpc, PatchAnnotation, Base, WorkerOK
<1>2. /\ new \in Versions /\ new.vpc = own.vpc /\ new.del = Api.del /\ new.subnet = Api.subnet
      /\ new.vpc # None
  BY <1>1, CopiesTyped, NoneIsNoId DEF Base, Versions
<1>3. HostOK'
  BY <1>1 DEF NearOK, HostOK, Linked
<1>. HIDE DEF new
<1>4. ASSUME Emit(new) PROVE CopiesOK' /\ LinkOK' /\ Api' = new
  <2>1. Api' = new /\ Copies' = Copies \cup {new}
    BY <1>2, <1>4, Emitted DEF Base
  <2>2. CopiesOK'
    BY <1>1, <1>2, <2>1 DEF CopiesOK, UpToDate
  <2>3. LinkOK'
    BY <1>1, <1>2, <2>1 DEF LinkOK
  <2>. QED  BY <2>1, <2>2, <2>3
<1>5. CASE Emit(new) /\ mobj' = new /\ pc' = "wait" /\ UNCHANGED <<own, todo, happened>>
  <2>1. BuildOK' /\ UndoOK'
    BY <1>2, <1>4, <1>5 DEF BuildOK, UndoOK, UpToDate, AfterSubnet
  <2>. QED  BY <1>3, <1>4, <1>5, <2>1 DEF NearOK
<1>6. CASE Return /\ Emit(new)
  BY <1>3, <1>4, <1>6, NotBuilding DEF NearOK, Return, InVpc, AfterAnnotateVpc, AfterSubnet
<1>7. CASE Return /\ UNCHANGED hist
  BY <1>1, <1>7, UnwrittenIsSilent, SilentIsQuiet, ReturnNear
<1>. QED  BY <1>5, <1>6, <1>7 DEF AnnotateVpc, PatchAnnotation, new

\* A rollback from here is in the new VPC, which is empty.
LEMMA WaitForVpcNear == ASSUME Base, Base', NearOK, WaitForVpc PROVE NearOK'
<1>1. /\ pc = "wait" /\ UNCHANGED <<hist, net>> /\ pc \in AfterAnnotateVpc /\ pc \in Building /\ pc \in InVpc
      /\ mobj.vpc = Api.vpc /\ UpToDate(mobj) /\ own.vpc = Api.vpc
      /\ \A s \in net.subnets : s[2] # own.vpc
  BY DEF WaitForVpc, AfterAnnotateVpc, InVpc, Building, NearOK, BuildOK, Base, WorkerOK
<1>2. Quiet /\ Grows /\ Api' = Api
  BY <1>1, UnwrittenIsSilent, SilentIsQuiet, NothingGrows, Unwritten DEF Base
<1>3. CASE Goto(AfterVpc)
  <2>1. pc' \in {"createSubnet", "create"} /\ UNCHANGED <<mobj, own, todo>>
    BY <1>3 DEF Goto, AfterVpc
  <2>2. Standing' => Standing
    BY <1>1, <1>2, StandingKept DEF Quiet
  <2>3. CopiesOK' /\ LinkOK' /\ HostOK' /\ UpToDate(mobj)'
    BY <1>1, <1>2, <2>1, <2>2, NearFrame DEF Alike, Grows
  <2>4. BuildOK' /\ UndoOK'
    BY <1>1, <1>2, <2>1, <2>3 DEF BuildOK, UndoOK, AfterSubnet, AfterAnnotateVpc
  <2>. QED  BY <2>3, <2>4 DEF NearOK
<1>4. CASE Rollback(DeleteAwsVpc(own.vpc))
  <2>1. Unused(Api.vpc)'
    BY <1>1, <1>2 DEF Unused
  <2>2. Deletion(DeleteAwsVpc(own.vpc)) /\ Within(DeleteAwsVpc(own.vpc), Api.vpc)
    BY <1>1, UndoVpcCalls
  <2>. QED  BY <1>1, <1>2, <1>4, <2>1, <2>2, RollbackNear
<1>. QED  BY <1>3, <1>4 DEF WaitForVpc

\* The VPC that is looked up is the stored one.
LEMMA GetVPCNear == ASSUME Base, NearOK, GetVPC PROVE NearOK'
<1>1. /\ pc = "getVpc" /\ UNCHANGED <<hist, net>> /\ pc \in Building /\ pc \in InVpc
      /\ mobj.vpc = Api.vpc /\ UpToDate(mobj)
  BY DEF GetVPC, Ask, InVpc, Building, NearOK, BuildOK
<1>2. Quiet /\ Grows /\ Api' = Api
  BY <1>1, UnwrittenIsSilent, SilentIsQuiet, NothingGrows, Unwritten DEF Base
<1>3. CASE Holding([own EXCEPT !.vpc = mobj.vpc], AfterVpc)
  <2>1. pc' \in {"createSubnet", "create"} /\ UNCHANGED <<mobj, todo>> /\ own'.vpc = mobj.vpc
    BY <1>3 DEF Holding, AfterVpc, Base, TypeOK
  <2>2. Standing' => Standing
    BY <1>1, <1>2, StandingKept DEF Quiet
  <2>3. CopiesOK' /\ LinkOK' /\ HostOK' /\ UpToDate(mobj)'
    BY <1>1, <1>2, <2>1, <2>2, NearFrame DEF Alike, Grows
  <2>4. BuildOK' /\ UndoOK'
    BY <1>1, <1>2, <2>1, <2>3 DEF BuildOK, UndoOK, AfterSubnet, AfterAnnotateVpc
  <2>. QED  BY <2>3, <2>4 DEF NearOK
<1>4. CASE Return
  BY <1>1, <1>2, <1>4, ReturnNear
<1>. QED  BY <1>3, <1>4 DEF GetVPC, Ask

\* In a VPC under construction the only subnet is the worker's own, without a host.
LEMMA OwnSubnetOnly ==
  ASSUME CloudOK', pc \in AfterSubnet, <<own.subnet, own.vpc>> \in net'.subnets, net' \in Networks,
         own.subnet # net'.host, own.vpc = Api'.vpc, Api'.subnet = None
  PROVE  Unused(Api.vpc)'
<1>1. <<Api'.subnet, Api'.vpc>> \notin net'.subnets
  BY NoneIsNoId DEF Networks
<1>2. <<net'.host, Api'.vpc>> \notin net'.subnets
  <2>1. SUFFICES ASSUME <<net'.host, own.vpc>> \in net'.subnets PROVE FALSE
    OBVIOUS
  <2>2. \A s, t \in net'.subnets : s[2] = t[2] => s[1] = t[1]
    BY DEF CloudOK
  <2>3. <<net'.host, own.vpc>>[1] = <<own.subnet, own.vpc>>[1]
    BY <2>1, <2>2
  <2>. QED  BY <2>3
<1>. QED  BY <1>1, <1>2 DEF Unused

\* The four calls are made in the stored VPC, whose range is free before the first;
\* what is undone after them is in that VPC, and after a failure of the first it is
\* nothing but the VPC.
LEMMA BuildNear ==
  ASSUME Base, NearOK, CreateSubnet \/ CreateGateway \/ AttachGateway \/ CreateRoute
  PROVE  NearOK'
<1>. USE DEF AfterAnnotateVpc, AfterSubnet
<1>1. ASSUME NEW from \in AfterAnnotateVpc \ {"wait"}, NEW to \in AfterSubnet, CallDone(from, to),
             Api.subnet = None
      PROVE  NearOK'
  <2>1. /\ pc = from /\ pc' = to /\ pc \in InVpc /\ UNCHANGED <<hist, mobj, todo>> /\ own'.vpc = own.vpc
        /\ mobj.vpc = Api.vpc /\ UpToDate(mobj) /\ own.vpc = Api.vpc
    BY <1>1 DEF CallDone, NearOK, BuildOK, InVpc
  <2>2. mobj.subnet = None
    BY <1>1, <2>1 DEF UpToDate
  <2>3. Quiet /\ Api' = Api
    BY <2>1, UnwrittenIsSilent, SilentIsQuiet, Unwritten DEF Base
  <2>4. Standing' => Standing
    BY <2>1, <2>3, StandingKept DEF Quiet, Building
  <2>5. CopiesOK' /\ LinkOK' /\ HostOK' /\ UpToDate(mobj)'
    BY <1>1, <2>1, <2>3, <2>4, NearFrame DEF CallDone, Grows, Alike
  <2>6. BuildOK' /\ UndoOK'
    BY <1>1, <2>1, <2>2, <2>3, <2>5 DEF BuildOK, UndoOK
  <2>. QED  BY <2>5, <2>6 DEF NearOK
<1>2. ASSUME NEW from \in AfterSubnet, NEW calls, CallUndone(from, calls), Deletion(calls),
             mobj.vpc = own.vpc => Within(calls, own.vpc)
      PROVE  NearOK'
  <2>1. /\ pc \in AfterSubnet /\ pc \in InVpc /\ UNCHANGED hist /\ Grows /\ CloudOK' /\ Rollback(calls)
        /\ mobj.vpc = Api.vpc /\ own.vpc = Api.vpc /\ Api.subnet = None
        /\ <<own.subnet, own.vpc>> \in net.subnets /\ own.subnet # net.host
    BY <1>2 DEF CallUndone, NearOK, BuildOK, InVpc, Base, WorkerOK
  <2>2. Quiet /\ Api' = Api
    BY <2>1, UnwrittenIsSilent, SilentIsQuiet, Unwritten DEF Base
  <2>3. Unused(Api.vpc)'
    BY <2>1, <2>2, OwnSubnetOnly DEF Grows
  <2>. QED  BY <1>2, <2>1, <2>2, <2>3, RollbackNear DEF Building
<1>3. pc \in AfterSubnet => Api.subnet = None
  BY DEF NearOK, BuildOK
<1>4. CASE CreateSubnet
  <2>1. CASE /\ CallDone("createSubnet", "createGateway")
             /\ \A s \in net.subnets : s[2] # own.vpc
    <3>1. /\ pc = "createSubnet" /\ mobj.subnet = None /\ mobj.vpc = Api.vpc /\ own.vpc = Api.vpc
          /\ UpToDate(mobj) /\ Standing
      BY <2>1 DEF CallDone, NearOK, BuildOK, InVpc, Base, WorkerOK, Standing, Building
    <3>2. <<Api.subnet, Api.vpc>> \notin net.subnets
      BY <2>1, <3>1
    <3>3. Api.subnet = None
      BY <3>1, <3>2 DEF UpToDate
    <3>. QED  BY <1>1, <2>1, <3>3
  <2>2. CASE CallUndone("createSubnet", DeleteAwsVpc(own.vpc))
    <3>1. /\ pc = "createSubnet" /\ mobj.subnet = None /\ UNCHANGED hist /\ Grows
          /\ Rollback(DeleteAwsVpc(own.vpc))
      BY <2>2 DEF CallUndone, Base, WorkerOK
    <3>2. Deletion(DeleteAwsVpc(own.vpc)) /\ OnlyVpcCalls(DeleteAwsVpc(own.vpc))
      BY <3>1, UndoVpcCalls
    <3>. QED  BY <3>1, <3>2, UnwrittenIsSilent, SilentIsQuiet, RollbackNear DEF Building, InVpc
  <2>. QED  BY <1>4, <2>1, <2>2, CreateSubnetCases
<1>5. CASE CreateGateway
  <2>1. CASE CallDone("createGateway", "attach")
    BY <1>1, <1>3, <2>1 DEF CallDone
  <2>2. CASE CallUndone("createGateway", UndoSubnet)
    BY <1>2, <2>2, UndoSubnetCalls DEF CallUndone
  <2>. QED  BY <1>5, <2>1, <2>2, CreateGatewayCases
<1>6. own.gateway \in Ids \/ pc \notin {"attach", "route"}
  BY DEF Base, TypeOK, Networks, WorkerOK, AfterAttach
<1>7. CASE AttachGateway
  <2>1. CASE CallDone("attach", "route")
    BY <1>1, <1>3, <2>1 DEF CallDone
  <2>2. CASE CallUndone("attach", UndoGateway)
    BY <1>2, <1>6, <2>2, UndoGatewayCalls DEF CallUndone
  <2>. QED  BY <1>7, <2>1, <2>2, AttachGatewayCases
<1>8. CASE CreateRoute
  <2>1. CASE CallDone("route", "annotateGateway")
    BY <1>1, <1>3, <2>1 DEF CallDone
  <2>2. CASE CallUndone("route", UndoGateway)
    BY <1>2, <1>6, <2>2, UndoGatewayCalls DEF CallUndone
  <2>. QED  BY <1>8, <2>1, <2>2, CreateRouteCases
<1>. QED  BY <1>4, <1>5, <1>7, <1>8

\* The gateway annotation changes neither the VPC nor the subnet.
LEMMA AnnotateGatewayNear == ASSUME Base, NearOK, AnnotateGateway PROVE NearOK'
<1>. DEFINE new == [Api EXCEPT !.gateway = own.gateway]
<1>1. /\ pc = "annotateGateway" /\ pc \in AfterSubnet /\ pc \in InVpc /\ own.gateway \in Ids
      /\ mobj.vpc = Api.vpc /\ own.vpc = Api.vpc /\ Api.subnet = None /\ UNCHANGED net
      /\ <<own.subnet, own.vpc>> \in net.subnets /\ own.subnet # net.host
  BY DEF AnnotateGateway, PatchAnnotation, Base, TypeOK, Networks, WorkerOK, NearOK, BuildOK,
         InVpc, AfterAnnotateVpc, AfterSubnet, AfterAttach
<1>2. new \in Versions /\ new.del = Api.del /\ new.vpc = Api.vpc /\ new.subnet = Api.subnet
  BY <1>1, CopiesTyped DEF Base, Versions
<1>3. Grows /\ CloudOK'
  BY <1>1, NothingGrows
<1>. HIDE DEF new
<1>4. ASSUME Emit(new) PROVE Quiet /\ Api' = new
  <2>1. Api' = new /\ Copies' = Copies \cup {new} /\ Cached' = Cached
    BY <1>2, <1>4, Emitted DEF Base
  <2>. QED  BY <1>2, <2>1, CopiesTyped DEF Base, Quiet, Alike
<1>5. ASSUME UNCHANGED hist PROVE Quiet /\ Api' = Api
  BY <1>5, UnwrittenIsSilent, SilentIsQuiet, Unwritten DEF Base
<1>6. CASE Emit(new) /\ mobj' = new /\ pc' = "annotateSubnet" /\ UNCHANGED <<own, todo, happened>>
  <2>1. Standing' => Standing
    BY <1>1, <1>4, <1>6, StandingKept DEF Quiet, Building
  <2>2. CopiesOK' /\ LinkOK' /\ HostOK'
    BY <1>3, <1>4, <1>6, <2>1, NearFrame DEF Grows
  <2>3. BuildOK' /\ UndoOK'
    BY <1>1, <1>2, <1>4, <1>6 DEF BuildOK, UndoOK, UpToDate
  <2>. QED  BY <2>2, <2>3 DEF NearOK
<1>7. CASE Rollback(UndoSubnet) /\ (Emit(new) \/ UNCHANGED hist)
  <2>1. Quiet /\ Api'.vpc = Api.vpc /\ Api'.subnet = Api.subnet
    BY <1>2, <1>4, <1>5, <1>7
  <2>2. Unused(Api.vpc)'
    BY <1>1, <1>3, <2>1, OwnSubnetOnly DEF Grows
  <2>3. Deletion(UndoSubnet) /\ Within(UndoSubnet, Api.vpc)
    BY <1>1, UndoSubnetCalls
  <2>. QED  BY <1>1, <1>3, <1>7, <2>1, <2>2, <2>3, RollbackNear DEF Building
<1>. QED  BY <1>6, <1>7 DEF AnnotateGateway, PatchAnnotation, new

\* The subnet annotation closes the work on a VPC that has a gateway and a route.
LEMMA AnnotateSubnetNear == ASSUME Base, NearOK, AnnotateSubnet PROVE NearOK'
<1>. DEFINE new == [Api EXCEPT !.subnet = own.subnet]
<1>1. /\ pc = "annotateSubnet" /\ pc \in AfterSubnet /\ pc \in AfterAnnotateVpc /\ pc \in InVpc
      /\ pc \in Building /\ own.subnet \in Ids
      /\ mobj.vpc = Api.vpc /\ mobj.subnet = None /\ own.vpc = Api.vpc /\ Api.subnet = None /\ UNCHANGED net
      /\ <<own.subnet, own.vpc>> \in net.subnets /\ Linked(own.vpc)
  <2>1. /\ pc = "annotateSubnet" /\ pc \in AfterSubnet /\ pc \in AfterAnnotateVpc /\ pc \in InVpc
        /\ pc \in Building /\ pc \in AfterAttach /\ UNCHANGED net
    BY DEF AnnotateSubnet, PatchAnnotation, InVpc, Building, AfterAnnotateVpc, AfterSubnet, AfterAttach
  <2>2. /\ <<own.subnet, own.vpc>> \in net.subnets /\ <<own.gateway, own.vpc>> \in net.attached
        /\ own.vpc \in net.routes
    BY <2>1 DEF Base, WorkerOK
  <2>3. Linked(own.vpc)
    BY <2>2 DEF Linked
  <2>4. own.subnet \in Ids
    BY <2>2 DEF Base, TypeOK, Networks
  <2>. QED  BY <2>1, <2>2, <2>3, <2>4 DEF NearOK, BuildOK
<1>2. new \in Versions /\ new.del = Api.del /\ new.vpc = Api.vpc /\ new.subnet = own.subnet
  BY <1>1, CopiesTyped DEF Base, Versions
<1>3. Grows /\ HostOK'
  BY <1>1, NothingGrows DEF NearOK, HostOK, Linked
<1>4. Deletion(DeleteAwsVpc(own.vpc)) /\ OnlyVpcCalls(DeleteAwsVpc(own.vpc))
  BY <1>1, UndoVpcCalls
<1>. HIDE DEF new
<1>5. ASSUME Emit(new) PROVE CopiesOK' /\ LinkOK' /\ Api' = new
  <2>1. Api' = new /\ Copies' = Copies \cup {new}
    BY <1>2, <1>5, Emitted DEF Base
  <2>2. ASSUME NEW c \in Copies PROVE UpToDate(c)'
    <3>1. UpToDate(c)
      BY DEF NearOK, CopiesOK
    <3>2. c.vpc = Api.vpc => c.subnet = None
      BY <1>1, <3>1 DEF UpToDate
    <3>. QED  BY <1>1, <1>2, <2>1, <3>2 DEF UpToDate
  <2>3. ASSUME NEW c, c = new PROVE UpToDate(c)'
    BY <2>1, <2>3 DEF UpToDate
  <2>4. CopiesOK'
    BY <2>1, <2>2, <2>3 DEF CopiesOK
  <2>5. LinkOK'
    BY <1>1, <1>2, <2>1 DEF LinkOK, Linked
  <2>. QED  BY <2>1, <2>4, <2>5
<1>6. CASE Emit(new) /\ mobj' = new /\ pc' = "create" /\ UNCHANGED <<own, todo, happened>>
  <2>1. BuildOK' /\ UndoOK'
    BY <1>5, <1>6 DEF BuildOK, UndoOK, UpToDate, AfterAnnotateVpc, AfterSubnet
  <2>. QED  BY <1>3, <1>5, <1>6, <2>1 DEF NearOK
<1>7. CASE Rollback(DeleteAwsVpc(own.vpc)) /\ Emit(new)
  <2>1. pc' = "undo" /\ todo' = DeleteAwsVpc(own.vpc)
    BY <1>4, <1>7 DEF Rollback, Deletion
  <2>2. BuildOK' /\ UndoOK'
    BY <1>4, <2>1 DEF BuildOK, UndoOK, InVpc, AfterAnnotateVpc, AfterSubnet
  <2>. QED  BY <1>3, <1>5, <1>7, <2>2 DEF NearOK
<1>8. CASE Rollback(DeleteAwsVpc(own.vpc)) /\ UNCHANGED hist
  BY <1>1, <1>3, <1>4, <1>8, UnwrittenIsSilent, SilentIsQuiet, RollbackNear
<1>. QED  BY <1>6, <1>7, <1>8 DEF AnnotateSubnet, PatchAnnotation, new

\* The host is made in the stored subnet, which is linked.
LEMMA CreateHostNear == ASSUME Base, NearOK, CreateHost PROVE NearOK'
<1>1. /\ pc = "create" /\ UNCHANGED hist /\ HostAppears /\ pc' \in {"commit", "idle"} /\ pc \in Building
      /\ mobj.vpc = Api.vpc /\ UpToDate(mobj) /\ Standing
  BY CreateHostCases DEF Goto, Return, NearOK, BuildOK, InVpc, Building, Standing
<1>2. Quiet
  BY <1>1, UnwrittenIsSilent, SilentIsQuiet
<1>3. Standing' => Standing
  BY <1>1
<1>4. CopiesOK' /\ LinkOK' /\ (net'.host = net.host => HostOK')
  BY <1>1, <1>2, <1>3, NearFrame DEF HostAppears
<1>5. ASSUME net'.host = mobj.subnet, <<mobj.subnet, mobj.vpc>> \in net.subnets PROVE HostOK'
  <2>1. mobj.subnet \in Ids /\ mobj.vpc \in Ids
    BY <1>5 DEF Base, TypeOK, Networks
  <2>2. mobj.subnet = Api.subnet
    BY <1>1, <2>1, NoneIsNoId DEF UpToDate
  <2>3. Linked(mobj.vpc)
    BY <1>1, <1>5, <2>2 DEF NearOK, LinkOK
  <2>. QED  BY <1>1, <1>5, <2>1, <2>3 DEF HostOK, Linked, HostAppears
<1>6. BuildOK' /\ UndoOK'
  BY <1>1, NotBuilding DEF InVpc, AfterAnnotateVpc, AfterSubnet
<1>. QED  BY <1>1, <1>4, <1>5, <1>6 DEF NearOK, HostAppears

\* The ends of the reconciles that delete, as far as they delete nothing themselves.
LEMMA LeaveNear ==
  ASSUME Base, NearOK, CommitCreated \/ DeleteDockerMachine \/ DescribeGroupsFails \/ RemoveFinalizer \/ Crash
  PROVE  NearOK'
<1>. USE DEF InVpc, AfterAnnotateVpc, AfterSubnet
<1>1. CASE CommitCreated
  <2>. DEFINE new == [Api EXCEPT !.done = TRUE]
  <2>1. new \in Versions /\ new.del = Api.del /\ Alike(new, Api)
    BY CopiesTyped DEF Base, Versions, Alike
  <2>2. (Emit(new) \/ UNCHANGED hist) /\ Return /\ UNCHANGED net
    BY <1>1 DEF CommitCreated
  <2>. HIDE DEF new
  <2>3. ASSUME Emit(new) PROVE Quiet
    <3>1. Api' = new /\ Copies' = Copies \cup {new} /\ Cached' = Cached
      BY <2>1, <2>3, Emitted DEF Base, Alike
    <3>. QED  BY <2>1, <3>1, CopiesTyped DEF Base, Quiet, Alike
  <2>. QED  BY <2>2, <2>3, UnwrittenIsSilent, SilentIsQuiet, ReturnNear
<1>2. CASE DeleteDockerMachine
  <2>1. /\ pc' \in {"idle", "unfinalize", "cleanup"} /\ UNCHANGED hist
        /\ UNCHANGED net \/ net' = [net EXCEPT !.host = None]
    BY <1>2 DEF DeleteDockerMachine, Return
  <2>2. Quiet
    BY <2>1, UnwrittenIsSilent, SilentIsQuiet
  <2>3. Standing' => Standing
    BY <2>1, <2>2, StandingKept DEF Quiet, Building
  <2>4. HostGoes
    BY <2>1, HostLeaves
  <2>. QED  BY <2>1, <2>2, <2>3, <2>4, NearLeft DEF HostGoes
<1>3. CASE DescribeGroupsFails
  BY <1>3, UnwrittenIsSilent, SilentIsQuiet, ReturnNear DEF DescribeGroupsFails
<1>4. CASE RemoveFinalizer
  <2>1. UNCHANGED <<hist, net>> /\ pc' \in {"removed", "idle"}
    BY <1>4 DEF RemoveFinalizer, Return
  <2>2. Quiet
    BY <2>1, UnwrittenIsSilent, SilentIsQuiet
  <2>3. Standing' => Standing
    BY <2>1, <2>2, StandingKept DEF Quiet, Building
  <2>. QED  BY <2>1, <2>2, <2>3, NearLeft
<1>5. CASE Crash
  <2>1. hist' = <<Api>> /\ Return /\ UNCHANGED net
    BY <1>5 DEF Crash
  <2>2. Quiet
    BY <2>1, Restarted, CopiesTyped DEF Base, Quiet, Alike
  <2>. QED  BY <2>1, <2>2, ReturnNear
<1>. QED  BY <1>1, <1>2, <1>3, <1>4, <1>5

\* A deletion call takes no network away that is in use: in a cleanup the host is
\* gone; in a rollback the VPC is unused, or only an empty VPC is deleted.
LEMMA RemovalNear ==
  ASSUME Base, NearOK, pc \in {"undo", "cleanup"}, UNCHANGED hist, Standing' => Standing,
         UNCHANGED net \/ Removes(Head(todo))
  PROVE  CopiesOK' /\ LinkOK' /\ HostOK'
<1>1. CASE UNCHANGED net
  BY <1>1, UnwrittenIsSilent, SilentIsQuiet, NearFrame
<1>2. CASE Removes(Head(todo))
  <2>1. PICK c \in Calls : c = todo[1] /\ Removes(c) /\ 1 \in 1..Len(todo)
    BY <1>2, NextCall DEF Base
  <2>2. Api' = Api /\ Copies' = Copies /\ Cached' = Cached
    BY Unwritten DEF Base
  <2>3. net'.host = net.host /\ net'.subnets \subseteq net.subnets
    BY <2>1 DEF Removes
  <2>4. CASE pc = "cleanup"
    <3>1. ~Standing /\ net.host = None
      BY <2>4 DEF Base, WorkerOK, Cleaning, Standing, Building, InVpc, AfterAnnotateVpc, AfterSubnet
    <3>. QED  BY <2>2, <2>3, <3>1 DEF NearOK, CopiesOK, UpToDate, LinkOK, HostOK
  <2>5. CASE pc = "undo" /\ Unused(Api.vpc) /\ Within(todo, Api.vpc)
    <3>1. c.vpc = Api.vpc /\ (c.call = "route" => c.id = Api.vpc)
      BY <2>1, <2>5 DEF Within
    <3>2. <<Api.subnet, Api.vpc>> \notin net.subnets /\ <<net.host, Api.vpc>> \notin net.subnets /\ Standing
      BY <2>5 DEF Unused, Standing
    <3>3. CopiesOK' /\ LinkOK'
      BY <2>2, <2>3, <3>2 DEF NearOK, CopiesOK, UpToDate, LinkOK
    <3>4. ASSUME NEW v \in Ids, <<net.host, v>> \in net.subnets, Linked(v)
          PROVE  <<net.host, v>> \in net'.subnets /\ Linked(v)'
      <4>1. v # Api.vpc
        BY <3>2, <3>4
      <4>2. <<net.host, v>> \in net'.subnets
        BY <2>1, <3>4 DEF Removes
      <4>3. v \in net'.routes
        <5>1. c.call = "vpc" => \A x \in net.subnets : x[2] # c.id
          BY <2>1 DEF Removes
        <5>2. c.call = "vpc" => <<net.host, v>>[2] # c.id
          BY <3>4, <5>1
        <5>3. net'.routes = IF c.call \in {"route", "vpc"} THEN net.routes \ {c.id} ELSE net.routes
          BY <2>1 DEF Removes
        <5>4. v \in net.routes
          BY <3>4 DEF Linked
        <5>. QED  BY <3>1, <4>1, <5>2, <5>3, <5>4
      <4>4. \E a \in net'.attached : a[2] = v
        <5>1. PICK a \in net.attached : a[2] = v
          BY <3>4 DEF Linked
        <5>2. a # <<c.id, c.vpc>>
          BY <3>1, <4>1, <5>1
        <5>3. net'.attached = IF c.call = "detach" THEN net.attached \ {<<c.id, c.vpc>>} ELSE net.attached
          BY <2>1 DEF Removes
        <5>. QED  BY <5>1, <5>2, <5>3
      <4>. QED  BY <4>2, <4>3, <4>4 DEF Linked
    <3>5. HostOK'
      BY <2>3, <3>4 DEF NearOK, HostOK
    <3>. QED  BY <3>3, <3>5
  <2>6. CASE pc = "undo" /\ OnlyVpcCalls(todo)
    <3>1. c.call \in {"groups", "vpc"}
      BY <2>1, <2>6 DEF OnlyVpcCalls
    <3>2. net'.subnets = net.subnets /\ net'.attached = net.attached
      BY <2>1, <3>1 DEF Removes
    <3>3. ASSUME NEW v, Linked(v) PROVE Linked(v)'
      <4>1. v \in net'.routes
        <5>1. PICK a \in net.attached : a[2] = v
          BY <3>3 DEF Linked
        <5>2. c.call = "vpc" => \A x \in net.attached : x[2] # c.id
          BY <2>1 DEF Removes
        <5>3. net'.routes = IF c.call \in {"route", "vpc"} THEN net.routes \ {c.id} ELSE net.routes
          BY <2>1 DEF Removes
        <5>4. v \in net.routes
          BY <3>3 DEF Linked
        <5>. QED  BY <3>1, <5>1, <5>2, <5>3, <5>4
      <4>. QED  BY <3>2, <3>3, <4>1 DEF Linked
    <3>4. LinkOK'
      BY <2>2, <3>2, <3>3 DEF NearOK, LinkOK, Linked
    <3>5. HostOK'
      BY <2>3, <3>2, <3>3 DEF NearOK, HostOK
    <3>6. CopiesOK'
      BY <2>2, <3>2 DEF NearOK, CopiesOK, UpToDate
    <3>. QED  BY <3>4, <3>5, <3>6
  <2>. QED  BY <2>4, <2>5, <2>6 DEF NearOK, UndoOK
<1>. QED  BY <1>1, <1>2

\* The calls that are left are some of those before.
LEMMA DeleteCallNear == ASSUME Base, NearOK, DeleteCall PROVE NearOK'
<1>1. /\ pc \in {"undo", "cleanup"} /\ UNCHANGED <<hist, mobj, own, pc>> /\ todo' = Tail(todo)
      /\ UNCHANGED net \/ Removes(Head(todo))
  BY DeleteCallCases
<1>2. Api' = Api /\ Cached' = Cached /\ (Standing' => Standing)
  BY <1>1, Unwritten, StandingKept DEF Base
<1>3. CopiesOK' /\ LinkOK' /\ HostOK'
  BY <1>1, <1>2, RemovalNear
<1>4. net'.host = net.host /\ net'.subnets \subseteq net.subnets
  BY <1>1 DEF Removes
<1>5. BuildOK'
  BY <1>1 DEF BuildOK, InVpc, AfterAnnotateVpc, AfterSubnet
<1>6. UndoOK'
  <2>1. \A k \in 1..Len(todo') : \E j \in 1..Len(todo) : todo'[k] = todo[j]
    BY <1>1, NextCall DEF Base
  <2>2. Within(todo, Api.vpc) => Within(todo', Api'.vpc)
    BY <1>2, <2>1 DEF Within
  <2>3. OnlyVpcCalls(todo) => OnlyVpcCalls(todo')
    BY <2>1 DEF OnlyVpcCalls
  <2>4. Unused(Api.vpc) => Unused(Api.vpc)'
    BY <1>2, <1>4 DEF Unused
  <2>. QED  BY <1>1, <2>2, <2>3, <2>4 DEF NearOK, UndoOK
<1>. QED  BY <1>3, <1>5, <1>6 DEF NearOK

\* The last call deletes an empty VPC at most.
LEMMA DeleteVpcNear == ASSUME Base, NearOK, DeleteVpc PROVE NearOK'
<1>1. /\ pc \in {"undo", "cleanup"} /\ UNCHANGED hist /\ pc' \in {"idle", "unfinalize"}
      /\ UNCHANGED net \/ Removes(Head(todo))
  BY DeleteVpcCases DEF Return
<1>2. Standing' => Standing
  BY <1>1, Unwritten, StandingKept DEF Base, Building, InVpc, AfterAnnotateVpc, AfterSubnet
<1>. QED  BY <1>1, <1>2, RemovalNear, NotBuilding DEF NearOK, InVpc, AfterAnnotateVpc, AfterSubnet

\* The environment of the operator leaves the worker, the annotations and the
\* network as they are.
Aside ==
  /\ Silent /\ UNCHANGED <<mobj, own, pc, todo, happened>>
  /\ net'.subnets = net.subnets /\ net'.attached = net.attached /\ net'.routes = net.routes
  /\ net'.vpcs = net.vpcs /\ net'.groups = net.groups /\ net'.host = net.host

\* The watch, the user and EC2 are such.
LEMMA OthersAside == ASSUME Base, Deliver \/ UserDelete \/ VpcAvailable \/ UNCHANGED vars PROVE Aside
<1>1. CASE Deliver
  <2>1. UNCHANGED <<mobj, own, pc, todo, net, happened>> /\ Len(hist) > 1 /\ hist' = Tail(hist)
    BY <1>1 DEF Deliver
  <2>2. Api' = Api /\ Copies' \subseteq Copies /\ (Cached.del => Cached'.del)
    BY <2>1, Delivered DEF Base
  <2>. QED  BY <2>1, <2>2 DEF Aside, Silent, Same
<1>2. CASE UserDelete
  BY <1>2, Marked DEF Aside, Silent, UserDelete
<1>3. CASE VpcAvailable
  <2>1. PICK v \in net.vpcs \ net.available : net' = [net EXCEPT !.available = @ \cup {v}]
    BY <1>3 DEF VpcAvailable
  <2>2. /\ net'.subnets = net.subnets /\ net'.attached = net.attached
        /\ net'.routes = net.routes /\ net'.vpcs = net.vpcs /\ net'.groups = net.groups
        /\ net'.host = net.host
    BY <2>1 DEF Base, TypeOK, Networks
  <2>. QED  BY <1>3, <2>2, UnwrittenIsSilent DEF VpcAvailable, Aside
<1>4. CASE UNCHANGED vars
  BY <1>4, UnwrittenIsSilent DEF vars, Aside
<1>. QED  BY <1>1, <1>2, <1>3, <1>4

\* They keep the second part of the invariant.
LEMMA AsideNear == ASSUME Base, NearOK, Aside PROVE NearOK'
<1>1. Quiet /\ UNCHANGED <<mobj, own, pc, todo>> /\ Api'.vpc = Api.vpc /\ Api'.subnet = Api.subnet
  BY SilentIsQuiet DEF Aside, Quiet, Alike
<1>2. Standing' => Standing
  BY <1>1, StandingKept DEF Quiet
<1>3. CopiesOK' /\ LinkOK' /\ HostOK' /\ (UpToDate(mobj) => UpToDate(mobj)')
  BY <1>1, <1>2, NearFrame DEF Aside, Alike
<1>4. BuildOK'
  BY <1>1, <1>3 DEF NearOK, BuildOK
<1>5. UndoOK'
  BY <1>1 DEF NearOK, UndoOK, Unused, Aside
<1>. QED  BY <1>3, <1>4, <1>5 DEF NearOK

\* No step takes back a disturbance.
LEMMA StepCounts == ASSUME [Next]_vars PROVE Counting
<1>1. CASE UNCHANGED vars
  BY <1>1, Disturbed DEF vars
<1>2. CASE Reconcile
  BY <1>2, Disturbed DEF Reconcile
<1>3. CASE CreateVpc \/ GetVPC \/ CreateSubnet \/ CreateGateway \/ AttachGateway \/ CreateRoute \/ DeleteVpc
  BY <1>3, Disturbed DEF CreateVpc, GetVPC, CreateSubnet, CreateGateway, AttachGateway, CreateRoute, DeleteVpc, Ask
<1>4. CASE AnnotateVpc \/ AnnotateGateway \/ AnnotateSubnet
  BY <1>4, Disturbed DEF AnnotateVpc, AnnotateGateway, AnnotateSubnet, PatchAnnotation
<1>5. CASE WaitForVpc \/ CreateHost \/ CommitCreated \/ DeleteDockerMachine \/ DeleteCall
           \/ DescribeGroupsFails \/ RemoveFinalizer
  BY <1>5, Disturbed DEF WaitForVpc, CreateHost, CommitCreated, DeleteDockerMachine, DeleteCall,
                         DescribeGroupsFails, RemoveFinalizer
<1>6. CASE Deliver \/ UserDelete \/ VpcAvailable \/ Crash
  BY <1>6, Disturbed DEF Deliver, UserDelete, VpcAvailable, Crash
<1>. QED  BY <1>1, <1>2, <1>3, <1>4, <1>5, <1>6 DEF Next, WorkerStep

\* The second part is inductive, given the first and the third.
LEMMA NearStep == ASSUME Base, Base', Near, Exact, [Next]_vars PROVE Near'
<1>1. SUFFICES ASSUME happened'["stale"] <= 1 PROVE NearOK'
  BY DEF Near
<1>2. NearOK
  BY <1>1, StepCounts, Counted DEF Base, Near
<1>3. CASE Reconcile
  BY <1>1, <1>3, ReconcileNear
<1>4. CASE UNCHANGED vars
  BY <1>2, <1>4, OthersAside, AsideNear
<1>. QED  BY <1>2, <1>3, <1>4, CreateVpcNear, AnnotateVpcNear, WaitForVpcNear, GetVPCNear, BuildNear,
             AnnotateGatewayNear, AnnotateSubnetNear, CreateHostNear, LeaveNear, DeleteCallNear,
             DeleteVpcNear, OthersAside, AsideNear
          DEF Next, WorkerStep

-----------------------------------------------------------------------------
(* Exact: what holds until a reconcile starts from an outdated VPC.          *)

\* Where the annotations stay, the network loses nothing, and no VPC is made.
LEMMA ExactFrame ==
  ASSUME ExactOK, Silent, Standing' => Standing, OnlyRefusals' => OnlyRefusals,
         net.subnets \subseteq net'.subnets, net.attached \subseteq net'.attached,
         net.routes \subseteq net'.routes
  PROVE  /\ OrderOK' /\ CompleteOK'
         /\ net'.vpcs \subseteq net.vpcs /\ (pc = "annotateVpc" => ~OnlyRefusals' \/ (pc' = pc /\ own' = own)) => OneVpcOK'
<1>1. Same(Api', Api)
  BY DEF Silent
<1>2. CompleteOK'
  BY <1>1 DEF ExactOK, CompleteOK, Complete, Same
<1>3. ASSUME NEW c \in Copies'
      PROVE  c.vpc \in {None, Api'.vpc} /\ (c.subnet # None => Same(c, Api') /\ c.vpc # None /\ c.gateway # None)
  <2>1. PICK d \in Copies : Same(c, d)
    BY <1>3 DEF Silent
  <2>2. d.vpc \in {None, Api.vpc} /\ (d.subnet # None => Same(d, Api) /\ d.vpc # None /\ d.gateway # None)
    BY <2>1 DEF ExactOK, OrderOK
  <2>. QED  BY <1>1, <2>1, <2>2 DEF Same
<1>4. OrderOK'
  BY <1>3 DEF OrderOK
<1>5. net'.vpcs \subseteq net.vpcs /\ (pc = "annotateVpc" => ~OnlyRefusals' \/ (pc' = pc /\ own' = own)) => OneVpcOK'
  BY <1>1 DEF ExactOK, OneVpcOK, Same
<1>. QED  BY <1>2, <1>4, <1>5

\* A worker of which nothing is said.
LEMMA Unknown ==
  pc' \in {"idle", "undo", "commit"} \cup (AfterAnnotateVpc \ {"wait", "annotateSubnet"}) => KnownOK'
BY DEF KnownOK, Cleaning, AfterAnnotateVpc, AfterSubnet

\* A reconcile ends, a rollback starts, or the network grows.
LEMMA ExactGrows ==
  ASSUME Base, ExactOK, Silent, Counting, Standing' => Standing,
         net.subnets \subseteq net'.subnets, net.attached \subseteq net'.attached,
         net.routes \subseteq net'.routes, net'.vpcs = net.vpcs,
         pc = "annotateVpc" => ~OnlyRefusals',
         pc' \in {"idle", "undo", "commit"} \cup (AfterAnnotateVpc \ {"wait", "annotateSubnet"})
  PROVE  ExactOK'
BY ExactFrame, Unknown, Counted DEF Base, ExactOK

\* A reconcile may end anywhere, except that a VPC not annotated yet is then lost.
LEMMA ReturnExact ==
  ASSUME Base, ExactOK, Silent, Counting, Return, UNCHANGED net, pc = "annotateVpc" => ~OnlyRefusals'
  PROVE  ExactOK'
<1>1. pc' = "idle"
  BY DEF Return
<1>2. Standing' => Standing
  BY <1>1, StandingKept DEF Silent, Building, InVpc, AfterAnnotateVpc, AfterSubnet
<1>. QED  BY <1>1, <1>2, ExactGrows

\* The reconcile takes the stored VPC, if there is one, and the rest of the
\* annotations only if it has them all.
LEMMA ReconcileExact == ASSUME Base, Exact, Reconcile, happened'["stale"] = 0 PROVE ExactOK'
<1>1. PICK o \in {Cached, Api} :
        /\ mobj' = o /\ pc' = IF Cached.del THEN "rm" ELSE FirstCall(o)
        /\ IF o.vpc # Api.vpc THEN Happens("stale") ELSE UNCHANGED happened
  BY DEF Reconcile
<1>2. UNCHANGED <<hist, own, todo, net>> /\ pc = "idle" /\ Counting
  BY Disturbed DEF Reconcile
<1>3. ExactOK /\ o.vpc = Api.vpc
  BY <1>1, <1>2, Counted DEF Base, Exact, TypeOK, Disturbances
<1>4. Silent /\ Api' = Api /\ Cached' = Cached
  BY <1>2, UnwrittenIsSilent, Unwritten DEF Base
<1>5. Standing' => Standing
  BY <1>1, <1>4, StandingKept DEF Building, InVpc, AfterAnnotateVpc, AfterSubnet
<1>6. OrderOK' /\ CompleteOK' /\ OneVpcOK'
  BY <1>2, <1>3, <1>4, <1>5, ExactFrame, Counted DEF Base
<1>7. o.subnet # None => Same(o, Api) /\ o.vpc # None /\ o.gateway # None
  BY <1>3, CopiesTyped DEF Base, ExactOK, OrderOK
<1>8. pc' \in {"rm", "create", "createVpc", "getVpc"}
  BY <1>1 DEF FirstCall
<1>9. /\ pc' = "createVpc" => o.vpc = None
      /\ pc' = "getVpc" => o.subnet = None
      /\ pc' = "create" => o.subnet # None
  BY <1>1, <1>7 DEF FirstCall
<1>10. KnownOK'
  BY <1>1, <1>3, <1>4, <1>7, <1>8, <1>9 DEF KnownOK, Cleaning, Same
<1>. QED  BY <1>6, <1>10 DEF ExactOK

\* The only VPC there is, unless an answer was lost.
LEMMA CreateVpcExact == ASSUME Base, ExactOK, CreateVpc PROVE ExactOK'
<1>. DEFINE new == [net EXCEPT !.vpcs = @ \cup {NewId}]
<1>1. /\ pc = "createVpc" /\ UNCHANGED hist /\ Api.vpc = None
      /\ \/ Room /\ net' = new /\ Holding([own EXCEPT !.vpc = NewId], "annotateVpc") /\ UNCHANGED happened
         \/ net' = new /\ Return /\ Happens("lost")
         \/ net' = net /\ Return /\ Counting
  BY Disturbed DEF CreateVpc, Ask, ExactOK, KnownOK
<1>2. net' = new => /\ net'.subnets = net.subnets /\ net'.attached = net.attached
                    /\ net'.routes = net.routes /\ net'.vpcs = net.vpcs \cup {NewId}
  BY DEF Base, TypeOK, Networks
<1>3. Silent /\ Api' = Api /\ Counting
  BY <1>1, UnwrittenIsSilent, Unwritten, Disturbed DEF Base
<1>4. Standing' => Standing
  BY <1>1, <1>3, StandingKept DEF Silent, Building
<1>. HIDE DEF new
<1>5. OrderOK' /\ CompleteOK' /\ (net' = net => OneVpcOK')
  BY <1>1, <1>2, <1>3, <1>4, ExactFrame, Counted DEF Base
<1>6. CASE Room /\ net' = new /\ Holding([own EXCEPT !.vpc = NewId], "annotateVpc") /\ UNCHANGED happened
  <2>1. pc' = "annotateVpc" /\ own'.vpc = NewId
    BY <1>6 DEF Holding, Base, TypeOK
  <2>2. OneVpcOK'
    <3>1. OnlyRefusals' => net.vpcs = {}
      BY <1>1, <1>3, Counted, NoneIsNoId DEF Base, TypeOK, Networks, ExactOK, OneVpcOK
    <3>. QED  BY <1>2, <1>6, <2>1, <3>1 DEF OneVpcOK
  <2>3. KnownOK'
    BY <1>1, <1>3, <2>1 DEF KnownOK, Cleaning
  <2>. QED  BY <1>5, <2>2, <2>3 DEF ExactOK
<1>7. CASE Return /\ Happens("lost")
  <2>1. ~OnlyRefusals'
    BY <1>3, <1>7, Counted DEF Base
  <2>. QED  BY <1>5, <1>7, <2>1, Unknown DEF ExactOK, OneVpcOK, Return
<1>8. CASE net' = net /\ Return
  BY <1>5, <1>8, Unknown DEF ExactOK, Return
<1>. QED  BY <1>1, <1>6, <1>7, <1>8

\* The first annotation: there are no others yet.
LEMMA AnnotateVpcExact == ASSUME Base, ExactOK, AnnotateVpc PROVE ExactOK'
<1>. DEFINE new == [Api EXCEPT !.vpc = own.vpc]
<1>1. pc = "annotateVpc" /\ own.vpc \in Ids /\ UNCHANGED net /\ Api.vpc = None /\ Counting
  BY Disturbed DEF AnnotateVpc, PatchAnnotation, Base, WorkerOK, ExactOK, KnownOK
<1>2. \A c \in Copies : c.vpc = None /\ c.subnet = None
  BY <1>1 DEF ExactOK, OrderOK
<1>3. /\ new \in Versions /\ new.vpc = own.vpc /\ new.del = Api.del /\ new.subnet = None
      /\ new.vpc # None
  BY <1>1, <1>2, CopiesTyped, NoneIsNoId DEF Base, Versions
<1>. HIDE DEF new
<1>4. ASSUME Emit(new) PROVE OrderOK' /\ CompleteOK' /\ OneVpcOK' /\ Api' = new
  <2>1. Api' = new /\ Copies' = Copies \cup {new}
    BY <1>3, <1>4, Emitted DEF Base
  <2>2. OrderOK'
    BY <1>2, <1>3, <2>1 DEF OrderOK
  <2>3. CompleteOK'
    BY <1>3, <2>1 DEF CompleteOK
  <2>4. OnlyRefusals' => \A v \in net.vpcs : v = own.vpc
    BY <1>1, Counted, NoneIsNoId DEF Base, TypeOK, Networks, ExactOK, OneVpcOK
  <2>5. OneVpcOK'
    BY <1>1, <1>3, <2>1, <2>4 DEF OneVpcOK
  <2>. QED  BY <2>1, <2>2, <2>3, <2>5
<1>5. CASE Emit(new) /\ mobj' = new /\ pc' = "wait"
  <2>1. KnownOK'
    BY <1>3, <1>5 DEF KnownOK, Cleaning
  <2>. QED  BY <1>4, <1>5, <2>1 DEF ExactOK
<1>6. CASE Return /\ Emit(new)
  BY <1>4, <1>6, Unknown DEF ExactOK, Return
<1>7. CASE Return /\ UNCHANGED hist /\ Happens("patch")
  <2>1. ~OnlyRefusals'
    BY <1>1, <1>7, Counted DEF Base
  <2>. QED  BY <1>1, <1>7, <2>1, UnwrittenIsSilent, ReturnExact
<1>. QED  BY <1>5, <1>6, <1>7 DEF AnnotateVpc, PatchAnnotation, new

\* Up to the first annotation of the subnet nothing is claimed of the network.
LEMMA BuildExact ==
  ASSUME Base, ExactOK,
         WaitForVpc \/ GetVPC \/ CreateSubnet \/ CreateGateway \/ AttachGateway \/ CreateRoute
  PROVE  ExactOK'
<1>. USE DEF AfterAnnotateVpc, AfterSubnet
<1>1. ASSUME UNCHANGED hist, Grows, Counting, pc \in InVpc,
             pc' \in {"idle", "undo", "commit"} \cup (AfterAnnotateVpc \ {"wait", "annotateSubnet"})
      PROVE  ExactOK'
  <2>1. Silent
    BY <1>1, UnwrittenIsSilent
  <2>2. Standing' => Standing
    BY <1>1, <2>1, StandingKept DEF Silent, Building, InVpc
  <2>. QED  BY <1>1, <2>1, <2>2, ExactGrows DEF Grows, InVpc
<1>2. ASSUME NEW calls, Rollback(calls) PROVE pc' \in {"idle", "undo"}
  BY <1>2 DEF Rollback, Return
<1>3. CASE WaitForVpc
  <2>1. mobj.subnet = None /\ pc \in InVpc /\ UNCHANGED <<hist, net>> /\ Counting
    BY <1>3, Disturbed DEF WaitForVpc, ExactOK, KnownOK, InVpc
  <2>2. pc' \in {"createSubnet", "idle", "undo"}
    BY <1>2, <1>3, <2>1 DEF WaitForVpc, Goto, AfterVpc
  <2>. QED  BY <1>1, <2>1, <2>2, NothingGrows
<1>4. CASE GetVPC
  <2>1. mobj.subnet = None /\ pc \in InVpc /\ UNCHANGED <<hist, net>> /\ Counting
    BY <1>4, Disturbed DEF GetVPC, Ask, ExactOK, KnownOK, InVpc
  <2>2. pc' \in {"createSubnet", "idle"}
    BY <1>4, <2>1 DEF GetVPC, Ask, Holding, Return, AfterVpc
  <2>. QED  BY <1>1, <2>1, <2>2, NothingGrows
<1>5. ASSUME NEW from \in AfterAnnotateVpc, NEW to \in AfterAnnotateVpc \ {"wait", "annotateSubnet"},
             CallDone(from, to)
      PROVE  ExactOK'
  BY <1>1, <1>5 DEF CallDone, Counting, InVpc
<1>6. ASSUME NEW from \in AfterAnnotateVpc, NEW calls, CallUndone(from, calls)
      PROVE  ExactOK'
  BY <1>1, <1>2, <1>6 DEF CallUndone, InVpc
<1>7. CASE CreateSubnet
  BY <1>5, <1>6, <1>7, CreateSubnetCases
<1>8. CASE CreateGateway
  BY <1>5, <1>6, <1>8, CreateGatewayCases
<1>9. CASE AttachGateway
  BY <1>5, <1>6, <1>9, AttachGatewayCases
<1>10. CASE CreateRoute
  BY <1>5, <1>6, <1>10, CreateRouteCases
<1>. QED  BY <1>3, <1>4, <1>7, <1>8, <1>9, <1>10

\* The gateway annotation: no copy has a subnet annotation yet.
LEMMA AnnotateGatewayExact == ASSUME Base, NearOK, ExactOK, AnnotateGateway PROVE ExactOK'
<1>. DEFINE new == [Api EXCEPT !.gateway = own.gateway]
<1>1. /\ pc = "annotateGateway" /\ pc \in AfterSubnet /\ pc \in Building /\ own.gateway \in Ids
      /\ Api.subnet = None /\ UNCHANGED net /\ Counting
  BY Disturbed DEF AnnotateGateway, PatchAnnotation, Base, TypeOK, Networks, WorkerOK, NearOK, BuildOK,
         Building, InVpc, AfterAnnotateVpc, AfterSubnet, AfterAttach
<1>2. /\ new \in Versions /\ new.del = Api.del /\ new.vpc = Api.vpc /\ new.subnet = None
      /\ new.gateway = own.gateway
  BY <1>1, CopiesTyped DEF Base, Versions
<1>. HIDE DEF new
<1>3. ASSUME Emit(new) PROVE OrderOK' /\ CompleteOK' /\ OneVpcOK' /\ Api' = new
  <2>1. Api' = new /\ Copies' = Copies \cup {new}
    BY <1>2, <1>3, Emitted DEF Base
  <2>2. \A c \in Copies : c.subnet = None /\ c.vpc \in {None, Api.vpc}
    BY <1>1 DEF ExactOK, OrderOK, Same
  <2>3. OrderOK'
    BY <1>2, <2>1, <2>2 DEF OrderOK
  <2>4. CompleteOK'
    BY <1>2, <2>1 DEF CompleteOK
  <2>5. OneVpcOK'
    BY <1>1, <1>2, <2>1, Counted DEF Base, ExactOK, OneVpcOK
  <2>. QED  BY <2>1, <2>3, <2>4, <2>5
<1>4. CASE Emit(new) /\ pc' = "annotateSubnet" /\ UNCHANGED own
  <2>1. KnownOK'
    BY <1>2, <1>3, <1>4 DEF KnownOK, Cleaning
  <2>. QED  BY <1>3, <1>4, <2>1 DEF ExactOK
<1>5. CASE Rollback(UndoSubnet)
  <2>1. pc' \in {"idle", "undo"}
    BY <1>5 DEF Rollback, Return
  <2>2. CASE Emit(new)
    BY <1>3, <2>1, <2>2, Unknown DEF ExactOK
  <2>3. CASE UNCHANGED hist
    <3>1. Silent
      BY <2>3, UnwrittenIsSilent
    <3>2. Standing' => Standing
      BY <1>1, <3>1, StandingKept DEF Silent
    <3>. QED  BY <1>1, <2>1, <3>1, <3>2, ExactGrows
  <2>. QED  BY <2>2, <2>3 DEF AnnotateGateway, PatchAnnotation, new
<1>. QED  BY <1>4, <1>5 DEF AnnotateGateway, PatchAnnotation, new

\* The last annotation: the network it completes is there.
LEMMA AnnotateSubnetExact == ASSUME Base, NearOK, ExactOK, AnnotateSubnet PROVE ExactOK'
<1>. DEFINE new == [Api EXCEPT !.subnet = own.subnet]
<1>1. /\ pc = "annotateSubnet" /\ pc \in AfterSubnet /\ pc \in AfterAnnotateVpc /\ pc \in Building
      /\ pc \in AfterAttach /\ UNCHANGED net /\ Counting
  BY Disturbed DEF AnnotateSubnet, PatchAnnotation, InVpc, Building, AfterAnnotateVpc, AfterSubnet, AfterAttach
<1>2. /\ <<own.subnet, own.vpc>> \in net.subnets /\ <<own.gateway, own.vpc>> \in net.attached
      /\ own.vpc \in net.routes
  BY <1>1 DEF Base, WorkerOK
<1>3. own.subnet \in Ids /\ own.vpc \in Ids /\ own.gateway \in Ids
  BY <1>2 DEF Base, TypeOK, Networks
<1>4. own.vpc = Api.vpc /\ Api.subnet = None /\ Api.gateway = own.gateway
  BY <1>1 DEF NearOK, BuildOK, ExactOK, KnownOK
<1>5. /\ new \in Versions /\ new.del = Api.del /\ new.vpc = Api.vpc /\ new.subnet = own.subnet
      /\ new.gateway = Api.gateway
  BY <1>3, CopiesTyped DEF Base, Versions
<1>. HIDE DEF new
<1>6. ASSUME Emit(new) PROVE OrderOK' /\ CompleteOK' /\ OneVpcOK' /\ Api' = new
  <2>1. Api' = new /\ Copies' = Copies \cup {new}
    BY <1>5, <1>6, Emitted DEF Base
  <2>2. \A c \in Copies : c.subnet = None /\ c.vpc \in {None, Api.vpc}
    BY <1>4 DEF ExactOK, OrderOK, Same
  <2>3. OrderOK'
    BY <1>3, <1>4, <1>5, <2>1, <2>2, NoneIsNoId DEF OrderOK, Same
  <2>4. CompleteOK'
    BY <1>1, <1>2, <1>4, <1>5, <2>1 DEF CompleteOK, Complete
  <2>5. OneVpcOK'
    BY <1>1, <1>5, <2>1, Counted DEF Base, ExactOK, OneVpcOK
  <2>. QED  BY <2>1, <2>3, <2>4, <2>5
<1>7. CASE Emit(new) /\ mobj' = new /\ pc' = "create"
  <2>1. KnownOK'
    BY <1>3, <1>5, <1>6, <1>7, NoneIsNoId DEF KnownOK, Cleaning, Same
  <2>. QED  BY <1>6, <1>7, <2>1 DEF ExactOK
<1>8. CASE Rollback(DeleteAwsVpc(own.vpc))
  <2>1. pc' \in {"idle", "undo"}
    BY <1>8 DEF Rollback, Return
  <2>2. CASE Emit(new)
    BY <1>6, <2>1, <2>2, Unknown DEF ExactOK
  <2>3. CASE UNCHANGED hist
    <3>1. Silent
      BY <2>3, UnwrittenIsSilent
    <3>2. Standing' => Standing
      BY <1>1, <3>1, StandingKept DEF Silent
    <3>. QED  BY <1>1, <2>1, <3>1, <3>2, ExactGrows
  <2>. QED  BY <2>2, <2>3 DEF AnnotateSubnet, PatchAnnotation, new
<1>. QED  BY <1>7, <1>8 DEF AnnotateSubnet, PatchAnnotation, new

\* The host comes and goes; the rest of the network does not change.
LEMMA LeaveExact ==
  ASSUME Base, ExactOK,
         CreateHost \/ CommitCreated \/ DeleteDockerMachine \/ DescribeGroupsFails \/ RemoveFinalizer \/ Crash
  PROVE  ExactOK'
<1>. USE DEF InVpc, AfterAnnotateVpc, AfterSubnet
<1>1. CASE CreateHost
  <2>1. pc = "create" /\ UNCHANGED hist /\ HostAppears /\ pc' \in {"commit", "idle"} /\ Counting
    BY <1>1, CreateHostCases DEF Goto, Return
  <2>2. Silent
    BY <2>1, UnwrittenIsSilent
  <2>3. Standing' => Standing
    BY <2>1, <2>2, StandingKept DEF Silent, Building
  <2>. QED  BY <2>1, <2>2, <2>3, ExactGrows DEF HostAppears
<1>2. CASE CommitCreated
  <2>. DEFINE new == [Api EXCEPT !.done = TRUE]
  <2>1. new \in Versions /\ new.del = Api.del /\ Same(new, Api)
    BY CopiesTyped DEF Base, Versions, Same
  <2>2. (Emit(new) \/ UNCHANGED hist) /\ Return /\ UNCHANGED net /\ Counting /\ pc = "commit"
    BY <1>2, Disturbed DEF CommitCreated
  <2>. HIDE DEF new
  <2>3. ASSUME Emit(new) PROVE Silent
    <3>1. Api' = new /\ Copies' = Copies \cup {new} /\ Cached' = Cached
      BY <2>1, <2>3, Emitted DEF Base, Same
    <3>. QED  BY <2>1, <3>1, CopiesTyped DEF Base, Silent, Same
  <2>. QED  BY <2>2, <2>3, UnwrittenIsSilent, ReturnExact
<1>3. CASE DeleteDockerMachine
  <2>1. /\ pc = "rm" /\ UNCHANGED hist /\ Counting
        /\ UNCHANGED net \/ net' = [net EXCEPT !.host = None]
        /\ \/ pc' = "idle"
           \/ pc' \in {"unfinalize", "cleanup"} /\ UNCHANGED mobj
    BY <1>3, Disturbed DEF DeleteDockerMachine, Return
  <2>2. Silent /\ Api' = Api
    BY <2>1, UnwrittenIsSilent, Unwritten DEF Base
  <2>3. Standing' => Standing
    BY <2>1, <2>2, StandingKept DEF Silent, Building
  <2>4. HostGoes
    BY <2>1, HostLeaves
  <2>5. OrderOK' /\ CompleteOK' /\ OneVpcOK'
    BY <2>1, <2>2, <2>3, <2>4, ExactFrame, Counted DEF Base, HostGoes
  <2>6. KnownOK'
    BY <2>1, <2>2 DEF ExactOK, KnownOK, Cleaning
  <2>. QED  BY <2>5, <2>6 DEF ExactOK
<1>4. CASE DescribeGroupsFails
  BY <1>4, UnwrittenIsSilent, ReturnExact, Disturbed DEF DescribeGroupsFails
<1>5. CASE RemoveFinalizer
  <2>1. UNCHANGED <<hist, net>> /\ pc' \in {"removed", "idle"} /\ pc = "unfinalize" /\ Counting
    BY <1>5, Disturbed DEF RemoveFinalizer, Return
  <2>2. Silent /\ Api' = Api
    BY <2>1, UnwrittenIsSilent, Unwritten DEF Base
  <2>3. Standing' => Standing
    BY <2>1, <2>2, StandingKept DEF Silent, Building
  <2>4. OrderOK' /\ CompleteOK' /\ OneVpcOK'
    BY <2>1, <2>2, <2>3, ExactFrame, Counted DEF Base
  <2>5. Api.vpc \notin net.vpcs
    BY <2>1 DEF Base, WorkerOK, ExactOK, KnownOK, Cleaning
  <2>6. KnownOK'
    BY <2>1, <2>2, <2>5 DEF KnownOK, Cleaning
  <2>. QED  BY <2>4, <2>6 DEF ExactOK
<1>6. CASE Crash
  <2>1. hist' = <<Api>> /\ Return /\ UNCHANGED net /\ Counting /\ Happens("crash")
    BY <1>6, Disturbed DEF Crash
  <2>2. Silent
    BY <2>1, Restarted, CopiesTyped DEF Base, Silent, Same
  <2>3. ~OnlyRefusals'
    BY <2>1, Counted DEF Base
  <2>. QED  BY <2>1, <2>2, <2>3, ReturnExact
<1>. QED  BY <1>1, <1>2, <1>3, <1>4, <1>5, <1>6

\* A rollback leaves a network that is annotated as it is: its VPC is unused, so the
\* subnet is not annotated; or only an empty VPC is deleted.
LEMMA RemovalExact ==
  ASSUME Base, NearOK, ExactOK, pc \in {"undo", "cleanup"}, UNCHANGED hist, Counting, Standing' => Standing,
         UNCHANGED net \/ Removes(Head(todo))
  PROVE  OrderOK' /\ CompleteOK' /\ OneVpcOK'
<1>1. CASE UNCHANGED net
  BY <1>1, UnwrittenIsSilent, ExactFrame, Counted DEF Base
<1>2. CASE Removes(Head(todo))
  <2>1. PICK c \in Calls : c = todo[1] /\ Removes(c) /\ 1 \in 1..Len(todo)
    BY <1>2, NextCall DEF Base
  <2>2. Api' = Api /\ Copies' = Copies /\ Cached' = Cached
    BY Unwritten DEF Base
  <2>3. OrderOK'
    BY <2>2 DEF ExactOK, OrderOK
  <2>4. OneVpcOK'
    BY <2>1, <2>2, Counted DEF Base, Removes, ExactOK, OneVpcOK
  <2>5. CASE pc = "cleanup"
    <3>1. ~Standing
      BY <2>5 DEF Base, WorkerOK, Cleaning, Standing, Building, InVpc, AfterAnnotateVpc, AfterSubnet
    <3>. QED  BY <2>3, <2>4, <3>1 DEF CompleteOK
  <2>6. CASE pc = "undo" /\ Unused(Api.vpc)
    <3>1. Standing /\ <<Api.subnet, Api.vpc>> \notin net.subnets
      BY <2>6 DEF Standing, Unused
    <3>2. Api.subnet = None
      BY <3>1 DEF ExactOK, CompleteOK, Complete
    <3>. QED  BY <2>2, <2>3, <2>4, <3>2 DEF CompleteOK
  <2>7. CASE pc = "undo" /\ OnlyVpcCalls(todo)
    <3>1. c.call \in {"groups", "vpc"}
      BY <2>1, <2>7 DEF OnlyVpcCalls
    <3>2. net'.subnets = net.subnets /\ net'.attached = net.attached
      BY <2>1, <3>1 DEF Removes
    <3>3. ASSUME Complete(Api) PROVE Complete(Api)'
      <4>1. Api.vpc \in net'.routes
        <5>1. Api.vpc \in net.routes /\ <<Api.subnet, Api.vpc>> \in net.subnets
          BY <3>3 DEF Complete
        <5>2. c.call = "vpc" => \A x \in net.subnets : x[2] # c.id
          BY <2>1 DEF Removes
        <5>3. c.call = "vpc" => <<Api.subnet, Api.vpc>>[2] # c.id
          BY <5>1, <5>2
        <5>4. net'.routes = IF c.call \in {"route", "vpc"} THEN net.routes \ {c.id} ELSE net.routes
          BY <2>1 DEF Removes
        <5>. QED  BY <3>1, <5>1, <5>3, <5>4
      <4>. QED  BY <2>2, <3>2, <3>3, <4>1 DEF Complete
    <3>4. CompleteOK'
      BY <2>2, <3>3 DEF ExactOK, CompleteOK
    <3>. QED  BY <2>3, <2>4, <3>4
  <2>. QED  BY <2>5, <2>6, <2>7 DEF NearOK, UndoOK
<1>. QED  BY <1>1, <1>2

\* A call before the last leaves the worker where it is.
LEMMA DeleteCallExact == ASSUME Base, NearOK, ExactOK, DeleteCall PROVE ExactOK'
<1>1. /\ pc \in {"undo", "cleanup"} /\ UNCHANGED <<hist, mobj, own, pc>> /\ Counting
      /\ UNCHANGED net \/ Removes(Head(todo))
  BY DeleteCallCases
<1>2. Api' = Api /\ Cached' = Cached /\ (Standing' => Standing)
  BY <1>1, Unwritten, StandingKept DEF Base
<1>3. KnownOK'
  BY <1>1, <1>2 DEF ExactOK, KnownOK, Cleaning
<1>. QED  BY <1>1, <1>2, <1>3, RemovalExact DEF ExactOK

\* After the last one the cleanup is done, or the reconcile ends.
LEMMA DeleteVpcExact == ASSUME Base, NearOK, ExactOK, DeleteVpc PROVE ExactOK'
<1>1. /\ pc \in {"undo", "cleanup"} /\ UNCHANGED hist /\ Counting
      /\ \/ pc' = "idle"
         \/ pc = "cleanup" /\ pc' = "unfinalize" /\ UNCHANGED mobj
      /\ UNCHANGED net \/ Removes(Head(todo))
  BY DeleteVpcCases DEF Return
<1>2. Api' = Api /\ Cached' = Cached /\ (Standing' => Standing)
  BY <1>1, Unwritten, StandingKept DEF Base, Building, InVpc, AfterAnnotateVpc, AfterSubnet
<1>3. KnownOK'
  BY <1>1, <1>2 DEF ExactOK, KnownOK, Cleaning
<1>. QED  BY <1>1, <1>2, <1>3, RemovalExact DEF ExactOK

\* The watch, the user and EC2 keep the third part of the invariant.
LEMMA AsideExact == ASSUME Base, ExactOK, Aside PROVE ExactOK'
<1>1. Silent /\ UNCHANGED <<mobj, own, pc, todo, happened>> /\ Same(Api', Api) /\ Counting
  BY Disturbed DEF Aside, Silent
<1>2. Standing' => Standing
  BY <1>1, StandingKept DEF Silent
<1>3. OrderOK' /\ CompleteOK' /\ OneVpcOK'
  BY <1>1, <1>2, ExactFrame, Counted DEF Base, Aside
<1>4. KnownOK'
  BY <1>1 DEF ExactOK, KnownOK, Same, Aside
<1>. QED  BY <1>3, <1>4 DEF ExactOK

\* The third part is inductive, given the others.
LEMMA ExactStep == ASSUME Base, Near, Exact, [Next]_vars PROVE Exact'
<1>1. SUFFICES ASSUME happened'["stale"] = 0 PROVE ExactOK'
  BY DEF Exact
<1>2. ExactOK /\ NearOK
  BY <1>1, StepCounts, Counted DEF Base, Near, Exact
<1>3. CASE Reconcile
  BY <1>1, <1>3, ReconcileExact
<1>4. CASE UNCHANGED vars
  BY <1>2, <1>4, OthersAside, AsideExact
<1>. QED  BY <1>2, <1>3, <1>4, CreateVpcExact, AnnotateVpcExact, BuildExact,
             AnnotateGatewayExact, AnnotateSubnetExact, LeaveExact, DeleteCallExact,
             DeleteVpcExact, OthersAside, AsideExact
          DEF Next, WorkerStep

-----------------------------------------------------------------------------
(* The theorems                                                             *)

\* A Machine that was just created has no annotations and no network.
LEMMA InitInvariant == Init => IInv
<1>. SUFFICES ASSUME Init PROVE IInv
  OBVIOUS
<1>1. /\ hist = <<Blank>> /\ mobj = Blank /\ own = Nothing /\ pc = "idle" /\ todo = <<>>
      /\ net = NoNetwork /\ happened = [d \in Disturbances |-> 0]
  BY DEF Init
<1>2. Blank \in Versions /\ Blank.vpc = None /\ Blank.subnet = None
  BY DEF Blank, Versions
<1>3. /\ hist \in Seq(Versions) /\ Len(hist) = 1 /\ hist[1] = Blank
  BY <1>1, <1>2
<1>4. Api = Blank /\ Copies = {Blank} /\ Len(hist) \in 1..(MaxLag + 1) /\ MarksOK
  BY <1>3, EnvironmentAssumption DEF Api, Copies, MarksOK
<1>5. /\ net \in Networks /\ net.host = None /\ net.vpcs = {} /\ net.groups = {}
      /\ net.subnets = {} /\ net.attached = {}
  BY <1>1 DEF NoNetwork, Networks
<1>6. CloudOK
  BY <1>5 DEF CloudOK
<1>7. TypeOK
  <2>1. own \in [vpc : Ids \cup {None}, subnet : Ids \cup {None}, gateway : Ids \cup {None}]
    BY <1>1 DEF Nothing
  <2>2. todo \in Seq(Calls) /\ (todo # <<>> <=> pc \in {"undo", "cleanup"}) /\ pc \in PcStates
    BY <1>1 DEF PcStates
  <2>3. happened \in [Disturbances -> Nat]
    BY <1>1
  <2>. QED  BY <1>1, <1>2, <1>3, <1>4, <1>5, <2>1, <2>2, <2>3 DEF TypeOK
<1>8. WorkerOK /\ TodoOK
  BY <1>1 DEF WorkerOK, TodoOK, EndsWithVpc, AfterAnnotateVpc, AfterSubnet, AfterAttach, Cleaning
<1>9. NearOK
  BY <1>1, <1>4, <1>5 DEF NearOK, CopiesOK, UpToDate, LinkOK, HostOK, BuildOK, UndoOK,
     InVpc, AfterAnnotateVpc, AfterSubnet
<1>10. ExactOK
  BY <1>1, <1>2, <1>4, <1>5 DEF ExactOK, OrderOK, CompleteOK, KnownOK, OneVpcOK, Cleaning
<1>. QED  BY <1>4, <1>6, <1>7, <1>8, <1>9, <1>10 DEF IInv, Base, Near, Exact

\* The invariant holds of every behaviour of pkg/controller/aws.go, with any number
\* of refusals, lost answers, failing writes, restarts and outdated copies.
THEOREM EnvironmentInvariant == Spec => []IInv
<1>1. IInv /\ [Next]_vars => IInv'
  <2>. SUFFICES ASSUME IInv, [Next]_vars PROVE IInv'
    OBVIOUS
  <2>1. Base'
    BY BaseStep DEF IInv
  <2>2. Near'
    BY <2>1, NearStep DEF IInv
  <2>3. Exact'
    BY ExactStep DEF IInv
  <2>. QED  BY <2>1, <2>2, <2>3 DEF IInv
<1>. QED  BY InitInvariant, <1>1, PTL DEF Spec

\* The variables keep their types, and neither a rollback nor a cleanup makes a
\* deletion call with an id that is not set, however the reconciles were disturbed.
THEOREM EnvironmentTyped == Spec => []TypeOK
<1>1. IInv => TypeOK
  BY DEF IInv, Base
<1>. QED  BY EnvironmentInvariant, <1>1, PTL

\* createAWSEnvironment returns without an error only with a subnet, a gateway and a
\* route in the VPC, after any refusals, lost answers, failing writes and restarts
\* and from copies that lack any annotation but the VPC's.
THEOREM CreatedEnvironmentIsComplete == Spec => []EnvironmentComplete
<1>1. IInv => EnvironmentComplete
  <2>. SUFFICES ASSUME IInv, pc = "create", happened["stale"] = 0
                PROVE  /\ <<mobj.subnet, mobj.vpc>> \in net.subnets
                       /\ <<mobj.gateway, mobj.vpc>> \in net.attached
                       /\ mobj.vpc \in net.routes
    BY DEF EnvironmentComplete
  <2>1. Standing /\ mobj.subnet # None /\ Same(mobj, Api) /\ CompleteOK
    BY DEF IInv, Exact, ExactOK, KnownOK, Standing, Building, InVpc
  <2>2. Complete(Api)
    BY <2>1 DEF CompleteOK, Same
  <2>. QED  BY <2>1, <2>2 DEF Complete, Same
<1>. QED  BY EnvironmentInvariant, <1>1, PTL

\* A host keeps its subnet, its gateway and its route until docker-machine rm, after
\* any refusals, lost answers, failing writes and restarts and one reconcile that
\* took up an outdated VPC annotation.
THEOREM HostKeepsItsNetwork == Spec => []HostStaysConnected
<1>1. IInv => HostStaysConnected
  <2>. SUFFICES ASSUME IInv, net.host # None, happened["stale"] <= 1
                PROVE  \E v \in net.routes : <<net.host, v>> \in net.subnets /\ \E a \in net.attached : a[2] = v
    BY DEF HostStaysConnected
  <2>1. PICK v \in Ids : <<net.host, v>> \in net.subnets /\ Linked(v)
    BY DEF IInv, Near, NearOK, HostOK
  <2>. QED  BY <2>1 DEF Linked
<1>. QED  BY EnvironmentInvariant, <1>1, PTL

\* The finalizer is removed only when the Machine's VPC is gone with all that was in
\* it, and after refusals alone no other VPC is left, if no reconcile took up an
\* outdated VPC annotation.
THEOREM NoNetworkIsLeft == Spec => []NetworkIsRemoved
<1>1. IInv => NetworkIsRemoved
  <2>. SUFFICES ASSUME IInv, pc = "removed", happened["stale"] = 0
                PROVE  /\ Api.vpc \notin net.vpcs \cup net.groups
                       /\ \A x \in net.subnets \cup net.attached : x[2] # Api.vpc
                       /\ OnlyRefusals => net.vpcs = {} /\ net.subnets = {} /\ net.groups = {}
    BY DEF NetworkIsRemoved
  <2>1. Api.vpc \notin net.vpcs /\ OneVpcOK /\ CloudOK
    BY DEF IInv, Base, Exact, ExactOK, KnownOK
  <2>2. OnlyRefusals => net.vpcs = {}
    BY <2>1 DEF OneVpcOK
  <2>3. net.vpcs = {} => net.subnets = {} /\ net.groups = {}
    BY <2>1 DEF CloudOK
  <2>. QED  BY <2>1, <2>2, <2>3 DEF CloudOK
<1>. QED  BY EnvironmentInvariant, <1>1, PTL
=============================================================================
