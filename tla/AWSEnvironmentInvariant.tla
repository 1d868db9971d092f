---------------------- MODULE AWSEnvironmentInvariant -----------------------
(***************************************************************************)
(* The safety of the AWS environment, for any number of ids, undelivered   *)
(* events and disturbances, and however far the cache is behind.           *)
(*                                                                         *)
(* The invariant has three parts.  The first holds always: EC2 deletes     *)
(* nothing that is in use, and the worker has what it has just made.  The  *)
(* second holds until a second reconcile starts from an outdated VPC       *)
(* annotation: a worker that builds works on the stored VPC, a copy that   *)
(* lacks the subnet annotation comes with a VPC whose range is taken, and  *)
(* so a rollback meets no network that is in use.  The third holds until   *)
(* the first such reconcile: the annotations are set in order and once,    *)
(* they stand for a network that is there, and there is no other VPC than  *)
(* the annotated one unless an answer, a write or the operator was lost.   *)
(*                                                                         *)
(* Here are the invariant, the lemmas on what the steps do, and the proof  *)
(* that the first part is kept; AWSEnvironmentProofs has the rest.         *)
(***************************************************************************)
EXTENDS AWSEnvironment, TLAPS

\* The calls of createAWSEnvironment, from the VPC on; the cleanup.
AfterSubnet == {"createGateway", "attach", "route", "annotateGateway", "annotateSubnet"}
AfterAttach == {"route", "annotateGateway", "annotateSubnet"}
AfterAnnotateVpc == AfterSubnet \cup {"wait", "createSubnet"}
InVpc == AfterAnnotateVpc \cup {"getVpc", "create"}
Building == InVpc \cup {"createVpc", "annotateVpc"}
Cleaning == {"rm", "cleanup", "unfinalize"}

\* The versions that a reconcile may yet see.
Copies == {hist[i] : i \in 1..Len(hist)}
Alike(c, d) == c.vpc = d.vpc /\ c.subnet = d.subnet
Same(c, d) == c.vpc = d.vpc /\ c.subnet = d.subnet /\ c.gateway = d.gateway

-----------------------------------------------------------------------------
(* What holds always.                                                      *)

\* A deletion mark stays, and so does a VPC annotation, if perhaps not its value.
MarksOK ==
  /\ \A i, j \in 1..Len(hist) : i <= j /\ hist[i].del => hist[j].del
  /\ \A c \in Copies : c.vpc # None => Api.vpc # None

\* EC2 deletes no VPC and no subnet that is in use, and makes one subnet in a VPC.
CloudOK ==
  /\ \A x \in net.subnets \cup net.attached : x[2] \in net.vpcs
  /\ net.groups \subseteq net.vpcs
  /\ \A s, t \in net.subnets : s[2] = t[2] => s[1] = t[1]
  /\ net.host # None => \E s \in net.subnets : s[1] = net.host

\* What the worker has made or removed is still so.
WorkerOK ==
  /\ pc \in AfterAnnotateVpc \cup {"getVpc"} => mobj.vpc \in Ids /\ Api.vpc \in Ids
  /\ pc \in AfterAnnotateVpc \cup {"annotateVpc"} => own.vpc \in Ids
  /\ pc = "annotateVpc" => \A c \in Copies : c.vpc # own.vpc
  /\ pc \in {"annotateVpc", "wait"} => \A s \in net.subnets : s[2] # own.vpc
  /\ pc = "createSubnet" => mobj.subnet = None
  /\ pc \in AfterSubnet => <<own.subnet, own.vpc>> \in net.subnets /\ own.subnet # net.host
  /\ pc = "attach" => own.gateway \in Ids
  /\ pc \in AfterAttach => <<own.gateway, own.vpc>> \in net.attached
  /\ pc \in {"annotateGateway", "annotateSubnet"} => own.vpc \in net.routes
  /\ pc \in Cleaning \cup {"removed"} => Cached.del
  /\ pc \in {"cleanup", "unfinalize", "removed"} => net.host = None
  /\ pc = "unfinalize" => mobj.vpc \notin net.vpcs

\* The calls of a deletion, if any, end with the one for the VPC, which is in a
\* cleanup that of machineObj.
EndsWithVpc(calls) == calls # <<>> => calls[Len(calls)].call = "vpc"
TodoOK ==
  /\ EndsWithVpc(todo)
  /\ pc = "cleanup" => \A k \in 1..Len(todo) : todo[k].call = "vpc" => todo[k].id = mobj.vpc

Base == TypeOK /\ MarksOK /\ CloudOK /\ WorkerOK /\ TodoOK

-----------------------------------------------------------------------------
(* What holds until a second reconcile starts from an outdated VPC.        *)

\* The network is not being taken down, nor was it.
Standing == ~Cached.del \/ pc \in Building \cup {"undo"}

Linked(v) == v \in net.routes /\ \E a \in net.attached : a[2] = v

\* A copy of the stored VPC that lacks the stored subnet has none, and the range of
\* the VPC is taken by the stored one.
UpToDate(o) ==
  o.vpc = Api.vpc /\ o.subnet # Api.subnet =>
    o.subnet = None /\ (Standing => <<Api.subnet, Api.vpc>> \in net.subnets)

\* A rollback is in a VPC that nobody uses, or asks for nothing but an empty VPC.
Unused(v) == <<Api.subnet, v>> \notin net.subnets /\ <<net.host, v>> \notin net.subnets
Within(calls, v) ==
  \A k \in 1..Len(calls) : calls[k].vpc = v /\ (calls[k].call = "route" => calls[k].id = v)
OnlyVpcCalls(calls) == \A k \in 1..Len(calls) : calls[k].call \in {"groups", "vpc"}

CopiesOK == \A c \in Copies : UpToDate(c)
LinkOK == Standing /\ <<Api.subnet, Api.vpc>> \in net.subnets => Linked(Api.vpc)
HostOK == net.host # None => \E v \in Ids : <<net.host, v>> \in net.subnets /\ Linked(v)
BuildOK ==
  /\ pc \in InVpc => mobj.vpc = Api.vpc /\ UpToDate(mobj)
  /\ pc \in AfterAnnotateVpc => own.vpc = Api.vpc
  /\ pc \in AfterSubnet => Api.subnet = None /\ mobj.subnet = None
UndoOK == pc = "undo" => (Unused(Api.vpc) /\ Within(todo, Api.vpc)) \/ OnlyVpcCalls(todo)

NearOK == CopiesOK /\ LinkOK /\ HostOK /\ BuildOK /\ UndoOK
Near == happened["stale"] <= 1 => NearOK

-----------------------------------------------------------------------------
(* What holds until the first reconcile starts from an outdated VPC.       *)

Complete(o) ==
  /\ <<o.subnet, o.vpc>> \in net.subnets
  /\ <<o.gateway, o.vpc>> \in net.attached
  /\ o.vpc \in net.routes

\* The VPC is annotated once, and the subnet last.
OrderOK ==
  \A c \in Copies :
    /\ c.vpc \in {None, Api.vpc}
    /\ c.subnet # None => Same(c, Api) /\ c.vpc # None /\ c.gateway # None

CompleteOK == Standing /\ Api.subnet # None => Complete(Api)

KnownOK ==
  /\ pc \in {"createVpc", "annotateVpc"} => Api.vpc = None
  /\ pc \in {"wait", "getVpc"} => mobj.subnet = None
  /\ pc = "annotateSubnet" => Api.gateway = own.gateway
  /\ pc = "create" => mobj.subnet # None /\ Same(mobj, Api)
  /\ pc \in Cleaning => mobj.vpc = Api.vpc
  /\ pc = "removed" => Api.vpc \notin net.vpcs

OneVpcOK ==
  OnlyRefusals => \A v \in net.vpcs : v = Api.vpc \/ (pc = "annotateVpc" /\ v = own.vpc)

ExactOK == OrderOK /\ CompleteOK /\ KnownOK /\ OneVpcOK
Exact == happened["stale"] = 0 => ExactOK

IInv == Base /\ Near /\ Exact
-----------------------------------------------------------------------------
(* Lemmas on the history, the disturbances and the calls.                  *)

\* An annotation that is not set names no EC2 resource.
LEMMA NoneIsNoId == None \notin Ids
BY DEF None, Ids

\* The stored and the cached version are copies, and the mark gets to the stored.
LEMMA CopiesTyped ==
  ASSUME TypeOK
  PROVE  /\ Api \in Copies /\ Cached \in Copies /\ Copies \subseteq Versions
         /\ MarksOK /\ Cached.del => Api.del
<1>1. Len(hist) \in 1..Len(hist) /\ 1 \in 1..Len(hist) /\ 1 <= Len(hist) /\ Cached = hist[1]
  BY EnvironmentAssumption DEF TypeOK, Cached
<1>. QED  BY <1>1 DEF TypeOK, Api, Copies, MarksOK

\* A write makes its version the stored one.
LEMMA Emitted ==
  ASSUME TypeOK, MarksOK, NEW new \in Versions, Api.del => new.del, Api.vpc # None => new.vpc # None, Emit(new)
  PROVE  /\ hist' \in Seq(Versions) /\ Len(hist') \in 1..(MaxLag + 1)
         /\ Api' = new /\ Cached' = Cached /\ Copies' = Copies \cup {new} /\ MarksOK'
<1>1. hist \in Seq(Versions) /\ Len(hist) \in Nat /\ Len(hist) >= 1 /\ Len(hist) <= MaxLag
  BY EnvironmentAssumption DEF TypeOK, Emit
<1>2. hist' = Append(hist, new)
  BY DEF Emit
<1>3. /\ Len(hist') = Len(hist) + 1 /\ hist'[Len(hist) + 1] = new /\ hist' \in Seq(Versions)
      /\ \A i \in 1..Len(hist) : hist'[i] = hist[i]
  BY <1>1, <1>2
<1>4. \A i \in 1..Len(hist') : i \in 1..Len(hist) \/ i = Len(hist) + 1
  BY <1>1, <1>3
<1>5. \A i \in 1..Len(hist) : i \in 1..Len(hist') /\ Len(hist) + 1 \in 1..Len(hist')
  BY <1>1, <1>3
<1>6. Copies' = Copies \cup {new}
  <2>1. Len(hist) + 1 \in 1..Len(hist')
    BY <1>1, <1>3
  <2>. QED  BY <1>3, <1>4, <1>5, <2>1 DEF Copies
<1>7. Cached' = Cached
  BY <1>1, <1>3 DEF Cached
<1>8. Api' = new
  BY <1>1, <1>3 DEF Api
<1>9. MarksOK'
  <2>1. \A i \in 1..Len(hist) : hist[i].del => new.del
    BY <1>1 DEF MarksOK, Api
  <2>. SUFFICES ASSUME NEW i \in 1..Len(hist'), NEW j \in 1..Len(hist'), i <= j, hist'[i].del
                PROVE  hist'[j].del
    BY <1>6, <1>8 DEF MarksOK
  <2>2. CASE j \in 1..Len(hist)
    <3>1. i \in 1..Len(hist)
      BY <1>1, <2>2
    <3>. QED  BY <1>3, <2>2, <3>1 DEF MarksOK
  <2>3. CASE j = Len(hist) + 1
    BY <1>3, <1>4, <2>1, <2>3
  <2>. QED  BY <1>4, <2>2, <2>3
<1>. QED  BY <1>1, <1>3, <1>6, <1>7, <1>8, <1>9, EnvironmentAssumption

\* Without a write everything stays.
LEMMA Unwritten ==
  ASSUME TypeOK, MarksOK, UNCHANGED hist
  PROVE  /\ hist' \in Seq(Versions) /\ Len(hist') \in 1..(MaxLag + 1)
         /\ Api' = Api /\ Cached' = Cached /\ Copies' = Copies /\ MarksOK'
BY DEF TypeOK, Api, Cached, Copies, MarksOK

\* The watch delivers one version.
LEMMA Delivered ==
  ASSUME TypeOK, MarksOK, Len(hist) > 1, hist' = Tail(hist)
  PROVE  /\ hist' \in Seq(Versions) /\ Len(hist') \in 1..(MaxLag + 1)
         /\ Api' = Api /\ Copies' \subseteq Copies /\ MarksOK' /\ (Cached.del => Cached'.del)
<1>1. hist \in Seq(Versions) /\ Len(hist) \in Nat /\ Len(hist) <= MaxLag + 1
  BY EnvironmentAssumption DEF TypeOK
<1>2. /\ hist' \in Seq(Versions) /\ Len(hist') = Len(hist) - 1
      /\ \A i \in 1..Len(hist') : hist'[i] = hist[i + 1] /\ i + 1 \in 1..Len(hist)
  BY <1>1
<1>3. Copies' \subseteq Copies
  BY <1>2 DEF Copies
<1>4. Api' = Api
  BY <1>1, <1>2 DEF Api
<1>5. MarksOK'
  <2>. SUFFICES ASSUME NEW i \in 1..Len(hist'), NEW j \in 1..Len(hist'), i <= j, hist'[i].del
                PROVE  hist'[j].del
    BY <1>3, <1>4 DEF MarksOK
  <2>1. i + 1 <= j + 1 /\ hist[i + 1].del /\ i + 1 \in 1..Len(hist) /\ j + 1 \in 1..Len(hist)
    BY <1>1, <1>2
  <2>2. hist[j + 1].del
    BY <2>1 DEF MarksOK
  <2>. QED  BY <1>2, <2>2
<1>6. Cached.del => Cached'.del
  <2>1. /\ Cached = hist[1] /\ Cached' = hist'[1] /\ hist'[1] = hist[2]
        /\ 1 \in 1..Len(hist) /\ 2 \in 1..Len(hist) /\ 1 <= 2
    BY <1>1, <1>2 DEF Cached
  <2>. QED  BY <2>1 DEF MarksOK
<1>. QED  BY <1>1, <1>2, <1>3, <1>4, <1>5, <1>6, EnvironmentAssumption

\* A restart reads the stored version.
LEMMA Restarted ==
  ASSUME TypeOK, hist' = <<Api>>
  PROVE  /\ hist' \in Seq(Versions) /\ Len(hist') \in 1..(MaxLag + 1)
         /\ Api' = Api /\ Cached' = Api /\ Copies' = {Api} /\ MarksOK'
<1>1. Api \in Versions
  BY CopiesTyped
<1>2. hist' \in Seq(Versions) /\ Len(hist') = 1 /\ hist'[1] = Api
  BY <1>1
<1>3. \A i \in 1..Len(hist') : i = 1
  BY <1>2
<1>. QED  BY <1>2, <1>3, EnvironmentAssumption DEF Api, Cached, Copies, MarksOK

\* Disturbances are only counted up, and one that has happened is not forgotten.
Counting == UNCHANGED happened \/ \E d \in Disturbances : Happens(d)

\* The counts of the disturbances only grow, and a lost answer, a failing write and a
\* restart show.
LEMMA Counted ==
  ASSUME TypeOK, Counting
  PROVE  /\ happened' \in [Disturbances -> Nat]
         /\ happened'["stale"] <= 1 => happened["stale"] <= 1
         /\ happened'["stale"] = 0 => happened["stale"] = 0
         /\ OnlyRefusals' => OnlyRefusals
         /\ \A d \in {"lost", "patch", "crash"} : Happens(d) => ~OnlyRefusals'
         /\ Happens("stale") => happened'["stale"] = happened["stale"] + 1
<1>1. happened' \in [Disturbances -> Nat] /\ happened \in [Disturbances -> Nat]
  BY EnvironmentAssumption DEF TypeOK, Counting, Happens
<1>2. ASSUME NEW d \in Disturbances, Happens(d)
      PROVE  happened'[d] = happened[d] + 1 /\ \A e \in Disturbances : happened'[e] >= happened[e]
  <2>1. happened' = [happened EXCEPT ![d] = happened[d] + 1]
    BY <1>2 DEF Happens
  <2>. QED  BY <1>1, <2>1
<1>3. \A e \in Disturbances : happened'[e] >= happened[e] /\ happened[e] \in Nat /\ happened'[e] \in Nat
  <2>1. CASE UNCHANGED happened
    BY <1>1, <2>1
  <2>2. CASE \E d \in Disturbances : Happens(d)
    BY <1>1, <1>2, <2>2
  <2>. QED  BY <2>1, <2>2 DEF Counting
<1>4. \A d \in {"lost", "patch", "crash"} : Happens(d) => ~OnlyRefusals'
  <2>. SUFFICES ASSUME NEW d \in {"lost", "patch", "crash"}, Happens(d) PROVE happened'[d] # 0
    BY DEF OnlyRefusals
  <2>1. d \in Disturbances
    BY DEF Disturbances
  <2>. QED  BY <1>1, <1>2, <2>1
<1>5. OnlyRefusals' => OnlyRefusals
  <2>. SUFFICES ASSUME OnlyRefusals', NEW d \in {"lost", "patch", "crash"} PROVE happened[d] = 0
    BY DEF OnlyRefusals
  <2>1. d \in Disturbances /\ happened'[d] = 0
    BY DEF OnlyRefusals, Disturbances
  <2>. QED  BY <1>3, <2>1
<1>6. "stale" \in Disturbances
  BY DEF Disturbances
<1>. QED  BY <1>1, <1>2, <1>3, <1>4, <1>5, <1>6

\* An id that is free is an id, and nobody's.
LEMMA FreshId ==
  ASSUME Room
  PROVE  /\ NewId \in Ids /\ NewId \notin net.vpcs /\ NewId \notin net.gateways
         /\ \A s \in net.subnets : s[1] # NewId
         /\ \A c \in Copies : c.vpc # NewId /\ c.subnet # NewId /\ c.gateway # NewId
<1>1. NewId \in Ids /\ NewId \notin Mentioned
  BY DEF Room, NewId
<1>. QED  BY <1>1 DEF Mentioned, Annotations, Copies

\* A deletion call for ids that are set.
LEMMA CallTyped ==
  ASSUME NEW c \in {"route", "detach", "gateway", "subnet", "groups", "vpc"},
         NEW i \in Ids, NEW v \in Ids
  PROVE  /\ Call(c, i, v) \in Calls
         /\ Call(c, i, v).call = c /\ Call(c, i, v).id = i /\ Call(c, i, v).vpc = v
BY DEF Call, Calls

\* The calls for a gateway and for a subnet stay in the VPC and are not for it.
InOneVpc(calls, v) ==
  /\ calls \in Seq(Calls) /\ Within(calls, v)
  /\ \A k \in 1..Len(calls) : calls[k].call # "vpc"

\* The calls of deleteAwsInternetGateway stay in the VPC they are given.
LEMMA GatewayCalls ==
  ASSUME NEW g \in Ids, NEW v \in Ids
  PROVE  InOneVpc(DeleteAwsInternetGateway(g, v), v)
<1>. DEFINE a == Call("route", v, v)
            b == Call("detach", g, v)
            c == Call("gateway", g, v)
<1>1. /\ a \in Calls /\ b \in Calls /\ c \in Calls
      /\ a.vpc = v /\ b.vpc = v /\ c.vpc = v /\ a.id = v
      /\ a.call = "route" /\ b.call = "detach" /\ c.call = "gateway"
  BY CallTyped
<1>2. DeleteAwsInternetGateway(g, v) = <<a, b, c>>
  BY DEF DeleteAwsInternetGateway
<1>. HIDE DEF a, b, c
<1>. QED  BY <1>1, <1>2 DEF InOneVpc, Within

\* Such calls can be put together.
LEMMA CallsTogether ==
  ASSUME NEW v, NEW x, NEW y, InOneVpc(x, v), InOneVpc(y, v)
  PROVE  InOneVpc(x \o y, v)
<1>1. x \in Seq(Calls) /\ y \in Seq(Calls) /\ Len(x) \in Nat /\ Len(y) \in Nat
  BY DEF InOneVpc
<1>2. /\ x \o y \in Seq(Calls) /\ Len(x \o y) = Len(x) + Len(y)
      /\ \A k \in 1..Len(x \o y) : (x \o y)[k] = IF k <= Len(x) THEN x[k] ELSE y[k - Len(x)]
  BY <1>1
<1>3. ASSUME NEW k \in 1..Len(x \o y)
      PROVE  \/ (x \o y)[k] = x[k] /\ k \in 1..Len(x)
             \/ (x \o y)[k] = y[k - Len(x)] /\ k - Len(x) \in 1..Len(y)
  BY <1>1, <1>2, <1>3
<1>. QED  BY <1>2, <1>3 DEF InOneVpc, Within

\* The calls of deleteAwsSubnet stay in the annotated VPC.
LEMMA SubnetCalls ==
  ASSUME TypeOK, mobj.vpc \in Ids, NEW s \in Ids
  PROVE  InOneVpc(DeleteAwsSubnet(s), mobj.vpc)
<1>. DEFINE front == IF mobj.gateway # None THEN DeleteAwsInternetGateway(mobj.gateway, mobj.vpc) ELSE <<>>
            last == Call("subnet", s, mobj.vpc)
<1>1. InOneVpc(front, mobj.vpc)
  <2>1. CASE mobj.gateway = None
    BY <2>1 DEF InOneVpc, Within
  <2>2. CASE mobj.gateway # None
    <3>1. mobj.gateway \in Ids
      BY <2>2 DEF TypeOK, Versions
    <3>. QED  BY <2>2, <3>1, GatewayCalls
  <2>. QED  BY <2>1, <2>2
<1>2. InOneVpc(<<last>>, mobj.vpc)
  <2>1. last \in Calls /\ last.vpc = mobj.vpc /\ last.call = "subnet"
    BY CallTyped
  <2>. HIDE DEF last
  <2>. QED  BY <2>1 DEF InOneVpc, Within
<1>3. DeleteAwsSubnet(s) = front \o <<last>>
  BY DEF DeleteAwsSubnet
<1>. HIDE DEF front, last
<1>. QED  BY <1>1, <1>2, <1>3, CallsTogether

\* The calls of a VPC's deletion end with the one for it; without an annotated
\* subnet there are no others but for its groups.
LEMMA VpcCalls ==
  ASSUME TypeOK, mobj.vpc \in Ids, NEW v \in Ids
  PROVE  \E front :
           /\ InOneVpc(front, mobj.vpc)
           /\ DeleteAwsVpc(v) = front \o <<Call("groups", v, v), Call("vpc", v, v)>>
           /\ mobj.subnet = None => front = <<>>
<1>. DEFINE front == IF mobj.subnet # None THEN DeleteAwsSubnet(mobj.subnet) ELSE <<>>
<1>1. InOneVpc(front, mobj.vpc)
  <2>1. CASE mobj.subnet = None
    BY <2>1 DEF InOneVpc, Within
  <2>2. CASE mobj.subnet # None
    <3>1. mobj.subnet \in Ids
      BY <2>2 DEF TypeOK, Versions
    <3>. QED  BY <2>2, <3>1, SubnetCalls
  <2>. QED  BY <2>1, <2>2
<1>2. DeleteAwsVpc(v) = front \o <<Call("groups", v, v), Call("vpc", v, v)>>
  BY NoneIsNoId DEF DeleteAwsVpc
<1>. QED  BY <1>1, <1>2

\* What is known of calls that end with the VPC's.
Deletion(calls) == calls \in Seq(Calls) /\ calls # <<>> /\ EndsWithVpc(calls)
OfVpc(calls, v) == \A k \in 1..Len(calls) : calls[k].call = "vpc" => calls[k].id = v

\* Such calls and then those for the VPC make up a deletion.
LEMMA CallsWithVpc ==
  ASSUME NEW u, NEW v \in Ids, NEW front, InOneVpc(front, u)
  PROVE  LET calls == front \o <<Call("groups", v, v), Call("vpc", v, v)>> IN
         /\ Deletion(calls) /\ OfVpc(calls, v)
         /\ u = v => Within(calls, v)
         /\ front = <<>> => OnlyVpcCalls(calls)
<1>. DEFINE g == Call("groups", v, v)
            c == Call("vpc", v, v)
            calls == front \o <<g, c>>
<1>1. /\ g \in Calls /\ g.call = "groups" /\ g.id = v /\ g.vpc = v
      /\ c \in Calls /\ c.call = "vpc" /\ c.id = v /\ c.vpc = v
  BY CallTyped
<1>. HIDE DEF g, c
<1>3. front \in Seq(Calls) /\ Len(front) \in Nat
  BY DEF InOneVpc
<1>4. /\ calls \in Seq(Calls) /\ Len(calls) = Len(front) + 2
      /\ \A k \in 1..Len(front) : calls[k] = front[k]
      /\ calls[Len(front) + 1] = g /\ calls[Len(front) + 2] = c
  BY <1>1, <1>3
<1>. HIDE DEF calls
<1>5. \A k \in 1..Len(calls) : k \in 1..Len(front) \/ k = Len(front) + 1 \/ k = Len(front) + 2
  BY <1>3, <1>4
<1>6. Deletion(calls)
  BY <1>1, <1>3, <1>4 DEF EndsWithVpc, Deletion
<1>7. OfVpc(calls, v)
  BY <1>1, <1>4, <1>5 DEF InOneVpc, OfVpc
<1>8. u = v => Within(calls, v)
  BY <1>1, <1>4, <1>5 DEF InOneVpc, Within
<1>9. front = <<>> => OnlyVpcCalls(calls)
  <2>1. front = <<>> => \A k \in 1..Len(calls) : k = 1 \/ k = 2
    BY <1>4
  <2>. QED  BY <1>1, <1>4, <2>1 DEF OnlyVpcCalls
<1>. QED  BY <1>6, <1>7, <1>8, <1>9 DEF calls, g, c

\* Calls before the ones of a deletion.
LEMMA CallsInFront ==
  ASSUME NEW v, NEW x, InOneVpc(x, v), NEW y, Deletion(y)
  PROVE  Deletion(x \o y) /\ (Within(y, v) => Within(x \o y, v))
<1>1. /\ x \in Seq(Calls) /\ Len(x) \in Nat
      /\ y \in Seq(Calls) /\ y # <<>> /\ Len(y) \in Nat /\ Len(y) # 0
  BY DEF InOneVpc, Deletion
<1>2. /\ x \o y \in Seq(Calls) /\ Len(x \o y) = Len(x) + Len(y)
      /\ \A k \in 1..Len(x \o y) : (x \o y)[k] = IF k <= Len(x) THEN x[k] ELSE y[k - Len(x)]
  BY <1>1
<1>3. (x \o y)[Len(x \o y)] = y[Len(y)] /\ x \o y # <<>>
  BY <1>1, <1>2
<1>4. Deletion(x \o y)
  BY <1>1, <1>2, <1>3 DEF EndsWithVpc, Deletion
<1>5. ASSUME NEW k \in 1..Len(x \o y)
      PROVE  \/ (x \o y)[k] = x[k] /\ k \in 1..Len(x)
             \/ (x \o y)[k] = y[k - Len(x)] /\ k - Len(x) \in 1..Len(y)
  BY <1>1, <1>2, <1>5
<1>. QED  BY <1>2, <1>4, <1>5 DEF InOneVpc, Within

\* The disturbances of a call and of a write.
LEMMA Disturbed ==
  UNCHANGED happened \/ Happens("refused") \/ Happens("lost") \/ Happens("patch") \/ Happens("crash")
    \/ Happens("stale") => Counting
BY DEF Counting, Disturbances
-----------------------------------------------------------------------------
(* Base: what holds always.                                                 *)

OwnIds == [vpc : Ids \cup {None}, subnet : Ids \cup {None}, gateway : Ids \cup {None}]

\* The history and the counters after a step.
HistoryOK == hist \in Seq(Versions) /\ Len(hist) \in 1..(MaxLag + 1) /\ MarksOK

\* The end of a reconcile: an idle worker has nothing.
LEMMA ReturnBase ==
  ASSUME Base, Return, HistoryOK', net' \in Networks, CloudOK', Counting
  PROVE  Base' /\ pc' = "idle"
<1>1. pc' = "idle" /\ mobj' = Blank /\ own' = Nothing /\ todo' = <<>>
  BY DEF Return
<1>2. TypeOK'
  <2>1. Blank \in Versions /\ Nothing \in OwnIds
    BY DEF Blank, Nothing, Versions, OwnIds
  <2>. QED  BY <1>1, <2>1, Counted DEF Base, TypeOK, HistoryOK, PcStates, OwnIds
<1>3. WorkerOK'
  BY <1>1 DEF WorkerOK, AfterAnnotateVpc, AfterSubnet, AfterAttach, Cleaning
<1>4. TodoOK'
  BY <1>1 DEF TodoOK, EndsWithVpc
<1>. QED  BY <1>1, <1>2, <1>3, <1>4 DEF Base, HistoryOK

\* A creation that fails and is undone.
LEMMA RollbackBase ==
  ASSUME Base, NEW calls, Deletion(calls), Rollback(calls),
         HistoryOK', net' \in Networks, CloudOK', Counting
  PROVE  Base' /\ pc' = "undo" /\ todo' = calls
<1>1. pc' = "undo" /\ todo' = calls /\ mobj' = mobj /\ own' = own
  BY DEF Rollback, Deletion
<1>2. TypeOK'
  BY <1>1, Counted DEF Deletion, Base, TypeOK, HistoryOK, PcStates
<1>3. WorkerOK'
  BY <1>1 DEF WorkerOK, AfterAnnotateVpc, AfterSubnet, AfterAttach, Cleaning
<1>4. TodoOK'
  BY <1>1 DEF TodoOK, Deletion
<1>. QED  BY <1>1, <1>2, <1>3, <1>4 DEF Base, HistoryOK

\* The next call, with the same machineObj and nothing to be undone.
LEMMA GoOnBase ==
  ASSUME Base, UNCHANGED <<hist, mobj, todo>>, Counting, net' \in Networks, CloudOK', own' \in OwnIds,
         pc' \in PcStates, pc \notin {"undo", "cleanup"}, pc' \notin {"undo", "cleanup"}, WorkerOK'
  PROVE  Base'
<1>1. HistoryOK'
  BY Unwritten DEF Base, HistoryOK
<1>2. TypeOK'
  BY <1>1, Counted DEF Base, TypeOK, HistoryOK, OwnIds
<1>3. TodoOK'
  BY DEF Base, TodoOK
<1>. QED  BY <1>1, <1>2, <1>3 DEF Base, HistoryOK

\* A reconcile starts: with a Machine that is deleted only when the cache says so.
LEMMA ReconcileBase == ASSUME Base, Reconcile PROVE Base'
<1>1. PICK o \in {Cached, Api} :
        /\ mobj' = o /\ pc' = IF Cached.del THEN "rm" ELSE FirstCall(o)
        /\ IF o.vpc # Api.vpc THEN Happens("stale") ELSE UNCHANGED happened
  BY DEF Reconcile
<1>2. UNCHANGED <<hist, own, todo, net>> /\ pc = "idle"
  BY DEF Reconcile
<1>3. HistoryOK' /\ Cached' = Cached
  BY <1>2, Unwritten DEF Base, HistoryOK
<1>4. Counting
  BY <1>1 DEF Counting, Disturbances
<1>5. o \in Versions
  BY CopiesTyped DEF Base
<1>6. pc' \in {"rm", "create", "createVpc", "getVpc"} /\ (pc' = "rm" => Cached.del)
      /\ (pc' = "getVpc" => o.vpc # None)
  BY <1>1 DEF FirstCall
<1>7. TypeOK'
  BY <1>1, <1>2, <1>3, <1>4, <1>5, <1>6, Counted DEF Base, TypeOK, HistoryOK, PcStates
<1>8. WorkerOK'
  <2>1. pc' = "getVpc" => mobj'.vpc \in Ids /\ Api'.vpc \in Ids
    BY <1>1, <1>2, <1>5, <1>6, CopiesTyped, Unwritten DEF Base, MarksOK, Versions
  <2>. QED  BY <1>3, <1>6, <2>1 DEF WorkerOK, AfterAnnotateVpc, AfterSubnet, AfterAttach, Cleaning
<1>9. CloudOK' /\ TodoOK'
  BY <1>2, <1>6 DEF Base, CloudOK, TodoOK
<1>. QED  BY <1>3, <1>7, <1>8, <1>9 DEF Base, HistoryOK

\* The answers to a call: done, done and the answer lost, or refused.
LEMMA CreateVpcBase == ASSUME Base, CreateVpc PROVE Base'
<1>. DEFINE new == [net EXCEPT !.vpcs = @ \cup {NewId}]
<1>1. pc = "createVpc" /\ UNCHANGED hist /\ HistoryOK'
  BY Unwritten DEF CreateVpc, Base, HistoryOK
<1>2. Room => /\ new \in Networks /\ new.vpcs = net.vpcs \cup {NewId} /\ new.subnets = net.subnets
              /\ new.attached = net.attached /\ new.groups = net.groups /\ new.host = net.host
  BY FreshId DEF Base, TypeOK, Networks
<1>3. net' = net \/ (Room /\ net' = new) => net' \in Networks /\ CloudOK'
  <2>. HIDE DEF new
  <2>. QED  BY <1>2 DEF Base, TypeOK, CloudOK
<1>4. CASE Room /\ net' = new /\ Holding([own EXCEPT !.vpc = NewId], "annotateVpc") /\ UNCHANGED happened
  <2>1. /\ own' \in OwnIds /\ own'.vpc = NewId /\ pc' = "annotateVpc" /\ UNCHANGED <<mobj, todo>>
        /\ NewId \in Ids
    BY <1>4, FreshId DEF Holding, Base, TypeOK, OwnIds
  <2>2. \A s \in net'.subnets : s[2] # own'.vpc
    BY <1>2, <1>4, <2>1, FreshId DEF Base, CloudOK
  <2>3. \A c \in Copies' : c.vpc # own'.vpc
    BY <1>1, <1>4, <2>1, FreshId, Unwritten DEF Base
  <2>4. WorkerOK'
    BY <2>1, <2>2, <2>3 DEF WorkerOK, AfterAnnotateVpc, AfterSubnet, AfterAttach, Cleaning
  <2>. QED  BY <1>1, <1>3, <1>4, <2>1, <2>4, GoOnBase DEF Counting, PcStates
<1>5. ASSUME net' = net \/ (Room /\ net' = new), Return, Counting PROVE Base'
  BY <1>1, <1>3, <1>5, ReturnBase
<1>. QED  BY <1>4, <1>5, Disturbed DEF CreateVpc, Ask

\* An annotation is stored or not, and machineObj is replaced or not.
LEMMA AnnotateVpcBase == ASSUME Base, AnnotateVpc PROVE Base'
<1>. DEFINE new == [Api EXCEPT !.vpc = own.vpc]
<1>1. pc = "annotateVpc" /\ own.vpc \in Ids /\ \A s \in net.subnets : s[2] # own.vpc
  BY DEF AnnotateVpc, Base, WorkerOK
<1>2. new \in Versions /\ new.vpc = own.vpc /\ new.del = Api.del /\ new.vpc # None
  BY <1>1, CopiesTyped, NoneIsNoId DEF Base, Versions
<1>3. UNCHANGED net /\ net' \in Networks /\ CloudOK'
  BY DEF AnnotateVpc, PatchAnnotation, Base, TypeOK, CloudOK
<1>. HIDE DEF new
<1>4. Emit(new) \/ UNCHANGED hist => HistoryOK'
  BY <1>2, Emitted, Unwritten DEF Base, HistoryOK
<1>5. CASE Emit(new) /\ mobj' = new /\ pc' = "wait" /\ UNCHANGED <<own, todo, happened>>
  <2>1. TypeOK'
    BY <1>1, <1>2, <1>3, <1>4, <1>5 DEF Base, TypeOK, HistoryOK, PcStates
  <2>2. WorkerOK'
    BY <1>1, <1>2, <1>3, <1>5, Emitted DEF Base, WorkerOK, AfterAnnotateVpc, AfterSubnet, AfterAttach, Cleaning
  <2>3. TodoOK'
    BY <1>5 DEF Base, TodoOK
  <2>. QED  BY <1>3, <1>4, <1>5, <2>1, <2>2, <2>3 DEF Base, HistoryOK
<1>6. CASE Happens("patch") /\ Return /\ (Emit(new) \/ UNCHANGED hist)
  BY <1>3, <1>4, <1>6, ReturnBase DEF Counting, Disturbances
<1>. QED  BY <1>5, <1>6 DEF AnnotateVpc, PatchAnnotation, new

\* The calls of the rollbacks are for ids that are set.
LEMMA UndoVpcCalls ==
  ASSUME Base, pc \in AfterAnnotateVpc
  PROVE  /\ Deletion(DeleteAwsVpc(own.vpc))
         /\ mobj.vpc = own.vpc => Within(DeleteAwsVpc(own.vpc), own.vpc)
         /\ mobj.subnet = None => OnlyVpcCalls(DeleteAwsVpc(own.vpc))
<1>1. own.vpc \in Ids /\ mobj.vpc \in Ids
  BY DEF Base, WorkerOK
<1>2. PICK front : /\ InOneVpc(front, mobj.vpc)
                   /\ DeleteAwsVpc(own.vpc) = front \o <<Call("groups", own.vpc, own.vpc), Call("vpc", own.vpc, own.vpc)>>
                   /\ mobj.subnet = None => front = <<>>
  BY <1>1, VpcCalls DEF Base
<1>. QED  BY <1>1, <1>2, CallsWithVpc

\* What is undone when the gateway cannot be made.
LEMMA UndoSubnetCalls ==
  ASSUME Base, pc \in AfterSubnet
  PROVE  Deletion(UndoSubnet) /\ (mobj.vpc = own.vpc => Within(UndoSubnet, own.vpc))
<1>1. own.subnet \in Ids /\ mobj.vpc \in Ids /\ pc \in AfterAnnotateVpc
  BY DEF Base, TypeOK, Networks, WorkerOK, AfterAnnotateVpc
<1>2. InOneVpc(DeleteAwsSubnet(own.subnet), mobj.vpc)
  BY <1>1, SubnetCalls DEF Base
<1>3. UndoSubnet = DeleteAwsSubnet(own.subnet) \o DeleteAwsVpc(own.vpc)
  BY DEF UndoSubnet
<1>. QED  BY <1>1, <1>2, <1>3, UndoVpcCalls, CallsInFront

\* What is undone when the gateway cannot be attached or routed.
LEMMA UndoGatewayCalls ==
  ASSUME Base, pc \in AfterSubnet, own.gateway \in Ids
  PROVE  Deletion(UndoGateway) /\ (mobj.vpc = own.vpc => Within(UndoGateway, own.vpc))
<1>1. own.vpc \in Ids
  BY DEF Base, WorkerOK, AfterAnnotateVpc
<1>2. InOneVpc(DeleteAwsInternetGateway(own.gateway, own.vpc), own.vpc)
  BY <1>1, GatewayCalls
<1>3. UndoGateway = DeleteAwsInternetGateway(own.gateway, own.vpc) \o UndoSubnet
  BY DEF UndoGateway
<1>. QED  BY <1>2, <1>3, UndoSubnetCalls, CallsInFront

\* The network loses nothing, and what the stored version says is as true as before.
Grows ==
  /\ net' \in Networks
  /\ net.subnets \subseteq net'.subnets /\ net.attached \subseteq net'.attached
  /\ net.routes \subseteq net'.routes /\ net'.host = net.host /\ net'.vpcs = net.vpcs
  /\ <<Api.subnet, Api.vpc>> \in net'.subnets => <<Api.subnet, Api.vpc>> \in net.subnets

\* A cloud that does not change is a case of one that grows.
LEMMA NothingGrows == Base /\ UNCHANGED net => Grows /\ CloudOK'
BY DEF Base, TypeOK, Grows, CloudOK

\* waitForState goes on to the subnet or to the host, or the VPC is deleted again.
LEMMA WaitForVpcBase == ASSUME Base, WaitForVpc PROVE Base'
<1>1. pc = "wait" /\ UNCHANGED <<hist, net>> /\ pc \in AfterAnnotateVpc /\ HistoryOK' /\ Api' = Api
  BY Unwritten DEF WaitForVpc, AfterAnnotateVpc, Base, HistoryOK
<1>2. net' \in Networks /\ CloudOK'
  BY <1>1, NothingGrows DEF Grows
<1>3. CASE Goto(AfterVpc) /\ UNCHANGED happened
  <2>1. /\ pc' \in {"createSubnet", "create"} /\ (pc' = "createSubnet" => mobj.subnet = None)
        /\ UNCHANGED <<mobj, own, todo>>
    BY <1>3 DEF Goto, AfterVpc
  <2>2. WorkerOK'
    BY <1>1, <2>1 DEF Base, WorkerOK, AfterAnnotateVpc, AfterSubnet, AfterAttach, Cleaning
  <2>. QED  BY <1>1, <1>2, <1>3, <2>1, <2>2, GoOnBase DEF Counting, PcStates, Base, TypeOK, OwnIds
<1>4. ASSUME Rollback(DeleteAwsVpc(own.vpc)), Counting PROVE Base'
  BY <1>1, <1>2, <1>4, UndoVpcCalls, RollbackBase
<1>. QED  BY <1>3, <1>4, Disturbed DEF WaitForVpc

\* getVPC takes the annotated VPC for its own, or the reconcile ends.
LEMMA GetVPCBase == ASSUME Base, GetVPC PROVE Base'
<1>1. pc = "getVpc" /\ UNCHANGED hist /\ mobj.vpc \in Ids /\ Api.vpc \in Ids /\ HistoryOK' /\ Api' = Api
  BY Unwritten DEF GetVPC, Base, HistoryOK, WorkerOK
<1>2. UNCHANGED net => net' \in Networks /\ CloudOK'
  BY NothingGrows DEF Grows
<1>3. CASE UNCHANGED <<net, happened>> /\ Holding([own EXCEPT !.vpc = mobj.vpc], AfterVpc)
  <2>1. /\ pc' \in {"createSubnet", "create"} /\ (pc' = "createSubnet" => mobj.subnet = None)
        /\ own' \in OwnIds /\ own'.vpc = mobj.vpc /\ UNCHANGED <<mobj, todo>>
    BY <1>1, <1>3 DEF Holding, AfterVpc, Base, TypeOK, OwnIds
  <2>2. WorkerOK'
    BY <1>1, <2>1 DEF WorkerOK, AfterAnnotateVpc, AfterSubnet, AfterAttach, Cleaning
  <2>. QED  BY <1>1, <1>2, <1>3, <2>1, <2>2, GoOnBase DEF Counting, PcStates
<1>4. ASSUME UNCHANGED net, Return, Counting PROVE Base'
  BY <1>1, <1>2, <1>4, ReturnBase
<1>. QED  BY <1>3, <1>4, Disturbed DEF GetVPC, Ask

\* What the four calls of createAwsSubnet and createAwsInternetGateway do to the cloud.
LEMMA SubnetGrows ==
  ASSUME Base, pc = "createSubnet", Room, own.vpc \in net.vpcs, \A s \in net.subnets : s[2] # own.vpc,
         net' = [net EXCEPT !.subnets = @ \cup {<<NewId, own.vpc>>}]
  PROVE  Grows /\ CloudOK' /\ <<NewId, own.vpc>> \in net'.subnets /\ NewId # net'.host
<1>1. <<NewId, own.vpc>> \in Ids \X Ids
  BY FreshId DEF Base, TypeOK, Networks
<1>2. net.subnets \cup {<<NewId, own.vpc>>} \in SUBSET (Ids \X Ids)
  BY <1>1 DEF Base, TypeOK, Networks
<1>3. /\ net' \in Networks /\ net'.subnets = net.subnets \cup {<<NewId, own.vpc>>}
      /\ net'.attached = net.attached /\ net'.routes = net.routes /\ net'.host = net.host
      /\ net'.vpcs = net.vpcs /\ net'.groups = net.groups
  BY <1>2 DEF Base, TypeOK, Networks
<1>4. Api.subnet # NewId
  BY FreshId, CopiesTyped DEF Base
<1>5. CloudOK'
  BY <1>3 DEF Base, CloudOK
<1>6. NewId # net.host
  BY FreshId, NoneIsNoId DEF Base, CloudOK
<1>. QED  BY <1>3, <1>4, <1>5, <1>6 DEF Grows

\* CreateInternetGateway adds a gateway that is attached to nothing.
LEMMA GatewayGrows ==
  ASSUME Base, Room, net' = [net EXCEPT !.gateways = @ \cup {NewId}]
  PROVE  Grows /\ CloudOK'
<1>1. /\ net' \in Networks /\ net'.subnets = net.subnets
      /\ net'.attached = net.attached /\ net'.routes = net.routes /\ net'.host = net.host
      /\ net'.vpcs = net.vpcs /\ net'.groups = net.groups
  BY FreshId DEF Base, TypeOK, Networks
<1>. QED  BY <1>1 DEF Base, CloudOK, Grows

\* AttachInternetGateway adds the pair of the gateway and the VPC.
LEMMA AttachedGrows ==
  ASSUME Base, pc = "attach", own.vpc \in net.vpcs,
         net' = [net EXCEPT !.attached = @ \cup {<<own.gateway, own.vpc>>}]
  PROVE  Grows /\ CloudOK' /\ <<own.gateway, own.vpc>> \in net'.attached
<1>1. <<own.gateway, own.vpc>> \in Ids \X Ids
  BY DEF Base, TypeOK, Networks, WorkerOK
<1>2. net.attached \cup {<<own.gateway, own.vpc>>} \in SUBSET (Ids \X Ids)
  BY <1>1 DEF Base, TypeOK, Networks
<1>3. /\ net' \in Networks /\ net'.subnets = net.subnets
      /\ net'.attached = net.attached \cup {<<own.gateway, own.vpc>>}
      /\ net'.routes = net.routes /\ net'.host = net.host
      /\ net'.vpcs = net.vpcs /\ net'.groups = net.groups
  BY <1>2 DEF Base, TypeOK, Networks
<1>4. CloudOK'
  BY <1>3 DEF Base, CloudOK
<1>. QED  BY <1>3, <1>4 DEF Grows

\* CreateRoute adds the VPC to those with a default route.
LEMMA RouteGrows ==
  ASSUME Base, own.vpc \in net.vpcs, net' = [net EXCEPT !.routes = @ \cup {own.vpc}]
  PROVE  Grows /\ CloudOK' /\ own.vpc \in net'.routes
<1>1. /\ net' \in Networks /\ net'.subnets = net.subnets
      /\ net'.attached = net.attached /\ net'.routes = net.routes \cup {own.vpc}
      /\ net'.host = net.host /\ net'.vpcs = net.vpcs /\ net'.groups = net.groups
  BY DEF Base, TypeOK, Networks
<1>. QED  BY <1>1 DEF Base, CloudOK, Grows

\* A call of createAwsSubnet or createAwsInternetGateway is done, and the worker goes
\* on; or it is not, or is without an answer, and what was made is undone.
CallDone(from, to) ==
  /\ pc = from /\ pc' = to
  /\ UNCHANGED <<hist, mobj, todo, happened>>
  /\ Grows /\ CloudOK'
  /\ own' \in OwnIds /\ own'.vpc = own.vpc
CallUndone(from, calls) ==
  /\ pc = from /\ UNCHANGED hist /\ Grows /\ CloudOK' /\ Counting /\ Rollback(calls)

\* The subnet is made in a VPC without one, or all is undone.
LEMMA CreateSubnetCases ==
  ASSUME Base, CreateSubnet
  PROVE  \/ /\ CallDone("createSubnet", "createGateway")
            /\ \A s \in net.subnets : s[2] # own.vpc
            /\ <<own'.subnet, own'.vpc>> \in net'.subnets /\ own'.subnet # net'.host
         \/ CallUndone("createSubnet", DeleteAwsVpc(own.vpc))
<1>. DEFINE new == [net EXCEPT !.subnets = @ \cup {<<NewId, own.vpc>>}]
            possible == Room /\ own.vpc \in net.vpcs /\ \A s \in net.subnets : s[2] # own.vpc
<1>1. pc = "createSubnet" /\ UNCHANGED hist
  BY DEF CreateSubnet
<1>2. possible /\ net' = new => Grows /\ CloudOK' /\ <<NewId, own.vpc>> \in net'.subnets /\ NewId # net'.host
  BY <1>1, SubnetGrows
<1>3. CASE possible /\ net' = new /\ Holding([own EXCEPT !.subnet = NewId], "createGateway") /\ UNCHANGED happened
  <2>1. /\ pc' = "createGateway" /\ UNCHANGED <<mobj, todo>> /\ own' \in OwnIds
        /\ own'.subnet = NewId /\ own'.vpc = own.vpc
    BY <1>3, FreshId DEF Holding, Base, TypeOK, OwnIds
  <2>. QED  BY <1>1, <1>2, <1>3, <2>1 DEF CallDone
<1>4. ASSUME net' = net \/ (possible /\ net' = new), Rollback(DeleteAwsVpc(own.vpc)), Counting
      PROVE  CallUndone("createSubnet", DeleteAwsVpc(own.vpc))
  <2>. HIDE DEF possible, new
  <2>. QED  BY <1>1, <1>2, <1>4, NothingGrows DEF CallUndone
<1>. QED  BY <1>3, <1>4, Disturbed DEF CreateSubnet, Ask

\* The gateway is made, or the subnet and the VPC are undone.
LEMMA CreateGatewayCases ==
  ASSUME Base, CreateGateway
  PROVE  \/ /\ CallDone("createGateway", "attach")
            /\ own'.subnet = own.subnet /\ own'.gateway \in Ids
         \/ CallUndone("createGateway", UndoSubnet)
<1>. DEFINE new == [net EXCEPT !.gateways = @ \cup {NewId}]
<1>1. pc = "createGateway" /\ UNCHANGED hist
  BY DEF CreateGateway
<1>2. Room /\ net' = new => Grows /\ CloudOK'
  BY GatewayGrows
<1>3. CASE Room /\ net' = new /\ Holding([own EXCEPT !.gateway = NewId], "attach") /\ UNCHANGED happened
  <2>1. /\ pc' = "attach" /\ UNCHANGED <<mobj, todo>> /\ own' \in OwnIds
        /\ own'.subnet = own.subnet /\ own'.vpc = own.vpc /\ own'.gateway \in Ids
    BY <1>3, FreshId DEF Holding, Base, TypeOK, OwnIds
  <2>. QED  BY <1>1, <1>2, <1>3, <2>1 DEF CallDone
<1>4. ASSUME net' = net \/ (Room /\ net' = new), Rollback(UndoSubnet), Counting
      PROVE  CallUndone("createGateway", UndoSubnet)
  <2>. HIDE DEF new
  <2>. QED  BY <1>1, <1>2, <1>4, NothingGrows DEF CallUndone
<1>. QED  BY <1>3, <1>4, Disturbed DEF CreateGateway, Ask

\* The gateway is attached, or it is undone with the rest.
LEMMA AttachGatewayCases ==
  ASSUME Base, AttachGateway
  PROVE  \/ /\ CallDone("attach", "route") /\ own' = own
            /\ <<own.gateway, own.vpc>> \in net'.attached
         \/ CallUndone("attach", UndoGateway)
<1>. DEFINE new == [net EXCEPT !.attached = @ \cup {<<own.gateway, own.vpc>>}]
            possible == own.vpc \in net.vpcs /\ \A a \in net.attached : a[2] # own.vpc
<1>1. pc = "attach" /\ UNCHANGED hist
  BY DEF AttachGateway
<1>2. possible /\ net' = new => Grows /\ CloudOK' /\ <<own.gateway, own.vpc>> \in net'.attached
  BY <1>1, AttachedGrows
<1>3. CASE possible /\ net' = new /\ Goto("route") /\ UNCHANGED happened
  <2>1. pc' = "route" /\ UNCHANGED <<mobj, own, todo>> /\ own' \in OwnIds
    BY <1>3 DEF Goto, Base, TypeOK, OwnIds
  <2>. QED  BY <1>1, <1>2, <1>3, <2>1 DEF CallDone
<1>4. ASSUME net' = net \/ (possible /\ net' = new), Rollback(UndoGateway), Counting
      PROVE  CallUndone("attach", UndoGateway)
  <2>. HIDE DEF possible, new
  <2>. QED  BY <1>1, <1>2, <1>4, NothingGrows DEF CallUndone
<1>. QED  BY <1>3, <1>4, Disturbed DEF AttachGateway, Ask

\* The route is made, or the gateway is undone with the rest.
LEMMA CreateRouteCases ==
  ASSUME Base, CreateRoute
  PROVE  \/ CallDone("route", "annotateGateway") /\ own' = own /\ own.vpc \in net'.routes
         \/ CallUndone("route", UndoGateway)
<1>. DEFINE new == [net EXCEPT !.routes = @ \cup {own.vpc}]
            possible == own.vpc \in net.vpcs \ net.routes
<1>1. pc = "route" /\ UNCHANGED hist
  BY DEF CreateRoute
<1>2. possible /\ net' = new => Grows /\ CloudOK' /\ own.vpc \in net'.routes
  BY RouteGrows
<1>3. CASE possible /\ net' = new /\ Goto("annotateGateway") /\ UNCHANGED happened
  <2>1. pc' = "annotateGateway" /\ UNCHANGED <<mobj, own, todo>> /\ own' \in OwnIds
    BY <1>3 DEF Goto, Base, TypeOK, OwnIds
  <2>. QED  BY <1>1, <1>2, <1>3, <2>1 DEF CallDone
<1>4. ASSUME net' = net \/ (possible /\ net' = new), Rollback(UndoGateway), Counting
      PROVE  CallUndone("route", UndoGateway)
  <2>. HIDE DEF possible, new
  <2>. QED  BY <1>1, <1>2, <1>4, NothingGrows DEF CallUndone
<1>. QED  BY <1>3, <1>4, Disturbed DEF CreateRoute, Ask

\* The four calls keep what holds always.
LEMMA BuildBase ==
  ASSUME Base, CreateSubnet \/ CreateGateway \/ AttachGateway \/ CreateRoute
  PROVE  Base'
<1>. USE DEF AfterAnnotateVpc, AfterSubnet, AfterAttach
<1>0. UNCHANGED hist => Api' = Api
  BY Unwritten DEF Base
<1>1. ASSUME NEW from, NEW to \in PcStates \ {"undo", "cleanup"}, from \notin {"undo", "cleanup"},
             CallDone(from, to), WorkerOK'
      PROVE  Base'
  BY <1>1, GoOnBase DEF CallDone, Grows, Counting
<1>2. ASSUME NEW from, NEW calls, CallUndone(from, calls), Deletion(calls)
      PROVE  Base'
  <2>1. HistoryOK'
    BY <1>2, Unwritten DEF CallUndone, Base, HistoryOK
  <2>. QED  BY <1>2, <2>1, RollbackBase DEF CallUndone, Grows
<1>3. CASE CreateSubnet
  <2>1. CASE /\ CallDone("createSubnet", "createGateway")
             /\ <<own'.subnet, own'.vpc>> \in net'.subnets /\ own'.subnet # net'.host
    <3>1. WorkerOK'
      BY <1>0, <2>1 DEF Base, WorkerOK, CallDone, Cleaning
    <3>. QED  BY <1>1, <2>1, <3>1 DEF PcStates
  <2>2. CASE CallUndone("createSubnet", DeleteAwsVpc(own.vpc))
    BY <1>2, <2>2, UndoVpcCalls DEF CallUndone
  <2>. QED  BY <1>3, <2>1, <2>2, CreateSubnetCases
<1>4. CASE CreateGateway
  <2>1. CASE /\ CallDone("createGateway", "attach")
             /\ own'.subnet = own.subnet /\ own'.gateway \in Ids
    <3>1. WorkerOK'
      BY <1>0, <2>1 DEF Base, WorkerOK, CallDone, Cleaning, Grows
    <3>. QED  BY <1>1, <2>1, <3>1 DEF PcStates
  <2>2. CASE CallUndone("createGateway", UndoSubnet)
    BY <1>2, <2>2, UndoSubnetCalls DEF CallUndone
  <2>. QED  BY <1>4, <2>1, <2>2, CreateGatewayCases
<1>5. own.gateway \in Ids \/ pc \notin {"attach", "route"}
  BY DEF Base, TypeOK, Networks, WorkerOK
<1>6. CASE AttachGateway
  <2>1. CASE CallDone("attach", "route") /\ own' = own /\ <<own.gateway, own.vpc>> \in net'.attached
    <3>1. WorkerOK'
      BY <1>0, <2>1 DEF Base, WorkerOK, CallDone, Cleaning, Grows
    <3>. QED  BY <1>1, <2>1, <3>1 DEF PcStates
  <2>2. CASE CallUndone("attach", UndoGateway)
    BY <1>2, <1>5, <2>2, UndoGatewayCalls DEF CallUndone
  <2>. QED  BY <1>6, <2>1, <2>2, AttachGatewayCases
<1>7. CASE CreateRoute
  <2>1. CASE CallDone("route", "annotateGateway") /\ own' = own /\ own.vpc \in net'.routes
    <3>1. WorkerOK'
      BY <1>0, <2>1 DEF Base, WorkerOK, CallDone, Cleaning, Grows
    <3>. QED  BY <1>1, <2>1, <3>1 DEF PcStates
  <2>2. CASE CallUndone("route", UndoGateway)
    BY <1>2, <1>5, <2>2, UndoGatewayCalls DEF CallUndone
  <2>. QED  BY <1>7, <2>1, <2>2, CreateRouteCases
<1>. QED  BY <1>3, <1>4, <1>6, <1>7

\* The second and the third annotation: stored or not, with the rollback if the
\* answer is an error.
LEMMA AnnotateGatewayBase == ASSUME Base, AnnotateGateway PROVE Base'
<1>. DEFINE new == [Api EXCEPT !.gateway = own.gateway]
<1>1. pc = "annotateGateway" /\ pc \in AfterSubnet /\ own.gateway \in Ids
  BY DEF AnnotateGateway, Base, TypeOK, Networks, WorkerOK, AfterSubnet, AfterAttach
<1>2. new \in Versions /\ new.del = Api.del /\ new.vpc = Api.vpc /\ new.subnet = Api.subnet
  BY <1>1, CopiesTyped DEF Base, Versions
<1>3. UNCHANGED net /\ net' \in Networks /\ CloudOK'
  BY NothingGrows DEF AnnotateGateway, PatchAnnotation, Grows
<1>. HIDE DEF new
<1>4. Emit(new) \/ UNCHANGED hist => HistoryOK'
  BY <1>2, Emitted, Unwritten DEF Base, HistoryOK
<1>5. CASE Emit(new) /\ mobj' = new /\ pc' = "annotateSubnet" /\ UNCHANGED <<own, todo, happened>>
  <2>1. TypeOK'
    BY <1>1, <1>2, <1>3, <1>4, <1>5 DEF Base, TypeOK, HistoryOK, PcStates
  <2>2. TodoOK'
    BY <1>5 DEF Base, TodoOK
  <2>3. WorkerOK'
    <3>1. new.vpc \in Ids
      BY <1>1, <1>2 DEF Base, WorkerOK, AfterAnnotateVpc
    <3>2. Api' = new
      BY <1>2, <1>5, Emitted DEF Base
    <3>. QED  BY <1>1, <1>3, <1>5, <3>1, <3>2 DEF Base, WorkerOK, AfterAnnotateVpc, AfterSubnet, AfterAttach, Cleaning
  <2>. QED  BY <1>3, <1>4, <1>5, <2>1, <2>2, <2>3 DEF Base, HistoryOK
<1>6. CASE Happens("patch") /\ Rollback(UndoSubnet) /\ (Emit(new) \/ UNCHANGED hist)
  BY <1>1, <1>3, <1>4, <1>6, UndoSubnetCalls, RollbackBase, Disturbed
<1>. QED  BY <1>5, <1>6 DEF AnnotateGateway, PatchAnnotation, new

\* The subnet annotation keeps what holds always.
LEMMA AnnotateSubnetBase == ASSUME Base, AnnotateSubnet PROVE Base'
<1>. DEFINE new == [Api EXCEPT !.subnet = own.subnet]
<1>1. pc = "annotateSubnet" /\ pc \in AfterAnnotateVpc /\ own.subnet \in Ids
  BY DEF AnnotateSubnet, Base, TypeOK, Networks, WorkerOK, AfterSubnet, AfterAnnotateVpc
<1>2. new \in Versions /\ new.del = Api.del /\ new.vpc = Api.vpc
  BY <1>1, CopiesTyped DEF Base, Versions
<1>3. UNCHANGED net /\ net' \in Networks /\ CloudOK'
  BY NothingGrows DEF AnnotateSubnet, PatchAnnotation, Grows
<1>. HIDE DEF new
<1>4. Emit(new) \/ UNCHANGED hist => HistoryOK'
  BY <1>2, Emitted, Unwritten DEF Base, HistoryOK
<1>5. CASE Emit(new) /\ mobj' = new /\ pc' = "create" /\ UNCHANGED <<own, todo, happened>>
  <2>1. TypeOK'
    BY <1>1, <1>2, <1>3, <1>4, <1>5 DEF Base, TypeOK, HistoryOK, PcStates
  <2>2. WorkerOK'
    BY <1>5 DEF WorkerOK, AfterAnnotateVpc, AfterSubnet, AfterAttach, Cleaning
  <2>3. TodoOK'
    BY <1>5 DEF Base, TodoOK
  <2>. QED  BY <1>3, <1>4, <1>5, <2>1, <2>2, <2>3 DEF Base, HistoryOK
<1>6. CASE Happens("patch") /\ Rollback(DeleteAwsVpc(own.vpc)) /\ (Emit(new) \/ UNCHANGED hist)
  BY <1>1, <1>3, <1>4, <1>6, UndoVpcCalls, RollbackBase, Disturbed
<1>. QED  BY <1>5, <1>6 DEF AnnotateSubnet, PatchAnnotation, new

\* The host is made in a subnet that is there, or is not made.
HostAppears ==
  /\ net' \in Networks /\ net'.subnets = net.subnets /\ net'.attached = net.attached
  /\ net'.routes = net.routes /\ net'.vpcs = net.vpcs /\ net.groups \subseteq net'.groups
  /\ \/ net'.host = net.host
     \/ net'.host = mobj.subnet /\ <<mobj.subnet, mobj.vpc>> \in net.subnets

\* docker-machine create changes the host and the security groups at most.
LEMMA CreateHostCases ==
  ASSUME Base, CreateHost
  PROVE  /\ pc = "create" /\ UNCHANGED hist /\ Counting /\ HostAppears /\ CloudOK'
         /\ Goto("commit") \/ Return
<1>. DEFINE grouped == [net EXCEPT !.groups = @ \cup {mobj.vpc}]
            hosted == [grouped EXCEPT !.host = mobj.subnet]
            possible == <<mobj.subnet, mobj.vpc>> \in net.subnets
<1>1. pc = "create" /\ UNCHANGED hist /\ Counting /\ (Goto("commit") \/ Return)
  BY Disturbed DEF CreateHost
<1>2. net' = net \/ (possible /\ net' = grouped) \/ (possible /\ net' = hosted)
  BY DEF CreateHost
<1>3. possible => mobj.subnet \in Ids /\ mobj.vpc \in net.vpcs /\ mobj.vpc \in Ids
  BY DEF Base, TypeOK, Networks, CloudOK
<1>4. CASE net' = net
  <2>1. UNCHANGED net
    BY <1>4
  <2>. QED  BY <1>1, <2>1, NothingGrows DEF HostAppears, Grows
<1>5. CASE possible /\ net' = grouped
  <2>1. /\ net' \in Networks /\ net'.subnets = net.subnets /\ net'.attached = net.attached
        /\ net'.routes = net.routes /\ net'.vpcs = net.vpcs /\ net'.groups = net.groups \cup {mobj.vpc}
        /\ net'.host = net.host
    BY <1>3, <1>5 DEF Base, TypeOK, Networks
  <2>. QED  BY <1>1, <1>3, <1>5, <2>1 DEF HostAppears, Base, CloudOK
<1>6. CASE possible /\ net' = hosted
  <2>1. /\ net' \in Networks /\ net'.subnets = net.subnets /\ net'.attached = net.attached
        /\ net'.routes = net.routes /\ net'.vpcs = net.vpcs /\ net'.groups = net.groups \cup {mobj.vpc}
        /\ net'.host = mobj.subnet
    BY <1>3, <1>6 DEF Base, TypeOK, Networks
  <2>2. \E s \in net.subnets : s[1] = mobj.subnet
    BY <1>6
  <2>. QED  BY <1>1, <1>3, <1>6, <2>1, <2>2 DEF HostAppears, Base, CloudOK
<1>. QED  BY <1>1, <1>2, <1>4, <1>5, <1>6

\* docker-machine create keeps what holds always.
LEMMA CreateHostBase == ASSUME Base, CreateHost PROVE Base'
<1>1. /\ pc = "create" /\ UNCHANGED hist /\ Counting /\ net' \in Networks /\ CloudOK'
      /\ Goto("commit") \/ Return
  BY CreateHostCases DEF HostAppears
<1>2. HistoryOK'
  BY <1>1, Unwritten DEF Base, HistoryOK
<1>3. CASE Goto("commit")
  <2>1. pc' = "commit" /\ UNCHANGED <<mobj, own, todo>>
    BY <1>3 DEF Goto
  <2>2. WorkerOK'
    BY <2>1 DEF WorkerOK, AfterAnnotateVpc, AfterSubnet, AfterAttach, Cleaning
  <2>. QED  BY <1>1, <2>1, <2>2, GoOnBase DEF PcStates, Base, TypeOK, OwnIds
<1>. QED  BY <1>1, <1>2, <1>3, ReturnBase

\* So does the status update after it.
LEMMA CommitCreatedBase == ASSUME Base, CommitCreated PROVE Base'
<1>. DEFINE new == [Api EXCEPT !.done = TRUE]
<1>1. new \in Versions /\ new.del = Api.del /\ new.vpc = Api.vpc
  BY CopiesTyped DEF Base, Versions
<1>2. (Emit(new) \/ UNCHANGED hist) /\ Counting /\ Return /\ UNCHANGED net
  BY Disturbed DEF CommitCreated
<1>. HIDE DEF new
<1>3. HistoryOK'
  BY <1>1, <1>2, Emitted, Unwritten DEF Base, HistoryOK
<1>. QED  BY <1>2, <1>3, NothingGrows, ReturnBase DEF Grows

\* The host goes, or it stays.
HostGoes ==
  /\ net' \in Networks /\ net'.subnets = net.subnets /\ net'.attached = net.attached
  /\ net'.routes = net.routes /\ net'.vpcs = net.vpcs /\ net'.groups = net.groups
  /\ net'.host \in {net.host, None}

\* docker-machine rm changes the host at most.
LEMMA HostLeaves ==
  ASSUME Base, UNCHANGED net \/ net' = [net EXCEPT !.host = None]
  PROVE  HostGoes /\ CloudOK' /\ (net' = [net EXCEPT !.host = None] => net'.host = None)
<1>1. HostGoes /\ (net' = [net EXCEPT !.host = None] => net'.host = None)
  BY DEF Base, TypeOK, Networks, HostGoes
<1>. QED  BY <1>1 DEF HostGoes, Base, CloudOK

\* It leaves the cleanup with the calls for the VPC of machineObj, or with none if
\* there is no VPC.
LEMMA DeleteDockerMachineBase == ASSUME Base, DeleteDockerMachine PROVE Base'
<1>1. pc = "rm" /\ UNCHANGED hist /\ Cached.del /\ HistoryOK' /\ Cached' = Cached
  BY Unwritten DEF DeleteDockerMachine, Base, HistoryOK, WorkerOK, Cleaning
<1>2. CASE Counting /\ Return /\ (UNCHANGED net \/ net' = [net EXCEPT !.host = None])
  BY <1>1, <1>2, HostLeaves, ReturnBase DEF HostGoes
<1>3. CASE /\ net' = [net EXCEPT !.host = None] /\ todo' = DeleteAwsVpc(mobj.vpc)
           /\ pc' = IF todo' = <<>> THEN "unfinalize" ELSE "cleanup"
           /\ UNCHANGED <<mobj, own, happened>>
  <2>1. net' \in Networks /\ CloudOK' /\ net'.host = None /\ net'.vpcs = net.vpcs
    BY <1>3, HostLeaves DEF HostGoes
  <2>2. \/ todo' = <<>> /\ mobj.vpc = None
        \/ Deletion(todo') /\ OfVpc(todo', mobj.vpc)
    <3>1. CASE mobj.vpc = None
      BY <1>3, <3>1 DEF DeleteAwsVpc
    <3>2. CASE mobj.vpc # None
      <4>1. mobj.vpc \in Ids
        BY <3>2 DEF Base, TypeOK, Versions
      <4>2. PICK front : /\ InOneVpc(front, mobj.vpc)
                         /\ DeleteAwsVpc(mobj.vpc) = front \o <<Call("groups", mobj.vpc, mobj.vpc), Call("vpc", mobj.vpc, mobj.vpc)>>
        BY <4>1, VpcCalls DEF Base
      <4>. QED  BY <1>3, <4>1, <4>2, CallsWithVpc
    <3>. QED  BY <3>1, <3>2
  <2>3. TypeOK'
    <3>1. todo' \in Seq(Calls) /\ (todo' # <<>> <=> pc' = "cleanup") /\ pc' \in {"unfinalize", "cleanup"}
      <4>1. CASE todo' = <<>>
        BY <1>3, <4>1
      <4>2. CASE todo' # <<>> /\ Deletion(todo')
        BY <1>3, <4>2 DEF Deletion
      <4>. QED  BY <2>2, <4>1, <4>2 DEF Deletion
    <3>. QED  BY <1>1, <1>3, <2>1, <3>1 DEF Base, TypeOK, HistoryOK, PcStates
  <2>4. WorkerOK'
    <3>1. pc' \in {"unfinalize", "cleanup"} /\ (pc' = "unfinalize" => mobj'.vpc \notin net'.vpcs)
      BY <1>3, <2>1, <2>2, NoneIsNoId DEF Deletion, Base, TypeOK, Networks
    <3>. QED  BY <1>1, <2>1, <3>1 DEF WorkerOK, AfterAnnotateVpc, AfterSubnet, AfterAttach, Cleaning
  <2>5. TodoOK'
    BY <1>3, <2>2 DEF TodoOK, EndsWithVpc, Deletion, OfVpc
  <2>. QED  BY <1>1, <2>1, <2>3, <2>4, <2>5 DEF Base, HistoryOK
<1>. QED  BY <1>2, <1>3, Disturbed DEF DeleteDockerMachine

\* What a deletion that EC2 carries out does to the cloud.
Removes(c) ==
  /\ net' \in Networks /\ net'.host = net.host
  /\ net'.subnets = IF c.call = "subnet" THEN {s \in net.subnets : s[1] # c.id} ELSE net.subnets
  /\ net'.attached = IF c.call = "detach" THEN net.attached \ {<<c.id, c.vpc>>} ELSE net.attached
  /\ net'.routes = IF c.call \in {"route", "vpc"} THEN net.routes \ {c.id} ELSE net.routes
  /\ net'.vpcs = IF c.call = "vpc" THEN net.vpcs \ {c.id} ELSE net.vpcs
  /\ net'.groups = IF c.call = "groups" THEN net.groups \ {c.id} ELSE net.groups
  /\ c.call = "subnet" => c.id # net.host
  /\ c.call = "vpc" => c.id \notin net.groups /\ \A x \in net.subnets \cup net.attached : x[2] # c.id

\* A deletion takes away what it names, and nothing that something else depends on.
LEMMA CallRemoves ==
  ASSUME Base, NEW c \in Calls, Possible(c) \/ (c.call = "vpc" /\ c.id \notin net.vpcs), net' = Without(c)
  PROVE  Removes(c) /\ CloudOK'
<1>. USE DEF Base, TypeOK, Networks
<1>1. c.call \in {"route", "detach", "gateway", "subnet", "groups", "vpc"}
  BY DEF Calls
<1>2. CASE c.call = "route"
  <2>1. net' = [net EXCEPT !.routes = @ \ {c.id}]
    BY <1>2 DEF Without
  <2>2. Removes(c)
    BY <1>2, <2>1 DEF Removes
  <2>. QED  BY <1>2, <2>2 DEF Removes, CloudOK
<1>3. CASE c.call = "detach"
  <2>1. net' = [net EXCEPT !.attached = @ \ {<<c.id, c.vpc>>}]
    BY <1>3 DEF Without
  <2>2. net.attached \ {<<c.id, c.vpc>>} \in SUBSET (Ids \X Ids)
    OBVIOUS
  <2>3. /\ net' \in Networks /\ net'.attached = net.attached \ {<<c.id, c.vpc>>}
        /\ net'.subnets = net.subnets /\ net'.routes = net.routes /\ net'.vpcs = net.vpcs
        /\ net'.groups = net.groups /\ net'.host = net.host
    BY <2>1, <2>2
  <2>4. Removes(c)
    BY <1>3, <2>3 DEF Removes
  <2>5. net'.attached \subseteq net.attached
    BY <2>3
  <2>6. CloudOK'
    BY <2>3, <2>5 DEF CloudOK
  <2>. QED  BY <2>4, <2>6
<1>4. CASE c.call = "gateway"
  <2>1. net' = [net EXCEPT !.gateways = @ \ {c.id}]
    BY <1>4 DEF Without
  <2>2. Removes(c)
    BY <1>4, <2>1 DEF Removes
  <2>. QED  BY <1>4, <2>2 DEF Removes, CloudOK
<1>5. CASE c.call = "subnet"
  <2>1. net' = [net EXCEPT !.subnets = {s \in @ : s[1] # c.id}] /\ c.id # net.host
    BY <1>5 DEF Without, Possible
  <2>2. {s \in net.subnets : s[1] # c.id} \in SUBSET (Ids \X Ids)
    OBVIOUS
  <2>3. /\ net' \in Networks /\ net'.subnets = {s \in net.subnets : s[1] # c.id}
        /\ net'.attached = net.attached /\ net'.routes = net.routes /\ net'.vpcs = net.vpcs
        /\ net'.groups = net.groups /\ net'.host = net.host
    BY <2>1, <2>2
  <2>4. Removes(c)
    BY <1>5, <2>1, <2>3 DEF Removes
  <2>5. net'.host # None => \E s \in net'.subnets : s[1] = net'.host
    BY <2>1, <2>3 DEF CloudOK
  <2>6. CloudOK'
    BY <2>3, <2>5 DEF CloudOK
  <2>. QED  BY <2>4, <2>6
<1>6. CASE c.call = "groups"
  <2>1. net' = [net EXCEPT !.groups = @ \ {c.id}]
    BY <1>6 DEF Without
  <2>2. Removes(c)
    BY <1>6, <2>1 DEF Removes
  <2>. QED  BY <1>6, <2>2 DEF Removes, CloudOK
<1>7. CASE c.call = "vpc"
  <2>1. net' = [net EXCEPT !.vpcs = @ \ {c.id}, !.available = @ \ {c.id}, !.routes = @ \ {c.id}]
    BY <1>7 DEF Without
  <2>2. c.id \notin net.groups /\ \A x \in net.subnets \cup net.attached : x[2] # c.id
    BY <1>7 DEF Possible, CloudOK
  <2>3. /\ net' \in Networks /\ net'.vpcs = net.vpcs \ {c.id} /\ net'.routes = net.routes \ {c.id}
        /\ net'.subnets = net.subnets /\ net'.attached = net.attached
        /\ net'.groups = net.groups /\ net'.host = net.host
    <3>. DEFINE a == net.vpcs \ {c.id}
                b == net.available \ {c.id}
                r == net.routes \ {c.id}
    <3>1. a \in SUBSET Ids /\ b \in SUBSET Ids /\ r \in SUBSET Ids
      OBVIOUS
    <3>2. net' = [net EXCEPT !.vpcs = a, !.available = b, !.routes = r]
      BY <2>1
    <3>. HIDE DEF a, b, r
    <3>3. /\ net'.vpcs = a /\ net'.routes = r /\ net'.subnets = net.subnets
          /\ net'.attached = net.attached /\ net'.groups = net.groups /\ net'.host = net.host
      BY <3>2
    <3>4. net' \in Networks
      BY <3>1, <3>2
    <3>. QED  BY <3>3, <3>4 DEF a, r
  <2>4. Removes(c)
    BY <1>7, <2>2, <2>3 DEF Removes
  <2>. QED  BY <1>7, <2>2, <2>3, <2>4 DEF CloudOK
<1>. QED  BY <1>1, <1>2, <1>3, <1>4, <1>5, <1>6, <1>7

\* The next call, and the ones after it.
LEMMA NextCall ==
  ASSUME TypeOK, pc \in {"undo", "cleanup"}
  PROVE  /\ Head(todo) \in Calls /\ 1 \in 1..Len(todo) /\ Head(todo) = todo[1]
         /\ Tail(todo) \in Seq(Calls)
         /\ \A k \in 1..Len(Tail(todo)) : Tail(todo)[k] = todo[k + 1] /\ k + 1 \in 1..Len(todo)
         /\ EndsWithVpc(todo) /\ Head(todo).call # "vpc" => Tail(todo) # <<>>
         /\ EndsWithVpc(todo) => EndsWithVpc(Tail(todo))
<1>1. todo \in Seq(Calls) /\ todo # <<>> /\ Len(todo) \in Nat /\ Len(todo) >= 1
  BY DEF TypeOK
<1>2. /\ Head(todo) = todo[1] /\ Head(todo) \in Calls /\ 1 \in 1..Len(todo)
      /\ Tail(todo) \in Seq(Calls) /\ Len(Tail(todo)) = Len(todo) - 1
      /\ \A k \in 1..Len(Tail(todo)) : Tail(todo)[k] = todo[k + 1] /\ k + 1 \in 1..Len(todo)
  BY <1>1
<1>3. Tail(todo) = <<>> => Len(todo) = 1
  <2>1. PICK t : t = Tail(todo)
    OBVIOUS
  <2>2. t = <<>> => Len(t) = 0
    OBVIOUS
  <2>3. Len(t) = Len(todo) - 1
    BY <1>2, <2>1
  <2>4. Len(t) = 0 => Len(todo) = 1
    BY <1>1, <2>3
  <2>. QED  BY <2>1, <2>2, <2>4
<1>4. Tail(todo) # <<>> => Tail(todo)[Len(Tail(todo))] = todo[Len(todo)]
  BY <1>1, <1>2
<1>. QED  BY <1>1, <1>2, <1>3, <1>4 DEF EndsWithVpc

\* A call before the last is made or refused, and the next one follows.
LEMMA DeleteCallCases ==
  ASSUME Base, DeleteCall
  PROVE  /\ pc \in {"undo", "cleanup"} /\ UNCHANGED <<hist, mobj, own, pc>> /\ Counting
         /\ todo' = Tail(todo) /\ todo' # <<>> /\ Head(todo).call # "vpc"
         /\ UNCHANGED net \/ Removes(Head(todo))
         /\ net' \in Networks /\ CloudOK'
<1>1. /\ pc \in {"undo", "cleanup"} /\ UNCHANGED <<hist, mobj, own, pc>>
      /\ todo' = Tail(todo) /\ Head(todo).call # "vpc"
  BY DEF DeleteCall
<1>2. Head(todo) \in Calls /\ todo' # <<>>
  BY <1>1, NextCall DEF Base, TodoOK
<1>3. Counting /\ (UNCHANGED net \/ (Possible(Head(todo)) /\ net' = Without(Head(todo))))
  BY Disturbed DEF DeleteCall
<1>4. (UNCHANGED net \/ Removes(Head(todo))) /\ net' \in Networks /\ CloudOK'
  BY <1>2, <1>3, CallRemoves, NothingGrows DEF Grows, Removes
<1>. QED  BY <1>1, <1>2, <1>3, <1>4

\* It keeps what holds always.
LEMMA DeleteCallBase == ASSUME Base, DeleteCall PROVE Base'
<1>1. /\ pc \in {"undo", "cleanup"} /\ UNCHANGED <<hist, mobj, own, pc>> /\ Counting
      /\ todo' = Tail(todo) /\ todo' # <<>> /\ Head(todo).call # "vpc"
      /\ UNCHANGED net \/ Removes(Head(todo))
      /\ net' \in Networks /\ CloudOK'
  BY DeleteCallCases
<1>2. HistoryOK' /\ Cached' = Cached
  BY <1>1, Unwritten DEF Base, HistoryOK
<1>3. net'.host = net.host
  BY <1>1 DEF Removes
<1>4. TypeOK'
  BY <1>1, <1>2, Counted, NextCall DEF Base, TypeOK, HistoryOK
<1>5. WorkerOK'
  BY <1>1, <1>2, <1>3 DEF Base, WorkerOK, AfterAnnotateVpc, AfterSubnet, AfterAttach, Cleaning
<1>6. TodoOK'
  BY <1>1, NextCall DEF Base, TodoOK
<1>. QED  BY <1>1, <1>2, <1>4, <1>5, <1>6 DEF Base, HistoryOK

\* So does a cleanup or a rollback that ends early.
LEMMA DescribeGroupsFailsBase == ASSUME Base, DescribeGroupsFails PROVE Base'
<1>1. UNCHANGED <<hist, net>> /\ Counting /\ Return
  BY Disturbed DEF DescribeGroupsFails
<1>2. HistoryOK'
  BY <1>1, Unwritten DEF Base, HistoryOK
<1>. QED  BY <1>1, <1>2, NothingGrows, ReturnBase DEF Grows

\* The VPC of a cleanup is gone, or the reconcile ends.
LEMMA DeleteVpcCases ==
  ASSUME Base, DeleteVpc
  PROVE  /\ pc \in {"undo", "cleanup"} /\ UNCHANGED hist /\ Counting
         /\ UNCHANGED net \/ Removes(Head(todo))
         /\ net' \in Networks /\ CloudOK' /\ Head(todo).call = "vpc"
         /\ \/ Return
            \/ /\ pc = "cleanup" /\ pc' = "unfinalize" /\ todo' = <<>> /\ UNCHANGED <<mobj, own>>
               /\ mobj.vpc \notin net'.vpcs
<1>. DEFINE c == Head(todo)
<1>1. pc \in {"undo", "cleanup"} /\ UNCHANGED hist /\ c.call = "vpc"
  BY DEF DeleteVpc
<1>2. c \in Calls /\ (pc = "cleanup" => c.id = mobj.vpc)
  BY <1>1, NextCall DEF Base, TodoOK
<1>3. Counting /\ (UNCHANGED net \/ ((Possible(c) \/ c.id \notin net.vpcs) /\ net' = Without(c)))
  BY Disturbed DEF DeleteVpc, Ask
<1>4. \/ Return
      \/ /\ pc = "cleanup" /\ pc' = "unfinalize" /\ todo' = <<>> /\ UNCHANGED <<mobj, own>>
         /\ Possible(c) \/ c.id \notin net.vpcs
         /\ net' = Without(c)
  BY DEF DeleteVpc, Ask
<1>. HIDE DEF c
<1>5. (Possible(c) \/ c.id \notin net.vpcs) /\ net' = Without(c) => Removes(c) /\ CloudOK'
  BY <1>1, <1>2, CallRemoves
<1>6. Removes(c) => c.id \notin net'.vpcs
  BY <1>1 DEF Removes
<1>7. (UNCHANGED net \/ Removes(c)) /\ net' \in Networks /\ CloudOK'
  BY <1>3, <1>5, NothingGrows DEF Grows, Removes
<1>. QED  BY <1>1, <1>2, <1>3, <1>4, <1>5, <1>6, <1>7 DEF c

\* After the last call of a cleanup the VPC of machineObj is gone.
LEMMA DeleteVpcBase == ASSUME Base, DeleteVpc PROVE Base'
<1>1. pc \in {"undo", "cleanup"} /\ UNCHANGED hist /\ Counting /\ net' \in Networks /\ CloudOK'
  BY DeleteVpcCases
<1>2. HistoryOK' /\ Cached' = Cached
  BY <1>1, Unwritten DEF Base, HistoryOK
<1>3. CASE /\ pc = "cleanup" /\ pc' = "unfinalize" /\ todo' = <<>> /\ UNCHANGED <<mobj, own>>
           /\ mobj.vpc \notin net'.vpcs
  <2>1. TypeOK'
    BY <1>1, <1>2, <1>3, Counted DEF Base, TypeOK, HistoryOK, PcStates
  <2>2. net'.host = None
    BY <1>3, DeleteVpcCases DEF Removes, Base, WorkerOK
  <2>3. WorkerOK'
    BY <1>2, <1>3, <2>2 DEF Base, WorkerOK, AfterAnnotateVpc, AfterSubnet, AfterAttach, Cleaning
  <2>4. TodoOK'
    BY <1>3 DEF TodoOK, EndsWithVpc
  <2>. QED  BY <1>1, <1>2, <2>1, <2>3, <2>4 DEF Base, HistoryOK
<1>. QED  BY <1>1, <1>2, <1>3, DeleteVpcCases, ReturnBase

\* The removal of the finalizer keeps what holds always.
LEMMA RemoveFinalizerBase == ASSUME Base, RemoveFinalizer PROVE Base'
<1>1. pc = "unfinalize" /\ UNCHANGED <<hist, net>> /\ Counting
  BY Disturbed DEF RemoveFinalizer
<1>2. HistoryOK' /\ Cached' = Cached /\ net' \in Networks /\ CloudOK'
  BY <1>1, Unwritten, NothingGrows DEF Base, HistoryOK, Grows
<1>3. CASE pc' = "removed" /\ mobj' = Blank /\ UNCHANGED <<own, todo, happened>>
  <2>1. Blank \in Versions
    BY DEF Blank, Versions
  <2>2. TypeOK'
    BY <1>1, <1>2, <1>3, <2>1 DEF Base, TypeOK, HistoryOK, PcStates
  <2>3. WorkerOK'
    BY <1>1, <1>2, <1>3 DEF Base, WorkerOK, AfterAnnotateVpc, AfterSubnet, AfterAttach, Cleaning
  <2>4. TodoOK'
    BY <1>1, <1>3 DEF Base, TodoOK
  <2>. QED  BY <1>2, <2>2, <2>3, <2>4 DEF Base, HistoryOK
<1>. QED  BY <1>1, <1>2, <1>3, ReturnBase DEF RemoveFinalizer

\* The environment of the operator changes nothing that the worker has.
LEMMA EnvironmentBase ==
  ASSUME Base, UNCHANGED <<mobj, own, pc, todo, happened>>, HistoryOK', net' \in Networks, CloudOK',
         net'.subnets = net.subnets, net'.attached = net.attached, net'.routes = net.routes,
         net'.vpcs = net.vpcs, net'.host = net.host,
         Cached.del => Cached'.del, Same(Api', Api), \A c \in Copies' : \E d \in Copies : Same(c, d)
  PROVE  Base'
<1>1. TypeOK'
  BY DEF Base, TypeOK, HistoryOK
<1>2. WorkerOK'
  BY DEF Base, WorkerOK, Same
<1>3. TodoOK'
  BY DEF Base, TodoOK
<1>. QED  BY <1>1, <1>2, <1>3 DEF Base, HistoryOK

\* A deletion mark leaves the annotations as they are.
LEMMA Marked ==
  ASSUME Base, UserDelete
  PROVE  /\ HistoryOK' /\ Cached' = Cached /\ Same(Api', Api)
         /\ \A c \in Copies' : \E d \in Copies : Same(c, d)
<1>. DEFINE new == [Api EXCEPT !.del = TRUE]
<1>1. new \in Versions /\ new.del /\ Same(new, Api)
  BY CopiesTyped DEF Base, Versions, Same
<1>2. Emit(new)
  BY DEF UserDelete
<1>. HIDE DEF new
<1>3. HistoryOK' /\ Cached' = Cached /\ Api' = new /\ Copies' = Copies \cup {new}
  BY <1>1, <1>2, Emitted DEF Base, HistoryOK, Same
<1>. QED  BY <1>1, <1>3, CopiesTyped DEF Base, Same

\* So do the watch, the user, EC2 and a restart.
LEMMA OthersBase == ASSUME Base, Deliver \/ UserDelete \/ VpcAvailable \/ Crash PROVE Base'
<1>1. CASE Deliver
  <2>1. UNCHANGED <<mobj, own, pc, todo, net, happened>> /\ Len(hist) > 1 /\ hist' = Tail(hist)
    BY <1>1 DEF Deliver
  <2>2. HistoryOK' /\ Api' = Api /\ Copies' \subseteq Copies /\ (Cached.del => Cached'.del)
    BY <2>1, Delivered DEF Base, HistoryOK
  <2>. QED  BY <2>1, <2>2, NothingGrows, EnvironmentBase DEF Grows, Same
<1>2. CASE UserDelete
  <2>1. UNCHANGED <<mobj, own, pc, todo, net, happened>>
    BY <1>2 DEF UserDelete
  <2>. QED  BY <1>2, <2>1, Marked, NothingGrows, EnvironmentBase DEF Grows
<1>3. CASE VpcAvailable
  <2>1. PICK v \in net.vpcs \ net.available : net' = [net EXCEPT !.available = @ \cup {v}]
    BY <1>3 DEF VpcAvailable
  <2>2. /\ net' \in Networks /\ net'.subnets = net.subnets /\ net'.attached = net.attached
        /\ net'.routes = net.routes /\ net'.vpcs = net.vpcs /\ net'.groups = net.groups
        /\ net'.host = net.host
    BY <2>1 DEF Base, TypeOK, Networks
  <2>3. CloudOK'
    BY <2>2 DEF Base, CloudOK
  <2>4. UNCHANGED <<hist, mobj, own, pc, todo, happened>>
    BY <1>3 DEF VpcAvailable
  <2>5. HistoryOK' /\ Cached' = Cached /\ Api' = Api /\ Copies' = Copies
    BY <2>4, Unwritten DEF Base, HistoryOK
  <2>. QED  BY <2>2, <2>3, <2>4, <2>5, EnvironmentBase DEF Same
<1>4. CASE Crash
  <2>1. hist' = <<Api>> /\ Return /\ UNCHANGED net /\ Counting
    BY <1>4, Disturbed DEF Crash
  <2>2. HistoryOK'
    BY <2>1, Restarted DEF Base, HistoryOK
  <2>. QED  BY <2>1, <2>2, NothingGrows, ReturnBase DEF Grows
<1>. QED  BY <1>1, <1>2, <1>3, <1>4

\* The first part of the invariant is inductive by itself.
LEMMA BaseStep == ASSUME Base, [Next]_vars PROVE Base'
<1>1. CASE UNCHANGED vars
  <2>1. UNCHANGED <<hist, mobj, own, pc, todo, net, happened>>
    BY <1>1 DEF vars
  <2>2. HistoryOK' /\ Cached' = Cached /\ Api' = Api /\ Copies' = Copies
    BY <2>1, Unwritten DEF Base, HistoryOK
  <2>. QED  BY <2>1, <2>2, NothingGrows, EnvironmentBase DEF Grows, Same
<1>2. CASE Next
  BY <1>2, ReconcileBase, CreateVpcBase, AnnotateVpcBase, WaitForVpcBase, GetVPCBase, BuildBase,
     AnnotateGatewayBase, AnnotateSubnetBase, CreateHostBase, CommitCreatedBase, DeleteDockerMachineBase,
     DeleteCallBase, DescribeGroupsFailsBase, DeleteVpcBase, RemoveFinalizerBase, OthersBase
  DEF Next, WorkerStep
<1>. QED  BY <1>1, <1>2
=============================================================================
