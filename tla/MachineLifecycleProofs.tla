----------------------- MODULE MachineLifecycleProofs -----------------------
(***************************************************************************)
(* MachineController implements MachineLifecycle, for every set of         *)
(* Machines, shared host names and shared resource groups included, every  *)
(* lag of the watch, every number of disturbances, and a disk that is kept *)
(* or not.                                                                 *)
(***************************************************************************)
EXTENDS MachineControllerProofs

-----------------------------------------------------------------------------
(* The things there are.                                                   *)

\* The step takes away no thing, or none but those of Machine m.
NothingGone ==
  /\ \A n \in Names : store[n] => store'[n]
  /\ \A x \in Machines : scriptFile[x] # "none" => scriptFile'[x] # "none"
  /\ \A g \in Groups : group[g] => group'[g]

GoneFor(m) ==
  /\ \A n \in Names : store[n] => store'[n] \/ n = Name[m]
  /\ \A x \in Machines : scriptFile[x] # "none" => scriptFile'[x] # "none" \/ x = m
  /\ \A g \in Groups :
       group[g] => group'[g] \/ (Driver[m] = "azure" /\ g = GetResourceGroupName(m))

\* What is made for m is claimed by m.
LEMMA MadeIsClaimed ==
  ASSUME NEW m \in Machines, MadeFor(m)
  PROVE  Existing' \ Existing \subseteq Claims[m]
<1> SUFFICES ASSUME NEW t \in Existing', t \notin Existing PROVE t \in Claims[m]
  OBVIOUS
<1>1. CASE \E n \in Names : store'[n] /\ t = <<"host", n>>
  BY <1>1 DEF Existing, Claims, MadeFor
<1>2. CASE \E x \in Machines : scriptFile'[x] # "none" /\ t = <<"script", x>>
  BY <1>2 DEF Existing, Claims, MadeFor
<1>3. CASE \E g \in Groups : group'[g] /\ t = <<"group", g>>
  BY <1>3 DEF Existing, Claims, MadeFor
<1> QED BY <1>1, <1>2, <1>3 DEF Existing

\* What goes for m was claimed by m.
LEMMA GoneIsClaimed ==
  ASSUME NEW m \in Machines, GoneFor(m)
  PROVE  Existing \ Existing' \subseteq Claims[m]
<1> SUFFICES ASSUME NEW t \in Existing, t \notin Existing' PROVE t \in Claims[m]
  OBVIOUS
<1>1. CASE \E n \in Names : store[n] /\ t = <<"host", n>>
  BY <1>1 DEF Existing, Claims, GoneFor
<1>2. CASE \E x \in Machines : scriptFile[x] # "none" /\ t = <<"script", x>>
  BY <1>2 DEF Existing, Claims, GoneFor
<1>3. CASE \E g \in Groups : group[g] /\ t = <<"group", g>>
  BY <1>3 DEF Existing, Claims, GoneFor
<1> QED BY <1>1, <1>2, <1>3 DEF Existing

\* A step that makes nothing adds nothing, and one that takes nothing keeps everything.
LEMMA ThingsStay ==
  /\ NothingMade => Existing' \subseteq Existing
  /\ NothingGone => Existing \subseteq Existing'
<1>1. ASSUME NothingMade, NEW t \in Existing' PROVE t \in Existing
  BY <1>1 DEF NothingMade, Existing
<1>2. ASSUME NothingGone, NEW t \in Existing PROVE t \in Existing'
  BY <1>2 DEF NothingGone, Existing
<1> QED BY <1>1, <1>2

\* A Machine that is released claims nothing any more.
LEMMA NothingLeft ==
  ASSUME NEW m \in Machines, ~store[Name[m]], scriptFile[m] = "none",
         Driver[m] = "azure" => ~group[GetResourceGroupName(m)]
  PROVE  Claims[m] \cap Existing = {}
<1> SUFFICES ASSUME NEW t \in Claims[m], t \in Existing PROVE FALSE
  OBVIOUS
<1>1. CASE t = <<"host", Name[m]>>
  BY <1>1 DEF Existing
<1>2. CASE t = <<"script", m>>
  BY <1>2 DEF Existing
<1>3. CASE \E g \in Groups : Driver[m] = "azure" /\ g = GetResourceGroupName(m) /\ t = <<"group", g>>
  BY <1>3 DEF Existing
<1> QED BY <1>1, <1>2, <1>3 DEF Claims

-----------------------------------------------------------------------------
(* The states of the Machines.                                             *)

\* What the states of a Machine mean.
LEMMA LifeMeans ==
  ASSUME NEW o \in Objects
  PROVE  /\ Life(o) = "absent" <=> ~o.ex
         /\ Life(o) = "held" <=> Live(o)
         /\ HasFin(o) => Life(o) \in {"held", "terminating"}
         /\ Life(o) = "terminating" <=> o.ex /\ o.del
         /\ Life(o) = "new" <=> o.ex /\ ~o.del /\ ~o.fin
BY DEF Life, Live, HasFin, Objects

\* The abstract step in which one Machine goes from one state to another.
LEMMA OneBecomes ==
  ASSUME NEW m \in Machines, NEW from, NEW to,
         Life(Api(m)) \in from, Life(Api(m)') = to,
         \A x \in Machines : x # m => Api(x)' = Api(x),
         Existing' = Existing
  PROVE  Lifecycle!Becomes(m, from, to)
<1> DEFINE life == [x \in Machines |-> Life(Api(x))]
<1>1. life' = [life EXCEPT ![m] = to]
  <2>1. \A x \in Machines : x # m => Life(Api(x)') = Life(Api(x))
    OBVIOUS
  <2>2. life' = [x \in Machines |-> Life(Api(x)')]
    BY DEF Life
  <2> QED BY <2>1, <2>2
<1> QED BY <1>1 DEF Lifecycle!Becomes

\* The abstract stutter.
LEMMA NothingHappens ==
  ASSUME \A x \in Machines : Life(Api(x))' = Life(Api(x)), Existing' = Existing
  PROVE  UNCHANGED Lifecycle!vars
BY DEF Lifecycle!vars

\* Things made for a Machine that the operator holds.
LEMMA Builds ==
  ASSUME NEW m \in Machines, Life(Api(m)) \in {"held", "terminating"},
         \A x \in Machines : Life(Api(x))' = Life(Api(x)),
         MadeFor(m), NothingGone
  PROVE  Lifecycle!Build(m)
<1> DEFINE T == Existing' \ Existing
<1>1. Existing' = Existing \cup T /\ T \in SUBSET Claims[m]
  BY MadeIsClaimed, ThingsStay
<1> HIDE DEF T
<1>2. Existing' \in {Existing \cup X : X \in SUBSET Claims[m]}
  BY <1>1
<1> QED BY <1>2 DEF Lifecycle!Build, Lifecycle!InCharge

\* Things removed on behalf of a Machine that is not live.
LEMMA CleansUp ==
  ASSUME NEW m \in Machines, Life(Api(m)) # "held",
         \A x \in Machines : Life(Api(x))' = Life(Api(x)),
         NothingMade, GoneFor(m)
  PROVE  Lifecycle!CleanUp(m)
<1> DEFINE T == Existing \ Existing'
<1>1. Existing' = Existing \ T /\ T \in SUBSET Claims[m]
  BY GoneIsClaimed, ThingsStay
<1> HIDE DEF T
<1>2. Existing' \in {Existing \ X : X \in SUBSET Claims[m]}
  BY <1>1
<1> QED BY <1>2 DEF Lifecycle!CleanUp

-----------------------------------------------------------------------------
(* Every step is a step of MachineLifecycle, or none.                      *)

Implements == [Lifecycle!Next]_(Lifecycle!vars)

\* A write that changes the status only leaves every Machine in its state.
LEMMA KindStepSameLife ==
  ASSUME HistType, NEW m \in Machines, KindStep(m)
  PROVE  \A x \in Machines : Life(Api(x))' = Life(Api(x))
<1>1. CASE hist' = hist
  BY <1>1 DEF Api, Life
<1>2. ASSUME NEW new \in Objects, SameKind(new, Api(m)), Emit(m, new)
      PROVE  \A x \in Machines : Life(Api(x))' = Life(Api(x))
  <2>1. Api(m)' = new /\ \A x \in Machines : x # m => Api(x)' = Api(x)
    BY <1>2, EmitEffect DEF Api
  <2>2. Life(new) = Life(Api(m))
    BY <1>2 DEF SameKind, Life
  <2>3. \A x \in Machines : Life(Api(x))' = Life(Api(x)')
    BY DEF Life
  <2> QED BY <2>1, <2>2, <2>3
<1> QED BY <1>1, <1>2 DEF KindStep

\* Such a write alone is nothing to the lifecycle.
LEMMA StatusWriteImplements ==
  ASSUME HistType, NEW m \in Machines, KindStep(m), UNCHANGED <<store, scriptFile, group>>
  PROVE  Implements
<1>1. \A x \in Machines : Life(Api(x))' = Life(Api(x))
  BY KindStepSameLife
<1>2. Existing' = Existing
  BY DEF Existing
<1> QED BY <1>1, <1>2, NothingHappens DEF Implements

\* The informer changes neither the stored objects nor the things.
LEMMA DeliverImplements ==
  ASSUME IInv, NEW m \in Machines, Deliver(m)
  PROVE  Implements
<1>1. hist[m] \in Seq(Objects) /\ Len(hist[m]) > 1 /\ HistOK(hist[m])
  BY DEF IInv, TypeOK, HistoriesOK, Deliver
<1>2. hist'[m] = Tail(hist[m]) /\ \A x \in Machines : x # m => hist'[x] = hist[x]
  BY DEF IInv, TypeOK, Deliver
<1>3. LastOf(Tail(hist[m])) = LastOf(hist[m])
  BY <1>1, TailHistory
<1>4. \A x \in Machines : Api(x)' = Api(x)
  BY <1>2, <1>3 DEF Api, LastOf
<1>5. \A x \in Machines : Life(Api(x))' = Life(Api(x))
  BY <1>4 DEF Life
<1>6. Existing' = Existing
  BY DEF Deliver, disk, cloud, Existing
<1> QED BY <1>5, <1>6, NothingHappens DEF Implements

\* Taking up a Machine, failing to read it, and the script on a host change neither.
LEMMA SilentImplements ==
  ASSUME UNCHANGED <<hist, store, scriptFile, group>>
  PROVE  Implements
<1>1. \A x \in Machines : Life(Api(x))' = Life(Api(x))
  BY DEF Api, Life
<1>2. Existing' = Existing
  BY DEF Existing
<1> QED BY <1>1, <1>2, NothingHappens DEF Implements

\* One new version of one Machine, and no change to the things.
LEMMA VersionImplements ==
  ASSUME HistType, NEW m \in Machines, NEW new \in Objects, Emit(m, new),
         UNCHANGED <<store, scriptFile, group>>,
         \/ Life(Api(m)) = "absent" /\ Life(new) \in {"new", "held"}
         \/ Life(Api(m)) = "new" /\ Life(new) \in {"absent", "held"}
         \/ Life(Api(m)) = "held" /\ Life(new) = "terminating"
         \/ /\ Life(Api(m)) = "terminating" /\ Life(new) = "absent"
            /\ Claims[m] \cap Existing = {}
  PROVE  Lifecycle!Next
<1>1. Api(m)' = new /\ \A x \in Machines : x # m => Api(x)' = Api(x)
  BY EmitEffect DEF Api
<1>2. Existing' = Existing
  BY DEF Existing
<1>3. \A from : Life(Api(m)) \in from => Lifecycle!Becomes(m, from, Life(new))
  BY <1>1, <1>2, OneBecomes
<1>4. CASE Life(Api(m)) = "absent" /\ Life(new) = "new"
  BY <1>3, <1>4 DEF Lifecycle!Next, Lifecycle!Appear
<1>5. CASE Life(Api(m)) \in {"absent", "new"} /\ Life(new) = "held"
  BY <1>3, <1>5 DEF Lifecycle!Next, Lifecycle!Adopt
<1>6. CASE Life(Api(m)) = "new" /\ Life(new) = "absent"
  BY <1>3, <1>6 DEF Lifecycle!Next, Lifecycle!Abandon
<1>7. CASE Life(Api(m)) = "held" /\ Life(new) = "terminating"
  BY <1>3, <1>7 DEF Lifecycle!Next, Lifecycle!MarkForDeletion
<1>8. CASE /\ Life(Api(m)) = "terminating" /\ Life(new) = "absent"
           /\ Claims[m] \cap Existing = {}
  BY <1>3, <1>8 DEF Lifecycle!Next, Lifecycle!Release
<1> QED BY <1>4, <1>5, <1>6, <1>7, <1>8

\* A user creates a Machine, or deletes one.
LEMMA UserImplements ==
  ASSUME IInv, NEW m \in Machines, UserCreate(m) \/ UserDelete(m)
  PROVE  Implements
<1>1. HistType /\ Api(m) \in Objects
  BY CurrentVersions DEF IInv, TypeOK, HistType
<1>2. UNCHANGED <<store, scriptFile, group>>
  BY DEF UserCreate, UserDelete, disk, cloud
<1>3. CASE UserCreate(m)
  <2>1. Life(Api(m)) = "absent" /\ Life(Fresh) = "new" /\ Emit(m, Fresh)
    BY <1>3 DEF UserCreate, Life, Fresh, Gone
  <2> QED BY <2>1, <1>1, <1>2, GoneType, VersionImplements DEF Implements
<1>4. CASE UserDelete(m) /\ Api(m).fin
  <2> DEFINE new == [Api(m) EXCEPT !.del = TRUE]
  <2>1. new \in Objects /\ Emit(m, new) /\ Life(Api(m)) = "held" /\ Life(new) = "terminating"
    BY <1>1, <1>4 DEF UserDelete, Life, Objects
  <2> HIDE DEF new
  <2> QED BY <2>1, <1>1, <1>2, VersionImplements DEF Implements
<1>5. CASE UserDelete(m) /\ ~Api(m).fin
  <2>1. Emit(m, Gone) /\ Life(Api(m)) = "new" /\ Life(Gone) = "absent"
    BY <1>1, <1>5 DEF UserDelete, Life, Objects, Gone
  <2> QED BY <2>1, <1>1, <1>2, GoneType, VersionImplements DEF Implements
<1> QED BY <1>3, <1>4, <1>5, <1>1 DEF Objects

\* ensureFinalizer takes charge of the Machine, which may have been created anew, or
\* finds that the operator has it in charge already.
LEMMA EnsureFinalizerImplements ==
  ASSUME IInv, EnsureFinalizer
  PROVE  Implements
<1>0. PICK m \in Machines : m = cur
  BY DEF IInv, TypeOK, EnsureFinalizer
<1> DEFINE h == hist[m]
           new == IF Cached(m).ex THEN FinalizerPatched(m, TRUE) ELSE Recreated(TRUE)
<1>1. /\ HistType /\ HistoriesOK /\ WorkerOK /\ pc = "finalizer"
      /\ UNCHANGED <<store, scriptFile, group>>
  BY DEF IInv, TypeOK, HistType, EnsureFinalizer, disk, cloud
<1>2. /\ h \in Seq(Objects) /\ Len(h) > 0 /\ HistOK(h) /\ LastOf(h) = Api(m)
      /\ Api(m) \in Objects /\ Cached(m) \in Objects /\ Cached(m) = h[1] /\ 1 \in 1..Len(h)
      /\ Held(m) <=> HasFin(Api(m))
  BY <1>1, CurrentVersions DEF HistoriesOK
<1>3. \/ UNCHANGED hist
      \/ Cached(m).ex = Api(m).ex /\ Put(m, Stored(new))
  BY <1>0 DEF EnsureFinalizer, PatchFinalizer
<1>4. CASE UNCHANGED hist
  BY <1>1, <1>4, SilentImplements
<1>5. CASE Cached(m).ex = Api(m).ex /\ Put(m, Stored(new)) /\ Held(m)
  <2>1. new = Api(m) /\ Stored(new) = Api(m)
    BY <1>2, <1>5 DEF FinalizerPatched, HasFin, Stored, Objects
  <2>2. UNCHANGED hist
    BY <2>1, <1>5 DEF Put
  <2> QED BY <2>2, <1>1, SilentImplements
<1>6. CASE Cached(m).ex = Api(m).ex /\ Put(m, Stored(new)) /\ ~Held(m)
  <2>1. NoDel(h) /\ ~Api(m).del /\ NoLive(h)
    BY <1>0, <1>1, <1>2, <1>6, LiveLast DEF WorkerOK
  <2>2. Cached(m).ex => ~Cached(m).fin
    BY <2>1, <1>2 DEF NoDel, NoLive, Live
  <2>3. new \in Objects /\ Live(new) /\ Stored(new) = new /\ new # Api(m)
    <3>1. CASE Cached(m).ex
      <4>1. new = [Api(m) EXCEPT !.fin = TRUE]
        BY <3>1, <2>2, <1>2 DEF FinalizerPatched, Objects
      <4>2. new \in Objects /\ Live(new) /\ Stored(new) = new
        BY <4>1, <3>1, <2>1, <1>2, <1>6 DEF Stored, Objects, Live
      <4>3. ~Api(m).fin
        BY <3>1, <1>2, <1>6 DEF HasFin
      <4> QED BY <4>2, <4>3 DEF Live
    <3>2. CASE ~Cached(m).ex
      BY <3>2, <1>6, GoneType DEF Recreated, Fresh, Gone, Stored, Objects, Live
    <3> QED BY <3>1, <3>2
  <2>4. Emit(m, new)
    BY <2>3, <1>6 DEF Put
  <2>5. Life(Api(m)) \in {"absent", "new"}
    BY <2>1, <1>2, <1>6 DEF Life, HasFin, Objects
  <2>6. Life(new) = "held"
    BY <2>3, LifeMeans
  <2> HIDE DEF new
  <2> QED BY <2>3, <2>4, <2>5, <2>6, <1>1, VersionImplements DEF Implements
<1> QED BY <1>3, <1>4, <1>5, <1>6

\* Removing the finalizer releases a Machine for which nothing is left, or creates
\* anew one that is gone, or changes nothing.
LEMMA RemoveFinalizerImplements ==
  ASSUME IInv, RemoveFinalizer
  PROVE  Implements
<1>0. PICK m \in Machines : m = cur
  BY DEF IInv, TypeOK, RemoveFinalizer
<1> DEFINE h == hist[m]
           new == IF Cached(m).ex THEN FinalizerPatched(m, FALSE) ELSE Recreated(FALSE)
<1>1. /\ HistType /\ HistoriesOK /\ WorkerOK /\ pc = "unfinalize"
      /\ UNCHANGED <<store, scriptFile, group>>
  BY DEF IInv, TypeOK, HistType, RemoveFinalizer, disk, cloud
<1>2. /\ h \in Seq(Objects) /\ Len(h) > 0 /\ HistOK(h) /\ LastOf(h) = Api(m)
      /\ Api(m) \in Objects /\ Cached(m) \in Objects
      /\ Len(h) \in 1..Len(h) /\ LastOf(h) = h[Len(h)]
  BY <1>1, CurrentVersions DEF HistoriesOK, LastOf
<1>3. /\ NoLive(h)
      /\ ~store[Name[m]] /\ scriptFile[m] = "none"
      /\ Driver[m] = "azure" => ~group[GetResourceGroupName(m)]
  BY <1>0, <1>1 DEF WorkerOK, Terminating
<1>4. Claims[m] \cap Existing = {}
  BY <1>3, NothingLeft
<1>5. ~Live(Api(m)) /\ (Api(m).del => HasFin(Api(m)))
  BY <1>2, <1>3 DEF NoLive, HistOK
<1>6. \/ UNCHANGED hist
      \/ Cached(m).ex = Api(m).ex /\ Put(m, Stored(new))
  BY <1>0 DEF RemoveFinalizer, PatchFinalizer
<1>7. CASE UNCHANGED hist
  BY <1>1, <1>7, SilentImplements
<1>8. CASE Put(m, Stored(new)) /\ ~Cached(m).ex /\ ~Api(m).ex
  <2>1. /\ Recreated(FALSE) \in Objects /\ Recreated(FALSE).ex
        /\ ~Recreated(FALSE).del /\ ~Recreated(FALSE).fin
    BY GoneType DEF Recreated, Fresh, Gone, Objects
  <2>2. Stored(new) = Recreated(FALSE) /\ Recreated(FALSE) # Api(m)
    BY <2>1, <1>8 DEF Stored
  <2>3. Emit(m, Recreated(FALSE))
    BY <2>2, <1>8 DEF Put
  <2>4. Life(Api(m)) = "absent" /\ Life(Recreated(FALSE)) = "new"
    BY <2>1, <1>2, <1>8, LifeMeans
  <2> QED BY <2>1, <2>3, <2>4, <1>1, VersionImplements DEF Implements
<1>9. CASE Put(m, Stored(new)) /\ Cached(m).ex /\ Api(m).ex /\ Api(m).del /\ Cached(m).fin
  <2>1. Stored(new) = Gone
    BY <1>2, <1>9 DEF FinalizerPatched, Stored, Objects
  <2>2. Gone # Api(m)
    <3>1. ~Gone.ex
      BY DEF Gone
    <3> QED BY <3>1, <1>9
  <2>3. Emit(m, Gone)
    BY <2>1, <2>2, <1>9 DEF Put
  <2>4. Life(Api(m)) = "terminating" /\ Life(Gone) = "absent"
    BY <1>9 DEF Life, Gone
  <2> QED BY <2>3, <2>4, <1>1, <1>4, GoneType, VersionImplements DEF Implements
<1>10. CASE /\ Put(m, Stored(new)) /\ Cached(m).ex /\ Api(m).ex
            /\ ~Api(m).del \/ ~Cached(m).fin
  <2>1. new = Api(m) /\ Stored(new) = Api(m)
    BY <1>2, <1>5, <1>10 DEF FinalizerPatched, Stored, Objects, Live, HasFin
  <2>2. UNCHANGED hist
    BY <2>1, <1>10 DEF Put
  <2> QED BY <2>2, <1>1, SilentImplements
<1> QED BY <1>2, <1>6, <1>7, <1>8, <1>9, <1>10 DEF Objects

\* The steps that make things make them for a Machine in charge.
LEMMA BuildImplements ==
  ASSUME IInv, cur \in Machines, Held(cur), KindStep(cur), MadeFor(cur), NothingGone
  PROVE  Implements
<1>1. HistType /\ Api(cur) \in Objects
  BY CurrentVersions DEF IInv, TypeOK, HistType
<1>2. Life(Api(cur)) \in {"held", "terminating"}
  BY <1>1, LifeMeans DEF Held, HasFin
<1>3. \A x \in Machines : Life(Api(x))' = Life(Api(x))
  BY <1>1, KindStepSameLife
<1>4. Lifecycle!Build(cur)
  BY <1>2, <1>3, Builds
<1> QED BY <1>4 DEF Implements, Lifecycle!Next

\* The script file and docker-machine create.
LEMMA CreationImplements ==
  ASSUME IInv, ScriptSecretMissing \/ AuthSecretMissing \/ GetMachineCreationArgs
               \/ CreateSucceeds \/ CreateFails
  PROVE  Implements
<1>1. /\ TypeOK /\ WorkerOK /\ HostsKnown /\ cur \in Machines /\ pc \in {"args", "create"}
      /\ mobj \in Objects /\ mobj.conds \in Conditions /\ Name[cur] \in Names
  BY ConstantsAssumption DEF IInv, TypeOK, Objects, ScriptSecretMissing, AuthSecretMissing,
         GetMachineCreationArgs, CreateSucceeds, CreateFails
<1>2. Held(cur)
  BY <1>1 DEF WorkerOK, Building
<1>3. CASE ScriptSecretMissing \/ AuthSecretMissing \/ GetMachineCreationArgs
  <2>1. UNCHANGED <<store, group>> /\ scriptFile' \in {scriptFile, ScriptCut, ScriptWritten}
    BY <1>3 DEF ScriptSecretMissing, AuthSecretMissing, GetMachineCreationArgs, cloud
  <2>2. /\ \A x \in Machines : x # cur => scriptFile'[x] = scriptFile[x]
        /\ \A x \in Machines : scriptFile[x] # "none" => scriptFile'[x] # "none"
    BY <2>1, <1>1 DEF TypeOK, ScriptCut, ScriptWritten
  <2>3. MadeFor(cur) /\ NothingGone
    BY <2>1, <2>2 DEF MadeFor, NothingGone
  <2>4. KindStep(cur)
    <3>1. CASE UNCHANGED hist
      BY <3>1 DEF KindStep
    <3>2. CASE GetMachineCreationArgs
      <4> DEFINE o == [mobj EXCEPT !.conds = MarkTrue(ScriptMarked(@), "AuthDataReady")]
      <4>1. o \in Objects
        <5>1. "AuthDataNotFound" \in Reasons
          BY DEF Reasons
        <5>2. ScriptMarked(mobj.conds) \in Conditions
          BY <5>1, <1>1, MarkType DEF ScriptMarked
        <5> QED BY <5>1, <5>2, <1>1, MarkType, WithConditions
      <4>2. UpdateMachineStatus(o, "create", "requeue")
        BY <3>2 DEF GetMachineCreationArgs
      <4> HIDE DEF o
      <4> QED BY <4>1, <4>2, <1>1, StatusStep
    <3> QED BY <3>1, <3>2, <1>3 DEF ScriptSecretMissing, AuthSecretMissing
  <2> QED BY <2>3, <2>4, <1>1, <1>2, BuildImplements
<1>4. CASE CreateSucceeds
  <2>1. UNCHANGED <<hist, scriptFile>> /\ store' = Entered /\ group' \in {group, GroupMade}
    BY <1>4 DEF CreateSucceeds, cloud
  <2>2. MadeFor(cur) /\ NothingGone
    BY <2>1, <1>1 DEF MadeFor, NothingGone, Entered, GroupMade, TypeOK
  <2>3. KindStep(cur)
    BY <2>1 DEF KindStep
  <2> QED BY <2>2, <2>3, <1>1, <1>2, BuildImplements
<1>5. CASE CreateFails
  <2>1. PICK c \in CutShort : store' = c[1] /\ group' = c[3]
    BY <1>5 DEF CreateFails
  <2>2. UNCHANGED <<hist, scriptFile>>
    BY <1>5 DEF CreateFails
  <2>3. MadeFor(cur) /\ NothingGone
    BY <2>1, <2>2, <1>1, CutShortType DEF MadeFor, NothingGone
  <2>4. KindStep(cur)
    BY <2>2 DEF KindStep
  <2> QED BY <2>3, <2>4, <1>1, <1>2, BuildImplements
<1> QED BY <1>3, <1>4, <1>5

\* The cleanup takes away what the Machine claims, when it is not live any more.
LEMMA CleanupImplements ==
  ASSUME IInv, DeleteDockerMachine \/ DeleteAzureResourceGroup
  PROVE  Implements
<1>1. /\ HistType /\ TypeOK /\ WorkerOK /\ cur \in Machines /\ UNCHANGED hist
      /\ pc \in {"rm", "cloud"} /\ Name[cur] \in Names
  BY ConstantsAssumption DEF IInv, TypeOK, HistType, DeleteDockerMachine, DeleteAzureResourceGroup
<1>2. /\ hist[cur] \in Seq(Objects) /\ Len(hist[cur]) > 0 /\ Api(cur) \in Objects
      /\ Api(cur) = LastOf(hist[cur])
  BY <1>1, CurrentVersions
<1>3. ~Live(Api(cur))
  BY <1>1, <1>2 DEF WorkerOK, Terminating, NoLive, LastOf
<1>4. Life(Api(cur)) # "held"
  BY <1>2, <1>3, LifeMeans
<1>5. \A x \in Machines : Life(Api(x))' = Life(Api(x))
  BY <1>1 DEF Api, Life
<1>6. NothingMade /\ GoneFor(cur)
  <2>1. CASE DeleteDockerMachine
    <3>1. /\ scriptFile' = [scriptFile EXCEPT ![cur] = "none"] /\ UNCHANGED group
          /\ store' \in {store, [store EXCEPT ![Name[cur]] = FALSE]}
      BY <2>1 DEF DeleteDockerMachine
    <3> QED BY <3>1, <1>1 DEF NothingMade, GoneFor, TypeOK
  <2>2. CASE DeleteAzureResourceGroup
    <3>1. /\ UNCHANGED <<store, scriptFile>> /\ Driver[cur] = "azure"
          /\ group' \in {group, [group EXCEPT ![GetResourceGroupName(cur)] = FALSE]}
      BY <2>2 DEF DeleteAzureResourceGroup, GroupGoes, cloud, disk
    <3> QED BY <3>1, <1>1 DEF NothingMade, GoneFor, TypeOK
  <2> QED BY <2>1, <2>2
<1>7. Lifecycle!CleanUp(cur)
  BY <1>1, <1>4, <1>5, <1>6, CleansUp
<1> QED BY <1>1, <1>7 DEF Implements, Lifecycle!Next

\* A restart leaves the stored objects alone; what it finds half made belongs to a
\* Machine in charge, and what it loses it loses with the disk.
LEMMA CrashImplements ==
  ASSUME IInv, Crash
  PROVE  Implements
<1>1. TypeOK /\ HistType /\ WorkerOK /\ HostsKnown
  BY DEF IInv, TypeOK, HistType
<1>2. \A x \in Machines : Life(Api(x))' = Life(Api(x))
  <2>1. \A x \in Machines : Api(x)' = Api(x)
    BY DEF Crash, Api
  <2> QED BY <2>1 DEF Life
<1>3. PICK c \in IF pc = "create" THEN CutShort ELSE {<<store, host, group>>} :
        /\ store' = IF DiskSurvives THEN c[1] ELSE [n \in Names |-> FALSE]
        /\ group' = c[3]
  BY DEF Crash
<1>4. PICK f \in IF pc = "args" THEN {scriptFile, ScriptCut, ScriptWritten} ELSE {scriptFile} :
        scriptFile' = IF DiskSurvives THEN f ELSE [m \in Machines |-> "none"]
  BY DEF Crash
<1>5. CASE pc \in {"create", "args"}
  <2>1. cur \in Machines /\ Held(cur) /\ Api(cur) \in Objects
    BY <1>1, <1>5, CurrentVersions DEF WorkerOK, TypeOK, Building
  <2>2. Life(Api(cur)) \in {"held", "terminating"}
    BY <2>1, LifeMeans DEF Held, HasFin
  <2>3. /\ \A n \in Names : c[1][n] => store[n] \/ n = Name[cur]
        /\ \A g \in Groups :
             c[3][g] => group[g] \/ (Driver[cur] = "azure" /\ g = GetResourceGroupName(cur))
        /\ (\A n \in Names : store[n] => c[1][n]) /\ (\A g \in Groups : group[g] => c[3][g])
    <3>1. CASE c \in CutShort
      BY <3>1, <2>1, <1>1, CutShortType
    <3>2. CASE c = <<store, host, group>>
      BY <3>2
    <3> QED BY <3>1, <3>2, <1>3
  <2>4. /\ \A x \in Machines : x # cur => f[x] = scriptFile[x]
        /\ \A x \in Machines : scriptFile[x] # "none" => f[x] # "none"
    BY <2>1, <1>1, <1>4 DEF TypeOK, ScriptCut, ScriptWritten
  <2>5. MadeFor(cur)
    BY <2>3, <2>4, <1>3, <1>4 DEF MadeFor
  <2>6. CASE DiskSurvives
    <3>1. NothingGone
      BY <2>3, <2>4, <2>6, <1>3, <1>4 DEF NothingGone
    <3>2. Lifecycle!Build(cur)
      BY <3>1, <2>1, <2>2, <2>5, <1>2, Builds
    <3> QED BY <3>2, <2>1 DEF Implements, Lifecycle!Next
  <2>7. CASE ~DiskSurvives
    <3>1. Existing' \ Existing \subseteq Claims[cur]
      BY <2>1, <2>5, MadeIsClaimed
    <3>2. Lifecycle!InCharge(cur)
      BY <2>1, <2>2 DEF Lifecycle!InCharge
    <3>3. Claims[cur] \subseteq UNION {Claims[m] : m \in {x \in Machines : Lifecycle!InCharge(x)}}
      BY <2>1, <3>2
    <3>4. Lifecycle!Lose
      BY <3>1, <3>3, <2>7, <1>2 DEF Lifecycle!Lose
    <3> QED BY <3>4 DEF Implements, Lifecycle!Next
  <2> QED BY <2>6, <2>7
<1>6. CASE pc \notin {"create", "args"}
  <2>1. c = <<store, host, group>> /\ f = scriptFile
    BY <1>3, <1>4, <1>6
  <2>2. CASE DiskSurvives
    <3>1. UNCHANGED <<store, scriptFile, group>>
      BY <2>1, <2>2, <1>3, <1>4
    <3>2. Existing' = Existing
      BY <3>1 DEF Existing
    <3> QED BY <3>2, <1>2, NothingHappens DEF Implements
  <2>3. CASE ~DiskSurvives
    <3>1. NothingMade
      BY <2>1, <2>3, <1>3, <1>4 DEF NothingMade
    <3>2. Lifecycle!Lose
      BY <3>1, <2>3, <1>2, ThingsStay DEF Lifecycle!Lose
    <3> QED BY <3>2 DEF Implements, Lifecycle!Next
  <2> QED BY <2>2, <2>3
<1> QED BY <1>5, <1>6

\* The steps that at most write a status.
LEMMA StatusActionsImplement ==
  ASSUME IInv, InitPhase \/ FinalStatus \/ SetInitialConditions
               \/ CommitCreated \/ CommitTerminating
  PROVE  Implements
<1>1. TypeOK /\ HistType /\ cur \in Machines /\ mobj \in Objects
  BY DEF IInv, TypeOK, HistType, InitPhase, FinalStatus, SetInitialConditions,
         CommitCreated, CommitTerminating
<1>2. UNCHANGED <<store, scriptFile, group>>
  BY DEF InitPhase, FinalStatus, SetInitialConditions,
         CommitCreated, CommitTerminating, disk, cloud
<1>3. [mobj EXCEPT !.conds = InitialConditions(@)] \in Objects
  <2>1. mobj.conds \in Conditions /\ "MachineCreating" \in Reasons /\ "WaitingForScriptRun" \in Reasons
    BY <1>1 DEF Objects, Reasons
  <2>2. InitialConditions(mobj.conds) \in Conditions
    BY <2>1, MarkType DEF InitialConditions
  <2> QED BY <2>2, <1>1, WithConditions
<1>4. \E o \in Objects, ok, err \in PcStates : UpdateMachineStatus(o, ok, err)
  <2>1. CASE SetInitialConditions
    BY <2>1, <1>3 DEF SetInitialConditions, PcStates
  <2>2. CASE InitPhase \/ FinalStatus \/ CommitCreated \/ CommitTerminating
    BY <2>2, <1>1 DEF InitPhase, FinalStatus, CommitCreated, CommitTerminating, PcStates
  <2> QED BY <2>1, <2>2
<1>5. KindStep(cur)
  BY <1>1, <1>4, StatusStep
<1> QED BY <1>1, <1>2, <1>5, StatusWriteImplements

-----------------------------------------------------------------------------
(* The theorem.                                                            *)

\* Every step of the controller is a step of MachineLifecycle, or none.
LEMMA StepImplements == IInv /\ [Next]_vars => Implements
<1> SUFFICES ASSUME IInv, [Next]_vars PROVE Implements
  OBVIOUS
<1>0. HistType
  BY DEF IInv, TypeOK, HistType
<1>1. CASE \/ InitPhase \/ FinalStatus \/ SetInitialConditions
           \/ CommitCreated \/ CommitTerminating
  BY <1>1, StatusActionsImplement
<1>2. CASE EnsureFinalizer
  BY <1>2, EnsureFinalizerImplements
<1>3. CASE RemoveFinalizer
  BY <1>3, RemoveFinalizerImplements
<1>4. CASE \/ ScriptSecretMissing \/ AuthSecretMissing \/ GetMachineCreationArgs
           \/ CreateSucceeds \/ CreateFails
  BY <1>4, CreationImplements
<1>5. CASE DeleteDockerMachine \/ DeleteAzureResourceGroup
  BY <1>5, CleanupImplements
<1>6. CASE \/ SkipCreation \/ CreatePrerequisites \/ ScriptNotDue \/ ScpFails \/ ScpSucceeds
           \/ ReadFails \/ ReadResult \/ CleanupAWSResources \/ ReconcileGetFails
  <2>1. UNCHANGED <<hist, store, scriptFile, group>>
    BY <1>6 DEF SkipCreation, CreatePrerequisites, ScriptNotDue, ScpFails, ScpSucceeds,
                ReadFails, ReadResult, CleanupAWSResources, ReconcileGetFails, cloud, disk
  <2> QED BY <2>1, SilentImplements
<1>7. CASE PatchAnnotation
  <2>1. /\ UNCHANGED <<store, scriptFile, group>> /\ cur \in Machines
        /\ UNCHANGED hist \/ Emit(cur, Api(cur))
    BY <1>7 DEF PatchAnnotation, cloud, disk, IInv, TypeOK
  <2>2. Api(cur) \in Objects /\ SameKind(Api(cur), Api(cur))
    BY <2>1, <1>0, CurrentVersions DEF SameKind
  <2>3. KindStep(cur)
    BY <2>1, <2>2 DEF KindStep
  <2> QED BY <2>1, <2>3, <1>0, StatusWriteImplements
<1>8. ASSUME NEW m \in Machines,
             \/ Deliver(m) \/ Reconcile(m) \/ UserCreate(m) \/ UserEdit(m) \/ UserDelete(m)
      PROVE  Implements
  <2>1. CASE Reconcile(m)
    BY <2>1, SilentImplements DEF Reconcile, cloud, disk
  <2>2. CASE UserEdit(m)
    <3>1. UNCHANGED <<store, scriptFile, group>> /\ Emit(m, Api(m))
      BY <2>2 DEF UserEdit, cloud, disk
    <3>2. Api(m) \in Objects /\ SameKind(Api(m), Api(m))
      BY <1>0, CurrentVersions DEF SameKind
    <3>3. KindStep(m)
      BY <3>1, <3>2 DEF KindStep
    <3> QED BY <3>1, <3>3, <1>0, StatusWriteImplements
  <2> QED BY <2>1, <2>2, <1>8, DeliverImplements, UserImplements
<1>9. ASSUME NEW n \in Names, ScriptWrites(n) PROVE Implements
  BY <1>9, SilentImplements DEF ScriptWrites, disk
<1>10. CASE Crash
  BY <1>10, CrashImplements
<1>11. CASE UNCHANGED vars
  BY <1>11, SilentImplements DEF vars
<1> QED BY <1>1, <1>2, <1>3, <1>4, <1>5, <1>6, <1>7, <1>8, <1>9, <1>10, <1>11
        DEF Next, WorkerStep

\* In the beginning no Machine and none of the things exist.
LEMMA InitImplements == Init => Lifecycle!Init
<1> SUFFICES ASSUME Init PROVE Lifecycle!Init
  OBVIOUS
<1>1. \A m \in Machines : Api(m) = Gone
  BY DEF Init, Api
<1>2. Life(Gone) = "absent"
  BY DEF Life, Gone
<1>3. Existing = {}
  BY DEF Init, Existing
<1>4. [m \in Machines |-> Life(Api(m))] = [m \in Machines |-> "absent"]
  BY <1>1, <1>2
<1> QED BY <1>3, <1>4 DEF Lifecycle!Init

\* The controller keeps the promises of MachineLifecycle, however stale the cache,
\* whatever fails and whenever it restarts: a thing is made only for a Machine whose
\* finalizer ensureFinalizer has stored, cleaned up only for one that is not live, and
\* removeFinalizerAfterCleanup releases a Machine only when nothing it claims is left.
THEOREM LifecycleKept == Spec => KeepsLifecycle
<1>1. Init => Lifecycle!Init
  BY InitImplements
<1>2. IInv /\ [Next]_vars => [Lifecycle!Next]_(Lifecycle!vars)
  BY StepImplements DEF Implements
<1> QED BY <1>1, <1>2, InvariantHolds, PTL DEF Spec, KeepsLifecycle, Lifecycle!Spec
=============================================================================
