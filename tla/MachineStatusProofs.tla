------------------------ MODULE MachineStatusProofs ------------------------
(***************************************************************************)
(* What a status patch can and cannot do, for every set of Machines, every *)
(* lag of the watch and every number of disturbances.                      *)
(*                                                                         *)
(* First what the resourceVersion in it is good for: the phase that a      *)
(* Machine under deletion reports is final.  Then what the conditions of   *)
(* the stored object can be.  A status gets from machineObj to the server, *)
(* through the watch into the cache and back into machineObj, so the       *)
(* invariant is about every copy; the stored object is one of them.        *)
(***************************************************************************)
EXTENDS MachineControllerProofs

\* r.machineObj is as much marked for deletion as the version it was read or
\* written at, as long as that version is in the history.
SeenOK ==
  cur \in Machines =>
    /\ seen <= Len(hist[cur])
    /\ seen > 0 /\ hist[cur][seen].ex => mobj.del = hist[cur][seen].del

\* Every history is as it was, or has one more version.
HistGrows ==
  \A x \in Machines :
    hist'[x] = hist[x] \/ \E new \in Objects : hist'[x] = Append(hist[x], new)

-----------------------------------------------------------------------------
(* Steps on the histories.                                                 *)

\* An emitted version makes one history grow.
LEMMA EmitGrows ==
  ASSUME HistType, NEW m \in Machines, NEW new \in Objects, Emit(m, new) \/ UNCHANGED hist
  PROVE  HistGrows
<1>1. CASE Emit(m, new)
  <2>1. hist'[m] = Append(hist[m], new) /\ \A x \in Machines : x # m => hist'[x] = hist[x]
    BY <1>1, EmitEffect
  <2> QED BY <2>1 DEF HistGrows
<1>2. CASE UNCHANGED hist
  BY <1>2 DEF HistGrows
<1> QED BY <1>1, <1>2

\* machineObj stays what it was while versions are added.
LEMMA SeenKept ==
  ASSUME TypeOK, SeenOK, HistGrows, cur' = cur, seen' = seen, mobj'.del = mobj.del
  PROVE  SeenOK'
<1> SUFFICES ASSUME cur \in Machines
             PROVE  /\ seen <= Len(hist'[cur])
                    /\ seen > 0 /\ hist'[cur][seen].ex => mobj.del = hist'[cur][seen].del
  BY DEF SeenOK
<1>1. hist[cur] \in Seq(Objects) /\ seen \in Nat /\ seen <= Len(hist[cur])
  BY DEF TypeOK, SeenOK
<1>2. CASE hist'[cur] = hist[cur]
  BY <1>1, <1>2 DEF SeenOK
<1>3. ASSUME NEW new \in Objects, hist'[cur] = Append(hist[cur], new)
      PROVE  /\ seen <= Len(hist'[cur])
             /\ seen > 0 /\ hist'[cur][seen].ex => mobj.del = hist'[cur][seen].del
  <2>1. Len(hist'[cur]) = Len(hist[cur]) + 1
    BY <1>1, <1>3
  <2>2. seen > 0 => hist'[cur][seen] = hist[cur][seen]
    BY <1>1, <1>3
  <2> QED BY <2>1, <2>2, <1>1 DEF SeenOK
<1> QED BY <1>2, <1>3 DEF HistGrows

\* machineObj is refreshed with the answer to a write.
LEMMA SeenRefreshed ==
  ASSUME NEW c \in Machines, cur' = c, seen' = Len(hist'[c]),
         Len(hist'[c]) \in Nat, Api(c)'.ex => mobj'.del = Api(c)'.del
  PROVE  SeenOK'
BY DEF SeenOK, Api

\* updateMachineStatus leaves machineObj in step with its version, and keeps the
\* phase Terminating where the cache shows the deletion.
LEMMA StatusKeepsPhase ==
  ASSUME IInv, SeenOK, NEW c \in Machines, cur = c, NEW o \in Objects, o.del = mobj.del,
         NEW ok, NEW err, UpdateMachineStatus(o, ok, err)
  PROVE  /\ SeenOK'
         /\ \A m \in Machines : m # c => Api(m)' = Api(m)
         /\ Cached(c).del /\ Api(c).del /\ Api(c).phase = "Terminating"
              => Api(c)'.phase = "Terminating"
<1> DEFINE n == Summarised(o)
           new == StatusPatched(c, n)
<1>1. /\ TypeOK /\ HistType /\ HistoriesOK /\ seen \in Nat
  BY DEF IInv, TypeOK, HistType
<1>2. /\ hist[c] \in Seq(Objects) /\ Len(hist[c]) > 0
      /\ Api(c) \in Objects /\ Cached(c) \in Objects
      /\ Api(c) = hist[c][Len(hist[c])] /\ Cached(c) = hist[c][1]
      /\ HistOK(hist[c]) /\ cur' = c
  BY <1>1, CurrentVersions DEF LastOf, HistoriesOK, UpdateMachineStatus
<1>3. /\ n \in Objects /\ n.del = o.del
      /\ n.del => n.phase = "Terminating"
  <2>1. n \in Objects
    BY SummarisedType
  <2>2. n.del = o.del /\ n.phase = GetPhase(o.del, SetSummary(o.conds))
    BY DEF Summarised, Objects
  <2> QED BY <2>1, <2>2 DEF GetPhase
<1>4. /\ new \in Objects /\ new.del = Api(c).del /\ SameKind(new, Api(c))
      /\ Api(c).phase = "Terminating" /\ n.phase = "Terminating" => new.phase = "Terminating"
  BY <1>2, <1>3 DEF StatusPatched, Objects, SameKind
<1>5. \A i \in 1..Len(hist[c]) : hist[c][i].del => hist[c][i].ex
  BY <1>2 DEF HistOK, HasFin
<1>6. Accepted(c) /\ Cached(c).del /\ Api(c).del => n.phase = "Terminating"
  BY <1>1, <1>2, <1>3, <1>5 DEF Accepted, SeenOK
<1> HIDE DEF n, new
<1>7. CASE UNCHANGED <<hist, seen>> /\ mobj' \in {o, n}
  <2>1. HistGrows /\ mobj'.del = mobj.del
    BY <1>7, <1>3 DEF HistGrows
  <2>2. \A m \in Machines : Api(m)' = Api(m)
    BY <1>7 DEF Api
  <2> QED BY <2>1, <2>2, <1>1, <1>2, <1>7, SeenKept
<1>8. ASSUME Accepted(c), Put(c, new)
      PROVE  /\ Api(c)' = new /\ Len(hist'[c]) \in Nat /\ HistGrows
             /\ \A m \in Machines : m # c => Api(m)' = Api(m)
  <2>1. CASE new = Api(c)
    <3>1. UNCHANGED hist
      BY <2>1, <1>8 DEF Put
    <3>2. HistGrows /\ \A m \in Machines : Api(m)' = Api(m)
      BY <3>1 DEF Api, HistGrows
    <3>3. Len(hist[c]) \in Nat
      BY <1>2
    <3> QED BY <3>1, <3>2, <3>3, <2>1
  <2>2. CASE new # Api(c)
    <3>1. Emit(c, new)
      BY <2>2, <1>8 DEF Put
    <3>2. /\ Api(c)' = new /\ Len(hist'[c]) \in Nat
          /\ \A m \in Machines : m # c => hist'[m] = hist[m]
      BY <3>1, <1>1, <1>4, EmitEffect
    <3>3. HistGrows
      BY <3>1, <1>1, <1>4, EmitGrows
    <3> QED BY <3>2, <3>3 DEF Api
  <2> QED BY <2>1, <2>2
<1>9. CASE Accepted(c) /\ Put(c, new) /\ mobj' = new /\ seen' = Len(hist'[c])
  <2>1. SeenOK'
    BY <1>2, <1>8, <1>9, SeenRefreshed
  <2> QED BY <2>1, <1>4, <1>6, <1>8, <1>9
<1>10. CASE Accepted(c) /\ Put(c, new) /\ mobj' = n /\ UNCHANGED seen
  <2>1. SeenOK'
    BY <1>1, <1>2, <1>3, <1>8, <1>10, SeenKept
  <2> QED BY <2>1, <1>4, <1>6, <1>8, <1>10
<1> QED BY <1>7, <1>9, <1>10 DEF UpdateMachineStatus, n, new

\* patchFinalizer does the same: it touches no status, but for the one of an object
\* that was not there.
LEMMA FinalizerKeepsPhase ==
  ASSUME IInv, SeenOK, NEW c \in Machines, cur = c, NEW f \in BOOLEAN,
         NEW ok, NEW missing, NEW err, PatchFinalizer(f, ok, missing, err)
  PROVE  /\ SeenOK'
         /\ \A m \in Machines : m # c => Api(m)' = Api(m)
         /\ Api(c).del /\ Api(c)'.ex => Api(c)'.phase = Api(c).phase
<1> DEFINE new == IF Cached(c).ex THEN FinalizerPatched(c, f) ELSE Recreated(f)
<1>1. TypeOK /\ HistType /\ HistoriesOK /\ cur' = c
  BY DEF IInv, TypeOK, HistType, PatchFinalizer
<1>2. /\ hist[c] \in Seq(Objects) /\ Len(hist[c]) > 0 /\ Len(hist[c]) \in 1..Len(hist[c])
      /\ Api(c) \in Objects /\ Cached(c) \in Objects
      /\ Api(c) = hist[c][Len(hist[c])] /\ HistOK(hist[c])
  BY <1>1, CurrentVersions DEF LastOf, HistoriesOK
<1>3. Api(c).del => Api(c).ex
  BY <1>2 DEF HistOK, HasFin
<1>4. /\ new \in Objects /\ Stored(new) \in Objects
      /\ Stored(new).ex => Stored(new) = new
      /\ Cached(c).ex => new.phase = Api(c).phase
  BY <1>2, GoneType DEF FinalizerPatched, Recreated, Fresh, Gone, Objects, Stored
<1> HIDE DEF new
<1>5. CASE UNCHANGED <<hist, mobj, seen>>
  <2>1. HistGrows /\ \A m \in Machines : Api(m)' = Api(m)
    BY <1>5 DEF HistGrows, Api
  <2> QED BY <2>1, <1>1, <1>5, SeenKept
<1>6. ASSUME Cached(c).ex = Api(c).ex, Put(c, Stored(new))
      PROVE  /\ Api(c)' = Stored(new) /\ Len(hist'[c]) \in Nat /\ HistGrows
             /\ \A m \in Machines : m # c => Api(m)' = Api(m)
             /\ Api(c).del /\ Api(c)'.ex => Api(c)'.phase = Api(c).phase
  <2>1. /\ Api(c)' = Stored(new) /\ Len(hist'[c]) \in Nat /\ HistGrows
        /\ \A m \in Machines : m # c => Api(m)' = Api(m)
    <3>1. CASE Stored(new) = Api(c)
      <4>1. UNCHANGED hist
        BY <3>1, <1>6 DEF Put
      <4>2. HistGrows /\ \A m \in Machines : Api(m)' = Api(m)
        BY <4>1 DEF Api, HistGrows
      <4>3. Len(hist[c]) \in Nat
        BY <1>2
      <4> QED BY <4>1, <4>2, <4>3, <3>1
    <3>2. CASE Stored(new) # Api(c)
      <4>1. Emit(c, Stored(new))
        BY <3>2, <1>6 DEF Put
      <4>2. /\ Api(c)' = Stored(new) /\ Len(hist'[c]) \in Nat
            /\ \A m \in Machines : m # c => hist'[m] = hist[m]
        BY <4>1, <1>1, <1>4, EmitEffect
      <4>3. HistGrows
        BY <4>1, <1>1, <1>4, EmitGrows
      <4> QED BY <4>2, <4>3 DEF Api
    <3> QED BY <3>1, <3>2
  <2> QED BY <2>1, <1>3, <1>4, <1>6
<1>7. CASE /\ Cached(c).ex = Api(c).ex /\ Put(c, Stored(new))
           /\ mobj' = new /\ seen' = Len(hist'[c])
  <2>1. SeenOK'
    BY <1>1, <1>4, <1>6, <1>7, SeenRefreshed
  <2> QED BY <2>1, <1>6, <1>7
<1>8. CASE /\ Cached(c).ex = Api(c).ex /\ Put(c, Stored(new)) /\ UNCHANGED <<mobj, seen>>
  <2>1. SeenOK'
    BY <1>1, <1>6, <1>8, SeenKept
  <2> QED BY <2>1, <1>6, <1>8
<1> QED BY <1>5, <1>7, <1>8 DEF PatchFinalizer, new

-----------------------------------------------------------------------------
(* One step.                                                               *)

\* The phase Terminating of a Machine whose deletion the cache shows stays.
PhaseStays ==
  \A m \in Machines :
    Cached(m).del /\ Api(m).del /\ Api(m).phase = "Terminating" /\ Api(m)'.ex
      => Api(m)'.phase = "Terminating"

\* The writes of the worker keep it.
LEMMA WritesKeepPhase ==
  ASSUME IInv, SeenOK,
         \/ InitPhase \/ FinalStatus \/ SetInitialConditions \/ GetMachineCreationArgs
         \/ CommitCreated \/ CommitTerminating \/ EnsureFinalizer \/ RemoveFinalizer
  PROVE  SeenOK' /\ PhaseStays
<1>0. mobj \in Objects /\ mobj.conds \in Conditions
  BY DEF IInv, TypeOK, Objects
<1>1. PICK c \in Machines : cur = c
  BY DEF IInv, TypeOK, InitPhase, FinalStatus, SetInitialConditions,
         GetMachineCreationArgs, CommitCreated, CommitTerminating, EnsureFinalizer,
         RemoveFinalizer
<1>2. CASE EnsureFinalizer \/ RemoveFinalizer
  <2>1. PICK f \in BOOLEAN, ok \in PcStates, missing \in PcStates, err \in PcStates :
          PatchFinalizer(f, ok, missing, err)
    BY <1>2 DEF EnsureFinalizer, RemoveFinalizer, PcStates
  <2>2. /\ SeenOK'
        /\ \A m \in Machines : m # c => Api(m)' = Api(m)
        /\ Api(c).del /\ Api(c)'.ex => Api(c)'.phase = Api(c).phase
    BY <2>1, <1>1, FinalizerKeepsPhase
  <2> QED BY <2>2 DEF PhaseStays
<1>3. CASE \/ InitPhase \/ FinalStatus \/ SetInitialConditions \/ GetMachineCreationArgs
           \/ CommitCreated \/ CommitTerminating
  <2>1. PICK o \in Objects, ok \in PcStates, err \in PcStates :
          o.del = mobj.del /\ UpdateMachineStatus(o, ok, err)
    <3>1. CASE InitPhase \/ FinalStatus \/ CommitCreated \/ CommitTerminating
      BY <3>1, <1>0 DEF InitPhase, FinalStatus, CommitCreated, CommitTerminating, PcStates
    <3>2. /\ [mobj EXCEPT !.conds = InitialConditions(@)] \in Objects
          /\ [mobj EXCEPT !.conds = MarkTrue(ScriptMarked(@), "AuthDataReady")] \in Objects
      <4>1. "MachineCreating" \in Reasons /\ "WaitingForScriptRun" \in Reasons
        BY DEF Reasons
      <4>2. InitialConditions(mobj.conds) \in Conditions /\ ScriptMarked(mobj.conds) \in Conditions
        BY <4>1, <1>0, MarkType DEF InitialConditions, ScriptMarked
      <4>3. MarkTrue(ScriptMarked(mobj.conds), "AuthDataReady") \in Conditions
        BY <4>1, <4>2, MarkType
      <4> QED BY <4>2, <4>3, <1>0, WithConditions
    <3>3. CASE SetInitialConditions
      BY <3>2, <3>3, <1>0 DEF SetInitialConditions, PcStates, Objects
    <3>4. CASE GetMachineCreationArgs
      BY <3>2, <3>4, <1>0 DEF GetMachineCreationArgs, PcStates, Objects
    <3> QED BY <3>1, <3>3, <3>4, <1>3
  <2>2. /\ SeenOK'
        /\ \A m \in Machines : m # c => Api(m)' = Api(m)
        /\ Cached(c).del /\ Api(c).del /\ Api(c).phase = "Terminating"
             => Api(c)'.phase = "Terminating"
    BY <2>1, <1>1, StatusKeepsPhase
  <2> QED BY <2>2 DEF PhaseStays
<1> QED BY <1>2, <1>3

\* The steps that write nothing keep it, whether or not they change machineObj.
LEMMA SilentKeepsPhase ==
  ASSUME IInv, SeenOK, cur' = cur, UNCHANGED <<hist, seen>>, mobj'.del = mobj.del
  PROVE  SeenOK' /\ PhaseStays
<1>1. HistGrows /\ TypeOK
  BY DEF HistGrows, IInv
<1>2. \A m \in Machines : Api(m)' = Api(m)
  BY DEF Api
<1> QED BY <1>1, <1>2, SeenKept DEF PhaseStays

\* A user's step appends one version: an edit keeps the status, and a Machine that is
\* there is not created, one under deletion is not deleted again.
LEMMA UserKeepsPhase ==
  ASSUME IInv, SeenOK, NEW m \in Machines, UserCreate(m) \/ UserEdit(m) \/ UserDelete(m)
  PROVE  SeenOK' /\ PhaseStays
<1>1. TypeOK /\ HistType /\ HistoriesOK /\ UNCHANGED <<cur, seen, mobj>>
  BY DEF IInv, TypeOK, HistType, UserCreate, UserEdit, UserDelete
<1>2. /\ Api(m) \in Objects /\ HistOK(hist[m]) /\ Api(m) = hist[m][Len(hist[m])]
      /\ Len(hist[m]) \in 1..Len(hist[m])
  BY <1>1, CurrentVersions DEF HistoriesOK, LastOf
<1>3. Api(m).del => Api(m).ex
  BY <1>2 DEF HistOK, HasFin
<1>4. PICK new \in Objects : Emit(m, new) /\ (Api(m).del => new = Api(m))
  <2>1. CASE UserCreate(m)
    BY <2>1, <1>3, GoneType DEF UserCreate
  <2>2. CASE UserEdit(m)
    BY <2>2, <1>2 DEF UserEdit
  <2>3. CASE UserDelete(m)
    <3>1. (IF Api(m).fin THEN [Api(m) EXCEPT !.del = TRUE] ELSE Gone) \in Objects
      BY <1>2, GoneType DEF Objects
    <3> QED BY <3>1, <2>3 DEF UserDelete
  <2> QED BY <2>1, <2>2, <2>3
<1>5. /\ Api(m)' = new /\ HistGrows
      /\ \A x \in Machines : x # m => hist'[x] = hist[x]
  BY <1>1, <1>4, EmitEffect, EmitGrows
<1>6. SeenOK'
  BY <1>1, <1>5, SeenKept
<1>7. \A x \in Machines : x # m => Api(x)' = Api(x)
  BY <1>5 DEF Api
<1>8. ASSUME NEW x \in Machines, Api(x).del PROVE Api(x)'.phase = Api(x).phase
  BY <1>4, <1>5, <1>7, <1>8
<1> QED BY <1>6, <1>8 DEF PhaseStays

\* The informer moves the position of machineObj's version along.
LEMMA DeliverKeepsPhase ==
  ASSUME IInv, SeenOK, NEW m \in Machines, Deliver(m)
  PROVE  SeenOK' /\ PhaseStays
<1>1. /\ hist[m] \in Seq(Objects) /\ Len(hist[m]) > 1 /\ HistOK(hist[m]) /\ seen \in Nat
      /\ hist'[m] = Tail(hist[m]) /\ \A x \in Machines : x # m => hist'[x] = hist[x]
      /\ UNCHANGED <<cur, mobj>>
      /\ seen' = IF m = cur /\ seen > 0 THEN seen - 1 ELSE seen
  BY DEF IInv, TypeOK, HistoriesOK, Deliver
<1>2. /\ LastOf(Tail(hist[m])) = LastOf(hist[m]) /\ Len(Tail(hist[m])) = Len(hist[m]) - 1
  BY <1>1, TailHistory
<1>3. \A x \in Machines : Api(x)' = Api(x)
  BY <1>1, <1>2 DEF Api, LastOf
<1>4. CASE cur = m
  <2>1. seen <= Len(hist[m]) /\ (seen > 0 /\ hist[m][seen].ex => mobj.del = hist[m][seen].del)
    BY <1>4 DEF SeenOK
  <2>2. seen' \in Nat /\ seen' <= Len(hist'[m]) /\ (seen' > 0 => hist'[m][seen'] = hist[m][seen])
    BY <2>1, <1>1, <1>2, <1>4
  <2>3. seen' > 0 => seen > 0
    BY <1>1, <1>4
  <2>4. SeenOK'
    BY <2>1, <2>2, <2>3, <1>1, <1>4 DEF SeenOK
  <2> QED BY <2>4, <1>3 DEF PhaseStays
<1>5. CASE cur # m
  <2>1. SeenOK'
    BY <1>1, <1>5 DEF SeenOK
  <2> QED BY <2>1, <1>3 DEF PhaseStays
<1> QED BY <1>4, <1>5

\* An annotation leaves the status alone and refreshes machineObj.
LEMMA AnnotationKeepsPhase ==
  ASSUME IInv, SeenOK, PatchAnnotation
  PROVE  SeenOK' /\ PhaseStays
<1>1. PICK c \in Machines : cur = c
  BY DEF IInv, TypeOK, PatchAnnotation
<1>2. TypeOK /\ HistType /\ cur' = c /\ Api(c) \in Objects
  BY <1>1, CurrentVersions DEF IInv, TypeOK, HistType, PatchAnnotation
<1>3. CASE UNCHANGED <<hist, mobj, seen>>
  BY <1>1, <1>2, <1>3, SilentKeepsPhase
<1>4. ASSUME Emit(c, Api(c))
      PROVE  /\ HistGrows /\ Len(hist'[c]) \in Nat
             /\ \A x \in Machines : Api(x)' = Api(x)
  <2>1. /\ Api(c)' = Api(c) /\ Len(hist'[c]) \in Nat /\ HistGrows
        /\ \A x \in Machines : x # c => hist'[x] = hist[x]
    BY <1>2, <1>4, EmitEffect, EmitGrows
  <2> QED BY <2>1 DEF Api
<1>5. CASE Emit(c, Api(c)) /\ mobj' = Api(c) /\ seen' = Len(hist'[c])
  <2>1. SeenOK'
    BY <1>2, <1>4, <1>5, SeenRefreshed
  <2> QED BY <2>1, <1>4, <1>5 DEF PhaseStays
<1>6. CASE Emit(c, Api(c)) /\ UNCHANGED <<mobj, seen>>
  <2>1. SeenOK'
    BY <1>1, <1>2, <1>4, <1>6, SeenKept
  <2> QED BY <2>1, <1>4, <1>6 DEF PhaseStays
<1> QED BY <1>1, <1>3, <1>5, <1>6 DEF PatchAnnotation

\* Every step keeps machineObj in step with its version, and the phase.
LEMMA StepKeepsPhase == IInv /\ SeenOK /\ [Next]_vars => SeenOK' /\ PhaseStays
<1> SUFFICES ASSUME IInv, SeenOK, [Next]_vars PROVE SeenOK' /\ PhaseStays
  OBVIOUS
<1>0. TypeOK /\ HistType /\ mobj \in Objects
  BY DEF IInv, TypeOK, HistType
<1>1. CASE \/ InitPhase \/ FinalStatus \/ SetInitialConditions \/ GetMachineCreationArgs
           \/ CommitCreated \/ CommitTerminating \/ EnsureFinalizer \/ RemoveFinalizer
  BY <1>1, WritesKeepPhase
<1>2. CASE \/ SkipCreation \/ CreatePrerequisites \/ ScriptSecretMissing \/ AuthSecretMissing
           \/ CreateSucceeds \/ CreateFails \/ ScriptNotDue \/ ScpFails \/ ScpSucceeds
           \/ ReadFails \/ ReadResult \/ DeleteDockerMachine \/ CleanupAWSResources
           \/ DeleteAzureResourceGroup \/ ReconcileGetFails
  <2>1. UNCHANGED <<hist, cur, seen>>
    BY <1>2 DEF SkipCreation, CreatePrerequisites, ScriptSecretMissing, AuthSecretMissing,
         CreateSucceeds, CreateFails, ScriptNotDue, ScpFails, ScpSucceeds, ReadFails, ReadResult,
         DeleteDockerMachine, CleanupAWSResources, DeleteAzureResourceGroup, ReconcileGetFails
  <2>2. mobj' = mobj \/ \E c : mobj' = [mobj EXCEPT !.conds = c]
    BY <1>2 DEF SkipCreation, CreatePrerequisites, ScriptSecretMissing, AuthSecretMissing,
         CreateSucceeds, CreateFails, ScriptNotDue, ScpFails, ScpSucceeds, ReadFails, ReadResult,
         DeleteDockerMachine, CleanupAWSResources, DeleteAzureResourceGroup, ReconcileGetFails
  <2>3. mobj'.del = mobj.del
    BY <2>2, <1>0 DEF Objects
  <2> QED BY <2>1, <2>3, SilentKeepsPhase
<1>3. CASE PatchAnnotation
  BY <1>3, AnnotationKeepsPhase
<1>4. ASSUME NEW m \in Machines,
             \/ Deliver(m) \/ Reconcile(m) \/ UserCreate(m) \/ UserEdit(m) \/ UserDelete(m)
      PROVE  SeenOK' /\ PhaseStays
  <2>1. CASE Reconcile(m)
    <3>1. /\ cur' = m /\ mobj' = hist[m][1] /\ seen' = 1 /\ UNCHANGED hist
          /\ Len(hist[m]) \in Nat /\ Len(hist[m]) > 0
      BY <2>1, <1>0, CurrentVersions DEF Reconcile
    <3>2. SeenOK'
      BY <3>1 DEF SeenOK
    <3>3. \A x \in Machines : Api(x)' = Api(x)
      BY <3>1 DEF Api
    <3> QED BY <3>2, <3>3 DEF PhaseStays
  <2> QED BY <2>1, <1>4, DeliverKeepsPhase, UserKeepsPhase
<1>5. ASSUME NEW n \in Names, ScriptWrites(n) PROVE SeenOK' /\ PhaseStays
  BY <1>5, SilentKeepsPhase DEF ScriptWrites
<1>6. CASE Crash
  <2>1. cur' \notin Machines
    BY <1>6, ConstantsAssumption DEF Crash
  <2>2. \A x \in Machines : Api(x)' = Api(x)
    BY <1>6 DEF Crash, Api
  <2> QED BY <2>1, <2>2 DEF SeenOK, PhaseStays
<1>7. CASE UNCHANGED vars
  BY <1>7, SilentKeepsPhase DEF vars
<1> QED BY <1>1, <1>2, <1>3, <1>4, <1>5, <1>6, <1>7 DEF Next, WorkerStep

-----------------------------------------------------------------------------

\* Once the cache shows that a Machine is being deleted, no status patch takes its
\* phase away from Terminating: machineObj is either of a version that is marked for
\* deletion too, or its resourceVersion makes the server refuse the patch of
\* updateMachineStatus.
THEOREM TerminatingStays == Spec => TerminatingIsFinal
<1>1. Init => SeenOK
  BY ConstantsAssumption DEF Init, SeenOK
<1>2. IInv /\ SeenOK /\ [Next]_vars => SeenOK'
  BY StepKeepsPhase
<1>3. IInv /\ SeenOK /\ [Next]_vars => [PhaseStays]_vars
  BY StepKeepsPhase
<1>4. Spec => [][PhaseStays]_vars
  BY <1>1, <1>2, <1>3, InvariantHolds, PTL DEF Spec
<1> QED BY <1>4 DEF PhaseStays, TerminatingIsFinal

-----------------------------------------------------------------------------
(* What the copies of a status say: the stored versions, the cached one    *)
(* among them, and machineObj.                                             *)

\* The stages in which the worker takes its Machine for one that is not deleted.
Working == Building \cup {"finalizer", "created", "script", "read", "final"}

\* machineObj is of a Machine under deletion and says what its version says.
Echo ==
  /\ mobj.del
  /\ seen > 0 /\ hist[cur][seen].ex => mobj.conds = hist[cur][seen].conds

\* SetSummary leaves MachineReady alone and has nothing to do a second time.
LEMMA SummaryTwice ==
  ASSUME NEW c \in Conditions
  PROVE  /\ SetSummary(c)["MachineReady"] = c["MachineReady"]
         /\ SetSummary(SetSummary(c)) = SetSummary(c)
<1> DEFINE s == SetSummary(c)
           F == Failing(c)
<1>1. s \in Conditions
  BY SummaryType
<1>2. \A t \in ConditionTypes : t # "Ready" => s[t] = c[t]
  BY DEF SetSummary, Conditions
<1>3. \A i \in 1..4 : ConditionsOrder[i] \in ConditionTypes /\ ConditionsOrder[i] # "Ready"
  BY DEF ConditionsOrder, ConditionTypes
<1>4. Present(s) = Present(c) /\ Failing(s) = F
  BY <1>2, <1>3 DEF Present, Failing
<1>5. ASSUME F # {} PROVE Min(F) \in 1..4
  <2>1. F \subseteq {1, 2, 3, 4}
    BY DEF Failing, Present
  <2>2. \E x \in F : \A y \in F : x <= y
    <3>1. F = {1, 2, 3, 4} \cap F
      BY <2>1
    <3> QED BY <1>5, <3>1
  <2>3. Min(F) \in F
    BY <2>2 DEF Min
  <2> QED BY <2>1, <2>3
<1>6. F # {} => s[ConditionsOrder[Min(F)]] = c[ConditionsOrder[Min(F)]]
  BY <1>2, <1>3, <1>5
<1>7. SetSummary(s) = s
  <2>1. CASE Present(c) = {}
    BY <2>1, <1>4 DEF SetSummary
  <2>2. CASE Present(c) # {} /\ F = {}
    <3>1. s = [c EXCEPT !["Ready"] = "True"]
      BY <2>2 DEF SetSummary
    <3>2. SetSummary(s) = [s EXCEPT !["Ready"] = "True"]
      BY <2>2, <1>4 DEF SetSummary
    <3> QED BY <3>1, <3>2, <1>1 DEF Conditions
  <2>3. CASE Present(c) # {} /\ F # {}
    <3> DEFINE r == c[ConditionsOrder[Min(F)]]
    <3>1. s = [c EXCEPT !["Ready"] = r]
      BY <2>3 DEF SetSummary
    <3>2. SetSummary(s) = [s EXCEPT !["Ready"] = s[ConditionsOrder[Min(F)]]]
      BY <2>3, <1>4 DEF SetSummary
    <3>3. SetSummary(s) = [s EXCEPT !["Ready"] = r]
      BY <3>2, <1>6, <2>3
    <3> HIDE DEF r
    <3> QED BY <3>1, <3>3, <1>1 DEF Conditions
  <2> QED BY <2>1, <2>2, <2>3
<1>8. s["MachineReady"] = c["MachineReady"]
  BY <1>2 DEF ConditionTypes
<1> QED BY <1>7, <1>8

\* The stored version is the last of the history, and there is a first one.
LEMMA LastVersion ==
  ASSUME HistType, NEW m \in Machines
  PROVE  /\ Len(hist[m]) \in Nat /\ Len(hist[m]) \in 1..Len(hist[m])
         /\ 1 \in 1..Len(hist[m])
         /\ Api(m) = hist[m][Len(hist[m])]
<1>1. hist[m] \in Seq(Objects) /\ Len(hist[m]) > 0
  BY CurrentVersions
<1>2. Len(hist[m]) \in Nat
  BY <1>1
<1>3. Len(hist[m]) \in 1..Len(hist[m]) /\ 1 \in 1..Len(hist[m])
  BY <1>1, <1>2
<1>4. Api(m) = hist[m][Len(hist[m])]
  BY CurrentVersions DEF LastOf
<1> QED BY <1>2, <1>3, <1>4

\* machineObj echoes its version while others are added.
LEMMA EchoKept ==
  ASSUME TypeOK, SeenOK, HistGrows, cur \in Machines, Echo, UNCHANGED <<cur, seen, mobj>>
  PROVE  Echo'
<1>1. hist[cur] \in Seq(Objects) /\ seen \in Nat /\ seen <= Len(hist[cur])
  BY DEF TypeOK, SeenOK
<1>2. seen > 0 => hist'[cur][seen] = hist[cur][seen]
  <2>1. CASE hist'[cur] = hist[cur]
    BY <2>1
  <2>2. ASSUME NEW new \in Objects, hist'[cur] = Append(hist[cur], new)
        PROVE  seen > 0 => hist'[cur][seen] = hist[cur][seen]
    BY <2>2, <1>1
  <2> QED BY <2>1, <2>2 DEF HistGrows
<1> QED BY <1>2 DEF Echo

-----------------------------------------------------------------------------
(* The conditions of every copy.                                           *)

\* The operator has begun to report conditions; it reports both the host and the
\* script; the summary is up to date.
Begun(o) == o.conds # NoConditions
Complete(o) ==
  Begun(o) => o.conds["MachineReady"] # "Absent" /\ o.conds["ClusterOperationComplete"] # "Absent"
Settled(o) == SetSummary(o.conds) = o.conds

\* Version j of history h: conditions are reported only under the finalizer, both of
\* them and with their summary, and not taken back while the finalizer is there.
StoredOK(h, j) ==
  /\ Begun(h[j]) => HasFin(h[j]) /\ Complete(h[j]) /\ Settled(h[j])
  /\ \A i \in 1..j : Begun(h[i]) /\ HasFin(h[j]) => Begun(h[j])

CopiesOK == \A m \in Machines : \A j \in 1..Len(hist[m]) : StoredOK(hist[m], j)

\* The stages that follow SetInitialConditions, and those that need what it has set.
Guarded == Working \ {"finalizer"}
Reporting == {"prereq", "args", "create", "created", "read"}

\* What machineObj may say: it has no conditions that the stored object could not
\* have, unless it is the echo of a deletion.
LocalOK ==
  /\ pc \in Guarded => Held(cur)
  /\ pc = "prereq" => Begun(Api(cur))
  /\ pc \in Reporting => Begun(mobj)
  /\ cur \in Machines =>
       /\ Complete(mobj)
       /\ seen > 0 /\ Begun(hist[cur][seen]) => Begun(mobj)
       /\ Begun(mobj) => Held(cur) \/ Echo
       /\ Begun(mobj) /\ pc \in Terminating => Echo

CopyInv == CopiesOK /\ LocalOK

-----------------------------------------------------------------------------

\* SetSummary touches nothing but Ready, and sets it only where there is a condition.
LEMMA SummaryOnly ==
  ASSUME NEW c \in Conditions
  PROVE  /\ \A t \in ConditionTypes : t # "Ready" => SetSummary(c)[t] = c[t]
         /\ SetSummary(c) = NoConditions <=> c = NoConditions
<1>1. \A t \in ConditionTypes : t # "Ready" => SetSummary(c)[t] = c[t]
  BY DEF SetSummary, Conditions
<1>2. CASE Present(c) = {}
  <2>1. SetSummary(c) = c
    BY <1>2 DEF SetSummary
  <2> QED BY <2>1, <1>1
<1>3. CASE Present(c) # {}
  <2>1. PICK i \in 1..4 : c[ConditionsOrder[i]] # "Absent"
    BY <1>3 DEF Present
  <2>2. ConditionsOrder[i] \in ConditionTypes /\ ConditionsOrder[i] # "Ready"
    BY DEF ConditionsOrder, ConditionTypes
  <2>3. SetSummary(c)[ConditionsOrder[i]] # "Absent"
    BY <2>1, <2>2, <1>1
  <2> QED BY <2>1, <2>2, <2>3, <1>1 DEF NoConditions
<1> QED BY <1>2, <1>3

\* What updateMachineStatus commits says what the copy said, with the summary.
LEMMA SummarisedSays ==
  ASSUME NEW o \in Objects
  PROVE  /\ Begun(Summarised(o)) <=> Begun(o)
         /\ Complete(o) => Complete(Summarised(o))
         /\ Settled(Summarised(o))
         /\ Settled(o) => Summarised(o).conds = o.conds
         /\ Summarised(o).del = o.del
<1>1. /\ Summarised(o).conds = SetSummary(o.conds) /\ o.conds \in Conditions
      /\ Summarised(o).del = o.del
  BY DEF Summarised, Objects
<1>2. /\ "MachineReady" \in ConditionTypes /\ "ClusterOperationComplete" \in ConditionTypes
  BY DEF ConditionTypes
<1>3. Begun(Summarised(o)) <=> Begun(o)
  BY <1>1, SummaryOnly DEF Begun
<1>4. Complete(o) => Complete(Summarised(o))
  BY <1>1, <1>2, <1>3, SummaryOnly DEF Complete
<1>5. Settled(Summarised(o)) /\ (Settled(o) => Summarised(o).conds = o.conds)
  BY <1>1, SummaryTwice DEF Settled
<1> QED BY <1>1, <1>3, <1>4, <1>5

\* A Machine that is not there, and a new one, have no conditions.
LEMMA NotBegun == ~Begun(Gone) /\ ~Begun(Fresh)
BY DEF Begun, Gone, Fresh

\* What may be stored for m.
MayStore(m, new) ==
  /\ Begun(new) => HasFin(new) /\ Complete(new) /\ Settled(new)
  /\ \A i \in 1..Len(hist[m]) : Begun(hist[m][i]) /\ HasFin(new) => Begun(new)

\* Such a write keeps the versions as they have to be.
LEMMA StoreKeeps ==
  ASSUME HistType, CopiesOK, NEW m \in Machines, NEW new \in Objects, MayStore(m, new),
         hist' = hist \/ Emit(m, new)
  PROVE  CopiesOK'
<1>1. CASE hist' = hist
  BY <1>1 DEF CopiesOK
<1>2. CASE Emit(m, new)
  <2> DEFINE h == hist[m]
             a == Append(h, new)
  <2>1. /\ hist'[m] = a /\ \A x \in Machines : x # m => hist'[x] = hist[x]
    BY <1>2, EmitEffect
  <2>2. h \in Seq(Objects) /\ Len(h) \in Nat /\ \A j \in 1..Len(h) : StoredOK(h, j)
    BY CurrentVersions, LastVersion DEF CopiesOK
  <2>3. /\ Begun(new) => HasFin(new) /\ Complete(new) /\ Settled(new)
        /\ \A i \in 1..Len(h) : Begun(h[i]) /\ HasFin(new) => Begun(new)
    BY DEF MayStore
  <2> HIDE DEF h
  <2>4. /\ Len(a) = Len(h) + 1 /\ a[Len(h) + 1] = new
        /\ \A j \in 1..Len(h) : a[j] = h[j]
    BY <2>2
  <2> HIDE DEF a
  <2>5. ASSUME NEW j \in 1..Len(h) PROVE StoredOK(a, j)
    <3>1. a[j] = h[j] /\ \A i \in 1..j : i \in 1..Len(h) /\ a[i] = h[i]
      BY <2>2, <2>4
    <3> QED BY <3>1, <2>2 DEF StoredOK
  <2>6. StoredOK(a, Len(h) + 1)
    <3>1. \A i \in 1..(Len(h) + 1) : (i \in 1..Len(h) /\ a[i] = h[i]) \/ a[i] = new
      BY <2>2, <2>4
    <3> QED BY <3>1, <2>3, <2>4 DEF StoredOK
  <2>7. \A j \in 1..Len(a) : j \in 1..Len(h) \/ j = Len(h) + 1
    BY <2>2, <2>4
  <2>8. ASSUME NEW x \in Machines, NEW j \in 1..Len(hist'[x]) PROVE StoredOK(hist'[x], j)
    <3>1. CASE x = m
      BY <3>1, <2>1, <2>5, <2>6, <2>7, <2>8
    <3>2. CASE x # m
      BY <3>2, <2>1, <2>8 DEF CopiesOK
    <3> QED BY <3>1, <3>2
  <2> QED BY <2>8 DEF CopiesOK
<1> QED BY <1>1, <1>2

\* The stored object: conditions only under the finalizer, and there while any version
\* has them and the finalizer is there.
LEMMA StoredSays ==
  ASSUME HistType, CopiesOK, NEW m \in Machines
  PROVE  /\ Begun(Api(m)) => HasFin(Api(m)) /\ Complete(Api(m)) /\ Settled(Api(m))
         /\ \A i \in 1..Len(hist[m]) : Begun(hist[m][i]) /\ HasFin(Api(m)) => Begun(Api(m))
         /\ Begun(Cached(m)) => HasFin(Cached(m)) /\ Complete(Cached(m)) /\ Settled(Cached(m))
<1>1. /\ Len(hist[m]) \in 1..Len(hist[m]) /\ Api(m) = hist[m][Len(hist[m])]
  BY LastVersion
<1>2. 1 \in 1..Len(hist[m]) /\ Cached(m) = hist[m][1]
  BY CurrentVersions, LastVersion
<1>3. StoredOK(hist[m], Len(hist[m])) /\ StoredOK(hist[m], 1)
  BY <1>1, <1>2 DEF CopiesOK
<1> QED BY <1>1, <1>2, <1>3 DEF StoredOK

\* What updateMachineStatus may store: a copy has conditions only where the stored
\* object may have them, or says again what the server has.
LEMMA StatusMayStore ==
  ASSUME IInv, SeenOK, CopyInv, NEW c \in Machines, cur = c, NEW o \in Objects,
         Cached(c).ex, Accepted(c), Complete(o), Begun(mobj) => Begun(o),
         Begun(o) => Held(c) \/ (Echo /\ o = mobj)
  PROVE  /\ MayStore(c, StatusPatched(c, Summarised(o)))
         /\ Held(c) /\ Begun(o) => Begun(StatusPatched(c, Summarised(o)))
<1> DEFINE n == Summarised(o)
           new == StatusPatched(c, n)
<1>1. /\ TypeOK /\ HistType /\ seen \in Nat /\ CopiesOK /\ LocalOK
  BY DEF IInv, TypeOK, HistType, CopyInv
<1>2. /\ hist[c] \in Seq(Objects) /\ Len(hist[c]) \in Nat /\ Len(hist[c]) > 0
      /\ Api(c) \in Objects /\ Cached(c) \in Objects
      /\ Api(c) = hist[c][Len(hist[c])] /\ Cached(c) = hist[c][1]
      /\ Len(hist[c]) \in 1..Len(hist[c]) /\ 1 \in 1..Len(hist[c])
  BY <1>1, CurrentVersions, LastVersion
<1>3. /\ Begun(n) <=> Begun(o)
      /\ Complete(n) /\ Settled(n)
      /\ Settled(o) => n.conds = o.conds
  BY SummarisedSays
<1>4. /\ HasFin(new) <=> HasFin(Api(c))
      /\ new.conds = IF n.conds = Cached(c).conds THEN Api(c).conds ELSE n.conds
  BY <1>2 DEF StatusPatched, Objects, HasFin
<1>5. /\ Begun(Api(c)) => HasFin(Api(c)) /\ Complete(Api(c)) /\ Settled(Api(c))
      /\ \A i \in 1..Len(hist[c]) : Begun(hist[c][i]) /\ HasFin(Api(c)) => Begun(Api(c))
  BY <1>1, StoredSays
<1> HIDE DEF n, new
<1>6. seen \in {1, Len(hist[c])} /\ seen \in 1..Len(hist[c]) /\ seen > 0 /\ hist[c][seen].ex
  <2>1. seen \in {1, Len(hist[c])} /\ Api(c).ex
    BY DEF Accepted
  <2>2. CASE seen = 1
    BY <2>2, <1>2
  <2>3. CASE seen = Len(hist[c])
    BY <2>1, <2>3, <1>2
  <2> QED BY <2>1, <2>2, <2>3
<1>7. CASE new.conds = Api(c).conds
  <2>1. /\ Begun(new) <=> Begun(Api(c))
        /\ Complete(Api(c)) => Complete(new)
        /\ Settled(Api(c)) => Settled(new)
    BY <1>7 DEF Begun, Complete, Settled
  <2>2. MayStore(c, new)
    BY <2>1, <1>4, <1>5 DEF MayStore
  <2>3. ASSUME Held(c), Begun(o) PROVE Begun(new)
    <3>1. CASE n.conds = Cached(c).conds
      <4>1. Begun(hist[c][1])
        BY <3>1, <2>3, <1>2, <1>3 DEF Begun
      <4>2. HasFin(Api(c))
        BY <2>3 DEF Held, HasFin
      <4> QED BY <4>1, <4>2, <2>1, <1>2, <1>5
    <3>2. CASE n.conds # Cached(c).conds
      <4>1. new.conds = n.conds
        BY <3>2, <1>4
      <4> QED BY <4>1, <2>3, <1>3 DEF Begun
    <3> QED BY <3>1, <3>2
  <2> QED BY <2>2, <2>3 DEF n, new
<1>8. CASE new.conds # Api(c).conds
  <2>1. new.conds = n.conds /\ n.conds # Cached(c).conds /\ n.conds # Api(c).conds
    BY <1>4, <1>8
  <2>2. /\ Begun(new) <=> Begun(o)
        /\ Complete(new) /\ Settled(new)
    BY <2>1, <1>3 DEF Begun, Complete, Settled
  <2>3. n.conds # hist[c][seen].conds
    BY <2>1, <1>2, <1>6
  <2>4. Begun(o) => HasFin(new)
    <3>1. CASE Held(c)
      BY <3>1, <1>4 DEF Held, HasFin
    <3>2. ASSUME Begun(o), Echo, o = mobj PROVE FALSE
      <4>1. o.conds = hist[c][seen].conds
        BY <3>2, <1>6 DEF Echo
      <4>2. Begun(hist[c][seen])
        BY <4>1, <3>2 DEF Begun
      <4>3. Settled(hist[c][seen])
        BY <4>2, <1>1, <1>6 DEF CopiesOK, StoredOK
      <4>4. Settled(o)
        BY <4>1, <4>3 DEF Settled
      <4> QED BY <4>1, <4>4, <2>3, <1>3
    <3> QED BY <3>1, <3>2
  <2>5. ASSUME NEW i \in 1..Len(hist[c]), Begun(hist[c][i]), HasFin(new) PROVE Begun(new)
    <3>1. SUFFICES ASSUME ~Begun(o) PROVE FALSE
      BY <2>2
    <3>2. ~Begun(hist[c][seen])
      BY <3>1, <1>1, <1>6 DEF LocalOK
    <3>3. n.conds = hist[c][seen].conds
      BY <3>1, <3>2, <1>3 DEF Begun
    <3> QED BY <3>3, <2>3
  <2> QED BY <2>2, <2>4, <2>5 DEF MayStore, n, new
<1> QED BY <1>7, <1>8

\* The version of machineObj stays in the history while others are added.
LEMMA SeenStays ==
  ASSUME TypeOK, SeenOK, HistGrows, cur \in Machines, seen > 0
  PROVE  hist'[cur][seen] = hist[cur][seen]
<1>1. hist[cur] \in Seq(Objects) /\ seen \in Nat /\ seen <= Len(hist[cur])
  BY DEF TypeOK, SeenOK
<1>2. CASE hist'[cur] = hist[cur]
  BY <1>2
<1>3. ASSUME NEW new \in Objects, hist'[cur] = Append(hist[cur], new)
      PROVE  hist'[cur][seen] = hist[cur][seen]
  BY <1>1, <1>3
<1> QED BY <1>2, <1>3 DEF HistGrows

\* The stages that updateMachineStatus may lead to, from the current one and with a
\* copy that has begun or not.
Onward(o, ok, err) ==
  /\ err \in {"idle", "requeue"}
  /\ ok \in Guarded => pc \in Guarded
  /\ ok \in Terminating => pc \in Terminating
  /\ ok \in Reporting => Begun(o)

\* updateMachineStatus keeps the copies as they have to be.
LEMMA StatusKeepsCopies ==
  ASSUME IInv, SeenOK, CopyInv, NEW c \in Machines, cur = c, NEW o \in Objects,
         o.del = mobj.del, Complete(o), Begun(mobj) => Begun(o),
         Begun(o) => Held(c) \/ (Echo /\ o = mobj),
         Begun(o) /\ pc \in Terminating => Echo /\ o = mobj,
         NEW ok \in PcStates, NEW err, Onward(o, ok, err), UpdateMachineStatus(o, ok, err)
  PROVE  CopyInv'
<1> DEFINE n == Summarised(o)
           new == StatusPatched(c, n)
<1>1. /\ TypeOK /\ HistType /\ HistoriesOK /\ seen \in Nat /\ CopiesOK /\ LocalOK /\ cur' = c
  BY DEF IInv, TypeOK, HistType, CopyInv, UpdateMachineStatus
<1>2. /\ Api(c) \in Objects /\ Cached(c) \in Objects
      /\ Api(c) = hist[c][Len(hist[c])] /\ Cached(c) = hist[c][1]
      /\ Len(hist[c]) \in 1..Len(hist[c]) /\ 1 \in 1..Len(hist[c])
  BY <1>1, CurrentVersions, LastVersion
<1>3. n \in Objects /\ new \in Objects /\ SameKind(new, Api(c))
  BY <1>2, SummarisedType DEF StatusPatched, Objects, SameKind
<1>4. /\ Begun(n) <=> Begun(o)
      /\ Complete(n) /\ n.del = o.del
      /\ Settled(o) => n.conds = o.conds
  BY SummarisedSays
<1>5. Cached(c).ex /\ Accepted(c) =>
        MayStore(c, new) /\ (Held(c) /\ Begun(o) => Begun(new))
  BY StatusMayStore
<1> HIDE DEF n, new
<1>6. (Held(c)' <=> Held(c)) /\ pc' \in {ok, err}
  <2>1. KindStep(c) /\ pc' \in {ok, err}
    BY <1>1, StatusStep
  <2> QED BY <2>1, <1>1, KindStepKeeps
<1>7. /\ pc' \in Guarded => pc \in Guarded /\ Held(c)'
      /\ pc' \in Terminating => pc \in Terminating
      /\ pc' \in Reporting => Begun(o) /\ pc' = ok /\ pc' # err /\ Held(c)
  <2>1. err \notin Guarded /\ err \notin Terminating /\ err \notin Reporting
    BY DEF Onward, Guarded, Working, Building, Terminating, Reporting
  <2>2. Reporting \subseteq Guarded
    BY DEF Reporting, Guarded, Working, Building
  <2> QED BY <2>1, <2>2, <1>1, <1>6 DEF Onward, LocalOK
<1>8. Echo /\ Begun(mobj) /\ o = mobj /\ seen > 0 /\ hist[c][seen].ex
        => n.conds = hist[c][seen].conds
  <2>1. SUFFICES ASSUME Echo, Begun(mobj), o = mobj, seen > 0, hist[c][seen].ex
                 PROVE  n.conds = hist[c][seen].conds
    OBVIOUS
  <2>2. seen \in 1..Len(hist[c])
    <3>1. seen <= Len(hist[c])
      BY DEF SeenOK
    <3>2. seen \in Nat /\ seen > 0 /\ Len(hist[c]) \in Nat
      BY <2>1, <1>1, LastVersion
    <3> QED BY <3>1, <3>2
  <2>3. mobj.conds = hist[c][seen].conds
    BY <2>1 DEF Echo
  <2>4. Settled(hist[c][seen])
    BY <2>1, <2>2, <2>3, <1>1 DEF CopiesOK, StoredOK, Begun
  <2>5. Settled(o)
    BY <2>1, <2>3, <2>4 DEF Settled
  <2> QED BY <2>1, <2>3, <2>5, <1>4
<1>9. ASSUME HistGrows, seen' = seen, mobj' \in {o, n}, CopiesOK',
             pc' \in Reporting => mobj' = n,
             pc' = "prereq" => Begun(Api(c)')
      PROVE  CopyInv'
  <2>1. seen > 0 => hist'[c][seen] = hist[c][seen]
    BY <1>1, <1>9, SeenStays
  <2>2. (Begun(mobj') <=> Begun(o)) /\ Complete(mobj') /\ mobj'.del = mobj.del
    BY <1>4, <1>9
  <2>3. Begun(o) /\ Echo /\ o = mobj => Echo'
    BY <2>1, <2>2, <1>1, <1>8, <1>9 DEF Echo
  <2>4. /\ pc' \in Guarded => Held(c)'
        /\ pc' = "prereq" => Begun(Api(c)')
        /\ pc' \in Reporting => Begun(mobj')
    BY <2>2, <1>7, <1>9
  <2>5. seen > 0 /\ Begun(hist'[c][seen]) => Begun(mobj')
    BY <2>1, <2>2, <1>1 DEF LocalOK
  <2>6. /\ Begun(mobj') => Held(c)' \/ Echo'
        /\ Begun(mobj') /\ pc' \in Terminating => Echo'
    BY <2>2, <2>3, <1>6, <1>7
  <2>7. LocalOK'
    BY <2>2, <2>4, <2>5, <2>6, <1>1, <1>9 DEF LocalOK, Held, Api
  <2> QED BY <2>7, <1>9 DEF CopyInv
<1>10. CASE UNCHANGED <<hist, seen>> /\ mobj' = o /\ pc' = err
  <2>1. HistGrows /\ CopiesOK' /\ pc' \notin Reporting /\ pc' # "prereq"
    BY <1>1, <1>7, <1>10 DEF HistGrows, CopiesOK, Reporting
  <2> QED BY <2>1, <1>9, <1>10
<1>11. CASE UNCHANGED <<hist, seen>> /\ mobj' = n /\ pc' = err
  <2>1. HistGrows /\ CopiesOK' /\ pc' \notin Reporting /\ pc' # "prereq"
    BY <1>1, <1>7, <1>11 DEF HistGrows, CopiesOK, Reporting
  <2> QED BY <2>1, <1>9, <1>11
<1>12. CASE UNCHANGED <<hist, seen>> /\ mobj' = n /\ SameStatus(n, Cached(c))
  <2>1. HistGrows /\ CopiesOK' /\ Api(c)' = Api(c)
    BY <1>1, <1>12 DEF HistGrows, CopiesOK, Api
  <2>2. ASSUME pc' = "prereq" PROVE Begun(Api(c))
    <3>1. Begun(o) /\ Held(c)
      BY <2>2, <1>7 DEF Reporting
    <3>2. Begun(hist[c][1])
      BY <3>1, <1>2, <1>4, <1>12 DEF SameStatus, Begun
    <3>3. HasFin(Api(c))
      BY <3>1 DEF Held, HasFin
    <3> QED BY <3>2, <3>3, <1>1, <1>2, StoredSays
  <2> QED BY <2>1, <2>2, <1>9, <1>12
<1>13. ASSUME Cached(c).ex, Accepted(c), Put(c, new)
       PROVE  /\ CopiesOK' /\ HistGrows /\ Api(c)' = new
              /\ hist'[c][Len(hist'[c])] = new
  <2>1. hist' = hist \/ Emit(c, new)
    BY <1>13 DEF Put
  <2>2. CopiesOK'
    BY <2>1, <1>1, <1>3, <1>5, <1>13, StoreKeeps
  <2>3. HistGrows
    BY <2>1, <1>1, <1>3, EmitGrows
  <2>4. Api(c)' = new
    <3>1. CASE new = Api(c)
      BY <3>1, <1>13 DEF Put, Api
    <3>2. CASE new # Api(c)
      BY <3>2, <1>1, <1>3, <1>13, EmitEffect DEF Put
    <3> QED BY <3>1, <3>2
  <2> QED BY <2>2, <2>3, <2>4 DEF Api
<1>14. CASE /\ Cached(c).ex /\ Accepted(c) /\ Put(c, new) /\ mobj' = n /\ UNCHANGED seen
            /\ pc' = err
  <2>1. pc' \notin Reporting /\ pc' # "prereq"
    BY <1>7, <1>14 DEF Reporting
  <2> QED BY <2>1, <1>9, <1>13, <1>14
<1>15. CASE /\ Cached(c).ex /\ Accepted(c) /\ Put(c, new)
            /\ mobj' = new /\ seen' = Len(hist'[c])
  <2>1. /\ Begun(new) => HasFin(new) /\ Complete(new)
        /\ Held(c) /\ Begun(o) => Begun(new)
    BY <1>5, <1>15 DEF MayStore
  <2>2. Complete(new)
    BY <2>1 DEF Complete
  <2>3. /\ pc' = "prereq" => Begun(Api(c)')
        /\ pc' \in Reporting => Begun(mobj')
    BY <2>1, <1>7, <1>13, <1>15 DEF Reporting
  <2>4. Begun(new) => Held(c)'
    BY <2>1, <1>13, <1>15 DEF Held, HasFin
  <2>5. ASSUME Begun(new), pc' \in Terminating PROVE Echo'
    <3>1. ~Live(Api(c))
      BY <2>5, <1>2, <1>7 DEF IInv, WorkerOK, NoLive
    <3>2. new.del
      BY <3>1, <2>1, <2>5, <1>3 DEF Live, HasFin, SameKind
    <3> QED BY <3>2, <1>1, <1>13, <1>15 DEF Echo
  <2>6. LocalOK'
    BY <2>2, <2>3, <2>4, <2>5, <1>1, <1>7, <1>13, <1>15 DEF LocalOK, Held, Api
  <2> QED BY <2>6, <1>13, <1>15 DEF CopyInv
<1> QED BY <1>10, <1>11, <1>12, <1>14, <1>15 DEF UpdateMachineStatus, n, new

-----------------------------------------------------------------------------

\* Marking a condition that updateMachineStatus has begun to report leaves the others.
LEMMA MarkSays ==
  ASSUME NEW c \in Conditions, NEW t \in ConditionTypes, NEW v, v # "Absent"
  PROVE  /\ [c EXCEPT ![t] = v] # NoConditions
         /\ \A u \in ConditionTypes : c[u] # "Absent" => [c EXCEPT ![t] = v][u] # "Absent"
         /\ [c EXCEPT ![t] = v][t] # "Absent"
<1>1. \A u \in ConditionTypes : [c EXCEPT ![t] = v][u] = IF u = t THEN v ELSE c[u]
  BY DEF Conditions
<1>2. NoConditions[t] = "Absent"
  BY DEF NoConditions
<1> QED BY <1>1, <1>2

\* No condition that c has is missing from d.
Keeps(c, d) == \A u \in ConditionTypes : c[u] # "Absent" => d[u] # "Absent"

\* Marking a condition takes none away.
LEMMA MarkKeeps ==
  ASSUME NEW b, NEW c \in Conditions, Keeps(b, c), NEW t \in ConditionTypes, NEW r \in Reasons
  PROVE  /\ MarkTrue(c, t) \in Conditions /\ Keeps(b, MarkTrue(c, t))
         /\ MarkFalse(c, t, r) \in Conditions /\ Keeps(b, MarkFalse(c, t, r))
<1>1. MarkTrue(c, t) \in Conditions /\ MarkFalse(c, t, r) \in Conditions
  BY MarkType
<1>2. r # "Absent"
  BY DEF Reasons
<1>3. /\ \A u \in ConditionTypes : c[u] # "Absent" => MarkTrue(c, t)[u] # "Absent"
      /\ \A u \in ConditionTypes : c[u] # "Absent" => MarkFalse(c, t, r)[u] # "Absent"
  BY <1>2, MarkSays DEF MarkTrue, MarkFalse
<1> QED BY <1>1, <1>3 DEF Keeps

\* A copy that has begun stays complete while conditions are marked.
LEMMA MarkedComplete ==
  ASSUME NEW o \in Objects, NEW c \in Conditions, Complete(o), Begun(o), Keeps(o.conds, c)
  PROVE  Begun([o EXCEPT !.conds = c]) /\ Complete([o EXCEPT !.conds = c])
<1>1. [o EXCEPT !.conds = c].conds = c
  BY DEF Objects
<1>2. c["MachineReady"] # "Absent" /\ c["ClusterOperationComplete"] # "Absent"
  BY DEF Complete, ConditionTypes, Keeps
<1>3. NoConditions["MachineReady"] = "Absent"
  BY DEF NoConditions, ConditionTypes
<1> QED BY <1>1, <1>2, <1>3 DEF Begun, Complete

\* What SetInitialConditions and GetMachineCreationArgs put into machineObj.
LEMMA ArgumentsSay ==
  ASSUME NEW o \in Objects
  PROVE  LET i == [o EXCEPT !.conds = InitialConditions(@)]
             a == [o EXCEPT !.conds = MarkTrue(ScriptMarked(@), "AuthDataReady")]
         IN  /\ i \in Objects /\ i.del = o.del /\ Begun(i) /\ Complete(i)
             /\ a \in Objects /\ a.del = o.del
             /\ Begun(o) /\ Complete(o) => Begun(a) /\ Complete(a)
<1> DEFINE i == [o EXCEPT !.conds = InitialConditions(@)]
           a == [o EXCEPT !.conds = MarkTrue(ScriptMarked(@), "AuthDataReady")]
<1>1. o.conds \in Conditions
  BY DEF Objects
<1>2. /\ "MachineCreating" \in Reasons /\ "WaitingForScriptRun" \in Reasons
      /\ {"MachineReady", "ClusterOperationComplete", "AuthDataReady", "ScriptReady"}
           \subseteq ConditionTypes
  BY DEF Reasons, ConditionTypes
<1>3. InitialConditions(o.conds) \in Conditions /\ ScriptMarked(o.conds) \in Conditions
  BY <1>1, <1>2, MarkType DEF InitialConditions, ScriptMarked
<1>4. MarkTrue(ScriptMarked(o.conds), "AuthDataReady") \in Conditions
  BY <1>2, <1>3, MarkType
<1>5. /\ i \in Objects /\ i.del = o.del /\ i.conds = InitialConditions(o.conds)
      /\ a \in Objects /\ a.del = o.del /\ a.conds = MarkTrue(ScriptMarked(o.conds), "AuthDataReady")
  BY <1>3, <1>4, WithConditions DEF Objects
<1>6. /\ InitialConditions(o.conds)["MachineReady"] = "MachineCreating"
      /\ InitialConditions(o.conds)["ClusterOperationComplete"] = "WaitingForScriptRun"
  BY <1>1, <1>2 DEF InitialConditions, MarkFalse, Conditions
<1>7. NoConditions["MachineReady"] = "Absent"
  BY <1>2 DEF NoConditions
<1>8. Begun(i) /\ Complete(i)
  BY <1>5, <1>6, <1>7 DEF Begun, Complete
<1>9. Keeps(o.conds, ScriptMarked(o.conds))
  BY <1>1, <1>2, MarkKeeps DEF ScriptMarked, Keeps
<1>10. Keeps(o.conds, MarkTrue(ScriptMarked(o.conds), "AuthDataReady"))
  BY <1>2, <1>3, <1>9, MarkKeeps
<1>11. Begun(o) /\ Complete(o) => Begun(a) /\ Complete(a)
  BY <1>4, <1>10, MarkedComplete
<1> QED BY <1>5, <1>8, <1>11

\* The status updates of the worker.
LEMMA StatusActionsCopies ==
  ASSUME IInv, SeenOK, CopyInv,
         \/ InitPhase \/ FinalStatus \/ SetInitialConditions \/ GetMachineCreationArgs
         \/ CommitCreated \/ CommitTerminating
  PROVE  CopyInv'
<1>1. PICK c \in Machines : cur = c
  BY DEF IInv, TypeOK, InitPhase, FinalStatus, SetInitialConditions,
         GetMachineCreationArgs, CommitCreated, CommitTerminating
<1>2. /\ mobj \in Objects /\ LocalOK /\ Complete(mobj)
      /\ Begun(mobj) => Held(c) \/ Echo
      /\ Begun(mobj) /\ pc \in Terminating => Echo
      /\ pc \in Guarded => Held(c) /\ pc \notin Terminating
  BY <1>1 DEF IInv, TypeOK, CopyInv, LocalOK, Guarded, Working, Building, Terminating
<1>3. CASE InitPhase \/ FinalStatus \/ CommitCreated \/ CommitTerminating
  <2>1. PICK ok \in PcStates, err \in PcStates :
          Onward(mobj, ok, err) /\ UpdateMachineStatus(mobj, ok, err)
    BY <1>3 DEF InitPhase, FinalStatus, CommitCreated, CommitTerminating, PcStates, Onward,
         Guarded, Working, Building, Terminating, Reporting
  <2> QED BY <2>1, <1>1, <1>2, StatusKeepsCopies
<1>4. CASE SetInitialConditions
  <2> DEFINE o == [mobj EXCEPT !.conds = InitialConditions(@)]
             ok == IF Driver[cur] = "amazonec2" THEN "prereq" ELSE "args"
  <2>1. o \in Objects /\ o.del = mobj.del /\ Begun(o) /\ Complete(o)
    BY <1>2, ArgumentsSay
  <2>2. UpdateMachineStatus(o, ok, "requeue") /\ pc \in Guarded /\ ok \in PcStates
    BY <1>4 DEF SetInitialConditions, Guarded, Working, Building, PcStates
  <2> HIDE DEF o
  <2>3. Onward(o, ok, "requeue")
    BY <2>1, <2>2 DEF Onward, Terminating
  <2> QED BY <2>1, <2>2, <2>3, <1>1, <1>2, StatusKeepsCopies
<1>5. CASE GetMachineCreationArgs
  <2> DEFINE o == [mobj EXCEPT !.conds = MarkTrue(ScriptMarked(@), "AuthDataReady")]
  <2>1. /\ UpdateMachineStatus(o, "create", "requeue") /\ pc \in Guarded /\ "create" \in PcStates
        /\ Begun(mobj)
    BY <1>2, <1>5 DEF GetMachineCreationArgs, Guarded, Working, Building, PcStates, LocalOK, Reporting
  <2>2. o \in Objects /\ o.del = mobj.del /\ Begun(o) /\ Complete(o)
    BY <2>1, <1>2, ArgumentsSay
  <2> HIDE DEF o
  <2>3. Onward(o, "create", "requeue")
    BY <2>1, <2>2 DEF Onward, Terminating
  <2> QED BY <2>1, <2>2, <2>3, <1>1, <1>2, StatusKeepsCopies
<1> QED BY <1>3, <1>4, <1>5

\* The steps that write nothing: machineObj is changed only under the finalizer, and
\* only by marking conditions.
LEMMA SilentKeepsCopies ==
  ASSUME IInv, SeenOK, CopyInv, UNCHANGED <<hist, cur, seen>>,
         pc' \in Guarded => pc \in Guarded,
         pc' = "prereq" => pc = "prereq",
         pc' \in Reporting => Begun(mobj'),
         pc' \in Terminating => pc \in Terminating,
         mobj' = mobj \/ (pc \in Guarded /\ Begun(mobj') /\ Complete(mobj'))
  PROVE  CopyInv'
<1>1. CopiesOK' /\ LocalOK
  BY DEF CopyInv, CopiesOK
<1>2. /\ pc' \in Guarded => Held(cur)'
      /\ pc' = "prereq" => Begun(Api(cur))'
  BY <1>1 DEF LocalOK, Held, Api, Begun
<1>3. ASSUME cur \in Machines
      PROVE  /\ Complete(mobj')
             /\ seen > 0 /\ Begun(hist[cur][seen]) => Begun(mobj')
             /\ Begun(mobj') => Held(cur)' \/ Echo'
             /\ Begun(mobj') /\ pc' \in Terminating => Echo'
  <2>1. Held(cur)' <=> Held(cur)
    BY DEF Held, Api
  <2>2. CASE mobj' = mobj
    <3>1. Echo => Echo'
      BY <2>2 DEF Echo
    <3> QED BY <3>1, <2>1, <2>2, <1>1, <1>3 DEF LocalOK
  <2>3. CASE pc \in Guarded /\ Begun(mobj') /\ Complete(mobj')
    <3>1. pc' \notin Terminating
      BY <2>3 DEF Guarded, Working, Building, Terminating
    <3> QED BY <3>1, <2>1, <2>3, <1>1 DEF LocalOK
  <2> QED BY <2>2, <2>3
<1>4. LocalOK'
  <2>1. /\ pc' \in Guarded => Held(cur)'
        /\ pc' = "prereq" => Begun(Api(cur))'
        /\ pc' \in Reporting => Begun(mobj')
    BY <1>2
  <2> QED BY <2>1, <1>3 DEF LocalOK
<1> QED BY <1>1, <1>4 DEF CopyInv

\* The steps of a reconcile that mark a condition.
LEMMA MarksKeepCopies ==
  ASSUME IInv, SeenOK, CopyInv,
         \/ ScriptSecretMissing \/ AuthSecretMissing \/ CreateSucceeds \/ CreateFails
         \/ ScpFails \/ ReadResult
  PROVE  CopyInv'
<1>1. /\ LocalOK /\ cur \in Machines /\ mobj \in Objects /\ mobj.conds \in Conditions
      /\ Complete(mobj) /\ UNCHANGED <<hist, cur, seen>>
      /\ pc \in Guarded /\ pc' \notin Terminating /\ pc' # "prereq"
  <2>1. /\ pc # "idle" /\ UNCHANGED <<hist, cur, seen>>
        /\ pc \in Guarded /\ pc' \notin Terminating /\ pc' # "prereq"
    BY DEF ScriptSecretMissing, AuthSecretMissing, CreateSucceeds, CreateFails, ScpFails,
           ReadResult, Guarded, Working, Building, Terminating
  <2>2. LocalOK /\ cur \in Machines /\ mobj \in Objects
    BY <2>1 DEF IInv, TypeOK, CopyInv
  <2> QED BY <2>1, <2>2 DEF LocalOK, Objects
<1>2. Begun(mobj)
  <2>1. CASE ScpFails
    <3>1. mobj.conds["MachineReady"] = "True"
      BY <2>1 DEF ScpFails, ScriptDue, IsConditionTrue
    <3>2. NoConditions["MachineReady"] = "Absent"
      BY DEF NoConditions, ConditionTypes
    <3> QED BY <3>1, <3>2 DEF Begun
  <2>2. CASE ~ScpFails
    BY <2>2, <1>1 DEF ScriptSecretMissing, AuthSecretMissing, CreateSucceeds, CreateFails,
         ReadResult, LocalOK, Reporting
  <2> QED BY <2>1, <2>2
<1>3. /\ {"MachineReady", "ClusterOperationComplete", "AuthDataReady", "ScriptReady",
          "MachineCreating"} \subseteq ConditionTypes
      /\ {"ScriptDataNotFound", "AuthDataNotFound", "MachineCreationFailed",
          "WaitingForScriptCompletion", "ClusterOperationFailed"} \subseteq Reasons
  BY DEF ConditionTypes, Reasons
<1>4. PICK c \in Conditions : mobj' = [mobj EXCEPT !.conds = c] /\ Keeps(mobj.conds, c)
  <2>1. Keeps(mobj.conds, mobj.conds)
    BY DEF Keeps
  <2>2. PICK b \in Conditions : b = mobj.conds
    BY <1>1
  <2>3. CASE ScriptSecretMissing
    <3>1. mobj' = [mobj EXCEPT !.conds = MarkFalse(b, "ScriptReady", "ScriptDataNotFound")]
      BY <2>2, <2>3 DEF ScriptSecretMissing
    <3> QED BY <3>1, <2>1, <2>2, <1>3, MarkKeeps
  <2>4. CASE AuthSecretMissing
    <3> DEFINE s == ScriptMarked(b)
    <3>1. s \in Conditions /\ Keeps(b, s)
      BY <2>1, <2>2, <1>3, MarkKeeps DEF ScriptMarked
    <3>2. mobj' = [mobj EXCEPT !.conds = MarkFalse(s, "AuthDataReady", "AuthDataNotFound")]
      BY <2>2, <2>4 DEF AuthSecretMissing
    <3> HIDE DEF s
    <3> QED BY <3>1, <3>2, <2>2, <1>3, MarkKeeps
  <2>5. CASE CreateSucceeds \/ CreateFails
    <3> DEFINE s == Creating(b)
    <3>1. s \in Conditions /\ Keeps(b, s)
      BY <2>1, <2>2, <1>3, MarkKeeps DEF Creating
    <3>2. mobj' \in {[mobj EXCEPT !.conds = MarkTrue(s, "MachineReady")],
                     [mobj EXCEPT !.conds = MarkFalse(s, "MachineReady", "MachineCreationFailed")]}
      BY <2>2, <2>5 DEF CreateSucceeds, CreateFails
    <3> HIDE DEF s
    <3> QED BY <3>1, <3>2, <2>2, <1>3, MarkKeeps
  <2>6. CASE ScpFails
    <3>1. mobj' = [mobj EXCEPT !.conds =
                     MarkFalse(b, "ClusterOperationComplete", "WaitingForScriptCompletion")]
      BY <2>2, <2>6 DEF ScpFails
    <3> QED BY <3>1, <2>1, <2>2, <1>3, MarkKeeps
  <2>7. CASE ReadResult
    <3>1. mobj' = [mobj EXCEPT !.conds = Verdict(b)]
      BY <2>2, <2>7 DEF ReadResult
    <3>2. Verdict(b) \in Conditions /\ Keeps(b, Verdict(b))
      BY <2>1, <2>2, <1>3, MarkKeeps DEF Verdict
    <3> QED BY <3>1, <3>2, <2>2
  <2> QED BY <2>3, <2>4, <2>5, <2>6, <2>7
<1>5. Begun(mobj') /\ Complete(mobj')
  BY <1>1, <1>2, <1>4, MarkedComplete
<1> QED BY <1>1, <1>5, SilentKeepsCopies

\* Reconcile takes the cached version into machineObj.  If that has conditions, then
\* it is of a deletion, or the stored object is held.
LEMMA ReconcileKeepsCopies ==
  ASSUME IInv, CopyInv, NEW m \in Machines, Reconcile(m)
  PROVE  CopyInv'
<1>1. /\ HistType /\ HistOK(hist[m]) /\ UNCHANGED hist /\ cur' = m /\ seen' = 1 /\ CopiesOK
      /\ mobj' = Cached(m) /\ Cached(m).ex /\ pc' = AfterGet(Cached(m))
  BY DEF IInv, TypeOK, HistType, HistoriesOK, CopyInv, Reconcile
<1>2. /\ Len(hist[m]) \in Nat /\ 1 \in 1..Len(hist[m])
      /\ Cached(m) \in Objects /\ Cached(m) = hist[m][1]
      /\ Held(m) <=> HasFin(LastOf(hist[m]))
  <2>1. Len(hist[m]) \in Nat /\ 1 \in 1..Len(hist[m])
    BY <1>1, LastVersion
  <2>2. /\ Cached(m) \in Objects /\ Cached(m) = hist[m][1]
        /\ Held(m) <=> HasFin(LastOf(hist[m]))
    BY <1>1, CurrentVersions
  <2> QED BY <2>1, <2>2
<1>3. /\ pc' \in Guarded => pc' = "initConds" /\ hist[m][1].fin /\ ~hist[m][1].del
      /\ pc' \in Terminating => hist[m][1].del
      /\ pc' \notin Reporting
  BY <1>1, <1>2 DEF AfterGet, Guarded, Working, Building, Terminating, Reporting, Objects
<1>4. HasFin(hist[m][1]) => hist[m][1].del \/ Held(m)
  BY <1>1, <1>2 DEF HistOK, NoLive, Live, HasFin
<1>5. Begun(hist[m][1]) => HasFin(hist[m][1]) /\ Complete(hist[m][1])
  BY <1>1, <1>2 DEF CopiesOK, StoredOK
<1>6. Held(m)' <=> Held(m)
  BY <1>1 DEF Held, Api
<1>7. hist[m][1].del => Echo'
  BY <1>1, <1>2 DEF Echo
<1>8. Complete(hist[m][1])
  BY <1>5 DEF Complete
<1>9. pc' \in Guarded => Held(m)'
  BY <1>1, <1>2, <1>3, <1>4, <1>6 DEF HasFin
<1>10. LocalOK'
  BY <1>1, <1>2, <1>3, <1>4, <1>5, <1>6, <1>7, <1>8, <1>9 DEF LocalOK, Reporting, Held, Api
<1> QED BY <1>1, <1>10 DEF CopyInv, CopiesOK

\* A step that leaves machineObj alone, and adds at most a version under which the
\* Machine is as held as before and has begun if it had.
LEMMA OthersKeepCopies ==
  ASSUME IInv, SeenOK, CopyInv, CopiesOK', HistGrows, UNCHANGED <<cur, seen, mobj>>,
         \A x \in Machines : (Held(x) => Held(x)') /\ (Held(x) /\ Begun(Api(x)) => Begun(Api(x)')),
         pc' \in Guarded => pc \in Guarded,
         pc' = "prereq" => pc = "prereq",
         pc' \in Reporting => pc \in Reporting,
         pc' \in Terminating => pc \in Terminating
  PROVE  CopyInv'
<1>1. LocalOK /\ TypeOK
  BY DEF CopyInv, IInv
<1>2. CASE cur \notin Machines
  <2>1. pc = "idle"
    BY <1>1, <1>2 DEF TypeOK
  <2>2. pc' \notin Guarded /\ pc' \notin Reporting /\ pc' # "prereq"
    BY <2>1 DEF Guarded, Working, Building, Reporting
  <2> QED BY <2>2, <1>2 DEF LocalOK, CopyInv
<1>3. ASSUME NEW c \in Machines, cur = c PROVE CopyInv'
  <2>1. Echo => Echo'
    BY <1>1, <1>3, EchoKept
  <2>2. seen > 0 => hist'[c][seen] = hist[c][seen]
    BY <1>1, <1>3, SeenStays
  <2>3. /\ pc' \in Guarded => Held(c)'
        /\ pc' \in Reporting => Begun(mobj)
    BY <1>1, <1>3 DEF LocalOK
  <2>4. pc' = "prereq" => Begun(Api(c)')
    <3>1. "prereq" \in Guarded
      BY DEF Guarded, Working, Building
    <3> QED BY <3>1, <1>1, <1>3 DEF LocalOK
  <2>5. /\ Complete(mobj)
        /\ seen > 0 /\ Begun(hist'[c][seen]) => Begun(mobj)
        /\ Begun(mobj) => Held(c)' \/ Echo'
        /\ Begun(mobj) /\ pc' \in Terminating => Echo'
    BY <2>1, <2>2, <1>1, <1>3 DEF LocalOK
  <2>6. LocalOK'
    BY <2>3, <2>4, <2>5, <1>3 DEF LocalOK, Held, Api
  <2> QED BY <2>6 DEF CopyInv
<1> QED BY <1>2, <1>3

\* A user's step adds a version with the status of the stored one, or without any.
LEMMA UserKeepsCopies ==
  ASSUME IInv, SeenOK, CopyInv, NEW m \in Machines,
         UserCreate(m) \/ UserEdit(m) \/ UserDelete(m)
  PROVE  CopyInv'
<1>1. /\ TypeOK /\ HistType /\ CopiesOK /\ UNCHANGED <<cur, seen, mobj, pc>>
  BY DEF IInv, TypeOK, HistType, CopyInv, UserCreate, UserEdit, UserDelete
<1>2. /\ Api(m) \in Objects
      /\ Begun(Api(m)) => HasFin(Api(m)) /\ Complete(Api(m)) /\ Settled(Api(m))
      /\ \A i \in 1..Len(hist[m]) : Begun(hist[m][i]) /\ HasFin(Api(m)) => Begun(Api(m))
  BY <1>1, CurrentVersions, StoredSays
<1>3. ~Begun(Gone) /\ ~Begun(Fresh) /\ ~HasFin(Gone) /\ ~HasFin(Fresh)
  BY NotBegun DEF Gone, Fresh, HasFin
<1>4. PICK new \in Objects :
        /\ Emit(m, new) /\ MayStore(m, new)
        /\ HasFin(Api(m)) => HasFin(new) /\ new.conds = Api(m).conds
  <2>1. CASE UserCreate(m)
    <3>1. Emit(m, Fresh) /\ ~HasFin(Api(m))
      BY <2>1 DEF UserCreate, HasFin
    <3> QED BY <3>1, <1>3, GoneType DEF MayStore
  <2>2. CASE UserEdit(m)
    BY <2>2, <1>2 DEF UserEdit, MayStore
  <2>3. CASE UserDelete(m) /\ Api(m).fin
    <3> DEFINE d == [Api(m) EXCEPT !.del = TRUE]
    <3>1. d \in Objects /\ d.conds = Api(m).conds /\ d.ex = Api(m).ex /\ d.fin = Api(m).fin
      BY <1>2 DEF Objects
    <3>2. Emit(m, d)
      BY <2>3 DEF UserDelete
    <3> HIDE DEF d
    <3>3. (HasFin(d) <=> HasFin(Api(m))) /\ (Begun(d) <=> Begun(Api(m)))
      BY <3>1 DEF HasFin, Begun
    <3>4. /\ Complete(Api(m)) => Complete(d)
          /\ Settled(Api(m)) => Settled(d)
      BY <3>1 DEF Complete, Settled, Begun
    <3>5. MayStore(m, d)
      BY <3>3, <3>4, <1>2 DEF MayStore
    <3> QED BY <3>1, <3>2, <3>3, <3>5
  <2>4. CASE UserDelete(m) /\ ~Api(m).fin
    <3>1. Emit(m, Gone) /\ ~HasFin(Api(m))
      BY <2>4 DEF UserDelete, HasFin
    <3> QED BY <3>1, <1>3, GoneType DEF MayStore
  <2> QED BY <2>1, <2>2, <2>3, <2>4
<1>5. CopiesOK' /\ HistGrows
  BY <1>1, <1>4, StoreKeeps, EmitGrows
<1>6. ASSUME NEW x \in Machines
      PROVE  (Held(x) => Held(x)') /\ (Held(x) /\ Begun(Api(x)) => Begun(Api(x)'))
  <2>1. Api(m)' = new /\ \A y \in Machines : y # m => hist'[y] = hist[y]
    BY <1>1, <1>4, EmitEffect
  <2>2. CASE x = m
    BY <2>1, <2>2, <1>4 DEF Held, HasFin, Begun
  <2>3. CASE x # m
    BY <2>1, <2>3 DEF Held, Api
  <2> QED BY <2>2, <2>3
<1> QED BY <1>1, <1>5, <1>6, OthersKeepCopies

\* Without its oldest version a history has every other one a place lower.
LEMMA TailMovesDown ==
  ASSUME NEW h \in Seq(Objects), Len(h) > 1
  PROVE  \A j \in 1..(Len(h) - 1) : Tail(h)[j] = h[j + 1]
OBVIOUS

\* The version that machineObj was read or written at moves down with the others.
LEMMA SeenDelivered ==
  ASSUME IInv, SeenOK, NEW m \in Machines, Deliver(m), NEW c \in Machines, cur = c
  PROVE  seen' > 0 => seen > 0 /\ hist'[c][seen'] = hist[c][seen]
<1>1. /\ hist[m] \in Seq(Objects) /\ Len(hist[m]) > 1 /\ seen \in Nat
      /\ hist'[m] = Tail(hist[m]) /\ (\A x \in Machines : x # m => hist'[x] = hist[x])
      /\ seen' = IF m = cur /\ seen > 0 THEN seen - 1 ELSE seen
  BY DEF IInv, TypeOK, Deliver
<1>2. CASE c # m
  BY <1>1, <1>2
<1>3. CASE c = m
  <2>1. PICK h : h = hist[m]
    OBVIOUS
  <2>2. h \in Seq(Objects) /\ Len(h) > 1 /\ hist'[m] = Tail(h) /\ seen <= Len(h)
    BY <2>1, <1>1, <1>3 DEF SeenOK
  <2>3. PICK t : t = Tail(h)
    OBVIOUS
  <2>4. \A j \in 1..(Len(h) - 1) : t[j] = h[j + 1]
    BY <2>2, <2>3, TailMovesDown
  <2>5. Len(h) \in Nat
    BY <2>2
  <2>6. ASSUME seen' > 0 PROVE seen > 0 /\ t[seen'] = h[seen]
    <3>1. seen' = seen - 1 /\ seen > 0
      BY <2>6, <1>1, <1>3
    <3>2. seen - 1 \in 1..(Len(h) - 1) /\ (seen - 1) + 1 = seen
      BY <3>1, <2>6, <2>2, <2>5, <1>1
    <3> QED BY <3>1, <3>2, <2>4
  <2> QED BY <2>1, <2>2, <2>3, <2>6, <1>3
<1> QED BY <1>2, <1>3

\* The informer drops the oldest version.
LEMMA DeliverKeepsCopies ==
  ASSUME IInv, SeenOK, CopyInv, NEW m \in Machines, Deliver(m)
  PROVE  CopyInv'
<1> DEFINE h == hist[m]
           t == Tail(h)
<1>1. /\ h \in Seq(Objects) /\ Len(h) > 1 /\ HistOK(h) /\ seen \in Nat /\ CopiesOK /\ LocalOK
      /\ hist'[m] = t /\ (\A x \in Machines : x # m => hist'[x] = hist[x])
      /\ UNCHANGED <<cur, mobj, pc>>
      /\ seen' = IF m = cur /\ seen > 0 THEN seen - 1 ELSE seen
  BY DEF IInv, TypeOK, HistoriesOK, CopyInv, Deliver
<1>2. LastOf(t) = LastOf(h)
  BY <1>1, TailHistory
<1>3. \A x \in Machines : Api(x)' = Api(x)
  BY <1>1, <1>2 DEF Api, LastOf
<1> HIDE DEF h
<1>4. Len(t) = Len(h) - 1 /\ \A j \in 1..Len(t) : t[j] = h[j + 1] /\ j + 1 \in 1..Len(h)
  BY <1>1
<1> HIDE DEF t
<1>5. ASSUME NEW j \in 1..Len(t) PROVE StoredOK(t, j)
  <2>1. StoredOK(h, j + 1)
    BY <1>1, <1>4 DEF CopiesOK, h
  <2>2. \A i \in 1..j : i + 1 \in 1..(j + 1) /\ i \in 1..Len(t)
    BY <1>1, <1>4
  <2>3. \A i \in 1..j : t[i] = h[i + 1]
    BY <2>2, <1>4
  <2> QED BY <2>1, <2>2, <2>3, <1>4 DEF StoredOK
<1>6. CopiesOK'
  <2>1. ASSUME NEW x \in Machines, NEW j \in 1..Len(hist'[x]) PROVE StoredOK(hist'[x], j)
    <3>1. CASE x = m
      BY <3>1, <2>1, <1>1, <1>5
    <3>2. CASE x # m
      BY <3>2, <2>1, <1>1 DEF CopiesOK
    <3> QED BY <3>1, <3>2
  <2> QED BY <2>1 DEF CopiesOK
<1>7. CASE cur \notin Machines
  <2>1. pc = "idle"
    BY <1>7 DEF IInv, TypeOK
  <2>2. LocalOK'
    BY <2>1, <1>1, <1>7 DEF LocalOK, Guarded, Working, Building, Reporting
  <2> QED BY <2>2, <1>6 DEF CopyInv
<1>8. ASSUME NEW c \in Machines, cur = c PROVE CopyInv'
  <2>1. seen' > 0 => seen > 0 /\ hist'[c][seen'] = hist[c][seen]
    BY <1>8, SeenDelivered
  <2>2. Echo => Echo'
    BY <2>1, <1>1, <1>8 DEF Echo
  <2>3. Held(c)' <=> Held(c)
    BY <1>3 DEF Held
  <2>4. LocalOK'
    BY <2>1, <2>2, <2>3, <1>1, <1>3, <1>8 DEF LocalOK, Held, Api
  <2> QED BY <2>4, <1>6 DEF CopyInv
<1> QED BY <1>7, <1>8

\* An annotation is a copy of the stored version, which has begun.
LEMMA AnnotationKeepsCopies ==
  ASSUME IInv, SeenOK, CopyInv, PatchAnnotation
  PROVE  CopyInv'
<1>1. PICK c \in Machines : cur = c
  BY DEF IInv, TypeOK, PatchAnnotation
<1>2. /\ TypeOK /\ HistType /\ CopiesOK /\ LocalOK /\ cur' = c
      /\ Held(c) /\ Begun(Api(c)) /\ pc' \in {"prereq", "requeue"}
  BY <1>1 DEF IInv, TypeOK, HistType, CopyInv, PatchAnnotation, LocalOK, Guarded, Working, Building
<1>3. /\ Api(c) \in Objects /\ MayStore(c, Api(c)) /\ Complete(Api(c))
  BY <1>2, CurrentVersions, StoredSays DEF MayStore
<1>4. hist' = hist \/ Emit(c, Api(c))
  BY <1>1 DEF PatchAnnotation
<1>5. CopiesOK' /\ HistGrows
  BY <1>2, <1>3, <1>4, StoreKeeps, EmitGrows
<1>6. \A x \in Machines : Api(x)' = Api(x)
  <2>1. CASE hist' = hist
    BY <2>1 DEF Api
  <2>2. CASE Emit(c, Api(c))
    <3>1. Api(c)' = Api(c) /\ \A x \in Machines : x # c => hist'[x] = hist[x]
      BY <2>2, <1>2, <1>3, EmitEffect
    <3> QED BY <3>1 DEF Api
  <2> QED BY <2>1, <2>2, <1>4
<1>7. CASE UNCHANGED <<mobj, seen>> /\ pc' = "requeue"
  <2>1. pc' \notin Guarded /\ pc' \notin Reporting /\ pc' \notin Terminating /\ pc' # "prereq"
    BY <1>7 DEF Guarded, Working, Building, Reporting, Terminating
  <2>2. \A x \in Machines : (Held(x) => Held(x)') /\ (Held(x) /\ Begun(Api(x)) => Begun(Api(x)'))
    BY <1>6 DEF Held
  <2> QED BY <2>1, <2>2, <1>1, <1>2, <1>5, <1>7, OthersKeepCopies
<1>8. CASE mobj' = Api(c) /\ seen' = Len(hist'[c]) /\ pc' = "prereq"
  <2>1. Held(c)' /\ Begun(mobj') /\ Complete(mobj') /\ pc' \notin Terminating
    BY <1>2, <1>3, <1>6, <1>8 DEF Held, Terminating
  <2>2. LocalOK'
    BY <2>1, <1>2, <1>6, <1>8 DEF LocalOK, Held, Api
  <2> QED BY <2>2, <1>5 DEF CopyInv
<1> QED BY <1>1, <1>7, <1>8 DEF PatchAnnotation

\* What patchFinalizer makes of the stored object: its status, or none.
LEMMA FinalizerSays ==
  ASSUME HistType, NEW c \in Machines, NEW f \in BOOLEAN
  PROVE  LET new == IF Cached(c).ex THEN FinalizerPatched(c, f) ELSE Recreated(f)
         IN  /\ new \in Objects /\ Stored(new) \in Objects
             /\ Stored(new) = new \/ (Stored(new) = Gone /\ new.del /\ ~new.fin)
             /\ ~Cached(c).ex => /\ new.conds = NoConditions /\ new.phase = ""
                                 /\ new.fin = f /\ ~new.del
             /\ Cached(c).ex => /\ new.conds = Api(c).conds /\ new.phase = Api(c).phase
                                /\ new.ex = Api(c).ex /\ new.del = Api(c).del
                                /\ new.fin = f \/ new = Api(c)
<1> DEFINE new == IF Cached(c).ex THEN FinalizerPatched(c, f) ELSE Recreated(f)
<1>1. Api(c) \in Objects
  BY CurrentVersions
<1>2. CASE Cached(c).ex
  <2>1. /\ new \in Objects /\ new.conds = Api(c).conds /\ new.phase = Api(c).phase
        /\ new.ex = Api(c).ex /\ new.del = Api(c).del
        /\ new.fin = f \/ new = Api(c)
    BY <1>1, <1>2 DEF FinalizerPatched, Objects
  <2> HIDE DEF new
  <2>2. Stored(new) \in Objects /\ (Stored(new) = new \/ (Stored(new) = Gone /\ new.del /\ ~new.fin))
    BY <2>1, GoneType DEF Stored
  <2> QED BY <2>1, <2>2, <1>2 DEF new
<1>3. CASE ~Cached(c).ex
  <2>1. /\ new \in Objects /\ new.conds = NoConditions /\ new.phase = ""
        /\ new.fin = f /\ ~new.del
    BY <1>3, GoneType DEF Recreated, Fresh, Gone, Objects
  <2> HIDE DEF new
  <2>2. Stored(new) \in Objects /\ (Stored(new) = new \/ (Stored(new) = Gone /\ new.del /\ ~new.fin))
    BY <2>1, GoneType DEF Stored
  <2> QED BY <2>1, <2>2, <1>3 DEF new
<1> QED BY <1>2, <1>3

\* ensureFinalizer leaves the status alone, or makes an object without one where no
\* version has one.
LEMMA EnsureFinalizerKeepsCopies ==
  ASSUME IInv, SeenOK, CopyInv, EnsureFinalizer
  PROVE  CopyInv'
<1>1. PICK c \in Machines : cur = c
  BY DEF IInv, TypeOK, EnsureFinalizer
<1> DEFINE new == IF Cached(c).ex THEN FinalizerPatched(c, TRUE) ELSE Recreated(TRUE)
           st == Stored(new)
<1>2. /\ TypeOK /\ HistType /\ CopiesOK /\ LocalOK /\ cur' = c /\ HistOK(hist[c])
      /\ Held(c) \/ NoDel(hist[c])
  <2>1. pc = "finalizer" /\ WorkerOK /\ HistoriesOK /\ TypeOK /\ cur' = cur
    BY DEF IInv, EnsureFinalizer, PatchFinalizer
  <2> QED BY <2>1, <1>1 DEF TypeOK, HistType, CopyInv, WorkerOK, HistoriesOK
<1>3. pc' \in {"initConds", "idle", "requeue"} /\ (pc' = "initConds" => Held(c)')
  <2>1. IInv'
    BY EnsureFinalizerKeeps
  <2> QED BY <2>1, <1>2 DEF EnsureFinalizer, PatchFinalizer, IInv, WorkerOK, Building, Held, Api
<1>4. /\ new \in Objects /\ st \in Objects
      /\ st = new \/ (st = Gone /\ new.del /\ ~new.fin)
      /\ ~Cached(c).ex => new.conds = NoConditions /\ new.fin /\ ~new.del
      /\ Cached(c).ex => /\ new.conds = Api(c).conds
                         /\ new.ex = Api(c).ex /\ new.del = Api(c).del
                         /\ new.fin \/ new = Api(c)
  BY <1>2, FinalizerSays
<1>5. /\ Begun(Api(c)) => HasFin(Api(c)) /\ Complete(Api(c)) /\ Settled(Api(c))
      /\ \A i \in 1..Len(hist[c]) : Begun(hist[c][i]) /\ HasFin(Api(c)) => Begun(Api(c))
      /\ Held(c) <=> HasFin(Api(c))
  BY <1>2, StoredSays DEF Held, HasFin
<1>6. ASSUME NEW i \in 1..Len(hist[c]), Begun(hist[c][i]) PROVE HasFin(Api(c))
  <2>1. SUFFICES ASSUME ~HasFin(Api(c)) PROVE FALSE
    OBVIOUS
  <2>2. HasFin(hist[c][i])
    BY <1>2, <1>6 DEF CopiesOK, StoredOK
  <2>3. NoLive(hist[c]) /\ NoDel(hist[c])
    BY <2>1, <1>2, <1>5, CurrentVersions DEF HistOK
  <2> QED BY <2>2, <2>3 DEF NoLive, NoDel, Live, HasFin
<1> HIDE DEF new, st
<1>7. ~Begun(Gone) /\ ~HasFin(Gone)
  BY NotBegun DEF Gone, HasFin
<1>8. ASSUME Cached(c).ex = Api(c).ex
      PROVE  /\ Begun(new) => Begun(Api(c))
             /\ HasFin(Api(c)) => st = new /\ HasFin(new) /\ new.conds = Api(c).conds
             /\ MayStore(c, st)
  <2>1. Begun(new) => Begun(Api(c)) /\ new.conds = Api(c).conds
    BY <1>4 DEF Begun
  <2>2. HasFin(Api(c)) => st = new /\ HasFin(new) /\ new.conds = Api(c).conds
    BY <1>4, <1>8 DEF HasFin
  <2>3. Begun(new) => HasFin(new) /\ Complete(new) /\ Settled(new)
    BY <2>1, <2>2, <1>5 DEF Complete, Settled
  <2>4. \A i \in 1..Len(hist[c]) : Begun(hist[c][i]) => st = new /\ Begun(new)
    BY <2>2, <1>5, <1>6 DEF Begun
  <2> QED BY <2>1, <2>2, <2>3, <2>4, <1>4, <1>7 DEF MayStore
<1>9. Complete(new)
  BY <1>4, <1>5 DEF Complete, Begun
<1>10. ASSUME Cached(c).ex = Api(c).ex, Put(c, st)
       PROVE  /\ CopiesOK' /\ HistGrows /\ Api(c)' = st
              /\ hist'[c][Len(hist'[c])] = st
              /\ \A x \in Machines : x # c => Api(x)' = Api(x)
  <2>1. hist' = hist \/ Emit(c, st)
    BY <1>10 DEF Put
  <2>2. CopiesOK' /\ HistGrows
    BY <2>1, <1>2, <1>4, <1>8, <1>10, StoreKeeps, EmitGrows
  <2>3. Api(c)' = st /\ \A x \in Machines : x # c => Api(x)' = Api(x)
    <3>1. CASE st = Api(c)
      BY <3>1, <1>10 DEF Put, Api
    <3>2. CASE st # Api(c)
      <4>1. Api(c)' = st /\ \A x \in Machines : x # c => hist'[x] = hist[x]
        BY <3>2, <1>2, <1>4, <1>10, EmitEffect DEF Put
      <4> QED BY <4>1 DEF Api
    <3> QED BY <3>1, <3>2
  <2> QED BY <2>2, <2>3 DEF Api
<1>11. pc' \notin Reporting /\ pc' \notin Terminating /\ pc' # "prereq"
  BY <1>3 DEF Reporting, Terminating
<1>12. ASSUME UNCHANGED <<mobj, seen>>, pc' # "initConds", HistGrows, CopiesOK',
              \A x \in Machines : Held(x) => Held(x)' /\ Api(x)'.conds = Api(x).conds
       PROVE  CopyInv'
  <2>1. pc' \notin Guarded
    BY <1>3, <1>12 DEF Guarded, Working, Building
  <2>2. \A x \in Machines : (Held(x) => Held(x)') /\ (Held(x) /\ Begun(Api(x)) => Begun(Api(x)'))
    BY <1>12 DEF Begun
  <2> QED BY <2>1, <2>2, <1>1, <1>2, <1>11, <1>12, OthersKeepCopies
<1>13. CASE UNCHANGED <<hist, mobj, seen>> /\ pc' # "initConds"
  <2>1. HistGrows /\ CopiesOK' /\ \A x \in Machines : (Held(x)' <=> Held(x)) /\ Api(x)' = Api(x)
    BY <1>2, <1>13 DEF HistGrows, CopiesOK, Held, Api
  <2> QED BY <2>1, <1>12, <1>13
<1>14. CASE /\ Cached(c).ex = Api(c).ex /\ Put(c, st) /\ UNCHANGED <<mobj, seen>>
            /\ pc' # "initConds"
  <2>1. ASSUME NEW x \in Machines, Held(x) PROVE Held(x)' /\ Api(x)'.conds = Api(x).conds
    <3>1. CASE x = c
      BY <3>1, <2>1, <1>5, <1>8, <1>10, <1>14 DEF Held, HasFin
    <3>2. CASE x # c
      BY <3>2, <2>1, <1>10, <1>14 DEF Held
    <3> QED BY <3>1, <3>2
  <2> QED BY <2>1, <1>10, <1>12, <1>14
<1>15. CASE /\ Cached(c).ex = Api(c).ex /\ Put(c, st) /\ pc' = "initConds"
            /\ mobj' = new /\ seen' = Len(hist'[c])
  <2>1. Held(c)'
    BY <1>3, <1>15
  <2>2. Begun(st) => Begun(new)
    BY <1>4, <1>7
  <2>3. LocalOK'
    BY <2>1, <2>2, <1>2, <1>9, <1>10, <1>11, <1>15 DEF LocalOK, Held, Api
  <2> QED BY <2>3, <1>10, <1>15 DEF CopyInv
<1> QED
  <2>1. \/ UNCHANGED <<hist, mobj, seen>> /\ pc' # "initConds"
        \/ /\ Cached(c).ex = Api(c).ex /\ Put(c, st) /\ UNCHANGED <<mobj, seen>>
           /\ pc' # "initConds"
        \/ /\ Cached(c).ex = Api(c).ex /\ Put(c, st) /\ pc' = "initConds"
           /\ mobj' = new /\ seen' = Len(hist'[c])
    BY <1>1 DEF EnsureFinalizer, PatchFinalizer, new, st
  <2> QED BY <2>1, <1>13, <1>14, <1>15

\* Removing the finalizer takes the object of a deletion away, conditions and all.
LEMMA RemoveFinalizerKeepsCopies ==
  ASSUME IInv, SeenOK, CopyInv, RemoveFinalizer
  PROVE  CopyInv'
<1>1. PICK c \in Machines : cur = c
  BY DEF IInv, TypeOK, RemoveFinalizer
<1> DEFINE new == IF Cached(c).ex THEN FinalizerPatched(c, FALSE) ELSE Recreated(FALSE)
           st == Stored(new)
<1>2. /\ TypeOK /\ HistType /\ CopiesOK /\ LocalOK /\ cur' = c /\ NoLive(hist[c])
      /\ pc \in Terminating /\ pc' \in {"idle", "requeue"}
  <2>1. /\ pc = "unfinalize" /\ pc' \in {"idle", "requeue"} /\ cur' = cur
    BY DEF RemoveFinalizer, PatchFinalizer
  <2> QED BY <2>1, <1>1 DEF IInv, TypeOK, HistType, CopyInv, WorkerOK, Terminating
<1>3. /\ new \in Objects /\ st \in Objects
      /\ st = new \/ (st = Gone /\ new.del /\ ~new.fin)
      /\ ~Cached(c).ex => new.conds = NoConditions /\ ~new.fin
      /\ Cached(c).ex => /\ new.conds = Api(c).conds /\ new.del = Api(c).del
                         /\ ~new.fin \/ new = Api(c)
  BY <1>2, FinalizerSays
<1>4. st = new => ~(new.del /\ ~new.fin) \/ new = Gone
  BY DEF Stored
<1>5. /\ Begun(Api(c)) => HasFin(Api(c)) /\ Complete(Api(c)) /\ Settled(Api(c))
      /\ \A i \in 1..Len(hist[c]) : Begun(hist[c][i]) /\ HasFin(Api(c)) => Begun(Api(c))
  BY <1>2, StoredSays
<1>6. Begun(Api(c)) => Api(c).del
  <2>1. ~Live(Api(c))
    BY <1>2, LastVersion DEF NoLive
  <2> QED BY <2>1, <1>5 DEF Live, HasFin
<1>7. ~Begun(Gone) /\ ~HasFin(Gone) /\ ~Gone.ex
  BY NotBegun DEF Gone, HasFin
<1> HIDE DEF new, st
<1>8. Begun(new) => Begun(Api(c)) /\ new.del /\ Complete(new)
  BY <1>3, <1>5, <1>6 DEF Begun, Complete
<1>9. MayStore(c, st)
  <2>1. CASE new = Api(c) /\ st = new
    BY <2>1, <1>5 DEF MayStore
  <2>2. CASE ~new.fin
    <3>1. ~HasFin(st) /\ ~Begun(st)
      BY <2>2, <1>3, <1>4, <1>7, <1>8 DEF HasFin
    <3> QED BY <3>1 DEF MayStore
  <2>3. CASE st = Gone
    BY <2>3, <1>7 DEF MayStore
  <2> QED BY <2>1, <2>2, <2>3, <1>3
<1>10. hist' = hist \/ Emit(c, st)
  BY <1>1 DEF RemoveFinalizer, PatchFinalizer, Put, new, st
<1>11. CopiesOK' /\ HistGrows
  BY <1>2, <1>3, <1>9, <1>10, StoreKeeps, EmitGrows
<1>12. pc' \notin Guarded /\ pc' \notin Reporting /\ pc' \notin Terminating /\ pc' # "prereq"
  BY <1>2 DEF Guarded, Working, Building, Reporting, Terminating
<1>13. CASE UNCHANGED <<mobj, seen>>
  <2>1. Begun(mobj) => Echo'
    <3>1. Begun(mobj) => Echo
      BY <1>1, <1>2 DEF LocalOK
    <3> QED BY <3>1, <1>1, <1>2, <1>11, <1>13, EchoKept
  <2>2. seen > 0 => hist'[c][seen] = hist[c][seen]
    BY <1>1, <1>2, <1>11, SeenStays
  <2>3. LocalOK'
    BY <2>1, <2>2, <1>1, <1>2, <1>12, <1>13 DEF LocalOK
  <2> QED BY <2>3, <1>11 DEF CopyInv
<1>14. CASE Put(c, st) /\ mobj' = new /\ seen' = Len(hist'[c])
  <2>1. hist'[c][Len(hist'[c])] = st
    <3>1. CASE st = Api(c)
      BY <3>1, <1>2, <1>14, LastVersion DEF Put
    <3>2. CASE st # Api(c)
      BY <3>2, <1>2, <1>3, <1>14, EmitEffect DEF Put, LastOf
    <3> QED BY <3>1, <3>2
  <2>2. Begun(st) => Begun(new)
    BY <1>3, <1>7
  <2>3. Begun(new) => Echo'
    BY <2>1, <1>2, <1>3, <1>7, <1>8, <1>14 DEF Echo
  <2>4. Complete(new)
    BY <1>8 DEF Complete
  <2>5. LocalOK'
    BY <2>1, <2>2, <2>3, <2>4, <1>2, <1>12, <1>14 DEF LocalOK
  <2> QED BY <2>5, <1>11 DEF CopyInv
<1> QED BY <1>1, <1>13, <1>14 DEF RemoveFinalizer, PatchFinalizer, new, st

\* A restart leaves the stored versions.
LEMMA CrashKeepsCopies ==
  ASSUME IInv, CopyInv, Crash
  PROVE  CopyInv'
<1>1. HistType /\ CopiesOK
  BY DEF IInv, TypeOK, HistType, CopyInv
<1>2. cur' = NoMachine /\ pc' = "idle" /\ hist' = [m \in Machines |-> <<Api(m)>>]
  BY DEF Crash
<1>3. ASSUME NEW m \in Machines, NEW j \in 1..Len(hist'[m]) PROVE StoredOK(hist'[m], j)
  <2>1. Begun(Api(m)) => HasFin(Api(m)) /\ Complete(Api(m)) /\ Settled(Api(m))
    BY <1>1, StoredSays
  <2>2. hist'[m] = <<Api(m)>>
    BY <1>2
  <2>3. Len(hist'[m]) = 1 /\ hist'[m][1] = Api(m)
    BY <2>2
  <2>4. j = 1 /\ \A i \in 1..j : i = 1
    <3>1. j \in 1..1
      BY <2>3
    <3> QED BY <3>1
  <2> QED BY <2>1, <2>3, <2>4 DEF StoredOK
<1>4. CopiesOK'
  BY <1>3 DEF CopiesOK
<1>5. LocalOK'
  BY <1>2, ConstantsAssumption DEF LocalOK, Guarded, Working, Building, Reporting
<1> QED BY <1>4, <1>5 DEF CopyInv

\* Every step keeps the copies as they have to be.
LEMMA StepKeepsCopies ==
  ASSUME IInv, SeenOK, CopyInv, [Next]_vars
  PROVE  CopyInv'
<1>1. CASE \/ InitPhase \/ FinalStatus \/ SetInitialConditions \/ GetMachineCreationArgs
           \/ CommitCreated \/ CommitTerminating
  BY <1>1, StatusActionsCopies
<1>2. CASE CreatePrerequisites
  <2>1. /\ UNCHANGED <<hist, cur, seen, mobj>> /\ pc = "prereq" /\ pc' \in {"args", "requeue"}
    BY <1>2 DEF CreatePrerequisites
  <2>2. pc \in Guarded /\ pc \in Reporting /\ pc' \notin Terminating /\ pc' # "prereq"
    BY <2>1 DEF Guarded, Working, Building, Reporting, Terminating
  <2>3. Begun(mobj')
    BY <2>1, <2>2 DEF CopyInv, LocalOK, Begun
  <2> QED BY <2>1, <2>2, <2>3, SilentKeepsCopies
<1>3. CASE ScpSucceeds
  <2>1. /\ UNCHANGED <<hist, cur, seen, mobj>> /\ pc = "script" /\ pc' = "read"
        /\ mobj.conds["MachineReady"] = "True"
    BY <1>3 DEF ScpSucceeds, ScriptDue, IsConditionTrue
  <2>2. NoConditions["MachineReady"] = "Absent"
    BY DEF NoConditions, ConditionTypes
  <2>3. Begun(mobj')
    BY <2>1, <2>2 DEF Begun
  <2>4. pc \in Guarded /\ pc' \notin Terminating
    BY <2>1 DEF Guarded, Working, Building, Terminating
  <2> QED BY <2>1, <2>3, <2>4, SilentKeepsCopies
<1>4. CASE SkipCreation \/ ScriptNotDue \/ ReadFails
  <2>1. /\ UNCHANGED <<hist, cur, seen, mobj>> /\ pc \in {"initConds", "script", "read"}
        /\ pc' \in {"script", "final", "requeue"}
    BY <1>4 DEF SkipCreation, ScriptNotDue, ReadFails
  <2>2. pc \in Guarded /\ pc' \notin Terminating /\ pc' \notin Reporting /\ pc' # "prereq"
    BY <2>1 DEF Guarded, Working, Building, Reporting, Terminating
  <2> QED BY <2>1, <2>2, SilentKeepsCopies
<1>5. CASE DeleteDockerMachine \/ CleanupAWSResources \/ DeleteAzureResourceGroup
  <2>1. /\ UNCHANGED <<hist, cur, seen, mobj>> /\ pc \in {"rm", "cloud"}
        /\ pc' \in {"cloud", "unfinalize", "requeue"}
    BY <1>5 DEF DeleteDockerMachine, CleanupAWSResources, DeleteAzureResourceGroup, AfterRm
  <2>2. pc \in Terminating /\ pc' \notin Guarded /\ pc' \notin Reporting /\ pc' # "prereq"
    BY <2>1 DEF Guarded, Working, Building, Reporting, Terminating
  <2> QED BY <2>1, <2>2, SilentKeepsCopies
<1>6. CASE ReconcileGetFails
  <2>1. /\ UNCHANGED <<hist, cur, seen, mobj>> /\ pc' \in {"idle", "requeue"}
    BY <1>6 DEF ReconcileGetFails
  <2>2. pc' \notin Terminating /\ pc' \notin Guarded /\ pc' \notin Reporting /\ pc' # "prereq"
    BY <2>1 DEF Guarded, Working, Building, Reporting, Terminating
  <2> QED BY <2>1, <2>2, SilentKeepsCopies
<1>7. ASSUME UNCHANGED <<hist, cur, seen, mobj, pc>> PROVE CopyInv'
  <2>1. pc' \in Reporting => Begun(mobj')
    BY <1>7 DEF CopyInv, LocalOK, Begun
  <2> QED BY <2>1, <1>7, SilentKeepsCopies
<1>8. CASE \/ ScriptSecretMissing \/ AuthSecretMissing \/ CreateSucceeds \/ CreateFails
           \/ ScpFails \/ ReadResult
  BY <1>8, MarksKeepCopies
<1>9. CASE EnsureFinalizer \/ RemoveFinalizer \/ PatchAnnotation
  BY <1>9, EnsureFinalizerKeepsCopies, RemoveFinalizerKeepsCopies, AnnotationKeepsCopies
<1>10. ASSUME NEW m \in Machines,
             \/ Deliver(m) \/ Reconcile(m) \/ UserCreate(m) \/ UserEdit(m) \/ UserDelete(m)
      PROVE  CopyInv'
  BY <1>10, DeliverKeepsCopies, ReconcileKeepsCopies, UserKeepsCopies
<1>11. ASSUME NEW n \in Names, ScriptWrites(n) PROVE CopyInv'
  BY <1>11, <1>7 DEF ScriptWrites
<1>12. CASE Crash
  BY <1>12, CrashKeepsCopies
<1>13. CASE UNCHANGED vars
  BY <1>13, <1>7 DEF vars
<1> QED BY <1>1, <1>2, <1>3, <1>4, <1>5, <1>6, <1>8, <1>9, <1>10, <1>11, <1>12, <1>13
        DEF Next, WorkerStep

-----------------------------------------------------------------------------

\* The copies are as they have to be, throughout.
LEMMA CopyInvariant == Spec => [](SeenOK /\ CopyInv)
<1>1. Init => SeenOK /\ CopyInv
  <2> SUFFICES ASSUME Init PROVE SeenOK /\ CopyInv
    OBVIOUS
  <2>1. cur \notin Machines /\ pc = "idle"
    BY ConstantsAssumption DEF Init
  <2>2. \A m \in Machines : Len(hist[m]) = 1 /\ hist[m][1] = Gone
    BY DEF Init
  <2>3. ~Begun(Gone)
    BY NotBegun
  <2>4. ASSUME NEW m \in Machines, NEW j \in 1..Len(hist[m]) PROVE StoredOK(hist[m], j)
    <3>1. j = 1 /\ \A i \in 1..j : i = 1
      <4>1. j \in 1..1
        BY <2>2
      <4> QED BY <4>1
    <3> QED BY <3>1, <2>2, <2>3 DEF StoredOK
  <2>5. CopiesOK
    BY <2>4 DEF CopiesOK
  <2> QED BY <2>1, <2>5 DEF SeenOK, CopyInv, LocalOK, Guarded, Working, Building, Reporting
<1>2. IInv /\ SeenOK /\ CopyInv /\ [Next]_vars => (SeenOK /\ CopyInv)'
  BY StepKeepsPhase, StepKeepsCopies
<1> QED BY <1>1, <1>2, InvariantHolds, PTL DEF Spec

\* What updateMachineStatus leaves on the server is whole: a Machine has conditions only
\* while it carries the finalizer, then reports both on the host and on the script, and
\* its Ready condition is the summary of the others - although the merge patch is made
\* against a cached copy, and machineObj may be of an earlier Machine of the same name.
THEOREM StatusStaysWhole == Spec => []StatusIsWhole
<1>1. IInv /\ CopyInv => StatusIsWhole
  <2> SUFFICES ASSUME IInv, CopyInv, NEW m \in Machines, Begun(Api(m))
               PROVE  Held(m) /\ Complete(Api(m)) /\ Settled(Api(m))
    BY DEF StatusIsWhole, Begun, Complete, Settled
  <2>1. HistType /\ CopiesOK
    BY DEF IInv, TypeOK, HistType, CopyInv
  <2> QED BY <2>1, StoredSays DEF Held, HasFin
<1> QED BY <1>1, InvariantHolds, CopyInvariant, PTL
=============================================================================
