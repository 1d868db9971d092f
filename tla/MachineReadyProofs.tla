------------------------- MODULE MachineReadyProofs -------------------------
(***************************************************************************)
(* A Machine that reports MachineReady has its host, for every set of      *)
(* Machines with host names of their own on a disk that survives restarts, *)
(* every lag of the watch and every number of disturbances.                *)
(*                                                                         *)
(* The condition spreads: from memory to the server, from there through    *)
(* the watch into the cache, and back into machineObj.  So the invariant   *)
(* is about every copy: where a host is gone, the copies that still say    *)
(* ready are of a Machine under deletion and cannot get into a version     *)
(* that is not.                                                            *)
(***************************************************************************)
EXTENDS MachineStatusProofs

\* No two Machines have a host name in common.
NamesDiffer == \A a, b \in Machines : Name[a] = Name[b] => a = b

Ready(o) == o.conds["MachineReady"] = "True"

\* Version j of history h, when s says whether the host is there: ready is reported
\* only under the finalizer and with an up-to-date summary, and without a host only
\* if the cache has shown nothing but the deletion since.
VersionOK(h, j, s) ==
  Ready(h[j]) => /\ HasFin(h[j])
                 /\ SetSummary(h[j].conds) = h[j].conds
                 /\ s \/ \A i \in 1..j : h[i].del

VersionsOK ==
  \A m \in Machines : \A j \in 1..Len(hist[m]) : VersionOK(hist[m], j, store[Name[m]])

\* Whatever version of c says ready, the host is there.
AllKnown(c) == \A j \in 1..Len(hist[c]) : Ready(hist[c][j]) => store[Name[c]]

\* What the worker may believe.
MemoryOK ==
  /\ pc \in Working => AllKnown(cur)
  /\ cur \in Machines /\ Ready(mobj) =>
       /\ pc \in Working => store[Name[cur]]
       /\ pc \in Terminating => Echo
       /\ store[Name[cur]] \/ Echo

ReadyInv == VersionsOK /\ MemoryOK

-----------------------------------------------------------------------------
(* Conditions.                                                             *)

\* A Machine that is not there, and a new one, are not ready.
LEMMA NotReady == ~Ready(Gone) /\ ~Ready(Fresh)
BY DEF Ready, Gone, Fresh, NoConditions, ConditionTypes

\* A Machine that has a host in the store is held: nobody else has its name.
LEMMA HostIsHeld ==
  ASSUME NamesDiffer, IInv, NEW c \in Machines, store[Name[c]]
  PROVE  Held(c)
<1>1. Name[c] \in Names
  BY ConstantsAssumption
<1> QED BY <1>1 DEF IInv, ResourcesGuarded, NamesDiffer

-----------------------------------------------------------------------------
(* Writes.                                                                 *)

\* What may be written to m: ready only under the finalizer, and either because the
\* host is there or because the stored version says so already.
MayWrite(m, new) ==
  Ready(new) =>
    /\ HasFin(new)
    /\ \/ store[Name[m]] /\ SetSummary(new.conds) = new.conds
       \/ new.conds = Api(m).conds /\ (Api(m).del => new.del)

\* Such a write keeps the versions, and what is known of all of them.
LEMMA WriteKeeps ==
  ASSUME TypeOK, VersionsOK, NEW m \in Machines, NEW new \in Objects, MayWrite(m, new),
         hist' = hist \/ Emit(m, new), store' = store
  PROVE  /\ VersionsOK'
         /\ \A c \in Machines : AllKnown(c) => AllKnown(c)'
<1>1. CASE hist' = hist
  BY <1>1 DEF VersionsOK, AllKnown
<1>2. CASE Emit(m, new)
  <2>1. HistType
    BY DEF TypeOK, HistType
  <2> DEFINE h == hist[m]
             a == Append(h, new)
             s == store[Name[m]]
  <2>2. /\ hist'[m] = a /\ \A x \in Machines : x # m => hist'[x] = hist[x]
    BY <1>2, <2>1, EmitEffect
  <2>3. h \in Seq(Objects) /\ Len(h) \in Nat /\ Len(h) > 0 /\ Api(m) = h[Len(h)]
    BY <2>1, CurrentVersions DEF LastOf
  <2>4. \A j \in 1..Len(h) : VersionOK(h, j, s)
    BY DEF VersionsOK
  <2> HIDE DEF h
  <2>5. /\ Len(a) = Len(h) + 1 /\ a[Len(h) + 1] = new
        /\ \A j \in 1..Len(h) : a[j] = h[j]
    BY <2>3
  <2> HIDE DEF a, s
  <2>6. \A j \in 1..Len(a) : j \in 1..Len(h) \/ j = Len(h) + 1
    BY <2>3, <2>5
  <2>7. ASSUME NEW j \in 1..Len(h) PROVE VersionOK(a, j, s)
    <3>1. a[j] = h[j] /\ \A i \in 1..j : i \in 1..Len(h) /\ a[i] = h[i]
      BY <2>3, <2>5
    <3> QED BY <3>1, <2>4 DEF VersionOK
  <2>8. VersionOK(a, Len(h) + 1, s)
    <3>1. SUFFICES ASSUME Ready(new)
                   PROVE  /\ HasFin(new) /\ SetSummary(new.conds) = new.conds
                          /\ s \/ \A i \in 1..(Len(h) + 1) : a[i].del
      BY <2>5 DEF VersionOK
    <3>2. CASE s /\ SetSummary(new.conds) = new.conds
      BY <3>1, <3>2 DEF MayWrite
    <3>3. CASE new.conds = h[Len(h)].conds /\ (h[Len(h)].del => new.del)
      <4>1. Len(h) \in 1..Len(h)
        BY <2>3
      <4>2. Ready(h[Len(h)])
        BY <3>1, <3>3 DEF Ready
      <4>3. SetSummary(new.conds) = new.conds /\ (s \/ \A i \in 1..Len(h) : h[i].del)
        BY <4>1, <4>2, <2>4, <3>3 DEF VersionOK
      <4>4. s \/ \A i \in 1..(Len(h) + 1) : a[i].del
        BY <4>1, <4>3, <3>3, <2>3, <2>5
      <4> QED BY <4>3, <4>4, <3>1 DEF MayWrite
    <3> QED BY <3>1, <3>2, <3>3, <2>3 DEF MayWrite, s
  <2>9. \A j \in 1..Len(a) : VersionOK(a, j, s)
    BY <2>6, <2>7, <2>8
  <2>10. ASSUME NEW x \in Machines, NEW j \in 1..Len(hist'[x])
         PROVE  VersionOK(hist'[x], j, store'[Name[x]])
    <3>1. CASE x = m
      BY <3>1, <2>2, <2>9, <2>10 DEF s
    <3>2. CASE x # m
      BY <3>2, <2>2, <2>10 DEF VersionsOK
    <3> QED BY <3>1, <3>2
  <2>11. VersionsOK'
    BY <2>10 DEF VersionsOK
  <2>12. ASSUME NEW c \in Machines, AllKnown(c), NEW j \in 1..Len(hist'[c]), Ready(hist'[c][j])
         PROVE  store[Name[c]]
    <3>1. CASE c # m
      BY <3>1, <2>2, <2>12 DEF AllKnown
    <3>2. CASE c = m /\ j \in 1..Len(h)
      BY <3>2, <2>2, <2>5, <2>12 DEF AllKnown, h
    <3>3. CASE c = m /\ j = Len(h) + 1
      <4>1. Ready(new)
        BY <3>3, <2>2, <2>5, <2>12
      <4>2. CASE new.conds = h[Len(h)].conds
        <5>1. Len(h) \in 1..Len(h) /\ Ready(h[Len(h)])
          BY <4>1, <4>2, <2>3 DEF Ready
        <5> QED BY <5>1, <3>3, <2>12 DEF AllKnown, h
      <4> QED BY <4>1, <4>2, <3>3, <2>3 DEF MayWrite
    <3> QED BY <3>1, <3>2, <3>3, <2>2, <2>6, <2>12
  <2>13. \A c \in Machines : AllKnown(c) => AllKnown(c)'
    BY <2>12 DEF AllKnown
  <2> QED BY <2>11, <2>13
<1> QED BY <1>1, <1>2

\* A step that leaves machineObj alone, and hosts where they are, keeps what is
\* believed if the stage it leads to asks for no more.
LEMMA MemoryKept ==
  ASSUME TypeOK, SeenOK, MemoryOK, HistGrows, UNCHANGED <<cur, seen, mobj, store>>,
         \A c \in Machines : AllKnown(c) => AllKnown(c)',
         pc' \in Working => pc \in Working,
         pc' \in Terminating => pc \in Terminating,
         pc \in Working => cur \in Machines
  PROVE  MemoryOK'
<1>1. pc' \in Working => AllKnown(cur)'
  <2>1. SUFFICES ASSUME pc' \in Working PROVE AllKnown(cur)'
    OBVIOUS
  <2>2. PICK c \in Machines : cur = c
    BY <2>1
  <2>3. AllKnown(c)'
    BY <2>1, <2>2 DEF MemoryOK
  <2> QED BY <2>2, <2>3 DEF AllKnown
<1>2. cur \in Machines /\ Echo => Echo'
  BY EchoKept
<1> QED BY <1>1, <1>2 DEF MemoryOK

\* The operator's copy and the stored object after updateMachineStatus: a copy that
\* is ready without a host only says again what the server has.
LEMMA StatusMayWrite ==
  ASSUME NamesDiffer, IInv, SeenOK, VersionsOK, NEW c \in Machines, cur = c, NEW o \in Objects,
         Cached(c).ex, Accepted(c),
         Ready(o) => store[Name[c]] \/ (Echo /\ o = mobj)
  PROVE  MayWrite(c, StatusPatched(c, Summarised(o)))
<1> DEFINE n == Summarised(o)
           new == StatusPatched(c, n)
<1>1. /\ TypeOK /\ HistType /\ seen \in Nat
  BY DEF IInv, TypeOK, HistType
<1>2. /\ hist[c] \in Seq(Objects) /\ Len(hist[c]) \in Nat /\ Len(hist[c]) > 0
      /\ Api(c) \in Objects /\ Cached(c) \in Objects
      /\ Api(c) = hist[c][Len(hist[c])] /\ Cached(c) = hist[c][1]
  BY <1>1, CurrentVersions, LastVersion
<1>3. n.conds = SetSummary(o.conds) /\ o.conds \in Conditions
  BY DEF Summarised, Objects
<1>4. /\ SetSummary(n.conds) = n.conds
      /\ Ready(n) => Ready(o)
  BY <1>3, SummaryTwice DEF Ready
<1>5. /\ new.ex = Api(c).ex /\ new.fin = Api(c).fin /\ new.del = Api(c).del
      /\ new.conds = IF n.conds = Cached(c).conds THEN Api(c).conds ELSE n.conds
  BY <1>2 DEF StatusPatched, Objects
<1> HIDE DEF n, new
<1>6. SUFFICES ASSUME Ready(new)
               PROVE  /\ HasFin(new)
                      /\ \/ store[Name[c]] /\ SetSummary(new.conds) = new.conds
                         \/ new.conds = Api(c).conds
  BY <1>5 DEF MayWrite, n, new
<1>7. Len(hist[c]) \in 1..Len(hist[c]) /\ 1 \in 1..Len(hist[c])
  BY <1>2
<1>8. CASE new.conds = Api(c).conds
  <2>1. Ready(Api(c))
    BY <1>6, <1>8 DEF Ready
  <2>2. HasFin(Api(c))
    BY <2>1, <1>2, <1>7 DEF VersionsOK, VersionOK
  <2> QED BY <2>2, <1>5, <1>8 DEF HasFin
<1>9. CASE new.conds # Api(c).conds
  <2>1. new.conds = n.conds /\ n.conds # Cached(c).conds /\ n.conds # Api(c).conds
    BY <1>5, <1>9
  <2>2. Ready(o)
    BY <2>1, <1>4, <1>6 DEF Ready
  <2>3. CASE store[Name[c]]
    <3>1. HasFin(Api(c))
      BY <2>3, HostIsHeld DEF Held, HasFin
    <3> QED BY <3>1, <2>1, <2>3, <1>4, <1>5 DEF HasFin
  <2>4. CASE Echo /\ o = mobj
    <3>1. seen \in {1, Len(hist[c])} /\ Api(c).ex
      BY DEF Accepted
    <3>2. seen > 0 /\ seen \in 1..Len(hist[c]) /\ hist[c][seen].ex
      BY <3>1, <1>2, <1>7
    <3>3. o.conds = hist[c][seen].conds
      BY <3>2, <2>4 DEF Echo
    <3>4. Ready(hist[c][seen])
      BY <3>3, <2>2 DEF Ready
    <3>5. SetSummary(o.conds) = o.conds
      BY <3>2, <3>3, <3>4 DEF VersionsOK, VersionOK
    <3>6. n.conds = hist[c][seen].conds
      BY <3>3, <3>5, <1>3
    <3> QED BY <3>1, <3>6, <2>1, <1>2
  <2> QED BY <2>2, <2>3, <2>4
<1> QED BY <1>8, <1>9

\* updateMachineStatus keeps the invariant, when the copy is ready only with a host or
\* as an echo of its version.
LEMMA StatusKeepsReady ==
  ASSUME NamesDiffer, IInv, SeenOK, ReadyInv, NEW c \in Machines, cur = c,
         NEW o \in Objects, o.del = mobj.del, NEW ok, NEW err, UpdateMachineStatus(o, ok, err),
         store' = store,
         Ready(o) => store[Name[c]] \/ (Echo /\ o = mobj),
         Ready(o) /\ pc \in Working => store[Name[c]],
         Ready(o) /\ pc \in Terminating => Echo /\ o = mobj,
         pc' \in Working => pc \in Working,
         pc' \in Terminating => pc \in Terminating
  PROVE  ReadyInv'
<1> DEFINE n == Summarised(o)
           new == StatusPatched(c, n)
<1>1. /\ TypeOK /\ HistType /\ seen \in Nat /\ VersionsOK /\ MemoryOK /\ cur' = c
  BY DEF IInv, TypeOK, HistType, ReadyInv, UpdateMachineStatus
<1>2. /\ hist[c] \in Seq(Objects) /\ Len(hist[c]) \in Nat /\ Len(hist[c]) > 0
      /\ Api(c) \in Objects /\ Cached(c) \in Objects
      /\ Api(c) = hist[c][Len(hist[c])]
      /\ Len(hist[c]) \in 1..Len(hist[c])
  BY <1>1, CurrentVersions, LastVersion
<1>3. n \in Objects /\ n.conds = SetSummary(o.conds) /\ n.del = o.del /\ o.conds \in Conditions
  BY SummarisedType DEF Summarised, Objects
<1>4. Ready(n) => Ready(o)
  BY <1>3, SummaryTwice DEF Ready
<1>5. new \in Objects /\ SameKind(new, Api(c))
  BY <1>2, <1>3 DEF StatusPatched, Objects, SameKind
<1>6. Cached(c).ex /\ Accepted(c) => MayWrite(c, new)
  BY <1>1, StatusMayWrite
<1> HIDE DEF n, new
<1>7. Echo /\ Ready(mobj) /\ o = mobj /\ seen > 0 /\ hist[c][seen].ex => n.conds = hist[c][seen].conds
  <2>1. SUFFICES ASSUME Echo, Ready(mobj), o = mobj, seen > 0, hist[c][seen].ex
                 PROVE  n.conds = hist[c][seen].conds
    OBVIOUS
  <2>2. seen \in 1..Len(hist[c])
    BY <2>1, <1>1, <1>2 DEF SeenOK
  <2>3. mobj.conds = hist[c][seen].conds
    BY <2>1 DEF Echo
  <2>4. Ready(hist[c][seen])
    BY <2>1, <2>3 DEF Ready
  <2>5. SetSummary(mobj.conds) = mobj.conds
    BY <2>2, <2>3, <2>4, <1>1 DEF VersionsOK, VersionOK
  <2> QED BY <2>1, <2>3, <2>5, <1>3
<1>8. ASSUME HistGrows, seen' = seen, mobj' \in {o, n}, VersionsOK',
             AllKnown(c) => AllKnown(c)'
      PROVE  ReadyInv'
  <2>1. seen > 0 => hist'[c][seen] = hist[c][seen]
    <3>1. seen <= Len(hist[c])
      BY DEF SeenOK
    <3>2. CASE hist'[c] = hist[c]
      BY <3>2
    <3>3. ASSUME NEW x \in Objects, hist'[c] = Append(hist[c], x)
          PROVE  seen > 0 => hist'[c][seen] = hist[c][seen]
      BY <3>1, <3>3, <1>1, <1>2
    <3> QED BY <3>2, <3>3, <1>8 DEF HistGrows
  <2>2. Ready(mobj') => Ready(o)
    BY <1>4, <1>8
  <2>3. mobj'.del = mobj.del
    BY <1>3, <1>8
  <2>4. Ready(o) /\ Echo /\ o = mobj => Echo'
    BY <2>1, <2>3, <1>1, <1>7, <1>8 DEF Echo
  <2>5. pc' \in Working => AllKnown(c)'
    BY <1>1, <1>8 DEF MemoryOK
  <2>6. MemoryOK'
    BY <2>2, <2>4, <2>5, <1>1 DEF MemoryOK, AllKnown
  <2> QED BY <2>6, <1>8 DEF ReadyInv
<1>9. CASE UNCHANGED <<hist, seen>> /\ mobj' \in {o, n}
  <2>1. HistGrows /\ VersionsOK' /\ (AllKnown(c) => AllKnown(c)')
    BY <1>1, <1>9 DEF HistGrows, VersionsOK, AllKnown
  <2> QED BY <2>1, <1>8, <1>9
<1>10. ASSUME Cached(c).ex, Accepted(c), Put(c, new)
       PROVE  /\ VersionsOK' /\ (AllKnown(c) => AllKnown(c)') /\ HistGrows
              /\ hist'[c][Len(hist'[c])] = new
  <2>1. hist' = hist \/ Emit(c, new)
    BY <1>10 DEF Put
  <2>2. VersionsOK' /\ (AllKnown(c) => AllKnown(c)')
    BY <2>1, <1>1, <1>5, <1>6, <1>10, WriteKeeps
  <2>3. HistGrows
    BY <2>1, <1>1, <1>5, EmitGrows
  <2>4. hist'[c][Len(hist'[c])] = new
    <3>1. CASE new = Api(c)
      BY <3>1, <1>2, <1>10 DEF Put
    <3>2. CASE new # Api(c)
      BY <3>2, <1>1, <1>5, <1>10, EmitEffect DEF Put, LastOf
    <3> QED BY <3>1, <3>2
  <2> QED BY <2>2, <2>3, <2>4
<1>11. CASE /\ Cached(c).ex /\ Accepted(c) /\ Put(c, new) /\ mobj' = n /\ UNCHANGED seen
  BY <1>8, <1>10, <1>11
<1>12. CASE /\ Cached(c).ex /\ Accepted(c) /\ Put(c, new)
            /\ mobj' = new /\ seen' = Len(hist'[c])
  <2>1. new.del => Echo'
    BY <1>1, <1>10, <1>12 DEF Echo
  <2>2. ASSUME Ready(new)
        PROVE  /\ pc \in Working => store[Name[c]]
               /\ pc \in Terminating => new.del
               /\ store[Name[c]] \/ new.del
    <3>1. HasFin(new) /\ (store[Name[c]] \/ new.conds = Api(c).conds)
      BY <2>2, <1>6, <1>12 DEF MayWrite
    <3>2. CASE pc \in Terminating
      <4>1. ~Live(Api(c))
        BY <3>2, <1>2 DEF IInv, WorkerOK, NoLive
      <4>2. new.del
        BY <4>1, <3>1, <1>5 DEF Live, HasFin, SameKind
      <4>3. pc \notin Working
        BY <3>2 DEF Working, Building, Terminating
      <4> QED BY <4>2, <4>3
    <3>3. CASE pc \notin Terminating /\ ~store[Name[c]]
      <4>1. Ready(hist[c][Len(hist[c])])
        BY <3>1, <3>3, <2>2, <1>2 DEF Ready
      <4>2. hist[c][Len(hist[c])].del
        BY <4>1, <3>3, <1>1, <1>2 DEF VersionsOK, VersionOK
      <4>3. pc \notin Working
        BY <4>1, <3>3, <1>1, <1>2 DEF MemoryOK, AllKnown
      <4> QED BY <4>2, <4>3, <3>3, <1>2, <1>5 DEF SameKind
    <3> QED BY <3>2, <3>3
  <2>3. pc' \in Working => AllKnown(c)'
    BY <1>1, <1>10, <1>12 DEF MemoryOK
  <2>4. MemoryOK'
    BY <2>1, <2>2, <2>3, <1>1, <1>12 DEF MemoryOK, AllKnown
  <2> QED BY <2>4, <1>10, <1>12 DEF ReadyInv
<1> QED BY <1>9, <1>11, <1>12 DEF UpdateMachineStatus, n, new

-----------------------------------------------------------------------------
(* One step.                                                               *)

\* The status updates of the worker.
LEMMA StatusActionsReady ==
  ASSUME NamesDiffer, IInv, SeenOK, ReadyInv,
         \/ InitPhase \/ FinalStatus \/ SetInitialConditions \/ GetMachineCreationArgs
         \/ CommitCreated \/ CommitTerminating
  PROVE  ReadyInv'
<1>1. /\ TypeOK /\ MemoryOK /\ mobj \in Objects /\ mobj.conds \in Conditions
  BY DEF IInv, TypeOK, ReadyInv, Objects
<1>2. PICK c \in Machines : cur = c
  BY DEF IInv, TypeOK, InitPhase, FinalStatus, SetInitialConditions,
         GetMachineCreationArgs, CommitCreated, CommitTerminating
<1>3. store' = store
  BY DEF InitPhase, FinalStatus, SetInitialConditions, GetMachineCreationArgs,
         CommitCreated, CommitTerminating, disk
<1>4. /\ Ready(mobj) => store[Name[c]] \/ Echo
      /\ Ready(mobj) /\ pc \in Working => store[Name[c]]
      /\ Ready(mobj) /\ pc \in Terminating => Echo
  BY <1>1, <1>2 DEF MemoryOK
<1>5. ASSUME NEW o \in Objects, NEW ok, NEW err, UpdateMachineStatus(o, ok, err)
      PROVE  pc' \in {ok, err}
  BY <1>1, <1>2, <1>5, StatusStep
<1>6. CASE InitPhase \/ FinalStatus \/ CommitCreated \/ CommitTerminating
  <2>1. PICK ok \in PcStates, err \in PcStates :
          /\ UpdateMachineStatus(mobj, ok, err)
          /\ {ok, err} \cap Working # {} => pc \in Working
          /\ {ok, err} \cap Terminating # {} => pc \in Terminating
    BY <1>6 DEF InitPhase, FinalStatus, CommitCreated, CommitTerminating, PcStates, Working,
         Building, Terminating
  <2>2. pc' \in {ok, err}
    BY <2>1, <1>1, <1>5
  <2> QED BY <2>1, <2>2, <1>1, <1>2, <1>3, <1>4, StatusKeepsReady
<1>7. CASE SetInitialConditions
  <2> DEFINE o == [mobj EXCEPT !.conds = InitialConditions(@)]
             ok == IF Driver[cur] = "amazonec2" THEN "prereq" ELSE "args"
  <2>1. UpdateMachineStatus(o, ok, "requeue") /\ pc \in Working
    BY <1>7 DEF SetInitialConditions, Working, Building
  <2>2. o \in Objects
    <3>1. InitialConditions(mobj.conds) \in Conditions
      <4>1. "MachineCreating" \in Reasons /\ "WaitingForScriptRun" \in Reasons
        BY DEF Reasons
      <4> QED BY <4>1, <1>1, MarkType DEF InitialConditions
    <3> QED BY <3>1, <1>1, WithConditions
  <2>3. ~Ready(o) /\ o.del = mobj.del
    BY <1>1 DEF Ready, InitialConditions, MarkFalse, Objects, Conditions, ConditionTypes
  <2> HIDE DEF o
  <2>4. pc' \notin Terminating
    BY <2>1, <2>2, <1>5 DEF Terminating
  <2> QED BY <2>1, <2>2, <2>3, <2>4, <1>2, <1>3, StatusKeepsReady
<1>8. CASE GetMachineCreationArgs
  <2> DEFINE o == [mobj EXCEPT !.conds = MarkTrue(ScriptMarked(@), "AuthDataReady")]
  <2>1. UpdateMachineStatus(o, "create", "requeue") /\ pc \in Working
    BY <1>8 DEF GetMachineCreationArgs, Working, Building
  <2>2. o \in Objects
    <3>1. "MachineCreating" \in Reasons
      BY DEF Reasons
    <3>2. ScriptMarked(mobj.conds) \in Conditions
      BY <3>1, <1>1, MarkType DEF ScriptMarked
    <3>3. MarkTrue(ScriptMarked(mobj.conds), "AuthDataReady") \in Conditions
      BY <3>1, <3>2, MarkType
    <3> QED BY <3>3, <1>1, WithConditions
  <2>3. (Ready(o) => Ready(mobj)) /\ o.del = mobj.del
    BY <1>1 DEF Ready, ScriptMarked, MarkTrue, Objects, Conditions, ConditionTypes
  <2> HIDE DEF o
  <2>4. pc' \notin Terminating /\ pc \notin Terminating
    BY <2>1, <2>2, <1>5, <1>8 DEF Terminating, GetMachineCreationArgs
  <2> QED BY <2>1, <2>2, <2>3, <2>4, <1>2, <1>3, <1>4, StatusKeepsReady
<1> QED BY <1>6, <1>7, <1>8

\* Hosts that come into being make no version wrong.
LEMMA StoreGrows ==
  ASSUME VersionsOK, UNCHANGED hist, \A n \in Names : store[n] => store'[n]
  PROVE  VersionsOK'
<1>1. ASSUME NEW m \in Machines, NEW j \in 1..Len(hist[m])
      PROVE  VersionOK(hist[m], j, store'[Name[m]])
  <2>1. Name[m] \in Names
    BY ConstantsAssumption
  <2>2. VersionOK(hist[m], j, store[Name[m]])
    BY DEF VersionsOK
  <2> QED BY <2>1, <2>2 DEF VersionOK
<1> QED BY <1>1 DEF VersionsOK

\* The steps of a reconcile that write nothing and leave MachineReady alone.
LEMMA SilentKeepsReady ==
  ASSUME IInv, ReadyInv, UNCHANGED <<hist, cur, store>>, pc \in Working,
         pc' \notin Terminating, Ready(mobj') => Ready(mobj)
  PROVE  ReadyInv'
<1>1. VersionsOK' /\ (AllKnown(cur) => AllKnown(cur)')
  BY DEF ReadyInv, VersionsOK, AllKnown
<1> QED BY <1>1 DEF ReadyInv, MemoryOK

\* The steps that leave machineObj, its version and the hosts alone.
LEMMA StillKeepsReady ==
  ASSUME IInv, SeenOK, ReadyInv, UNCHANGED <<hist, cur, seen, mobj, store>>,
         pc' \in Working => pc \in Working,
         pc' \in Terminating => pc \in Terminating
  PROVE  ReadyInv'
<1>1. VersionsOK' /\ (\A c \in Machines : AllKnown(c) => AllKnown(c)') /\ HistGrows
  BY DEF ReadyInv, VersionsOK, AllKnown, HistGrows
<1>2. pc \in Working => cur \in Machines
  BY DEF IInv, TypeOK, Working, Building
<1>3. MemoryOK'
  BY <1>1, <1>2, MemoryKept DEF IInv, ReadyInv
<1> QED BY <1>1, <1>3 DEF ReadyInv

\* docker-machine create: ready is marked only when the host is in the store.
LEMMA CreateKeepsReady ==
  ASSUME IInv, ReadyInv, CreateSucceeds \/ CreateFails
  PROVE  ReadyInv'
<1>1. /\ TypeOK /\ HostsKnown /\ cur \in Machines /\ mobj \in Objects /\ mobj.conds \in Conditions
      /\ UNCHANGED <<hist, cur>> /\ VersionsOK
  BY DEF IInv, TypeOK, Objects, ReadyInv, CreateSucceeds, CreateFails
<1>2. CASE CreateSucceeds
  <2>1. /\ \A n \in Names : store[n] => store'[n]
        /\ store'[Name[cur]]
    BY <1>1, <1>2, ConstantsAssumption DEF CreateSucceeds, Entered, TypeOK
  <2>2. pc' \notin Terminating
    BY <1>2 DEF CreateSucceeds, Terminating
  <2>3. MemoryOK'
    BY <2>1, <2>2, <1>1 DEF MemoryOK, AllKnown
  <2> QED BY <2>1, <2>3, <1>1, StoreGrows DEF ReadyInv
<1>3. CASE CreateFails
  <2>1. PICK c \in CutShort : store' = c[1]
    BY <1>3 DEF CreateFails
  <2>2. \A n \in Names : store[n] => store'[n]
    BY <2>1, <1>1, CutShortType
  <2>3. mobj' = [mobj EXCEPT !.conds =
                   MarkFalse(Creating(@), "MachineReady", "MachineCreationFailed")]
    BY <1>3 DEF CreateFails
  <2>4. ~Ready(mobj')
    BY <2>3, <1>1 DEF Ready, MarkFalse, MarkTrue, Creating, Objects, Conditions, ConditionTypes
  <2>5. pc' \notin Working
    BY <1>3 DEF CreateFails, Working, Building
  <2>6. MemoryOK'
    BY <2>4, <2>5 DEF MemoryOK, Ready
  <2> QED BY <2>2, <2>6, <1>1, StoreGrows DEF ReadyInv
<1> QED BY <1>2, <1>3

\* docker-machine rm: nothing that says ready is left of this Machine but versions of
\* its deletion, and no other Machine has the host.
LEMMA RmKeepsReady ==
  ASSUME NamesDiffer, IInv, SeenOK, ReadyInv, DeleteDockerMachine
  PROVE  ReadyInv'
<1>1. PICK c \in Machines : cur = c
  BY DEF IInv, TypeOK, DeleteDockerMachine
<1>2. /\ pc = "rm" /\ UNCHANGED <<hist, cur, mobj, seen>> /\ pc' \notin Working
      /\ store' \in {store, [store EXCEPT ![Name[c]] = FALSE]}
  BY <1>1 DEF DeleteDockerMachine, AfterRm, Working, Building
<1>3. /\ store \in [Names -> BOOLEAN] /\ HistOK(hist[c]) /\ Len(hist[c]) \in Nat
      /\ NoLive(hist[c]) /\ (hist[c][1].del \/ NoDel(hist[c])) /\ VersionsOK
      /\ Ready(mobj) => Echo
  <2>1. /\ store \in [Names -> BOOLEAN] /\ HistType /\ HistoriesOK /\ WorkerOK
        /\ VersionsOK /\ MemoryOK
    BY DEF IInv, TypeOK, HistType, ReadyInv
  <2>2. HistOK(hist[c]) /\ Len(hist[c]) \in Nat
    BY <2>1, LastVersion DEF HistoriesOK
  <2>3. pc \in Terminating
    BY <1>2 DEF Terminating
  <2>4. NoLive(hist[c]) /\ (hist[c][1].del \/ NoDel(hist[c]))
    BY <2>1, <2>3, <1>1, <1>2 DEF WorkerOK
  <2>5. Ready(mobj) => Echo
    BY <2>1, <2>3, <1>1 DEF MemoryOK
  <2> QED BY <2>1, <2>2, <2>4, <2>5
<1>4. ASSUME NEW j \in 1..Len(hist[c]), Ready(hist[c][j])
      PROVE  \A i \in 1..j : hist[c][i].del
  <2>1. HasFin(hist[c][j])
    BY <1>3, <1>4 DEF VersionsOK, VersionOK
  <2>2. hist[c][j].del
    BY <2>1, <1>3 DEF NoLive, Live, HasFin
  <2>3. hist[c][1].del
    BY <2>2, <1>3 DEF NoDel
  <2>4. ASSUME NEW i \in 1..j, i # 1, i # j PROVE hist[c][i].del
    <3>1. 1 \in 1..Len(hist[c]) /\ i \in 1..Len(hist[c]) /\ 1 < i /\ i < j
      BY <2>4, <1>3
    <3> QED BY <3>1, <2>2, <2>3, <1>3 DEF HistOK
  <2> QED BY <2>2, <2>3, <2>4
<1>5. ASSUME NEW m \in Machines, NEW j \in 1..Len(hist[m])
      PROVE  VersionOK(hist[m], j, store'[Name[m]])
  <2>1. VersionOK(hist[m], j, store[Name[m]])
    BY <1>3 DEF VersionsOK
  <2>2. CASE m = c
    BY <2>1, <2>2, <1>4 DEF VersionOK
  <2>3. CASE m # c
    <3>1. Name[m] # Name[c] /\ Name[m] \in Names /\ Name[c] \in Names
      BY <2>3, ConstantsAssumption DEF NamesDiffer
    <3>2. store'[Name[m]] = store[Name[m]]
      BY <3>1, <1>2, <1>3
    <3> QED BY <3>2, <2>1
  <2> QED BY <2>2, <2>3
<1>6. VersionsOK'
  BY <1>2, <1>5 DEF VersionsOK
<1>7. Echo => Echo'
  BY <1>2 DEF Echo
<1>8. MemoryOK'
  BY <1>2, <1>3, <1>7 DEF MemoryOK
<1> QED BY <1>6, <1>8 DEF ReadyInv

\* Reconcile takes the cached version into machineObj: if it is not of a deletion, then
\* whatever version says ready, the host is there.
LEMMA ReconcileKeepsReady ==
  ASSUME IInv, ReadyInv, NEW m \in Machines, Reconcile(m)
  PROVE  ReadyInv'
<1>1. /\ HistType /\ UNCHANGED <<hist, store>> /\ cur' = m /\ seen' = 1
      /\ mobj' = Cached(m) /\ pc' = AfterGet(Cached(m)) /\ VersionsOK
  BY DEF IInv, TypeOK, HistType, ReadyInv, Reconcile, disk
<1>2. /\ Len(hist[m]) \in Nat /\ 1 \in 1..Len(hist[m])
      /\ Cached(m) \in Objects /\ Cached(m) = hist[m][1]
  BY <1>1, CurrentVersions
<1>3. /\ pc' \in Working => ~hist[m][1].del
      /\ pc' \in Terminating => hist[m][1].del
  BY <1>1, <1>2 DEF AfterGet, Working, Building, Terminating, Objects
<1>4. ASSUME NEW j \in 1..Len(hist[m]), Ready(hist[m][j]), ~hist[m][1].del
      PROVE  store[Name[m]]
  <2>1. 1 \in 1..j
    BY <1>2
  <2> QED BY <2>1, <1>1, <1>4 DEF VersionsOK, VersionOK
<1>5. VersionsOK'
  BY <1>1 DEF VersionsOK
<1>6. hist[m][1].del => Echo'
  BY <1>1, <1>2 DEF Echo
<1>7. pc' \in Working => AllKnown(m)'
  BY <1>1, <1>3, <1>4 DEF AllKnown
<1>8. Ready(mobj') => store[Name[m]] \/ hist[m][1].del
  BY <1>1, <1>2, <1>4
<1>9. MemoryOK'
  BY <1>1, <1>3, <1>6, <1>7, <1>8 DEF MemoryOK, AllKnown
<1> QED BY <1>5, <1>9 DEF ReadyInv

\* A user's step adds a version that says of readiness what the stored one says.
LEMMA UserKeepsReady ==
  ASSUME IInv, SeenOK, ReadyInv, NEW m \in Machines,
         UserCreate(m) \/ UserEdit(m) \/ UserDelete(m)
  PROVE  ReadyInv'
<1>1. /\ TypeOK /\ HistType /\ VersionsOK /\ MemoryOK /\ UNCHANGED <<cur, seen, mobj, pc, store>>
  BY DEF IInv, TypeOK, HistType, ReadyInv, UserCreate, UserEdit, UserDelete, disk
<1>2. /\ Api(m) \in Objects /\ Api(m) = hist[m][Len(hist[m])] /\ Len(hist[m]) \in 1..Len(hist[m])
  BY <1>1, CurrentVersions, LastVersion
<1>3. Ready(Api(m)) => HasFin(Api(m))
  BY <1>1, <1>2 DEF VersionsOK, VersionOK
<1>4. ~Ready(Gone) /\ ~Ready(Fresh)
  BY NotReady
<1>5. PICK new \in Objects : Emit(m, new) /\ MayWrite(m, new)
  <2>1. CASE UserCreate(m)
    BY <2>1, <1>4, GoneType DEF UserCreate, MayWrite
  <2>2. CASE UserEdit(m)
    BY <2>2, <1>2, <1>3 DEF UserEdit, MayWrite
  <2>3. CASE UserDelete(m) /\ Api(m).fin
    <3> DEFINE d == [Api(m) EXCEPT !.del = TRUE]
    <3>1. d \in Objects /\ d.conds = Api(m).conds /\ d.del /\ d.ex = Api(m).ex /\ d.fin = Api(m).fin
      BY <1>2 DEF Objects
    <3>2. Emit(m, d)
      BY <2>3 DEF UserDelete
    <3> HIDE DEF d
    <3> QED BY <3>1, <3>2, <1>3 DEF MayWrite, Ready, HasFin
  <2>4. CASE UserDelete(m) /\ ~Api(m).fin
    BY <2>4, <1>4, GoneType DEF UserDelete, MayWrite
  <2> QED BY <2>1, <2>2, <2>3, <2>4
<1>6. /\ VersionsOK' /\ (\A c \in Machines : AllKnown(c) => AllKnown(c)')
  BY <1>1, <1>5, WriteKeeps
<1>7. HistGrows
  BY <1>1, <1>5, EmitGrows
<1>8. pc \in Working => cur \in Machines
  BY <1>1 DEF TypeOK, Working, Building
<1>9. MemoryOK'
  BY <1>1, <1>6, <1>7, <1>8, MemoryKept
<1> QED BY <1>6, <1>9 DEF ReadyInv

\* The informer drops the oldest version.
LEMMA DeliverKeepsReady ==
  ASSUME IInv, SeenOK, ReadyInv, NEW m \in Machines, Deliver(m)
  PROVE  ReadyInv'
<1> DEFINE h == hist[m]
           t == Tail(h)
<1>1. /\ h \in Seq(Objects) /\ Len(h) > 1 /\ seen \in Nat /\ VersionsOK /\ MemoryOK
      /\ hist'[m] = t /\ (\A x \in Machines : x # m => hist'[x] = hist[x])
      /\ UNCHANGED <<cur, mobj, pc, store>>
      /\ seen' = IF m = cur /\ seen > 0 THEN seen - 1 ELSE seen
  BY DEF IInv, TypeOK, ReadyInv, Deliver, disk
<1> HIDE DEF h
<1>2. Len(t) = Len(h) - 1 /\ \A j \in 1..Len(t) : t[j] = h[j + 1] /\ j + 1 \in 1..Len(h)
  BY <1>1
<1> HIDE DEF t
<1>3. ASSUME NEW j \in 1..Len(t) PROVE VersionOK(t, j, store[Name[m]])
  <2>1. VersionOK(h, j + 1, store[Name[m]])
    BY <1>1, <1>2 DEF VersionsOK, h
  <2>2. \A i \in 1..j : i + 1 \in 1..(j + 1) /\ i \in 1..Len(t)
    BY <1>1, <1>2
  <2>3. \A i \in 1..j : t[i] = h[i + 1]
    BY <2>2, <1>2
  <2> QED BY <2>1, <2>2, <2>3, <1>2 DEF VersionOK
<1>4. VersionsOK'
  <2>1. ASSUME NEW x \in Machines, NEW j \in 1..Len(hist'[x])
        PROVE  VersionOK(hist'[x], j, store'[Name[x]])
    <3>1. CASE x = m
      BY <3>1, <2>1, <1>1, <1>3
    <3>2. CASE x # m
      BY <3>2, <2>1, <1>1 DEF VersionsOK
    <3> QED BY <3>1, <3>2
  <2> QED BY <2>1 DEF VersionsOK
<1>5. pc' \in Working => AllKnown(cur)'
  <2>1. SUFFICES ASSUME pc \in Working, NEW j \in 1..Len(hist'[cur]), Ready(hist'[cur][j])
                 PROVE  store[Name[cur]]
    BY <1>1 DEF AllKnown
  <2>2. AllKnown(cur) /\ cur \in Machines
    BY <2>1, <1>1 DEF MemoryOK, IInv, TypeOK, Working, Building
  <2>3. CASE cur = m
    BY <2>1, <2>2, <2>3, <1>1, <1>2 DEF AllKnown, h
  <2>4. CASE cur # m
    BY <2>1, <2>2, <2>4, <1>1 DEF AllKnown
  <2> QED BY <2>3, <2>4
<1>6. cur \in Machines /\ Echo => Echo'
  <2>1. SUFFICES ASSUME cur \in Machines, Echo PROVE Echo'
    OBVIOUS
  <2>2. CASE cur = m
    <3>1. seen <= Len(h)
      BY <2>2 DEF SeenOK, h
    <3>2. seen' > 0 => seen > 0 /\ hist'[m][seen'] = h[seen]
      BY <3>1, <2>2, <1>1, <1>2
    <3> QED BY <3>2, <2>1, <2>2, <1>1 DEF Echo, h
  <2>3. CASE cur # m
    BY <2>1, <2>3, <1>1 DEF Echo
  <2> QED BY <2>2, <2>3
<1>7. MemoryOK'
  BY <1>1, <1>5, <1>6 DEF MemoryOK
<1> QED BY <1>4, <1>7 DEF ReadyInv

\* An annotation is a copy of the stored version, made while the worker builds.
LEMMA AnnotationKeepsReady ==
  ASSUME IInv, SeenOK, ReadyInv, PatchAnnotation
  PROVE  ReadyInv'
<1>1. PICK c \in Machines : cur = c
  BY DEF IInv, TypeOK, PatchAnnotation
<1>2. /\ TypeOK /\ HistType /\ VersionsOK /\ MemoryOK /\ cur' = c /\ store' = store
      /\ pc \in Working /\ pc' \notin Terminating
  BY <1>1 DEF IInv, TypeOK, HistType, ReadyInv, PatchAnnotation, disk, Working, Building, Terminating
<1>3. /\ Api(c) \in Objects /\ Api(c) = hist[c][Len(hist[c])] /\ Len(hist[c]) \in 1..Len(hist[c])
  BY <1>2, CurrentVersions, LastVersion
<1>4. Ready(Api(c)) => HasFin(Api(c)) /\ store[Name[c]]
  BY <1>1, <1>2, <1>3 DEF VersionsOK, VersionOK, MemoryOK, AllKnown
<1>5. MayWrite(c, Api(c))
  BY <1>4 DEF MayWrite
<1>6. hist' = hist \/ Emit(c, Api(c))
  BY <1>1 DEF PatchAnnotation
<1>7. VersionsOK' /\ AllKnown(c)'
  BY <1>1, <1>2, <1>3, <1>5, <1>6, WriteKeeps DEF MemoryOK
<1>8. Ready(mobj') => store[Name[c]]
  <2>1. mobj' \in {mobj, Api(c)}
    BY <1>1 DEF PatchAnnotation
  <2> QED BY <2>1, <1>1, <1>2, <1>4 DEF MemoryOK
<1>9. MemoryOK'
  BY <1>2, <1>7, <1>8 DEF MemoryOK, AllKnown
<1> QED BY <1>7, <1>9 DEF ReadyInv

\* ensureFinalizer leaves the status alone, or makes an object without one.
LEMMA EnsureFinalizerKeepsReady ==
  ASSUME IInv, SeenOK, ReadyInv, EnsureFinalizer
  PROVE  ReadyInv'
<1>1. PICK c \in Machines : cur = c
  BY DEF IInv, TypeOK, EnsureFinalizer
<1> DEFINE new == IF Cached(c).ex THEN FinalizerPatched(c, TRUE) ELSE Recreated(TRUE)
<1>2. /\ TypeOK /\ HistType /\ VersionsOK /\ MemoryOK /\ cur' = c /\ store' = store
      /\ pc \in Working /\ pc' \notin Terminating
  BY <1>1 DEF IInv, TypeOK, HistType, ReadyInv, EnsureFinalizer, PatchFinalizer, disk,
       Working, Building, Terminating
<1>3. /\ Api(c) \in Objects /\ Api(c) = hist[c][Len(hist[c])] /\ Len(hist[c]) \in 1..Len(hist[c])
  BY <1>2, CurrentVersions, LastVersion
<1>4. Ready(Api(c)) => HasFin(Api(c)) /\ store[Name[c]]
  BY <1>1, <1>2, <1>3 DEF VersionsOK, VersionOK, MemoryOK, AllKnown
<1>5. /\ new \in Objects
      /\ Ready(new) => new.conds = Api(c).conds
      /\ Ready(new) => new.ex = Api(c).ex /\ new.del = Api(c).del /\ (Api(c).fin => new.fin)
  BY <1>3, GoneType DEF FinalizerPatched, Recreated, Fresh, Gone, NoConditions, Objects, Ready,
       ConditionTypes
<1> HIDE DEF new
<1>6. Ready(new) => store[Name[c]] /\ HasFin(new)
  BY <1>4, <1>5 DEF Ready, HasFin
<1>7. Stored(new) \in Objects /\ MayWrite(c, Stored(new))
  <2>1. CASE Stored(new) = Gone
    BY <2>1, GoneType, NotReady DEF MayWrite
  <2>2. CASE Stored(new) = new
    BY <2>2, <1>5, <1>6 DEF MayWrite
  <2> QED BY <2>1, <2>2 DEF Stored
<1>8. hist' = hist \/ Emit(c, Stored(new))
  BY <1>1 DEF EnsureFinalizer, PatchFinalizer, Put, new
<1>9. VersionsOK' /\ AllKnown(c)'
  BY <1>1, <1>2, <1>7, <1>8, WriteKeeps DEF MemoryOK
<1>10. mobj' \in {mobj, new}
  BY <1>1 DEF EnsureFinalizer, PatchFinalizer, new
<1>11. Ready(mobj') => store[Name[c]]
  BY <1>1, <1>2, <1>6, <1>10 DEF MemoryOK
<1>12. MemoryOK'
  BY <1>2, <1>9, <1>11 DEF MemoryOK, AllKnown
<1> QED BY <1>9, <1>12 DEF ReadyInv

\* The removal of the finalizer ends a deletion: a version that says ready is marked.
LEMMA RemoveFinalizerKeepsReady ==
  ASSUME IInv, SeenOK, ReadyInv, RemoveFinalizer
  PROVE  ReadyInv'
<1>1. PICK c \in Machines : cur = c
  BY DEF IInv, TypeOK, RemoveFinalizer
<1> DEFINE new == IF Cached(c).ex THEN FinalizerPatched(c, FALSE) ELSE Recreated(FALSE)
<1>2. /\ TypeOK /\ HistType /\ VersionsOK /\ MemoryOK /\ cur' = c /\ store' = store
      /\ pc = "unfinalize" /\ pc' \in {"idle", "requeue"} /\ NoLive(hist[c])
  BY <1>1 DEF IInv, TypeOK, HistType, ReadyInv, RemoveFinalizer, PatchFinalizer, disk,
       WorkerOK, Terminating
<1>3. /\ Api(c) \in Objects /\ Api(c) = hist[c][Len(hist[c])] /\ Len(hist[c]) \in 1..Len(hist[c])
      /\ Cached(c) \in Objects
  <2>1. /\ hist[c] \in Seq(Objects) /\ Len(hist[c]) > 0
        /\ Api(c) \in Objects /\ Cached(c) \in Objects /\ Api(c) = LastOf(hist[c])
    BY <1>2, CurrentVersions
  <2>2. Len(hist[c]) \in 1..Len(hist[c])
    BY <2>1
  <2> QED BY <2>1, <2>2 DEF LastOf
<1>4. Ready(Api(c)) => HasFin(Api(c)) /\ Api(c).del
  <2>1. Ready(Api(c)) => HasFin(Api(c))
    BY <1>2, <1>3 DEF VersionsOK, VersionOK
  <2>2. ~Live(Api(c))
    BY <1>2, <1>3 DEF NoLive
  <2> QED BY <2>1, <2>2 DEF Live, HasFin
<1>5. /\ new \in Objects
      /\ Ready(new) => /\ new.conds = Api(c).conds /\ new.del = Api(c).del /\ new.ex = Api(c).ex
                       /\ new.fin => new = Api(c)
  BY <1>3, GoneType DEF FinalizerPatched, Recreated, Fresh, Gone, NoConditions, Objects, Ready,
       ConditionTypes
<1> HIDE DEF new
<1>6. ~Ready(Gone) /\ ~Gone.ex
  BY NotReady DEF Gone
<1>7. Ready(new) => new.del /\ Ready(Api(c))
  BY <1>4, <1>5 DEF Ready
<1>8. Stored(new) \in Objects /\ MayWrite(c, Stored(new))
  <2>1. CASE new.del /\ ~new.fin
    BY <2>1, <1>6, GoneType DEF Stored, MayWrite
  <2>2. CASE ~(new.del /\ ~new.fin)
    <3>1. Stored(new) = new
      BY <2>2 DEF Stored
    <3>2. Ready(new) => new = Api(c) /\ HasFin(new)
      BY <2>2, <1>4, <1>5, <1>7
    <3> QED BY <3>1, <3>2, <1>5 DEF MayWrite
  <2> QED BY <2>1, <2>2
<1>9. Ready(new) /\ Stored(new).ex => Stored(new).conds = new.conds
  BY <1>6 DEF Stored
<1>10. hist' = hist \/ Emit(c, Stored(new))
  BY <1>1 DEF RemoveFinalizer, PatchFinalizer, Put, new
<1>11. VersionsOK' /\ HistGrows
  BY <1>2, <1>8, <1>10, WriteKeeps, EmitGrows
<1>12. CASE UNCHANGED <<mobj, seen>>
  <2>1. \A x \in Machines : AllKnown(x) => AllKnown(x)'
    BY <1>2, <1>8, <1>10, WriteKeeps
  <2>2. pc' \notin Working /\ pc' \notin Terminating /\ pc \notin Working
    BY <1>2 DEF Working, Building, Terminating
  <2>3. MemoryOK'
    BY <2>1, <2>2, <1>1, <1>2, <1>11, <1>12, MemoryKept
  <2> QED BY <2>3, <1>11 DEF ReadyInv
<1>13. CASE /\ Put(c, Stored(new)) /\ mobj' = new /\ seen' = Len(hist'[c])
  <2>1. hist'[c][Len(hist'[c])] = Stored(new)
    <3>1. CASE Stored(new) = Api(c)
      BY <3>1, <1>3, <1>13 DEF Put
    <3>2. CASE Stored(new) # Api(c)
      BY <3>2, <1>2, <1>8, <1>13, EmitEffect DEF Put, LastOf
    <3> QED BY <3>1, <3>2
  <2>2. Ready(new) => Echo'
    BY <2>1, <1>2, <1>7, <1>9, <1>13 DEF Echo
  <2>3. pc' \notin Working
    BY <1>2 DEF Working, Building
  <2>4. MemoryOK'
    BY <2>2, <2>3, <1>13 DEF MemoryOK
  <2> QED BY <2>4, <1>11 DEF ReadyInv
<1> QED BY <1>1, <1>12, <1>13 DEF RemoveFinalizer, PatchFinalizer, new

\* A restart leaves the stored versions, and the hosts if the disk survives.
LEMMA CrashKeepsReady ==
  ASSUME DiskSurvives, IInv, ReadyInv, Crash
  PROVE  ReadyInv'
<1>1. TypeOK /\ HistType /\ VersionsOK /\ HostsKnown
  BY DEF IInv, TypeOK, HistType, ReadyInv
<1>2. cur' = NoMachine /\ pc' = "idle" /\ hist' = [m \in Machines |-> <<Api(m)>>]
  BY DEF Crash
<1>3. \A n \in Names : store[n] => store'[n]
  <2>1. PICK c \in IF pc = "create" THEN CutShort ELSE {<<store, host, group>>} : store' = c[1]
    BY DEF Crash
  <2>2. CASE pc = "create"
    <3>1. cur \in Machines
      BY <2>2, <1>1 DEF TypeOK
    <3> QED BY <3>1, <2>1, <2>2, <1>1, CutShortType
  <2>3. CASE pc # "create"
    BY <2>1, <2>3
  <2> QED BY <2>2, <2>3
<1>4. ASSUME NEW m \in Machines, NEW j \in 1..Len(hist'[m])
      PROVE  VersionOK(hist'[m], j, store'[Name[m]])
  <2>1. /\ Api(m) = hist[m][Len(hist[m])] /\ Len(hist[m]) \in 1..Len(hist[m])
    BY <1>1, LastVersion
  <2>2. VersionOK(hist[m], Len(hist[m]), store[Name[m]])
    BY <2>1, <1>1 DEF VersionsOK
  <2>3. Len(hist'[m]) = 1 /\ hist'[m][1] = Api(m)
    <3>1. hist'[m] = <<Api(m)>>
      BY <1>2
    <3> QED BY <3>1
  <2>4. j = 1 /\ \A i \in 1..j : i = 1
    <3>1. j \in 1..1
      BY <2>3
    <3> QED BY <3>1
  <2>5. Name[m] \in Names
    BY ConstantsAssumption
  <2> QED BY <2>1, <2>2, <2>3, <2>4, <2>5, <1>3 DEF VersionOK
<1>5. VersionsOK'
  BY <1>4 DEF VersionsOK
<1>6. MemoryOK'
  BY <1>2, ConstantsAssumption DEF MemoryOK, Working, Building
<1> QED BY <1>5, <1>6 DEF ReadyInv

\* Every step keeps it.
LEMMA StepKeepsReady ==
  ASSUME DiskSurvives, NamesDiffer, IInv, SeenOK, ReadyInv, [Next]_vars
  PROVE  ReadyInv'
<1>0. mobj \in Objects /\ mobj.conds \in Conditions
  BY DEF IInv, TypeOK, Objects
<1>1. CASE \/ InitPhase \/ FinalStatus \/ SetInitialConditions \/ GetMachineCreationArgs
           \/ CommitCreated \/ CommitTerminating
  BY <1>1, StatusActionsReady
<1>2. CASE SkipCreation \/ CreatePrerequisites \/ ScriptNotDue \/ ScpSucceeds \/ ReadFails
  <2>1. /\ UNCHANGED <<hist, cur, store, mobj>> /\ pc \in Working /\ pc' \notin Terminating
    BY <1>2 DEF SkipCreation, CreatePrerequisites, ScriptNotDue, ScpSucceeds, ReadFails, disk,
         Working, Building, Terminating
  <2> QED BY <2>1, SilentKeepsReady DEF Ready
<1>3. CASE ScriptSecretMissing \/ AuthSecretMissing \/ ScpFails \/ ReadResult
  <2>1. /\ UNCHANGED <<hist, cur, store>> /\ pc \in Working /\ pc' \notin Terminating
    BY <1>3 DEF ScriptSecretMissing, AuthSecretMissing, ScpFails, ReadResult, disk,
         Working, Building, Terminating
  <2>2. Ready(mobj') => Ready(mobj)
    <3>1. CASE ScriptSecretMissing
      BY <3>1, <1>0 DEF ScriptSecretMissing, Ready, MarkFalse, Objects, Conditions, ConditionTypes
    <3>2. CASE AuthSecretMissing
      BY <3>2, <1>0 DEF AuthSecretMissing, ScriptMarked, Ready, MarkFalse, MarkTrue, Objects,
           Conditions, ConditionTypes
    <3>3. CASE ScpFails
      BY <3>3, <1>0 DEF ScpFails, Ready, MarkFalse, Objects, Conditions, ConditionTypes
    <3>4. CASE ReadResult
      BY <3>4, <1>0 DEF ReadResult, Verdict, Ready, MarkFalse, MarkTrue, Objects,
           Conditions, ConditionTypes
    <3> QED BY <3>1, <3>2, <3>3, <3>4, <1>3
  <2> QED BY <2>1, <2>2, SilentKeepsReady
<1>4. CASE CreateSucceeds \/ CreateFails
  BY <1>4, CreateKeepsReady
<1>5. CASE DeleteDockerMachine
  BY <1>5, RmKeepsReady
<1>6. CASE CleanupAWSResources \/ DeleteAzureResourceGroup \/ ReconcileGetFails
  BY <1>6, StillKeepsReady DEF CleanupAWSResources, DeleteAzureResourceGroup, ReconcileGetFails,
       disk, Working, Building, Terminating
<1>7. CASE EnsureFinalizer \/ RemoveFinalizer \/ PatchAnnotation
  BY <1>7, EnsureFinalizerKeepsReady, RemoveFinalizerKeepsReady, AnnotationKeepsReady
<1>8. ASSUME NEW m \in Machines,
             \/ Deliver(m) \/ Reconcile(m) \/ UserCreate(m) \/ UserEdit(m) \/ UserDelete(m)
      PROVE  ReadyInv'
  BY <1>8, DeliverKeepsReady, ReconcileKeepsReady, UserKeepsReady
<1>9. ASSUME NEW n \in Names, ScriptWrites(n) PROVE ReadyInv'
  BY <1>9, StillKeepsReady DEF ScriptWrites, disk
<1>10. CASE Crash
  BY <1>10, CrashKeepsReady
<1>11. CASE UNCHANGED vars
  BY <1>11, StillKeepsReady DEF vars
<1> QED BY <1>1, <1>2, <1>3, <1>4, <1>5, <1>6, <1>7, <1>8, <1>9, <1>10, <1>11 DEF Next, WorkerStep

-----------------------------------------------------------------------------

\* A Machine that reports MachineReady and is not being deleted has its host in
\* docker-machine's store, whatever createMachine, the deletion of an earlier Machine
\* of the same name, a late cache and restarts do, as long as no other Machine has the
\* same host name and the operator's disk survives.
THEOREM ReadyMeansHost == ASSUME DiskSurvives, NamesDiffer PROVE Spec => []ReadyHasHost
<1>1. Init => SeenOK /\ ReadyInv
  <2> SUFFICES ASSUME Init PROVE SeenOK /\ ReadyInv
    OBVIOUS
  <2>1. cur \notin Machines /\ pc = "idle"
    BY ConstantsAssumption DEF Init
  <2>2. \A m \in Machines : Len(hist[m]) = 1 /\ hist[m][1] = Gone
    BY DEF Init
  <2>3. ~Ready(Gone)
    BY NotReady
  <2>4. VersionsOK
    BY <2>2, <2>3 DEF VersionsOK, VersionOK
  <2> QED BY <2>1, <2>4 DEF SeenOK, ReadyInv, MemoryOK, Working, Building
<1>2. IInv /\ SeenOK /\ ReadyInv /\ [Next]_vars => (SeenOK /\ ReadyInv)'
  BY StepKeepsPhase, StepKeepsReady
<1>3. IInv /\ ReadyInv => ReadyHasHost
  <2> SUFFICES ASSUME IInv, ReadyInv, NEW m \in Machines, Ready(Api(m)), ~Api(m).del
               PROVE  store[Name[m]]
    BY DEF ReadyHasHost, Ready
  <2>1. HistType /\ VersionsOK
    BY DEF IInv, TypeOK, HistType, ReadyInv
  <2>2. /\ Len(hist[m]) \in Nat /\ Len(hist[m]) \in 1..Len(hist[m])
        /\ Api(m) = hist[m][Len(hist[m])]
    BY <2>1, LastVersion
  <2> QED BY <2>1, <2>2 DEF VersionsOK, VersionOK
<1> QED BY <1>1, <1>2, <1>3, InvariantHolds, PTL DEF Spec
=============================================================================
