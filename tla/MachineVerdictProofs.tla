------------------------ MODULE MachineVerdictProofs ------------------------
(***************************************************************************)
(* What a Machine reports of its startup script is what the script on its  *)
(* own host wrote, and the phase Success is earned, for every set of       *)
(* Machines with host names and resource groups of their own, every lag of *)
(* the watch and every number of disturbances.                             *)
(*                                                                         *)
(* As with MachineReady the invariant is about every copy of the status:   *)
(* where the host and its result file are gone, the copies that still      *)
(* carry a verdict are of a deletion and get into no other version.        *)
(***************************************************************************)
EXTENDS MachineReadyProofs

\* No two Azure Machines have a resource group in common.
GroupsDiffer ==
  \A a, b \in Machines :
    /\ Driver[a] = "azure" /\ Driver[b] = "azure"
    /\ GetResourceGroupName(a) = GetResourceGroupName(b)
    => a = b

COC(o) == o.conds["ClusterOperationComplete"]

\* The verdict of o is the one in result r; and so is its phase.
Right(o, r) ==
  /\ COC(o) = "True" => r = "ok"
  /\ COC(o) = "ClusterOperationFailed" => r = "fail"
Honest(o, r) == Right(o, r) /\ (o.phase = "Success" => r = "ok")

\* Version j of history h, when r is the result on the host: it is honest unless the
\* cache has shown nothing but the deletion since, and a Success is under the finalizer.
ReportOK(h, j, r) ==
  /\ Honest(h[j], r) \/ \A i \in 1..j : h[i].del
  /\ h[j].phase = "Success" => HasFin(h[j])

ReportsOK ==
  \A m \in Machines : \A j \in 1..Len(hist[m]) : ReportOK(hist[m], j, result[Name[m]])

\* Every version of c has the verdict of its host, or none.
AllRight(c) == \A j \in 1..Len(hist[c]) : Right(hist[c][j], result[Name[c]])

\* What the worker may believe, and the copy of the result file it reads.
BeliefOK ==
  /\ pc \in Working => Right(mobj, result[Name[cur]]) /\ AllRight(cur)
  /\ cur \in Machines => Right(mobj, result[Name[cur]]) \/ Echo
  /\ pc = "read" /\ resultFile \in {"ok", "fail"} => result[Name[cur]] = resultFile

\* A result is on a host.
ResultsHosted == \A n \in Names : result[n] # "none" => host[n] # "none"

VerdictInv == ReportsOK /\ BeliefOK /\ ResultsHosted

-----------------------------------------------------------------------------
(* Verdicts.                                                               *)

\* A copy without conditions has no verdict to be wrong.
LEMMA SilentIsRight ==
  ASSUME NEW o, NEW r, ~Begun(o)
  PROVE  Right(o, r)
BY DEF Begun, Right, COC, NoConditions, ConditionTypes

\* Nor has a Machine that is not there, or a new one.
LEMMA NewIsHonest == \A r : Honest(Gone, r) /\ Honest(Fresh, r)
BY NotBegun, SilentIsRight DEF Honest, Gone, Fresh

\* updateMachineStatus leaves the verdict alone, and makes Success of a status only
\* if the script has succeeded and the Machine is not being deleted.
LEMMA SuccessNeedsVerdict ==
  ASSUME NEW o \in Objects, Complete(o)
  PROVE  /\ COC(Summarised(o)) = COC(o)
         /\ Summarised(o).phase = "Success" => ~o.del /\ Begun(o) /\ COC(o) = "True"
<1> DEFINE c == SetSummary(o.conds)
<1>1. /\ o.conds \in Conditions /\ o.del \in BOOLEAN
      /\ Summarised(o).conds = c /\ Summarised(o).phase = GetPhase(o.del, c)
  BY DEF Summarised, Objects
<1>2. c \in Conditions
  BY <1>1, SummaryType
<1>3. "ClusterOperationComplete" \in ConditionTypes /\ "Ready" \in ConditionTypes
  BY DEF ConditionTypes
<1>4. c["ClusterOperationComplete"] = o.conds["ClusterOperationComplete"]
  BY <1>1, <1>3, SummaryOnly
<1>5. c = NoConditions <=> ~Begun(o)
  BY <1>1, SummaryOnly DEF Begun
<1>6. ASSUME GetPhase(o.del, c) = "Success" PROVE ~o.del /\ Begun(o) /\ c["Ready"] = "True"
  BY <1>1, <1>5, <1>6 DEF GetPhase, PhaseOfReady
<1>7. ASSUME Begun(o), c["Ready"] = "True" PROVE COC(o) = "True"
  <2> DEFINE F == Failing(o.conds)
  <2>1. o.conds["ClusterOperationComplete"] # "Absent"
    BY <1>7 DEF Complete
  <2>2. ConditionsOrder[2] = "ClusterOperationComplete" /\ 2 \in 1..4
    BY DEF ConditionsOrder
  <2>3. 2 \in Present(o.conds)
    BY <2>1, <2>2 DEF Present
  <2>4. SUFFICES ASSUME o.conds["ClusterOperationComplete"] # "True" PROVE FALSE
    BY DEF COC
  <2>5. 2 \in F
    BY <2>2, <2>3, <2>4 DEF Failing
  <2>6. Min(F) \in F
    <3>1. F \subseteq {1, 2, 3, 4}
      BY DEF Failing, Present
    <3>2. \E x \in F : \A y \in F : x <= y
      <4>1. F = {1, 2, 3, 4} \cap F
        BY <3>1
      <4> QED BY <2>5, <4>1
    <3> QED BY <3>2 DEF Min
  <2>7. o.conds[ConditionsOrder[Min(F)]] # "True"
    BY <2>6 DEF Failing
  <2>8. c = [o.conds EXCEPT !["Ready"] = o.conds[ConditionsOrder[Min(F)]]]
    BY <2>3, <2>5 DEF SetSummary
  <2> HIDE DEF F
  <2>9. c["Ready"] = o.conds[ConditionsOrder[Min(F)]]
    BY <2>8, <1>1, <1>3 DEF Conditions
  <2> QED BY <2>7, <2>9, <1>7
<1> QED BY <1>1, <1>4, <1>6, <1>7 DEF COC

-----------------------------------------------------------------------------
(* Writes.                                                                 *)

\* What may be written to m: an honest status, or one of a deletion that is all the
\* cache will show; Success only under the finalizer; and, where all versions have the
\* right verdict, no other.
MayReport(m, new) ==
  /\ \/ Honest(new, result[Name[m]])
     \/ new.del /\ \A i \in 1..Len(hist[m]) : hist[m][i].del
  /\ new.phase = "Success" => HasFin(new)
  /\ AllRight(m) => Right(new, result[Name[m]])

\* Such a write keeps the versions, and what is known of all of them.
LEMMA WriteKeepsReports ==
  ASSUME HistType, ReportsOK, NEW m \in Machines, NEW new \in Objects, MayReport(m, new),
         hist' = hist \/ Emit(m, new), result' = result
  PROVE  /\ ReportsOK'
         /\ \A c \in Machines : AllRight(c) => AllRight(c)'
<1>1. CASE hist' = hist
  BY <1>1 DEF ReportsOK, AllRight
<1>2. CASE Emit(m, new)
  <2> DEFINE h == hist[m]
             a == Append(h, new)
             r == result[Name[m]]
  <2>1. /\ hist'[m] = a /\ \A x \in Machines : x # m => hist'[x] = hist[x]
    BY <1>2, EmitEffect
  <2>2. h \in Seq(Objects) /\ Len(h) \in Nat /\ \A j \in 1..Len(h) : ReportOK(h, j, r)
    BY CurrentVersions, LastVersion DEF ReportsOK
  <2>3. /\ Honest(new, r) \/ (new.del /\ \A i \in 1..Len(h) : h[i].del)
        /\ new.phase = "Success" => HasFin(new)
        /\ AllRight(m) => Right(new, r)
    BY DEF MayReport
  <2> HIDE DEF h, r
  <2>4. /\ Len(a) = Len(h) + 1 /\ a[Len(h) + 1] = new
        /\ \A j \in 1..Len(h) : a[j] = h[j]
    BY <2>2
  <2> HIDE DEF a
  <2>5. ASSUME NEW j \in 1..Len(h) PROVE ReportOK(a, j, r)
    <3>1. a[j] = h[j] /\ \A i \in 1..j : i \in 1..Len(h) /\ a[i] = h[i]
      BY <2>2, <2>4
    <3> QED BY <3>1, <2>2 DEF ReportOK
  <2>6. ReportOK(a, Len(h) + 1, r)
    <3>1. \A i \in 1..(Len(h) + 1) : (i \in 1..Len(h) /\ a[i] = h[i]) \/ a[i] = new
      BY <2>2, <2>4
    <3> QED BY <3>1, <2>3, <2>4 DEF ReportOK
  <2>7. \A j \in 1..Len(a) : j \in 1..Len(h) \/ j = Len(h) + 1
    BY <2>2, <2>4
  <2>8. ASSUME NEW x \in Machines, NEW j \in 1..Len(hist'[x])
        PROVE  ReportOK(hist'[x], j, result'[Name[x]])
    <3>1. CASE x = m
      BY <3>1, <2>1, <2>5, <2>6, <2>7, <2>8 DEF r
    <3>2. CASE x # m
      BY <3>2, <2>1, <2>8 DEF ReportsOK
    <3> QED BY <3>1, <3>2
  <2>9. ReportsOK'
    BY <2>8 DEF ReportsOK
  <2>10. ASSUME NEW c \in Machines, AllRight(c), NEW j \in 1..Len(hist'[c])
         PROVE  Right(hist'[c][j], result'[Name[c]])
    <3>1. CASE c # m
      BY <3>1, <2>1, <2>10 DEF AllRight
    <3>2. CASE c = m /\ j \in 1..Len(h)
      BY <3>2, <2>1, <2>4, <2>10 DEF AllRight, h
    <3>3. CASE c = m /\ j = Len(h) + 1
      BY <3>3, <2>1, <2>3, <2>4, <2>10 DEF r
    <3> QED BY <3>1, <3>2, <3>3, <2>1, <2>7, <2>10
  <2>11. \A c \in Machines : AllRight(c) => AllRight(c)'
    BY <2>10 DEF AllRight
  <2> QED BY <2>9, <2>11
<1> QED BY <1>1, <1>2

\* What is known of the stored object.
LEMMA StoredReports ==
  ASSUME HistType, ReportsOK, NEW m \in Machines
  PROVE  /\ Honest(Api(m), result[Name[m]]) \/ \A i \in 1..Len(hist[m]) : hist[m][i].del
         /\ Api(m).phase = "Success" => HasFin(Api(m))
         /\ AllRight(m) => Right(Api(m), result[Name[m]])
         /\ (\A i \in 1..Len(hist[m]) : hist[m][i].del) => Api(m).del
<1>1. Len(hist[m]) \in 1..Len(hist[m]) /\ Api(m) = hist[m][Len(hist[m])]
  BY LastVersion
<1>2. ReportOK(hist[m], Len(hist[m]), result[Name[m]])
  BY <1>1 DEF ReportsOK
<1> QED BY <1>1, <1>2 DEF ReportOK, AllRight

\* What updateMachineStatus may store.
LEMMA StatusMayReport ==
  ASSUME IInv, SeenOK, CopyInv, VerdictInv, NEW c \in Machines, cur = c, NEW o \in Objects,
         o.del = mobj.del, Cached(c).ex, Accepted(c), Complete(o),
         Begun(o) => Held(c) \/ (Echo /\ o = mobj),
         Right(o, result[Name[c]]) \/ (Echo /\ o = mobj)
  PROVE  MayReport(c, StatusPatched(c, Summarised(o)))
<1> DEFINE n == Summarised(o)
           new == StatusPatched(c, n)
           r == result[Name[c]]
<1>1. /\ TypeOK /\ HistType /\ seen \in Nat /\ CopiesOK /\ ReportsOK
  BY DEF IInv, TypeOK, HistType, CopyInv, VerdictInv
<1>2. /\ Api(c) \in Objects /\ Cached(c) \in Objects
      /\ Api(c) = hist[c][Len(hist[c])] /\ Cached(c) = hist[c][1]
      /\ Len(hist[c]) \in Nat /\ Len(hist[c]) \in 1..Len(hist[c]) /\ 1 \in 1..Len(hist[c])
  BY <1>1, CurrentVersions, LastVersion
<1>3. /\ COC(n) = COC(o)
      /\ n.phase = "Success" => ~o.del /\ Begun(o) /\ COC(o) = "True"
      /\ Begun(n) <=> Begun(o)
      /\ Settled(o) => n.conds = o.conds
  BY SuccessNeedsVerdict, SummarisedSays
<1>4. /\ HasFin(new) <=> HasFin(Api(c))
      /\ new.del = Api(c).del
      /\ new.conds = IF n.conds = Cached(c).conds THEN Api(c).conds ELSE n.conds
      /\ new.phase \in {Api(c).phase, n.phase}
  BY <1>2 DEF StatusPatched, Objects, HasFin
<1>5. /\ Honest(Api(c), r) \/ \A i \in 1..Len(hist[c]) : hist[c][i].del
      /\ Api(c).phase = "Success" => HasFin(Api(c))
      /\ AllRight(c) => Right(Api(c), r)
      /\ (\A i \in 1..Len(hist[c]) : hist[c][i].del) => Api(c).del
  BY <1>1, StoredReports
<1> HIDE DEF n, new, r
<1>6. n.phase = "Success" => r = "ok" /\ HasFin(Api(c))
  <2>1. SUFFICES ASSUME n.phase = "Success" PROVE r = "ok" /\ HasFin(Api(c))
    OBVIOUS
  <2>2. ~Echo
    BY <2>1, <1>3 DEF Echo
  <2> QED BY <2>1, <2>2, <1>3 DEF Right, Held, HasFin, r
<1>7. new.conds = Api(c).conds \/ Right(new, r)
  <2>1. SUFFICES ASSUME new.conds # Api(c).conds PROVE Right(new, r)
    OBVIOUS
  <2>2. new.conds = n.conds /\ n.conds # Cached(c).conds /\ n.conds # Api(c).conds
    BY <2>1, <1>4
  <2>3. CASE Right(o, r)
    BY <2>2, <2>3, <1>3 DEF Right, COC
  <2>4. CASE ~Begun(o)
    <3>1. ~Begun(new)
      BY <2>2, <2>4, <1>3 DEF Begun
    <3> QED BY <3>1, SilentIsRight
  <2>5. ASSUME Begun(o), Echo, o = mobj PROVE FALSE
    <3>1. seen \in {1, Len(hist[c])} /\ Api(c).ex
      BY DEF Accepted
    <3>2. seen > 0 /\ seen \in 1..Len(hist[c]) /\ hist[c][seen].ex
      BY <3>1, <1>2
    <3>3. o.conds = hist[c][seen].conds
      BY <3>2, <2>5 DEF Echo
    <3>4. Settled(hist[c][seen])
      BY <3>2, <3>3, <2>5, <1>1 DEF CopiesOK, StoredOK, Begun
    <3>5. n.conds = hist[c][seen].conds
      BY <3>3, <3>4, <1>3 DEF Settled
    <3> QED BY <3>1, <3>5, <2>2, <1>2
  <2> QED BY <2>3, <2>4, <2>5 DEF r
<1>8. Right(Api(c), r) => Right(new, r)
  BY <1>7 DEF Right, COC
<1>9. new.phase = "Success" => HasFin(new)
  BY <1>4, <1>5, <1>6
<1>10. Honest(Api(c), r) => Honest(new, r)
  BY <1>4, <1>6, <1>8 DEF Honest
<1> QED BY <1>4, <1>5, <1>8, <1>9, <1>10 DEF MayReport, n, new, r

\* machineObj, or what updateMachineStatus makes of it, still echoes its version.
LEMMA EchoCommitted ==
  ASSUME IInv, SeenOK, CopyInv, NEW c \in Machines, cur = c, cur' = c, Echo, Begun(mobj),
         HistGrows, seen' = seen, mobj' \in {mobj, Summarised(mobj)}
  PROVE  Echo'
<1>1. /\ TypeOK /\ HistType /\ CopiesOK /\ mobj \in Objects /\ seen \in Nat
  BY DEF IInv, TypeOK, HistType, CopyInv
<1>2. seen > 0 => hist'[c][seen] = hist[c][seen]
  BY <1>1, SeenStays
<1>3. /\ mobj'.del = mobj.del
      /\ Settled(mobj) => mobj'.conds = mobj.conds
  BY <1>1, SummarisedSays
<1>4. ASSUME seen > 0, hist[c][seen].ex PROVE Settled(mobj)
  <2>1. seen \in 1..Len(hist[c])
    BY <1>1, <1>4, LastVersion DEF SeenOK
  <2>2. mobj.conds = hist[c][seen].conds
    BY <1>4 DEF Echo
  <2>3. Settled(hist[c][seen])
    BY <2>1, <2>2, <1>1 DEF CopiesOK, StoredOK, Begun
  <2> QED BY <2>2, <2>3 DEF Settled
<1> QED BY <1>2, <1>3, <1>4 DEF Echo

\* updateMachineStatus keeps the invariant, when the copy has the verdict of the host or
\* is an echo of its version.
LEMMA StatusKeepsVerdict ==
  ASSUME IInv, SeenOK, CopyInv, VerdictInv, NEW c \in Machines, cur = c, NEW o \in Objects,
         o.del = mobj.del, Complete(o),
         Begun(o) => Held(c) \/ (Echo /\ o = mobj),
         Right(o, result[Name[c]]) \/ (Echo /\ o = mobj),
         pc \in Working => Right(o, result[Name[c]]),
         NEW ok, NEW err, UpdateMachineStatus(o, ok, err), UNCHANGED <<result, host>>,
         pc' \in Working => pc \in Working, pc' # "read"
  PROVE  VerdictInv'
<1> DEFINE n == Summarised(o)
           new == StatusPatched(c, n)
           r == result[Name[c]]
<1>1. /\ TypeOK /\ HistType /\ ReportsOK /\ BeliefOK /\ ResultsHosted' /\ cur' = c
  BY DEF IInv, TypeOK, HistType, VerdictInv, ResultsHosted, UpdateMachineStatus
<1>2. Api(c) \in Objects /\ Api(c) = hist[c][Len(hist[c])]
  BY <1>1, CurrentVersions, LastVersion
<1>3. n \in Objects /\ new \in Objects
  BY <1>2, SummarisedType DEF StatusPatched, Objects
<1>4. COC(n) = COC(o)
  BY SuccessNeedsVerdict
<1>5. Cached(c).ex /\ Accepted(c) => MayReport(c, new)
  BY StatusMayReport
<1>6. o = mobj => n = Summarised(mobj)
  OBVIOUS
<1> HIDE DEF n, new
<1>7. pc \in Working => AllRight(c)
  BY <1>1 DEF BeliefOK
<1>8. ASSUME HistGrows, seen' = seen, mobj' \in {o, n}, ReportsOK',
             AllRight(c) => AllRight(c)'
      PROVE  VerdictInv'
  <2>1. Right(o, r) => Right(mobj', r)
    BY <1>4, <1>8 DEF Right
  <2>2. ASSUME Echo, o = mobj PROVE Right(mobj', r) \/ Echo'
    <3>1. CASE Begun(mobj)
      BY <3>1, <2>2, <1>1, <1>6, <1>8, EchoCommitted
    <3>2. CASE ~Begun(mobj)
      BY <3>2, <2>1, <2>2, SilentIsRight
    <3> QED BY <3>1, <3>2
  <2>3. pc' \in Working => Right(mobj', r) /\ AllRight(c)'
    BY <2>1, <1>7, <1>8
  <2>4. Right(mobj', r) \/ Echo'
    BY <2>1, <2>2
  <2>5. BeliefOK'
    BY <2>3, <2>4, <1>1 DEF BeliefOK, AllRight
  <2> QED BY <2>5, <1>1, <1>8 DEF VerdictInv
<1>9. CASE UNCHANGED <<hist, seen>> /\ mobj' \in {o, n}
  <2>1. HistGrows /\ ReportsOK' /\ (AllRight(c) => AllRight(c)')
    BY <1>1, <1>9 DEF HistGrows, ReportsOK, AllRight
  <2> QED BY <2>1, <1>8, <1>9
<1>10. ASSUME Cached(c).ex, Accepted(c), Put(c, new)
       PROVE  /\ ReportsOK' /\ (AllRight(c) => AllRight(c)') /\ HistGrows
              /\ hist'[c][Len(hist'[c])] = new
  <2>1. hist' = hist \/ Emit(c, new)
    BY <1>10 DEF Put
  <2>2. ReportsOK' /\ (AllRight(c) => AllRight(c)')
    BY <2>1, <1>1, <1>3, <1>5, <1>10, WriteKeepsReports
  <2>3. HistGrows
    BY <2>1, <1>1, <1>3, EmitGrows
  <2>4. hist'[c][Len(hist'[c])] = new
    <3>1. CASE new = Api(c)
      BY <3>1, <1>2, <1>10 DEF Put
    <3>2. CASE new # Api(c)
      BY <3>2, <1>1, <1>3, <1>10, EmitEffect DEF Put, LastOf
    <3> QED BY <3>1, <3>2
  <2> QED BY <2>2, <2>3, <2>4
<1>11. CASE Cached(c).ex /\ Accepted(c) /\ Put(c, new) /\ mobj' = n /\ UNCHANGED seen
  BY <1>8, <1>10, <1>11
<1>12. CASE /\ Cached(c).ex /\ Accepted(c) /\ Put(c, new)
            /\ mobj' = new /\ seen' = Len(hist'[c])
  <2>1. new.del => Echo'
    BY <1>1, <1>10, <1>12 DEF Echo
  <2>2. Right(new, r) \/ new.del
    BY <1>5, <1>12 DEF MayReport, Honest
  <2>3. pc' \in Working => Right(new, r) /\ AllRight(c)'
    BY <1>5, <1>7, <1>10, <1>12 DEF MayReport
  <2>4. BeliefOK'
    BY <2>1, <2>2, <2>3, <1>1, <1>12 DEF BeliefOK, AllRight
  <2> QED BY <2>4, <1>1, <1>10, <1>12 DEF VerdictInv
<1> QED BY <1>9, <1>11, <1>12 DEF UpdateMachineStatus, n, new

-----------------------------------------------------------------------------
(* One step.                                                               *)

\* The status updates of the worker.
LEMMA StatusActionsVerdict ==
  ASSUME IInv, SeenOK, CopyInv, VerdictInv,
         \/ InitPhase \/ FinalStatus \/ SetInitialConditions \/ GetMachineCreationArgs
         \/ CommitCreated \/ CommitTerminating
  PROVE  VerdictInv'
<1>1. PICK c \in Machines : cur = c
  BY DEF IInv, TypeOK, InitPhase, FinalStatus, SetInitialConditions,
         GetMachineCreationArgs, CommitCreated, CommitTerminating
<1>2. UNCHANGED <<result, host>>
  BY DEF InitPhase, FinalStatus, SetInitialConditions, GetMachineCreationArgs,
         CommitCreated, CommitTerminating, cloud
<1>3. /\ TypeOK /\ mobj \in Objects /\ mobj.conds \in Conditions /\ Complete(mobj)
      /\ Begun(mobj) => Held(c) \/ Echo
      /\ pc \in Guarded => Held(c)
      /\ Begun(mobj) \/ pc \notin Reporting
      /\ Right(mobj, result[Name[c]]) \/ Echo
      /\ pc \in Working => Right(mobj, result[Name[c]])
  BY <1>1 DEF IInv, TypeOK, Objects, CopyInv, LocalOK, VerdictInv, BeliefOK
<1>4. ASSUME NEW o \in Objects, NEW ok, NEW err, UpdateMachineStatus(o, ok, err)
      PROVE  pc' \in {ok, err}
  BY <1>1, <1>3, <1>4, StatusStep
<1>5. CASE InitPhase \/ FinalStatus \/ CommitCreated \/ CommitTerminating
  <2>1. PICK ok \in PcStates, err \in PcStates :
          /\ UpdateMachineStatus(mobj, ok, err)
          /\ {ok, err} \cap Working # {} => pc \in Working
          /\ "read" \notin {ok, err}
    BY <1>5 DEF InitPhase, FinalStatus, CommitCreated, CommitTerminating, PcStates, Working,
         Building
  <2>2. pc' \in {ok, err}
    BY <2>1, <1>3, <1>4
  <2> QED BY <2>1, <2>2, <1>1, <1>2, <1>3, StatusKeepsVerdict
<1>6. CASE SetInitialConditions
  <2> DEFINE o == [mobj EXCEPT !.conds = InitialConditions(@)]
             ok == IF Driver[cur] = "amazonec2" THEN "prereq" ELSE "args"
  <2>1. /\ UpdateMachineStatus(o, ok, "requeue") /\ pc \in Working /\ pc \in Guarded
    BY <1>6 DEF SetInitialConditions, Working, Building, Guarded
  <2>2. o \in Objects /\ o.del = mobj.del /\ Complete(o)
    BY <1>3, ArgumentsSay
  <2>3. COC(o) = "WaitingForScriptRun"
    BY <1>3 DEF COC, InitialConditions, MarkFalse, Objects, Conditions, ConditionTypes
  <2>4. Right(o, result[Name[c]])
    BY <2>3 DEF Right
  <2> HIDE DEF o
  <2>5. pc' # "read"
    BY <2>1, <2>2, <1>4
  <2> QED BY <2>1, <2>2, <2>4, <2>5, <1>1, <1>2, <1>3, StatusKeepsVerdict
<1>7. CASE GetMachineCreationArgs
  <2> DEFINE o == [mobj EXCEPT !.conds = MarkTrue(ScriptMarked(@), "AuthDataReady")]
  <2>1. /\ UpdateMachineStatus(o, "create", "requeue") /\ pc \in Working /\ pc \in Guarded
        /\ pc \in Reporting
    BY <1>7 DEF GetMachineCreationArgs, Working, Building, Guarded, Reporting
  <2>2. o \in Objects /\ o.del = mobj.del /\ Complete(o)
    BY <2>1, <1>3, ArgumentsSay
  <2>3. COC(o) = COC(mobj)
    BY <1>3 DEF COC, ScriptMarked, MarkTrue, Objects, Conditions, ConditionTypes
  <2>4. Right(o, result[Name[c]])
    BY <2>1, <2>3, <1>3 DEF Right
  <2> HIDE DEF o
  <2>5. pc' # "read"
    BY <2>1, <2>2, <1>4
  <2> QED BY <2>1, <2>2, <2>4, <2>5, <1>1, <1>2, <1>3, StatusKeepsVerdict
<1> QED BY <1>5, <1>6, <1>7

\* A verdict in a result stays; whatever else becomes of the results makes no copy wrong.
LEMMA StillHonest ==
  ASSUME NEW o, NEW r, NEW s, r \in {"ok", "fail"} => s = r
  PROVE  (Right(o, r) => Right(o, s)) /\ (Honest(o, r) => Honest(o, s))
BY DEF Right, Honest

\* The steps that write nothing to the server and take no host away.
LEMMA SilentKeepsVerdict ==
  ASSUME IInv, VerdictInv, UNCHANGED <<hist, cur, seen>>, ResultsHosted',
         \A n \in Names : result[n] \in {"ok", "fail"} => result'[n] = result[n],
         mobj' = mobj \/ (pc \in Working /\ Right(mobj', result[Name[cur]])),
         pc' \in Working => pc \in Working,
         pc' = "read" /\ resultFile' \in {"ok", "fail"} => result'[Name[cur]] = resultFile'
  PROVE  VerdictInv'
<1>1. \A m \in Machines : Name[m] \in Names
  BY ConstantsAssumption
<1>2. ASSUME NEW m \in Machines, NEW j \in 1..Len(hist[m])
      PROVE  ReportOK(hist[m], j, result'[Name[m]])
  <2>1. ReportOK(hist[m], j, result[Name[m]])
    BY DEF VerdictInv, ReportsOK
  <2>2. Honest(hist[m][j], result[Name[m]]) => Honest(hist[m][j], result'[Name[m]])
    BY <1>1, StillHonest
  <2> QED BY <2>1, <2>2 DEF ReportOK
<1>3. ReportsOK'
  BY <1>2 DEF ReportsOK
<1>4. CASE cur \notin Machines
  <2>1. pc \notin Working
    BY <1>4 DEF IInv, TypeOK, Working, Building
  <2> QED BY <2>1, <1>3, <1>4 DEF VerdictInv, BeliefOK
<1>5. ASSUME NEW c \in Machines, cur = c PROVE VerdictInv'
  <2>1. ASSUME NEW o, Right(o, result[Name[c]]) PROVE Right(o, result'[Name[c]])
    BY <2>1, <1>1, StillHonest
  <2>2. AllRight(c) => AllRight(c)'
    BY <2>1 DEF AllRight
  <2>3. BeliefOK
    BY DEF VerdictInv
  <2>4. /\ pc \in Working => Right(mobj, result[Name[c]]) /\ AllRight(c)
        /\ Right(mobj, result[Name[c]]) \/ Echo
    BY <2>3, <1>5 DEF BeliefOK
  <2>5. pc' \in Working => Right(mobj', result'[Name[c]]) /\ AllRight(c)'
    BY <2>1, <2>2, <2>4, <1>5
  <2>6. Right(mobj', result'[Name[c]]) \/ Echo'
    <3>1. CASE mobj' = mobj /\ Echo
      BY <3>1 DEF Echo
    <3>2. CASE ~(mobj' = mobj /\ Echo)
      BY <3>2, <2>1, <2>4, <1>5
    <3> QED BY <3>1, <3>2
  <2>7. BeliefOK'
    BY <2>5, <2>6, <1>5 DEF BeliefOK, AllRight
  <2> QED BY <2>7, <1>3 DEF VerdictInv
<1> QED BY <1>4, <1>5

\* The steps of a reconcile that mark a condition: the verdict is touched only by
\* isScriptFinished, which takes it from the file that it has copied from the host.
LEMMA MarksKeepVerdict ==
  ASSUME IInv, VerdictInv,
         ScriptSecretMissing \/ AuthSecretMissing \/ ScpFails \/ ReadResult
  PROVE  VerdictInv'
<1>1. PICK c \in Machines : cur = c
  BY DEF IInv, TypeOK, ScriptSecretMissing, AuthSecretMissing, ScpFails, ReadResult
<1>2. /\ UNCHANGED <<hist, cur, seen, result, host>> /\ pc \in Working /\ pc' # "read"
  BY DEF ScriptSecretMissing, AuthSecretMissing, ScpFails, ReadResult, cloud, Working, Building
<1>3. /\ mobj \in Objects /\ mobj.conds \in Conditions
      /\ Right(mobj, result[Name[c]])
      /\ pc = "read" /\ resultFile \in {"ok", "fail"} => result[Name[c]] = resultFile
  BY <1>1, <1>2 DEF IInv, TypeOK, Objects, VerdictInv, BeliefOK
<1>4. Right(mobj', result[Name[c]])
  <2>1. CASE ScriptSecretMissing
    <3>1. COC(mobj') = COC(mobj)
      BY <2>1, <1>3 DEF ScriptSecretMissing, COC, MarkFalse, Objects, Conditions, ConditionTypes
    <3> QED BY <3>1, <1>3 DEF Right
  <2>2. CASE AuthSecretMissing
    <3>1. COC(mobj') = COC(mobj)
      BY <2>2, <1>3 DEF AuthSecretMissing, ScriptMarked, COC, MarkFalse, MarkTrue, Objects,
           Conditions, ConditionTypes
    <3> QED BY <3>1, <1>3 DEF Right
  <2>3. CASE ScpFails
    <3>1. COC(mobj') = "WaitingForScriptCompletion"
      BY <2>3, <1>3 DEF ScpFails, COC, MarkFalse, Objects, Conditions, ConditionTypes
    <3> QED BY <3>1 DEF Right
  <2>4. CASE ReadResult
    <3>1. resultFile \in {"ok", "fail"} /\ result[Name[c]] = resultFile
      BY <2>4, <1>3 DEF ReadResult
    <3>2. COC(mobj') = IF resultFile = "ok" THEN "True" ELSE "ClusterOperationFailed"
      BY <2>4, <1>3 DEF ReadResult, Verdict, COC, MarkFalse, MarkTrue, Objects, Conditions,
           ConditionTypes
    <3> QED BY <3>1, <3>2 DEF Right
  <2> QED BY <2>1, <2>2, <2>3, <2>4
<1>5. ResultsHosted'
  BY <1>2 DEF VerdictInv, ResultsHosted
<1> QED BY <1>1, <1>2, <1>4, <1>5, SilentKeepsVerdict

\* docker-machine create touches no result but that of the host it makes, which has none.
LEMMA CreateKeepsVerdict ==
  ASSUME IInv, VerdictInv, CreateSucceeds \/ CreateFails
  PROVE  VerdictInv'
<1>1. PICK c \in Machines : cur = c
  BY DEF IInv, TypeOK, CreateSucceeds, CreateFails
<1>2. /\ UNCHANGED <<hist, cur, seen>> /\ pc \in Working /\ pc' # "read"
  BY DEF CreateSucceeds, CreateFails, Working, Building
<1>3. /\ TypeOK /\ HostsKnown /\ ResultsHosted /\ Name[c] \in Names
      /\ host \in [Names -> HostStates] /\ result \in [Names -> Results]
      /\ mobj \in Objects /\ mobj.conds \in Conditions /\ Right(mobj, result[Name[c]])
  BY <1>1, <1>2, ConstantsAssumption DEF IInv, TypeOK, Objects, VerdictInv, BeliefOK
<1>4. Right(mobj', result[Name[c]])
  <2>1. COC(mobj') = COC(mobj)
    <3>1. CASE CreateSucceeds
      BY <3>1, <1>3 DEF CreateSucceeds, Creating, COC, MarkTrue, Objects, Conditions, ConditionTypes
    <3>2. CASE CreateFails
      BY <3>2, <1>3 DEF CreateFails, Creating, COC, MarkFalse, MarkTrue, Objects, Conditions,
           ConditionTypes
    <3> QED BY <3>1, <3>2
  <2> QED BY <2>1, <1>3 DEF Right
<1>5. ResultsHosted' /\ \A n \in Names : result[n] \in {"ok", "fail"} => result'[n] = result[n]
  <2>1. CASE CreateSucceeds /\ AlreadyExists
    BY <2>1, <1>3 DEF CreateSucceeds, cloud, ResultsHosted
  <2>2. CASE CreateSucceeds /\ ~AlreadyExists
    <3>1. PICK r \in ScriptOutcomes : result' = [result EXCEPT ![Name[c]] = r]
      BY <2>2, <1>1 DEF CreateSucceeds
    <3>2. host' = [host EXCEPT ![Name[c]] = "up"] /\ result[Name[c]] = "none"
      BY <2>2, <1>1, <1>3 DEF CreateSucceeds, AlreadyExists, ResultsHosted
    <3> QED BY <3>1, <3>2, <1>3 DEF ResultsHosted
  <2>3. CASE CreateFails
    <3>1. PICK s \in CutShort : host' = s[2] /\ result' = result
      BY <2>3 DEF CreateFails
    <3>2. host' \in {host, [host EXCEPT ![Name[c]] = "half"]}
      BY <3>1, <1>1 DEF CutShort
    <3> QED BY <3>1, <3>2, <1>3 DEF ResultsHosted
  <2> QED BY <2>1, <2>2, <2>3
<1> QED BY <1>1, <1>2, <1>4, <1>5, SilentKeepsVerdict

\* The steps that leave machineObj and the results alone.
LEMMA StillKeepsVerdict ==
  ASSUME IInv, VerdictInv, UNCHANGED <<hist, cur, seen, mobj, result, host>>,
         pc' \in Working => pc \in Working,
         pc' = "read" => \/ resultFile' = result[Name[cur]]
                         \/ pc = "read" /\ resultFile' = resultFile
  PROVE  VerdictInv'
<1>1. ResultsHosted' /\ BeliefOK
  BY DEF VerdictInv, ResultsHosted
<1>2. pc' = "read" /\ resultFile' \in {"ok", "fail"} => result'[Name[cur]] = resultFile'
  BY <1>1 DEF BeliefOK
<1> QED BY <1>1, <1>2, SilentKeepsVerdict

\* The script writes its result where there is a host and no verdict yet.
LEMMA ScriptKeepsVerdict ==
  ASSUME IInv, VerdictInv, NEW n \in Names, ScriptWrites(n)
  PROVE  VerdictInv'
<1>1. /\ UNCHANGED <<hist, cur, seen, mobj, pc, host, resultFile>>
      /\ result[n] \in {"none", "garbage"} /\ host[n] # "none"
  BY DEF ScriptWrites, disk
<1>2. PICK r : result' = [result EXCEPT ![n] = r]
  BY DEF ScriptWrites
<1>3. ResultsHosted /\ BeliefOK /\ result \in [Names -> Results]
  BY DEF IInv, TypeOK, VerdictInv
<1>4. ResultsHosted' /\ \A x \in Names : result[x] \in {"ok", "fail"} => result'[x] = result[x]
  BY <1>1, <1>2, <1>3 DEF ResultsHosted
<1>5. pc' = "read" /\ resultFile' \in {"ok", "fail"} => result'[Name[cur]] = resultFile'
  <2>1. SUFFICES ASSUME pc = "read", resultFile \in {"ok", "fail"}
                 PROVE  result'[Name[cur]] = resultFile
    BY <1>1
  <2>2. Name[cur] \in Names
    BY <2>1, ConstantsAssumption DEF IInv, TypeOK
  <2>3. result[Name[cur]] = resultFile
    BY <2>1, <1>3 DEF BeliefOK
  <2> QED BY <2>1, <2>2, <2>3, <1>4
<1> QED BY <1>1, <1>4, <1>5, SilentKeepsVerdict

\* The cleanup takes the host of a Machine under deletion and no other: the versions
\* that carry a verdict or the phase Success are all of the deletion.
LEMMA HostsGoVerdict ==
  ASSUME IInv, CopyInv, VerdictInv, NEW c \in Machines, cur = c, pc \in Terminating,
         UNCHANGED <<hist, cur, seen, mobj>>, pc' \notin Working,
         NEW N, HostsGo(N), \A x \in Machines : Name[x] \in N => x = c
  PROVE  VerdictInv'
<1>1. /\ HistType /\ HistOK(hist[c]) /\ Len(hist[c]) \in Nat
      /\ NoLive(hist[c]) /\ (hist[c][1].del \/ NoDel(hist[c]))
      /\ CopiesOK /\ ReportsOK /\ ResultsHosted
      /\ Begun(mobj) => Echo
  <2>1. HistType /\ HistoriesOK /\ WorkerOK
    BY DEF IInv, TypeOK, HistType
  <2>2. HistOK(hist[c]) /\ Len(hist[c]) \in Nat
    BY <2>1, LastVersion DEF HistoriesOK
  <2>3. NoLive(hist[c]) /\ (hist[c][1].del \/ NoDel(hist[c]))
    BY <2>1 DEF WorkerOK
  <2>4. Begun(mobj) => Echo
    BY DEF CopyInv, LocalOK
  <2> QED BY <2>1, <2>2, <2>3, <2>4 DEF CopyInv, VerdictInv
<1>2. /\ \A n \in Names : result'[n] = IF n \in N THEN "none" ELSE result[n]
      /\ \A n \in Names : host'[n] = IF n \in N THEN "none" ELSE host[n]
      /\ \A x \in Machines : Name[x] \in Names
  BY ConstantsAssumption DEF HostsGo
<1>3. ASSUME NEW j \in 1..Len(hist[c]), ~Honest(hist[c][j], "none")
      PROVE  \A i \in 1..j : hist[c][i].del
  <2>1. HasFin(hist[c][j])
    <3>1. CASE hist[c][j].phase = "Success"
      BY <3>1, <1>1 DEF ReportsOK, ReportOK
    <3>2. CASE hist[c][j].phase # "Success"
      <4>1. Begun(hist[c][j])
        BY <3>2, <1>3, SilentIsRight DEF Honest
      <4> QED BY <4>1, <1>1 DEF CopiesOK, StoredOK
    <3> QED BY <3>1, <3>2
  <2>2. hist[c][j].del
    BY <2>1, <1>1 DEF NoLive, Live, HasFin
  <2>3. hist[c][1].del
    BY <2>2, <1>1 DEF NoDel
  <2>4. ASSUME NEW i \in 1..j, i # 1, i # j PROVE hist[c][i].del
    <3>1. 1 \in 1..Len(hist[c]) /\ i \in 1..Len(hist[c]) /\ 1 < i /\ i < j
      BY <2>4, <1>1
    <3> QED BY <3>1, <2>2, <2>3, <1>1 DEF HistOK
  <2> QED BY <2>2, <2>3, <2>4
<1>4. ASSUME NEW m \in Machines, NEW j \in 1..Len(hist[m])
      PROVE  ReportOK(hist[m], j, result'[Name[m]])
  <2>1. ReportOK(hist[m], j, result[Name[m]])
    BY <1>1 DEF ReportsOK
  <2>2. CASE Name[m] \in N
    <3>1. m = c /\ result'[Name[m]] = "none"
      BY <2>2, <1>2
    <3> QED BY <3>1, <2>1, <1>3 DEF ReportOK
  <2>3. CASE Name[m] \notin N
    BY <2>1, <2>3, <1>2
  <2> QED BY <2>2, <2>3
<1>5. ReportsOK'
  BY <1>4 DEF ReportsOK
<1>6. Right(mobj', result'[Name[c]]) \/ Echo'
  <2>1. CASE Begun(mobj)
    BY <2>1, <1>1 DEF Echo
  <2>2. CASE ~Begun(mobj)
    BY <2>2, SilentIsRight
  <2> QED BY <2>1, <2>2
<1>7. pc' # "read"
  BY DEF Working
<1>8. BeliefOK'
  BY <1>6, <1>7 DEF BeliefOK
<1>9. ResultsHosted'
  BY <1>1, <1>2 DEF ResultsHosted
<1> QED BY <1>5, <1>8, <1>9 DEF VerdictInv

\* docker-machine rm removes the host of this Machine's name, and
\* deleteAzureResourceGroup those of the Machines in its group.
LEMMA CleanupKeepsVerdict ==
  ASSUME NamesDiffer, GroupsDiffer, IInv, CopyInv, VerdictInv,
         DeleteDockerMachine \/ DeleteAzureResourceGroup
  PROVE  VerdictInv'
<1>1. PICK c \in Machines : cur = c
  BY DEF IInv, TypeOK, DeleteDockerMachine, DeleteAzureResourceGroup
<1>2. /\ UNCHANGED <<hist, cur, seen, mobj>> /\ pc \in Terminating
      /\ pc' \in {"requeue", "cloud", "unfinalize"}
  BY DEF DeleteDockerMachine, DeleteAzureResourceGroup, AfterRm, Terminating
<1>3. pc' \notin Working /\ pc' # "read"
  BY <1>2 DEF Working, Building
<1>4. CASE UNCHANGED <<result, host>>
  BY <1>2, <1>3, <1>4, StillKeepsVerdict
<1>5. CASE HostsGo({Name[c]})
  <2>1. \A x \in Machines : Name[x] \in {Name[c]} => x = c
    BY DEF NamesDiffer
  <2> QED BY <2>1, <1>1, <1>2, <1>3, <1>5, HostsGoVerdict
<1>6. CASE Driver[c] = "azure" /\ HostsGo(HostsIn(GetResourceGroupName(c)))
  <2>1. ASSUME NEW x \in Machines, Name[x] \in HostsIn(GetResourceGroupName(c)) PROVE x = c
    <3>1. PICK y \in Machines : /\ Driver[y] = "azure" /\ Name[y] = Name[x]
                                /\ GetResourceGroupName(y) = GetResourceGroupName(c)
      BY <2>1 DEF HostsIn
    <3>2. y = x
      BY <3>1 DEF NamesDiffer
    <3>3. y = c
      BY <3>1, <1>6 DEF GroupsDiffer
    <3> QED BY <3>2, <3>3
  <2> QED BY <2>1, <1>1, <1>2, <1>3, <1>6, HostsGoVerdict
<1> QED BY <1>1, <1>4, <1>5, <1>6 DEF DeleteDockerMachine, DeleteAzureResourceGroup, GroupGoes,
            cloud

\* Reconcile takes the cached version into machineObj: if it is not of a deletion, then
\* every version has the verdict of the host.
LEMMA ReconcileKeepsVerdict ==
  ASSUME IInv, VerdictInv, NEW m \in Machines, Reconcile(m)
  PROVE  VerdictInv'
<1>1. /\ HistType /\ UNCHANGED <<hist, result, host>> /\ cur' = m /\ seen' = 1
      /\ ReportsOK /\ ReportsOK' /\ ResultsHosted'
      /\ mobj' = Cached(m) /\ pc' = AfterGet(Cached(m))
  BY DEF IInv, TypeOK, HistType, VerdictInv, ReportsOK, ResultsHosted, Reconcile, cloud
<1>2. /\ Len(hist[m]) \in Nat /\ 1 \in 1..Len(hist[m])
      /\ Cached(m) \in Objects /\ Cached(m) = hist[m][1]
  BY <1>1, CurrentVersions, LastVersion
<1>3. (pc' \in Working => ~hist[m][1].del) /\ pc' # "read"
  BY <1>1, <1>2 DEF AfterGet, Working, Building, Objects
<1>4. ASSUME ~hist[m][1].del, NEW j \in 1..Len(hist[m])
      PROVE  Right(hist[m][j], result[Name[m]])
  <2>1. 1 \in 1..j
    BY <1>2
  <2> QED BY <2>1, <1>1, <1>4 DEF ReportsOK, ReportOK, Honest
<1>5. hist[m][1].del => Echo'
  BY <1>1, <1>2 DEF Echo
<1>6. BeliefOK'
  BY <1>1, <1>2, <1>3, <1>4, <1>5 DEF BeliefOK, AllRight
<1> QED BY <1>1, <1>6 DEF VerdictInv

\* A step that leaves machineObj and the results alone, and adds at most a version that
\* may be written.
LEMMA OthersKeepVerdict ==
  ASSUME IInv, SeenOK, VerdictInv, HistGrows,
         UNCHANGED <<cur, seen, mobj, result, host, resultFile>>, ReportsOK',
         \A c \in Machines : AllRight(c) => AllRight(c)',
         pc' \in Working => pc \in Working, pc' = "read" => pc = "read"
  PROVE  VerdictInv'
<1>1. TypeOK /\ BeliefOK /\ ResultsHosted'
  BY DEF IInv, VerdictInv, ResultsHosted
<1>2. CASE cur \notin Machines
  <2>1. pc \notin Working /\ pc # "read"
    BY <1>1, <1>2 DEF TypeOK, Working, Building
  <2> QED BY <2>1, <1>1, <1>2 DEF VerdictInv, BeliefOK
<1>3. ASSUME NEW c \in Machines, cur = c PROVE VerdictInv'
  <2>1. Echo => Echo'
    BY <1>1, <1>3, EchoKept
  <2>2. pc' \in Working => AllRight(c)'
    BY <1>1, <1>3 DEF BeliefOK
  <2>3. BeliefOK'
    BY <2>1, <2>2, <1>1, <1>3 DEF BeliefOK, AllRight
  <2> QED BY <2>3, <1>1 DEF VerdictInv
<1> QED BY <1>2, <1>3

\* A user's step adds a version with the status of the stored one, or without any.
LEMMA UserKeepsVerdict ==
  ASSUME IInv, SeenOK, VerdictInv, NEW m \in Machines,
         UserCreate(m) \/ UserEdit(m) \/ UserDelete(m)
  PROVE  VerdictInv'
<1>1. /\ TypeOK /\ HistType /\ ReportsOK
      /\ UNCHANGED <<cur, seen, mobj, pc, result, host, resultFile>>
  BY DEF IInv, TypeOK, HistType, VerdictInv, UserCreate, UserEdit, UserDelete, cloud, disk
<1> DEFINE r == result[Name[m]]
<1>2. /\ Api(m) \in Objects
      /\ Honest(Api(m), r) \/ \A i \in 1..Len(hist[m]) : hist[m][i].del
      /\ Api(m).phase = "Success" => HasFin(Api(m))
      /\ AllRight(m) => Right(Api(m), r)
      /\ (\A i \in 1..Len(hist[m]) : hist[m][i].del) => Api(m).del
  BY <1>1, CurrentVersions, StoredReports
<1>3. MayReport(m, Gone) /\ MayReport(m, Fresh)
  BY NewIsHonest DEF MayReport, Honest, Gone, Fresh
<1>4. PICK new \in Objects : Emit(m, new) /\ MayReport(m, new)
  <2>1. CASE UserCreate(m)
    BY <2>1, <1>3, GoneType DEF UserCreate
  <2>2. CASE UserEdit(m)
    BY <2>2, <1>2 DEF UserEdit, MayReport
  <2>3. CASE UserDelete(m) /\ Api(m).fin
    <3> DEFINE d == [Api(m) EXCEPT !.del = TRUE]
    <3>1. /\ d \in Objects /\ d.conds = Api(m).conds /\ d.phase = Api(m).phase /\ d.del
          /\ d.ex = Api(m).ex /\ d.fin = Api(m).fin
      BY <1>2 DEF Objects
    <3>2. Emit(m, d)
      BY <2>3 DEF UserDelete
    <3> HIDE DEF d
    <3>3. /\ HasFin(d) <=> HasFin(Api(m))
          /\ Right(d, r) <=> Right(Api(m), r)
          /\ Honest(d, r) <=> Honest(Api(m), r)
      <4>1. HasFin(d) <=> HasFin(Api(m))
        BY <3>1 DEF HasFin
      <4>2. Right(d, r) <=> Right(Api(m), r)
        BY <3>1 DEF Right, COC
      <4> QED BY <3>1, <4>1, <4>2 DEF Honest
    <3>4. MayReport(m, d)
      BY <3>1, <3>3, <1>2 DEF MayReport
    <3> QED BY <3>1, <3>2, <3>4
  <2>4. CASE UserDelete(m) /\ ~Api(m).fin
    BY <2>4, <1>3, GoneType DEF UserDelete
  <2> QED BY <2>1, <2>2, <2>3, <2>4
<1>5. ReportsOK' /\ HistGrows /\ \A c \in Machines : AllRight(c) => AllRight(c)'
  BY <1>1, <1>4, WriteKeepsReports, EmitGrows
<1> QED BY <1>1, <1>5, OthersKeepVerdict

\* The informer drops the oldest version.
LEMMA DeliverKeepsVerdict ==
  ASSUME IInv, SeenOK, VerdictInv, NEW m \in Machines, Deliver(m)
  PROVE  VerdictInv'
<1> DEFINE h == hist[m]
           t == Tail(h)
<1>1. /\ h \in Seq(Objects) /\ Len(h) > 1 /\ seen \in Nat
      /\ ReportsOK /\ BeliefOK /\ ResultsHosted'
      /\ hist'[m] = t /\ (\A x \in Machines : x # m => hist'[x] = hist[x])
      /\ UNCHANGED <<cur, mobj, pc, result, resultFile>>
      /\ seen' = IF m = cur /\ seen > 0 THEN seen - 1 ELSE seen
  BY DEF IInv, TypeOK, VerdictInv, ResultsHosted, Deliver, cloud, disk
<1> HIDE DEF h
<1>2. Len(t) = Len(h) - 1 /\ \A j \in 1..Len(t) : t[j] = h[j + 1] /\ j + 1 \in 1..Len(h)
  BY <1>1
<1> HIDE DEF t
<1>3. ASSUME NEW j \in 1..Len(t), NEW r, ReportOK(h, j + 1, r) PROVE ReportOK(t, j, r)
  <2>1. \A i \in 1..j : i + 1 \in 1..(j + 1) /\ i \in 1..Len(t)
    BY <1>1, <1>2
  <2>2. \A i \in 1..j : t[i] = h[i + 1]
    BY <2>1, <1>2
  <2> QED BY <2>1, <2>2, <1>2, <1>3 DEF ReportOK
<1>4. ReportsOK'
  <2>1. ASSUME NEW x \in Machines, NEW j \in 1..Len(hist'[x])
        PROVE  ReportOK(hist'[x], j, result'[Name[x]])
    <3>1. CASE x = m
      BY <3>1, <2>1, <1>1, <1>2, <1>3 DEF ReportsOK, h
    <3>2. CASE x # m
      BY <3>2, <2>1, <1>1 DEF ReportsOK
    <3> QED BY <3>1, <3>2
  <2> QED BY <2>1 DEF ReportsOK
<1>5. CASE cur \notin Machines
  <2>1. pc \notin Working /\ pc # "read"
    BY <1>5 DEF IInv, TypeOK, Working, Building
  <2> QED BY <2>1, <1>1, <1>4, <1>5 DEF VerdictInv, BeliefOK
<1>6. ASSUME NEW c \in Machines, cur = c PROVE VerdictInv'
  <2>1. seen' > 0 => seen > 0 /\ hist'[c][seen'] = hist[c][seen]
    BY <1>6, SeenDelivered
  <2>2. Echo => Echo'
    BY <2>1, <1>1, <1>6 DEF Echo
  <2>3. AllRight(c) => AllRight(c)'
    <3>1. CASE c = m
      BY <3>1, <1>1, <1>2 DEF AllRight, h
    <3>2. CASE c # m
      BY <3>2, <1>1 DEF AllRight
    <3> QED BY <3>1, <3>2
  <2>4. BeliefOK'
    BY <2>2, <2>3, <1>1, <1>6 DEF BeliefOK, AllRight
  <2> QED BY <2>4, <1>1, <1>4 DEF VerdictInv
<1> QED BY <1>5, <1>6

\* An annotation is a copy of the stored version.
LEMMA AnnotationKeepsVerdict ==
  ASSUME IInv, SeenOK, VerdictInv, PatchAnnotation
  PROVE  VerdictInv'
<1>1. PICK c \in Machines : cur = c
  BY DEF IInv, TypeOK, PatchAnnotation
<1>2. /\ HistType /\ ReportsOK /\ BeliefOK /\ ResultsHosted' /\ cur' = c
      /\ UNCHANGED <<result, host>>
      /\ pc \in Working /\ AllRight(c) /\ Right(mobj, result[Name[c]]) /\ pc' # "read"
  <2>1. /\ pc = "prereq" /\ pc' \in {"prereq", "requeue"} /\ UNCHANGED <<result, host>>
    BY DEF PatchAnnotation, cloud
  <2> QED BY <2>1, <1>1 DEF IInv, TypeOK, HistType, VerdictInv, BeliefOK, ResultsHosted,
               PatchAnnotation, Working, Building
<1>3. Api(c) \in Objects /\ MayReport(c, Api(c)) /\ Right(Api(c), result[Name[c]])
  BY <1>2, CurrentVersions, StoredReports DEF MayReport
<1>4. hist' = hist \/ Emit(c, Api(c))
  BY <1>1 DEF PatchAnnotation
<1>5. ReportsOK' /\ AllRight(c)'
  BY <1>2, <1>3, <1>4, WriteKeepsReports
<1>6. Right(mobj', result[Name[c]])
  BY <1>1, <1>2, <1>3 DEF PatchAnnotation
<1>7. BeliefOK'
  BY <1>2, <1>5, <1>6 DEF BeliefOK, AllRight
<1> QED BY <1>2, <1>5, <1>7 DEF VerdictInv

\* ensureFinalizer leaves the status alone, or makes an object without one.
LEMMA EnsureFinalizerKeepsVerdict ==
  ASSUME IInv, SeenOK, VerdictInv, EnsureFinalizer
  PROVE  VerdictInv'
<1>1. PICK c \in Machines : cur = c
  BY DEF IInv, TypeOK, EnsureFinalizer
<1> DEFINE new == IF Cached(c).ex THEN FinalizerPatched(c, TRUE) ELSE Recreated(TRUE)
           st == Stored(new)
           r == result[Name[c]]
<1>2. /\ HistType /\ ReportsOK /\ ResultsHosted' /\ cur' = c /\ UNCHANGED <<result, host>>
      /\ AllRight(c) /\ Right(mobj, r) /\ pc' # "read"
  <2>1. /\ pc = "finalizer" /\ pc' \in {"initConds", "idle", "requeue"} /\ cur' = cur
        /\ UNCHANGED <<result, host>>
    BY DEF EnsureFinalizer, PatchFinalizer, cloud
  <2> QED BY <2>1, <1>1 DEF IInv, TypeOK, HistType, VerdictInv, BeliefOK, ResultsHosted, Working
<1>3. /\ new \in Objects /\ st \in Objects
      /\ st = new \/ st = Gone
      /\ ~Cached(c).ex => new.conds = NoConditions /\ new.phase = ""
      /\ Cached(c).ex => /\ new.conds = Api(c).conds /\ new.phase = Api(c).phase
                         /\ new.ex = Api(c).ex /\ new.del = Api(c).del
                         /\ new.fin \/ new = Api(c)
  BY <1>2, FinalizerSays
<1>4. /\ Honest(Api(c), r) \/ \A i \in 1..Len(hist[c]) : hist[c][i].del
      /\ Api(c).phase = "Success" => HasFin(Api(c))
      /\ Right(Api(c), r)
      /\ (\A i \in 1..Len(hist[c]) : hist[c][i].del) => Api(c).del
  BY <1>2, StoredReports
<1> HIDE DEF new, st
<1>5. MayReport(c, new) /\ Right(new, r)
  <2>1. CASE Cached(c).ex
    <3>1. /\ Right(new, r)
          /\ Honest(Api(c), r) => Honest(new, r)
          /\ HasFin(Api(c)) => HasFin(new)
      BY <2>1, <1>3, <1>4 DEF Right, Honest, COC, HasFin
    <3> QED BY <3>1, <2>1, <1>3, <1>4 DEF MayReport
  <2>2. CASE ~Cached(c).ex
    <3>1. Right(new, r) /\ new.phase # "Success"
      BY <2>2, <1>3, SilentIsRight DEF Begun
    <3> QED BY <3>1 DEF MayReport, Honest
  <2> QED BY <2>1, <2>2
<1>6. MayReport(c, st)
  <2>1. MayReport(c, Gone)
    BY NewIsHonest DEF MayReport, Honest, Gone
  <2> QED BY <2>1, <1>3, <1>5
<1>7. (hist' = hist \/ Emit(c, st)) /\ mobj' \in {mobj, new}
  BY <1>1 DEF EnsureFinalizer, PatchFinalizer, Put, new, st
<1>8. ReportsOK' /\ AllRight(c)'
  BY <1>2, <1>3, <1>6, <1>7, WriteKeepsReports
<1>9. BeliefOK'
  BY <1>2, <1>5, <1>7, <1>8 DEF BeliefOK, AllRight
<1> QED BY <1>2, <1>8, <1>9 DEF VerdictInv

\* The removal of the finalizer ends a deletion, verdict and all.
LEMMA RemoveFinalizerKeepsVerdict ==
  ASSUME IInv, SeenOK, CopyInv, VerdictInv, RemoveFinalizer
  PROVE  VerdictInv'
<1>1. PICK c \in Machines : cur = c
  BY DEF IInv, TypeOK, RemoveFinalizer
<1> DEFINE new == IF Cached(c).ex THEN FinalizerPatched(c, FALSE) ELSE Recreated(FALSE)
           st == Stored(new)
           r == result[Name[c]]
<1>2. /\ TypeOK /\ HistType /\ CopiesOK /\ ReportsOK /\ ResultsHosted' /\ cur' = c
      /\ UNCHANGED <<result, host, resultFile>> /\ NoLive(hist[c])
      /\ pc' \notin Working /\ pc' # "read"
  <2>1. /\ pc = "unfinalize" /\ pc' \in {"idle", "requeue"} /\ cur' = cur
        /\ UNCHANGED <<result, host, resultFile>>
    BY DEF RemoveFinalizer, PatchFinalizer, cloud, disk
  <2>2. NoLive(hist[c])
    BY <2>1, <1>1 DEF IInv, WorkerOK, Terminating
  <2> QED BY <2>1, <2>2, <1>1 DEF IInv, TypeOK, HistType, CopyInv, VerdictInv, ResultsHosted,
               Working, Building
<1>3. /\ new \in Objects /\ st \in Objects
      /\ st = new \/ (st = Gone /\ new.del /\ ~new.fin)
      /\ ~Cached(c).ex => new.conds = NoConditions /\ new.phase = "" /\ ~new.fin
      /\ Cached(c).ex => /\ new.conds = Api(c).conds /\ new.phase = Api(c).phase
                         /\ new.del = Api(c).del
                         /\ ~new.fin \/ new = Api(c)
  BY <1>2, FinalizerSays
<1>4. st = new => ~(new.del /\ ~new.fin) \/ new = Gone
  BY DEF Stored
<1>5. Begun(Api(c)) \/ Api(c).phase = "Success" => Api(c).del
  <2>1. Begun(Api(c)) \/ Api(c).phase = "Success" => HasFin(Api(c))
    BY <1>2, StoredSays, StoredReports
  <2>2. ~Live(Api(c))
    BY <1>2, LastVersion DEF NoLive
  <2> QED BY <2>1, <2>2 DEF Live, HasFin
<1>6. MayReport(c, Gone) /\ ~Gone.ex
  BY NewIsHonest DEF MayReport, Honest, Gone
<1> HIDE DEF new, st
<1>7. Begun(new) \/ new.phase = "Success" => new.del
  BY <1>3, <1>5 DEF Begun
<1>8. MayReport(c, st)
  <2>1. CASE st = Gone
    BY <2>1, <1>6
  <2>2. CASE new = Api(c) /\ st = new
    BY <2>2, <1>2, StoredReports DEF MayReport
  <2>3. CASE ~new.fin /\ st = new /\ new # Gone
    <3>1. ~Begun(new) /\ new.phase # "Success"
      BY <2>3, <1>4, <1>7
    <3>2. Right(new, r)
      BY <3>1, SilentIsRight
    <3> QED BY <3>1, <3>2, <2>3 DEF MayReport, Honest
  <2> QED BY <2>1, <2>2, <2>3, <1>3
<1>9. hist' = hist \/ Emit(c, st)
  BY <1>1 DEF RemoveFinalizer, PatchFinalizer, Put, new, st
<1>10. ReportsOK' /\ HistGrows /\ \A x \in Machines : AllRight(x) => AllRight(x)'
  BY <1>2, <1>3, <1>8, <1>9, WriteKeepsReports, EmitGrows
<1>11. CASE UNCHANGED <<mobj, seen>>
  BY <1>1, <1>2, <1>10, <1>11, OthersKeepVerdict
<1>12. CASE Put(c, st) /\ mobj' = new /\ seen' = Len(hist'[c])
  <2>1. hist'[c][Len(hist'[c])] = st
    <3>1. CASE st = Api(c)
      BY <3>1, <1>2, <1>12, LastVersion DEF Put
    <3>2. CASE st # Api(c)
      BY <3>2, <1>2, <1>3, <1>12, EmitEffect DEF Put, LastOf
    <3> QED BY <3>1, <3>2
  <2>2. Begun(new) => Echo'
    BY <2>1, <1>2, <1>3, <1>6, <1>7, <1>12 DEF Echo
  <2>3. ~Begun(new) => Right(new, r)
    BY SilentIsRight
  <2>4. BeliefOK'
    BY <2>2, <2>3, <1>2, <1>12 DEF BeliefOK
  <2> QED BY <2>4, <1>2, <1>10 DEF VerdictInv
<1> QED BY <1>1, <1>11, <1>12 DEF RemoveFinalizer, PatchFinalizer, new, st

\* A restart leaves the stored versions and the results, and takes no host away.
LEMMA CrashKeepsVerdict ==
  ASSUME IInv, VerdictInv, Crash
  PROVE  VerdictInv'
<1>1. TypeOK /\ HistType /\ ReportsOK /\ ResultsHosted
  BY DEF IInv, TypeOK, HistType, VerdictInv
<1>2. /\ cur' = NoMachine /\ pc' = "idle" /\ hist' = [m \in Machines |-> <<Api(m)>>]
      /\ result' = result
  BY DEF Crash
<1>3. ASSUME NEW m \in Machines, NEW j \in 1..Len(hist'[m])
      PROVE  ReportOK(hist'[m], j, result'[Name[m]])
  <2>1. /\ Honest(Api(m), result[Name[m]]) \/ Api(m).del
        /\ Api(m).phase = "Success" => HasFin(Api(m))
    BY <1>1, StoredReports
  <2>2. hist'[m] = <<Api(m)>>
    BY <1>2
  <2>3. Len(hist'[m]) = 1 /\ hist'[m][1] = Api(m)
    BY <2>2
  <2>4. j = 1 /\ \A i \in 1..j : i = 1
    <3>1. j \in 1..1
      BY <2>3
    <3> QED BY <3>1
  <2> QED BY <2>1, <2>3, <2>4, <1>2 DEF ReportOK
<1>4. ReportsOK'
  BY <1>3 DEF ReportsOK
<1>5. ResultsHosted'
  <2>1. PICK s \in IF pc = "create" THEN CutShort ELSE {<<store, host, group>>} : host' = s[2]
    BY DEF Crash
  <2>2. host' \in {host, [host EXCEPT ![Name[cur]] = "half"]}
    BY <2>1 DEF CutShort
  <2>3. host \in [Names -> HostStates]
    BY <1>1 DEF TypeOK
  <2> QED BY <2>2, <2>3, <1>1, <1>2 DEF ResultsHosted
<1>6. BeliefOK'
  BY <1>2, ConstantsAssumption DEF BeliefOK, Working, Building
<1> QED BY <1>4, <1>5, <1>6 DEF VerdictInv

\* Every step keeps it.
LEMMA StepKeepsVerdict ==
  ASSUME NamesDiffer, GroupsDiffer, IInv, SeenOK, CopyInv, VerdictInv, [Next]_vars
  PROVE  VerdictInv'
<1>1. CASE \/ InitPhase \/ FinalStatus \/ SetInitialConditions \/ GetMachineCreationArgs
           \/ CommitCreated \/ CommitTerminating
  BY <1>1, StatusActionsVerdict
<1>2. CASE \/ SkipCreation \/ CreatePrerequisites \/ ScriptNotDue \/ ScpSucceeds \/ ReadFails
           \/ CleanupAWSResources \/ ReconcileGetFails
  <2>1. /\ UNCHANGED <<hist, cur, seen, mobj, result, host>>
        /\ pc' \in Working => pc \in Working
        /\ pc' = "read" => resultFile' = result[Name[cur]]
    BY <1>2 DEF SkipCreation, CreatePrerequisites, ScriptNotDue, ScpSucceeds, ReadFails,
         CleanupAWSResources, ReconcileGetFails, cloud, Working, Building
  <2> QED BY <2>1, StillKeepsVerdict
<1>3. CASE ScriptSecretMissing \/ AuthSecretMissing \/ ScpFails \/ ReadResult
  BY <1>3, MarksKeepVerdict
<1>4. CASE CreateSucceeds \/ CreateFails
  BY <1>4, CreateKeepsVerdict
<1>5. CASE DeleteDockerMachine \/ DeleteAzureResourceGroup
  BY <1>5, CleanupKeepsVerdict
<1>6. CASE EnsureFinalizer \/ RemoveFinalizer \/ PatchAnnotation
  BY <1>6, EnsureFinalizerKeepsVerdict, RemoveFinalizerKeepsVerdict, AnnotationKeepsVerdict
<1>7. ASSUME NEW m \in Machines,
             \/ Deliver(m) \/ Reconcile(m) \/ UserCreate(m) \/ UserEdit(m) \/ UserDelete(m)
      PROVE  VerdictInv'
  BY <1>7, DeliverKeepsVerdict, ReconcileKeepsVerdict, UserKeepsVerdict
<1>8. ASSUME NEW n \in Names, ScriptWrites(n) PROVE VerdictInv'
  BY <1>8, ScriptKeepsVerdict
<1>9. CASE Crash
  BY <1>9, CrashKeepsVerdict
<1>10. CASE UNCHANGED vars
  <2>1. UNCHANGED <<hist, cur, seen, mobj, pc, result, host, resultFile>>
    BY <1>10 DEF vars
  <2> QED BY <2>1, StillKeepsVerdict
<1> QED BY <1>1, <1>2, <1>3, <1>4, <1>5, <1>6, <1>7, <1>8, <1>9, <1>10 DEF Next, WorkerStep

-----------------------------------------------------------------------------

\* The invariant holds throughout.
LEMMA VerdictInvariant ==
  ASSUME NamesDiffer, GroupsDiffer
  PROVE  Spec => []VerdictInv
<1>1. Init => VerdictInv
  <2> SUFFICES ASSUME Init PROVE VerdictInv
    OBVIOUS
  <2>1. cur \notin Machines /\ pc = "idle" /\ \A n \in Names : result[n] = "none"
    BY ConstantsAssumption DEF Init
  <2>2. \A m \in Machines : Len(hist[m]) = 1 /\ hist[m][1] = Gone
    BY DEF Init
  <2>3. \A r : Honest(Gone, r)
    BY NewIsHonest
  <2>4. Gone.phase # "Success"
    BY DEF Gone
  <2>5. ReportsOK
    BY <2>2, <2>3, <2>4 DEF ReportsOK, ReportOK
  <2> QED BY <2>1, <2>5 DEF VerdictInv, BeliefOK, ResultsHosted, Working, Building
<1>2. IInv /\ SeenOK /\ CopyInv /\ VerdictInv /\ [Next]_vars => VerdictInv'
  BY StepKeepsVerdict
<1> QED BY <1>1, <1>2, InvariantHolds, CopyInvariant, PTL DEF Spec

\* The verdict that isScriptFinished records for a Machine is the one that the script on
\* its own host wrote, although all Machines share /tmp/result.txt - whatever a late
\* cache, lost answers, restarts and the deletion of an earlier Machine do, as long as
\* no other Machine has the same host name or resource group.
THEOREM VerdictBelongs == ASSUME NamesDiffer, GroupsDiffer PROVE Spec => []VerdictIsOwn
<1>1. IInv /\ VerdictInv => VerdictIsOwn
  <2> SUFFICES ASSUME IInv, VerdictInv, NEW m \in Machines, ~Api(m).del
               PROVE  Right(Api(m), result[Name[m]])
    BY DEF VerdictIsOwn, Right, COC
  <2>1. HistType /\ ReportsOK
    BY DEF IInv, TypeOK, HistType, VerdictInv
  <2> QED BY <2>1, StoredReports DEF Honest
<1> QED BY <1>1, InvariantHolds, VerdictInvariant, PTL

\* The phase Success is reported only while there is a virtual machine, known to
\* docker-machine, whose script ended with 0.  For that the operator's disk has to
\* survive restarts as well: docker-machine's store is on it.
THEOREM SuccessEarned ==
  ASSUME DiskSurvives, NamesDiffer, GroupsDiffer
  PROVE  Spec => []SuccessIsEarned
<1>1. IInv /\ VerdictInv => SuccessIsEarned
  <2> SUFFICES ASSUME IInv, VerdictInv, NEW m \in Machines, Api(m).phase = "Success", ~Api(m).del
               PROVE  store[Name[m]] /\ host[Name[m]] # "none" /\ result[Name[m]] = "ok"
    BY DEF SuccessIsEarned
  <2>1. HistType /\ ReportsOK /\ ResultsHosted /\ HostsKnown /\ Name[m] \in Names
    BY ConstantsAssumption DEF IInv, TypeOK, HistType, VerdictInv
  <2>2. result[Name[m]] = "ok"
    BY <2>1, StoredReports DEF Honest
  <2>3. host[Name[m]] # "none"
    BY <2>1, <2>2 DEF ResultsHosted
  <2> QED BY <2>1, <2>2, <2>3 DEF HostsKnown
<1> QED BY <1>1, InvariantHolds, VerdictInvariant, PTL
=============================================================================
