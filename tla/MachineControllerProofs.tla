---------------------- MODULE MachineControllerProofs ----------------------
(***************************************************************************)
(* Proofs about MachineController, for every set of Machines, every        *)
(* assignment of host names and drivers, every lag of the watch and every  *)
(* number of disturbances.                                                 *)
(***************************************************************************)
EXTENDS MachineController, TLAPS

-----------------------------------------------------------------------------
(* Histories.  A history is the sequence of versions of one Machine from   *)
(* the cached one to the current one.                                      *)

\* o carries the finalizer; o carries it and is not marked for deletion.
HasFin(o) == o.ex /\ o.fin
Live(o) == o.ex /\ o.fin /\ ~o.del

LastOf(h) == h[Len(h)]
NoLive(h) == \A i \in 1..Len(h) : ~Live(h[i])
NoDel(h) == \A i \in 1..Len(h) : ~h[i].del

\* What is true of every history: a version marked for deletion has the
\* finalizer; a live version is there only as long as the finalizer is; no live
\* version follows a deletion mark, and no second mark follows one that is over;
\* and a mark that the cache has not reached has the finalizer still in place.
HistOK(h) ==
  /\ \A i \in 1..Len(h) : h[i].del => HasFin(h[i])
  /\ HasFin(LastOf(h)) \/ NoLive(h)
  /\ \A i, j \in 1..Len(h) : i < j /\ h[i].del => ~Live(h[j])
  /\ \A i, j, k \in 1..Len(h) : i < j /\ j < k /\ h[i].del /\ ~h[j].del => ~h[k].del
  /\ h[1].del \/ HasFin(LastOf(h)) \/ NoDel(h)

\* The history after the informer has taken the next event.
LEMMA TailHistory ==
  ASSUME NEW h \in Seq(Objects), Len(h) > 1, HistOK(h)
  PROVE  /\ Tail(h) \in Seq(Objects)
         /\ Len(Tail(h)) = Len(h) - 1
         /\ LastOf(Tail(h)) = LastOf(h)
         /\ HistOK(Tail(h))
         /\ NoLive(h) => NoLive(Tail(h))
         /\ NoDel(h) => NoDel(Tail(h))
         /\ h[1].del => Tail(h)[1].del \/ NoDel(Tail(h))
<1> DEFINE t == Tail(h)
<1>1. /\ t \in Seq(Objects)
      /\ Len(t) = Len(h) - 1
      /\ \A i \in 1..Len(t) : t[i] = h[i + 1] /\ i + 1 \in 1..Len(h)
  OBVIOUS
<1>2. LastOf(t) = LastOf(h)
  BY <1>1 DEF LastOf
<1>3. (NoLive(h) => NoLive(t)) /\ (NoDel(h) => NoDel(t))
  BY <1>1 DEF NoLive, NoDel
<1>4. h[1].del => t[1].del \/ NoDel(t)
  <2> SUFFICES ASSUME h[1].del, ~t[1].del, NEW k \in 1..Len(t)
               PROVE  ~t[k].del
    BY DEF NoDel
  <2>1. ~h[2].del /\ 1 \in 1..Len(h) /\ 2 \in 1..Len(h)
    BY <1>1
  <2>2. CASE k = 1
    BY <2>2
  <2>3. CASE k > 1
    BY <2>1, <2>3, <1>1 DEF HistOK
  <2> QED BY <2>2, <2>3
<1>5. HistOK(t)
  <2>1. \A i \in 1..Len(t) : t[i].del => HasFin(t[i])
    BY <1>1 DEF HistOK
  <2>2. HasFin(LastOf(t)) \/ NoLive(t)
    BY <1>2, <1>3 DEF HistOK
  <2>3. \A i, j \in 1..Len(t) : i < j /\ t[i].del => ~Live(t[j])
    <3> TAKE i, j \in 1..Len(t)
    <3> QED BY <1>1 DEF HistOK
  <2>4. \A i, j, k \in 1..Len(t) : i < j /\ j < k /\ t[i].del /\ ~t[j].del => ~t[k].del
    <3> TAKE i, j, k \in 1..Len(t)
    <3> QED BY <1>1 DEF HistOK
  <2>5. t[1].del \/ HasFin(LastOf(t)) \/ NoDel(t)
    BY <1>2, <1>3, <1>4 DEF HistOK
  <2> QED BY <2>1, <2>2, <2>3, <2>4, <2>5 DEF HistOK
<1> QED BY <1>1, <1>2, <1>3, <1>4, <1>5

\* The history after a new version: what the new version must respect.
LEMMA AppendHistory ==
  ASSUME NEW h \in Seq(Objects), Len(h) > 0, HistOK(h), NEW new \in Objects,
         new.del => HasFin(new),
         HasFin(new) \/ NoLive(h),
         Live(new) => NoDel(h),
         new.del => LastOf(h).del \/ NoDel(h),
         h[1].del \/ HasFin(new) \/ NoDel(h)
  PROVE  HistOK(Append(h, new))
<1> DEFINE a == Append(h, new)
<1>1. /\ Len(a) = Len(h) + 1
      /\ a[Len(h) + 1] = new
      /\ \A i \in 1..Len(h) : a[i] = h[i]
      /\ a[1] = h[1]
  OBVIOUS
<1>2. LastOf(a) = new
  BY <1>1 DEF LastOf
<1>3. \A i \in 1..Len(a) : i \in 1..Len(h) \/ (i = Len(h) + 1 /\ a[i] = new)
  BY <1>1
<1>4. \A i \in 1..Len(a) : a[i].del => HasFin(a[i])
  BY <1>1, <1>3 DEF HistOK
<1>5. HasFin(LastOf(a)) \/ NoLive(a)
  BY <1>1, <1>2, <1>3 DEF NoLive, Live, HasFin
<1>6. \A i, j \in 1..Len(a) : i < j /\ a[i].del => ~Live(a[j])
  <2> SUFFICES ASSUME NEW i \in 1..Len(a), NEW j \in 1..Len(a), i < j, a[i].del
               PROVE  ~Live(a[j])
    OBVIOUS
  <2>1. i \in 1..Len(h) /\ h[i].del
    BY <1>1, <1>3
  <2>2. CASE j \in 1..Len(h)
    BY <2>1, <2>2, <1>1 DEF HistOK
  <2>3. CASE j = Len(h) + 1
    BY <2>1, <2>3, <1>1 DEF NoDel
  <2> QED BY <2>2, <2>3, <1>3
<1>7. \A i, j, k \in 1..Len(a) : i < j /\ j < k /\ a[i].del /\ ~a[j].del => ~a[k].del
  <2> SUFFICES ASSUME NEW i \in 1..Len(a), NEW j \in 1..Len(a), NEW k \in 1..Len(a),
                      i < j, j < k, a[i].del, ~a[j].del
               PROVE  ~a[k].del
    OBVIOUS
  <2>1. i \in 1..Len(h) /\ j \in 1..Len(h) /\ h[i].del /\ ~h[j].del
    BY <1>1, <1>3
  <2>2. CASE k \in 1..Len(h)
    BY <2>1, <2>2, <1>1 DEF HistOK
  <2>3. CASE k = Len(h) + 1
    <3>1. ~LastOf(h).del
      <4>1. CASE j = Len(h)
        BY <4>1, <2>1 DEF LastOf
      <4>2. CASE j < Len(h)
        BY <4>2, <2>1 DEF LastOf, HistOK
      <4> QED BY <4>1, <4>2, <2>1
    <3> QED BY <3>1, <2>1, <2>3, <1>1 DEF NoDel
  <2> QED BY <2>2, <2>3, <1>3
<1>8. a[1].del \/ HasFin(LastOf(a)) \/ NoDel(a)
  BY <1>1, <1>2, <1>3 DEF NoDel
<1> QED BY <1>4, <1>5, <1>6, <1>7, <1>8 DEF HistOK

-----------------------------------------------------------------------------
(* The inductive invariant.                                                *)

\* The stages before docker-machine create, and those of the cleanup.
Building == {"initConds", "prereq", "args", "create"}
Terminating == {"termStatus", "rm", "cloud", "unfinalize"}

HistoriesOK == \A m \in Machines : HistOK(hist[m])

\* What the worker knows of the Machine it works on: while it builds, the
\* finalizer is stored; before it adds the finalizer, no mark is pending unless
\* it is there already; while it terminates, no live version is left in the
\* history; and before it removes the finalizer, nothing is left to clean up, the
\* resource group of an Azure Machine included.
WorkerOK ==
  /\ pc \in Building => Held(cur)
  /\ pc = "finalizer" => Held(cur) \/ NoDel(hist[cur])
  /\ pc \in Terminating => /\ NoLive(hist[cur])
                           /\ hist[cur][1].del \/ NoDel(hist[cur])
  /\ pc \in {"cloud", "unfinalize"} => ~store[Name[cur]] /\ scriptFile[cur] = "none"
  /\ pc = "unfinalize" /\ Driver[cur] = "azure" => ~group[GetResourceGroupName(cur)]

\* As long as the disk survives, docker-machine knows every virtual machine.
HostsKnown == DiskSurvives => \A n \in Names : host[n] # "none" => store[n]

IInv == TypeOK /\ HistoriesOK /\ WorkerOK /\ HostsKnown /\ ResourcesGuarded

-----------------------------------------------------------------------------
(* The status operators keep their types.                                  *)

\* SetSummary makes conditions of conditions: the reason it copies into Ready is one
\* that a failing condition has.
LEMMA SummaryType ==
  ASSUME NEW c \in Conditions
  PROVE  SetSummary(c) \in Conditions
<1> DEFINE F == Failing(c)
<1>1. ASSUME F # {} PROVE Min(F) \in F
  <2>1. \E x \in F : \A y \in F : x <= y
    <3>1. F \subseteq {1, 2, 3, 4}
      BY DEF Failing, Present
    <3>2. F = {1, 2, 3, 4} \cap F
      BY <3>1
    <3> QED BY <1>1, <3>1
  <2> QED BY <2>1 DEF Min
<1>2. \A i \in F : ConditionsOrder[i] \in ConditionTypes
  BY DEF Failing, Present, ConditionsOrder, ConditionTypes
<1>3. "Ready" \in ConditionTypes
  BY DEF ConditionTypes
<1>4. F # {} => c[ConditionsOrder[Min(F)]] \in {"Absent", "True"} \cup Reasons
  BY <1>1, <1>2 DEF Conditions
<1> QED BY <1>3, <1>4 DEF SetSummary, Conditions

\* GetPhase yields one of the phases the API declares, for every set of conditions.
LEMMA PhaseType ==
  ASSUME NEW c \in Conditions, NEW d \in BOOLEAN
  PROVE  GetPhase(d, c) \in Phases
BY DEF GetPhase, PhaseOfReady, Phases

\* MarkTrue and MarkFalse keep conditions conditions.
LEMMA MarkType ==
  ASSUME NEW c \in Conditions, NEW t, NEW r \in Reasons
  PROVE  MarkTrue(c, t) \in Conditions /\ MarkFalse(c, t, r) \in Conditions
BY DEF MarkTrue, MarkFalse, Conditions

\* Two versions that differ in nothing but their status.
SameKind(a, b) == a.ex = b.ex /\ a.fin = b.fin /\ a.del = b.del

\* An object with other conditions is an object.
LEMMA WithConditions ==
  ASSUME NEW o \in Objects, NEW c \in Conditions
  PROVE  [o EXCEPT !.conds = c] \in Objects
BY DEF Objects

\* What updateMachineStatus is about to commit is an object.
LEMMA SummarisedType ==
  ASSUME NEW o \in Objects
  PROVE  Summarised(o) \in Objects
<1>1. o.conds \in Conditions /\ o.del \in BOOLEAN
  BY DEF Objects
<1>2. SetSummary(o.conds) \in Conditions
  BY <1>1, SummaryType
<1>3. GetPhase(o.del, SetSummary(o.conds)) \in Phases
  BY <1>1, <1>2, PhaseType
<1> QED BY <1>2, <1>3 DEF Summarised, Objects

\* The version that records a missing Machine, and a new Machine, are objects.
LEMMA GoneType == Gone \in Objects /\ Fresh \in Objects
BY DEF Gone, Fresh, Objects, NoConditions, Conditions, Phases

-----------------------------------------------------------------------------
(* Steps on the histories.                                                 *)

\* The part of TypeOK that is about the histories.
HistType ==
  /\ hist \in [Machines -> Seq(Objects)]
  /\ \A m \in Machines : Len(hist[m]) \in 1..(MaxLag + 1)

\* A history of one version is well formed when a deletion mark on it comes with the
\* finalizer: nothing is left to compare it with.
LEMMA SingleVersion ==
  ASSUME NEW h, Len(h) = 1, h[1].del => HasFin(h[1])
  PROVE  HistOK(h)
<1>1. 1..Len(h) = {1} /\ LastOf(h) = h[1]
  BY DEF LastOf
<1>2. HasFin(LastOf(h)) \/ NoLive(h)
  BY <1>1 DEF NoLive, Live, HasFin
<1>3. h[1].del \/ NoDel(h)
  BY <1>1 DEF NoDel
<1>4. \A i, j \in 1..Len(h) : ~(i < j)
  BY <1>1
<1> QED BY <1>1, <1>2, <1>3, <1>4 DEF HistOK

\* The cached and the current version are the ends of the history, and a Machine is
\* held when the last one has the finalizer.
LEMMA CurrentVersions ==
  ASSUME HistType, NEW m \in Machines
  PROVE  /\ hist[m] \in Seq(Objects) /\ Len(hist[m]) > 0
         /\ Api(m) \in Objects /\ Cached(m) \in Objects
         /\ Api(m) = LastOf(hist[m]) /\ Cached(m) = hist[m][1]
         /\ Held(m) <=> HasFin(LastOf(hist[m]))
<1>0. MaxLag \in Nat
  BY ConstantsAssumption
<1>1. hist[m] \in Seq(Objects) /\ Len(hist[m]) > 0
  BY <1>0 DEF HistType
<1>2. LastOf(hist[m]) \in Objects /\ hist[m][1] \in Objects
  BY <1>1 DEF LastOf
<1>3. Api(m) = LastOf(hist[m]) /\ Cached(m) = hist[m][1]
  BY <1>1 DEF Api, Cached, LastOf
<1>4. Held(m) <=> HasFin(LastOf(hist[m]))
  BY <1>3 DEF Held, HasFin
<1> QED BY <1>1, <1>2, <1>3, <1>4

\* A version of a history with one more is one of before, or the new one.
LEMMA Appended ==
  ASSUME NEW h \in Seq(Objects), NEW new \in Objects
  PROVE  \A i \in 1..Len(Append(h, new)) :
           (i \in 1..Len(h) /\ Append(h, new)[i] = h[i]) \/ Append(h, new)[i] = new
<1>1. Len(h) \in Nat /\ Len(Append(h, new)) = Len(h) + 1
  OBVIOUS
<1>2. \A i \in 1..(Len(h) + 1) : i \in 1..Len(h) \/ i = Len(h) + 1
  BY <1>1
<1>3. \A i \in 1..Len(h) : Append(h, new)[i] = h[i]
  OBVIOUS
<1>4. Append(h, new)[Len(h) + 1] = new
  OBVIOUS
<1> QED BY <1>1, <1>2, <1>3, <1>4

\* The effect of an event on the history of its Machine and on the others.
LEMMA EmitEffect ==
  ASSUME HistType, NEW m \in Machines, NEW new \in Objects, Emit(m, new)
  PROVE  /\ HistType'
         /\ hist'[m] = Append(hist[m], new)
         /\ LastOf(hist'[m]) = new
         /\ Api(m)' = new
         /\ Len(hist'[m]) \in Nat
         /\ \A x \in Machines : x # m => hist'[x] = hist[x]
<1>1. /\ hist' \in [Machines -> Seq(Objects)]
      /\ hist'[m] = Append(hist[m], new)
      /\ \A x \in Machines : x # m => hist'[x] = hist[x]
  BY DEF HistType, Emit
<1>2. hist[m] \in Seq(Objects) /\ Len(hist[m]) \in 1..(MaxLag + 1) /\ Len(hist[m]) <= MaxLag
  BY DEF HistType, Emit
<1>3. Len(hist'[m]) = Len(hist[m]) + 1 /\ hist'[m][Len(hist[m]) + 1] = new
  BY <1>1, <1>2
<1>4. ASSUME NEW x \in Machines PROVE Len(hist'[x]) \in 1..(MaxLag + 1)
  <2>1. MaxLag \in Nat
    BY ConstantsAssumption
  <2>2. CASE x = m
    BY <2>1, <2>2, <1>2, <1>3
  <2>3. CASE x # m
    BY <2>3, <1>1 DEF HistType
  <2> QED BY <2>2, <2>3
<1> QED BY <1>1, <1>2, <1>3, <1>4 DEF HistType, LastOf, Api

\* A new version that differs from the current one in its status only.
KindStep(m) ==
  hist' = hist \/ \E new \in Objects : SameKind(new, Api(m)) /\ Emit(m, new)

\* A status write, or an edit the operator does not look at, keeps the histories in
\* order and every Machine as held as it was.
LEMMA KindStepKeeps ==
  ASSUME HistType, HistoriesOK, NEW m \in Machines, KindStep(m)
  PROVE  /\ HistType'
         /\ HistoriesOK'
         /\ \A x \in Machines :
              /\ Held(x)' <=> Held(x)
              /\ NoLive(hist[x]) => NoLive(hist'[x])
              /\ NoDel(hist[x]) => NoDel(hist'[x])
              /\ hist'[x][1] = hist[x][1]
<1>1. CASE hist' = hist
  BY <1>1 DEF HistType, HistoriesOK, Held, Api
<1>2. ASSUME NEW new \in Objects, SameKind(new, Api(m)), Emit(m, new)
      PROVE  /\ HistType'
             /\ HistoriesOK'
             /\ \A x \in Machines :
                  /\ Held(x)' <=> Held(x)
                  /\ NoLive(hist[x]) => NoLive(hist'[x])
                  /\ NoDel(hist[x]) => NoDel(hist'[x])
                  /\ hist'[x][1] = hist[x][1]
  <2> DEFINE h == hist[m]
  <2>1. /\ h \in Seq(Objects) /\ Len(h) > 0 /\ HistOK(h)
        /\ LastOf(h) = Api(m) /\ Len(h) \in 1..Len(h) /\ LastOf(h) = h[Len(h)]
    BY CurrentVersions DEF HistoriesOK, LastOf
  <2>2. /\ HistType' /\ hist'[m] = Append(h, new) /\ LastOf(hist'[m]) = new
        /\ Api(m)' = new
        /\ \A x \in Machines : x # m => hist'[x] = hist[x]
    BY <1>2, EmitEffect
  <2>3. new.del => HasFin(new)
    BY <1>2, <2>1 DEF SameKind, HasFin, HistOK
  <2>4. HasFin(new) \/ NoLive(h)
    BY <1>2, <2>1 DEF SameKind, HasFin, HistOK
  <2>5. Live(new) => NoDel(h)
    <3> SUFFICES ASSUME Live(new), NEW i \in 1..Len(h) PROVE ~h[i].del
      BY DEF NoDel
    <3>1. Live(h[Len(h)])
      BY <1>2, <2>1 DEF SameKind, Live
    <3>2. CASE i = Len(h)
      BY <3>1, <3>2 DEF Live
    <3>3. CASE i < Len(h)
      BY <3>1, <3>3, <2>1 DEF HistOK
    <3> QED BY <3>2, <3>3, <2>1
  <2>6. HistOK(Append(h, new))
    <3>1. new.del => LastOf(h).del
      BY <1>2, <2>1 DEF SameKind
    <3>2. h[1].del \/ HasFin(new) \/ NoDel(h)
      BY <1>2, <2>1 DEF SameKind, HasFin, HistOK
    <3> QED BY <2>1, <2>3, <2>4, <2>5, <3>1, <3>2, AppendHistory
  <2>7. /\ Len(hist'[m]) = Len(h) + 1
        /\ \A i \in 1..Len(h) : hist'[m][i] = h[i]
        /\ hist'[m][Len(h) + 1] = new
        /\ hist'[m][1] = h[1]
    BY <2>1, <2>2
  <2>7a. \A i \in 1..Len(hist'[m]) :
           (i \in 1..Len(h) /\ hist'[m][i] = h[i]) \/ hist'[m][i] = new
    BY <2>1, <2>2, <1>2, Appended
  <2>8. NoLive(h) => NoLive(hist'[m])
    <3>1. NoLive(h) => ~Live(new)
      BY <1>2, <2>1 DEF NoLive, Live, SameKind
    <3> QED BY <2>7a, <3>1 DEF NoLive
  <2>9. NoDel(h) => NoDel(hist'[m])
    <3>1. NoDel(h) => ~new.del
      BY <1>2, <2>1 DEF NoDel, SameKind
    <3> QED BY <2>7a, <3>1 DEF NoDel
  <2>10. Held(m)' <=> Held(m)
    BY <1>2, <2>2 DEF Held, SameKind
  <2>11. \A x \in Machines : x # m => (Held(x)' <=> Held(x))
    BY <2>2 DEF Held, Api
  <2>12. HistoriesOK'
    BY <2>2, <2>6 DEF HistoriesOK
  <2> QED BY <2>2, <2>7, <2>8, <2>9, <2>10, <2>11, <2>12
<1> QED BY <1>1, <1>2 DEF KindStep

-----------------------------------------------------------------------------
(* The writes of the worker.                                               *)

\* The part of TypeOK that is about the budget.
BudgetType == budget \in [Disturbances -> Nat]

\* A disturbance leaves the budget a budget.
LEMMA SpendKeepsType ==
  ASSUME BudgetType, NEW d \in Disturbances, Spend(d)
  PROVE  BudgetType'
BY DEF BudgetType, Spend

\* Storing an object that differs in its status only is such a step, whether or not it
\* makes a new version.
LEMMA PutIsKindStep ==
  ASSUME HistType, NEW m \in Machines, NEW new \in Objects,
         SameKind(new, Api(m)), Put(m, new)
  PROVE  KindStep(m) /\ Len(hist'[m]) \in Nat
<1>1. CASE new = Api(m)
  BY <1>1, CurrentVersions DEF Put, KindStep
<1>2. CASE new # Api(m)
  BY <1>2, EmitEffect DEF Put, KindStep
<1> QED BY <1>1, <1>2

\* updateMachineStatus changes the status of the stored object at most.
LEMMA StatusStep ==
  ASSUME TypeOK, cur \in Machines, NEW o \in Objects, NEW ok, NEW err,
         UpdateMachineStatus(o, ok, err)
  PROVE  /\ cur' = cur
         /\ mobj' \in Objects
         /\ seen' \in Nat
         /\ BudgetType'
         /\ pc' \in {ok, err}
         /\ KindStep(cur)
<1> DEFINE n == Summarised(o)
           new == StatusPatched(cur, n)
<1>1. HistType /\ BudgetType /\ seen \in Nat
  BY DEF TypeOK, HistType, BudgetType
<1>2. n \in Objects
  BY SummarisedType
<1>3. Api(cur) \in Objects /\ Cached(cur) \in Objects
  BY <1>1, CurrentVersions
<1>4. new \in Objects /\ SameKind(new, Api(cur))
  BY <1>2, <1>3 DEF StatusPatched, Objects, SameKind
<1>5. "fault" \in Disturbances
  BY DEF Disturbances
<1>6. CASE ~Cached(cur).ex /\ mobj' = o /\ pc' = err /\ UNCHANGED <<hist, seen, budget>>
  BY <1>6, <1>1 DEF UpdateMachineStatus, KindStep, BudgetType
<1>7. CASE mobj' = n /\ pc' = ok /\ UNCHANGED <<hist, seen, budget>>
  BY <1>7, <1>1, <1>2 DEF UpdateMachineStatus, KindStep, BudgetType
<1>8. CASE /\ Put(cur, new) /\ mobj' = new /\ seen' = Len(hist'[cur]) /\ pc' = ok
           /\ UNCHANGED budget
  BY <1>8, <1>1, <1>4, PutIsKindStep DEF UpdateMachineStatus, BudgetType
<1>9. CASE mobj' = n /\ pc' = err /\ UNCHANGED <<hist, seen, budget>>
  BY <1>9, <1>1, <1>2 DEF UpdateMachineStatus, KindStep, BudgetType
<1>10. CASE /\ Spend("fault") /\ mobj' = n /\ pc' = err /\ UNCHANGED seen
            /\ UNCHANGED hist \/ (Accepted(cur) /\ Put(cur, new))
  <2>1. BudgetType'
    BY <1>10, <1>1, <1>5, SpendKeepsType
  <2>2. KindStep(cur)
    BY <1>10, <1>1, <1>4, PutIsKindStep DEF KindStep
  <2> QED BY <2>1, <2>2, <1>10, <1>1, <1>2 DEF UpdateMachineStatus
<1> QED BY <1>6, <1>7, <1>8, <1>9, <1>10 DEF UpdateMachineStatus

\* The part of TypeOK that is about the things the operator makes.
ThingsType ==
  /\ store \in [Names -> BOOLEAN]
  /\ host \in [Names -> HostStates]
  /\ result \in [Names -> Results]
  /\ scriptFile \in [Machines -> ScriptFiles]
  /\ group \in [Groups -> BOOLEAN]

\* The step makes no thing but those of Machine m.
MadeFor(m) ==
  /\ \A n \in Names : store'[n] => store[n] \/ n = Name[m]
  /\ \A x \in Machines : scriptFile'[x] # "none" => scriptFile[x] # "none" \/ x = m
  /\ \A g \in Groups :
       group'[g] => group[g] \/ (Driver[m] = "azure" /\ g = GetResourceGroupName(m))

NothingMade ==
  /\ \A n \in Names : store'[n] => store[n]
  /\ \A x \in Machines : scriptFile'[x] # "none" => scriptFile[x] # "none"
  /\ \A g \in Groups : group'[g] => group[g]

\* What a step that keeps the finalizers has to respect.
LEMMA GuardKept ==
  ASSUME ResourcesGuarded, HostsKnown',
         \A x \in Machines : Held(x) => Held(x)',
         NothingMade \/ (cur \in Machines /\ Held(cur) /\ MadeFor(cur))
  PROVE  ResourcesGuarded'
<1>1. ASSUME NEW n \in Names, store'[n]
      PROVE  \E m \in Machines : Name[m] = n /\ Held(m)'
  <2>1. CASE store[n]
    BY <2>1 DEF ResourcesGuarded
  <2>2. CASE cur \in Machines /\ n = Name[cur] /\ Held(cur)
    BY <2>2
  <2> QED BY <2>1, <2>2, <1>1 DEF NothingMade, MadeFor
<1>2. ASSUME NEW n \in Names, DiskSurvives, host'[n] # "none"
      PROVE  store'[n]
  BY <1>2 DEF HostsKnown
<1>3. ASSUME NEW m \in Machines, scriptFile'[m] # "none"
      PROVE  Held(m)'
  BY <1>3 DEF ResourcesGuarded, NothingMade, MadeFor
<1>4. ASSUME NEW g \in Groups, group'[g]
      PROVE  \E m \in Machines : Driver[m] = "azure" /\ GetResourceGroupName(m) = g /\ Held(m)'
  <2>1. CASE group[g]
    BY <2>1 DEF ResourcesGuarded
  <2>2. CASE cur \in Machines /\ Driver[cur] = "azure" /\ g = GetResourceGroupName(cur) /\ Held(cur)
    BY <2>2
  <2> QED BY <2>1, <2>2, <1>4 DEF NothingMade, MadeFor
<1> QED BY <1>1, <1>2, <1>3, <1>4 DEF ResourcesGuarded

\* A step that leaves the things alone.
LEMMA ThingsKept ==
  ASSUME TypeOK, HostsKnown, UNCHANGED <<store, host, result, scriptFile, group>>
  PROVE  ThingsType' /\ HostsKnown' /\ NothingMade
BY DEF TypeOK, ThingsType, HostsKnown, NothingMade

\* A step of the worker that at most changes the status of the stored object, and
\* keeps the files and hosts, preserves the invariant if it ends in a state
\* whose part of WorkerOK was true before.
LEMMA StatusStepKeeps ==
  ASSUME IInv, cur \in Machines, cur' = cur, KindStep(cur),
         mobj' \in Objects, seen' \in Nat, BudgetType',
         UNCHANGED <<store, host, result, scriptFile, group>>, resultFile' \in Results,
         pc' \in PcStates,
         pc' \in Building => pc \in Building,
         pc' # "finalizer",
         pc' \in Terminating => pc \in Terminating,
         pc' \in {"cloud", "unfinalize"} => pc = pc'
  PROVE  IInv'
<1>1. HistType /\ HistoriesOK /\ TypeOK /\ WorkerOK /\ HostsKnown /\ ResourcesGuarded
  BY DEF IInv, TypeOK, HistType
<1>2. /\ HistType' /\ HistoriesOK'
      /\ \A x \in Machines :
           /\ Held(x)' <=> Held(x)
           /\ NoLive(hist[x]) => NoLive(hist'[x])
           /\ NoDel(hist[x]) => NoDel(hist'[x])
           /\ hist'[x][1] = hist[x][1]
  BY <1>1, KindStepKeeps
<1>3. ThingsType' /\ HostsKnown' /\ NothingMade
  BY <1>1, ThingsKept
<1>4. TypeOK'
  BY <1>1, <1>2, <1>3 DEF TypeOK, HistType, BudgetType, ThingsType
<1>5. ResourcesGuarded'
  BY <1>1, <1>2, <1>3, GuardKept
<1>6. WorkerOK'
  BY <1>1, <1>2 DEF WorkerOK, Held, Api
<1> QED BY <1>2, <1>3, <1>4, <1>5, <1>6 DEF IInv

-----------------------------------------------------------------------------
(* One lemma per kind of step.                                             *)

\* A new version of m, of any kind that AppendHistory allows, and what is left to
\* show for the worker and for the guarded resources.
LEMMA EmitKeeps ==
  ASSUME IInv, NEW m \in Machines, NEW new \in Objects, Emit(m, new),
         new.del => HasFin(new),
         HasFin(new) \/ NoLive(hist[m]),
         Live(new) => NoDel(hist[m]),
         new.del => LastOf(hist[m]).del \/ NoDel(hist[m]),
         hist[m][1].del \/ HasFin(new) \/ NoDel(hist[m])
  PROVE  /\ HistType' /\ HistoriesOK'
         /\ Held(m)' <=> HasFin(new)
         /\ \A x \in Machines : x # m => (Held(x)' <=> Held(x)) /\ hist'[x] = hist[x]
         /\ ~Live(new) /\ NoLive(hist[m]) => NoLive(hist'[m])
         /\ ~new.del /\ NoDel(hist[m]) => NoDel(hist'[m])
         /\ hist'[m][1] = hist[m][1]
<1>1. HistType /\ HistoriesOK
  BY DEF IInv, TypeOK, HistType
<1>2. /\ HistType' /\ hist'[m] = Append(hist[m], new) /\ Api(m)' = new
      /\ \A x \in Machines : x # m => hist'[x] = hist[x]
  BY <1>1, EmitEffect
<1>3. hist[m] \in Seq(Objects) /\ Len(hist[m]) > 0 /\ HistOK(hist[m])
  BY <1>1, CurrentVersions DEF HistoriesOK
<1>4. HistOK(Append(hist[m], new))
  BY <1>3, AppendHistory
<1>5. HistoriesOK'
  BY <1>1, <1>2, <1>4 DEF HistoriesOK
<1>6. Held(m)' <=> HasFin(new)
  BY <1>2 DEF Held, HasFin
<1>7. \A x \in Machines : x # m => (Held(x)' <=> Held(x))
  BY <1>2 DEF Held, Api
<1>8. /\ Len(hist'[m]) = Len(hist[m]) + 1
      /\ \A i \in 1..Len(hist[m]) : hist'[m][i] = hist[m][i]
      /\ hist'[m][Len(hist[m]) + 1] = new
      /\ hist'[m][1] = hist[m][1]
  BY <1>2, <1>3
<1>9. \A i \in 1..Len(hist'[m]) :
        (i \in 1..Len(hist[m]) /\ hist'[m][i] = hist[m][i]) \/ hist'[m][i] = new
  BY <1>2, <1>3, Appended
<1>10. ~Live(new) /\ NoLive(hist[m]) => NoLive(hist'[m])
  BY <1>9 DEF NoLive
<1>11. ~new.del /\ NoDel(hist[m]) => NoDel(hist'[m])
  BY <1>9 DEF NoDel
<1> QED BY <1>2, <1>5, <1>6, <1>7, <1>8, <1>10, <1>11

\* The informer taking an event preserves the invariant: the deletion mark that the
\* cleanup relies on either stays in sight or is over for good.
LEMMA DeliverKeeps ==
  ASSUME IInv, NEW m \in Machines, Deliver(m)
  PROVE  IInv'
<1>1. HistType /\ HistoriesOK /\ TypeOK /\ WorkerOK /\ HostsKnown /\ ResourcesGuarded
  BY DEF IInv, TypeOK, HistType
<1>2. /\ hist[m] \in Seq(Objects) /\ Len(hist[m]) > 1 /\ HistOK(hist[m])
      /\ Len(hist[m]) <= MaxLag + 1
      /\ hist' = [hist EXCEPT ![m] = Tail(hist[m])]
      /\ hist'[m] = Tail(hist[m])
      /\ \A x \in Machines : x # m => hist'[x] = hist[x]
  BY <1>1 DEF Deliver, HistType, HistoriesOK
<1>3. /\ Tail(hist[m]) \in Seq(Objects)
      /\ Len(Tail(hist[m])) = Len(hist[m]) - 1
      /\ LastOf(Tail(hist[m])) = LastOf(hist[m])
      /\ HistOK(Tail(hist[m]))
      /\ NoLive(hist[m]) => NoLive(Tail(hist[m]))
      /\ NoDel(hist[m]) => NoDel(Tail(hist[m]))
      /\ hist[m][1].del => Tail(hist[m])[1].del \/ NoDel(Tail(hist[m]))
  BY <1>2, TailHistory
<1>4. HistType'
  <2>1. hist' \in [Machines -> Seq(Objects)]
    BY <1>1, <1>2, <1>3 DEF HistType
  <2>2. ASSUME NEW x \in Machines PROVE Len(hist'[x]) \in 1..(MaxLag + 1)
    <3>1. MaxLag \in Nat
      BY ConstantsAssumption
    <3>2. CASE x = m
      BY <3>1, <3>2, <1>2, <1>3
    <3>3. CASE x # m
      BY <3>3, <1>1, <1>2 DEF HistType
    <3> QED BY <3>2, <3>3
  <2> QED BY <2>1, <2>2 DEF HistType
<1>5. HistoriesOK'
  BY <1>1, <1>2, <1>3 DEF HistoriesOK
<1>6. \A x \in Machines : Held(x)' <=> Held(x)
  BY <1>2, <1>3 DEF Held, Api, LastOf
<1>7. /\ UNCHANGED <<store, host, result, scriptFile, group, resultFile>>
      /\ ThingsType' /\ HostsKnown' /\ NothingMade
  BY <1>1, ThingsKept DEF Deliver, cloud, disk
<1>8. TypeOK'
  BY <1>1, <1>4, <1>7 DEF TypeOK, HistType, ThingsType, Deliver
<1>9. ResourcesGuarded'
  BY <1>1, <1>6, <1>7, GuardKept
<1>10. WorkerOK'
  BY <1>1, <1>2, <1>3, <1>6, <1>7 DEF WorkerOK, Deliver, TypeOK, Building, Terminating
<1> QED BY <1>5, <1>7, <1>8, <1>9, <1>10 DEF IInv

\* What the last version says of the whole history: a live one rules out deletion
\* marks, one without the finalizer rules out live versions.
LEMMA LiveLast ==
  ASSUME NEW h \in Seq(Objects), Len(h) > 0, HistOK(h)
  PROVE  /\ Live(LastOf(h)) => NoDel(h)
         /\ ~HasFin(LastOf(h)) => ~LastOf(h).del /\ NoLive(h) /\ (h[1].del \/ NoDel(h))
         /\ NoLive(h) => ~Live(LastOf(h))
<1>1. Len(h) \in 1..Len(h) /\ LastOf(h) = h[Len(h)]
  BY DEF LastOf
<1>2. ASSUME Live(LastOf(h)), NEW i \in 1..Len(h) PROVE ~h[i].del
  <2>1. CASE i = Len(h)
    BY <2>1, <1>1, <1>2 DEF Live
  <2>2. CASE i < Len(h)
    BY <2>2, <1>1, <1>2 DEF HistOK
  <2> QED BY <2>1, <2>2
<1>3. ~HasFin(LastOf(h)) => ~LastOf(h).del /\ NoLive(h) /\ (h[1].del \/ NoDel(h))
  BY <1>1 DEF HistOK
<1>4. NoLive(h) => ~Live(LastOf(h))
  BY <1>1 DEF NoLive
<1> QED BY <1>2, <1>3, <1>4 DEF NoDel

\* A user creating a Machine preserves the invariant, even while the worker is still
\* busy with an earlier one of that name.
LEMMA UserCreateKeeps ==
  ASSUME IInv, NEW m \in Machines, UserCreate(m)
  PROVE  IInv'
<1>1. HistType /\ HistoriesOK /\ TypeOK /\ WorkerOK /\ HostsKnown /\ ResourcesGuarded /\ BudgetType
  BY DEF IInv, TypeOK, HistType, BudgetType
<1>2. hist[m] \in Seq(Objects) /\ Len(hist[m]) > 0 /\ HistOK(hist[m]) /\ LastOf(hist[m]) = Api(m)
  BY <1>1, CurrentVersions DEF HistoriesOK
<1>3. ~HasFin(LastOf(hist[m])) /\ ~Held(m)
  BY <1>2 DEF UserCreate, HasFin, Held
<1>4. NoLive(hist[m]) /\ (hist[m][1].del \/ NoDel(hist[m]))
  BY <1>2, <1>3, LiveLast
<1>5. Fresh \in Objects /\ ~Fresh.del /\ ~HasFin(Fresh) /\ ~Live(Fresh)
  BY GoneType DEF Fresh, Gone, HasFin, Live
<1>6. /\ HistType' /\ HistoriesOK'
      /\ \A x \in Machines : x # m => (Held(x)' <=> Held(x)) /\ hist'[x] = hist[x]
      /\ NoLive(hist[m]) => NoLive(hist'[m])
      /\ NoDel(hist[m]) => NoDel(hist'[m])
      /\ hist'[m][1] = hist[m][1]
  <2>1. Emit(m, Fresh)
    BY DEF UserCreate
  <2> QED BY <2>1, <1>4, <1>5, EmitKeeps
<1>7. BudgetType'
  BY <1>1, SpendKeepsType DEF UserCreate, Disturbances
<1>8. /\ UNCHANGED <<store, host, result, scriptFile, group, resultFile>>
      /\ ThingsType' /\ HostsKnown' /\ NothingMade
  BY <1>1, ThingsKept DEF UserCreate, cloud, disk
<1>9. TypeOK'
  BY <1>1, <1>6, <1>7, <1>8 DEF TypeOK, HistType, BudgetType, ThingsType, UserCreate
<1>10. ResourcesGuarded'
  BY <1>1, <1>3, <1>6, <1>8, GuardKept
<1>11. WorkerOK'
  BY <1>1, <1>3, <1>6, <1>8 DEF WorkerOK, UserCreate, TypeOK, Building, Terminating
<1> QED BY <1>6, <1>8, <1>9, <1>10, <1>11 DEF IInv

\* A user's edit preserves the invariant.
LEMMA UserEditKeeps ==
  ASSUME IInv, NEW m \in Machines, UserEdit(m)
  PROVE  IInv'
<1>1. HistType /\ HistoriesOK /\ TypeOK /\ WorkerOK /\ HostsKnown /\ ResourcesGuarded /\ BudgetType
  BY DEF IInv, TypeOK, HistType, BudgetType
<1>2. KindStep(m)
  BY <1>1, CurrentVersions DEF UserEdit, KindStep, SameKind
<1>3. /\ HistType' /\ HistoriesOK'
      /\ \A x \in Machines :
           /\ Held(x)' <=> Held(x)
           /\ NoLive(hist[x]) => NoLive(hist'[x])
           /\ NoDel(hist[x]) => NoDel(hist'[x])
           /\ hist'[x][1] = hist[x][1]
  BY <1>1, <1>2, KindStepKeeps
<1>4. BudgetType'
  BY <1>1, SpendKeepsType DEF UserEdit, Disturbances
<1>5. /\ UNCHANGED <<store, host, result, scriptFile, group, resultFile>>
      /\ ThingsType' /\ HostsKnown' /\ NothingMade
  BY <1>1, ThingsKept DEF UserEdit, cloud, disk
<1>6. TypeOK'
  BY <1>1, <1>3, <1>4, <1>5 DEF TypeOK, HistType, BudgetType, ThingsType, UserEdit
<1>7. ResourcesGuarded'
  BY <1>1, <1>3, <1>5, GuardKept
<1>8. WorkerOK'
  BY <1>1, <1>3, <1>5 DEF WorkerOK, UserEdit, TypeOK, Building, Terminating
<1> QED BY <1>3, <1>5, <1>6, <1>7, <1>8 DEF IInv

\* A user's deletion preserves the invariant: the finalizer holds the object.
LEMMA UserDeleteKeeps ==
  ASSUME IInv, NEW m \in Machines, UserDelete(m)
  PROVE  IInv'
<1> DEFINE new == IF Api(m).fin THEN [Api(m) EXCEPT !.del = TRUE] ELSE Gone
<1>1. HistType /\ HistoriesOK /\ TypeOK /\ WorkerOK /\ HostsKnown /\ ResourcesGuarded
  BY DEF IInv, TypeOK, HistType
<1>2. /\ hist[m] \in Seq(Objects) /\ Len(hist[m]) > 0 /\ HistOK(hist[m])
      /\ LastOf(hist[m]) = Api(m) /\ Api(m) \in Objects
  BY <1>1, CurrentVersions DEF HistoriesOK
<1>3. Api(m).ex /\ ~Api(m).del /\ Emit(m, new)
  BY DEF UserDelete
<1>4. new \in Objects /\ ~Live(new) /\ (new.del => HasFin(new)) /\ (HasFin(new) <=> Api(m).fin)
  BY <1>2, <1>3, GoneType DEF Objects, Live, HasFin, Gone
<1>5. new.del => Live(LastOf(hist[m]))
  BY <1>2, <1>3 DEF Live, Gone
<1>6. /\ Live(LastOf(hist[m])) => NoDel(hist[m])
      /\ ~Api(m).fin => NoLive(hist[m]) /\ (hist[m][1].del \/ NoDel(hist[m]))
      /\ NoLive(hist[m]) => ~new.del
  BY <1>2, <1>5, LiveLast DEF HasFin
<1>7. /\ HistType' /\ HistoriesOK'
      /\ Held(m)' <=> HasFin(new)
      /\ \A x \in Machines : x # m => (Held(x)' <=> Held(x)) /\ hist'[x] = hist[x]
      /\ NoLive(hist[m]) => NoLive(hist'[m])
      /\ ~new.del /\ NoDel(hist[m]) => NoDel(hist'[m])
      /\ hist'[m][1] = hist[m][1]
  <2>1. HasFin(new) \/ NoLive(hist[m])
    BY <1>4, <1>6
  <2>2. new.del => NoDel(hist[m])
    BY <1>5, <1>6
  <2>3. hist[m][1].del \/ HasFin(new) \/ NoDel(hist[m])
    BY <1>4, <1>6
  <2> HIDE DEF new
  <2> QED BY <2>1, <2>2, <2>3, <1>3, <1>4, EmitKeeps
<1>8. \A x \in Machines : Held(x)' <=> Held(x)
  BY <1>3, <1>4, <1>7 DEF Held
<1>9. /\ UNCHANGED <<store, host, result, scriptFile, group, resultFile>>
      /\ ThingsType' /\ HostsKnown' /\ NothingMade
  BY <1>1, ThingsKept DEF UserDelete, cloud, disk
<1>10. TypeOK'
  BY <1>1, <1>7, <1>9 DEF TypeOK, HistType, ThingsType, UserDelete
<1>11. ResourcesGuarded'
  BY <1>1, <1>8, <1>9, GuardKept
<1>12. WorkerOK'
  <2>1. new.del => HasFin(new)
    BY <1>4
  <2> HIDE DEF new
  <2>2. UNCHANGED <<cur, pc, store, scriptFile, group>>
    BY <1>9 DEF UserDelete
  <2>3. pc \in Building \cup {"finalizer"} \cup Terminating => cur \in Machines
    BY <1>1 DEF TypeOK, Building, Terminating
  <2> HIDE DEF new
  <2>4. pc \in Building => Held(cur)'
    BY <2>2, <2>3, <1>1, <1>8 DEF WorkerOK
  <2>5. pc = "finalizer" => Held(cur)' \/ NoDel(hist'[cur])
    <3>1. CASE cur = m
      BY <3>1, <2>1, <2>2, <1>1, <1>7, <1>8 DEF WorkerOK
    <3>2. CASE cur # m
      BY <3>2, <2>2, <2>3, <1>1, <1>7, <1>8 DEF WorkerOK
    <3> QED BY <3>1, <3>2
  <2>6. pc \in Terminating => NoLive(hist'[cur]) /\ (hist'[cur][1].del \/ NoDel(hist'[cur]))
    <3>1. CASE cur = m
      BY <3>1, <1>1, <1>6, <1>7 DEF WorkerOK
    <3>2. CASE cur # m
      BY <3>2, <2>3, <1>1, <1>7 DEF WorkerOK
    <3> QED BY <3>1, <3>2
  <2> QED BY <2>2, <2>4, <2>5, <2>6, <1>1 DEF WorkerOK
<1> QED BY <1>7, <1>9, <1>10, <1>11, <1>12 DEF IInv

\* Taking up a Machine preserves the invariant: what Reconcile concludes from the
\* cached copy is true of the stored one where the invariant needs it.
LEMMA ReconcileKeeps ==
  ASSUME IInv, NEW m \in Machines, Reconcile(m)
  PROVE  IInv'
<1> DEFINE o == Cached(m)
<1>1. HistType /\ HistoriesOK /\ TypeOK /\ WorkerOK /\ HostsKnown /\ ResourcesGuarded
  BY DEF IInv, TypeOK, HistType
<1>2. /\ hist[m] \in Seq(Objects) /\ Len(hist[m]) > 0 /\ HistOK(hist[m])
      /\ o \in Objects /\ o = hist[m][1] /\ 1 \in 1..Len(hist[m])
      /\ Held(m) <=> HasFin(LastOf(hist[m]))
  BY <1>1, CurrentVersions DEF HistoriesOK
<1>3. /\ o.ex /\ cur' = m /\ mobj' = o /\ seen' = 1 /\ pc' = AfterGet(o)
      /\ UNCHANGED <<hist, budget, host, result, store, resultFile, scriptFile, group>>
  BY DEF Reconcile, disk, cloud
<1>4. /\ pc' \in {"initPhase", "termStatus", "idle", "finalizer", "initConds"}
      /\ pc' = "termStatus" => o.del
      /\ pc' = "finalizer" => ~o.del
      /\ pc' = "initConds" => o.fin /\ ~o.del
  BY <1>2, <1>3 DEF AfterGet, Objects
<1>5. HistoriesOK' /\ \A x \in Machines : Held(x)' <=> Held(x)
  BY <1>1, <1>3 DEF HistoriesOK, Held, Api
<1>6. TypeOK'
  BY <1>1, <1>2, <1>3, <1>4 DEF TypeOK, PcStates
<1>7. HostsKnown' /\ ResourcesGuarded'
  <2>1. HostsKnown' /\ NothingMade
    BY <1>1, <1>3, ThingsKept
  <2> QED BY <2>1, <1>1, <1>5, GuardKept
<1>8. pc' = "initConds" => Held(m)
  BY <1>2, <1>3, <1>4 DEF HistOK, NoLive, Live
<1>9. pc' = "finalizer" => Held(m) \/ NoDel(hist[m])
  BY <1>2, <1>4 DEF HistOK
<1>10. pc' = "termStatus" => NoLive(hist[m]) /\ hist[m][1].del
  <2> SUFFICES ASSUME o.del, NEW i \in 1..Len(hist[m]) PROVE ~Live(hist[m][i])
    BY <1>2, <1>4 DEF NoLive
  <2>1. CASE i = 1
    BY <2>1, <1>2 DEF Live
  <2>2. CASE 1 < i
    BY <2>2, <1>2 DEF HistOK
  <2>3. i = 1 \/ 1 < i
    <3>1. Len(hist[m]) \in Nat
      BY <1>2
    <3> QED BY <3>1
  <2> QED BY <2>1, <2>2, <2>3
<1>11. WorkerOK'
  BY <1>1, <1>3, <1>4, <1>5, <1>8, <1>9, <1>10 DEF WorkerOK, Building, Terminating
<1> QED BY <1>5, <1>6, <1>7, <1>11 DEF IInv

\* ensureFinalizer preserves the invariant: creation goes on only with the finalizer
\* stored, be it by a patch or because the Machine was created anew.
LEMMA EnsureFinalizerKeeps ==
  ASSUME IInv, EnsureFinalizer
  PROVE  IInv'
<1>0. PICK m \in Machines : m = cur
  BY DEF IInv, TypeOK, EnsureFinalizer
<1> DEFINE h == hist[m]
           new == IF Cached(m).ex THEN FinalizerPatched(m, TRUE) ELSE Recreated(TRUE)
<1>1. /\ HistType /\ HistoriesOK /\ TypeOK /\ WorkerOK /\ ResourcesGuarded /\ BudgetType
      /\ HostsKnown
      /\ pc = "finalizer" /\ cur = m /\ cur' = m
      /\ UNCHANGED <<host, result, store, resultFile, scriptFile, group>>
  BY <1>0 DEF IInv, TypeOK, HistType, BudgetType, EnsureFinalizer, PatchFinalizer, disk, cloud
<1>2. /\ h \in Seq(Objects) /\ Len(h) > 0 /\ HistOK(h) /\ LastOf(h) = Api(m)
      /\ Api(m) \in Objects /\ Cached(m) \in Objects /\ Cached(m) = h[1]
      /\ 1 \in 1..Len(h)
      /\ Held(m) <=> HasFin(Api(m))
  BY <1>1, CurrentVersions DEF HistoriesOK
<1>3. HostsKnown' /\ NothingMade
  BY <1>1, ThingsKept
<1>4. ASSUME Cached(m).ex = Api(m).ex, Put(m, Stored(new))
      PROVE  /\ HistType' /\ HistoriesOK' /\ Held(m)'
             /\ \A x \in Machines : Held(x) => Held(x)'
             /\ new \in Objects /\ Len(hist'[m]) \in Nat
  <2>1. new \in Objects /\ HasFin(new) /\ Stored(new) = new
    <3>1. CASE ~Cached(m).ex
      BY <3>1, <1>2, GoneType DEF Recreated, Fresh, Gone, Objects, HasFin, Stored
    <3>2. CASE Cached(m).ex /\ ~Cached(m).fin
      BY <3>2, <1>2, <1>4 DEF FinalizerPatched, Objects, HasFin, Stored
    <3>3. CASE Cached(m).ex /\ Cached(m).fin
      <4>1. Held(m)
        <5>1. CASE Cached(m).del
          BY <5>1, <1>1, <1>2 DEF WorkerOK, NoDel
        <5>2. CASE ~Cached(m).del
          BY <5>2, <3>3, <1>2 DEF HistOK, NoLive, Live
        <5> QED BY <5>1, <5>2, <1>2 DEF Objects
      <4> QED BY <4>1, <3>3, <1>2 DEF FinalizerPatched, HasFin, Stored
    <3> QED BY <3>1, <3>2, <3>3, <1>2 DEF Objects
  <2>2. CASE new = Api(m)
    <3>1. hist' = hist
      BY <2>1, <2>2, <1>4 DEF Put
    <3>2. HistType' /\ HistoriesOK' /\ Len(hist'[m]) \in Nat
      BY <3>1, <1>1, <1>2 DEF HistType, HistoriesOK
    <3>3. \A x \in Machines : Held(x)' <=> Held(x)
      BY <3>1 DEF Held, Api
    <3>4. Held(m)
      BY <2>1, <2>2, <1>2
    <3> QED BY <3>2, <3>3, <3>4, <2>1
  <2>3. CASE new # Api(m)
    <3>1. Emit(m, new)
      BY <2>1, <2>3, <1>4 DEF Put
    <3>2. ~Held(m)
      <4> SUFFICES ASSUME Held(m) PROVE new = Api(m)
        BY <2>3
      <4>1. Cached(m).ex
        BY <1>2, <1>4 DEF HasFin
      <4> QED BY <4>1, <1>2 DEF FinalizerPatched, HasFin, Objects
    <3>3. NoDel(h) /\ ~LastOf(h).del
      BY <3>2, <1>1, <1>2, LiveLast DEF WorkerOK
    <3>4. ~new.del
      BY <3>3, <1>2 DEF FinalizerPatched, Recreated, Fresh, Gone, Objects
    <3> HIDE DEF new
    <3>5. /\ HistType' /\ HistoriesOK'
          /\ Held(m)' <=> HasFin(new)
          /\ \A x \in Machines : x # m => (Held(x)' <=> Held(x)) /\ hist'[x] = hist[x]
      BY <3>1, <3>3, <3>4, <2>1, <1>1, EmitKeeps
    <3>6. Len(hist'[m]) \in Nat
      BY <3>1, <2>1, <1>1, EmitEffect
    <3> QED BY <3>5, <3>6, <2>1
  <2> QED BY <2>2, <2>3
<1>5. CASE /\ Cached(m).ex = Api(m).ex /\ Put(m, Stored(new))
           /\ mobj' = new /\ seen' = Len(hist'[m]) /\ pc' = "initConds"
           /\ UNCHANGED budget
  <2>1. TypeOK'
    BY <1>1, <1>4, <1>5 DEF TypeOK, HistType, PcStates
  <2>2. ResourcesGuarded'
    BY <1>1, <1>4, <1>5, <1>3, GuardKept
  <2>3. WorkerOK'
    BY <1>1, <1>4, <1>5 DEF WorkerOK, Building, Terminating, Held, Api
  <2> QED BY <2>1, <2>2, <2>3, <1>4, <1>5, <1>3 DEF IInv
<1>6. CASE pc' \in {"idle", "requeue"} /\ UNCHANGED <<hist, mobj, seen, budget>>
  BY <1>6, <1>1, StatusStepKeeps
     DEF KindStep, PcStates, Building, Terminating, TypeOK, BudgetType
<1>7. CASE /\ Spend("fault") /\ pc' = "requeue" /\ UNCHANGED <<mobj, seen>>
           /\ UNCHANGED hist \/ (Cached(m).ex = Api(m).ex /\ Put(m, Stored(new)))
  <2>1. BudgetType'
    BY <1>1, <1>7, SpendKeepsType DEF Disturbances
  <2>2. HistType' /\ HistoriesOK' /\ \A x \in Machines : Held(x) => Held(x)'
    <3>1. CASE UNCHANGED hist
      BY <3>1, <1>1 DEF HistType, HistoriesOK, Held, Api
    <3>2. CASE Cached(m).ex = Api(m).ex /\ Put(m, Stored(new))
      BY <3>2, <1>4
    <3> QED BY <3>1, <3>2, <1>7
  <2>3. TypeOK'
    BY <2>1, <2>2, <1>1, <1>7 DEF TypeOK, HistType, BudgetType, PcStates
  <2>4. ResourcesGuarded'
    BY <2>2, <1>1, <1>7, <1>3, GuardKept
  <2>5. WorkerOK'
    BY <1>1, <1>7 DEF WorkerOK, Building, Terminating
  <2> QED BY <2>2, <2>3, <2>4, <2>5, <1>3 DEF IInv
<1> QED
  BY <1>0, <1>5, <1>6, <1>7 DEF EnsureFinalizer, PatchFinalizer

\* Removing the finalizer preserves the invariant: the cleanup has left nothing that
\* it would still have to cover.
LEMMA RemoveFinalizerKeeps ==
  ASSUME IInv, RemoveFinalizer
  PROVE  IInv'
<1>0. PICK m \in Machines : m = cur
  BY DEF IInv, TypeOK, RemoveFinalizer
<1> DEFINE h == hist[m]
           new == IF Cached(m).ex THEN FinalizerPatched(m, FALSE) ELSE Recreated(FALSE)
<1>1. /\ HistType /\ HistoriesOK /\ TypeOK /\ WorkerOK /\ ResourcesGuarded /\ BudgetType
      /\ HostsKnown
      /\ pc = "unfinalize" /\ cur = m /\ cur' = m
      /\ UNCHANGED <<host, result, store, resultFile, scriptFile, group>>
  BY <1>0 DEF IInv, TypeOK, HistType, BudgetType, RemoveFinalizer, PatchFinalizer, disk, cloud
<1>2. /\ h \in Seq(Objects) /\ Len(h) > 0 /\ HistOK(h) /\ LastOf(h) = Api(m)
      /\ Api(m) \in Objects /\ Cached(m) \in Objects
  BY <1>1, CurrentVersions DEF HistoriesOK
<1>3. /\ NoLive(h) /\ (h[1].del \/ NoDel(h))
      /\ ~store[Name[m]] /\ scriptFile[m] = "none"
      /\ Driver[m] = "azure" => ~group[GetResourceGroupName(m)]
  BY <1>1 DEF WorkerOK, Terminating
<1>4. ASSUME Cached(m).ex = Api(m).ex, Put(m, Stored(new))
      PROVE  /\ HistType' /\ HistoriesOK'
             /\ \A x \in Machines : x # m => (Held(x) <=> Held(x)')
             /\ new \in Objects /\ Len(hist'[m]) \in Nat
  <2>1. new \in Objects /\ Stored(new) \in Objects
    BY <1>2, GoneType DEF FinalizerPatched, Recreated, Fresh, Objects, Stored
  <2>2. CASE Stored(new) = Api(m)
    <3>1. hist' = hist
      BY <2>2, <1>4 DEF Put
    <3>2. HistType' /\ HistoriesOK' /\ Len(hist'[m]) \in Nat
      BY <3>1, <1>1, <1>2 DEF HistType, HistoriesOK
    <3>3. \A x \in Machines : Held(x)' <=> Held(x)
      BY <3>1 DEF Held, Api
    <3> QED BY <3>2, <3>3, <2>1
  <2>3. CASE Stored(new) # Api(m)
    <3>1. Emit(m, Stored(new))
      BY <2>3, <1>4 DEF Put
    <3>2. ~HasFin(Stored(new)) /\ ~Stored(new).del
      <4>1. CASE ~Cached(m).ex
        BY <4>1 DEF Recreated, Fresh, Gone, HasFin, Stored
      <4>2. CASE Cached(m).ex /\ Cached(m).fin
        BY <4>2, <1>2 DEF FinalizerPatched, Gone, HasFin, Stored, Objects
      <4>3. CASE Cached(m).ex /\ ~Cached(m).fin
        <5>1. new = Api(m)
          BY <4>3, <1>2 DEF FinalizerPatched, Objects
        <5>2. Stored(new) = Gone
          BY <5>1, <2>3 DEF Stored
        <5>3. ~HasFin(Gone) /\ ~Gone.del
          BY DEF Gone, HasFin
        <5> QED BY <5>2, <5>3
      <4> QED BY <4>1, <4>2, <4>3, <1>2 DEF Objects
    <3>3. ~Live(Stored(new))
      BY <3>2 DEF Live, HasFin
    <3> HIDE DEF new
    <3>4. /\ HistType' /\ HistoriesOK'
          /\ \A x \in Machines : x # m => (Held(x)' <=> Held(x)) /\ hist'[x] = hist[x]
      BY <3>1, <3>2, <3>3, <2>1, <1>3, EmitKeeps
    <3>5. Len(hist'[m]) \in Nat
      BY <3>1, <2>1, <1>1, EmitEffect
    <3> QED BY <3>4, <3>5, <2>1
  <2> QED BY <2>2, <2>3
<1>5. ASSUME \A x \in Machines : x # m => (Held(x) <=> Held(x)')
      PROVE  ResourcesGuarded' /\ HostsKnown'
  <2>0. HostsKnown'
    BY <1>1, ThingsKept
  <2>1. ASSUME NEW n \in Names, store'[n]
        PROVE  \E x \in Machines : Name[x] = n /\ Held(x)'
    <3>1. store[n] /\ n # Name[m]
      BY <2>1, <1>1, <1>3
    <3>2. PICK x \in Machines : Name[x] = n /\ Held(x)
      BY <3>1, <1>1 DEF ResourcesGuarded
    <3> QED BY <3>1, <3>2, <1>5
  <2>2. ASSUME NEW n \in Names, DiskSurvives, host'[n] # "none"
        PROVE  store'[n]
    BY <2>0, <2>2 DEF HostsKnown
  <2>3. ASSUME NEW x \in Machines, scriptFile'[x] # "none" PROVE Held(x)'
    <3>1. scriptFile[x] # "none" /\ x # m
      BY <2>3, <1>1, <1>3
    <3> QED BY <3>1, <1>1, <1>5 DEF ResourcesGuarded
  <2>4. ASSUME NEW g \in Groups, group'[g]
        PROVE  \E x \in Machines : Driver[x] = "azure" /\ GetResourceGroupName(x) = g /\ Held(x)'
    <3>1. group[g]
      BY <2>4, <1>1
    <3>2. PICK x \in Machines : Driver[x] = "azure" /\ GetResourceGroupName(x) = g /\ Held(x)
      BY <3>1, <1>1 DEF ResourcesGuarded
    <3>3. x # m
      BY <3>1, <3>2, <1>3
    <3> QED BY <3>2, <3>3, <1>5
  <2> QED BY <2>0, <2>1, <2>2, <2>3, <2>4 DEF ResourcesGuarded
<1>6. CASE /\ Cached(m).ex = Api(m).ex /\ Put(m, Stored(new))
           /\ mobj' = new /\ seen' = Len(hist'[m]) /\ pc' = "idle"
           /\ UNCHANGED budget
  <2>1. TypeOK'
    BY <1>1, <1>4, <1>6 DEF TypeOK, HistType, PcStates
  <2>2. WorkerOK'
    BY <1>1, <1>6 DEF WorkerOK, Building, Terminating
  <2> QED BY <2>1, <2>2, <1>4, <1>5, <1>6 DEF IInv
<1>7. CASE pc' = "requeue" /\ UNCHANGED <<hist, mobj, seen, budget>>
  BY <1>7, <1>1, StatusStepKeeps
     DEF KindStep, PcStates, Building, Terminating, TypeOK, BudgetType
<1>8. CASE /\ Spend("fault") /\ pc' = "requeue" /\ UNCHANGED <<mobj, seen>>
           /\ UNCHANGED hist \/ (Cached(m).ex = Api(m).ex /\ Put(m, Stored(new)))
  <2>1. BudgetType'
    BY <1>1, <1>8, SpendKeepsType DEF Disturbances
  <2>2. HistType' /\ HistoriesOK' /\ \A x \in Machines : x # m => (Held(x) <=> Held(x)')
    <3>1. CASE UNCHANGED hist
      BY <3>1, <1>1 DEF HistType, HistoriesOK, Held, Api
    <3>2. CASE Cached(m).ex = Api(m).ex /\ Put(m, Stored(new))
      BY <3>2, <1>4
    <3> QED BY <3>1, <3>2, <1>8
  <2>3. TypeOK'
    BY <2>1, <2>2, <1>1, <1>8 DEF TypeOK, HistType, BudgetType, PcStates
  <2>4. WorkerOK'
    BY <1>1, <1>8 DEF WorkerOK, Building, Terminating
  <2> QED BY <2>2, <2>3, <2>4, <1>5 DEF IInv
<1> QED BY <1>0, <1>6, <1>7, <1>8 DEF RemoveFinalizer, PatchFinalizer

\* A step of the worker that at most changes the status of the stored object, and
\* makes hosts and scripts only for a Machine that is held, preserves the
\* invariant if what WorkerOK asks of the state it ends in is there.
LEMMA WorkStepKeeps ==
  ASSUME IInv, cur \in Machines, cur' = cur, KindStep(cur),
         mobj' \in Objects, seen' \in Nat, BudgetType', resultFile' \in Results,
         ThingsType', HostsKnown',
         NothingMade \/ (Held(cur) /\ MadeFor(cur)),
         pc' \in PcStates,
         pc' \in Building => pc \in Building,
         pc' # "finalizer",
         pc' \in Terminating => pc \in Terminating,
         pc' \in {"cloud", "unfinalize"} => ~store'[Name[cur]] /\ scriptFile'[cur] = "none",
         pc' = "unfinalize" /\ Driver[cur] = "azure" => ~group'[GetResourceGroupName(cur)]
  PROVE  IInv'
<1>1. HistType /\ HistoriesOK /\ TypeOK /\ WorkerOK /\ HostsKnown /\ ResourcesGuarded
  BY DEF IInv, TypeOK, HistType
<1>2. /\ HistType' /\ HistoriesOK'
      /\ \A x \in Machines :
           /\ Held(x)' <=> Held(x)
           /\ NoLive(hist[x]) => NoLive(hist'[x])
           /\ NoDel(hist[x]) => NoDel(hist'[x])
           /\ hist'[x][1] = hist[x][1]
  BY <1>1, KindStepKeeps
<1>3. TypeOK'
  BY <1>1, <1>2 DEF TypeOK, HistType, BudgetType, ThingsType
<1>4. ResourcesGuarded'
  BY <1>1, <1>2, GuardKept
<1>5. WorkerOK'
  BY <1>1, <1>2 DEF WorkerOK, Held, Api
<1> QED BY <1>2, <1>3, <1>4, <1>5 DEF IInv

\* The steps that do nothing but update the status - the first phase, the end of a
\* reconcile, requeueWithError, the commits between the stages - preserve it.
LEMMA StatusActionsKeep ==
  ASSUME IInv, InitPhase \/ FinalStatus \/ SetInitialConditions
               \/ CommitCreated \/ CommitTerminating
  PROVE  IInv'
<1>1. TypeOK /\ cur \in Machines /\ mobj \in Objects
  BY DEF IInv, TypeOK, InitPhase, FinalStatus, SetInitialConditions,
         CommitCreated, CommitTerminating
<1>2. UNCHANGED <<host, result, store, resultFile, scriptFile, group>>
  BY DEF InitPhase, FinalStatus, SetInitialConditions,
         CommitCreated, CommitTerminating, disk, cloud
<1>3. resultFile' \in Results
  BY <1>1, <1>2 DEF TypeOK
<1> DEFINE Step(o, ok, err) == UpdateMachineStatus(o, ok, err)
<1>4. ASSUME NEW o \in Objects, NEW ok \in PcStates, NEW err \in PcStates, Step(o, ok, err)
      PROVE  /\ cur' = cur /\ mobj' \in Objects /\ seen' \in Nat /\ BudgetType'
             /\ pc' \in {ok, err} /\ KindStep(cur)
  BY <1>1, <1>4, StatusStep
<1>5. CASE InitPhase
  <2>1. Step(mobj, "idle", "idle")
    BY <1>5 DEF InitPhase
  <2> HIDE DEF Step
  <2>2. /\ cur' = cur /\ mobj' \in Objects /\ seen' \in Nat /\ BudgetType'
        /\ pc' = "idle" /\ KindStep(cur)
    BY <2>1, <1>1, <1>4 DEF PcStates
  <2> QED BY <2>2, <1>1, <1>2, <1>3, StatusStepKeeps DEF PcStates, Building, Terminating
<1>6. CASE FinalStatus
  <2>1. Step(mobj, "idle", "idle")
    BY <1>6 DEF FinalStatus
  <2> HIDE DEF Step
  <2>2. /\ cur' = cur /\ mobj' \in Objects /\ seen' \in Nat /\ BudgetType'
        /\ pc' = "idle" /\ KindStep(cur)
    BY <2>1, <1>1, <1>4 DEF PcStates
  <2> QED BY <2>2, <1>1, <1>2, <1>3, StatusStepKeeps DEF PcStates, Building, Terminating
<1>7. CASE SetInitialConditions
  <2> DEFINE o == [mobj EXCEPT !.conds = InitialConditions(@)]
             ok == IF Driver[cur] = "amazonec2" THEN "prereq" ELSE "args"
  <2>1. Step(o, ok, "requeue") /\ pc = "initConds"
    BY <1>7 DEF SetInitialConditions
  <2>2. o \in Objects
    <3>1. InitialConditions(mobj.conds) \in Conditions
      <4>1. mobj.conds \in Conditions /\ "MachineCreating" \in Reasons /\ "WaitingForScriptRun" \in Reasons
        BY <1>1 DEF Objects, Reasons
      <4> QED BY <4>1, MarkType DEF InitialConditions
    <3> QED BY <3>1, <1>1, WithConditions
  <2>3. ok \in {"prereq", "args"}
    OBVIOUS
  <2> HIDE DEF Step, o, ok
  <2>4. /\ cur' = cur /\ mobj' \in Objects /\ seen' \in Nat /\ BudgetType'
        /\ pc' \in {"prereq", "args", "requeue"} /\ KindStep(cur)
    BY <2>1, <2>2, <2>3, <1>4 DEF PcStates
  <2> QED BY <2>1, <2>4, <1>1, <1>2, <1>3, StatusStepKeeps DEF PcStates, Building, Terminating
<1>8. CASE CommitCreated
  <2>1. Step(mobj, "script", "requeue")
    BY <1>8 DEF CommitCreated
  <2> HIDE DEF Step
  <2>2. /\ cur' = cur /\ mobj' \in Objects /\ seen' \in Nat /\ BudgetType'
        /\ pc' \in {"script", "requeue"} /\ KindStep(cur)
    BY <2>1, <1>1, <1>4 DEF PcStates
  <2> QED BY <2>2, <1>1, <1>2, <1>3, StatusStepKeeps DEF PcStates, Building, Terminating
<1>9. CASE CommitTerminating
  <2>1. Step(mobj, "rm", "requeue") /\ pc = "termStatus"
    BY <1>9 DEF CommitTerminating
  <2> HIDE DEF Step
  <2>2. /\ cur' = cur /\ mobj' \in Objects /\ seen' \in Nat /\ BudgetType'
        /\ pc' \in {"rm", "requeue"} /\ KindStep(cur)
    BY <2>1, <1>1, <1>4 DEF PcStates
  <2> QED BY <2>1, <2>2, <1>1, <1>2, <1>3, StatusStepKeeps DEF PcStates, Building, Terminating
<1> QED BY <1>5, <1>6, <1>7, <1>8, <1>9

\* The stages of createMachine that lead up to the command: the prerequisites, the
\* secrets and the startup script, which is written for a held Machine only.
LEMMA PreparationKeeps ==
  ASSUME IInv, PatchAnnotation \/ CreatePrerequisites \/ ScriptSecretMissing \/ AuthSecretMissing
               \/ GetMachineCreationArgs
  PROVE  IInv'
<1>1. /\ TypeOK /\ WorkerOK /\ HistType /\ BudgetType
      /\ cur \in Machines /\ mobj \in Objects /\ seen \in Nat
      /\ mobj.conds \in Conditions /\ pc \in {"prereq", "args"}
  BY DEF IInv, TypeOK, HistType, BudgetType, Objects, PatchAnnotation, CreatePrerequisites,
         ScriptSecretMissing, AuthSecretMissing, GetMachineCreationArgs
<1>2. Held(cur)
  BY <1>1 DEF WorkerOK, Building
<1>3. "fault" \in Disturbances /\ "AuthDataNotFound" \in Reasons /\ "ScriptDataNotFound" \in Reasons
  BY DEF Disturbances, Reasons
<1>4. ScriptMarked(mobj.conds) \in Conditions
  <2>1. "AuthDataNotFound" \in Reasons
    BY <1>3
  <2> QED BY <2>1, <1>1, MarkType DEF ScriptMarked
<1>5. ASSUME scriptFile' \in {scriptFile, ScriptCut, ScriptWritten},
             UNCHANGED <<store, host, result, group>>
      PROVE  ThingsType' /\ HostsKnown' /\ MadeFor(cur)
  <2>1. HostsKnown
    BY DEF IInv
  <2>2. /\ scriptFile' \in [Machines -> ScriptFiles]
        /\ \A x \in Machines : x # cur => scriptFile'[x] = scriptFile[x]
    BY <1>1, <1>5 DEF TypeOK, ScriptFiles, ScriptCut, ScriptWritten
  <2> QED BY <2>1, <2>2, <1>1, <1>5 DEF TypeOK, ThingsType, HostsKnown, MadeFor
<1>6. CASE CreatePrerequisites \/ PatchAnnotation
  <2>1. /\ cur' = cur /\ UNCHANGED <<host, result, store, resultFile, scriptFile, group>>
        /\ pc' \in {"prereq", "args", "requeue"} /\ pc = "prereq"
    BY <1>6 DEF CreatePrerequisites, PatchAnnotation, disk, cloud
  <2>2. BudgetType'
    <3>1. CASE Spend("fault")
      BY <3>1, <1>1, <1>3, SpendKeepsType
    <3>2. CASE UNCHANGED budget
      BY <3>2, <1>1 DEF BudgetType
    <3> QED BY <3>1, <3>2, <1>6 DEF CreatePrerequisites, PatchAnnotation
  <2>3. KindStep(cur) /\ mobj' \in Objects /\ seen' \in Nat
    <3>1. Api(cur) \in Objects /\ SameKind(Api(cur), Api(cur))
      BY <1>1, CurrentVersions DEF SameKind
    <3>2. CASE UNCHANGED <<hist, mobj, seen>>
      BY <3>2, <1>1 DEF KindStep
    <3>3. CASE Emit(cur, Api(cur))
      <4>1. Len(hist'[cur]) \in Nat
        BY <3>1, <3>3, <1>1, EmitEffect
      <4>2. KindStep(cur)
        BY <3>1, <3>3 DEF KindStep
      <4>3. \/ UNCHANGED <<mobj, seen>>
            \/ mobj' = Api(cur) /\ seen' = Len(hist'[cur])
        BY <1>6 DEF CreatePrerequisites, PatchAnnotation
      <4> QED BY <4>1, <4>2, <4>3, <3>1, <1>1
    <3> QED BY <3>2, <3>3, <1>6 DEF CreatePrerequisites, PatchAnnotation
  <2> QED BY <2>1, <2>2, <2>3, <1>1, StatusStepKeeps
         DEF PcStates, Building, Terminating, TypeOK
<1>7. CASE ScriptSecretMissing
  <2>1. /\ cur' = cur /\ UNCHANGED <<hist, seen, host, result, store, resultFile, group>>
        /\ pc' = "requeue" /\ Spend("fault") /\ scriptFile' \in {scriptFile, ScriptCut}
        /\ mobj' = [mobj EXCEPT !.conds = MarkFalse(mobj.conds, "ScriptReady", "ScriptDataNotFound")]
    BY <1>7 DEF ScriptSecretMissing, cloud
  <2>2. mobj' \in Objects
    BY <2>1, <1>1, <1>3, MarkType, WithConditions
  <2>3. BudgetType'
    BY <2>1, <1>1, <1>3, SpendKeepsType
  <2>4. ThingsType' /\ HostsKnown' /\ MadeFor(cur)
    BY <2>1, <1>5
  <2> QED BY <2>1, <2>2, <2>3, <2>4, <1>1, <1>2, WorkStepKeeps
         DEF KindStep, PcStates, Building, Terminating, TypeOK
<1>8. CASE AuthSecretMissing
  <2>1. /\ cur' = cur /\ UNCHANGED <<hist, seen, host, result, store, resultFile, group>>
        /\ pc' = "requeue" /\ Spend("fault") /\ scriptFile' = ScriptWritten
        /\ mobj' = [mobj EXCEPT !.conds =
                      MarkFalse(ScriptMarked(mobj.conds), "AuthDataReady", "AuthDataNotFound")]
    BY <1>8 DEF AuthSecretMissing, cloud
  <2>2. mobj' \in Objects
    BY <2>1, <1>1, <1>3, <1>4, MarkType, WithConditions
  <2>3. BudgetType'
    BY <2>1, <1>1, <1>3, SpendKeepsType
  <2>4. ThingsType' /\ HostsKnown' /\ MadeFor(cur)
    BY <2>1, <1>5
  <2> QED BY <2>1, <2>2, <2>3, <2>4, <1>1, <1>2, WorkStepKeeps
         DEF KindStep, PcStates, Building, Terminating, TypeOK
<1>9. CASE GetMachineCreationArgs
  <2> DEFINE o == [mobj EXCEPT !.conds = MarkTrue(ScriptMarked(@), "AuthDataReady")]
  <2>1. /\ UNCHANGED <<host, result, store, resultFile, group>> /\ scriptFile' = ScriptWritten
        /\ UpdateMachineStatus(o, "create", "requeue") /\ pc = "args"
    BY <1>9 DEF GetMachineCreationArgs, cloud
  <2>2. o \in Objects
    BY <1>1, <1>3, <1>4, MarkType, WithConditions
  <2> HIDE DEF o
  <2>3. /\ cur' = cur /\ mobj' \in Objects /\ seen' \in Nat /\ BudgetType'
        /\ pc' \in {"create", "requeue"} /\ KindStep(cur)
    BY <2>1, <2>2, <1>1, StatusStep
  <2>4. ThingsType' /\ HostsKnown' /\ MadeFor(cur)
    BY <2>1, <1>5
  <2> QED BY <2>1, <2>3, <2>4, <1>1, <1>2, WorkStepKeeps
         DEF PcStates, Building, Terminating, TypeOK
<1> QED BY <1>6, <1>7, <1>8, <1>9

\* What a creation that is cut short leaves in the store and in the cloud is its
\* own host, entered in the store, and for an Azure Machine its own resource group.
LEMMA CutShortType ==
  ASSUME TypeOK, HostsKnown, cur \in Machines, NEW c \in CutShort
  PROVE  /\ c[1] \in [Names -> BOOLEAN]
         /\ c[2] \in [Names -> HostStates]
         /\ c[3] \in [Groups -> BOOLEAN]
         /\ \A n \in Names : c[1][n] => store[n] \/ n = Name[cur]
         /\ DiskSurvives => \A n \in Names : c[2][n] # "none" => c[1][n]
         /\ \A g \in Groups :
              c[3][g] => group[g] \/ (Driver[cur] = "azure" /\ g = GetResourceGroupName(cur))
         /\ (\A n \in Names : store[n] => c[1][n]) /\ (\A g \in Groups : group[g] => c[3][g])
<1> DEFINE half == [host EXCEPT ![Name[cur]] = "half"]
<1>1. /\ c[1] \in {store, Entered} /\ c[2] \in {host, half} /\ c[3] \in {group, GroupMade}
      /\ c[1] = Entered \/ (c[1] = store /\ c[2] = host)
  BY DEF CutShort
<1>2. /\ Entered \in [Names -> BOOLEAN]
      /\ \A n \in Names : Entered[n] <=> store[n] \/ n = Name[cur]
  BY DEF TypeOK, Entered
<1>3. half \in [Names -> HostStates] /\ \A n \in Names : n # Name[cur] => half[n] = host[n]
  BY DEF TypeOK, HostStates
<1>4. /\ GroupMade \in [Groups -> BOOLEAN]
      /\ \A g \in Groups :
           GroupMade[g] <=> group[g] \/ (Driver[cur] = "azure" /\ g = GetResourceGroupName(cur))
  BY DEF TypeOK, GroupMade
<1>5. DiskSurvives => \A n \in Names : c[2][n] # "none" => c[1][n]
  BY <1>1, <1>2, <1>3 DEF HostsKnown
<1> HIDE DEF half
<1>6. /\ c[1] \in [Names -> BOOLEAN]
      /\ \A n \in Names : c[1][n] => store[n] \/ n = Name[cur]
      /\ \A n \in Names : store[n] => c[1][n]
  BY <1>1, <1>2 DEF TypeOK
<1>7. c[2] \in [Names -> HostStates]
  BY <1>1, <1>3 DEF TypeOK
<1>8. /\ c[3] \in [Groups -> BOOLEAN]
      /\ \A g \in Groups :
           c[3][g] => group[g] \/ (Driver[cur] = "azure" /\ g = GetResourceGroupName(cur))
      /\ \A g \in Groups : group[g] => c[3][g]
  BY <1>1, <1>4 DEF TypeOK
<1> QED BY <1>5, <1>6, <1>7, <1>8

\* docker-machine create, whatever it answers: it makes a host for a held Machine.
LEMMA CreateKeeps ==
  ASSUME IInv, CreateSucceeds \/ CreateFails
  PROVE  IInv'
<1>1. /\ TypeOK /\ WorkerOK /\ HostsKnown /\ BudgetType
      /\ cur \in Machines /\ mobj \in Objects /\ seen \in Nat
      /\ mobj.conds \in Conditions /\ pc = "create" /\ Name[cur] \in Names
  BY ConstantsAssumption DEF IInv, TypeOK, BudgetType, Objects, CreateSucceeds, CreateFails
<1>2. Held(cur)
  BY <1>1 DEF WorkerOK, Building
<1>3. /\ cur' = cur /\ UNCHANGED <<hist, seen, resultFile, scriptFile>>
      /\ pc' \in {"created", "requeue"}
  BY DEF CreateSucceeds, CreateFails
<1>4. "MachineCreationFailed" \in Reasons /\ "fault" \in Disturbances
  BY DEF Reasons, Disturbances
<1>5. Creating(mobj.conds) \in Conditions
  BY <1>1, <1>4, MarkType DEF Creating
<1>6. mobj' \in Objects
  <2>1. CASE CreateSucceeds
    <3>1. MarkTrue(Creating(mobj.conds), "MachineReady") \in Conditions
      BY <1>4, <1>5, MarkType
    <3> QED BY <3>1, <2>1, <1>1, WithConditions DEF CreateSucceeds
  <2>2. CASE CreateFails
    <3>1. MarkFalse(Creating(mobj.conds), "MachineReady", "MachineCreationFailed") \in Conditions
      BY <1>4, <1>5, MarkType
    <3> QED BY <3>1, <2>2, <1>1, WithConditions DEF CreateFails
  <2> QED BY <2>1, <2>2
<1>7. BudgetType'
  BY <1>1, <1>4, SpendKeepsType DEF CreateSucceeds, CreateFails, BudgetType
<1>8. ThingsType' /\ HostsKnown' /\ MadeFor(cur)
  <2>1. CASE CreateSucceeds
    <3>1. store' = Entered /\ group' \in {group, GroupMade} /\ scriptFile' = scriptFile
      BY <2>1 DEF CreateSucceeds, cloud
    <3>2. \/ host' = host /\ result' = result
          \/ /\ host' = [host EXCEPT ![Name[cur]] = "up"]
             /\ \E r \in {"none", "void"} : result' = [result EXCEPT ![Name[cur]] = r]
      BY <2>1 DEF CreateSucceeds, ScriptOutcomes, cloud
    <3>3. /\ store' \in [Names -> BOOLEAN]
          /\ \A n \in Names : store'[n] <=> store[n] \/ n = Name[cur]
      BY <3>1, <1>1 DEF TypeOK, Entered
    <3>4. /\ host' \in [Names -> HostStates] /\ result' \in [Names -> Results]
          /\ \A n \in Names : n # Name[cur] => host'[n] = host[n]
      BY <3>2, <1>1 DEF TypeOK, HostStates, Results
    <3>5. /\ group' \in [Groups -> BOOLEAN]
          /\ \A g \in Groups :
               group'[g] => group[g] \/ (Driver[cur] = "azure" /\ g = GetResourceGroupName(cur))
      BY <3>1, <1>1 DEF TypeOK, GroupMade
    <3>6. HostsKnown'
      BY <3>3, <3>4, <1>1 DEF HostsKnown
    <3> QED BY <3>1, <3>3, <3>4, <3>5, <3>6, <1>1 DEF ThingsType, MadeFor, TypeOK
  <2>2. CASE CreateFails
    <3>1. PICK c \in CutShort : store' = c[1] /\ host' = c[2] /\ group' = c[3]
      BY <2>2 DEF CreateFails
    <3>2. UNCHANGED <<result, scriptFile>>
      BY <2>2 DEF CreateFails
    <3>3. /\ store' \in [Names -> BOOLEAN] /\ host' \in [Names -> HostStates]
          /\ group' \in [Groups -> BOOLEAN]
          /\ \A n \in Names : store'[n] => store[n] \/ n = Name[cur]
          /\ DiskSurvives => \A n \in Names : host'[n] # "none" => store'[n]
          /\ \A g \in Groups :
               group'[g] => group[g] \/ (Driver[cur] = "azure" /\ g = GetResourceGroupName(cur))
      BY <3>1, <1>1, CutShortType
    <3>4. ThingsType'
      BY <3>2, <3>3, <1>1 DEF ThingsType, TypeOK
    <3>5. MadeFor(cur)
      BY <3>2, <3>3 DEF MadeFor
    <3>6. HostsKnown'
      BY <3>3 DEF HostsKnown
    <3> QED BY <3>2, <3>4, <3>5, <3>6
  <2> QED BY <2>1, <2>2
<1> QED BY <1>1, <1>2, <1>3, <1>6, <1>7, <1>8, WorkStepKeeps
       DEF KindStep, PcStates, Building, Terminating, TypeOK

\* isScriptFinished and the skipped createMachine change no host and no script
\* file.
LEMMA ScriptCheckKeeps ==
  ASSUME IInv, SkipCreation \/ ScriptNotDue \/ ScpFails \/ ScpSucceeds
               \/ ReadFails \/ ReadResult
  PROVE  IInv'
<1>1. /\ TypeOK /\ BudgetType /\ cur \in Machines /\ mobj \in Objects /\ seen \in Nat
      /\ mobj.conds \in Conditions /\ Name[cur] \in Names
  BY ConstantsAssumption
     DEF IInv, TypeOK, BudgetType, Objects, SkipCreation, ScriptNotDue, ScpFails,
         ScpSucceeds, ReadFails, ReadResult
<1>2. /\ cur' = cur /\ UNCHANGED <<hist, seen, host, result, store, scriptFile, group>>
      /\ pc' \in {"script", "final", "read", "requeue"}
  BY DEF SkipCreation, ScriptNotDue, ScpFails, ScpSucceeds, ReadFails, ReadResult, disk, cloud
<1>3. /\ "WaitingForScriptCompletion" \in Reasons /\ "ClusterOperationFailed" \in Reasons
      /\ "fault" \in Disturbances
  BY DEF Reasons, Disturbances
<1>4. BudgetType'
  <2>1. CASE Spend("fault")
    BY <2>1, <1>1, <1>3, SpendKeepsType
  <2>2. CASE UNCHANGED budget
    BY <2>2, <1>1 DEF BudgetType
  <2> QED BY <2>1, <2>2
        DEF SkipCreation, ScriptNotDue, ScpFails, ScpSucceeds, ReadFails, ReadResult
<1>5. resultFile' \in Results
  BY <1>1 DEF SkipCreation, ScriptNotDue, ScpFails, ScpSucceeds, ReadFails, ReadResult,
              disk, TypeOK, Results
<1>6. mobj' \in Objects
  <2>1. CASE UNCHANGED mobj
    BY <2>1, <1>1
  <2>2. CASE ScpFails
    <3>1. MarkFalse(mobj.conds, "ClusterOperationComplete", "WaitingForScriptCompletion") \in Conditions
      BY <1>1, <1>3, MarkType
    <3> QED BY <3>1, <2>2, <1>1, WithConditions DEF ScpFails
  <2>3. CASE ReadResult
    <3>1. Verdict(mobj.conds) \in Conditions
      BY <1>1, <1>3, MarkType DEF Verdict
    <3> QED BY <3>1, <2>3, <1>1, WithConditions DEF ReadResult
  <2> QED BY <2>1, <2>2, <2>3 DEF SkipCreation, ScriptNotDue, ScpSucceeds, ReadFails
<1> QED BY <1>1, <1>2, <1>4, <1>5, <1>6, StatusStepKeeps
       DEF KindStep, PcStates, Building, Terminating, TypeOK

\* The cleanup takes away the host and the script of the current Machine, and its
\* resource group: RemoveFinalizer is reached without any of them.
LEMMA CleanupKeeps ==
  ASSUME IInv, DeleteDockerMachine \/ CleanupAWSResources \/ DeleteAzureResourceGroup
  PROVE  IInv'
<1>1. /\ TypeOK /\ WorkerOK /\ HostsKnown /\ BudgetType /\ cur \in Machines /\ mobj \in Objects
      /\ seen \in Nat /\ Name[cur] \in Names /\ "fault" \in Disturbances
  BY ConstantsAssumption
     DEF IInv, TypeOK, BudgetType, Disturbances, DeleteDockerMachine,
         CleanupAWSResources, DeleteAzureResourceGroup
<1>2. cur' = cur /\ UNCHANGED <<hist, mobj, seen, resultFile>>
  BY DEF DeleteDockerMachine, CleanupAWSResources, DeleteAzureResourceGroup, disk
<1>3. BudgetType'
  BY <1>1, SpendKeepsType
     DEF DeleteDockerMachine, CleanupAWSResources, DeleteAzureResourceGroup, BudgetType
<1>4. CASE DeleteDockerMachine
  <2>1. /\ pc = "rm" /\ pc' \in {"cloud", "unfinalize", "requeue"}
        /\ pc' = "unfinalize" => Driver[cur] = "google"
        /\ group' = group /\ scriptFile' = [scriptFile EXCEPT ![cur] = "none"]
    BY <1>4 DEF DeleteDockerMachine, AfterRm
  <2>2. \/ /\ store' = [store EXCEPT ![Name[cur]] = FALSE]
           /\ HostsGo({Name[cur]})
        \/ /\ UNCHANGED <<store, host, result>>
           /\ pc' # "requeue" => ~store[Name[cur]]
    BY <1>4 DEF DeleteDockerMachine
  <2>3. /\ store' \in [Names -> BOOLEAN] /\ \A n \in Names : store'[n] => store[n]
        /\ host' \in [Names -> HostStates] /\ result' \in [Names -> Results]
        /\ HostsKnown'
        /\ pc' # "requeue" => ~store'[Name[cur]]
    <3>1. CASE UNCHANGED <<store, host, result>> /\ (pc' # "requeue" => ~store[Name[cur]])
      BY <3>1, <1>1 DEF TypeOK, HostsKnown
    <3>2. CASE store' = [store EXCEPT ![Name[cur]] = FALSE] /\ HostsGo({Name[cur]})
      <4>1. /\ store' \in [Names -> BOOLEAN] /\ ~store'[Name[cur]]
            /\ \A n \in Names : n # Name[cur] => store'[n] = store[n]
        BY <3>2, <1>1 DEF TypeOK
      <4>2. /\ host' \in [Names -> HostStates] /\ result' \in [Names -> Results]
            /\ \A n \in Names : host'[n] # "none" => host[n] # "none" /\ n # Name[cur]
        BY <3>2, <1>1 DEF TypeOK, HostsGo, HostStates, Results
      <4> QED BY <4>1, <4>2, <1>1 DEF HostsKnown
    <3> QED BY <2>2, <3>1, <3>2
  <2>4. /\ scriptFile' \in [Machines -> ScriptFiles]
        /\ \A m \in Machines : scriptFile'[m] # "none" => scriptFile[m] # "none"
        /\ scriptFile'[cur] = "none"
    BY <2>1, <1>1 DEF TypeOK, ScriptFiles
  <2>5. ThingsType' /\ NothingMade
    BY <2>1, <2>3, <2>4, <1>1 DEF ThingsType, NothingMade, TypeOK
  <2> QED BY <1>1, <1>2, <1>3, <2>1, <2>3, <2>4, <2>5, WorkStepKeeps
         DEF KindStep, PcStates, Building, Terminating, TypeOK
<1>5. CASE CleanupAWSResources \/ DeleteAzureResourceGroup
  <2> DEFINE g == GetResourceGroupName(cur)
  <2>1. /\ pc = "cloud" /\ pc' \in {"unfinalize", "requeue"}
        /\ UNCHANGED <<store, scriptFile>>
        /\ UNCHANGED <<host, result, group>> \/ GroupGoes(g)
        /\ pc' = "unfinalize" /\ Driver[cur] = "azure" => GroupGoes(g)
    BY <1>5 DEF CleanupAWSResources, DeleteAzureResourceGroup, disk, cloud
  <2>2. ~store'[Name[cur]] /\ scriptFile'[cur] = "none"
    BY <2>1, <1>1 DEF WorkerOK
  <2>3. g \in Groups
    BY <1>1, ConstantsAssumption DEF GetResourceGroupName
  <2>4. GroupGoes(g) => ~group'[g]
    BY <2>3, <1>1 DEF GroupGoes, TypeOK
  <2>5. ThingsType' /\ HostsKnown' /\ NothingMade
    <3>1. CASE UNCHANGED <<host, result, group>>
      BY <3>1, <2>1, <1>1, ThingsKept
    <3>2. CASE GroupGoes(g)
      <4>1. /\ group' \in [Groups -> BOOLEAN]
            /\ \A x \in Groups : group'[x] => group[x]
        BY <3>2, <2>3, <1>1 DEF GroupGoes, TypeOK
      <4>2. /\ host' \in [Names -> HostStates] /\ result' \in [Names -> Results]
            /\ \A n \in Names : host'[n] # "none" => host[n] # "none"
        BY <3>2, <1>1 DEF GroupGoes, HostsGo, TypeOK, HostStates, Results
      <4> QED BY <4>1, <4>2, <2>1, <1>1 DEF HostsKnown, ThingsType, NothingMade, TypeOK
    <3> QED BY <3>1, <3>2, <2>1
  <2> QED BY <1>1, <1>2, <1>3, <2>1, <2>2, <2>4, <2>5, WorkStepKeeps
         DEF KindStep, PcStates, Building, Terminating, TypeOK
<1> QED BY <1>4, <1>5

\* A Get that fails leads to requeueWithError, or nowhere.
LEMMA ReconcileGetFailsKeeps ==
  ASSUME IInv, ReconcileGetFails
  PROVE  IInv'
<1>1. TypeOK /\ HistoriesOK /\ WorkerOK /\ HostsKnown /\ ResourcesGuarded /\ BudgetType
  BY DEF IInv, TypeOK, BudgetType
<1>2. /\ UNCHANGED <<hist, cur, mobj, seen, host, result, store, resultFile, scriptFile, group>>
      /\ pc' = IF cur = NoMachine THEN "idle" ELSE "requeue"
  BY DEF ReconcileGetFails, disk, cloud
<1>3. BudgetType'
  BY <1>1, SpendKeepsType DEF ReconcileGetFails, Disturbances
<1>4. TypeOK'
  BY <1>1, <1>2, <1>3 DEF TypeOK, BudgetType, PcStates
<1>5. \A x \in Machines : Held(x)' <=> Held(x)
  BY <1>2 DEF Held, Api
<1>6. ResourcesGuarded' /\ HistoriesOK' /\ HostsKnown'
  BY <1>1, <1>2, <1>5 DEF ResourcesGuarded, HistoriesOK, HostsKnown
<1>7. WorkerOK'
  BY <1>1, <1>2 DEF WorkerOK, Building, Terminating
<1> QED BY <1>4, <1>6, <1>7 DEF IInv

\* The startup script touches nothing but its result.
LEMMA ScriptWritesKeeps ==
  ASSUME IInv, NEW n \in Names, ScriptWrites(n)
  PROVE  IInv'
<1>1. TypeOK /\ HistoriesOK /\ WorkerOK /\ HostsKnown /\ ResourcesGuarded
  BY DEF IInv
<1>2. UNCHANGED <<hist, cur, mobj, seen, pc, budget, host, store, resultFile, scriptFile, group>>
  BY DEF ScriptWrites, disk, cloud
<1>3. result' \in [Names -> Results]
  BY <1>1 DEF ScriptWrites, TypeOK, Results
<1>4. TypeOK'
  BY <1>1, <1>2, <1>3 DEF TypeOK
<1>5. HistoriesOK' /\ ResourcesGuarded' /\ HostsKnown'
  BY <1>1, <1>2 DEF HistoriesOK, ResourcesGuarded, HostsKnown, Held, Api
<1>6. WorkerOK'
  BY <1>1, <1>2 DEF WorkerOK, Held, Api
<1> QED BY <1>4, <1>5, <1>6 DEF IInv

\* A restart leaves every history with its current version alone; a host that it
\* leaves half made belongs to a held Machine.
LEMMA CrashKeeps ==
  ASSUME IInv, Crash
  PROVE  IInv'
<1>1. TypeOK /\ HistoriesOK /\ WorkerOK /\ HostsKnown /\ ResourcesGuarded /\ BudgetType /\ HistType
  BY DEF IInv, TypeOK, BudgetType, HistType
<1>2. /\ cur' = NoMachine /\ mobj' = Gone /\ seen' = 0 /\ pc' = "idle"
      /\ hist' = [m \in Machines |-> <<Api(m)>>] /\ result' = result
  BY DEF Crash
<1>3. BudgetType'
  BY <1>1, SpendKeepsType DEF Crash, Disturbances
<1>4. ASSUME NEW m \in Machines
      PROVE  /\ hist'[m] = <<Api(m)>> /\ Len(hist'[m]) = 1 /\ hist'[m][1] = Api(m)
             /\ hist'[m] \in Seq(Objects)
             /\ HistOK(hist'[m]) /\ Held(m)' = Held(m)
  <2>1. Api(m) \in Objects /\ Api(m) = LastOf(hist[m]) /\ HistOK(hist[m]) /\ Len(hist[m]) \in 1..Len(hist[m])
    BY <1>1, CurrentVersions DEF HistoriesOK
  <2>2. /\ hist'[m] = <<Api(m)>> /\ Len(hist'[m]) = 1 /\ hist'[m][1] = Api(m)
        /\ hist'[m] \in Seq(Objects)
    BY <2>1, <1>2
  <2>3. Api(m).del => HasFin(Api(m))
    BY <2>1 DEF HistOK, LastOf
  <2>4. HistOK(hist'[m])
    BY <2>2, <2>3, SingleVersion
  <2>5. Held(m)' = Held(m)
    BY <2>2 DEF Held, Api
  <2> QED BY <2>2, <2>4, <2>5
<1>5. HistType'
  <2>1. MaxLag \in Nat
    BY ConstantsAssumption
  <2>2. 1 \in 1..(MaxLag + 1)
    BY <2>1
  <2>3. \A m \in Machines : Len(hist'[m]) \in 1..(MaxLag + 1)
    BY <2>2, <1>4
  <2>4. hist' \in [Machines -> Seq(Objects)]
    BY <1>2, <1>4
  <2> QED BY <2>3, <2>4 DEF HistType
<1>6. /\ ThingsType' /\ HostsKnown'
      /\ NothingMade \/ (cur \in Machines /\ Held(cur) /\ MadeFor(cur))
  <2>1. PICK c \in IF pc = "create" THEN CutShort ELSE {<<store, host, group>>} :
          /\ store' = IF DiskSurvives THEN c[1] ELSE [n \in Names |-> FALSE]
          /\ host' = c[2]
          /\ group' = c[3]
    BY DEF Crash
  <2>2. PICK f \in IF pc = "args" THEN {scriptFile, ScriptCut, ScriptWritten} ELSE {scriptFile} :
          scriptFile' = IF DiskSurvives THEN f ELSE [m \in Machines |-> "none"]
    BY DEF Crash
  <2>3. CASE pc \in {"create", "args"}
    <3>1. cur \in Machines /\ Held(cur)
      BY <2>3, <1>1 DEF WorkerOK, TypeOK, Building
    <3>2. /\ c[1] \in [Names -> BOOLEAN]
          /\ c[2] \in [Names -> HostStates]
          /\ c[3] \in [Groups -> BOOLEAN]
          /\ \A n \in Names : c[1][n] => store[n] \/ n = Name[cur]
          /\ DiskSurvives => \A n \in Names : c[2][n] # "none" => c[1][n]
          /\ \A g \in Groups :
               c[3][g] => group[g] \/ (Driver[cur] = "azure" /\ g = GetResourceGroupName(cur))
      <4>1. CASE c \in CutShort
        BY <4>1, <3>1, <1>1, CutShortType
      <4>2. CASE c = <<store, host, group>>
        BY <4>2, <1>1 DEF TypeOK, HostsKnown
      <4> QED BY <4>1, <4>2, <2>1
    <3>3. /\ f \in [Machines -> ScriptFiles]
          /\ \A x \in Machines : x # cur => f[x] = scriptFile[x]
      BY <2>2, <3>1, <1>1 DEF TypeOK, ScriptFiles, ScriptCut, ScriptWritten
    <3>4. ThingsType'
      BY <3>2, <3>3, <2>1, <2>2, <1>1, <1>2 DEF ThingsType, TypeOK, ScriptFiles
    <3>5. HostsKnown'
      BY <3>2, <2>1 DEF HostsKnown
    <3>6. MadeFor(cur)
      BY <3>2, <3>3, <2>1, <2>2 DEF MadeFor
    <3> QED BY <3>1, <3>4, <3>5, <3>6
  <2>4. CASE pc \notin {"create", "args"}
    <3>1. c = <<store, host, group>> /\ f = scriptFile
      BY <2>1, <2>2, <2>4
    <3>2. /\ store' \in {store, [n \in Names |-> FALSE]} /\ host' = host /\ group' = group
          /\ scriptFile' \in {scriptFile, [m \in Machines |-> "none"]}
          /\ DiskSurvives => store' = store
      BY <3>1, <2>1, <2>2
    <3> QED BY <3>2, <1>1, <1>2 DEF ThingsType, HostsKnown, NothingMade, TypeOK, ScriptFiles
  <2> QED BY <2>3, <2>4
<1>7. resultFile' \in Results
  BY <1>1 DEF Crash, TypeOK, Results
<1>8. TypeOK'
  BY <1>1, <1>2, <1>3, <1>5, <1>6, <1>7, GoneType DEF TypeOK, HistType, BudgetType, ThingsType, PcStates
<1>9. HistoriesOK'
  BY <1>4 DEF HistoriesOK
<1>10. ResourcesGuarded'
  BY <1>1, <1>4, <1>6, GuardKept
<1>11. WorkerOK'
  BY <1>2 DEF WorkerOK, Building, Terminating
<1> QED BY <1>6, <1>8, <1>9, <1>10, <1>11 DEF IInv

-----------------------------------------------------------------------------
(* The theorems.                                                           *)

\* The invariant holds when the operator starts for the first time.
LEMMA InitHolds == Init => IInv
<1> SUFFICES ASSUME Init PROVE IInv
  OBVIOUS
<1>1. MaxLag \in Nat /\ Budget \in [Disturbances -> Nat]
  BY ConstantsAssumption
<1>2. \A m \in Machines : hist[m] = <<Gone>> /\ Len(hist[m]) = 1 /\ hist[m][1] = Gone
  BY DEF Init
<1>3. TypeOK
  <2>1. hist \in [Machines -> Seq(Objects)]
    BY GoneType DEF Init
  <2>2. 1 \in 1..(MaxLag + 1)
    BY <1>1
  <2>3. \A m \in Machines : Len(hist[m]) \in 1..(MaxLag + 1)
    BY <2>2, <1>2
  <2> QED BY <2>1, <2>3, <1>1, GoneType DEF Init, TypeOK, PcStates, Results, HostStates, ScriptFiles
<1>4. ~Gone.del /\ ~Gone.ex
  BY DEF Gone
<1>5. HistoriesOK
  BY <1>2, <1>4, SingleVersion DEF HistoriesOK
<1>6. WorkerOK /\ HostsKnown /\ ResourcesGuarded
  BY DEF Init, WorkerOK, HostsKnown, ResourcesGuarded, Building, Terminating
<1> QED BY <1>3, <1>5, <1>6 DEF IInv

\* Every step of the system preserves the invariant.
LEMMA StepKeeps == IInv /\ [Next]_vars => IInv'
<1> SUFFICES ASSUME IInv, [Next]_vars PROVE IInv'
  OBVIOUS
<1>1. CASE WorkerStep
  BY <1>1, StatusActionsKeep, EnsureFinalizerKeeps, ScriptCheckKeeps, PreparationKeeps,
     CreateKeeps, CleanupKeeps, RemoveFinalizerKeeps DEF WorkerStep
<1>2. CASE \E m \in Machines : \/ Deliver(m) \/ Reconcile(m)
                               \/ UserCreate(m) \/ UserEdit(m) \/ UserDelete(m)
  BY <1>2, DeliverKeeps, ReconcileKeeps, UserCreateKeeps, UserEditKeeps, UserDeleteKeeps
<1>3. CASE \E n \in Names : ScriptWrites(n)
  BY <1>3, ScriptWritesKeeps
<1>4. CASE ReconcileGetFails
  BY <1>4, ReconcileGetFailsKeeps
<1>5. CASE Crash
  BY <1>5, CrashKeeps
<1>6. CASE UNCHANGED vars
  BY <1>6 DEF vars, IInv, TypeOK, HistoriesOK, WorkerOK, HostsKnown, ResourcesGuarded, Held, Api
<1> QED BY <1>1, <1>2, <1>3, <1>4, <1>5, <1>6 DEF Next

\* The inductive invariant holds in every state that the operator, its users and
\* its restarts can bring about.
THEOREM InvariantHolds == Spec => []IInv
BY InitHolds, StepKeeps, PTL DEF Spec

\* Every variable keeps its type; in particular no history grows past MaxLag + 1
\* and a reconcile under way always has a Machine.
THEOREM TypeCorrect == Spec => []TypeOK
<1>1. IInv => TypeOK
  BY DEF IInv
<1> QED BY <1>1, InvariantHolds, PTL

\* The hosts and script files that createMachine makes are always covered by the
\* finalizer of a Machine, so that no deletion can pass the cleanup by - however
\* stale the cache, whatever fails, and whenever the operator restarts.
THEOREM FinalizerGuards == Spec => []ResourcesGuarded
<1>1. IInv => ResourcesGuarded
  BY DEF IInv
<1> QED BY <1>1, InvariantHolds, PTL
=============================================================================
