--------------------------- MODULE WorkQueueProofs ---------------------------
(***************************************************************************)
(* The safety of the queue, for any Machines, workers and restarts.        *)
(*                                                                         *)
(* Neither QueueIsExact nor OneReconcileAtATime is inductive by itself.    *)
(* That an item is pushed only when no worker has it needs processing to   *)
(* be what the workers have; that a worker takes an item nobody else has   *)
(* needs the queue to hold nothing that is being processed.                *)
(***************************************************************************)
EXTENDS WorkQueue, TLAPS

\* processing is the set of what the workers have.
ProcessingIsExact == processing = {item[w] : w \in Busy}

Inv ==
  /\ TypeOK
  /\ QueueIsExact
  /\ ProcessingIsExact
  /\ OneReconcileAtATime
  /\ NothingIsLost

-----------------------------------------------------------------------------
(* Append puts one item behind the others: a queue without duplicates that  *)
(* does not hold the item has none afterwards (the push of Add and Done).   *)
LEMMA Pushed ==
  ASSUME NEW i \in Items, queue \in Seq(Items), queue' = Append(queue, i),
         \A j, k \in 1 .. Len(queue) : queue[j] = queue[k] => j = k,
         i \notin Queued
  PROVE  /\ queue' \in Seq(Items)
         /\ \A j, k \in 1 .. Len(queue') : queue'[j] = queue'[k] => j = k
         /\ Queued' = Queued \cup {i}
<1>1. /\ queue' \in Seq(Items)
      /\ Len(queue') = Len(queue) + 1
      /\ \A k \in 1 .. Len(queue) : queue'[k] = queue[k]
      /\ queue'[Len(queue) + 1] = i
      /\ Len(queue) \in Nat
  OBVIOUS
<1>2. \A k \in 1 .. Len(queue') : k \in 1 .. Len(queue) \/ k = Len(queue) + 1
  BY <1>1
<1>3. \A j, k \in 1 .. Len(queue') : queue'[j] = queue'[k] => j = k
  <2>1. SUFFICES ASSUME NEW j \in 1 .. Len(queue'), NEW k \in 1 .. Len(queue'), queue'[j] = queue'[k]
                 PROVE  j = k
    OBVIOUS
  <2>2. CASE j \in 1 .. Len(queue) /\ k \in 1 .. Len(queue)
    BY <1>1, <2>1, <2>2
  <2>3. CASE j \in 1 .. Len(queue) /\ k = Len(queue) + 1
    BY <1>1, <2>1, <2>3 DEF Queued
  <2>4. CASE j = Len(queue) + 1 /\ k \in 1 .. Len(queue)
    BY <1>1, <2>1, <2>4 DEF Queued
  <2>. QED  BY <1>2, <2>2, <2>3, <2>4
<1>4. Queued' = Queued \cup {i}
  <2>1. \A x \in Queued' : x \in Queued \cup {i}
    BY <1>1, <1>2 DEF Queued
  <2>2. \A x \in Queued : x \in Queued'
    BY <1>1 DEF Queued
  <2>3. i \in Queued'
    BY <1>1 DEF Queued
  <2>. QED  BY <2>1, <2>2, <2>3
<1>. QED  BY <1>1, <1>3, <1>4

(* Get takes the oldest item, and no other copy of it is left behind.       *)
LEMMA Taken ==
  ASSUME queue \in Seq(Items), queue # <<>>, queue' = Tail(queue),
         \A j, k \in 1 .. Len(queue) : queue[j] = queue[k] => j = k
  PROVE  /\ queue' \in Seq(Items)
         /\ \A j, k \in 1 .. Len(queue') : queue'[j] = queue'[k] => j = k
         /\ Head(queue) \in Queued
         /\ Queued' = Queued \ {Head(queue)}
<1>1. /\ queue' \in Seq(Items)
      /\ Len(queue) \in Nat
      /\ Len(queue) > 0
      /\ Len(queue') = Len(queue) - 1
      /\ \A k \in 1 .. Len(queue') : queue'[k] = queue[k + 1]
      /\ Head(queue) = queue[1]
  OBVIOUS
<1>2. \A k \in 1 .. Len(queue') : k + 1 \in 1 .. Len(queue)
  BY <1>1
<1>3. \A j, k \in 1 .. Len(queue') : queue'[j] = queue'[k] => j = k
  <2>1. SUFFICES ASSUME NEW j \in 1 .. Len(queue'), NEW k \in 1 .. Len(queue'), queue'[j] = queue'[k]
                 PROVE  j = k
    OBVIOUS
  <2>2. queue[j + 1] = queue[k + 1]
    BY <1>1, <2>1
  <2>3. j + 1 = k + 1
    BY <1>2, <2>1, <2>2
  <2>. QED  BY <2>1, <2>3
<1>4. Queued' = Queued \ {Head(queue)}
  <2>1. \A x \in Queued' : x \in Queued /\ x # queue[1]
    <3>1. SUFFICES ASSUME NEW k \in 1 .. Len(queue') PROVE queue'[k] \in Queued /\ queue'[k] # queue[1]
      BY DEF Queued
    <3>2. k + 1 # 1 /\ 1 \in 1 .. Len(queue)
      BY <1>1, <3>1
    <3>. QED  BY <1>1, <1>2, <3>1, <3>2 DEF Queued
  <2>2. \A x \in Queued : x # queue[1] => x \in Queued'
    <3>1. SUFFICES ASSUME NEW k \in 1 .. Len(queue), queue[k] # queue[1] PROVE queue[k] \in Queued'
      BY DEF Queued
    <3>2. k - 1 \in 1 .. Len(queue') /\ (k - 1) + 1 = k
      BY <1>1, <3>1
    <3>3. queue'[k - 1] = queue[k]
      BY <1>1, <3>2
    <3>. QED  BY <3>2, <3>3 DEF Queued
  <2>. QED  BY <1>1, <2>1, <2>2
<1>5. Head(queue) \in Queued
  BY <1>1 DEF Queued
<1>. QED  BY <1>1, <1>3, <1>4, <1>5

-----------------------------------------------------------------------------
(* Add keeps the queue exact whoever calls it: the event handler or the     *)
(* loop of the delayed adds.                                                *)
LEMMA AddKeeps ==
  ASSUME Inv, NEW i \in Items, Add(i)
  PROVE  queue' \in Seq(Items) /\ dirty' \in SUBSET Items /\ QueueIsExact' /\ i \in dirty' /\ dirty \subseteq dirty'
<1>. USE DEF Inv, TypeOK, Add
<1>1. CASE i \in dirty \cup processing
  BY <1>1 DEF QueueIsExact, Queued
<1>2. CASE i \notin dirty \cup processing
  <2>1. i \notin Queued
    BY <1>2 DEF QueueIsExact
  <2>2. /\ queue' \in Seq(Items)
        /\ \A j, k \in 1 .. Len(queue') : queue'[j] = queue'[k] => j = k
        /\ Queued' = Queued \cup {i}
    BY <1>2, <2>1, Pushed DEF QueueIsExact
  <2>. QED  BY <1>2, <2>2 DEF QueueIsExact
<1>. QED  BY <1>1, <1>2

(* Init satisfies the invariant: what was listed is notified.               *)
LEMMA InitInv == Init => Inv
BY ConstantsOK DEF Init, Inv, TypeOK, Stages, QueueIsExact, Queued, ProcessingIsExact, Busy,
  OneReconcileAtATime, NothingIsLost

(* Every step keeps the invariant, whichever goroutine takes it.            *)
LEMMA StepInv == Inv /\ [Next]_vars => Inv'
<1>. SUFFICES ASSUME Inv, [Next]_vars PROVE Inv'
  OBVIOUS
<1>. USE ConstantsOK
<1>1. CASE UNCHANGED vars
  <2>1. TypeOK'
    BY <1>1 DEF Inv, vars, TypeOK
  <2>2. QueueIsExact'
    BY <1>1 DEF Inv, vars, QueueIsExact, Queued
  <2>3. ProcessingIsExact' /\ OneReconcileAtATime'
    BY <1>1 DEF Inv, vars, ProcessingIsExact, OneReconcileAtATime, Busy
  <2>4. NothingIsLost'
    BY <1>1 DEF Inv, vars, NothingIsLost
  <2>. QED  BY <2>1, <2>2, <2>3, <2>4 DEF Inv
<1>2. ASSUME NEW i \in Items, CacheChanges(i) \/ Resync(i) PROVE Inv'
  <2>1. UNCHANGED <<queue, dirty, processing, waiting, item, stage, crashes>>
    BY <1>2 DEF CacheChanges, Resync
  <2>2. TypeOK'
    BY <1>2, <2>1 DEF Inv, TypeOK, CacheChanges, Resync
  <2>3. QueueIsExact' /\ ProcessingIsExact' /\ OneReconcileAtATime'
    BY <2>1 DEF Inv, QueueIsExact, Queued, ProcessingIsExact, Busy, OneReconcileAtATime
  <2>4. NothingIsLost'
    BY <1>2, <2>1 DEF Inv, NothingIsLost, CacheChanges, Resync
  <2>. QED  BY <2>2, <2>3, <2>4 DEF Inv
<1>3. ASSUME NEW i \in Items, Notify(i) \/ DelayIsOver(i) PROVE Inv'
  <2>1. Add(i) /\ UNCHANGED <<cached, processing, item, stage, due, crashes>>
    BY <1>3 DEF Notify, DelayIsOver, Add
  <2>2. queue' \in Seq(Items) /\ dirty' \in SUBSET Items /\ QueueIsExact' /\ i \in dirty' /\ dirty \subseteq dirty'
    BY <2>1, AddKeeps
  <2>3. TypeOK'
    BY <1>3, <2>1, <2>2 DEF Inv, TypeOK, Notify, DelayIsOver
  <2>4. ProcessingIsExact' /\ OneReconcileAtATime'
    BY <2>1 DEF Inv, ProcessingIsExact, Busy, OneReconcileAtATime
  <2>5. NothingIsLost'
    BY <1>3, <2>1, <2>2 DEF Inv, NothingIsLost, Notify, DelayIsOver
  <2>. QED  BY <2>2, <2>3, <2>4, <2>5 DEF Inv
<1>4. ASSUME NEW w \in Workers, Get(w) PROVE Inv'
  <2>. DEFINE h == Head(queue)
  <2>1. /\ queue' \in Seq(Items)
        /\ \A j, k \in 1 .. Len(queue') : queue'[j] = queue'[k] => j = k
        /\ h \in Queued
        /\ Queued' = Queued \ {h}
    BY <1>4, Taken DEF Inv, TypeOK, QueueIsExact, Get
  <2>2. h \in Items /\ h \in dirty /\ h \notin processing
    BY <2>1 DEF Inv, TypeOK, QueueIsExact
  <2>3. /\ processing' = processing \cup {h}
        /\ dirty' = dirty \ {h}
        /\ item' = [item EXCEPT ![w] = h]
        /\ stage' = [stage EXCEPT ![w] = "taken"]
        /\ stage[w] = "idle"
        /\ UNCHANGED <<cached, events, waiting, due, crashes>>
    BY <1>4 DEF Get
  <2>. HIDE DEF h
  <2>4. TypeOK'
    BY <2>1, <2>2, <2>3 DEF Inv, TypeOK, Stages
  <2>5. QueueIsExact'
    BY <2>1, <2>2, <2>3 DEF Inv, QueueIsExact
  <2>6. Busy' = Busy \cup {w} /\ w \notin Busy
    BY <2>3 DEF Inv, TypeOK, Busy
  <2>7. ProcessingIsExact'
    BY <2>3, <2>6 DEF Inv, TypeOK, ProcessingIsExact, Busy
  <2>8. OneReconcileAtATime'
    BY <2>2, <2>3, <2>6 DEF Inv, TypeOK, ProcessingIsExact, OneReconcileAtATime, Busy
  <2>9. NothingIsLost'
    <3>1. SUFFICES ASSUME NEW i \in due', i \notin events' \cup waiting' \cup dirty'
                   PROVE  \E v \in Workers : stage'[v] \in {"taken", "unread"} /\ item'[v] = i
      BY DEF NothingIsLost
    <3>2. CASE i = h
      BY <2>3, <3>2 DEF Inv, TypeOK
    <3>3. CASE i # h
      <4>1. PICK v \in Workers : stage[v] \in {"taken", "unread"} /\ item[v] = i
        BY <2>3, <3>1, <3>3 DEF Inv, NothingIsLost
      <4>. QED  BY <2>3, <4>1 DEF Inv, TypeOK
    <3>. QED  BY <3>2, <3>3
  <2>. QED  BY <2>4, <2>5, <2>7, <2>8, <2>9 DEF Inv
<1>5. ASSUME NEW w \in Workers, Read(w) \/ Succeed(w) \/ TryAgain(w) PROVE Inv'
  <2>1. /\ UNCHANGED <<cached, events, queue, dirty, processing, item, crashes>>
        /\ stage[w] \in {"taken", "unread", "running"}
        /\ \E s \in {"unread", "running", "over"} : stage' = [stage EXCEPT ![w] = s]
    BY <1>5 DEF Read, Succeed, TryAgain
  <2>2. item[w] \in Items
    BY <2>1 DEF Inv, TypeOK
  <2>3. TypeOK'
    BY <1>5, <2>1, <2>2 DEF Inv, TypeOK, Stages, Read, Succeed, TryAgain
  <2>4. QueueIsExact'
    BY <2>1 DEF Inv, QueueIsExact, Queued
  <2>5. Busy' = Busy
    BY <2>1 DEF Inv, TypeOK, Busy
  <2>6. ProcessingIsExact' /\ OneReconcileAtATime'
    BY <2>1, <2>5 DEF Inv, ProcessingIsExact, OneReconcileAtATime
  <2>7. NothingIsLost'
    <3>1. SUFFICES ASSUME NEW i \in due', i \notin events' \cup waiting' \cup dirty'
                   PROVE  \E v \in Workers : stage'[v] \in {"taken", "unread"} /\ item'[v] = i
      BY DEF NothingIsLost
    <3>2. i \in due /\ waiting \subseteq waiting'
      BY <1>5, <3>1 DEF Read, Succeed, TryAgain
    <3>3. PICK v \in Workers : stage[v] \in {"taken", "unread"} /\ item[v] = i
      BY <2>1, <3>1, <3>2 DEF Inv, NothingIsLost
    <3>4. CASE v # w
      BY <2>1, <3>3, <3>4 DEF Inv, TypeOK
    <3>5. CASE v = w
      <4>1. stage' = [stage EXCEPT ![w] = "unread"]
        BY <1>5, <3>1, <3>3, <3>5 DEF Read, Succeed, TryAgain
      <4>. QED  BY <2>1, <3>3, <3>5, <4>1 DEF Inv, TypeOK
    <3>. QED  BY <3>4, <3>5
  <2>. QED  BY <2>3, <2>4, <2>6, <2>7 DEF Inv
<1>6. ASSUME NEW w \in Workers, Done(w) PROVE Inv'
  <2>. DEFINE i == item[w]
  <2>1. /\ stage[w] = "over"
        /\ processing' = processing \ {i}
        /\ queue' = IF i \in dirty THEN Append(queue, i) ELSE queue
        /\ item' = [item EXCEPT ![w] = NoItem]
        /\ stage' = [stage EXCEPT ![w] = "idle"]
        /\ UNCHANGED <<cached, events, dirty, waiting, due, crashes>>
    BY <1>6 DEF Done
  <2>2. i \in Items /\ w \in Busy /\ i \in processing
    BY <2>1 DEF Inv, TypeOK, Busy, ProcessingIsExact
  <2>3. i \notin Queued
    BY <2>2 DEF Inv, QueueIsExact
  <2>. HIDE DEF i
  <2>4. queue' \in Seq(Items) /\ QueueIsExact'
    <3>1. CASE i \in dirty
      <4>1. /\ queue' \in Seq(Items)
            /\ \A j, k \in 1 .. Len(queue') : queue'[j] = queue'[k] => j = k
            /\ Queued' = Queued \cup {i}
        BY <2>1, <2>2, <2>3, <3>1, Pushed DEF Inv, TypeOK, QueueIsExact
      <4>. QED  BY <2>1, <2>2, <3>1, <4>1 DEF Inv, QueueIsExact
    <3>2. CASE i \notin dirty
      BY <2>1, <3>2 DEF Inv, TypeOK, QueueIsExact, Queued
    <3>. QED  BY <3>1, <3>2
  <2>5. TypeOK'
    BY <2>1, <2>4 DEF Inv, TypeOK, Stages
  <2>6. Busy' = Busy \ {w}
    BY <2>1 DEF Inv, TypeOK, Busy
  <2>7. \A v \in Busy' : item'[v] = item[v] /\ item[v] # i
    BY <2>1, <2>2, <2>6 DEF Inv, TypeOK, OneReconcileAtATime, Busy, i
  <2>8. \A v \in Busy : v = w \/ v \in Busy'
    BY <2>6
  <2>9. ProcessingIsExact'
    BY <2>1, <2>6, <2>7, <2>8 DEF Inv, ProcessingIsExact, i
  <2>10. OneReconcileAtATime'
    BY <2>6, <2>7 DEF Inv, OneReconcileAtATime
  <2>11. NothingIsLost'
    <3>1. SUFFICES ASSUME NEW j \in due', j \notin events' \cup waiting' \cup dirty'
                   PROVE  \E v \in Workers : stage'[v] \in {"taken", "unread"} /\ item'[v] = j
      BY DEF NothingIsLost
    <3>2. PICK v \in Workers : stage[v] \in {"taken", "unread"} /\ item[v] = j
      BY <2>1, <3>1 DEF Inv, NothingIsLost
    <3>. QED  BY <2>1, <3>2 DEF Inv, TypeOK
  <2>. QED  BY <2>4, <2>5, <2>9, <2>10, <2>11 DEF Inv
<1>7. CASE Restart
  <2>1. TypeOK'
    BY <1>7 DEF Inv, TypeOK, Stages, Restart
  <2>2. QueueIsExact'
    BY <1>7 DEF Restart, QueueIsExact, Queued
  <2>3. Busy' = {}
    BY <1>7 DEF Restart, Busy
  <2>. QED  BY <1>7, <2>1, <2>2, <2>3 DEF Inv, Restart, ProcessingIsExact, OneReconcileAtATime, NothingIsLost
<1>. QED  BY <1>1, <1>2, <1>3, <1>4, <1>5, <1>6, <1>7 DEF Next, Work

(* Whatever the cache, the workers and the outcomes of Reconcile do: the    *)
(* queue holds each Machine that is marked and not being processed once, no *)
(* two workers have the same Machine, and no reason to reconcile is lost.   *)
THEOREM QueueInvariant == Spec => []Inv
<1>1. Inv /\ [Next]_vars => Inv'
  BY StepInv
<1>. QED  BY InitInv, <1>1, PTL DEF Spec

(* The queue, its sets and the workers keep their types.                    *)
THEOREM QueueTyped == Spec => []TypeOK
BY QueueInvariant, PTL DEF Inv

(* The comment of Typed.queue holds for any Items and Workers.              *)
THEOREM QueueStaysExact == Spec => []QueueIsExact
BY QueueInvariant, PTL DEF Inv

(* The comment of the worker loop holds for any number of workers.          *)
THEOREM NeverTwoReconciles == Spec => []OneReconcileAtATime
BY QueueInvariant, PTL DEF Inv

(* De-duplication and restarts lose no reason to reconcile.                 *)
THEOREM NoReasonIsLost == Spec => []NothingIsLost
BY QueueInvariant, PTL DEF Inv
=============================================================================
