------------------------------ MODULE WorkQueue ------------------------------
(***************************************************************************)
(* How the Machine controller is scheduled: the informer's notifications,  *)
(* the queue of controller-runtime (the one of client-go, with its delayed *)
(* adds) and the workers that call Reconcile.                              *)
(*                                                                         *)
(* Reconcile itself is reduced to what the queue sees of it: it reads the  *)
(* cache first, and returns a success, an error or a wish to be called     *)
(* again.  MachineController has the rest, and assumes of the queue what   *)
(* is shown here: a Machine that is in the cache is reconciled again and   *)
(* again, and never by two workers at a time.                              *)
(***************************************************************************)
EXTENDS Integers, Sequences

CONSTANTS
  Items,        \* the Machines, by namespace and name
  Workers,      \* MaxConcurrentReconciles of them; the operator runs one
  NoItem,       \* an idle worker's item
  MaxCrashes    \* bound: restarts of the operator

ASSUME ConstantsOK == NoItem \notin Items /\ MaxCrashes \in Nat

VARIABLES
  cached,       \* the Machines in the informer's store
  events,       \* the Machines with a notification on its way to the handler
  queue,        \* Typed.queue
  dirty,        \* Typed.dirty
  processing,   \* Typed.processing
  waiting,      \* the delayed adds, of AddAfter and AddRateLimited
  item,         \* the item each worker has taken from the queue
  stage,        \* how far each worker is with it
  due,          \* history: a reason to reconcile arose and no read followed
  crashes       \* restarts that may still happen

vars == <<cached, events, queue, dirty, processing, waiting, item, stage, due, crashes>>

Stages == {"idle", "taken", "unread", "running", "over"}

Queued == {queue[k] : k \in 1 .. Len(queue)}
Busy == {w \in Workers : stage[w] # "idle"}

TypeOK ==
  /\ cached \in SUBSET Items
  /\ events \in SUBSET Items
  /\ queue \in Seq(Items)
  /\ dirty \in SUBSET Items
  /\ processing \in SUBSET Items
  /\ waiting \in SUBSET Items
  /\ item \in [Workers -> Items \cup {NoItem}]
  /\ stage \in [Workers -> Stages]
  /\ \A w \in Workers : item[w] = NoItem <=> stage[w] = "idle"
  /\ due \in SUBSET Items
  /\ crashes \in 0 .. MaxCrashes

-----------------------------------------------------------------------------
(* A process starts: its informer lists the objects there are, and the      *)
(* handler is told of each of them.                                         *)
Init ==
  /\ crashes = MaxCrashes
  /\ cached \in SUBSET Items
  /\ events = cached
  /\ due = cached
  /\ queue = <<>>
  /\ dirty = {}
  /\ processing = {}
  /\ waiting = {}
  /\ item = [w \in Workers |-> NoItem]
  /\ stage = [w \in Workers |-> "idle"]

(* The watch delivers a change of i to the store: it is there, or there no  *)
(* more.  Every change is notified.                                         *)
CacheChanges(i) ==
  /\ \/ cached' = cached \cup {i}
     \/ i \in cached /\ cached' = cached \ {i}
  /\ events' = events \cup {i}
  /\ due' = due \cup {i}
  /\ UNCHANGED <<queue, dirty, processing, waiting, item, stage, crashes>>

\* Every syncPeriod, what is in the store is notified once more.
Resync(i) ==
  /\ i \in cached
  /\ events' = events \cup {i}
  /\ UNCHANGED <<cached, queue, dirty, processing, waiting, item, stage, due, crashes>>

-----------------------------------------------------------------------------
(* The queue.                                                               *)

\* Bug: an item that is being processed is not even marked.
Add_Ignored(i) ==
  /\ dirty' = IF i \in processing THEN dirty ELSE dirty \cup {i}
  /\ queue' = IF i \in dirty \cup processing THEN queue ELSE Append(queue, i)
  /\ UNCHANGED processing

\* An item that is being processed is only marked.
Add(i) ==
  /\ dirty' = dirty \cup {i}
  /\ queue' = IF i \in dirty \cup processing THEN queue ELSE Append(queue, i)
  /\ UNCHANGED processing

\* The event handler enqueues the name of the object it is told of.
Notify(i) ==
  /\ i \in events
  /\ events' = events \ {i}
  /\ Add(i)
  /\ UNCHANGED <<cached, waiting, item, stage, due, crashes>>

\* The delay of a delayed add is over.
DelayIsOver(i) ==
  /\ i \in waiting
  /\ waiting' = waiting \ {i}
  /\ Add(i)
  /\ UNCHANGED <<cached, events, item, stage, due, crashes>>

\* Bug: the item is not marked as being processed.
Get_NotMarked(w) ==
  /\ stage[w] = "idle"
  /\ queue # <<>>
  /\ queue' = Tail(queue)
  /\ dirty' = dirty \ {Head(queue)}
  /\ item' = [item EXCEPT ![w] = Head(queue)]
  /\ stage' = [stage EXCEPT ![w] = "taken"]
  /\ UNCHANGED <<cached, processing, events, waiting, due, crashes>>

\* Bug: the youngest item is taken first.
Get_Youngest(w) ==
  /\ stage[w] = "idle"
  /\ queue # <<>>
  /\ queue' = SubSeq(queue, 1, Len(queue) - 1)
  /\ processing' = processing \cup {queue[Len(queue)]}
  /\ dirty' = dirty \ {queue[Len(queue)]}
  /\ item' = [item EXCEPT ![w] = queue[Len(queue)]]
  /\ stage' = [stage EXCEPT ![w] = "taken"]
  /\ UNCHANGED <<cached, events, waiting, due, crashes>>

Get(w) ==
  /\ stage[w] = "idle"
  /\ queue # <<>>
  /\ queue' = Tail(queue)
  /\ processing' = processing \cup {Head(queue)}
  /\ dirty' = dirty \ {Head(queue)}
  /\ item' = [item EXCEPT ![w] = Head(queue)]
  /\ stage' = [stage EXCEPT ![w] = "taken"]
  /\ UNCHANGED <<cached, events, waiting, due, crashes>>

\* Bug: what was added in the meantime is not queued.
Done_NotQueued(w) ==
  /\ stage[w] = "over"
  /\ processing' = processing \ {item[w]}
  /\ item' = [item EXCEPT ![w] = NoItem]
  /\ stage' = [stage EXCEPT ![w] = "idle"]
  /\ UNCHANGED <<cached, events, queue, dirty, waiting, due, crashes>>

\* Bug: the worker holds on to its item.
Done_ItemKept(w) ==
  /\ stage[w] = "over"
  /\ processing' = processing \ {item[w]}
  /\ queue' = IF item[w] \in dirty THEN Append(queue, item[w]) ELSE queue
  /\ stage' = [stage EXCEPT ![w] = "idle"]
  /\ UNCHANGED <<cached, events, dirty, waiting, item, due, crashes>>

\* Done is deferred: it comes after whatever the outcome has added.
Done(w) ==
  /\ stage[w] = "over"
  /\ processing' = processing \ {item[w]}
  /\ queue' = IF item[w] \in dirty THEN Append(queue, item[w]) ELSE queue
  /\ item' = [item EXCEPT ![w] = NoItem]
  /\ stage' = [stage EXCEPT ![w] = "idle"]
  /\ UNCHANGED <<cached, events, dirty, waiting, due, crashes>>

-----------------------------------------------------------------------------
(* The worker.                                                              *)

(* Reconcile begins with a read of the cache.  There is nothing to do for   *)
(* an object that is not found; another error is returned.                  *)
Read(w) ==
  /\ stage[w] = "taken"
  /\ \/ /\ stage' = [stage EXCEPT ![w] = IF item[w] \in cached THEN "running" ELSE "over"]
        /\ due' = due \ {item[w]}
     \/ /\ stage' = [stage EXCEPT ![w] = "unread"]
        /\ UNCHANGED due
  /\ UNCHANGED <<cached, events, queue, dirty, processing, waiting, item, crashes>>

Succeed(w) ==
  /\ stage[w] = "running"
  /\ stage' = [stage EXCEPT ![w] = "over"]
  /\ UNCHANGED <<cached, events, queue, dirty, processing, waiting, item, due, crashes>>

\* An error or a RequeueAfter: the item is added again after a delay.
TryAgain(w) ==
  /\ stage[w] \in {"running", "unread"}
  /\ stage' = [stage EXCEPT ![w] = "over"]
  /\ waiting' = waiting \cup {item[w]}
  /\ due' = due \cup {item[w]}
  /\ UNCHANGED <<cached, events, queue, dirty, processing, item, crashes>>

(* The process ends, by a crash or a shutdown, and another one starts as in *)
(* Init: all of this is in memory.                                          *)
Restart ==
  /\ crashes > 0
  /\ crashes' = crashes - 1
  /\ cached' \in SUBSET Items
  /\ events' = cached'
  /\ due' = cached'
  /\ queue' = <<>>
  /\ dirty' = {}
  /\ processing' = {}
  /\ waiting' = {}
  /\ item' = [w \in Workers |-> NoItem]
  /\ stage' = [w \in Workers |-> "idle"]

-----------------------------------------------------------------------------
Work(w) == Read(w) \/ Succeed(w) \/ TryAgain(w) \/ Done(w)

Next ==
  \/ \E i \in Items : CacheChanges(i) \/ Resync(i) \/ Notify(i) \/ DelayIsOver(i)
  \/ \E w \in Workers : Get(w) \/ Work(w)
  \/ Restart

Spec == Init /\ [][Next]_vars

(* The informer's and the queue's goroutines and the resync timer run on,   *)
(* and a Reconcile returns at some point.  Nothing is assumed of its        *)
(* outcome, of the watch, or of which worker is given an item.              *)
Fairness ==
  /\ \A i \in Items : WF_vars(Resync(i)) /\ WF_vars(Notify(i)) /\ WF_vars(DelayIsOver(i))
  /\ WF_vars(\E w \in Workers : Get(w))
  /\ \A w \in Workers : WF_vars(Work(w))

FairSpec == Spec /\ Fairness

-----------------------------------------------------------------------------
(* The invariant that the comment of Typed.queue states: what is queued is  *)
(* what is dirty and not being processed, each once.  It takes Add, Get and *)
(* Done together to keep it.                                                *)
QueueIsExact ==
  /\ \A j, k \in 1 .. Len(queue) : queue[j] = queue[k] => j = k
  /\ Queued = dirty \ processing

(* Reconcile never runs for one Machine in two workers, although a change   *)
(* may come while it runs (the comment of the worker loop).                 *)
OneReconcileAtATime == \A v, w \in Busy : item[v] = item[w] => v = w

(* No reason to reconcile is lost to the queue's de-duplication: after a    *)
(* change of the cache, an error or a requeue, and until the cache is read  *)
(* again, the Machine is notified, waiting, marked, or taken and unread.    *)
NothingIsLost ==
  due \subseteq events \cup waiting \cup dirty
                \cup {item[w] : w \in {v \in Workers : stage[v] \in {"taken", "unread"}}}

(* No Machine starves: whatever the outcomes of its and of the others'      *)
(* reconciliations, it leaves the cache or is taken up again and again.     *)
TakenUpAgain ==
  \A i \in Items : []<>(i \notin cached \/ \E w \in Workers : stage[w] = "taken" /\ item[w] = i)
=============================================================================
