-------------------------- MODULE MachineLifecycle --------------------------
(***************************************************************************)
(* What the operator promises about Machines and the things it makes for   *)
(* them, without the cache, the conditions, the worker and its errors.     *)
(*                                                                         *)
(* A Machine is absent, new (its object exists and the operator has not    *)
(* taken charge of it), held by the operator's finalizer, or terminating   *)
(* (held and marked for deletion).  A thing - a host, a file, a resource   *)
(* group - is claimed by the Machines that would use it, perhaps several:  *)
(*   - things come into being only for a Machine that the operator holds;  *)
(*   - nothing is cleaned up on behalf of a Machine that is held and not   *)
(*     marked for deletion;                                                *)
(*   - a Machine that is held leaves only through terminating, and only    *)
(*     when nothing that it claims is left.                                *)
(***************************************************************************)
CONSTANTS
  Machines,
  Things,
  Claims,     \* [Machines -> SUBSET Things]
  Durable     \* nothing is lost when the operator restarts

VARIABLES
  life,       \* the state of each Machine
  exists      \* the things there are

vars == <<life, exists>>

Lives == {"absent", "new", "held", "terminating"}
InCharge(m) == life[m] \in {"held", "terminating"}

TypeOK == life \in [Machines -> Lives] /\ exists \in SUBSET Things

Init == life = [m \in Machines |-> "absent"] /\ exists = {}

\* The object of m goes from one of the states in from to state to.
Becomes(m, from, to) ==
  /\ life[m] \in from
  /\ life' = [life EXCEPT ![m] = to]
  /\ UNCHANGED exists

Appear(m) == Becomes(m, {"absent"}, "new")
Abandon(m) == Becomes(m, {"new"}, "absent")

\* The operator takes charge, of an object that it may have to create again.
Adopt(m) == Becomes(m, {"absent", "new"}, "held")

MarkForDeletion(m) == Becomes(m, {"held"}, "terminating")

Release(m) ==
  /\ Claims[m] \cap exists = {}
  /\ Becomes(m, {"terminating"}, "absent")

\* Several things may come into being at once, or go at once.
Build(m) ==
  /\ InCharge(m)
  /\ exists' \in {exists \cup T : T \in SUBSET Claims[m]}
  /\ UNCHANGED life

CleanUp(m) ==
  /\ life[m] # "held"
  /\ exists' \in {exists \ T : T \in SUBSET Claims[m]}
  /\ UNCHANGED life

\* The operator restarts on a new disk, perhaps while it builds for a Machine.
Lose ==
  /\ ~Durable
  /\ exists' \in SUBSET (exists \cup UNION {Claims[m] : m \in {x \in Machines : InCharge(x)}})
  /\ UNCHANGED life

Next ==
  \/ \E m \in Machines :
       \/ Appear(m) \/ Abandon(m) \/ Adopt(m) \/ MarkForDeletion(m) \/ Release(m)
       \/ Build(m) \/ CleanUp(m)
  \/ Lose

Spec == Init /\ [][Next]_vars
=============================================================================
