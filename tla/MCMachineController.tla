----------------------- MODULE MCMachineController -----------------------
(* Instances of MachineController for TLC.                               *)
EXTENDS MachineController, TLC

CONSTANTS m1, m2, n1, n2

\* Host names: one Machine, two Machines with names of their own.
OneName == m1 :> n1
OwnNames == (m1 :> n1) @@ (m2 :> n2)

\* Azure resource groups: one Machine with a group of its own, or without the parameter.
NoGroupParam == m1 :> ""
OwnGroup == m1 :> "own"
OwnGroups == (m1 :> "") @@ (m2 :> "own")

Google == m1 :> "google"
Azure == m1 :> "azure"
AwsAndAzure == (m1 :> "amazonec2") @@ (m2 :> "azure")

\* Numbers of faults, edits, crashes and creations.
Disturb(f, e, c, u) ==
  ("fault" :> f) @@ ("edit" :> e) @@ ("crash" :> c) @@ ("create" :> u)
Quiet == Disturb(0, 0, 0, 1)
OneFault == Disturb(1, 0, 0, 1)
AllSorts == Disturb(1, 1, 1, 1)
TwiceAllSorts == Disturb(1, 1, 1, 2)
TwoMachinesFault == Disturb(1, 0, 0, 2)
==========================================================================
