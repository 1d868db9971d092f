-------------------------- MODULE MCAWSEnvironment --------------------------
(* Instances of AWSEnvironment for TLC.                                    *)
EXTENDS AWSEnvironment, FiniteSetsExt

\* A single refused call, a single write that fails.
OneRefusal == {[d \in Disturbances |-> IF d = "refused" THEN 1 ELSE 0]}
OnePatchFails == {[d \in Disturbances |-> IF d = "patch" THEN 1 ELSE 0]}

\* Up to MaxTotal disturbances of any sorts, two refusals at most and one of each
\* other sort.
MaxTotal == 3
AnyFew ==
  {f \in [Disturbances -> 0..2] :
     /\ \A d \in Disturbances \ {"refused"} : f[d] <= 1
     /\ MapThenSumSet(LAMBDA d : f[d], Disturbances) <= MaxTotal}
=============================================================================
