------------------------- MODULE MachineConditions -------------------------
(***************************************************************************)
(* The status of a Machine as the operator computes it: the conditions     *)
(* (api/v1alpha1/helper.go and the conditions package it uses), the Ready  *)
(* summary made of them, and the phase derived from the summary.           *)
(*                                                                         *)
(* A set of conditions is a function from condition types to values: a     *)
(* condition is "Absent", "True", or False with one of the Reasons (every  *)
(* False condition of this program carries a reason and severity Error,    *)
(* and no condition is ever Unknown).  Messages and transition times are   *)
(* left out: Set replaces a condition only when its status or reason       *)
(* changes, so they change together with the value kept here.              *)
(***************************************************************************)
EXTENDS Integers, FiniteSetsExt

\* Condition types the program sets; "Ready" is the summary.
ConditionTypes == {"MachineReady", "ClusterOperationComplete", "AuthDataReady",
                   "ScriptReady", "MachineCreating", "Ready"}

Reasons == {"ClusterOperationFailed", "MachineCreationFailed",
            "WaitingForScriptCompletion", "WaitingForScriptRun",
            "AuthDataNotFound", "ScriptDataNotFound", "MachineCreating"}

Conditions == [ConditionTypes -> {"Absent", "True"} \cup Reasons]

Phases == {"", "Pending", "InProgress", "WaitingForScriptCompletion",
           "ClusterOperationFailed", "Success", "Terminating", "Failed"}

NoConditions == [t \in ConditionTypes |-> "Absent"]

\* The types the summary looks at, in the order in which it reports them.
ConditionsOrder == <<"MachineReady", "ClusterOperationComplete",
                     "AuthDataReady", "ScriptReady">>

\* A type that no condition carries (a phase name, say) is not true.
IsConditionTrue(conds, t) == t \in ConditionTypes /\ conds[t] = "True"

MarkTrue(conds, t) == [conds EXCEPT ![t] = "True"]

MarkFalse(conds, t, reason) == [conds EXCEPT ![t] = reason]

\* Positions in ConditionsOrder of the conditions that exist, and of those
\* among them that are False.
Present(conds) == {i \in 1..4 : conds[ConditionsOrder[i]] # "Absent"}
Failing(conds) == {i \in Present(conds) : conds[ConditionsOrder[i]] # "True"}

\* Mutant of SetSummary: the type of the failing condition is stored, not its reason.
SetSummary_Type(conds) ==
  IF Failing(conds) = {}
  THEN conds
  ELSE [conds EXCEPT !["Ready"] = ConditionsOrder[Min(Failing(conds))]]

\* Ready is True when every condition present is True, else False with the
\* reason of the first failing one; with no condition present nothing is set.
SetSummary(conds) ==
  IF Present(conds) = {}
  THEN conds
  ELSE [conds EXCEPT !["Ready"] =
          IF Failing(conds) = {}
          THEN "True"
          ELSE conds[ConditionsOrder[Min(Failing(conds))]]]

\* The phase that a value of the Ready condition stands for.
PhaseOfReady(ready) ==
  CASE ready = "Absent" -> "Pending"
    [] ready = "True" -> "Success"
    [] ready = "WaitingForScriptCompletion" -> "WaitingForScriptCompletion"
    [] ready = "ClusterOperationFailed" -> "ClusterOperationFailed"
    [] ready = "MachineCreationFailed" -> "Failed"
    [] OTHER -> "InProgress"

\* Deletion wins over every condition.
GetPhase(deleting, conds) ==
  CASE deleting -> "Terminating"
    [] ~deleting /\ conds = NoConditions -> "InProgress"
    [] OTHER -> PhaseOfReady(conds["Ready"])
=============================================================================
