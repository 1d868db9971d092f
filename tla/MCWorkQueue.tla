----------------------------- MODULE MCWorkQueue -----------------------------
(***************************************************************************)
(* WorkQueue for TLC.  Two workers, one more than the operator starts:      *)
(* with one, nothing could run at the same time.                           *)
(***************************************************************************)
EXTENDS WorkQueue
=============================================================================
