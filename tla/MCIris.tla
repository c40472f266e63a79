------------------------------- MODULE MCIris -------------------------------
(***************************************************************************)
(* Iris and its inbox on small instances: a ring that overflows, batches   *)
(* that restarts cut short, conversations that share numbers.              *)
(***************************************************************************)
EXTENDS Iris, TLC
=============================================================================
