------------------------------ MODULE MCZakros ------------------------------
(***************************************************************************)
(* The control plane on small instances.  Each configuration MC*.cfg that  *)
(* names this module's constants puts one part of the environment in play: *)
(* respawns of several tasks, failing calls and crashes, a sidecar, a      *)
(* restart of Argus.  The values are plain model values; nothing is        *)
(* replaced.                                                               *)
(***************************************************************************)
EXTENDS Zakros, TLC
=============================================================================
