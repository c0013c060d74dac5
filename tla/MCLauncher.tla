----------------------------- MODULE MCLauncher -----------------------------
(***************************************************************************)
(* Launcher for TLC: two start commands and a stop command on one port, so *)
(* that every pair of them overlaps, or one start command interrupted.     *)
(***************************************************************************)
EXTENDS Launcher
=============================================================================
