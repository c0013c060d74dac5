--------------------------- MODULE MCNativeService ---------------------------
(***************************************************************************)
(* Small instances of NativeService for TLC: one supervisor, three to five *)
(* launches, up to three disturbances.                                     *)
(***************************************************************************)
EXTENDS NativeService
=============================================================================
