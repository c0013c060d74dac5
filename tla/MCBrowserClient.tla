---------------------------- MODULE MCBrowserClient ----------------------------
(***************************************************************************)
(* An instance of BrowserClient for TLC.                                   *)
(***************************************************************************)
EXTENDS BrowserClient

AllUp == {[id \in ids |-> "up"] : ids \in SUBSET Targets}
=============================================================================
