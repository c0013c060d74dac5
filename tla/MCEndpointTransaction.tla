------------------------ MODULE MCEndpointTransaction ------------------------
(***************************************************************************)
(* EndpointTransaction for TLC. Clients, endpoints and forms are model     *)
(* values that no definition tells apart.                                  *)
(***************************************************************************)
EXTENDS EndpointTransaction, TLC

Symmetry == Permutations(Clients) \cup Permutations(Ids) \cup Permutations(Forms)
=============================================================================
