--------------------------- MODULE MCHttpAdmission ---------------------------
(***************************************************************************)
(* HttpAdmission for TLC: a capacity of two or three and more connections  *)
(* than that, so that the server is overloaded.                            *)
(***************************************************************************)
EXTENDS HttpAdmission
=============================================================================
