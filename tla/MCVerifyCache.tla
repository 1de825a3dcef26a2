---------------------------- MODULE MCVerifyCache ----------------------------
(***************************************************************************)
(* Values for the constants of VerifyCache: requests and writing calls.    *)
(***************************************************************************)
EXTENDS VerifyCache

CONSTANTS r1, r2, w1, w2
=============================================================================
