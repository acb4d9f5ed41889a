------------------------------ MODULE MCLogger ------------------------------
(***************************************************************************)
(* A ring of eight bytes, entries of two and of four: two long entries     *)
(* fill it, so that wrapping, lapping and torn writes all happen within    *)
(* MaxWrites commits.                                                      *)
(***************************************************************************)
EXTENDS LoggerInv
=============================================================================
