------------------------------ MODULE MCRelease ------------------------------
(***************************************************************************)
(* Release for TLC: two contexts, as the program has, any part of them open *)
(* that init_fabric can leave open, and two calls of free_res.              *)
(***************************************************************************)
EXTENDS Release
=============================================================================
