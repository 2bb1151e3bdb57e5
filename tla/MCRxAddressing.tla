-------------------------- MODULE MCRxAddressing --------------------------
(***************************************************************************)
(* RxAddressing for TLC, in 7 bits instead of 64: up to 9 contexts, across *)
(* three powers of two, leave bits for the address itself; 63, the most     *)
(* there can be, leave none.                                                *)
(***************************************************************************)
EXTENDS RxAddressing

MCCtxCounts == (0 .. 9) \cup {63}
MCAddrs == {{}, {0}, {0, 2}, {0, 1, 6}}
=============================================================================
