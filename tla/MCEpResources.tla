--------------------------- MODULE MCEpResources ---------------------------
(***************************************************************************)
(* EpResources for TLC: every combination of the options the function      *)
(* reads, every completion method and one past the last.  A queue size of  *)
(* 0 asks for the provider's own.                                          *)
(***************************************************************************)
EXTENDS EpResources

MCCqSizes == {0, 3}
=============================================================================
