--------------------------- MODULE MCFabricSetup ---------------------------
(***************************************************************************)
(* FabricSetup for TLC.  ctx_cnt is 2 in scalable, 0 and 1 the smaller     *)
(* Env values; a provider supports none, fewer, or as many contexts.       *)
(***************************************************************************)
EXTENDS FabricSetup

MCCtxCounts == 0 .. 2
MCProvCounts == 0 .. 2
MCCodes == {-22}
=============================================================================
