---------------------------- MODULE MCAvExchange ----------------------------
(***************************************************************************)
(* AvExchange for TLC: one client, one server and one failure code.  Each  *)
(* process sends once, so nothing else needs a bound.                      *)
(***************************************************************************)
EXTENDS AvExchange

MCCodes == {-22}
=============================================================================
