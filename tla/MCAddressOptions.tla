--------------------------- MODULE MCAddressOptions ---------------------------
(***************************************************************************)
(* AddressOptions for TLC: every combination of options and one failure.    *)
(***************************************************************************)
EXTENDS AddressOptions

MCCodes == {-61}
=============================================================================
