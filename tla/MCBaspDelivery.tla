--------------------------- MODULE MCBaspDelivery ---------------------------
(***************************************************************************)
(* Instances of BaspDelivery for TLC: two workers, one actor of the peer,  *)
(* at most MaxMessages messages.                                           *)
(***************************************************************************)
EXTENDS BaspDelivery
=============================================================================
