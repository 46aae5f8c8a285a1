--------------------------- MODULE MCStreamDelivery ---------------------------
(***************************************************************************)
(* StreamDelivery on small instances.                                      *)
(***************************************************************************)
EXTENDS StreamDelivery, TLC
===============================================================================
