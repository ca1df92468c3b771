------------------------------ MODULE MCGoBag ------------------------------
(* A small instance of GoBag for TLC.                                       *)
EXTENDS GoBag, TLC
============================================================================
