---------------------------- MODULE MCGoBagSwap ----------------------------
(* A small instance of GoBagSwap for TLC.                                    *)
EXTENDS GoBagSwap, TLC
=============================================================================
