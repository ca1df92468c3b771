--------------------------- MODULE MCIntegration ---------------------------
(* A small instance of Integration for TLC.                                 *)
EXTENDS Integration, TLC
============================================================================
