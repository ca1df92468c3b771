-------------------------- MODULE MCStatisticsSync --------------------------
(* A small instance of StatisticsSync for TLC.                               *)
EXTENDS StatisticsSync, TLC
=============================================================================
