--------------------------- MODULE MCSnapshotSync ---------------------------
(* A small instance of SnapshotSync for TLC; the .cfg files choose the        *)
(* leadership source and the disturbances.                                    *)
EXTENDS SnapshotSync, TLC
==============================================================================
