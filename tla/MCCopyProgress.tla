--------------------------- MODULE MCCopyProgress ---------------------------
(* Instances of the file copier for TLC.                                   *)
EXTENDS CopyProgress
=============================================================================
