--------------------------- MODULE MCWriteAheadLog ---------------------------
(***************************************************************************)
(* Instances of WriteAheadLog for TLC.                                     *)
(***************************************************************************)
EXTENDS WriteAheadLog
=============================================================================
