------------------------------ MODULE MCBuffer ------------------------------
(***************************************************************************)
(* Instances of Buffer for TLC.  A block of two bytes that may grow to     *)
(* five; strings are long enough to fill the block, to be moved to the     *)
(* front and to make it grow, more than once.                              *)
(***************************************************************************)
EXTENDS Buffer
=============================================================================
