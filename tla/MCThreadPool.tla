---------------------------- MODULE MCThreadPool ----------------------------
(***************************************************************************)
(* Instances of ThreadPool for TLC.  Four workers: the first, the last    *)
(* and two between them, so that position wraps and every start follows    *)
(* another.  Five connections each: the turn goes round more than once.    *)
(***************************************************************************)
EXTENDS ThreadPool
=============================================================================
