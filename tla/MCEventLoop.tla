----------------------------- MODULE MCEventLoop -----------------------------
(***************************************************************************)
(* Instances of EventLoop for TLC.  Two connections, one descriptor fewer  *)
(* or as many: with one descriptor accept fails, or the descriptor of a    *)
(* connection that hung up is given out again.                             *)
(***************************************************************************)
EXTENDS EventLoop

MCOneFd  == {4}
MCTwoFds == {4, 5}
MCWakeFd == 3
=============================================================================
