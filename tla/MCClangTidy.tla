---------------------------- MODULE MCClangTidy ----------------------------
(***************************************************************************)
(* ClangTidy with more entries than the queue and the workers together     *)
(* hold at once, one of them third-party code.                             *)
(***************************************************************************)
EXTENDS ClangTidy

MCThirdParty == {2}
=============================================================================
