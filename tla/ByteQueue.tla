----------------------------- MODULE ByteQueue -----------------------------
(***************************************************************************)
(* What a buffer promises (include/buffer.h): the bytes written to it come *)
(* out once each, unchanged and in the order in which they were written.   *)
(***************************************************************************)
EXTENDS Sequences

CONSTANT Bytes

VARIABLES
  queue,  \* the bytes written and not yet read
  call,   \* the last call, and the bytes it passed in or out
  aborted \* the process has ended

vars == <<queue, call, aborted>>

Init ==
  /\ queue = << >>
  /\ call = [op |-> "new", bytes |-> << >>]
  /\ aborted = FALSE

Put ==
  /\ call'.op = "put"
  /\ queue' = queue \o call'.bytes

Get ==
  /\ call'.op = "get"
  /\ queue = call'.bytes \o queue'

Next ==
  /\ ~aborted
  /\ \/ (Put \/ Get) /\ UNCHANGED aborted
     \/ aborted' = TRUE /\ UNCHANGED <<queue, call>>

Spec == Init /\ [][Next]_vars
=============================================================================
