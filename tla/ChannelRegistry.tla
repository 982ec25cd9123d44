--------------------------- MODULE ChannelRegistry ---------------------------
(***************************************************************************)
(* What an event loop promises to the threads that use it: a request is    *)
(* queued once, requests take effect one at a time in the order in which   *)
(* they were queued, none is lost or applied twice, and the table of       *)
(* channels changes in no other way.  The process may end at any point.    *)
(* EventLoop implements this module.                                       *)
(***************************************************************************)
EXTENDS Integers, Sequences

CONSTANTS Channels, ConnFds, BadFd, NULL

VARIABLES
  queue,    \* requests posted and not yet in effect
  entries,  \* the channel registered for a descriptor
  fdOf,     \* the descriptor a channel was made for
  aborted   \* the process has ended

registryVars == <<queue, entries, fdOf, aborted>>

Requests == [type : {"ADD", "REMOVE", "UPDATE"}, channel : Channels]

Init ==
  /\ queue = << >>
  /\ entries = [f \in ConnFds |-> NULL]
  /\ fdOf = [c \in Channels |-> BadFd]
  /\ aborted = FALSE

Open(c, f) ==
  /\ fdOf[c] = BadFd
  /\ fdOf' = [fdOf EXCEPT ![c] = f]
  /\ UNCHANGED <<queue, entries, aborted>>

Post(r) ==
  /\ queue' = Append(queue, r)
  /\ UNCHANGED <<entries, fdOf, aborted>>

\* The slot of descriptor f after request r for it.
SlotAfter(r, f) ==
  IF r.type = "REMOVE" THEN NULL
  ELSE IF r.type = "ADD" /\ entries[f] = NULL THEN r.channel
  ELSE entries[f]

Apply ==
  /\ queue # << >>
  /\ LET r == Head(queue) IN
       entries' = [f \in ConnFds |->
                     IF f = fdOf[r.channel] THEN SlotAfter(r, f) ELSE entries[f]]
  /\ queue' = Tail(queue)
  /\ UNCHANGED <<fdOf, aborted>>

Abort ==
  /\ aborted' = TRUE
  /\ UNCHANGED <<queue, entries, fdOf>>

Next ==
  /\ ~aborted
  /\ \/ \E c \in Channels, f \in ConnFds : Open(c, f)
     \/ \E r \in Requests : Post(r)
     \/ Apply
     \/ Abort

SafeSpec == Init /\ [][Next]_registryVars

RequestsTakeEffect == WF_registryVars(~aborted /\ Apply)

Spec == SafeSpec /\ RequestsTakeEffect
=============================================================================
