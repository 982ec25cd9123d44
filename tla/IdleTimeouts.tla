---------------------------- MODULE IdleTimeouts ----------------------------
(***************************************************************************)
(* What the timer list promises its users (include/timer.h, "handle        *)
(* inactive connections"): a connection has a deadline, which activity     *)
(* moves; a sweep compares the deadlines with the time it started at, and  *)
(* ends only when every connection that was due has been closed.           *)
(***************************************************************************)
EXTENDS Integers

CONSTANTS
  Timers,  \* one per connection
  Timeout, \* TIMEOUT * TIMESLOT
  NULL

VARIABLES
  now,      \* time(NULL)
  deadline, \* when a connection is due, NULL before and after its time
  sweep,    \* the time of the sweep in progress, NULL between two
  aborted   \* the process has ended

vars == <<now, deadline, sweep, aborted>>

Init ==
  /\ now = 0
  /\ deadline = [t \in Timers |-> NULL]
  /\ sweep = NULL
  /\ aborted = FALSE

Due(t) == deadline[t] # NULL /\ deadline[t] <= sweep

Advance ==
  /\ ~aborted
  /\ now' = now + 1
  /\ UNCHANGED <<deadline, sweep, aborted>>

\* A connection is accepted, or has been active.  Neither happens in the
\* middle of a sweep.
Rearm(t) ==
  /\ ~aborted
  /\ sweep = NULL
  /\ deadline' = [deadline EXCEPT ![t] = now + Timeout]
  /\ UNCHANGED <<now, sweep, aborted>>

BeginSweep ==
  /\ ~aborted
  /\ sweep = NULL
  /\ sweep' = now
  /\ UNCHANGED <<now, deadline, aborted>>

CloseIdle(t) ==
  /\ ~aborted
  /\ sweep # NULL
  /\ Due(t)
  /\ deadline' = [deadline EXCEPT ![t] = NULL]
  /\ UNCHANGED <<now, sweep, aborted>>

EndSweep ==
  /\ ~aborted
  /\ sweep # NULL
  /\ \A t \in Timers : ~Due(t)
  /\ sweep' = NULL
  /\ UNCHANGED <<now, deadline, aborted>>

Abort ==
  /\ ~aborted
  /\ aborted' = TRUE
  /\ sweep' = NULL
  /\ UNCHANGED <<now, deadline>>

Sweep == BeginSweep \/ (\E t \in Timers : CloseIdle(t)) \/ EndSweep

Next == Advance \/ (\E t \in Timers : Rearm(t)) \/ Sweep \/ Abort

SafeSpec == Init /\ [][Next]_vars

SweepsGoOn == WF_vars(Sweep)

Spec == SafeSpec /\ SweepsGoOn

\* A connection that stays inactive is closed.
IdleIsClosed ==
  \A t \in Timers :
    deadline[t] # NULL /\ deadline[t] <= now ~>
      aborted \/ deadline[t] = NULL \/ deadline[t] > now
=============================================================================
