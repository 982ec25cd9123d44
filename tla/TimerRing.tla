------------------------------ MODULE TimerRing ------------------------------
(***************************************************************************)
(* The list of inactivity timers (utils/timer.c): a circular, doubly       *)
(* linked list with a head node, kept in ascending order of expiry, and    *)
(* the three places that use it: the main thread adds the timer of a       *)
(* connection it accepts (utils/tcp_utils.c), the thread that owns the     *)
(* connection moves its timer when data arrives (utils/tcp_connection.c),  *)
(* and the main loop sweeps the list after each SIGALRM                    *)
(* (utils/event_loop.c).                                                   *)
(*                                                                         *)
(* The nodes and their pointers are kept as they are.  One step is one of  *)
(* the list's helpers (remove, insert, tail_insert), one turn of a loop,   *)
(* or the change of a field.  Main = Owner is a server without workers     *)
(* (nthread = 0), where these never overlap; with a worker they do, since  *)
(* no mutex protects the list.                                             *)
(***************************************************************************)
EXTENDS Integers, FiniteSets

CONSTANTS
  Timers,      \* the timers, one per connection
  Head,        \* list->head
  Timeout,     \* TIMEOUT * TIMESLOT
  MaxTime,     \* bound on the clock
  Main, Owner, \* the main thread, and the thread that owns the connections
  NULL         \* an unset pointer

ASSUME TimerAssumption ==
  /\ Head \notin Timers
  /\ NULL \notin Timers \union {Head} \union Nat
  /\ Timeout \in Nat \ {0}
  /\ MaxTime \in Nat

Nodes   == Timers \union {Head}
Threads == {Main, Owner}

VARIABLES
  now,        \* time(NULL)
  next, prev, \* the pointers of each node
  expire,     \* timer->expire_time
  status,     \* of the connection: new, open, closed by its peer, timed out
  pc,         \* control point of each thread
  adding,     \* new_timer of add_timer
  touched,    \* timer of reset_timer
  tmp,        \* tmp of add_timer and of tick
  curTime     \* cur_time of tick

ring  == <<next, prev>>
timer == <<expire, status>>
walk  == <<adding, tmp, curTime>>
vars  == <<now, ring, timer, pc, walk, touched>>

Goto(th, l) == pc' = [pc EXCEPT ![th] = l]

\* create_sort_timer_lst.
Init ==
  /\ now = 0
  /\ next = [n \in Nodes |-> IF n = Head THEN Head ELSE NULL]
  /\ prev = next
  /\ expire = [t \in Timers |-> 0]
  /\ status = [t \in Timers |-> "new"]
  /\ pc = [th \in Threads |-> "Idle"]
  /\ adding = NULL
  /\ touched = NULL
  /\ tmp = Head
  /\ curTime = 0

-----------------------------------------------------------------------------
(* The wall clock, as far as the process sees it.  Nobody sets it back.    *)
Advance ==
  /\ pc[Main] # "Ended"
  /\ now < MaxTime
  /\ now' = now + 1
  /\ UNCHANGED <<ring, timer, pc, walk, touched>>

-----------------------------------------------------------------------------
(* The helpers.  insert(position, node) and tail_insert(head, node) set    *)
(* the same four pointers.                                                 *)
insert(position, node) ==
  /\ next' = [next EXCEPT ![prev[position]] = node, ![node] = position]
  /\ prev' = [prev EXCEPT ![node] = prev[position], ![position] = node]

\* Mutant: the backward pointer is forgotten.
RemoveOneWay(node) ==
  /\ next' = [next EXCEPT ![prev[node]] = next[node]]
  /\ UNCHANGED prev

remove(node) ==
  /\ next' = [next EXCEPT ![prev[node]] = next[node]]
  /\ prev' = [prev EXCEPT ![next[node]] = prev[node]]

(***************************************************************************)
(* handle_connection_established: generate_timer and add_timer.            *)
(***************************************************************************)
generate_timer(t) ==
  /\ pc[Main] = "Idle"
  /\ status[t] = "new"
  /\ status' = [status EXCEPT ![t] = "open"]
  /\ expire' = [expire EXCEPT ![t] = now + Timeout]
  /\ adding' = t
  /\ tmp' = next[Head]
  /\ Goto(Main, "Walk")
  /\ UNCHANGED <<now, ring, curTime, touched>>

\* Mutant: the new timer always goes to the front.
GoesFirst == TRUE

GoesHere == tmp \in Timers => expire[tmp] > expire[adding]

WalkOn ==
  /\ pc[Main] = "Walk"
  /\ ~GoesHere
  /\ tmp' = next[tmp]
  /\ UNCHANGED <<now, ring, timer, pc, adding, curTime, touched>>

InsertHere ==
  /\ pc[Main] = "Walk"
  /\ GoesHere
  /\ insert(tmp, adding)
  /\ adding' = NULL
  /\ tmp' = Head
  /\ Goto(Main, "Idle")
  /\ UNCHANGED <<now, timer, curTime, touched>>

(***************************************************************************)
(* handle_read: update_timer and reset_timer for data, del_timer and       *)
(* handle_connection_closed for the end of the stream.  What a read does   *)
(* before add_timer has linked the timer is not modelled here.             *)
(***************************************************************************)
IsOpen(t) == status[t] = "open" /\ next[t] # NULL

update_timer(t) ==
  /\ pc[Owner] = "Idle"
  /\ IsOpen(t)
  /\ expire' = [expire EXCEPT ![t] = now + Timeout]
  /\ touched' = t
  /\ Goto(Owner, "Reset")
  /\ UNCHANGED <<now, ring, status, walk>>

\* Mutant: every timer is taken for the last one.
StaysLast == TRUE

IsLast == touched = prev[Head]

ResetLast ==
  /\ pc[Owner] = "Reset"
  /\ IsLast
  /\ touched' = NULL
  /\ Goto(Owner, "Idle")
  /\ UNCHANGED <<now, ring, timer, walk>>

\* Mutant: the timer is appended without being taken out first.
ResetWithoutRemove ==
  /\ pc[Owner] = "Reset"
  /\ ~IsLast
  /\ Goto(Owner, "Relink")
  /\ UNCHANGED <<now, ring, timer, walk, touched>>

ResetRemove ==
  /\ pc[Owner] = "Reset"
  /\ ~IsLast
  /\ remove(touched)
  /\ Goto(Owner, "Relink")
  /\ UNCHANGED <<now, timer, walk, touched>>

ResetTailInsert ==
  /\ pc[Owner] = "Relink"
  /\ insert(Head, touched)
  /\ touched' = NULL
  /\ Goto(Owner, "Idle")
  /\ UNCHANGED <<now, timer, walk>>

\* del_timer starts its walk at the head and so ends it there: the timer of a
\* closed connection stays in the list.
Close(t) ==
  /\ pc[Owner] = "Idle"
  /\ IsOpen(t)
  /\ status' = [status EXCEPT ![t] = "closed"]
  /\ UNCHANGED <<now, ring, expire, pc, walk, touched>>

(***************************************************************************)
(* handle_timeout: tick.                                                   *)
(***************************************************************************)
TickStart ==
  /\ pc[Main] = "Idle"
  /\ tmp' = next[Head]
  /\ curTime' = now
  /\ Goto(Main, "Tick")
  /\ UNCHANGED <<now, ring, timer, adding, touched>>

\* Mutant: a timer only expires after its time.
IsDueLate == tmp # Head /\ curTime > expire[tmp]

IsDue == tmp # Head /\ curTime >= expire[tmp]

\* The callback closes the connection.  Of a connection that is closed already
\* it uses freed memory, and the process goes on or ends.
TimeoutCallback ==
  /\ pc[Main] = "Tick"
  /\ IsDue
  /\ status' = [status EXCEPT ![tmp] = "expired"]
  /\ Goto(Main, "Unlink")
  /\ UNCHANGED <<now, ring, expire, walk, touched>>

CallbackDies ==
  /\ pc[Main] = "Tick"
  /\ IsDue
  /\ status[tmp] = "closed"
  /\ pc' = [th \in Threads |-> "Ended"]
  /\ UNCHANGED <<now, ring, timer, walk, touched>>

Unlink ==
  /\ pc[Main] = "Unlink"
  /\ remove(tmp)
  /\ tmp' = next'[tmp]
  /\ Goto(Main, "Tick")
  /\ UNCHANGED <<now, timer, adding, curTime, touched>>

TickDone ==
  /\ pc[Main] = "Tick"
  /\ ~IsDue
  /\ tmp' = Head
  /\ Goto(Main, "Idle")
  /\ UNCHANGED <<now, ring, timer, adding, curTime, touched>>

-----------------------------------------------------------------------------
add_timer   == WalkOn \/ InsertHere
reset_timer == ResetLast \/ ResetRemove \/ ResetTailInsert
tick        == TimeoutCallback \/ CallbackDies \/ Unlink \/ TickDone

Next ==
  \/ Advance
  \/ \E t \in Timers : generate_timer(t) \/ update_timer(t) \/ Close(t)
  \/ add_timer
  \/ reset_timer
  \/ TickStart
  \/ tick

SafeSpec == Init /\ [][Next]_vars

(***************************************************************************)
(* A handler that has begun goes on.  The loop looks at eventLoop->timeout *)
(* after each dispatch, and every tick asks for the next alarm, so a sweep *)
(* that is possible again and again begins.                                *)
(***************************************************************************)
Fairness ==
  /\ WF_vars(add_timer)
  /\ WF_vars(reset_timer)
  /\ SF_vars(TickStart)
  /\ WF_vars(tick)

Spec == SafeSpec /\ Fairness

-----------------------------------------------------------------------------
Labels == {"Idle", "Walk", "Reset", "Relink", "Tick", "Unlink", "Ended"}

\* Type invariant.
TypeOK ==
  /\ now \in 0 .. MaxTime
  /\ next \in [Nodes -> Nodes \union {NULL}]
  /\ prev \in [Nodes -> Nodes \union {NULL}]
  /\ expire \in [Timers -> Nat]
  /\ status \in [Timers -> {"new", "open", "closed", "expired"}]
  /\ pc \in [Threads -> Labels]
  /\ adding \in Timers \union {NULL}
  /\ touched \in Timers \union {NULL}
  /\ tmp \in Nodes
  /\ curTime \in 0 .. MaxTime

\* The timers that wait to expire.
Armed == {t \in Timers : status[t] \in {"open", "closed"}}

\* No thread is in the middle of an operation on the list.
Quiet == \A th \in Threads : pc[th] = "Idle"

\* The node k pointers away from the head.
Forward[k \in Nat]  == IF k = 0 THEN Head ELSE next[Forward[k - 1]]
Backward[k \in Nat] == IF k = 0 THEN Head ELSE prev[Backward[k - 1]]

\* Between two operations the nodes are one ring, in both directions: the
\* head, and each timer that waits exactly once.
RingHoldsArmed ==
  Quiet =>
    LET size == Cardinality(Armed) IN
      /\ {Forward[k] : k \in 0 .. size} = Armed \union {Head}
      /\ Forward[size + 1] = Head
      /\ \A k \in 0 .. size : Backward[k] = Forward[size + 1 - k]

\* Between two operations no timer waits behind one that expires later.
Ascending ==
  Quiet =>
    \A t \in Armed : next[t] \in Timers => expire[t] <= expire[next[t]]

(***************************************************************************)
(* Why these hold when one thread does everything: what each control point *)
(* says of the local variables, what the pointers say of each other, and   *)
(* how the expiry times follow them.                                       *)
(***************************************************************************)
\* The nodes the pointers of other nodes lead to.
InRing ==
  {Head} \union (Armed \ ({adding} \union {t \in {touched} : pc[Owner] = "Relink"}))
         \union {n \in {tmp} : pc[Main] = "Unlink"}

ControlInv ==
  /\ IF pc[Main] = "Walk" THEN adding \in Armed /\ tmp \in InRing ELSE adding = NULL
  /\ IF pc[Owner] \in {"Reset", "Relink"} THEN touched \in Armed ELSE touched = NULL
  /\ pc[Main] \in {"Tick", "Unlink"} => tmp = next[Head]
  /\ pc[Main] = "Unlink" => tmp \in Timers /\ status[tmp] = "expired"

\* The pointers nx and pv stay among nodes, and undo each other.
Links(nodes, nx, pv) ==
  \A n \in nodes : /\ nx[n] \in nodes /\ pv[nx[n]] = n
                   /\ pv[n] \in nodes /\ nx[pv[n]] = n

LinkInv == Links(InRing, next, prev)

\* The pointers nx make one ring of the nodes: they lead out of every part.
OneRing(nodes, nx) ==
  \A part \in SUBSET nodes :
    part # {} /\ (\A n \in part : nx[n] \in part) => part = nodes

CycleInv == OneRing(InRing, next)

\* Node m may follow node n.
InOrder(n, m) == n \in Timers /\ m \in Timers => expire[n] <= expire[m]

\* A timer being moved is out of order with its old successor, and its new
\* time is the latest of all.
OrderInv ==
  /\ \A n \in InRing : n # touched => InOrder(n, next[n])
  /\ \A t \in Armed : expire[t] <= now + Timeout
  /\ touched \in Armed => \A t \in Armed : expire[t] <= expire[touched]
  /\ touched \in InRing => InOrder(prev[touched], next[touched])
  /\ pc[Main] = "Walk" => InOrder(prev[tmp], adding)

RingInv == TypeOK /\ ControlInv /\ LinkInv

Inv == RingInv /\ OrderInv /\ CycleInv

\* The list does for its users what IdleTimeouts promises.
Timeouts == INSTANCE IdleTimeouts WITH
  deadline <- [t \in Timers |-> IF t \in Armed THEN expire[t] ELSE NULL],
  sweep    <- IF pc[Main] \in {"Tick", "Unlink"} THEN curTime ELSE NULL,
  aborted  <- pc[Main] = "Ended"

\* A sweep closes every connection whose time has come and no other, although
\* it stops at the first timer that is not due.
StepsAreTimeoutSteps == Timeouts!SafeSpec

\* A sweep that can begin or go on does, and a connection whose time has come is
\* closed, unless it becomes active first.
IdleIsClosed == Timeouts!SweepsGoOn /\ Timeouts!IdleIsClosed

=============================================================================
