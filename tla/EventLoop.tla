------------------------------ MODULE EventLoop ------------------------------
(***************************************************************************)
(* One event loop of the reactor (utils/event_loop.c) with its epoll       *)
(* dispatcher (utils/event_dispatcher.c), the mutex-protected list of      *)
(* pending channel requests, and the socket pair that wakes the thread     *)
(* that owns the loop.                                                     *)
(*                                                                         *)
(* The owner is a worker of the thread pool.  The Producers are the other  *)
(* threads that ask for a channel to be added or removed: in this code the *)
(* main thread, which accepts connections and runs their timers.  The      *)
(* owner asks as well, from inside the callbacks of a connection.          *)
(*                                                                         *)
(* A step is what one thread does between two points at which another      *)
(* thread can observe it.  Memory allocation does not fail, and the growth *)
(* of the channel table is left out: a fd is added before anything else is *)
(* asked of it, and the list is FIFO, so a slot exists when it is used.    *)
(***************************************************************************)
EXTENDS Integers, Sequences

CONSTANTS
  Owner,        \* the thread that runs event_loop_run on this loop
  Producers,    \* the other threads that post requests to it
  Channels,     \* the channels of connections, each made once
  ConnFds,      \* the file descriptors accept() can return
  WakeFd,       \* socketPair[1], the read end of the wake-up pipe
  PipeCapacity, \* one-byte writes the socket pair holds before write blocks
  NULL          \* an empty slot of the channel table

BadFd == -1     \* what accept() returns when it fails

Requests == [type : {"ADD", "REMOVE", "UPDATE"}, channel : Channels]

ASSUME LoopAssumption ==
  /\ Owner \notin Producers
  /\ ConnFds \subseteq Nat
  /\ WakeFd \in Nat \ ConnFds
  /\ PipeCapacity \in Nat \ {0}
  /\ NULL \notin Channels \union Producers \union {Owner} \union Requests

VARIABLES
  mutex,           \* holder of eventLoop->mutex, NULL when it is free
  isHandlePending, \* eventLoop->is_handle_pending
  pending,         \* the list from pending_head to pending_tail
  cursor,          \* channelElement of event_loop_handle_pending_channel
  entries,         \* channelMap->entries
  interest,        \* the mask epoll watches a fd for, {} when it does not
  events,          \* channel->events
  fdOf,            \* channel->fd
  openFds,         \* descriptors of connections the process holds open
  wakeups,         \* bytes in the socket pair
  batch,           \* what epoll_wait returned and is still to be dispatched
  current,         \* the fd of batch being activated, BadFd between two
  pc, arg,         \* control point of a thread, and the request it posts
  inCallback,      \* the owner posts from a callback, not from the loop
  issued,          \* the requests the producers have made so far
  failure          \* "none", or how the process ended

table   == <<entries, interest, openFds>>
channel == <<events, fdOf>>
list    == <<mutex, isHandlePending, pending, cursor>>
owner   == <<batch, current, inCallback>>
vars    == <<list, table, channel, wakeups, owner, pc, arg, issued, failure>>

Threads == Producers \union {Owner}
AllFds  == ConnFds \union {WakeFd}

Request(t, c) == [type |-> t, channel |-> c]
Goto(t, l)    == pc' = [pc EXCEPT ![t] = l]

Init ==
  /\ mutex = NULL
  /\ isHandlePending = 0
  /\ pending = << >>
  /\ cursor = 1
  /\ entries = [f \in ConnFds |-> NULL]
  /\ interest = [f \in ConnFds |-> {}]
  /\ events = [c \in Channels |-> {}]
  /\ fdOf = [c \in Channels |-> BadFd]
  /\ openFds = {}
  /\ wakeups = 0
  /\ batch = [f \in AllFds |-> {}]
  /\ current = BadFd
  /\ pc = [t \in Threads |-> IF t = Owner THEN "Wait" ELSE "Idle"]
  /\ arg = [t \in Threads |-> NULL]
  /\ inCallback = FALSE
  /\ issued = {}
  /\ failure = "none"

-----------------------------------------------------------------------------
(* The process ends, and all its threads with it: a null dereference, or   *)
(* error(1, ...).                                                          *)
Die(how) ==
  /\ failure' = how
  /\ pc' = [t \in Threads |-> "Ended"]
  /\ UNCHANGED <<list, table, channel, wakeups, owner, arg, issued>>

(***************************************************************************)
(* The producers.  A connection is accepted and its channel posted; once   *)
(* posted, the timer of the connection may expire, and asks for the        *)
(* channel to be removed whatever the owner did with it meanwhile.         *)
(***************************************************************************)
Post(p, r) ==
  /\ pc[p] = "Idle"
  /\ r \notin issued
  /\ issued' = issued \union {r}
  /\ arg' = [arg EXCEPT ![p] = r]
  /\ Goto(p, "Lock")

\* accept() returns the lowest free descriptor, or fails when there is none.
AcceptedFd ==
  LET free == ConnFds \ openFds
  IN  IF free = {} THEN {BadFd} ELSE {f \in free : \A g \in free : f <= g}

Accept(p, c) ==
  \E fd \in AcceptedFd :
    /\ Post(p, Request("ADD", c))
    /\ fdOf' = [fdOf EXCEPT ![c] = fd]
    /\ events' = [events EXCEPT ![c] = {"R"}]
    /\ openFds' = openFds \union ({fd} \ {BadFd})
    /\ UNCHANGED <<list, entries, interest, wakeups, owner, failure>>

Timeout(p, c) ==
  /\ Request("ADD", c) \in issued
  /\ \A q \in Producers : arg[q] # Request("ADD", c)
  /\ Post(p, Request("REMOVE", c))
  /\ UNCHANGED <<list, table, channel, wakeups, owner, failure>>

(***************************************************************************)
(* event_loop_do_channel_event, run by any thread.                         *)
(***************************************************************************)
\* Mutant: the list is used without the mutex.
NoMutex == TRUE

MutexIsFree == mutex = NULL

Lock(t) ==
  /\ pc[t] = "Lock"
  /\ MutexIsFree
  /\ mutex' = t
  /\ Goto(t, "Buffer")
  /\ UNCHANGED <<isHandlePending, pending, cursor, table, channel, wakeups,
                 owner, arg, issued, failure>>

\* AssertHolds states the assert(is_handle_pending == 0) made here.
event_loop_channel_buffer_noblock(t) ==
  /\ pc[t] = "Buffer"
  /\ pending' = Append(pending, arg[t])
  /\ arg' = [arg EXCEPT ![t] = NULL]
  /\ Goto(t, "Unlock")
  /\ UNCHANGED <<mutex, isHandlePending, cursor, table, channel, wakeups,
                 owner, issued, failure>>

\* Mutant: a producer leaves without waking the owner up.
AfterUnlockNoWakeup(t) == IF t = Owner THEN "HandleLock" ELSE "Idle"
AfterUnlock(t)         == IF t = Owner THEN "HandleLock" ELSE "Wakeup"

Unlock(t) ==
  /\ pc[t] = "Unlock"
  /\ mutex' = NULL
  /\ Goto(t, AfterUnlock(t))
  /\ UNCHANGED <<isHandlePending, pending, cursor, table, channel, wakeups,
                 owner, arg, issued, failure>>

\* The socket pair is blocking: write waits while it is full.
event_loop_wakeup(p) ==
  /\ pc[p] = "Wakeup"
  /\ wakeups < PipeCapacity
  /\ wakeups' = wakeups + 1
  /\ Goto(p, "Idle")
  /\ UNCHANGED <<list, table, channel, owner, arg, issued, failure>>

(***************************************************************************)
(* event_loop_handle_pending_channel, run by the owner with the mutex.     *)
(***************************************************************************)
HandleLock ==
  /\ pc[Owner] = "HandleLock"
  /\ MutexIsFree
  /\ mutex' = Owner
  /\ isHandlePending' = 1
  /\ cursor' = 1
  /\ Goto(Owner, "Handle")
  /\ UNCHANGED <<pending, table, channel, wakeups, owner, arg, issued, failure>>

\* The request the walk of the list has reached.
AtRequest(type, c) ==
  /\ pc[Owner] = "Handle"
  /\ cursor <= Len(pending)
  /\ pending[cursor] = Request(type, c)

NextRequest ==
  /\ cursor' = cursor + 1
  /\ UNCHANGED <<mutex, isHandlePending, pending, openFds, channel, wakeups,
                 owner, pc, arg, issued, failure>>

\* entries[fd] decides whether a request reaches epoll_ctl at all.
CallsEpollCtl(type, fd) == fd # BadFd /\ (entries[fd] = NULL <=> type = "ADD")

CtlSucceeds(type, fd) ==
  IF type = "ADD" THEN fd \in openFds /\ interest[fd] = {} ELSE interest[fd] # {}

AppliesTo(type, c) ==
  /\ AtRequest(type, c)
  /\ CallsEpollCtl(type, fdOf[c])
  /\ CtlSucceeds(type, fdOf[c])

SkipsOver(type, c) ==
  /\ AtRequest(type, c)
  /\ ~CallsEpollCtl(type, fdOf[c])
  /\ UNCHANGED <<entries, interest>>
  /\ NextRequest

Watch(f, mask) == interest' = [interest EXCEPT ![f] = mask]

\* Mutant: a slot that is taken is overwritten.
AddOverwrites(c) ==
  /\ AtRequest("ADD", c)
  /\ fdOf[c] # BadFd
  /\ entries' = [entries EXCEPT ![fdOf[c]] = c]
  /\ Watch(fdOf[c], events[c])
  /\ NextRequest

\* A slot that is taken makes the request a no-op.
event_loop_handle_pending_add(c) ==
  \/ SkipsOver("ADD", c)
  \/ /\ AppliesTo("ADD", c)
     /\ entries' = [entries EXCEPT ![fdOf[c]] = c]
     /\ Watch(fdOf[c], events[c])
     /\ NextRequest

\* Mutant: the slot is emptied, but epoll keeps watching the fd.
RemoveWithoutDel(c) ==
  /\ AtRequest("REMOVE", c)
  /\ fdOf[c] # BadFd
  /\ entries' = [entries EXCEPT ![fdOf[c]] = NULL]
  /\ UNCHANGED interest
  /\ NextRequest

\* epoll_del reads entries[fd]->fd before anything checks the slot.
event_loop_handle_pending_remove(c) ==
  \/ fdOf[c] = BadFd /\ SkipsOver("REMOVE", c)
  \/ /\ AtRequest("REMOVE", c)
     /\ fdOf[c] # BadFd
     /\ entries[fdOf[c]] = NULL
     /\ Die("del_null")
  \/ /\ AppliesTo("REMOVE", c)
     /\ entries' = [entries EXCEPT ![fdOf[c]] = NULL]
     /\ Watch(fdOf[c], {})
     /\ NextRequest

\* Mutant: EVENT_WRITE is left out of the mask.
UpdateReadOnly(c) ==
  \/ SkipsOver("UPDATE", c)
  \/ AppliesTo("UPDATE", c) /\ Watch(fdOf[c], {"R"}) /\ UNCHANGED entries /\ NextRequest

\* epoll_update starts its mask from 1, which is EPOLLIN.
event_loop_handle_pending_update(c) ==
  \/ SkipsOver("UPDATE", c)
  \/ /\ AppliesTo("UPDATE", c)
     /\ Watch(fdOf[c], events[c] \union {"R"})
     /\ UNCHANGED entries
     /\ NextRequest

\* error(1, ...) in epoll_add, epoll_del or epoll_update ends the process.
EpollCtlFails(c) ==
  /\ \E type \in {"ADD", "REMOVE", "UPDATE"} :
       /\ AtRequest(type, c)
       /\ CallsEpollCtl(type, fdOf[c])
       /\ ~CtlSucceeds(type, fdOf[c])
  /\ Die("exit")

HandleDone ==
  /\ pc[Owner] = "Handle"
  /\ cursor > Len(pending)
  /\ pending' = << >>
  /\ cursor' = 1
  /\ isHandlePending' = 0
  /\ mutex' = NULL
  /\ inCallback' = FALSE
  /\ Goto(Owner, IF inCallback THEN "Dispatch" ELSE "Wait")
  /\ UNCHANGED <<table, channel, wakeups, batch, current, arg, issued, failure>>

(***************************************************************************)
(* epoll_dispatch.  epoll_wait returns a snapshot: fewer than MAXEVENTS    *)
(* descriptors are ready, the wake-up pipe is reported whenever it holds a *)
(* byte, and a signal makes the call return nothing.  The order of the     *)
(* events in the array is arbitrary.                                       *)
(***************************************************************************)
Masks == (SUBSET {"R", "W"}) \union {{"HUP"}}

EpollWait ==
  /\ pc[Owner] = "Wait"
  /\ \E ready \in [ConnFds -> Masks] :
       /\ \A f \in ConnFds :
            \/ ready[f] \subseteq interest[f]
            \/ ready[f] = {"HUP"} /\ interest[f] # {}
       /\ batch' = [f \in AllFds |->
                      IF f # WakeFd THEN ready[f]
                      ELSE IF wakeups > 0 THEN {"R"} ELSE {}]
  /\ Goto(Owner, "Dispatch")
  /\ UNCHANGED <<list, table, channel, wakeups, current, inCallback, arg,
                 issued, failure>>

\* EPOLLERR or EPOLLHUP: the fd is closed, which also takes it out of epoll.
DispatchHangup(f) ==
  /\ pc[Owner] = "Dispatch"
  /\ current = BadFd
  /\ batch[f] = {"HUP"}
  /\ openFds' = openFds \ {f}
  /\ Watch(f, {})
  /\ batch' = [batch EXCEPT ![f] = {}]
  /\ UNCHANGED <<list, entries, channel, wakeups, current, inCallback, pc, arg,
                 issued, failure>>

\* The next activation is for event e of fd f; EPOLLIN comes before EPOLLOUT.
Activating(f, e) ==
  /\ pc[Owner] = "Dispatch"
  /\ current \in {f, BadFd}
  /\ e \in batch[f]
  /\ e = "W" => "R" \notin batch[f]

EventDone(f, e) ==
  /\ batch' = [batch EXCEPT ![f] = @ \ {e}]
  /\ current' = IF batch[f] = {e} THEN BadFd ELSE f
  /\ UNCHANGED <<list, table, fdOf, issued, failure>>

handleWakeup ==
  /\ Activating(WakeFd, "R")
  /\ wakeups > 0
  /\ wakeups' = wakeups - 1
  /\ EventDone(WakeFd, "R")
  /\ UNCHANGED <<events, inCallback, pc, arg>>

\* channel_event_activate finds no channel for the fd and dereferences NULL.
ActivateNull(f) ==
  /\ \E e \in {"R", "W"} : Activating(f, e)
  /\ entries[f] = NULL
  /\ Die("activate_null")

\* The callback asks its own loop for a change of its own channel.
PostFromCallback(r) ==
  /\ arg' = [arg EXCEPT ![Owner] = r]
  /\ inCallback' = TRUE
  /\ Goto(Owner, "Lock")

\* eventReadCallback: data that needs no answer yet, an answer left in the
\* output buffer (write event enabled), or the end of the stream.
ReadCallback(f) ==
  LET c == entries[f] IN
  /\ Activating(f, "R")
  /\ c # NULL
  /\ EventDone(f, "R")
  /\ \/ UNCHANGED <<events, inCallback, pc, arg>>
     \/ /\ "W" \notin events[c]
        /\ events' = [events EXCEPT ![c] = @ \union {"W"}]
        /\ PostFromCallback(Request("UPDATE", c))
     \/ PostFromCallback(Request("REMOVE", c)) /\ UNCHANGED events
  /\ UNCHANGED wakeups

\* eventWriteCallback: part of the output is sent, or the last of it (write
\* event disabled).
WriteCallback(f) ==
  LET c == entries[f] IN
  /\ Activating(f, "W")
  /\ c # NULL
  /\ EventDone(f, "W")
  /\ \/ UNCHANGED <<events, inCallback, pc, arg>>
     \/ /\ events' = [events EXCEPT ![c] = @ \ {"W"}]
        /\ PostFromCallback(Request("UPDATE", c))
  /\ UNCHANGED wakeups

DispatchDone ==
  /\ pc[Owner] = "Dispatch"
  /\ \A f \in AllFds : batch[f] = {}
  /\ Goto(Owner, "HandleLock")
  /\ UNCHANGED <<list, table, channel, wakeups, owner, arg, issued, failure>>

-----------------------------------------------------------------------------
do_channel_event(t) ==
  \/ Lock(t)
  \/ event_loop_channel_buffer_noblock(t)
  \/ Unlock(t)

ProducerStep(p) == do_channel_event(p) \/ event_loop_wakeup(p)

HandlePending ==
  \/ HandleLock
  \/ \E c \in Channels : \/ event_loop_handle_pending_add(c)
                         \/ event_loop_handle_pending_remove(c)
                         \/ event_loop_handle_pending_update(c)
                         \/ EpollCtlFails(c)
  \/ HandleDone

Dispatch ==
  \/ handleWakeup
  \/ \E f \in ConnFds : \/ DispatchHangup(f)
                        \/ ActivateNull(f)
                        \/ ReadCallback(f)
                        \/ WriteCallback(f)
  \/ DispatchDone

OwnerStep == EpollWait \/ Dispatch \/ do_channel_event(Owner) \/ HandlePending

Next ==
  \/ OwnerStep
  \/ \E p \in Producers : \/ ProducerStep(p)
                          \/ \E c \in Channels : Accept(p, c) \/ Timeout(p, c)

\* The process has ended; nothing is left to run.
Ended == failure # "none" /\ UNCHANGED vars

SafeSpec == Init /\ [][Next \/ Ended]_vars

(***************************************************************************)
(* A thread that can run runs; a thread that waits for the mutex is not    *)
(* passed over for ever.  Nothing makes a peer send, a timer expire or a   *)
(* signal interrupt epoll_wait, so epoll_wait only has to return when the  *)
(* wake-up pipe holds a byte.                                              *)
(***************************************************************************)
Fairness ==
  /\ \A t \in Threads :
       /\ SF_vars(Lock(t))
       /\ WF_vars(event_loop_channel_buffer_noblock(t) \/ Unlock(t))
  /\ \A p \in Producers : WF_vars(event_loop_wakeup(p))
  /\ WF_vars(EpollWait /\ wakeups > 0)
  /\ WF_vars(Dispatch)
  /\ SF_vars(HandleLock)
  /\ WF_vars(HandlePending)

Spec == SafeSpec /\ Fairness

-----------------------------------------------------------------------------
Requested == {r \in Requests : \/ \E t \in Threads : arg[t] = r
                               \/ \E i \in cursor .. Len(pending) : pending[i] = r}

ListTypeOK ==
  /\ mutex \in Threads \union {NULL}
  /\ isHandlePending \in {0, 1}
  /\ pending \in Seq(Requests)
  /\ cursor \in 1 .. Len(pending) + 1

TableTypeOK ==
  /\ entries \in [ConnFds -> Channels \union {NULL}]
  /\ interest \in [ConnFds -> SUBSET {"R", "W"}]
  /\ openFds \subseteq ConnFds
  /\ events \in [Channels -> SUBSET {"R", "W"}]
  /\ fdOf \in [Channels -> ConnFds \union {BadFd}]

DispatchTypeOK ==
  /\ wakeups \in 0 .. PipeCapacity
  /\ batch \in [AllFds -> Masks]
  /\ current \in AllFds \union {BadFd}
  /\ inCallback \in BOOLEAN

Labels == {"Idle", "Lock", "Buffer", "Unlock", "Wakeup", "Wait", "Dispatch",
           "HandleLock", "Handle", "Ended"}

ThreadTypeOK ==
  /\ pc \in [Threads -> Labels]
  /\ arg \in [Threads -> Requests \union {NULL}]
  /\ issued \subseteq Requests
  /\ failure \in {"none", "activate_null", "del_null", "exit"}

\* Type invariant: the list, the table and epoll, the dispatcher, the threads.
TypeOK == ListTypeOK /\ TableTypeOK /\ DispatchTypeOK /\ ThreadTypeOK

\* The assert of event_loop_do_channel_event: no request is appended while
\* the owner walks the list.
AssertHolds == \A t \in Threads : pc[t] = "Buffer" => isHandlePending = 0

\* A request is never left behind: while the owner sleeps in epoll_wait, a
\* non-empty list means that a wake-up byte is in the pipe or about to be.
NoLostWakeup ==
  pc[Owner] = "Wait" /\ pending # << >> =>
    wakeups > 0 \/ \E p \in Producers : pc[p] \in {"Unlock", "Wakeup"}

\* handleWakeup reads a blocking socket, and never finds it empty.
WakeupReadNeverBlocks == batch[WakeFd] # {} => wakeups > 0

\* epoll only watches descriptors that are open and whose slot of the table
\* holds the channel made for them, so a fresh event has a channel to go to.
WatchedHasChannel ==
  \A f \in ConnFds :
    interest[f] # {} => f \in openFds /\ entries[f] # NULL /\ fdOf[entries[f]] = f

(***************************************************************************)
(* Why these hold: what the mutex protects, what a posted request says of  *)
(* its channel, and what the dispatcher knows of the wake-up pipe.         *)
(***************************************************************************)
MutexInv ==
  /\ \A t \in Threads : pc[t] \in {"Buffer", "Unlock", "Handle"} => mutex = t
  /\ isHandlePending = 1 => mutex = Owner /\ pc[Owner] \in {"Handle", "Ended"}

Asked(c) == Request("ADD", c) \in issued

AskedInv ==
  /\ \A t \in Threads : pc[t] \in {"Lock", "Buffer"} => arg[t] \in Requests
  /\ \A t \in Threads : arg[t] # NULL => Asked(arg[t].channel)
  /\ \A i \in 1 .. Len(pending) : Asked(pending[i].channel)
  /\ \A f \in ConnFds : entries[f] # NULL => Asked(entries[f])

PipeInv == batch[WakeFd] \subseteq {"R"} /\ WakeupReadNeverBlocks

(***************************************************************************)
(* Why the write interest follows: a descriptor whose channel is still to  *)
(* be added is open, silent and awaited by no other channel, so the owner, *)
(* which only asks to update a channel it is dispatching, finds that       *)
(* channel in its slot when it comes to the request.                       *)
(***************************************************************************)
PostInv ==
  /\ \A t \in Threads : arg[t] # NULL => pc[t] \in {"Lock", "Buffer", "Ended"}
  /\ \A p \in Producers : arg[p] # NULL => arg[p].type # "UPDATE"
  /\ isHandlePending = 0 => cursor = 1 /\ pc[Owner] # "Handle"
  /\ failure # "none" => \A t \in Threads : pc[t] = "Ended"

ConnectionInv ==
  /\ \A c \in Channels : fdOf[c] # BadFd => Asked(c)
  /\ \A f \in ConnFds : entries[f] # NULL => fdOf[entries[f]] = f
  /\ \A f \in ConnFds : batch[f] # {} => f \in openFds

Adding(c)   == Request("ADD", c) \in Requested
Updating(c) == Request("UPDATE", c) \in Requested

AddOnceInv ==
  /\ \A i, j \in 1 .. Len(pending) :
       pending[i] = pending[j] /\ pending[i].type = "ADD" => i = j
  /\ \A t, u \in Threads :
       arg[t] = arg[u] /\ arg[t] # NULL /\ arg[t].type = "ADD" => t = u
  /\ \A t \in Threads, i \in 1 .. Len(pending) :
       pending[i].type = "ADD" => arg[t] # pending[i]

AddInv ==
  \A c \in Channels : Adding(c) /\ fdOf[c] # BadFd =>
    /\ fdOf[c] \in openFds
    /\ interest[fdOf[c]] = {} /\ batch[fdOf[c]] = {}
    /\ \A d \in Channels \ {c} : fdOf[d] = fdOf[c] => ~Adding(d)

UpdateInv ==
  \A c \in Channels : Updating(c) =>
    /\ pc[Owner] \notin {"Wait", "Dispatch"}
    /\ fdOf[c] \in openFds
    /\ entries[fdOf[c]] \in {c, NULL}
    /\ \A d \in Channels : fdOf[d] = fdOf[c] => ~Adding(d)

\* The write interest epoll holds is the one the channel holds, unless a
\* request to update it is still on its way.
WriteInterestFollowsChannel ==
  \A f \in ConnFds :
    interest[f] # {} =>
      \/ "W" \in interest[f] <=> "W" \in events[entries[f]]
      \/ Updating(entries[f])

\* What epoll is told to watch is what the table and the channels say.
InterestFollowsTable == WatchedHasChannel /\ WriteInterestFollowsChannel

\* The inductive invariant behind AssertHolds, NoLostWakeup,
\* WakeupReadNeverBlocks and InterestFollowsTable.
Inv ==
  /\ TypeOK /\ MutexInv /\ AskedInv /\ PipeInv /\ NoLostWakeup /\ WatchedHasChannel
  /\ PostInv /\ ConnectionInv /\ AddOnceInv /\ AddInv /\ UpdateInv
  /\ WriteInterestFollowsChannel

\* The loop implements ChannelRegistry: what is queued is the part of the list
\* the owner has not reached.
Registry == INSTANCE ChannelRegistry WITH
  queue   <- SubSeq(pending, cursor, Len(pending)),
  aborted <- failure # "none"

\* Requests take effect once each and in the order in which the threads took
\* the mutex, whatever the callbacks, the timers and the wake-ups do: what a step
\* may do,
StepsAreRegistrySteps == Registry!SafeSpec

\* and what must happen: every request is applied, or the process ends.
RequestsAreApplied ==
  /\ Registry!RequestsTakeEffect
  /\ \A r \in Requests : r \in Requested ~> r \notin Requested \/ failure # "none"

\* Expected by the assert of channel_event_activate (event_loop.c:165): an
\* event that is dispatched belongs to the channel the table holds.
ActivateAssert == failure # "activate_null"

=============================================================================
