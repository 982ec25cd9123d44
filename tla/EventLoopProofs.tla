--------------------------- MODULE EventLoopProofs ---------------------------
(***************************************************************************)
(* Theorems about EventLoop, for any number of producers, channels and     *)
(* descriptors: types, the mutex, the wake-up pipe, what epoll watches,    *)
(* what becomes of a request until the owner applies it, and that every    *)
(* step is one ChannelRegistry allows.                                     *)
(***************************************************************************)
EXTENDS EventLoop, SequenceTheorems, TLAPS

-----------------------------------------------------------------------------
(* Types.                                                                  *)

\* Taking an event out of a mask that epoll_wait can return leaves such a mask.
LEMMA MaskWithoutEvent ==
  ASSUME NEW m \in Masks, NEW e \in {"R", "W"}, e \in m
  PROVE  m \ {e} \in Masks
<1>1. m # {"HUP"}
  OBVIOUS
<1>2. m \in SUBSET {"R", "W"}
  BY <1>1 DEF Masks
<1> QED
  BY <1>2 DEF Masks

\* The initial state is well typed.
LEMMA TypeInit == Init => TypeOK
<1> SUFFICES ASSUME Init PROVE TypeOK
  OBVIOUS
<1> USE LoopAssumption DEF Init, Threads
<1>1. ListTypeOK
  BY DEF ListTypeOK
<1>2. TableTypeOK
  BY DEF TableTypeOK
<1>3. DispatchTypeOK
  <2>1. {} \in Masks
    BY DEF Masks
  <2>2. batch \in [AllFds -> Masks]
    BY <2>1
  <2>3. wakeups \in 0 .. PipeCapacity
    OBVIOUS
  <2>4. inCallback \in BOOLEAN
    OBVIOUS
  <2> QED
    BY <2>2, <2>3, <2>4 DEF DispatchTypeOK
<1>4. ThreadTypeOK
  BY DEF ThreadTypeOK, Labels
<1> QED
  BY <1>1, <1>2, <1>3, <1>4 DEF TypeOK

\* The list of requests stays well typed.
LEMMA ListTypeStep == TypeOK /\ AskedInv /\ [Next \/ Ended]_vars => ListTypeOK'
<1> SUFFICES ASSUME TypeOK, AskedInv, [Next \/ Ended]_vars PROVE ListTypeOK'
  OBVIOUS
<1> USE LoopAssumption DEF TypeOK, ListTypeOK, Threads
<1>1. ASSUME NEW t \in Threads, Lock(t) PROVE ListTypeOK'
  BY <1>1 DEF Lock, MutexIsFree
<1>2. ASSUME NEW t \in Threads, event_loop_channel_buffer_noblock(t)
      PROVE  ListTypeOK'
  <2>1. arg[t] \in Requests
    BY <1>2 DEF event_loop_channel_buffer_noblock, AskedInv
  <2> QED
    BY <1>2, <2>1 DEF event_loop_channel_buffer_noblock
<1>3. ASSUME NEW t \in Threads, Unlock(t) PROVE ListTypeOK'
  BY <1>3 DEF Unlock
<1>4. CASE HandleLock
  BY <1>4 DEF HandleLock, MutexIsFree
<1>5. ASSUME NEW c \in Channels,
             \/ event_loop_handle_pending_add(c)
             \/ event_loop_handle_pending_remove(c)
             \/ event_loop_handle_pending_update(c)
             \/ EpollCtlFails(c)
      PROVE  ListTypeOK'
  <2>1. CASE UNCHANGED list
    BY <2>1 DEF list
  <2>2. CASE NextRequest /\ \E type : AtRequest(type, c)
    BY <2>2 DEF NextRequest, AtRequest
  <2> QED
    BY <1>5, <2>1, <2>2 DEF event_loop_handle_pending_add, SkipsOver, AppliesTo,
       event_loop_handle_pending_remove, event_loop_handle_pending_update,
       EpollCtlFails, Die
<1>6. CASE HandleDone
  BY <1>6 DEF HandleDone
<1>7. ASSUME NEW p \in Producers, NEW c \in Channels, Accept(p, c) \/ Timeout(p, c)
      PROVE  ListTypeOK'
  BY <1>7 DEF Accept, Timeout, list
<1>8. ASSUME NEW p \in Producers, event_loop_wakeup(p) PROVE ListTypeOK'
  BY <1>8 DEF event_loop_wakeup, list
<1>9. CASE EpollWait \/ Dispatch
  BY <1>9 DEF EpollWait, Dispatch, DispatchHangup, handleWakeup, ActivateNull, Die,
     ReadCallback, WriteCallback, EventDone, DispatchDone, list
<1>10. CASE UNCHANGED vars
  BY <1>10 DEF vars, list
<1> QED
  BY <1>1, <1>2, <1>3, <1>4, <1>5, <1>6, <1>7, <1>8, <1>9, <1>10
  DEF Next, Ended, OwnerStep, HandlePending, ProducerStep, do_channel_event

\* The table, the descriptors and the channels stay well typed.
LEMMA TableTypeStep == TypeOK /\ [Next \/ Ended]_vars => TableTypeOK'
<1> SUFFICES ASSUME TypeOK, [Next \/ Ended]_vars PROVE TableTypeOK'
  OBVIOUS
<1> USE LoopAssumption DEF TypeOK, TableTypeOK
<1>1. ASSUME NEW t \in Threads, do_channel_event(t) PROVE TableTypeOK'
  BY <1>1 DEF do_channel_event, Lock, event_loop_channel_buffer_noblock, Unlock,
     table, channel
<1>2. CASE HandleLock \/ HandleDone \/ EpollWait \/ handleWakeup \/ DispatchDone
  BY <1>2 DEF HandleLock, HandleDone, EpollWait, handleWakeup, EventDone,
     DispatchDone, table, channel
<1>3. ASSUME NEW c \in Channels, event_loop_handle_pending_add(c)
      PROVE  TableTypeOK'
  <2>1. CASE SkipsOver("ADD", c)
    BY <2>1 DEF SkipsOver, NextRequest, channel
  <2>2. CASE AppliesTo("ADD", c)
    <3>1. fdOf[c] \in ConnFds /\ events[c] \in SUBSET {"R", "W"}
      BY <2>2 DEF AppliesTo, CallsEpollCtl
    <3>2. CASE SkipsOver("ADD", c)
      BY <2>1, <3>2
    <3>3. CASE entries' = [entries EXCEPT ![fdOf[c]] = c] /\ Watch(fdOf[c], events[c])
               /\ NextRequest
      <4>1. interest' \in [ConnFds -> SUBSET {"R", "W"}]
        BY <3>1, <3>3 DEF Watch
      <4> QED
        BY <3>1, <3>3, <4>1 DEF NextRequest, channel
    <3> QED
      BY <1>3, <3>2, <3>3 DEF event_loop_handle_pending_add
  <2> QED
    BY <1>3, <2>1, <2>2 DEF event_loop_handle_pending_add
<1>4. ASSUME NEW c \in Channels, event_loop_handle_pending_remove(c)
      PROVE  TableTypeOK'
  BY <1>4 DEF event_loop_handle_pending_remove, SkipsOver, AppliesTo, CallsEpollCtl,
     Watch, NextRequest, channel, table, Die
<1>5. ASSUME NEW c \in Channels, event_loop_handle_pending_update(c)
      PROVE  TableTypeOK'
  <2>1. CASE SkipsOver("UPDATE", c)
    BY <2>1 DEF SkipsOver, NextRequest, channel
  <2>2. CASE /\ AppliesTo("UPDATE", c) /\ Watch(fdOf[c], events[c] \union {"R"})
             /\ UNCHANGED entries /\ NextRequest
    <3>1. fdOf[c] \in ConnFds /\ events[c] \union {"R"} \in SUBSET {"R", "W"}
      BY <2>2 DEF AppliesTo, CallsEpollCtl
    <3>2. interest' \in [ConnFds -> SUBSET {"R", "W"}]
      BY <2>2, <3>1 DEF Watch
    <3> QED
      BY <2>2, <3>2 DEF NextRequest, channel
  <2> QED
    BY <1>5, <2>1, <2>2 DEF event_loop_handle_pending_update
<1>6. ASSUME NEW c \in Channels, EpollCtlFails(c) PROVE TableTypeOK'
  BY <1>6 DEF EpollCtlFails, Die, table, channel
<1>7. ASSUME NEW p \in Producers, NEW c \in Channels, Accept(p, c) PROVE TableTypeOK'
  <2>1. PICK fd \in AcceptedFd :
          /\ fdOf' = [fdOf EXCEPT ![c] = fd]
          /\ events' = [events EXCEPT ![c] = {"R"}]
          /\ openFds' = openFds \union ({fd} \ {BadFd})
          /\ UNCHANGED <<entries, interest>>
    BY <1>7 DEF Accept
  <2>2. fd \in ConnFds \union {BadFd}
    BY DEF AcceptedFd
  <2> QED
    BY <2>1, <2>2
<1>8. ASSUME NEW p \in Producers, NEW c \in Channels, Timeout(p, c)
      PROVE  TableTypeOK'
  BY <1>8 DEF Timeout, table, channel
<1>9. ASSUME NEW p \in Producers, event_loop_wakeup(p) PROVE TableTypeOK'
  BY <1>9 DEF event_loop_wakeup, table, channel
<1>10. ASSUME NEW f \in ConnFds, DispatchHangup(f) PROVE TableTypeOK'
  BY <1>10 DEF DispatchHangup, Watch, channel
<1>11. ASSUME NEW f \in ConnFds, ActivateNull(f) PROVE TableTypeOK'
  BY <1>11 DEF ActivateNull, Die, table, channel
<1>12. ASSUME NEW f \in ConnFds, ReadCallback(f) \/ WriteCallback(f)
       PROVE  TableTypeOK'
  <2>1. entries[f] \in Channels
    BY <1>12 DEF ReadCallback, WriteCallback
  <2>2. UNCHANGED <<table, fdOf>>
    BY <1>12 DEF ReadCallback, WriteCallback, EventDone
  <2>3. events' \in [Channels -> SUBSET {"R", "W"}]
    BY <1>12, <2>1 DEF ReadCallback, WriteCallback
  <2> QED
    BY <2>2, <2>3 DEF table
<1>13. CASE UNCHANGED vars
  BY <1>13 DEF vars, table, channel
<1> QED
  BY <1>1, <1>2, <1>3, <1>4, <1>5, <1>6, <1>7, <1>8, <1>9, <1>10, <1>11, <1>12, <1>13
  DEF Next, Ended, OwnerStep, HandlePending, ProducerStep, Dispatch, Threads

\* What the dispatcher knows stays well typed.
LEMMA DispatchTypeStep == TypeOK /\ [Next \/ Ended]_vars => DispatchTypeOK'
<1> SUFFICES ASSUME TypeOK, [Next \/ Ended]_vars PROVE DispatchTypeOK'
  OBVIOUS
<1> USE LoopAssumption DEF TypeOK, DispatchTypeOK
<1>1. ASSUME NEW t \in Threads, do_channel_event(t) PROVE DispatchTypeOK'
  BY <1>1 DEF do_channel_event, Lock, event_loop_channel_buffer_noblock, Unlock, owner
<1>2. CASE HandlePending
  BY <1>2 DEF HandlePending, HandleLock, HandleDone, event_loop_handle_pending_add,
     event_loop_handle_pending_remove, event_loop_handle_pending_update, SkipsOver,
     EpollCtlFails, NextRequest, Die, owner
<1>3. CASE EpollWait
  <2>1. PICK ready \in [ConnFds -> Masks] :
          batch' = [f \in AllFds |-> IF f # WakeFd THEN ready[f]
                                     ELSE IF wakeups > 0 THEN {"R"} ELSE {}]
    BY <1>3 DEF EpollWait
  <2>2. {"R"} \in Masks /\ {} \in Masks
    BY DEF Masks
  <2>3. batch' \in [AllFds -> Masks]
    BY <2>1, <2>2 DEF AllFds
  <2> QED
    BY <1>3, <2>3 DEF EpollWait
<1>4. CASE DispatchDone
  BY <1>4 DEF DispatchDone, owner
<1>5. ASSUME NEW f \in ConnFds, DispatchHangup(f) PROVE DispatchTypeOK'
  BY <1>5 DEF DispatchHangup, Masks
<1>6. ASSUME NEW f \in ConnFds, ActivateNull(f) PROVE DispatchTypeOK'
  BY <1>6 DEF ActivateNull, Die, owner
<1>7. ASSUME NEW f \in AllFds, NEW e \in {"R", "W"}, Activating(f, e), EventDone(f, e)
      PROVE  batch' \in [AllFds -> Masks] /\ current' \in AllFds \union {BadFd}
  <2>1. batch[f] \ {e} \in Masks
    BY <1>7, MaskWithoutEvent DEF Activating
  <2> QED
    BY <1>7, <2>1 DEF EventDone
<1>8. CASE handleWakeup
  BY <1>8, <1>7 DEF handleWakeup, AllFds
<1>9. ASSUME NEW f \in ConnFds, ReadCallback(f) PROVE DispatchTypeOK'
  <2>1. Activating(f, "R") /\ EventDone(f, "R") /\ UNCHANGED wakeups
    BY <1>9 DEF ReadCallback
  <2>2. inCallback' \in BOOLEAN
    BY <1>9 DEF ReadCallback, PostFromCallback
  <2> QED
    BY <1>7, <2>1, <2>2 DEF AllFds
<1>10. ASSUME NEW f \in ConnFds, WriteCallback(f) PROVE DispatchTypeOK'
  <2>1. Activating(f, "W") /\ EventDone(f, "W") /\ UNCHANGED wakeups
    BY <1>10 DEF WriteCallback
  <2>2. inCallback' \in BOOLEAN
    BY <1>10 DEF WriteCallback, PostFromCallback
  <2> QED
    BY <1>7, <2>1, <2>2 DEF AllFds
<1>11. ASSUME NEW p \in Producers, NEW c \in Channels, Accept(p, c) \/ Timeout(p, c)
       PROVE  DispatchTypeOK'
  BY <1>11 DEF Accept, Timeout, owner
<1>12. ASSUME NEW p \in Producers, event_loop_wakeup(p) PROVE DispatchTypeOK'
  BY <1>12 DEF event_loop_wakeup, owner
<1>13. CASE UNCHANGED vars
  BY <1>13 DEF vars, owner
<1> QED
  BY <1>1, <1>2, <1>3, <1>4, <1>5, <1>6, <1>8, <1>9, <1>10, <1>11, <1>12, <1>13
  DEF Next, Ended, OwnerStep, ProducerStep, Dispatch, Threads

\* Control points, posted requests and the outcome stay well typed.
LEMMA ThreadTypeStep == TypeOK /\ [Next \/ Ended]_vars => ThreadTypeOK'
<1> SUFFICES ASSUME TypeOK, [Next \/ Ended]_vars PROVE ThreadTypeOK'
  OBVIOUS
<1> USE LoopAssumption DEF TypeOK, ThreadTypeOK, Threads, Labels
<1>1. ASSUME NEW t \in Threads, do_channel_event(t) PROVE ThreadTypeOK'
  BY <1>1 DEF do_channel_event, Lock, event_loop_channel_buffer_noblock, Unlock,
     AfterUnlock, Goto
<1>2. CASE HandleLock \/ HandleDone \/ EpollWait \/ DispatchDone
  BY <1>2 DEF HandleLock, HandleDone, EpollWait, DispatchDone, Goto
<1>3. ASSUME NEW how \in {"activate_null", "del_null", "exit"}, Die(how)
      PROVE  ThreadTypeOK'
  BY <1>3 DEF Die
<1>4. ASSUME NEW c \in Channels,
             \/ event_loop_handle_pending_add(c)
             \/ event_loop_handle_pending_remove(c)
             \/ event_loop_handle_pending_update(c)
             \/ EpollCtlFails(c)
      PROVE  ThreadTypeOK'
  <2>1. CASE NextRequest
    BY <2>1 DEF NextRequest
  <2> QED
    BY <1>3, <1>4, <2>1 DEF event_loop_handle_pending_add, SkipsOver,
       event_loop_handle_pending_remove, event_loop_handle_pending_update, EpollCtlFails
<1>5. ASSUME NEW r \in Requests, PostFromCallback(r), UNCHANGED <<issued, failure>>
      PROVE  ThreadTypeOK'
  BY <1>5 DEF PostFromCallback, Goto
<1>6. ASSUME NEW f \in ConnFds, ReadCallback(f) \/ WriteCallback(f)
      PROVE  ThreadTypeOK'
  <2>1. entries[f] \in Channels
    BY <1>6 DEF ReadCallback, WriteCallback, TableTypeOK
  <2>2. /\ Request("UPDATE", entries[f]) \in Requests
        /\ Request("REMOVE", entries[f]) \in Requests
    BY <2>1 DEF Request, Requests
  <2> QED
    BY <1>5, <1>6, <2>2 DEF ReadCallback, WriteCallback, EventDone
<1>7. ASSUME NEW f \in ConnFds, DispatchHangup(f) \/ ActivateNull(f) PROVE ThreadTypeOK'
  BY <1>3, <1>7 DEF DispatchHangup, ActivateNull
<1>8. CASE handleWakeup
  BY <1>8 DEF handleWakeup, EventDone
<1>9. ASSUME NEW p \in Producers, NEW r \in Requests, Post(p, r), UNCHANGED failure
      PROVE  ThreadTypeOK'
  BY <1>9 DEF Post, Goto
<1>10. ASSUME NEW p \in Producers, NEW c \in Channels, Accept(p, c) \/ Timeout(p, c)
       PROVE  ThreadTypeOK'
  <2>1. Request("ADD", c) \in Requests /\ Request("REMOVE", c) \in Requests
    BY DEF Request, Requests
  <2> QED
    BY <1>9, <1>10, <2>1 DEF Accept, Timeout
<1>11. ASSUME NEW p \in Producers, event_loop_wakeup(p) PROVE ThreadTypeOK'
  BY <1>11 DEF event_loop_wakeup, Goto
<1>12. CASE UNCHANGED vars
  BY <1>12 DEF vars
<1> QED
  BY <1>1, <1>2, <1>4, <1>6, <1>7, <1>8, <1>10, <1>11, <1>12
  DEF Next, Ended, OwnerStep, HandlePending, ProducerStep, Dispatch

\* One step keeps every type.
LEMMA TypeStep == TypeOK /\ AskedInv /\ [Next \/ Ended]_vars => TypeOK'
BY ListTypeStep, TableTypeStep, DispatchTypeStep, ThreadTypeStep DEF TypeOK

-----------------------------------------------------------------------------
(* The mutex.                                                              *)

\* Only the holder of the mutex stands at a point the mutex protects, and the
\* owner holds it while is_handle_pending is set.
LEMMA MutexStep == TypeOK /\ MutexInv /\ [Next \/ Ended]_vars => MutexInv'
<1> SUFFICES ASSUME TypeOK, MutexInv, [Next \/ Ended]_vars PROVE MutexInv'
  OBVIOUS
<1> USE LoopAssumption DEF TypeOK, ListTypeOK, ThreadTypeOK, MutexInv, Threads
<1>1. ASSUME NEW t \in Threads, Lock(t) PROVE MutexInv'
  BY <1>1 DEF Lock, MutexIsFree, Goto
<1>2. ASSUME NEW t \in Threads, event_loop_channel_buffer_noblock(t) PROVE MutexInv'
  BY <1>2 DEF event_loop_channel_buffer_noblock, Goto
<1>3. ASSUME NEW t \in Threads, Unlock(t) PROVE MutexInv'
  BY <1>3 DEF Unlock, AfterUnlock, Goto
<1>4. CASE HandleLock
  BY <1>4 DEF HandleLock, MutexIsFree, Goto
<1>5. CASE HandleDone
  BY <1>5 DEF HandleDone, Goto
<1>6. ASSUME NEW how, Die(how), pc[Owner] \in {"Handle", "Dispatch"} PROVE MutexInv'
  BY <1>6 DEF Die, list
<1>7. CASE UNCHANGED <<list, pc>>
  BY <1>7 DEF list
<1>8. ASSUME NEW c \in Channels,
             \/ event_loop_handle_pending_add(c)
             \/ event_loop_handle_pending_remove(c)
             \/ event_loop_handle_pending_update(c)
             \/ EpollCtlFails(c)
      PROVE  MutexInv'
  <2>1. CASE NextRequest
    BY <2>1 DEF NextRequest
  <2> QED
    BY <1>6, <1>8, <2>1 DEF event_loop_handle_pending_add, SkipsOver, AtRequest,
       event_loop_handle_pending_remove, event_loop_handle_pending_update, EpollCtlFails
<1>9. ASSUME NEW t \in Threads, NEW l \in {"Lock", "Idle", "Dispatch", "HandleLock"},
             UNCHANGED list, Goto(t, l), pc[t] \notin {"Handle", "Ended"}
      PROVE  MutexInv'
  BY <1>9 DEF Goto, list
<1>10. ASSUME NEW p \in Producers, event_loop_wakeup(p) PROVE MutexInv'
  BY <1>9, <1>10 DEF event_loop_wakeup
<1>11. ASSUME NEW p \in Producers, NEW c \in Channels, Accept(p, c) \/ Timeout(p, c)
       PROVE  MutexInv'
  BY <1>9, <1>11 DEF Accept, Timeout, Post
<1>12. CASE EpollWait \/ DispatchDone
  BY <1>9, <1>12 DEF EpollWait, DispatchDone
<1>13. ASSUME NEW f \in ConnFds, ActivateNull(f) PROVE MutexInv'
  BY <1>6, <1>13 DEF ActivateNull, Activating
<1>14. ASSUME NEW f \in ConnFds,
              DispatchHangup(f) \/ ReadCallback(f) \/ WriteCallback(f)
       PROVE  MutexInv'
  BY <1>7, <1>9, <1>14 DEF DispatchHangup, ReadCallback, WriteCallback,
     EventDone, Activating, PostFromCallback
<1>15. CASE handleWakeup
  BY <1>7, <1>15 DEF handleWakeup, EventDone
<1>16. CASE UNCHANGED vars
  BY <1>7, <1>16 DEF vars, list
<1> QED
  BY <1>1, <1>2, <1>3, <1>4, <1>5, <1>8, <1>10, <1>11, <1>12, <1>13, <1>14, <1>15, <1>16
  DEF Next, Ended, OwnerStep, HandlePending, ProducerStep, do_channel_event, Dispatch

-----------------------------------------------------------------------------
(* Requests, descriptors and wake-ups.                                     *)

\* A thread only asks for something to be done with a channel that the
\* producers have asked to add.
LEMMA AskedStep == TypeOK /\ AskedInv /\ [Next \/ Ended]_vars => AskedInv'
<1> SUFFICES ASSUME TypeOK, AskedInv, [Next \/ Ended]_vars PROVE AskedInv'
  OBVIOUS
<1> USE LoopAssumption DEF TypeOK, ThreadTypeOK, ListTypeOK, AskedInv, Asked, Threads
<1>1. ASSUME UNCHANGED <<pending, entries, arg>>, issued \subseteq issued',
             \A t \in Threads : pc'[t] \in {"Lock", "Buffer"} =>
                                pc[t] \in {"Lock", "Buffer"}
      PROVE  AskedInv'
  BY <1>1
<1>2. ASSUME NEW t \in Threads, NEW r \in Requests, arg' = [arg EXCEPT ![t] = r],
             UNCHANGED <<pending, entries>>, issued \subseteq issued', Goto(t, "Lock"),
             Request("ADD", r.channel) \in issued'
      PROVE  AskedInv'
  BY <1>2 DEF Goto
<1>3. ASSUME NEW t \in Threads, Lock(t) PROVE AskedInv'
  BY <1>1, <1>3 DEF Lock, MutexIsFree, Goto, table
<1>4. ASSUME NEW t \in Threads, event_loop_channel_buffer_noblock(t) PROVE AskedInv'
  <2>1. /\ arg[t] \in Requests
        /\ pending' = Append(pending, arg[t])
        /\ arg' = [arg EXCEPT ![t] = NULL]
        /\ pc' = [pc EXCEPT ![t] = "Unlock"]
        /\ UNCHANGED <<entries, issued>>
    BY <1>4 DEF event_loop_channel_buffer_noblock, Goto, table
  <2>2. Asked(arg[t].channel)
    BY <2>1
  <2>3. \A i \in 1 .. Len(pending') : Asked(pending'[i].channel)
    BY <2>1, <2>2
  <2> QED
    BY <2>1, <2>3
<1>5. ASSUME NEW t \in Threads, Unlock(t) PROVE AskedInv'
  BY <1>1, <1>5 DEF Unlock, AfterUnlock, Goto, table
<1>6. CASE HandleLock
  BY <1>1, <1>6 DEF HandleLock, MutexIsFree, Goto, table
<1>7. CASE HandleDone
  BY <1>7 DEF HandleDone, Goto, table
<1>8. ASSUME NEW how, Die(how) PROVE AskedInv'
  BY <1>8 DEF Die, list, table
<1>9. ASSUME NEW c \in Channels, event_loop_handle_pending_add(c) PROVE AskedInv'
  <2>1. Asked(c) /\ UNCHANGED <<pending, arg, issued, pc>>
    BY <1>9 DEF event_loop_handle_pending_add, SkipsOver, AppliesTo, AtRequest,
       NextRequest, Request
  <2>2. \A f \in ConnFds : entries'[f] \in {entries[f], c}
    BY <1>9 DEF event_loop_handle_pending_add, SkipsOver, TableTypeOK
  <2> QED
    BY <2>1, <2>2
<1>10. ASSUME NEW c \in Channels, event_loop_handle_pending_remove(c) PROVE AskedInv'
  <2>1. CASE Die("del_null")
    BY <1>8, <2>1
  <2>2. CASE NextRequest
    <3>1. \A f \in ConnFds : entries'[f] \in {entries[f], NULL}
      BY <1>10, <2>2 DEF event_loop_handle_pending_remove, SkipsOver, TableTypeOK,
         Die, table
    <3> QED
      BY <2>2, <3>1 DEF NextRequest
  <2> QED
    BY <1>10, <2>1, <2>2 DEF event_loop_handle_pending_remove, SkipsOver
<1>11. ASSUME NEW c \in Channels, event_loop_handle_pending_update(c) PROVE AskedInv'
  BY <1>1, <1>11 DEF event_loop_handle_pending_update, SkipsOver, NextRequest
<1>12. ASSUME NEW c \in Channels, EpollCtlFails(c) PROVE AskedInv'
  BY <1>8, <1>12 DEF EpollCtlFails
<1>13. CASE EpollWait \/ DispatchDone
  BY <1>1, <1>13 DEF EpollWait, DispatchDone, Goto, list, table
<1>14. ASSUME NEW f \in ConnFds, DispatchHangup(f) PROVE AskedInv'
  BY <1>1, <1>14 DEF DispatchHangup, list
<1>15. ASSUME NEW f \in ConnFds, ActivateNull(f) PROVE AskedInv'
  BY <1>8, <1>15 DEF ActivateNull
<1>16. CASE handleWakeup
  BY <1>1, <1>16 DEF handleWakeup, EventDone, list, table
<1>17. ASSUME NEW f \in ConnFds, ReadCallback(f) \/ WriteCallback(f) PROVE AskedInv'
  <2>1. /\ entries[f] \in Channels
        /\ Asked(entries[f])
        /\ UNCHANGED <<pending, entries, issued>>
    BY <1>17 DEF ReadCallback, WriteCallback, EventDone, list, table, TableTypeOK
  <2>2. CASE UNCHANGED <<pc, arg>>
    BY <1>1, <2>1, <2>2
  <2>3. ASSUME NEW type \in {"UPDATE", "REMOVE"},
               PostFromCallback(Request(type, entries[f]))
        PROVE  AskedInv'
    <3>1. /\ Request(type, entries[f]) \in Requests
          /\ Request(type, entries[f]).channel = entries[f]
      BY <2>1 DEF Request, Requests
    <3> QED
      BY <1>2, <2>1, <2>3, <3>1 DEF PostFromCallback
  <2> QED
    BY <1>17, <2>2, <2>3 DEF ReadCallback, WriteCallback
<1>18. ASSUME NEW p \in Producers, NEW c \in Channels, Accept(p, c) \/ Timeout(p, c)
       PROVE  AskedInv'
  <2>1. /\ Request("ADD", c) \in Requests /\ Request("ADD", c).channel = c
        /\ Request("REMOVE", c) \in Requests /\ Request("REMOVE", c).channel = c
    BY DEF Request, Requests
  <2> QED
    BY <1>2, <1>18, <2>1 DEF Accept, Timeout, Post, list, table
<1>19. ASSUME NEW p \in Producers, event_loop_wakeup(p) PROVE AskedInv'
  BY <1>1, <1>19 DEF event_loop_wakeup, Goto, list, table
<1>20. CASE UNCHANGED vars
  BY <1>1, <1>20 DEF vars, list, table
<1> QED
  BY <1>3, <1>4, <1>5, <1>6, <1>7, <1>9, <1>10, <1>11, <1>12, <1>13, <1>14, <1>15,
     <1>16, <1>17, <1>18, <1>19, <1>20
  DEF Next, Ended, OwnerStep, HandlePending, ProducerStep, do_channel_event, Dispatch

\* The wake-up pipe is reported only while it holds a byte, and only the owner
\* takes one out.
LEMMA PipeStep == TypeOK /\ PipeInv /\ [Next \/ Ended]_vars => PipeInv'
<1> SUFFICES ASSUME TypeOK, PipeInv, [Next \/ Ended]_vars PROVE PipeInv'
  OBVIOUS
<1> USE LoopAssumption DEF TypeOK, DispatchTypeOK, PipeInv, WakeupReadNeverBlocks, AllFds
<1>1. ASSUME batch'[WakeFd] = batch[WakeFd], wakeups' \in {wakeups, wakeups + 1}
      PROVE  PipeInv'
  BY <1>1
<1>2. CASE EpollWait
  BY <1>2 DEF EpollWait
<1>3. CASE handleWakeup
  <2>1. batch[WakeFd] = {"R"}
    BY <1>3 DEF handleWakeup, Activating
  <2> QED
    BY <1>3, <2>1 DEF handleWakeup, EventDone
<1>4. ASSUME NEW f \in ConnFds,
             \/ DispatchHangup(f)
             \/ ActivateNull(f)
             \/ ReadCallback(f)
             \/ WriteCallback(f)
      PROVE  PipeInv'
  <2>1. f # WakeFd
    OBVIOUS
  <2> QED
    BY <1>1, <1>4, <2>1 DEF DispatchHangup, ActivateNull, ReadCallback, WriteCallback,
       EventDone, Die, owner
<1>5. CASE DispatchDone \/ HandlePending
  BY <1>1, <1>5 DEF DispatchDone, HandlePending, HandleLock, HandleDone, SkipsOver,
     event_loop_handle_pending_add, event_loop_handle_pending_remove, EpollCtlFails,
     event_loop_handle_pending_update, NextRequest, Die, owner
<1>6. ASSUME NEW t \in Threads, do_channel_event(t) PROVE PipeInv'
  BY <1>1, <1>6 DEF do_channel_event, Lock, event_loop_channel_buffer_noblock, Unlock,
     owner
<1>7. ASSUME NEW p \in Producers, event_loop_wakeup(p) PROVE PipeInv'
  BY <1>1, <1>7 DEF event_loop_wakeup, owner
<1>8. ASSUME NEW p \in Producers, NEW c \in Channels, Accept(p, c) \/ Timeout(p, c)
      PROVE  PipeInv'
  BY <1>1, <1>8 DEF Accept, Timeout, owner
<1>9. CASE UNCHANGED vars
  BY <1>1, <1>9 DEF vars, owner
<1> QED
  BY <1>2, <1>3, <1>4, <1>5, <1>6, <1>7, <1>8, <1>9
  DEF Next, Ended, OwnerStep, ProducerStep, Dispatch, Threads

\* Whoever fills the list wakes the owner up before it can sleep on it.
LEMMA WakeupStep == TypeOK /\ NoLostWakeup /\ [Next \/ Ended]_vars => NoLostWakeup'
<1> SUFFICES ASSUME TypeOK, NoLostWakeup, [Next \/ Ended]_vars,
                    pc'[Owner] = "Wait", pending' # << >>
             PROVE  wakeups' > 0 \/ \E p \in Producers : pc'[p] \in {"Unlock", "Wakeup"}
  BY DEF NoLostWakeup
<1> DEFINE Safe == wakeups' > 0 \/ \E p \in Producers : pc'[p] \in {"Unlock", "Wakeup"}
<1> USE LoopAssumption DEF TypeOK, ThreadTypeOK, DispatchTypeOK, NoLostWakeup, Threads
<1>1. CASE UNCHANGED <<pc, pending, wakeups>>
  BY <1>1
<1>2. ASSUME NEW p \in Producers, NEW l \in {"Lock", "Buffer"}, Goto(p, l),
             UNCHANGED <<pending, wakeups>>, pc[p] \notin {"Unlock", "Wakeup"}
      PROVE  Safe
  BY <1>2 DEF Goto
<1>3. ASSUME NEW l \in Labels \ {"Wait"}, Goto(Owner, l) PROVE Safe
  BY <1>3 DEF Goto
<1>4. ASSUME NEW how, Die(how) PROVE Safe
  BY <1>4 DEF Die
<1>5. ASSUME NEW p \in Producers, do_channel_event(p) PROVE Safe
  <2>1. CASE Lock(p)
    BY <1>2, <2>1 DEF Lock, MutexIsFree
  <2>2. CASE event_loop_channel_buffer_noblock(p)
    BY <2>2 DEF event_loop_channel_buffer_noblock, Goto
  <2>3. CASE Unlock(p)
    BY <2>3 DEF Unlock, AfterUnlock, Goto
  <2> QED
    BY <1>5, <2>1, <2>2, <2>3 DEF do_channel_event
<1>6. ASSUME NEW p \in Producers, event_loop_wakeup(p) PROVE Safe
  BY <1>6 DEF event_loop_wakeup
<1>7. ASSUME NEW p \in Producers, NEW c \in Channels, Accept(p, c) \/ Timeout(p, c)
      PROVE  Safe
  BY <1>2, <1>7 DEF Accept, Timeout, Post, list
<1>8. CASE do_channel_event(Owner)
  BY <1>3, <1>8 DEF do_channel_event, Lock, event_loop_channel_buffer_noblock, Unlock,
     AfterUnlock, Labels
<1>9. CASE HandleLock \/ EpollWait \/ DispatchDone
  BY <1>3, <1>9 DEF HandleLock, MutexIsFree, EpollWait, DispatchDone, Labels
<1>10. CASE HandleDone
  BY <1>10 DEF HandleDone
<1>11. ASSUME NEW c \in Channels,
              \/ event_loop_handle_pending_add(c)
              \/ event_loop_handle_pending_remove(c)
              \/ event_loop_handle_pending_update(c)
              \/ EpollCtlFails(c)
       PROVE  Safe
  BY <1>1, <1>4, <1>11 DEF event_loop_handle_pending_add, SkipsOver, EpollCtlFails,
     event_loop_handle_pending_remove, event_loop_handle_pending_update, NextRequest
<1>12. CASE handleWakeup
  BY <1>12 DEF handleWakeup, Activating
<1>13. ASSUME NEW f \in ConnFds, DispatchHangup(f) \/ ActivateNull(f) PROVE Safe
  BY <1>1, <1>4, <1>13 DEF DispatchHangup, ActivateNull, list
<1>14. ASSUME NEW f \in ConnFds, ReadCallback(f) \/ WriteCallback(f) PROVE Safe
  BY <1>1, <1>3, <1>14 DEF ReadCallback, WriteCallback, EventDone, PostFromCallback,
     Labels, list
<1>15. CASE UNCHANGED vars
  BY <1>1, <1>15 DEF vars, list
<1> QED
  BY <1>5, <1>6, <1>7, <1>8, <1>9, <1>10, <1>11, <1>12, <1>13, <1>14, <1>15
  DEF Next, Ended, OwnerStep, HandlePending, ProducerStep, Dispatch

\* What epoll watches is open and has its channel in the table.
LEMMA WatchStep ==
  TypeOK /\ AskedInv /\ WatchedHasChannel /\ [Next \/ Ended]_vars => WatchedHasChannel'
<1> SUFFICES ASSUME TypeOK, AskedInv, WatchedHasChannel, [Next \/ Ended]_vars
             PROVE  WatchedHasChannel'
  OBVIOUS
<1> USE LoopAssumption DEF TypeOK, TableTypeOK, WatchedHasChannel
<1>1. CASE UNCHANGED <<table, fdOf>>
  BY <1>1 DEF table
<1>2. ASSUME NEW c \in Channels, event_loop_handle_pending_add(c)
      PROVE  WatchedHasChannel'
  <2>1. CASE UNCHANGED <<entries, interest>> /\ NextRequest
    BY <2>1 DEF NextRequest, channel
  <2>2. CASE /\ AppliesTo("ADD", c)
             /\ entries' = [entries EXCEPT ![fdOf[c]] = c]
             /\ Watch(fdOf[c], events[c])
             /\ NextRequest
    BY <2>2 DEF AppliesTo, CtlSucceeds, CallsEpollCtl, Watch, NextRequest, channel
  <2> QED
    BY <1>2, <2>1, <2>2 DEF event_loop_handle_pending_add, SkipsOver
<1>3. ASSUME NEW c \in Channels, event_loop_handle_pending_remove(c)
      PROVE  WatchedHasChannel'
  <2>1. CASE UNCHANGED <<entries, interest>> /\ NextRequest
    BY <2>1 DEF NextRequest, channel
  <2>2. CASE /\ AppliesTo("REMOVE", c)
             /\ entries' = [entries EXCEPT ![fdOf[c]] = NULL]
             /\ Watch(fdOf[c], {})
             /\ NextRequest
    BY <2>2 DEF AppliesTo, CallsEpollCtl, Watch, NextRequest, channel
  <2>3. CASE Die("del_null")
    BY <1>1, <2>3 DEF Die, channel
  <2> QED
    BY <1>3, <2>1, <2>2, <2>3 DEF event_loop_handle_pending_remove, SkipsOver
<1>4. ASSUME NEW c \in Channels, event_loop_handle_pending_update(c)
      PROVE  WatchedHasChannel'
  <2>1. CASE UNCHANGED <<entries, interest>> /\ NextRequest
    BY <2>1 DEF NextRequest, channel
  <2>2. CASE /\ AppliesTo("UPDATE", c)
             /\ Watch(fdOf[c], events[c] \union {"R"})
             /\ UNCHANGED entries
             /\ NextRequest
    <3>1. interest[fdOf[c]] # {} /\ fdOf[c] \in ConnFds
      BY <2>2 DEF AppliesTo, CtlSucceeds, CallsEpollCtl
    <3> QED
      BY <2>2, <3>1 DEF Watch, NextRequest, channel
  <2> QED
    BY <1>4, <2>1, <2>2 DEF event_loop_handle_pending_update, SkipsOver
<1>5. ASSUME NEW p \in Producers, NEW c \in Channels, Accept(p, c)
      PROVE  WatchedHasChannel'
  <2>1. /\ ~Asked(c)
        /\ UNCHANGED <<entries, interest>>
        /\ openFds \subseteq openFds'
        /\ \A d \in Channels : d # c => fdOf'[d] = fdOf[d]
    BY <1>5 DEF Accept, Post, Asked
  <2>2. \A f \in ConnFds : entries[f] # c
    BY <2>1 DEF AskedInv, LoopAssumption
  <2> QED
    BY <2>1, <2>2
<1>6. ASSUME NEW f \in ConnFds, DispatchHangup(f) PROVE WatchedHasChannel'
  BY <1>6 DEF DispatchHangup, Watch, channel
<1>7. ASSUME NEW p \in Producers, NEW c \in Channels, Timeout(p, c)
      PROVE  WatchedHasChannel'
  BY <1>1, <1>7 DEF Timeout, channel
<1>8. ASSUME NEW p \in Producers, event_loop_wakeup(p) PROVE WatchedHasChannel'
  BY <1>1, <1>8 DEF event_loop_wakeup, channel
<1>9. ASSUME NEW t \in Threads, do_channel_event(t) PROVE WatchedHasChannel'
  BY <1>1, <1>9 DEF do_channel_event, Lock, event_loop_channel_buffer_noblock, Unlock,
     channel
<1>10. CASE HandleLock \/ HandleDone \/ EpollWait \/ DispatchDone \/ handleWakeup
  BY <1>1, <1>10 DEF HandleLock, HandleDone, EpollWait, DispatchDone, handleWakeup,
     EventDone, channel
<1>11. ASSUME NEW c \in Channels, EpollCtlFails(c) PROVE WatchedHasChannel'
  BY <1>1, <1>11 DEF EpollCtlFails, Die, channel
<1>12. ASSUME NEW f \in ConnFds, ActivateNull(f) \/ ReadCallback(f) \/ WriteCallback(f)
       PROVE  WatchedHasChannel'
  BY <1>1, <1>12 DEF ActivateNull, ReadCallback, WriteCallback, EventDone, Die, channel
<1>13. CASE UNCHANGED vars
  BY <1>1, <1>13 DEF vars, channel
<1> QED
  BY <1>2, <1>3, <1>4, <1>5, <1>6, <1>7, <1>8, <1>9, <1>10, <1>11, <1>12, <1>13
  DEF Next, Ended, OwnerStep, HandlePending, ProducerStep, Dispatch, Threads

-----------------------------------------------------------------------------
(* The requests under way.                                                 *)

\* Asking for r puts r among the requests under way.
LEMMA RequestPosted ==
  ASSUME TypeOK, NEW t \in Threads, NEW r \in Requests, arg[t] = NULL,
         arg' = [arg EXCEPT ![t] = r], UNCHANGED <<pending, cursor>>
  PROVE  Requested' = Requested \union {r}
BY LoopAssumption DEF TypeOK, ThreadTypeOK, Requested

\* Appending the request a thread holds changes none of those under way.
LEMMA RequestBuffered ==
  ASSUME TypeOK, AskedInv, NEW t \in Threads, event_loop_channel_buffer_noblock(t)
  PROVE  Requested' = Requested
<1>1. /\ arg[t] \in Requests
      /\ arg' = [arg EXCEPT ![t] = NULL]
      /\ cursor' = cursor
      /\ pending' = Append(pending, arg[t])
      /\ pending \in Seq(Requests)
      /\ cursor \in 1 .. Len(pending) + 1
  BY DEF event_loop_channel_buffer_noblock, AskedInv, TypeOK, ListTypeOK
<1>2. \A u \in Threads : arg'[u] = IF u = t THEN NULL ELSE arg[u]
  BY <1>1 DEF TypeOK, ThreadTypeOK
<1>3. ASSUME NEW r \in Requests
      PROVE  (\E i \in cursor' .. Len(pending') : pending'[i] = r) <=>
             (\E i \in cursor .. Len(pending) : pending[i] = r) \/ arg[t] = r
  BY <1>1
<1>4. ASSUME NEW r \in Requests
      PROVE  (\E u \in Threads : arg'[u] = r) \/ arg[t] = r <=>
             \E u \in Threads : arg[u] = r
  BY <1>2, LoopAssumption
<1> QED
  BY <1>3, <1>4 DEF Requested

\* The owner moves past one request, and an ADD is not posted twice.
LEMMA RequestReached ==
  ASSUME TypeOK, AddOnceInv, NEW type \in {"ADD", "REMOVE", "UPDATE"}, NEW c \in Channels,
         AtRequest(type, c), NextRequest
  PROVE  /\ Requested' \subseteq Requested
         /\ Requested \subseteq Requested' \union {Request(type, c)}
         /\ Request(type, c) \in Requested
         /\ type = "ADD" => Request(type, c) \notin Requested'
<1>1. /\ UNCHANGED <<pending, arg>>
      /\ cursor' = cursor + 1
      /\ pending \in Seq(Requests)
      /\ cursor \in 1 .. Len(pending)
      /\ pending[cursor] = Request(type, c)
      /\ Request(type, c) \in Requests
  BY DEF NextRequest, AtRequest, TypeOK, ListTypeOK, Request, Requests
<1>2. \A i \in Int : i \in cursor .. Len(pending) <=> i = cursor \/ i \in cursor' .. Len(pending')
  BY <1>1
<1>3. Requested' \subseteq Requested
  BY <1>1, <1>2 DEF Requested
<1>4. Requested \subseteq Requested' \union {Request(type, c)}
  BY <1>1, <1>2 DEF Requested
<1>5. Request(type, c) \in Requested
  BY <1>1, <1>2 DEF Requested
<1>6. ASSUME type = "ADD" PROVE Request(type, c) \notin Requested'
  <2>1. Request(type, c).type = "ADD"
    BY <1>6 DEF Request
  <2>2. \A i \in cursor' .. Len(pending') : pending'[i] # Request(type, c)
    BY <1>1, <2>1 DEF AddOnceInv
  <2>3. \A t \in Threads : arg'[t] # Request(type, c)
    BY <1>1, <2>1 DEF AddOnceInv
  <2> QED
    BY <2>2, <2>3 DEF Requested
<1> QED
  BY <1>3, <1>4, <1>5, <1>6

\* Nothing else changes the requests under way.
LEMMA RequestsKept ==
  ASSUME UNCHANGED <<pending, cursor, arg>>
  PROVE  Requested' = Requested
BY DEF Requested

\* The list is walked from its start, and emptied when the walk is over.
LEMMA RequestsAtWalk ==
  ASSUME TypeOK, MutexInv, PostInv, HandleLock \/ HandleDone
  PROVE  Requested' = Requested
<1>1. CASE HandleLock
  <2>1. cursor = 1
    BY <1>1, LoopAssumption DEF HandleLock, MutexIsFree, MutexInv, PostInv, TypeOK, ListTypeOK
  <2> QED
    BY <1>1, <2>1, RequestsKept DEF HandleLock
<1>2. CASE HandleDone
  <2>1. /\ UNCHANGED arg
        /\ \A i \in cursor .. Len(pending) : FALSE
        /\ \A i \in cursor' .. Len(pending') : FALSE
    BY <1>2 DEF HandleDone, TypeOK, ListTypeOK
  <2> QED
    BY <2>1 DEF Requested
<1> QED
  BY <1>1, <1>2


-----------------------------------------------------------------------------
(* One lemma for each part of the invariant.                               *)

\* A thread holds a request only until it has appended it.
LEMMA PostStep ==
  TypeOK /\ MutexInv /\ PostInv /\ [Next \/ Ended]_vars => PostInv'
<1> SUFFICES ASSUME TypeOK, MutexInv, PostInv, [Next \/ Ended]_vars PROVE PostInv'
  OBVIOUS
<1> USE LoopAssumption DEF TypeOK, ListTypeOK, ThreadTypeOK, PostInv, Threads
<1>1. CASE UNCHANGED <<list, arg, pc, failure>>
  BY <1>1 DEF list
<1>2. ASSUME NEW t \in Threads, Lock(t) PROVE PostInv'
  BY <1>2 DEF Lock, MutexIsFree, Goto
<1>3. ASSUME NEW t \in Threads, event_loop_channel_buffer_noblock(t) PROVE PostInv'
  BY <1>3 DEF event_loop_channel_buffer_noblock, Goto
<1>4. ASSUME NEW t \in Threads, Unlock(t) PROVE PostInv'
  BY <1>4 DEF Unlock, AfterUnlock, Goto
<1>5. ASSUME NEW p \in Producers, event_loop_wakeup(p) PROVE PostInv'
  BY <1>5 DEF event_loop_wakeup, Goto, list
<1>6. CASE HandleLock \/ HandleDone
  BY <1>6 DEF HandleLock, MutexIsFree, HandleDone, Goto
<1>7. CASE EpollWait \/ DispatchDone
  BY <1>7 DEF EpollWait, DispatchDone, Goto, list
<1>8. ASSUME NEW how, Die(how) PROVE PostInv'
  BY <1>8 DEF Die, list
<1>9. ASSUME NextRequest, pc[Owner] = "Handle" PROVE PostInv'
  <2>1. isHandlePending = 1
    BY <1>9
  <2> QED
    BY <1>9, <2>1 DEF NextRequest
<1>10. ASSUME NEW c \in Channels,
              \/ event_loop_handle_pending_add(c)
              \/ event_loop_handle_pending_remove(c)
              \/ event_loop_handle_pending_update(c)
              \/ EpollCtlFails(c)
       PROVE  PostInv'
  BY <1>8, <1>9, <1>10 DEF event_loop_handle_pending_add, SkipsOver, AppliesTo,
     event_loop_handle_pending_remove, event_loop_handle_pending_update,
     EpollCtlFails, AtRequest
<1>11. ASSUME NEW t \in Threads, NEW r \in Requests, arg' = [arg EXCEPT ![t] = r],
              Goto(t, "Lock"), t = Owner \/ r.type # "UPDATE",
              UNCHANGED <<list, failure>>, pc[t] # "Ended"
       PROVE  PostInv'
  BY <1>11 DEF Goto, list
<1>12. ASSUME NEW p \in Producers, NEW c \in Channels, Accept(p, c) \/ Timeout(p, c)
       PROVE  PostInv'
  <2>1. \A type \in {"ADD", "REMOVE"} :
          Request(type, c) \in Requests /\ Request(type, c).type # "UPDATE"
    BY DEF Request, Requests
  <2> QED
    BY <1>11, <1>12, <2>1 DEF Accept, Timeout, Post
<1>13. ASSUME NEW f \in ConnFds, ReadCallback(f) \/ WriteCallback(f) PROVE PostInv'
  <2>1. \A type \in {"UPDATE", "REMOVE"} : Request(type, entries[f]) \in Requests
    BY <1>13 DEF ReadCallback, WriteCallback, TableTypeOK, Request, Requests
  <2>2. UNCHANGED <<list, failure>> /\ pc[Owner] = "Dispatch"
    BY <1>13 DEF ReadCallback, WriteCallback, EventDone, Activating
  <2>3. ASSUME NEW type \in {"UPDATE", "REMOVE"},
               PostFromCallback(Request(type, entries[f]))
        PROVE  PostInv'
    BY <1>11, <2>1, <2>2, <2>3 DEF PostFromCallback
  <2> QED
    BY <1>1, <1>13, <2>2, <2>3 DEF ReadCallback, WriteCallback
<1>14. ASSUME NEW f \in ConnFds, DispatchHangup(f) \/ ActivateNull(f) PROVE PostInv'
  BY <1>1, <1>8, <1>14 DEF DispatchHangup, ActivateNull
<1>15. CASE handleWakeup
  BY <1>1, <1>15 DEF handleWakeup, EventDone
<1>16. CASE UNCHANGED vars
  BY <1>1, <1>16 DEF vars
<1> QED
  BY <1>2, <1>3, <1>4, <1>5, <1>6, <1>7, <1>10, <1>12, <1>13, <1>14, <1>15, <1>16
  DEF Next, Ended, OwnerStep, HandlePending, ProducerStep, do_channel_event, Dispatch

\* A channel keeps the descriptor it was accepted with, the table files it there,
\* and what the dispatcher still has to do is for open descriptors.
LEMMA ConnectionStep ==
  TypeOK /\ AskedInv /\ WatchedHasChannel /\ ConnectionInv /\ [Next \/ Ended]_vars
    => ConnectionInv'
<1> SUFFICES ASSUME TypeOK, AskedInv, WatchedHasChannel, ConnectionInv,
                    [Next \/ Ended]_vars
             PROVE  ConnectionInv'
  OBVIOUS
<1> USE LoopAssumption DEF TypeOK, TableTypeOK, ConnectionInv, Asked
<1>1. CASE UNCHANGED <<entries, openFds, fdOf, batch>> /\ issued \subseteq issued'
  BY <1>1
<1>2. ASSUME NEW c \in Channels,
             \/ event_loop_handle_pending_add(c)
             \/ event_loop_handle_pending_remove(c)
             \/ event_loop_handle_pending_update(c)
             \/ EpollCtlFails(c)
      PROVE  ConnectionInv'
  <2>1. CASE UNCHANGED entries
    BY <1>1, <1>2, <2>1 DEF event_loop_handle_pending_add, SkipsOver, EpollCtlFails,
       event_loop_handle_pending_remove, event_loop_handle_pending_update,
       NextRequest, Die, channel, table, owner
  <2>2. ASSUME NEW v \in {c, NULL}, fdOf[c] # BadFd,
               entries' = [entries EXCEPT ![fdOf[c]] = v], NextRequest
        PROVE  ConnectionInv'
    BY <2>2 DEF NextRequest, channel, owner
  <2> QED
    BY <1>2, <2>1, <2>2 DEF event_loop_handle_pending_add, SkipsOver, EpollCtlFails,
       event_loop_handle_pending_remove, event_loop_handle_pending_update, AppliesTo,
       CallsEpollCtl, Die, table
<1>3. ASSUME NEW p \in Producers, NEW c \in Channels, Accept(p, c)
      PROVE  ConnectionInv'
  <2>1. PICK fd \in AcceptedFd : fdOf' = [fdOf EXCEPT ![c] = fd]
    BY <1>3 DEF Accept
  <2>2. /\ ~Asked(c)
        /\ issued' = issued \union {Request("ADD", c)}
        /\ UNCHANGED <<entries, batch>>
        /\ openFds \subseteq openFds'
    BY <1>3 DEF Accept, Post, owner
  <2>3. \A f \in ConnFds : entries[f] # c
    BY <2>2 DEF AskedInv
  <2>4. \A d \in Channels \ {c} : fdOf'[d] = fdOf[d]
    BY <2>1
  <2> QED
    BY <2>2, <2>3, <2>4
<1>4. ASSUME NEW p \in Producers, NEW c \in Channels, Timeout(p, c)
      PROVE  ConnectionInv'
  BY <1>1, <1>4 DEF Timeout, Post, table, channel, owner
<1>5. ASSUME NEW p \in Producers, event_loop_wakeup(p) PROVE ConnectionInv'
  BY <1>1, <1>5 DEF event_loop_wakeup, table, channel, owner
<1>6. ASSUME NEW t \in Threads, do_channel_event(t) PROVE ConnectionInv'
  BY <1>1, <1>6 DEF do_channel_event, Lock, event_loop_channel_buffer_noblock, Unlock,
     table, channel, owner
<1>7. CASE HandleLock \/ HandleDone \/ DispatchDone
  BY <1>1, <1>7 DEF HandleLock, HandleDone, DispatchDone, table, channel, owner
<1>8. CASE EpollWait
  <2>1. ASSUME NEW f \in ConnFds, batch'[f] # {} PROVE f \in openFds
    BY <1>8, <2>1 DEF EpollWait, AllFds, WatchedHasChannel
  <2> QED
    BY <1>8, <2>1 DEF EpollWait, table, channel
<1>9. ASSUME NEW f \in ConnFds, DispatchHangup(f) PROVE ConnectionInv'
  BY <1>9 DEF DispatchHangup, DispatchTypeOK, AllFds, channel
<1>10. ASSUME NEW f \in AllFds, NEW e \in {"R", "W"}, EventDone(f, e), UNCHANGED issued
       PROVE  ConnectionInv'
  <2>1. \A g \in AllFds : batch'[g] \subseteq batch[g]
    BY <1>10 DEF EventDone, DispatchTypeOK
  <2> QED
    BY <1>10, <2>1 DEF EventDone, AllFds, table
<1>11. ASSUME NEW f \in ConnFds, ActivateNull(f) \/ ReadCallback(f) \/ WriteCallback(f)
       PROVE  ConnectionInv'
  BY <1>1, <1>10, <1>11 DEF ActivateNull, Die, ReadCallback, WriteCallback, AllFds,
     EventDone, table, channel, owner
<1>12. CASE handleWakeup
  BY <1>10, <1>12 DEF handleWakeup, EventDone, AllFds
<1>13. CASE UNCHANGED vars
  BY <1>1, <1>13 DEF vars, table, channel, owner
<1> QED
  BY <1>2, <1>3, <1>4, <1>5, <1>6, <1>7, <1>8, <1>9, <1>11, <1>12, <1>13
  DEF Next, Ended, OwnerStep, HandlePending, ProducerStep, Dispatch, Threads


\* Each connection is posted once: one ADD is never under way twice.
LEMMA AddOnceStep ==
  TypeOK /\ AskedInv /\ AddOnceInv /\ [Next \/ Ended]_vars => AddOnceInv'
<1> SUFFICES ASSUME TypeOK, AskedInv, AddOnceInv, [Next \/ Ended]_vars
             PROVE  AddOnceInv'
  OBVIOUS
<1> USE LoopAssumption DEF TypeOK, ListTypeOK, ThreadTypeOK
<1>1. CASE UNCHANGED <<pending, arg>>
  BY <1>1 DEF AddOnceInv
<1>2. ASSUME NEW t \in Threads, NEW r \in Requests, arg' = [arg EXCEPT ![t] = r],
             UNCHANGED pending, r.type # "ADD"
      PROVE  AddOnceInv'
  BY <1>2 DEF AddOnceInv
<1>3. ASSUME NEW t \in Threads, event_loop_channel_buffer_noblock(t) PROVE AddOnceInv'
  <2>1. /\ arg[t] \in Requests
        /\ pending' = Append(pending, arg[t])
        /\ arg' = [arg EXCEPT ![t] = NULL]
    BY <1>3 DEF event_loop_channel_buffer_noblock, AskedInv
  <2>2. /\ Len(pending') = Len(pending) + 1
        /\ pending'[Len(pending) + 1] = arg[t]
        /\ \A i \in 1 .. Len(pending) : pending'[i] = pending[i]
    BY <2>1
  <2>3. \A i \in 1 .. Len(pending') : i \in 1 .. Len(pending) \/ i = Len(pending) + 1
    BY <2>2
  <2>4. \A u \in Threads : arg'[u] = IF u = t THEN NULL ELSE arg[u]
    BY <2>1
  <2>5. \A i, j \in 1 .. Len(pending') :
          pending'[i] = pending'[j] /\ pending'[i].type = "ADD" => i = j
    BY <2>1, <2>2, <2>3 DEF AddOnceInv
  <2>6. \A u, v \in Threads :
          arg'[u] = arg'[v] /\ arg'[u] # NULL /\ arg'[u].type = "ADD" => u = v
    BY <2>4 DEF AddOnceInv
  <2>7. \A u \in Threads, i \in 1 .. Len(pending') :
          pending'[i].type = "ADD" => arg'[u] # pending'[i]
    <3>1. TAKE u \in Threads, i \in 1 .. Len(pending')
    <3>2. CASE i \in 1 .. Len(pending)
      <4>1. pending'[i] = pending[i] /\ pending[i] # NULL
        BY <2>2, <3>2
      <4> QED
        BY <2>4, <3>2, <4>1 DEF AddOnceInv
    <3>3. CASE i = Len(pending) + 1
      BY <2>1, <2>2, <2>4, <3>3 DEF AddOnceInv
    <3> QED
      BY <2>3, <3>2, <3>3
  <2> QED
    BY <2>5, <2>6, <2>7 DEF AddOnceInv
<1>4. ASSUME NEW t \in Threads, Lock(t) \/ Unlock(t) PROVE AddOnceInv'
  BY <1>1, <1>4 DEF Lock, MutexIsFree, Unlock
<1>5. ASSUME NEW p \in Producers, event_loop_wakeup(p) PROVE AddOnceInv'
  BY <1>1, <1>5 DEF event_loop_wakeup, list
<1>6. CASE HandleLock \/ EpollWait \/ DispatchDone \/ handleWakeup
  BY <1>1, <1>6 DEF HandleLock, EpollWait, DispatchDone, handleWakeup, EventDone, list
<1>7. CASE HandleDone
  BY <1>7 DEF HandleDone, AddOnceInv
<1>8. ASSUME NEW c \in Channels,
             \/ event_loop_handle_pending_add(c)
             \/ event_loop_handle_pending_remove(c)
             \/ event_loop_handle_pending_update(c)
             \/ EpollCtlFails(c)
      PROVE  AddOnceInv'
  BY <1>1, <1>8 DEF event_loop_handle_pending_add, SkipsOver, EpollCtlFails,
     event_loop_handle_pending_remove, event_loop_handle_pending_update, NextRequest,
     Die, list
<1>9. ASSUME NEW p \in Producers, NEW c \in Channels, Accept(p, c) PROVE AddOnceInv'
  <2>1. Request("ADD", c) \in Requests /\ Request("ADD", c).channel = c
    BY DEF Request, Requests
  <2>2. /\ ~Asked(c)
        /\ arg' = [arg EXCEPT ![p] = Request("ADD", c)]
        /\ UNCHANGED pending
    BY <1>9 DEF Accept, Post, Asked, list
  <2>3. /\ \A u \in Threads : arg[u] # Request("ADD", c)
        /\ \A i \in 1 .. Len(pending) : pending[i] # Request("ADD", c)
    BY <2>1, <2>2 DEF AskedInv
  <2> QED
    BY <2>1, <2>2, <2>3 DEF AddOnceInv
<1>10. ASSUME NEW p \in Producers, NEW c \in Channels, Timeout(p, c) PROVE AddOnceInv'
  <2>1. Request("REMOVE", c) \in Requests /\ Request("REMOVE", c).type # "ADD"
    BY DEF Request, Requests
  <2>2. arg' = [arg EXCEPT ![p] = Request("REMOVE", c)] /\ UNCHANGED pending
    BY <1>10 DEF Timeout, Post, list
  <2>3. p \in Threads
    BY DEF Threads
  <2> QED
    BY <1>2, <2>1, <2>2, <2>3
<1>11. ASSUME NEW f \in ConnFds, ReadCallback(f) \/ WriteCallback(f) PROVE AddOnceInv'
  <2>1. UNCHANGED pending /\ entries[f] \in Channels
    BY <1>11 DEF ReadCallback, WriteCallback, EventDone, list, TableTypeOK
  <2>2. ASSUME NEW type \in {"UPDATE", "REMOVE"},
               PostFromCallback(Request(type, entries[f]))
        PROVE  AddOnceInv'
    <3>1. /\ Request(type, entries[f]) \in Requests
          /\ Request(type, entries[f]).type # "ADD"
      BY <2>1 DEF Request, Requests
    <3>2. Owner \in Threads
      BY DEF Threads
    <3>3. arg' = [arg EXCEPT ![Owner] = Request(type, entries[f])]
      BY <2>2 DEF PostFromCallback
    <3> QED
      BY <1>2, <2>1, <3>1, <3>2, <3>3
  <2> QED
    BY <1>1, <1>11, <2>1, <2>2 DEF ReadCallback, WriteCallback
<1>12. ASSUME NEW f \in ConnFds, DispatchHangup(f) \/ ActivateNull(f) PROVE AddOnceInv'
  BY <1>1, <1>12 DEF DispatchHangup, ActivateNull, Die, list
<1>13. CASE UNCHANGED vars
  BY <1>1, <1>13 DEF vars, list
<1> QED
  BY <1>3, <1>4, <1>5, <1>6, <1>7, <1>8, <1>9, <1>10, <1>11, <1>12, <1>13
  DEF Next, Ended, OwnerStep, HandlePending, ProducerStep, do_channel_event, Dispatch,
      Threads


\* What the steps of the owner through the list do to a descriptor: nothing, or
\* one request takes effect on the descriptor of its channel.
LEMMA RequestApplied ==
  ASSUME TypeOK, NEW c \in Channels,
         \/ event_loop_handle_pending_add(c)
         \/ event_loop_handle_pending_remove(c)
         \/ event_loop_handle_pending_update(c)
         \/ EpollCtlFails(c)
  PROVE  /\ UNCHANGED <<events, fdOf, openFds, batch, issued, arg>>
         /\ \/ UNCHANGED <<pending, cursor, entries, interest>> /\ \E how : Die(how)
            \/ /\ NextRequest
               /\ UNCHANGED <<entries, interest>>
               /\ \E type \in {"ADD", "REMOVE", "UPDATE"} :
                    AtRequest(type, c) /\ ~CallsEpollCtl(type, fdOf[c])
            \/ /\ NextRequest /\ AppliesTo("ADD", c)
               /\ entries' = [entries EXCEPT ![fdOf[c]] = c]
               /\ interest' = [interest EXCEPT ![fdOf[c]] = events[c]]
            \/ /\ NextRequest /\ AppliesTo("REMOVE", c)
               /\ entries' = [entries EXCEPT ![fdOf[c]] = NULL]
               /\ interest' = [interest EXCEPT ![fdOf[c]] = {}]
            \/ /\ NextRequest /\ AppliesTo("UPDATE", c)
               /\ UNCHANGED entries
               /\ interest' = [interest EXCEPT ![fdOf[c]] = events[c] \union {"R"}]
<1>1. CASE event_loop_handle_pending_add(c)
  BY <1>1 DEF event_loop_handle_pending_add, SkipsOver, NextRequest, Watch, channel, owner
<1>2. CASE event_loop_handle_pending_remove(c)
  BY <1>2 DEF event_loop_handle_pending_remove, SkipsOver, NextRequest, Watch, Die,
     list, table, channel, owner
<1>3. CASE event_loop_handle_pending_update(c)
  BY <1>3 DEF event_loop_handle_pending_update, SkipsOver, NextRequest, Watch, channel,
     owner
<1>4. CASE EpollCtlFails(c)
  BY <1>4 DEF EpollCtlFails, Die, list, table, channel, owner
<1> QED
  BY <1>1, <1>2, <1>3, <1>4

\* A descriptor whose channel is still to be added stays open, silent, and
\* awaited by that channel only.
LEMMA AddStep ==
  /\ TypeOK /\ MutexInv /\ AskedInv /\ WatchedHasChannel
  /\ PostInv /\ ConnectionInv /\ AddOnceInv /\ AddInv
  /\ [Next \/ Ended]_vars
  => AddInv'
<1> SUFFICES ASSUME TypeOK, MutexInv, AskedInv, WatchedHasChannel, PostInv,
                    ConnectionInv, AddOnceInv, AddInv, [Next \/ Ended]_vars
             PROVE  AddInv'
  OBVIOUS
<1> USE LoopAssumption
<1> DEFINE Quiet(f) == f \in openFds /\ interest[f] = {} /\ batch[f] = {}
<1>1. ASSUME \A c \in Channels : Adding(c)' => Adding(c),
             UNCHANGED fdOf,
             \A c \in Channels : Adding(c)' /\ fdOf[c] # BadFd /\ Quiet(fdOf[c])
                                 => Quiet(fdOf[c])'
      PROVE  AddInv'
  BY <1>1 DEF AddInv
<1>2. ASSUME UNCHANGED <<pending, cursor, arg, fdOf, openFds, interest, batch>>
      PROVE  AddInv'
  BY <1>1, <1>2, RequestsKept DEF Adding
<1>3. ASSUME NEW t \in Threads, NEW r \in Requests, r.type # "ADD", arg[t] = NULL,
             arg' = [arg EXCEPT ![t] = r],
             UNCHANGED <<pending, cursor, fdOf, openFds, interest>>,
             \A f \in ConnFds : batch'[f] \subseteq batch[f]
      PROVE  AddInv'
  <2>1. \A c \in Channels : Adding(c)' => Adding(c)
    <3>1. \A c \in Channels : Request("ADD", c) # r
      BY <1>3 DEF Request
    <3> QED
      BY <1>3, <3>1, RequestPosted DEF Adding
  <2> QED
    BY <1>1, <1>3, <2>1 DEF TypeOK, TableTypeOK
<1>4. ASSUME NEW t \in Threads, event_loop_channel_buffer_noblock(t) PROVE AddInv'
  BY <1>1, <1>4, RequestBuffered DEF Adding, event_loop_channel_buffer_noblock, table,
     channel, owner
<1>5. ASSUME NEW t \in Threads, Lock(t) \/ Unlock(t) PROVE AddInv'
  BY <1>2, <1>5 DEF Lock, MutexIsFree, Unlock, table, channel, owner
<1>6. ASSUME NEW p \in Producers, event_loop_wakeup(p) PROVE AddInv'
  BY <1>2, <1>6 DEF event_loop_wakeup, list, table, channel, owner
<1>7. CASE HandleLock \/ HandleDone
  <2>1. Requested' = Requested
    BY <1>7, RequestsAtWalk
  <2>2. UNCHANGED <<fdOf, openFds, interest, batch>>
    BY <1>7 DEF HandleLock, HandleDone, table, channel, owner
  <2> QED
    BY <1>1, <2>1, <2>2 DEF Adding
<1>8. ASSUME NEW c \in Channels,
             \/ event_loop_handle_pending_add(c)
             \/ event_loop_handle_pending_remove(c)
             \/ event_loop_handle_pending_update(c)
             \/ EpollCtlFails(c)
      PROVE  AddInv'
  <2>1. UNCHANGED <<fdOf, openFds, batch, arg>>
    BY <1>8, RequestApplied
  <2>2. CASE UNCHANGED <<pending, cursor, entries, interest>>
    BY <1>2, <2>1, <2>2
  <2>3. ASSUME NEW type \in {"ADD", "REMOVE", "UPDATE"}, AtRequest(type, c), NextRequest
        PROVE  /\ \A d \in Channels : Adding(d)' => Adding(d)
               /\ type = "ADD" => Adding(c) /\ ~Adding(c)'
    BY <2>3, RequestReached DEF Adding
  <2>4. ASSUME NEW type \in {"ADD", "REMOVE", "UPDATE"}, AtRequest(type, c), NextRequest,
               UNCHANGED interest
        PROVE  AddInv'
    BY <1>1, <2>1, <2>3, <2>4
  <2>5. CASE /\ NextRequest /\ AppliesTo("ADD", c)
             /\ interest' = [interest EXCEPT ![fdOf[c]] = events[c]]
    <3>1. /\ AtRequest("ADD", c) /\ fdOf[c] # BadFd
          /\ Adding(c) /\ ~Adding(c)'
      BY <2>3, <2>5 DEF AppliesTo, CallsEpollCtl
    <3>2. \A d \in Channels : Adding(d)' => Adding(d)
      BY <2>3, <2>5, <3>1
    <3>3. \A d \in Channels : Adding(d)' => fdOf[d] # fdOf[c]
      BY <3>1, <3>2 DEF AddInv
    <3>4. \A d \in Channels : Adding(d)' /\ fdOf[d] # BadFd =>
            interest'[fdOf[d]] = interest[fdOf[d]]
      BY <2>5, <3>3 DEF TypeOK, TableTypeOK
    <3> QED
      BY <1>1, <2>1, <3>2, <3>4
  <2>6. CASE /\ NextRequest /\ AppliesTo("REMOVE", c)
             /\ interest' = [interest EXCEPT ![fdOf[c]] = {}]
    <3>1. \A f \in ConnFds : interest[f] = {} => interest'[f] = {}
      BY <2>6 DEF TypeOK, TableTypeOK
    <3>2. \A d \in Channels : Adding(d)' => Adding(d)
      BY <2>3, <2>6 DEF AppliesTo
    <3> QED
      BY <1>1, <2>1, <3>1, <3>2 DEF TypeOK, TableTypeOK
  <2>7. CASE /\ NextRequest /\ AppliesTo("UPDATE", c)
             /\ interest' = [interest EXCEPT ![fdOf[c]] = events[c] \union {"R"}]
    <3>1. \A f \in ConnFds : interest[f] = {} => interest'[f] = {}
      BY <2>7 DEF AppliesTo, CtlSucceeds, TypeOK, TableTypeOK
    <3>2. \A d \in Channels : Adding(d)' => Adding(d)
      BY <2>3, <2>7 DEF AppliesTo
    <3> QED
      BY <1>1, <2>1, <3>1, <3>2 DEF TypeOK, TableTypeOK
  <2> QED
    BY <1>8, <2>2, <2>4, <2>5, <2>6, <2>7, RequestApplied
<1>9. ASSUME NEW p \in Producers, NEW c \in Channels, Accept(p, c) PROVE AddInv'
  <2>1. PICK fd \in AcceptedFd :
          /\ fdOf' = [fdOf EXCEPT ![c] = fd]
          /\ openFds' = openFds \union ({fd} \ {BadFd})
    BY <1>9 DEF Accept
  <2>2. fd # BadFd => fd \in ConnFds \ openFds
    BY DEF AcceptedFd
  <2>3. /\ ~Asked(c)
        /\ arg[p] = NULL
        /\ arg' = [arg EXCEPT ![p] = Request("ADD", c)]
        /\ UNCHANGED <<pending, cursor, entries, interest, batch>>
    BY <1>9 DEF Accept, Post, Asked, list, owner, PostInv, Threads
  <2>4. Requested' = Requested \union {Request("ADD", c)}
    BY <2>3, RequestPosted DEF Request, Requests, Threads
  <2>5. \A d \in Channels : Adding(d)' => d = c \/ Adding(d)
    BY <2>4 DEF Adding, Request
  <2>6. ~Adding(c)
    <3>1. Request("ADD", c).channel = c
      BY DEF Request
    <3>2. cursor \in Nat \ {0} /\ Len(pending) \in Nat
      BY DEF TypeOK, ListTypeOK
    <3> QED
      BY <2>3, <3>1, <3>2 DEF Adding, Requested, AskedInv
  <2>7. ASSUME fd # BadFd PROVE /\ interest[fd] = {} /\ batch[fd] = {}
                                /\ \A d \in Channels : Adding(d) => fdOf[d] # fd
    BY <2>2, <2>7 DEF WatchedHasChannel, ConnectionInv, AddInv
  <2>8. fdOf'[c] = fd /\ \A d \in Channels \ {c} : fdOf'[d] = fdOf[d]
    BY <2>1 DEF TypeOK, TableTypeOK
  <2>9. ASSUME NEW d \in Channels, Adding(d)', fdOf'[d] # BadFd
        PROVE  /\ fdOf'[d] \in openFds'
               /\ interest'[fdOf'[d]] = {} /\ batch'[fdOf'[d]] = {}
               /\ \A e \in Channels \ {d} : fdOf'[e] = fdOf'[d] => ~Adding(e)'
    <3>1. CASE d = c
      BY <2>1, <2>3, <2>5, <2>7, <2>8, <2>9, <3>1
    <3>2. CASE d # c
      <4>1. Adding(d) /\ fdOf'[d] = fdOf[d] /\ Quiet(fdOf[d])
        BY <2>5, <2>8, <2>9, <3>2 DEF AddInv
      <4>2. fdOf[d] # fd
        BY <2>7, <2>9, <4>1
      <4> QED
        BY <2>1, <2>3, <2>5, <2>8, <2>9, <4>1, <4>2 DEF AddInv
    <3> QED
      BY <3>1, <3>2
  <2> QED
    BY <2>9 DEF AddInv
<1>10. ASSUME NEW p \in Producers, NEW c \in Channels, Timeout(p, c) PROVE AddInv'
  <2>1. Request("REMOVE", c) \in Requests /\ Request("REMOVE", c).type # "ADD"
    BY DEF Request, Requests
  <2>2. /\ arg[p] = NULL /\ arg' = [arg EXCEPT ![p] = Request("REMOVE", c)]
        /\ UNCHANGED <<pending, cursor, fdOf, openFds, interest, batch>>
    BY <1>10 DEF Timeout, Post, PostInv, list, table, channel, owner, Threads
  <2> QED
    BY <1>3, <2>1, <2>2 DEF Threads
<1>11. CASE EpollWait
  <2>1. \A f \in ConnFds : interest[f] = {} => batch'[f] = {}
    BY <1>11 DEF EpollWait, AllFds
  <2> QED
    BY <1>1, <1>11, <2>1, RequestsKept DEF EpollWait, Adding, list, table, channel,
       TypeOK, TableTypeOK
<1>12. ASSUME NEW f \in ConnFds, DispatchHangup(f) PROVE AddInv'
  <2>1. \A g \in ConnFds : Quiet(g) => Quiet(g)'
    BY <1>12 DEF DispatchHangup, Watch, TypeOK, TableTypeOK, DispatchTypeOK, AllFds
  <2> QED
    BY <1>1, <1>12, <2>1, RequestsKept DEF DispatchHangup, Adding, list, channel,
       TypeOK, TableTypeOK
<1>13. ASSUME NEW f \in AllFds, NEW e \in {"R", "W"}, EventDone(f, e)
       PROVE  /\ \A g \in ConnFds : batch'[g] \subseteq batch[g]
              /\ UNCHANGED <<pending, cursor, fdOf, openFds, interest>>
  BY <1>13 DEF EventDone, list, table, TypeOK, DispatchTypeOK, AllFds
<1>14. ASSUME UNCHANGED <<arg, pending, cursor, fdOf, openFds, interest>>,
              \A g \in ConnFds : batch'[g] \subseteq batch[g]
       PROVE  AddInv'
  BY <1>1, <1>14, RequestsKept DEF Adding, TypeOK, TableTypeOK
<1>15. CASE handleWakeup
  BY <1>13, <1>14, <1>15 DEF handleWakeup, AllFds
<1>16. ASSUME NEW f \in ConnFds, ReadCallback(f) \/ WriteCallback(f) PROVE AddInv'
  <2>1. /\ \A g \in ConnFds : batch'[g] \subseteq batch[g]
        /\ UNCHANGED <<pending, cursor, fdOf, openFds, interest>>
    BY <1>13, <1>16 DEF ReadCallback, WriteCallback, AllFds
  <2>2. entries[f] \in Channels /\ arg[Owner] = NULL
    BY <1>16 DEF ReadCallback, WriteCallback, Activating, TypeOK, TableTypeOK, PostInv,
       Threads
  <2>3. ASSUME NEW type \in {"UPDATE", "REMOVE"},
               PostFromCallback(Request(type, entries[f]))
        PROVE  AddInv'
    <3>1. /\ Request(type, entries[f]) \in Requests
          /\ Request(type, entries[f]).type # "ADD"
      BY <2>2 DEF Request, Requests
    <3> QED
      BY <1>3, <2>1, <2>2, <2>3, <3>1 DEF PostFromCallback, Threads
  <2> QED
    BY <1>14, <1>16, <2>1, <2>3 DEF ReadCallback, WriteCallback
<1>17. ASSUME NEW f \in ConnFds, ActivateNull(f) PROVE AddInv'
  BY <1>2, <1>17 DEF ActivateNull, Die, list, table, channel, owner
<1>18. CASE DispatchDone \/ UNCHANGED vars
  BY <1>2, <1>18 DEF DispatchDone, vars, list, table, channel, owner
<1> QED
  BY <1>4, <1>5, <1>6, <1>7, <1>8, <1>9, <1>10, <1>11, <1>12, <1>15, <1>16, <1>17, <1>18
  DEF Next, Ended, OwnerStep, HandlePending, ProducerStep, do_channel_event, Dispatch,
      Threads


\* While the owner has an update to make, the channel keeps its descriptor and
\* nobody takes its slot.
LEMMA UpdateStep ==
  /\ TypeOK /\ MutexInv /\ AskedInv
  /\ PostInv /\ ConnectionInv /\ AddOnceInv /\ AddInv /\ UpdateInv
  /\ [Next \/ Ended]_vars
  => UpdateInv'
<1> SUFFICES ASSUME TypeOK, MutexInv, AskedInv, PostInv, ConnectionInv, AddOnceInv,
                    AddInv, UpdateInv, [Next \/ Ended]_vars
             PROVE  UpdateInv'
  OBVIOUS
<1> USE LoopAssumption
<1>1. ASSUME \A c \in Channels : Updating(c)' =>
               /\ Updating(c)
               /\ pc'[Owner] \notin {"Wait", "Dispatch"}
               /\ fdOf'[c] = fdOf[c]
               /\ entries'[fdOf[c]] \in {entries[fdOf[c]], NULL},
             \A c \in Channels : Adding(c)' => Adding(c) /\ fdOf'[c] = fdOf[c],
             openFds \subseteq openFds'
      PROVE  UpdateInv'
  BY <1>1 DEF UpdateInv
<1>2. ASSUME \A c \in Channels : ~Updating(c)' PROVE UpdateInv'
  BY <1>2 DEF UpdateInv
<1>3. ASSUME Requested' = Requested, UNCHANGED <<fdOf, openFds, entries>>,
             pc'[Owner] \in {"Wait", "Dispatch"} => pc[Owner] \in {"Wait", "Dispatch"}
      PROVE  UpdateInv'
  BY <1>1, <1>3 DEF Adding, Updating, UpdateInv
<1>4. ASSUME NEW p \in Producers, NEW c \in Channels, NEW type \in {"ADD", "REMOVE"},
             Post(p, Request(type, c)), UNCHANGED <<pending, cursor>>
      PROVE  /\ \A d \in Channels : Updating(d)' => Updating(d)
             /\ \A d \in Channels : Adding(d)' => Adding(d) \/ (d = c /\ type = "ADD")
             /\ pc'[Owner] = pc[Owner]
  <2>1. /\ arg[p] = NULL /\ arg' = [arg EXCEPT ![p] = Request(type, c)]
        /\ p \in Threads /\ p # Owner /\ Request(type, c) \in Requests
    BY <1>4 DEF Post, PostInv, Threads, Request, Requests
  <2>2. Requested' = Requested \union {Request(type, c)}
    BY <1>4, <2>1, RequestPosted
  <2>3. ASSUME NEW d \in Channels
        PROVE  /\ Updating(d)' => Updating(d)
               /\ Adding(d)' => Adding(d) \/ (d = c /\ type = "ADD")
    <3>1. Request("UPDATE", d) # Request(type, c)
      BY DEF Request
    <3>2. Request("ADD", d) = Request(type, c) => d = c /\ type = "ADD"
      BY DEF Request
    <3> QED
      BY <2>2, <3>1, <3>2 DEF Adding, Updating, Request
  <2>4. pc'[Owner] = pc[Owner]
    BY <1>4, <2>1 DEF Post, Goto, TypeOK, ThreadTypeOK
  <2> QED
    BY <2>3, <2>4
<1>5. ASSUME NEW p \in Producers, NEW c \in Channels, Timeout(p, c) PROVE UpdateInv'
  <2>1. Post(p, Request("REMOVE", c)) /\ UNCHANGED <<pending, cursor, fdOf, openFds, entries>>
    BY <1>5 DEF Timeout, list, table, channel
  <2> QED
    BY <1>1, <1>4, <2>1 DEF UpdateInv
<1>6. ASSUME NEW p \in Producers, NEW c \in Channels, Accept(p, c) PROVE UpdateInv'
  <2>1. PICK fd \in AcceptedFd :
          /\ fdOf' = [fdOf EXCEPT ![c] = fd]
          /\ openFds' = openFds \union ({fd} \ {BadFd})
    BY <1>6 DEF Accept
  <2>2. fd \notin openFds
    BY DEF AcceptedFd, TypeOK, TableTypeOK, BadFd
  <2>3. Post(p, Request("ADD", c)) /\ ~Asked(c) /\ UNCHANGED <<pending, cursor, entries>>
    BY <1>6 DEF Accept, Post, Asked, list
  <2>4. /\ \A d \in Channels : Updating(d)' => Updating(d)
        /\ \A d \in Channels : Adding(d)' => Adding(d) \/ d = c
        /\ pc'[Owner] = pc[Owner]
    BY <1>4, <2>3
  <2>5. ~Updating(c)
    <3>1. Request("UPDATE", c).channel = c
      BY DEF Request
    <3>2. cursor \in Nat \ {0} /\ Len(pending) \in Nat
      BY DEF TypeOK, ListTypeOK
    <3> QED
      BY <2>3, <3>1, <3>2 DEF Updating, Requested, AskedInv
  <2>6. fdOf'[c] = fd /\ \A d \in Channels \ {c} : fdOf'[d] = fdOf[d]
    BY <2>1 DEF TypeOK, TableTypeOK
  <2>7. ASSUME NEW d \in Channels, Updating(d)'
        PROVE  /\ pc'[Owner] \notin {"Wait", "Dispatch"}
               /\ fdOf'[d] \in openFds'
               /\ entries'[fdOf'[d]] \in {d, NULL}
               /\ \A e \in Channels : fdOf'[e] = fdOf'[d] => ~Adding(e)'
    <3>1. d # c /\ Updating(d) /\ fdOf'[d] = fdOf[d] /\ fdOf[d] \in openFds
      BY <2>4, <2>5, <2>6, <2>7 DEF UpdateInv
    <3>2. /\ pc[Owner] \notin {"Wait", "Dispatch"} /\ entries[fdOf[d]] \in {d, NULL}
          /\ \A e \in Channels : fdOf[e] = fdOf[d] => ~Adding(e)
      BY <3>1 DEF UpdateInv
    <3>3. ASSUME NEW e \in Channels, fdOf'[e] = fdOf'[d] PROVE ~Adding(e)'
      <4>1. e # c
        BY <2>2, <2>6, <3>1, <3>3
      <4> QED
        BY <2>4, <2>6, <3>1, <3>2, <3>3, <4>1
    <3> QED
      BY <2>1, <2>3, <2>4, <3>1, <3>2, <3>3
  <2> QED
    BY <2>7 DEF UpdateInv
<1>7. ASSUME NEW t \in Threads, event_loop_channel_buffer_noblock(t) PROVE UpdateInv'
  <2>1. UNCHANGED <<fdOf, openFds, entries>>
    BY <1>7 DEF event_loop_channel_buffer_noblock, table, channel
  <2>2. pc'[Owner] \in {pc[Owner], "Unlock"}
    BY <1>7 DEF event_loop_channel_buffer_noblock, Goto, TypeOK, ThreadTypeOK, Threads
  <2> QED
    BY <1>3, <1>7, <2>1, <2>2, RequestBuffered
<1>8. ASSUME UNCHANGED <<pending, cursor, arg, fdOf, openFds, entries>>,
             pc'[Owner] \in {"Wait", "Dispatch"} => pc[Owner] \in {"Wait", "Dispatch"}
      PROVE  UpdateInv'
  BY <1>3, <1>8, RequestsKept
<1>9. ASSUME NEW t \in Threads, Lock(t) \/ Unlock(t) PROVE UpdateInv'
  <2>1. UNCHANGED <<pending, cursor, arg, fdOf, openFds, entries>>
    BY <1>9 DEF Lock, MutexIsFree, Unlock, table, channel
  <2>2. pc'[Owner] \in {pc[Owner], "Buffer", "HandleLock"}
    BY <1>9 DEF Lock, Unlock, AfterUnlock, Goto, TypeOK, ThreadTypeOK, Threads
  <2> QED
    BY <1>8, <2>1, <2>2
<1>10. ASSUME NEW p \in Producers, event_loop_wakeup(p) PROVE UpdateInv'
  <2>1. pc'[Owner] = pc[Owner]
    BY <1>10 DEF event_loop_wakeup, Goto, TypeOK, ThreadTypeOK, Threads
  <2> QED
    BY <1>8, <1>10, <2>1 DEF event_loop_wakeup, list, table, channel
<1>11. CASE HandleLock
  <2>1. pc'[Owner] = "Handle"
    BY <1>11 DEF HandleLock, Goto, TypeOK, ThreadTypeOK, Threads
  <2> QED
    BY <1>3, <1>11, <2>1, RequestsAtWalk DEF HandleLock, table, channel
<1>12. CASE HandleDone
  <2>1. Requested' = Requested
    BY <1>12, RequestsAtWalk
  <2>2. arg[Owner] = NULL /\ \A i \in cursor .. Len(pending) : FALSE
    BY <1>12 DEF HandleDone, PostInv, TypeOK, ListTypeOK, Threads
  <2>3. \A c \in Channels : Request("UPDATE", c).type = "UPDATE"
    BY DEF Request
  <2>4. \A c \in Channels : ~Updating(c)
    BY <2>2, <2>3 DEF Updating, Requested, PostInv, Threads, Requests
  <2> QED
    BY <1>2, <2>1, <2>4 DEF Updating
<1>13. ASSUME NEW c \in Channels,
              \/ event_loop_handle_pending_add(c)
              \/ event_loop_handle_pending_remove(c)
              \/ event_loop_handle_pending_update(c)
              \/ EpollCtlFails(c)
       PROVE  UpdateInv'
  <2>1. UNCHANGED <<fdOf, openFds, arg>>
    BY <1>13, RequestApplied
  <2>2. CASE UNCHANGED <<pending, cursor, entries, interest>> /\ \E how : Die(how)
    BY <1>8, <2>1, <2>2 DEF Die, Threads
  <2>3. ASSUME NEW type \in {"ADD", "REMOVE", "UPDATE"}, AtRequest(type, c), NextRequest
        PROVE  /\ \A d \in Channels : Adding(d)' => Adding(d)
               /\ \A d \in Channels : Updating(d)' => Updating(d)
               /\ pc'[Owner] = pc[Owner]
               /\ type = "ADD" => Adding(c)
    BY <2>3, RequestReached DEF Adding, Updating, NextRequest
  <2>4. ASSUME NEW type \in {"ADD", "REMOVE", "UPDATE"}, AtRequest(type, c), NextRequest,
               \A d \in Channels :
                 Updating(d) => entries'[fdOf[d]] \in {entries[fdOf[d]], NULL}
        PROVE  UpdateInv'
    BY <1>1, <2>1, <2>3, <2>4 DEF UpdateInv
  <2>5. CASE /\ NextRequest /\ AppliesTo("ADD", c)
             /\ entries' = [entries EXCEPT ![fdOf[c]] = c]
    <3>1. AtRequest("ADD", c) /\ Adding(c)
      BY <2>3, <2>5 DEF AppliesTo
    <3>2. \A d \in Channels : Updating(d) => fdOf[d] # fdOf[c] /\ fdOf[d] \in ConnFds
      BY <3>1 DEF UpdateInv, TypeOK, TableTypeOK
    <3>3. \A d \in Channels : Updating(d) => entries'[fdOf[d]] = entries[fdOf[d]]
      BY <2>5, <3>2 DEF TypeOK, TableTypeOK
    <3> QED
      BY <2>4, <2>5, <3>1, <3>3
  <2>6. CASE /\ NextRequest /\ AppliesTo("REMOVE", c)
             /\ entries' = [entries EXCEPT ![fdOf[c]] = NULL]
    <3>1. AtRequest("REMOVE", c)
      BY <2>6 DEF AppliesTo
    <3>2. \A f \in ConnFds : entries'[f] \in {entries[f], NULL}
      BY <2>6 DEF TypeOK, TableTypeOK
    <3>3. \A d \in Channels : Updating(d) => fdOf[d] \in ConnFds
      BY DEF UpdateInv, TypeOK, TableTypeOK
    <3> QED
      BY <2>4, <2>6, <3>1, <3>2, <3>3
  <2>7. CASE NextRequest /\ UNCHANGED entries /\ \E type \in {"ADD", "REMOVE", "UPDATE"} :
                                                   AtRequest(type, c)
    BY <2>4, <2>7
  <2> QED
    BY <1>13, <2>2, <2>5, <2>6, <2>7, RequestApplied DEF AppliesTo
<1>14. ASSUME pc[Owner] = "Wait" \/ pc[Owner] = "Dispatch", Requested' = Requested
       PROVE  UpdateInv'
  BY <1>2, <1>14 DEF UpdateInv, Updating
<1>15. CASE EpollWait \/ DispatchDone \/ handleWakeup
  <2>1. UNCHANGED <<pending, cursor, arg>> /\ pc[Owner] \in {"Wait", "Dispatch"}
    BY <1>15 DEF EpollWait, DispatchDone, handleWakeup, Activating, EventDone, list
  <2> QED
    BY <1>14, <2>1, RequestsKept
<1>16. ASSUME NEW f \in ConnFds, DispatchHangup(f) \/ ActivateNull(f) PROVE UpdateInv'
  <2>1. UNCHANGED <<pending, cursor, arg>> /\ pc[Owner] = "Dispatch"
    BY <1>16 DEF DispatchHangup, ActivateNull, Activating, Die, list
  <2> QED
    BY <1>14, <2>1, RequestsKept
<1>17. ASSUME NEW f \in ConnFds, ReadCallback(f) \/ WriteCallback(f) PROVE UpdateInv'
  <2>1. /\ UNCHANGED <<pending, cursor, fdOf, openFds, entries>>
        /\ pc[Owner] = "Dispatch" /\ batch[f] # {}
        /\ entries[f] \in Channels /\ entries[f] # NULL
    BY <1>17 DEF ReadCallback, WriteCallback, EventDone, Activating, list, table,
       TypeOK, TableTypeOK
  <2>2. arg[Owner] = NULL /\ \A c \in Channels : ~Updating(c)
    BY <2>1 DEF PostInv, UpdateInv, Threads
  <2>3. CASE UNCHANGED arg
    BY <1>14, <2>1, <2>3, RequestsKept
  <2>4. ASSUME NEW type \in {"UPDATE", "REMOVE"},
               PostFromCallback(Request(type, entries[f]))
        PROVE  UpdateInv'
    <3>1. Request(type, entries[f]) \in Requests
      BY <2>1 DEF Request, Requests
    <3>2. Requested' = Requested \union {Request(type, entries[f])}
      BY <2>1, <2>2, <2>4, <3>1, RequestPosted DEF PostFromCallback, Threads
    <3>3. \A c \in Channels : Adding(c)' => Adding(c)
      BY <3>2 DEF Adding, Request
    <3>4. \A c \in Channels : Updating(c)' => c = entries[f]
      BY <2>2, <3>2 DEF Updating, Request
    <3>5. pc'[Owner] = "Lock"
      BY <2>4 DEF PostFromCallback, Goto, TypeOK, ThreadTypeOK, Threads
    <3>6. fdOf[entries[f]] = f /\ f \in openFds
      BY <2>1 DEF ConnectionInv
    <3>7. \A d \in Channels : fdOf[d] = f => ~Adding(d)
      BY <2>1, LoopAssumption DEF AddInv, BadFd
    <3> QED
      BY <2>1, <3>3, <3>4, <3>5, <3>6, <3>7 DEF UpdateInv
  <2> QED
    BY <1>17, <2>3, <2>4 DEF ReadCallback, WriteCallback
<1>18. CASE UNCHANGED vars
  BY <1>8, <1>18 DEF vars, list, table, channel
<1> QED
  BY <1>5, <1>6, <1>7, <1>9, <1>10, <1>11, <1>12, <1>13, <1>15, <1>16, <1>17, <1>18
  DEF Next, Ended, OwnerStep, HandlePending, ProducerStep, do_channel_event, Dispatch,
      Threads


\* The mask epoll holds is the one of the channel, or an update is under way.
LEMMA WriteInterestStep ==
  /\ TypeOK /\ MutexInv /\ AskedInv /\ WatchedHasChannel
  /\ PostInv /\ ConnectionInv /\ AddOnceInv /\ UpdateInv /\ WriteInterestFollowsChannel
  /\ [Next \/ Ended]_vars
  => WriteInterestFollowsChannel'
<1> SUFFICES ASSUME TypeOK, MutexInv, AskedInv, WatchedHasChannel, PostInv,
                    ConnectionInv, AddOnceInv, UpdateInv,
                    WriteInterestFollowsChannel, [Next \/ Ended]_vars
             PROVE  WriteInterestFollowsChannel'
  OBVIOUS
<1> USE LoopAssumption
<1> DEFINE Follows(f, d) == ("W" \in interest[f] <=> "W" \in events[d]) \/ Updating(d)
<1>1. ASSUME Requested \subseteq Requested', UNCHANGED <<entries, interest, events>>
      PROVE  WriteInterestFollowsChannel'
  BY <1>1 DEF WriteInterestFollowsChannel, Updating
<1>2. ASSUME UNCHANGED <<pending, cursor, arg, entries, interest, events>>
      PROVE  WriteInterestFollowsChannel'
  BY <1>1, <1>2, RequestsKept
<1>3. ASSUME NEW t \in Threads, event_loop_channel_buffer_noblock(t)
      PROVE  WriteInterestFollowsChannel'
  BY <1>1, <1>3, RequestBuffered DEF event_loop_channel_buffer_noblock, table, channel
<1>4. ASSUME NEW t \in Threads, Lock(t) \/ Unlock(t) PROVE WriteInterestFollowsChannel'
  BY <1>2, <1>4 DEF Lock, MutexIsFree, Unlock, table, channel
<1>5. ASSUME NEW p \in Producers, event_loop_wakeup(p) PROVE WriteInterestFollowsChannel'
  BY <1>2, <1>5 DEF event_loop_wakeup, list, table, channel
<1>6. CASE HandleLock \/ HandleDone
  <2>1. Requested' = Requested
    BY <1>6, RequestsAtWalk
  <2> QED
    BY <1>1, <1>6, <2>1 DEF HandleLock, HandleDone, table, channel
<1>7. ASSUME NEW p \in Producers, NEW c \in Channels, Timeout(p, c)
      PROVE  WriteInterestFollowsChannel'
  <2>1. arg[p] = NULL /\ arg' = [arg EXCEPT ![p] = Request("REMOVE", c)]
    BY <1>7 DEF Timeout, Post, PostInv, Threads
  <2>2. UNCHANGED <<pending, cursor, entries, interest, events>>
    BY <1>7 DEF Timeout, list, table, channel
  <2> QED
    BY <1>1, <2>1, <2>2, RequestPosted DEF Request, Requests, Threads
<1>8. ASSUME NEW p \in Producers, NEW c \in Channels, Accept(p, c)
      PROVE  WriteInterestFollowsChannel'
  <2>1. /\ ~Asked(c) /\ arg[p] = NULL
        /\ arg' = [arg EXCEPT ![p] = Request("ADD", c)]
        /\ events' = [events EXCEPT ![c] = {"R"}]
        /\ UNCHANGED <<pending, cursor, entries, interest>>
    BY <1>8 DEF Accept, Post, Asked, PostInv, list, Threads
  <2>2. Requested' = Requested \union {Request("ADD", c)}
    BY <2>1, RequestPosted DEF Request, Requests, Threads
  <2>3. \A f \in ConnFds : entries[f] # c
    BY <2>1 DEF AskedInv
  <2>4. ASSUME NEW f \in ConnFds, interest[f] # {} PROVE events'[entries[f]] = events[entries[f]]
    BY <2>1, <2>3, <2>4 DEF WatchedHasChannel, TypeOK, TableTypeOK
  <2> QED
    BY <2>1, <2>2, <2>4 DEF WriteInterestFollowsChannel, Updating
<1>9. ASSUME NEW c \in Channels,
             \/ event_loop_handle_pending_add(c)
             \/ event_loop_handle_pending_remove(c)
             \/ event_loop_handle_pending_update(c)
             \/ EpollCtlFails(c)
      PROVE  WriteInterestFollowsChannel'
  <2>1. UNCHANGED <<fdOf, events, arg>>
    BY <1>9, RequestApplied
  <2>2. CASE UNCHANGED <<pending, cursor, entries, interest>>
    BY <1>2, <2>1, <2>2
  <2>3. ASSUME NEW type \in {"ADD", "REMOVE", "UPDATE"}, AtRequest(type, c), NextRequest
        PROVE  \A d \in Channels :
                 Updating(d) => Updating(d)' \/ (d = c /\ type = "UPDATE")
    <3>1. Requested \subseteq Requested' \union {Request(type, c)}
      BY <2>3, RequestReached
    <3> QED
      BY <3>1 DEF Updating, Request
  <2>4. ASSUME NEW f \in ConnFds, interest[f] # {}, entries[f] = c
        PROVE  fdOf[c] = f
    BY <2>4 DEF ConnectionInv, WatchedHasChannel
  <2>5. CASE /\ NextRequest /\ UNCHANGED <<entries, interest>>
             /\ \E type \in {"ADD", "REMOVE", "UPDATE"} :
                  AtRequest(type, c) /\ ~CallsEpollCtl(type, fdOf[c])
    <3>1. PICK type \in {"ADD", "REMOVE", "UPDATE"} :
            AtRequest(type, c) /\ ~CallsEpollCtl(type, fdOf[c])
      BY <2>5
    <3>2. ASSUME NEW f \in ConnFds, interest[f] # {}
          PROVE  Follows(f, entries[f])'
      <4>1. entries[f] \in Channels /\ Follows(f, entries[f])
        BY <3>2 DEF WriteInterestFollowsChannel, WatchedHasChannel, TypeOK, TableTypeOK
      <4>2. ~(entries[f] = c /\ type = "UPDATE")
        BY <2>4, <3>1, <3>2 DEF CallsEpollCtl, WatchedHasChannel, BadFd
      <4>3. Updating(entries[f]) => Updating(entries[f])'
        BY <2>3, <2>5, <3>1, <4>1, <4>2
      <4> QED
        BY <2>1, <2>5, <4>1, <4>3 DEF Updating
    <3> QED
      BY <2>5, <3>2 DEF WriteInterestFollowsChannel
  <2>6. CASE /\ NextRequest /\ AppliesTo("ADD", c)
             /\ entries' = [entries EXCEPT ![fdOf[c]] = c]
             /\ interest' = [interest EXCEPT ![fdOf[c]] = events[c]]
    <3>1. fdOf[c] \in ConnFds /\ AtRequest("ADD", c)
      BY <2>6 DEF AppliesTo, CallsEpollCtl, TypeOK, TableTypeOK
    <3>2. ASSUME NEW f \in ConnFds, interest'[f] # {}
          PROVE  Follows(f, entries[f])'
      <4>1. CASE f = fdOf[c]
        BY <2>1, <2>6, <3>1, <4>1 DEF TypeOK, TableTypeOK
      <4>2. CASE f # fdOf[c]
        <5>1. entries'[f] = entries[f] /\ interest'[f] = interest[f]
          BY <2>6, <4>2 DEF TypeOK, TableTypeOK
        <5>2. entries[f] \in Channels /\ Follows(f, entries[f])
          BY <3>2, <5>1 DEF WriteInterestFollowsChannel, WatchedHasChannel, TypeOK,
             TableTypeOK
        <5>3. Updating(entries[f]) => Updating(entries[f])'
          BY <2>3, <2>6, <3>1, <5>1, <5>2
        <5> QED
          BY <2>1, <5>1, <5>2, <5>3 DEF Updating
      <4> QED
        BY <4>1, <4>2
    <3> QED
      BY <3>2 DEF WriteInterestFollowsChannel
  <2>7. CASE /\ NextRequest /\ AppliesTo("REMOVE", c)
             /\ entries' = [entries EXCEPT ![fdOf[c]] = NULL]
             /\ interest' = [interest EXCEPT ![fdOf[c]] = {}]
    <3>1. fdOf[c] \in ConnFds /\ AtRequest("REMOVE", c)
      BY <2>7 DEF AppliesTo, CallsEpollCtl, TypeOK, TableTypeOK
    <3>2. ASSUME NEW f \in ConnFds, interest'[f] # {}
          PROVE  Follows(f, entries[f])'
      <4>1. entries'[f] = entries[f] /\ interest'[f] = interest[f]
        BY <2>7, <3>2 DEF TypeOK, TableTypeOK
      <4>2. entries[f] \in Channels /\ Follows(f, entries[f])
        BY <3>2, <4>1 DEF WriteInterestFollowsChannel, WatchedHasChannel, TypeOK,
           TableTypeOK
      <4>3. Updating(entries[f]) => Updating(entries[f])'
        BY <2>3, <2>7, <3>1, <4>1, <4>2
      <4> QED
        BY <2>1, <4>1, <4>2, <4>3 DEF Updating
    <3> QED
      BY <3>2 DEF WriteInterestFollowsChannel
  <2>8. CASE /\ NextRequest /\ AppliesTo("UPDATE", c) /\ UNCHANGED entries
             /\ interest' = [interest EXCEPT ![fdOf[c]] = events[c] \union {"R"}]
    <3>1. /\ fdOf[c] \in ConnFds /\ AtRequest("UPDATE", c)
          /\ entries[fdOf[c]] # NULL
      BY <2>8 DEF AppliesTo, CallsEpollCtl, TypeOK, TableTypeOK
    <3>2. Updating(c)
      BY <2>8, <3>1, RequestReached DEF Updating
    <3>3. entries[fdOf[c]] = c
      BY <3>1, <3>2 DEF UpdateInv
    <3>4. ASSUME NEW f \in ConnFds, interest'[f] # {}
          PROVE  Follows(f, entries[f])'
      <4>1. CASE f = fdOf[c]
        BY <2>1, <2>8, <3>3, <4>1 DEF TypeOK, TableTypeOK
      <4>2. CASE f # fdOf[c]
        <5>1. interest'[f] = interest[f] /\ interest[f] # {}
          BY <2>8, <3>4, <4>2 DEF TypeOK, TableTypeOK
        <5>2. entries[f] \in Channels /\ entries[f] # c /\ Follows(f, entries[f])
          BY <2>4, <4>2, <5>1 DEF WriteInterestFollowsChannel, WatchedHasChannel, TypeOK,
             TableTypeOK
        <5>3. Updating(entries[f]) => Updating(entries[f])'
          BY <2>3, <2>8, <3>1, <5>2
        <5> QED
          BY <2>1, <2>8, <5>1, <5>2, <5>3 DEF Updating
      <4> QED
        BY <4>1, <4>2
    <3> QED
      BY <3>4 DEF WriteInterestFollowsChannel
  <2> QED
    BY <1>9, <2>2, <2>5, <2>6, <2>7, <2>8, RequestApplied
<1>10. CASE EpollWait \/ DispatchDone \/ handleWakeup
  BY <1>2, <1>10 DEF EpollWait, DispatchDone, handleWakeup, EventDone, list, table,
     channel
<1>11. ASSUME NEW f \in ConnFds, ActivateNull(f) PROVE WriteInterestFollowsChannel'
  BY <1>2, <1>11 DEF ActivateNull, Die, list, table, channel
<1>12. ASSUME NEW f \in ConnFds, DispatchHangup(f) PROVE WriteInterestFollowsChannel'
  <2>1. /\ UNCHANGED <<pending, cursor, arg, entries, events>>
        /\ \A g \in ConnFds : interest'[g] # {} => interest'[g] = interest[g]
    BY <1>12 DEF DispatchHangup, Watch, list, channel, TypeOK, TableTypeOK
  <2> QED
    BY <2>1, RequestsKept DEF WriteInterestFollowsChannel, Updating
<1>13. ASSUME NEW f \in ConnFds, ReadCallback(f) \/ WriteCallback(f)
       PROVE  WriteInterestFollowsChannel'
  <2>1. /\ UNCHANGED <<pending, cursor, entries, interest>>
        /\ entries[f] \in Channels /\ arg[Owner] = NULL
    BY <1>13 DEF ReadCallback, WriteCallback, EventDone, Activating, list, table,
       TypeOK, TableTypeOK, PostInv, Threads
  <2>2. CASE UNCHANGED <<arg, events>>
    BY <1>2, <2>1, <2>2
  <2>3. ASSUME NEW type \in {"UPDATE", "REMOVE"},
               PostFromCallback(Request(type, entries[f]))
        PROVE  Requested' = Requested \union {Request(type, entries[f])}
    <3>1. Request(type, entries[f]) \in Requests
      BY <2>1 DEF Request, Requests
    <3> QED
      BY <2>1, <2>3, <3>1, RequestPosted DEF PostFromCallback, Threads
  <2>4. CASE PostFromCallback(Request("REMOVE", entries[f])) /\ UNCHANGED events
    BY <1>1, <2>1, <2>3, <2>4
  <2>5. ASSUME NEW mask, events' = [events EXCEPT ![entries[f]] = mask],
               PostFromCallback(Request("UPDATE", entries[f]))
        PROVE  WriteInterestFollowsChannel'
    <3>1. Requested' = Requested \union {Request("UPDATE", entries[f])}
      BY <2>3, <2>5
    <3>2. ASSUME NEW g \in ConnFds, interest[g] # {}
          PROVE  Follows(g, entries[g])'
      <4>1. CASE entries[g] = entries[f]
        BY <2>1, <3>1, <4>1 DEF Updating
      <4>2. CASE entries[g] # entries[f]
        <5>1. entries[g] \in Channels /\ Follows(g, entries[g])
          BY <3>2 DEF WriteInterestFollowsChannel, WatchedHasChannel, TypeOK, TableTypeOK
        <5>2. events'[entries[g]] = events[entries[g]]
          BY <2>5, <4>2, <5>1 DEF TypeOK, TableTypeOK
        <5> QED
          BY <2>1, <3>1, <5>1, <5>2 DEF Updating
      <4> QED
        BY <4>1, <4>2
    <3> QED
      BY <2>1, <3>2 DEF WriteInterestFollowsChannel
  <2> QED
    BY <1>13, <2>2, <2>4, <2>5 DEF ReadCallback, WriteCallback
<1>14. CASE UNCHANGED vars
  BY <1>2, <1>14 DEF vars, list, table, channel
<1> QED
  BY <1>3, <1>4, <1>5, <1>6, <1>7, <1>8, <1>9, <1>10, <1>11, <1>12, <1>13, <1>14
  DEF Next, Ended, OwnerStep, HandlePending, ProducerStep, do_channel_event, Dispatch,
      Threads

-----------------------------------------------------------------------------
(* The theorems.                                                           *)

\* The inductive invariant holds in every reachable state.
THEOREM Invariance == SafeSpec => []Inv
<1>1. Init => Inv
  <2> SUFFICES ASSUME Init PROVE Inv
    OBVIOUS
  <2>1. TypeOK
    BY TypeInit
  <2>2. MutexInv
    <3>1. /\ \A t \in Threads : pc[t] \in {"Wait", "Idle"}
          /\ isHandlePending = 0
      BY DEF Init
    <3> QED
      BY <3>1 DEF MutexInv
  <2>3. AskedInv
    <3>1. /\ \A t \in Threads : arg[t] = NULL /\ pc[t] \in {"Wait", "Idle"}
          /\ \A f \in ConnFds : entries[f] = NULL
          /\ pending = << >>
      BY DEF Init
    <3> QED
      BY <3>1 DEF AskedInv
  <2>4. PipeInv
    <3>1. batch[WakeFd] = {}
      BY DEF Init, AllFds
    <3> QED
      BY <3>1 DEF PipeInv, WakeupReadNeverBlocks
  <2>5. NoLostWakeup /\ WatchedHasChannel /\ WriteInterestFollowsChannel
    BY DEF Init, NoLostWakeup, WatchedHasChannel, WriteInterestFollowsChannel
  <2>6. Requested = {}
    <3>1. /\ \A t \in Threads : arg[t] = NULL
          /\ \A i \in cursor .. Len(pending) : FALSE
      BY DEF Init
    <3> QED
      BY <3>1, LoopAssumption DEF Requested
  <2>7. PostInv /\ ConnectionInv /\ AddOnceInv
    <3>1. /\ \A t \in Threads : arg[t] = NULL /\ pc[t] \in {"Wait", "Idle"}
          /\ \A f \in ConnFds : entries[f] = NULL /\ batch[f] = {}
          /\ \A c \in Channels : fdOf[c] = BadFd
          /\ pending = << >> /\ cursor = 1 /\ failure = "none"
      BY DEF Init, AllFds
    <3> QED
      BY <3>1 DEF PostInv, ConnectionInv, AddOnceInv, Threads
  <2>8. AddInv /\ UpdateInv
    BY <2>6 DEF AddInv, UpdateInv, Adding, Updating
  <2> QED
    BY <2>1, <2>2, <2>3, <2>4, <2>5, <2>7, <2>8 DEF Inv
<1>2. Inv /\ [Next \/ Ended]_vars => Inv'
  BY TypeStep, MutexStep, AskedStep, PipeStep, WakeupStep, WatchStep, PostStep,
     ConnectionStep, AddOnceStep, AddStep, UpdateStep, WriteInterestStep DEF Inv
<1> QED
  BY <1>1, <1>2, PTL DEF SafeSpec

\* Every variable keeps its type.
THEOREM TypeCorrect == SafeSpec => []TypeOK
<1>1. Inv => TypeOK
  BY DEF Inv
<1> QED
  BY <1>1, Invariance, PTL

\* The assert(is_handle_pending == 0) of event_loop_do_channel_event
\* (event_loop.c:61) never fails: nothing is appended to the list while the
\* owner walks it.
THEOREM PendingListIsNotWalked == SafeSpec => []AssertHolds
<1>1. Inv => AssertHolds
  BY LoopAssumption DEF Inv, TypeOK, ListTypeOK, MutexInv, AssertHolds
<1> QED
  BY <1>1, Invariance, PTL

\* The owner never sleeps on a non-empty list without a wake-up on its way.
THEOREM WakeupsAreNotLost == SafeSpec => []NoLostWakeup
<1>1. Inv => NoLostWakeup
  BY DEF Inv
<1> QED
  BY <1>1, Invariance, PTL

\* handleWakeup never blocks the owner on an empty socket pair.
THEOREM WakeupReadHasAByte == SafeSpec => []WakeupReadNeverBlocks
<1>1. Inv => WakeupReadNeverBlocks
  BY DEF Inv, PipeInv
<1> QED
  BY <1>1, Invariance, PTL

\* Every descriptor epoll watches is open and has its own channel in the table,
\* and the write interest epoll holds is the one of that channel, or the owner has
\* an update of it under way.
THEOREM InterestIsCurrent == SafeSpec => []InterestFollowsTable
<1>1. Inv => InterestFollowsTable
  BY DEF Inv, InterestFollowsTable
<1> QED
  BY <1>1, Invariance, PTL

-----------------------------------------------------------------------------
(* Every step of the loop is a step of ChannelRegistry, or changes nothing  *)
(* that ChannelRegistry speaks of.                                          *)

Queue == SubSeq(pending, cursor, Len(pending))

\* A step that leaves the list, the table, the descriptors and the outcome alone
\* is no step of the registry.
LEMMA RegistryStutter ==
  ASSUME UNCHANGED <<pending, cursor, entries, fdOf, failure>>
  PROVE  UNCHANGED Registry!registryVars
BY DEF Registry!registryVars

\* A thread that can act runs in a process that has not ended.
LEMMA StillRunning ==
  ASSUME PostInv, NEW t \in Threads, pc[t] # "Ended"
  PROVE  failure = "none"
BY DEF PostInv

\* Appending a request to the list posts it.
LEMMA AppendPosts ==
  ASSUME Inv, NEW t \in Threads, event_loop_channel_buffer_noblock(t)
  PROVE  Registry!Next
<1>1. /\ pc[t] = "Buffer" /\ arg[t] \in Requests
      /\ pending' = Append(pending, arg[t])
      /\ UNCHANGED <<cursor, entries, fdOf, failure>>
  BY DEF event_loop_channel_buffer_noblock, Inv, AskedInv, table, channel
<1>2. pending \in Seq(Requests) /\ pending' \in Seq(Requests)
  BY <1>1 DEF Inv, TypeOK, ListTypeOK
<1>3. isHandlePending = 0
  BY <1>1, LoopAssumption DEF Inv, MutexInv, TypeOK, ListTypeOK
<1>4. cursor = 1
  BY <1>3 DEF Inv, PostInv
<1>5. Queue = pending /\ Queue' = pending'
  BY <1>1, <1>2, <1>4, SubSeqFull DEF Queue
<1>6. Queue' = Append(Queue, arg[t])
  BY <1>1, <1>5
<1>7. failure = "none"
  BY <1>1, StillRunning DEF Inv
<1>8. arg[t] \in Registry!Requests
  BY <1>1 DEF Requests, Registry!Requests
<1> QED
  BY <1>1, <1>6, <1>7, <1>8 DEF Registry!Next, Registry!Post, Queue

\* Moving past a request applies it.
LEMMA ReachingApplies ==
  ASSUME Inv, NEW type \in {"ADD", "REMOVE", "UPDATE"}, NEW c \in Channels,
         AtRequest(type, c), NextRequest,
         \A f \in ConnFds :
           entries'[f] = IF f # fdOf[c] THEN entries[f]
                         ELSE IF type = "REMOVE" THEN NULL
                         ELSE IF type = "ADD" /\ entries[f] = NULL THEN c
                         ELSE entries[f],
         entries' \in [ConnFds -> Channels \union {NULL}]
  PROVE  Registry!Next
<1>1. /\ pc[Owner] = "Handle"
      /\ cursor \in 1 .. Len(pending)
      /\ pending[cursor] = Request(type, c)
      /\ pending \in Seq(Requests)
      /\ cursor' = cursor + 1
      /\ UNCHANGED <<pending, fdOf, failure>>
  BY DEF AtRequest, NextRequest, Inv, TypeOK, ListTypeOK, channel
<1>2. /\ Head(Queue) = Request(type, c)
      /\ Tail(Queue) = Queue'
  BY <1>1, HeadTailOfSubSeq DEF Queue
<1>3. Queue # << >>
  <2>1. Len(Queue) = Len(pending) - cursor + 1
    BY <1>1, SubSeqProperties DEF Queue
  <2> QED
    BY <1>1, <2>1
<1>4. failure = "none"
  BY <1>1, StillRunning DEF Inv, Threads
<1>5. Request(type, c).type = type /\ Request(type, c).channel = c
  BY DEF Request
<1>6. entries' = [f \in ConnFds |->
                    IF f = fdOf[Request(type, c).channel]
                    THEN Registry!SlotAfter(Request(type, c), f) ELSE entries[f]]
  BY <1>5 DEF Registry!SlotAfter
<1> QED
  BY <1>1, <1>2, <1>3, <1>4, <1>6 DEF Registry!Next, Registry!Apply, Queue

\* The end of the process is the abort the registry allows at any point.
LEMMA DyingAborts ==
  ASSUME Inv, NEW t \in Threads, pc[t] # "Ended",
         NEW how \in {"activate_null", "del_null", "exit"}, Die(how)
  PROVE  Registry!Next
<1>1. UNCHANGED <<pending, cursor, entries, fdOf>> /\ failure' = how
  BY DEF Die, list, table, channel
<1>2. failure = "none"
  BY StillRunning DEF Inv
<1> QED
  BY <1>1, <1>2 DEF Registry!Next, Registry!Abort

\* A step of the loop, mapped to a step of the registry or to none.
LEMMA RegistryStep ==
  Inv /\ Inv' /\ [Next \/ Ended]_vars => [Registry!Next]_Registry!registryVars
<1> SUFFICES ASSUME Inv, Inv', [Next \/ Ended]_vars
             PROVE  Registry!Next \/ UNCHANGED Registry!registryVars
  OBVIOUS
<1> DEFINE Stays == UNCHANGED <<pending, cursor, entries, fdOf, failure>>
<1>1. ASSUME NEW t \in Threads, Lock(t) \/ Unlock(t) PROVE Stays
  BY <1>1 DEF Lock, MutexIsFree, Unlock, table, channel
<1>2. ASSUME NEW p \in Producers, event_loop_wakeup(p) PROVE Stays
  BY <1>2 DEF event_loop_wakeup, list, table, channel
<1>3. ASSUME NEW p \in Producers, NEW c \in Channels, Timeout(p, c) PROVE Stays
  BY <1>3 DEF Timeout, list, table, channel
<1>4. CASE EpollWait \/ DispatchDone \/ handleWakeup \/ UNCHANGED vars
  <2>1. Stays
    BY <1>4 DEF EpollWait, DispatchDone, handleWakeup, EventDone, vars, list, table, channel
  <2> QED
    BY <2>1, RegistryStutter
<1>5. ASSUME NEW f \in ConnFds, DispatchHangup(f) \/ ReadCallback(f) \/ WriteCallback(f)
      PROVE  Stays
  BY <1>5 DEF DispatchHangup, ReadCallback, WriteCallback, EventDone, list, table, channel
<1>6. CASE HandleLock
  <2>1. cursor = 1
    BY <1>6, LoopAssumption DEF HandleLock, MutexIsFree, Inv, MutexInv, PostInv, TypeOK,
       ListTypeOK
  <2> QED
    BY <1>6, <2>1, RegistryStutter DEF HandleLock, table, channel
<1>7. CASE HandleDone
  <2>1. Queue = << >> /\ Queue' = << >>
    BY <1>7, SubSeqEmpty DEF HandleDone, Queue, Inv, TypeOK, ListTypeOK
  <2> QED
    BY <1>7, <2>1 DEF HandleDone, Registry!registryVars, Queue, table, channel
<1>8. ASSUME NEW c \in Channels, event_loop_handle_pending_add(c)
      PROVE  Registry!Next
  <2>1. AtRequest("ADD", c) /\ NextRequest
    BY <1>8 DEF event_loop_handle_pending_add, SkipsOver, AppliesTo
  <2>2. \/ entries' = entries /\ (fdOf[c] # BadFd => entries[fdOf[c]] # NULL)
        \/ entries' = [entries EXCEPT ![fdOf[c]] = c] /\ entries[fdOf[c]] = NULL
    BY <1>8 DEF event_loop_handle_pending_add, SkipsOver, AppliesTo, CallsEpollCtl
  <2>3. entries \in [ConnFds -> Channels \union {NULL}] /\ BadFd \notin ConnFds
    BY LoopAssumption DEF Inv, TypeOK, TableTypeOK, BadFd
  <2> QED
    BY <2>1, <2>2, <2>3, ReachingApplies
<1>9. ASSUME NEW c \in Channels, event_loop_handle_pending_remove(c)
      PROVE  Registry!Next
  <2>1. AtRequest("REMOVE", c)
    BY <1>9 DEF event_loop_handle_pending_remove, SkipsOver, AppliesTo
  <2>2. CASE Die("del_null")
    BY <2>1, <2>2, DyingAborts DEF AtRequest, Threads
  <2>3. CASE NextRequest
    <3>1. ~Die("del_null")
      BY <2>1, <2>3 DEF AtRequest, NextRequest, Die, Threads
    <3>2. \/ entries' = entries /\ fdOf[c] = BadFd
          \/ entries' = [entries EXCEPT ![fdOf[c]] = NULL]
      BY <1>9, <3>1 DEF event_loop_handle_pending_remove, SkipsOver
    <3>3. entries \in [ConnFds -> Channels \union {NULL}] /\ BadFd \notin ConnFds
      BY LoopAssumption DEF Inv, TypeOK, TableTypeOK, BadFd
    <3> QED
      BY <2>1, <2>3, <3>2, <3>3, ReachingApplies
  <2> QED
    BY <1>9, <2>2, <2>3 DEF event_loop_handle_pending_remove, SkipsOver
<1>10. ASSUME NEW c \in Channels, event_loop_handle_pending_update(c)
       PROVE  Registry!Next
  <2>1. AtRequest("UPDATE", c) /\ NextRequest /\ UNCHANGED entries
    BY <1>10 DEF event_loop_handle_pending_update, SkipsOver, AppliesTo
  <2>2. entries \in [ConnFds -> Channels \union {NULL}]
    BY DEF Inv, TypeOK, TableTypeOK
  <2> QED
    BY <2>1, <2>2, ReachingApplies
<1>11. ASSUME NEW c \in Channels, EpollCtlFails(c) PROVE Registry!Next
  <2>1. pc[Owner] # "Ended" /\ Die("exit")
    BY <1>11 DEF EpollCtlFails, AtRequest
  <2> QED
    BY <2>1, DyingAborts DEF Threads
<1>12. ASSUME NEW f \in ConnFds, ActivateNull(f) PROVE Registry!Next
  <2>1. pc[Owner] # "Ended" /\ Die("activate_null")
    BY <1>12 DEF ActivateNull, Activating
  <2> QED
    BY <2>1, DyingAborts DEF Threads
<1>13. ASSUME NEW p \in Producers, NEW c \in Channels, Accept(p, c)
       PROVE  Registry!Next \/ UNCHANGED Registry!registryVars
  <2>1. PICK fd \in AcceptedFd : fdOf' = [fdOf EXCEPT ![c] = fd]
    BY <1>13 DEF Accept
  <2>2. /\ UNCHANGED <<pending, cursor, entries, failure>>
        /\ pc[p] = "Idle" /\ ~Asked(c)
    BY <1>13 DEF Accept, Post, Asked, list
  <2>3. fdOf[c] = BadFd
    BY <2>2 DEF Inv, ConnectionInv
  <2>4. CASE fd = BadFd
    <3>1. fdOf' = fdOf
      BY <2>1, <2>3, <2>4 DEF Inv, TypeOK, TableTypeOK
    <3> QED
      BY <2>2, <3>1, RegistryStutter
  <2>5. CASE fd # BadFd
    <3>1. fd \in ConnFds
      BY <2>5 DEF AcceptedFd
    <3>2. failure = "none"
      BY <2>2, StillRunning DEF Inv, Threads
    <3>3. Registry!Open(c, fd)
      BY <2>1, <2>2, <2>3, <3>2 DEF Registry!Open
    <3> QED
      BY <3>1, <3>2, <3>3 DEF Registry!Next
  <2> QED
    BY <2>4, <2>5
<1>14. ASSUME NEW t \in Threads, event_loop_channel_buffer_noblock(t)
       PROVE  Registry!Next
  BY <1>14, AppendPosts
<1> QED
  BY <1>1, <1>2, <1>3, <1>4, <1>5, <1>6, <1>7, <1>8, <1>9, <1>10, <1>11, <1>12, <1>13,
     <1>14, RegistryStutter
  DEF Next, Ended, OwnerStep, HandlePending, ProducerStep, do_channel_event, Dispatch,
      Threads

\* The loop implements what ChannelRegistry promises of each step: requests are
\* queued, applied once each, in the order in which the threads took the mutex.
THEOREM StepsImplementRegistry == SafeSpec => StepsAreRegistrySteps
<1>1. Init => Registry!Init
  <2> SUFFICES ASSUME Init PROVE Registry!Init
    OBVIOUS
  <2>1. SubSeq(pending, cursor, Len(pending)) = << >>
    BY SubSeqEmpty DEF Init
  <2> QED
    BY <2>1 DEF Init, Registry!Init
<1> QED
  BY <1>1, RegistryStep, Invariance, PTL DEF SafeSpec, StepsAreRegistrySteps, Registry!SafeSpec
=============================================================================
