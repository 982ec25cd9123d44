----------------------------- MODULE ThreadPool -----------------------------
(***************************************************************************)
(* The pool of worker loops (utils/thread_pool.c) and the hand-over of a   *)
(* loop from the worker that makes it to the main thread that uses it      *)
(* (utils/event_loop_thread.c).                                            *)
(*                                                                         *)
(* The main thread starts the workers one after the other and waits, under *)
(* the worker's mutex and on its condition variable, until the worker has  *)
(* published its loop; then it hands accepted connections to the loops in  *)
(* turn.  pthread_create succeeds, and pthread_cond_wait may return        *)
(* although nobody signalled.                                              *)
(***************************************************************************)
EXTENDS Integers

CONSTANTS
  NThread,  \* threadPool->nthread
  MaxPicks, \* bound on the connections handed out
  Main,     \* the main thread, and the main loop it owns
  NULL

ASSUME PoolAssumption ==
  /\ NThread \in Nat
  /\ MaxPicks \in Nat
  /\ Main \notin Nat
  /\ NULL \notin Nat \union {Main}

Workers == 0 .. NThread - 1

VARIABLES
  pc,          \* control point of the main thread and of each worker
  index,       \* i of thread_pool_start: the worker being started
  mutex,       \* holder of eventLoopThread->mutex
  signalled,   \* the condition variable has woken its waiter up
  initialised, \* event_loop_init_with_name has returned
  eventLoop,   \* eventLoopThread->eventLoop
  started,     \* threadPool->started
  position,    \* threadPool->position
  picks        \* how many connections each loop was given

sync  == <<mutex, signalled>>
loops == <<initialised, eventLoop>>
pool  == <<started, position, picks>>
vars  == <<pc, index, sync, loops, pool>>

Threads == Workers \union {Main}

Goto(t, l) == pc' = [pc EXCEPT ![t] = l]

Init ==
  /\ pc = [t \in Threads |-> IF t = Main THEN "Start" ELSE "Unborn"]
  /\ index = 0
  /\ mutex = [w \in Workers |-> NULL]
  /\ signalled = FALSE
  /\ initialised = [w \in Workers |-> FALSE]
  /\ eventLoop = [w \in Workers |-> NULL]
  /\ started = FALSE
  /\ position = 0
  /\ picks = [w \in Threads |-> 0]

-----------------------------------------------------------------------------
(* The main thread.                                                        *)

AfterStart == IF NThread > 0 THEN "Create" ELSE "Serve"

thread_pool_start ==
  /\ pc[Main] = "Start"
  /\ ~started
  /\ started' = TRUE
  /\ Goto(Main, AfterStart)
  /\ UNCHANGED <<index, sync, loops, position, picks>>

\* event_loop_thread_init and pthread_create.
CreateThread ==
  /\ pc[Main] = "Create"
  /\ pc' = [pc EXCEPT ![Main] = "Lock", ![index] = "Lock"]
  /\ UNCHANGED <<index, sync, loops, pool>>

Acquire(t, w, l) ==
  /\ mutex[w] = NULL
  /\ mutex' = [mutex EXCEPT ![w] = t]
  /\ Goto(t, l)
  /\ UNCHANGED <<index, signalled, loops, pool>>

LockStarted == pc[Main] = "Lock" /\ Acquire(Main, index, "Test")

\* The loop is there: leave the while loop.
FindLoop ==
  /\ pc[Main] = "Test"
  /\ eventLoop[index] # NULL
  /\ Goto(Main, "Unlock")
  /\ UNCHANGED <<index, sync, loops, pool>>

\* pthread_cond_wait releases the mutex and starts to wait in one step.
WaitForLoop ==
  /\ pc[Main] = "Test"
  /\ eventLoop[index] = NULL
  /\ mutex' = [mutex EXCEPT ![index] = NULL]
  /\ signalled' = FALSE
  /\ Goto(Main, "Waiting")
  /\ UNCHANGED <<index, loops, pool>>

\* Mutant: one wait instead of a loop around it.
ReturnWithoutTest ==
  /\ pc[Main] = "Waiting"
  /\ Acquire(Main, index, "Unlock")

\* A signal, or a spurious wake-up; the mutex is taken again before the test.
ReturnFromWait ==
  /\ pc[Main] = "Waiting"
  /\ Acquire(Main, index, "Test")

UnlockStarted ==
  /\ pc[Main] = "Unlock"
  /\ mutex' = [mutex EXCEPT ![index] = NULL]
  /\ index' = index + 1
  /\ Goto(Main, IF index + 1 < NThread THEN "Create" ELSE "Serve")
  /\ UNCHANGED <<signalled, loops, pool>>

Pick(loop) == picks' = [picks EXCEPT ![loop] = @ + 1]

\* Mutant: the last worker is passed over.
NextPositionShort == IF position + 2 >= NThread THEN 0 ELSE position + 1

NextPosition == IF position + 1 >= NThread THEN 0 ELSE position + 1

thread_pool_get_loop ==
  /\ pc[Main] = "Serve"
  /\ started
  /\ \A w \in Threads : picks[w] < MaxPicks
  /\ IF NThread > 0
       THEN /\ Pick(eventLoop[position])
            /\ position' = NextPosition
       ELSE Pick(Main) /\ UNCHANGED position
  /\ UNCHANGED <<pc, index, sync, loops, started>>

-----------------------------------------------------------------------------
(* A worker: event_loop_thread_run.                                        *)

LockOwn(w) == pc[w] = "Lock" /\ Acquire(w, w, "Init")

event_loop_init_with_name(w) ==
  /\ pc[w] = "Init"
  /\ initialised' = [initialised EXCEPT ![w] = TRUE]
  /\ Goto(w, "Publish")
  /\ UNCHANGED <<index, sync, eventLoop, pool>>

Publish(w) ==
  /\ pc[w] = "Publish"
  /\ eventLoop' = [eventLoop EXCEPT ![w] = w]
  /\ Goto(w, "Signal")
  /\ UNCHANGED <<index, sync, initialised, pool>>

\* Mutant: nobody is told.
NoSignal(w) ==
  pc[w] = "Signal" /\ Goto(w, "Unlock") /\ UNCHANGED <<index, sync, loops, pool>>

Signal(w) ==
  /\ pc[w] = "Signal"
  /\ signalled' = (signalled \/ (pc[Main] = "Waiting" /\ index = w))
  /\ Goto(w, "Unlock")
  /\ UNCHANGED <<index, mutex, loops, pool>>

\* The worker goes on to event_loop_run, which is module EventLoop.
UnlockOwn(w) ==
  /\ pc[w] = "Unlock"
  /\ mutex' = [mutex EXCEPT ![w] = NULL]
  /\ Goto(w, "Run")
  /\ UNCHANGED <<index, signalled, loops, pool>>

WorkerStep(w) ==
  \/ LockOwn(w)
  \/ event_loop_init_with_name(w)
  \/ Publish(w)
  \/ Signal(w)
  \/ UnlockOwn(w)

-----------------------------------------------------------------------------
Loading == FindLoop \/ WaitForLoop \/ UnlockStarted

MainStep ==
  \/ thread_pool_start
  \/ CreateThread
  \/ LockStarted
  \/ Loading
  \/ ReturnFromWait
  \/ thread_pool_get_loop

\* The bound on the connections is reached.
AllServed ==
  /\ \E w \in Threads : picks[w] = MaxPicks
  /\ pc[Main] = "Serve"
  /\ UNCHANGED vars

Next == MainStep \/ (\E w \in Workers : WorkerStep(w)) \/ AllServed

SafeSpec == Init /\ [][Next]_vars

(***************************************************************************)
(* Threads run, and a thread that waits for a mutex is not passed over for *)
(* ever.  Only a signal makes pthread_cond_wait return for certain.        *)
(***************************************************************************)
Fairness ==
  /\ WF_vars(thread_pool_start \/ CreateThread \/ Loading)
  /\ SF_vars(LockStarted)
  /\ WF_vars(signalled /\ ReturnFromWait)
  /\ \A w \in Workers : SF_vars(LockOwn(w)) /\ WF_vars(WorkerStep(w))

Spec == SafeSpec /\ Fairness

-----------------------------------------------------------------------------
\* Type invariant.
Labels == {"Start", "Create", "Lock", "Test", "Waiting", "Unlock", "Serve",
           "Unborn", "Init", "Publish", "Signal", "Run"}

TypeOK ==
  /\ pc \in [Threads -> Labels]
  /\ index \in 0 .. NThread
  /\ mutex \in [Workers -> Threads \union {NULL}]
  /\ signalled \in BOOLEAN
  /\ initialised \in [Workers -> BOOLEAN]
  /\ eventLoop \in [Workers -> Workers \union {NULL}]
  /\ started \in BOOLEAN
  /\ position \in Nat /\ (position < NThread \/ position = 0)
  /\ picks \in [Threads -> 0 .. MaxPicks]

\* When event_loop_thread_start has returned, and so whenever a connection can
\* be handed out, the worker's loop is complete and is the worker's own.
StartedLoopsAreReady ==
  \A w \in Workers : w < index => eventLoop[w] = w /\ initialised[w]

\* The main thread never looks at eventLoopThread->eventLoop while the worker
\* may be writing it.
PublishedUnderMutex ==
  pc[Main] \in {"Test", "Unlock"} => pc[index] \notin {"Init", "Publish"}

\* Round robin: no loop is ever given two connections more than another.
PicksAreBalanced == \A v, w \in Workers : picks[v] <= picks[w] + 1

(***************************************************************************)
(* Why these hold: the turn, the hand-over and the mutex.                  *)
(***************************************************************************)
\* Every loop had k connections, those before position one more.
PicksFollowPosition ==
  \E k \in 0 .. MaxPicks :
    \A w \in Workers : picks[w] = k + (IF w < position THEN 1 ELSE 0)

HandOverInv ==
  /\ \A w \in Workers : eventLoop[w] # NULL => eventLoop[w] = w /\ initialised[w]
  /\ \A w \in Workers : pc[w] = "Publish" => initialised[w]
  /\ pc[Main] = "Unlock" => eventLoop[index] # NULL
  /\ pc[Main] \in {"Create", "Lock", "Test", "Waiting", "Unlock"} => index < NThread
  /\ pc[Main] = "Start" => index = 0
  /\ pc[Main] = "Serve" => index = NThread

MutexInv ==
  /\ \A w \in Workers : pc[w] \in {"Init", "Publish", "Signal", "Unlock"} => mutex[w] = w
  /\ pc[Main] \in {"Test", "Unlock"} => mutex[index] = Main

\* The inductive invariant.
Inv == TypeOK /\ StartedLoopsAreReady /\ PicksFollowPosition /\ HandOverInv /\ MutexInv

\* A worker's signal is never lost: the main thread gets past every start,
\* however the two interleave and however often the wait returns for nothing.
PoolStarts == <>(pc[Main] = "Serve")
=============================================================================
