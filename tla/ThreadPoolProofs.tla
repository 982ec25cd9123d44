-------------------------- MODULE ThreadPoolProofs --------------------------
(***************************************************************************)
(* Theorems about ThreadPool, for any number of workers and connections.   *)
(***************************************************************************)
EXTENDS ThreadPool, TLAPS

\* The main thread is none of the workers.
LEMMA ThreadsAreDistinct ==
  /\ Workers \subseteq Nat
  /\ Workers \subseteq Threads
  /\ Main \in Threads
  /\ Main \notin Workers
  /\ NULL \notin Threads
BY PoolAssumption DEF Workers, Threads

\* The initial state satisfies the inductive invariant.
LEMMA InitInv == Init => Inv
<1> SUFFICES ASSUME Init PROVE Inv
  OBVIOUS
<1> USE PoolAssumption, ThreadsAreDistinct DEF Init
<1>1. TypeOK
  <2>1. pc \in [Threads -> Labels]
    BY DEF Labels
  <2>2. index \in 0 .. NThread /\ position \in Nat /\ position = 0
    OBVIOUS
  <2>3. picks \in [Threads -> 0 .. MaxPicks]
    OBVIOUS
  <2>4. /\ mutex \in [Workers -> Threads \union {NULL}]
        /\ eventLoop \in [Workers -> Workers \union {NULL}]
        /\ initialised \in [Workers -> BOOLEAN]
        /\ signalled \in BOOLEAN /\ started \in BOOLEAN
    OBVIOUS
  <2> QED
    BY <2>1, <2>2, <2>3, <2>4 DEF TypeOK
<1>2. StartedLoopsAreReady
  BY DEF StartedLoopsAreReady
<1>3. PicksFollowPosition
  BY DEF PicksFollowPosition
<1>4. HandOverInv
  BY DEF HandOverInv
<1>5. MutexInv
  BY DEF MutexInv
<1> QED
  BY <1>1, <1>2, <1>3, <1>4, <1>5 DEF Inv

\* The turn goes round: a step keeps the loops before position one ahead.
LEMMA PickStep == Inv /\ thread_pool_get_loop => PicksFollowPosition' /\ TypeOK'
<1> SUFFICES ASSUME Inv, thread_pool_get_loop
             PROVE  PicksFollowPosition' /\ TypeOK'
  OBVIOUS
<1> USE PoolAssumption, ThreadsAreDistinct DEF Inv, TypeOK
<1>1. CASE NThread = 0
  BY <1>1 DEF thread_pool_get_loop, Pick, PicksFollowPosition, sync, loops
<1>2. CASE NThread > 0
  <2>1. /\ position \in Workers
        /\ eventLoop[position] = position
        /\ picks' = [picks EXCEPT ![position] = @ + 1]
        /\ position' = NextPosition
        /\ picks[position] < MaxPicks
        /\ UNCHANGED <<pc, index, mutex, signalled, initialised, eventLoop, started>>
    BY <1>2 DEF thread_pool_get_loop, Pick, HandOverInv, StartedLoopsAreReady, sync, loops,
           Workers
  <2>2. PICK k \in 0 .. MaxPicks :
          \A w \in Workers : picks[w] = k + (IF w < position THEN 1 ELSE 0)
    BY DEF PicksFollowPosition
  <2>3. k + 1 \in 0 .. MaxPicks
    BY <2>1, <2>2
  <2>4. PicksFollowPosition'
    <3>1. CASE position + 1 >= NThread
      <4>1. \A w \in Workers : picks'[w] = k + 1
        BY <2>1, <2>2, <3>1 DEF Workers
      <4>2. position' = 0
        BY <2>1, <3>1 DEF NextPosition
      <4>3. \A w \in Workers : picks'[w] = (k + 1) + (IF w < position' THEN 1 ELSE 0)
        BY <4>1, <4>2
      <4> QED
        BY <2>3, <4>3 DEF PicksFollowPosition
    <3>2. CASE ~(position + 1 >= NThread)
      <4>1. position' = position + 1
        BY <2>1, <3>2 DEF NextPosition
      <4>2. \A w \in Workers : picks'[w] = k + (IF w < position' THEN 1 ELSE 0)
        BY <2>1, <2>2, <4>1 DEF Workers
      <4> QED
        BY <4>2 DEF PicksFollowPosition
    <3> QED
      BY <3>1, <3>2
  <2>5. position' \in Nat /\ position' < NThread
    BY <1>2, <2>1 DEF NextPosition
  <2>6. picks' \in [Threads -> 0 .. MaxPicks]
    BY <2>1
  <2> QED
    BY <2>1, <2>4, <2>5, <2>6
<1> QED
  BY <1>1, <1>2

\* One step keeps the inductive invariant.
LEMMA StepInv == Inv /\ [Next]_vars => Inv'
<1> SUFFICES ASSUME Inv, [Next]_vars PROVE Inv'
  OBVIOUS
<1> USE PoolAssumption, ThreadsAreDistinct DEF Inv, TypeOK, Goto, sync, loops, pool
<1>1. ASSUME UNCHANGED <<position, picks>> PROVE PicksFollowPosition'
  BY <1>1 DEF PicksFollowPosition
<1>2. CASE thread_pool_start
  <2>1. pc' \in [Threads -> Labels]
    BY <1>2 DEF thread_pool_start, AfterStart, Labels
  <2>2. /\ index' \in 0 .. NThread /\ signalled' \in BOOLEAN /\ started' \in BOOLEAN
        /\ UNCHANGED <<position, picks>>
    BY <1>2 DEF thread_pool_start, AfterStart
  <2>3. mutex' \in [Workers -> Threads \union {NULL}]
    BY <1>2 DEF thread_pool_start, AfterStart
  <2>4. /\ initialised' \in [Workers -> BOOLEAN]
        /\ eventLoop' \in [Workers -> Workers \union {NULL}]
    BY <1>2 DEF thread_pool_start, AfterStart
  <2>5. StartedLoopsAreReady'
    BY <1>2 DEF thread_pool_start, AfterStart, StartedLoopsAreReady
  <2>6. HandOverInv'
    BY <1>2 DEF thread_pool_start, AfterStart, HandOverInv
  <2>7. MutexInv'
    BY <1>2 DEF thread_pool_start, AfterStart, MutexInv, HandOverInv
  <2> QED
    BY <1>1, <2>1, <2>2, <2>3, <2>4, <2>5, <2>6, <2>7 DEF Inv
<1>3. CASE CreateThread
  <2>1. pc' \in [Threads -> Labels]
    BY <1>3 DEF CreateThread, Labels
  <2>2. /\ index' \in 0 .. NThread /\ signalled' \in BOOLEAN /\ started' \in BOOLEAN
        /\ UNCHANGED <<position, picks>>
    BY <1>3 DEF CreateThread
  <2>3. mutex' \in [Workers -> Threads \union {NULL}]
    BY <1>3 DEF CreateThread
  <2>4. /\ initialised' \in [Workers -> BOOLEAN]
        /\ eventLoop' \in [Workers -> Workers \union {NULL}]
    BY <1>3 DEF CreateThread
  <2>5. StartedLoopsAreReady'
    BY <1>3 DEF CreateThread, StartedLoopsAreReady
  <2>6. HandOverInv'
    BY <1>3 DEF CreateThread, HandOverInv
  <2>7. MutexInv'
    BY <1>3 DEF CreateThread, MutexInv, HandOverInv
  <2> QED
    BY <1>1, <2>1, <2>2, <2>3, <2>4, <2>5, <2>6, <2>7 DEF Inv
<1>4. CASE LockStarted
  <2>1. pc' \in [Threads -> Labels]
    BY <1>4 DEF LockStarted, Acquire, Labels
  <2>2. /\ index' \in 0 .. NThread /\ signalled' \in BOOLEAN /\ started' \in BOOLEAN
        /\ UNCHANGED <<position, picks>>
    BY <1>4 DEF LockStarted, Acquire
  <2>3. mutex' \in [Workers -> Threads \union {NULL}]
    BY <1>4 DEF LockStarted, Acquire
  <2>4. /\ initialised' \in [Workers -> BOOLEAN]
        /\ eventLoop' \in [Workers -> Workers \union {NULL}]
    BY <1>4 DEF LockStarted, Acquire
  <2>5. StartedLoopsAreReady'
    BY <1>4 DEF LockStarted, Acquire, StartedLoopsAreReady
  <2>6. HandOverInv'
    BY <1>4 DEF LockStarted, Acquire, HandOverInv
  <2>7. MutexInv'
    <3>1. index \in Workers /\ mutex[index] = NULL /\ pc' = [pc EXCEPT ![Main] = "Test"]
      BY <1>4 DEF LockStarted, Acquire, HandOverInv, Workers
    <3>2. mutex' = [mutex EXCEPT ![index] = Main] /\ index' = index
      BY <1>4 DEF LockStarted, Acquire
    <3>3. pc[index] \notin {"Init", "Publish", "Signal", "Unlock"}
      BY <3>1 DEF MutexInv
    <3> QED
      BY <3>1, <3>2, <3>3 DEF MutexInv
  <2> QED
    BY <1>1, <2>1, <2>2, <2>3, <2>4, <2>5, <2>6, <2>7 DEF Inv
<1>5. CASE ReturnFromWait
  <2>1. pc' \in [Threads -> Labels]
    BY <1>5 DEF ReturnFromWait, Acquire, Labels
  <2>2. /\ index' \in 0 .. NThread /\ signalled' \in BOOLEAN /\ started' \in BOOLEAN
        /\ UNCHANGED <<position, picks>>
    BY <1>5 DEF ReturnFromWait, Acquire
  <2>3. mutex' \in [Workers -> Threads \union {NULL}]
    BY <1>5 DEF ReturnFromWait, Acquire
  <2>4. /\ initialised' \in [Workers -> BOOLEAN]
        /\ eventLoop' \in [Workers -> Workers \union {NULL}]
    BY <1>5 DEF ReturnFromWait, Acquire
  <2>5. StartedLoopsAreReady'
    BY <1>5 DEF ReturnFromWait, Acquire, StartedLoopsAreReady
  <2>6. HandOverInv'
    BY <1>5 DEF ReturnFromWait, Acquire, HandOverInv
  <2>7. MutexInv'
    <3>1. index \in Workers /\ mutex[index] = NULL /\ pc' = [pc EXCEPT ![Main] = "Test"]
      BY <1>5 DEF ReturnFromWait, Acquire, HandOverInv, Workers
    <3>2. mutex' = [mutex EXCEPT ![index] = Main] /\ index' = index
      BY <1>5 DEF ReturnFromWait, Acquire
    <3>3. pc[index] \notin {"Init", "Publish", "Signal", "Unlock"}
      BY <3>1 DEF MutexInv
    <3> QED
      BY <3>1, <3>2, <3>3 DEF MutexInv
  <2> QED
    BY <1>1, <2>1, <2>2, <2>3, <2>4, <2>5, <2>6, <2>7 DEF Inv
<1>6. CASE FindLoop
  <2>1. pc' \in [Threads -> Labels]
    BY <1>6 DEF FindLoop, Labels
  <2>2. /\ index' \in 0 .. NThread /\ signalled' \in BOOLEAN /\ started' \in BOOLEAN
        /\ UNCHANGED <<position, picks>>
    BY <1>6 DEF FindLoop
  <2>3. mutex' \in [Workers -> Threads \union {NULL}]
    BY <1>6 DEF FindLoop
  <2>4. /\ initialised' \in [Workers -> BOOLEAN]
        /\ eventLoop' \in [Workers -> Workers \union {NULL}]
    BY <1>6 DEF FindLoop
  <2>5. StartedLoopsAreReady'
    BY <1>6 DEF FindLoop, StartedLoopsAreReady
  <2>6. HandOverInv'
    BY <1>6 DEF FindLoop, HandOverInv
  <2>7. MutexInv'
    BY <1>6 DEF FindLoop, MutexInv, HandOverInv
  <2> QED
    BY <1>1, <2>1, <2>2, <2>3, <2>4, <2>5, <2>6, <2>7 DEF Inv
<1>7. CASE WaitForLoop
  <2>1. pc' \in [Threads -> Labels]
    BY <1>7 DEF WaitForLoop, Labels
  <2>2. /\ index' \in 0 .. NThread /\ signalled' \in BOOLEAN /\ started' \in BOOLEAN
        /\ UNCHANGED <<position, picks>>
    BY <1>7 DEF WaitForLoop
  <2>3. mutex' \in [Workers -> Threads \union {NULL}]
    BY <1>7 DEF WaitForLoop
  <2>4. /\ initialised' \in [Workers -> BOOLEAN]
        /\ eventLoop' \in [Workers -> Workers \union {NULL}]
    BY <1>7 DEF WaitForLoop
  <2>5. StartedLoopsAreReady'
    BY <1>7 DEF WaitForLoop, StartedLoopsAreReady
  <2>6. HandOverInv'
    BY <1>7 DEF WaitForLoop, HandOverInv
  <2>7. MutexInv'
    BY <1>7 DEF WaitForLoop, MutexInv, HandOverInv
  <2> QED
    BY <1>1, <2>1, <2>2, <2>3, <2>4, <2>5, <2>6, <2>7 DEF Inv
<1>8. CASE UnlockStarted
  <2>1. pc' \in [Threads -> Labels]
    BY <1>8 DEF UnlockStarted, Labels
  <2>2. /\ index' \in 0 .. NThread /\ signalled' \in BOOLEAN /\ started' \in BOOLEAN
        /\ UNCHANGED <<position, picks>>
    BY <1>8 DEF UnlockStarted, HandOverInv
  <2>3. mutex' \in [Workers -> Threads \union {NULL}]
    BY <1>8 DEF UnlockStarted
  <2>4. /\ initialised' \in [Workers -> BOOLEAN]
        /\ eventLoop' \in [Workers -> Workers \union {NULL}]
    BY <1>8 DEF UnlockStarted
  <2>5. StartedLoopsAreReady'
    BY <1>8 DEF UnlockStarted, StartedLoopsAreReady, HandOverInv
  <2>6. HandOverInv'
    BY <1>8 DEF UnlockStarted, HandOverInv
  <2>7. MutexInv'
    BY <1>8 DEF UnlockStarted, MutexInv, HandOverInv
  <2> QED
    BY <1>1, <2>1, <2>2, <2>3, <2>4, <2>5, <2>6, <2>7 DEF Inv
<1>9. CASE thread_pool_get_loop
  <2>1. UNCHANGED <<pc, index, mutex, initialised, eventLoop>>
    BY <1>9 DEF thread_pool_get_loop
  <2>2. StartedLoopsAreReady' /\ HandOverInv' /\ MutexInv'
    BY <2>1 DEF StartedLoopsAreReady, HandOverInv, MutexInv
  <2> QED
    BY <1>9, <2>2, PickStep
<1>10. ASSUME NEW w \in Workers, LockOwn(w) PROVE Inv'
  <2>1. pc' \in [Threads -> Labels]
    BY <1>10 DEF LockOwn, Acquire, Labels
  <2>2. /\ index' \in 0 .. NThread /\ signalled' \in BOOLEAN /\ started' \in BOOLEAN
        /\ UNCHANGED <<position, picks>>
    BY <1>10 DEF LockOwn, Acquire
  <2>3. mutex' \in [Workers -> Threads \union {NULL}]
    BY <1>10 DEF LockOwn, Acquire
  <2>4. /\ initialised' \in [Workers -> BOOLEAN]
        /\ eventLoop' \in [Workers -> Workers \union {NULL}]
    BY <1>10 DEF LockOwn, Acquire
  <2>5. StartedLoopsAreReady'
    BY <1>10 DEF LockOwn, Acquire, StartedLoopsAreReady
  <2>6. HandOverInv'
    BY <1>10 DEF LockOwn, Acquire, HandOverInv
  <2>7. MutexInv'
    BY <1>10 DEF LockOwn, Acquire, MutexInv, HandOverInv
  <2> QED
    BY <1>1, <2>1, <2>2, <2>3, <2>4, <2>5, <2>6, <2>7 DEF Inv
<1>11. ASSUME NEW w \in Workers, event_loop_init_with_name(w) PROVE Inv'
  <2>1. pc' \in [Threads -> Labels]
    BY <1>11 DEF event_loop_init_with_name, Labels
  <2>2. /\ index' \in 0 .. NThread /\ signalled' \in BOOLEAN /\ started' \in BOOLEAN
        /\ UNCHANGED <<position, picks>>
    BY <1>11 DEF event_loop_init_with_name
  <2>3. mutex' \in [Workers -> Threads \union {NULL}]
    BY <1>11 DEF event_loop_init_with_name
  <2>4. /\ initialised' \in [Workers -> BOOLEAN]
        /\ eventLoop' \in [Workers -> Workers \union {NULL}]
    BY <1>11 DEF event_loop_init_with_name
  <2>5. StartedLoopsAreReady'
    BY <1>11 DEF event_loop_init_with_name, StartedLoopsAreReady
  <2>6. HandOverInv'
    BY <1>11 DEF event_loop_init_with_name, HandOverInv
  <2>7. MutexInv'
    BY <1>11 DEF event_loop_init_with_name, MutexInv, HandOverInv
  <2> QED
    BY <1>1, <2>1, <2>2, <2>3, <2>4, <2>5, <2>6, <2>7 DEF Inv
<1>12. ASSUME NEW w \in Workers, Publish(w) PROVE Inv'
  <2>1. pc' \in [Threads -> Labels]
    BY <1>12 DEF Publish, Labels
  <2>2. /\ index' \in 0 .. NThread /\ signalled' \in BOOLEAN /\ started' \in BOOLEAN
        /\ UNCHANGED <<position, picks>>
    BY <1>12 DEF Publish
  <2>3. mutex' \in [Workers -> Threads \union {NULL}]
    BY <1>12 DEF Publish
  <2>4. /\ initialised' \in [Workers -> BOOLEAN]
        /\ eventLoop' \in [Workers -> Workers \union {NULL}]
    BY <1>12 DEF Publish
  <2>5. StartedLoopsAreReady'
    BY <1>12 DEF Publish, StartedLoopsAreReady, HandOverInv
  <2>6. HandOverInv'
    BY <1>12 DEF Publish, HandOverInv
  <2>7. MutexInv'
    BY <1>12 DEF Publish, MutexInv, HandOverInv
  <2> QED
    BY <1>1, <2>1, <2>2, <2>3, <2>4, <2>5, <2>6, <2>7 DEF Inv
<1>13. ASSUME NEW w \in Workers, Signal(w) PROVE Inv'
  <2>1. pc' \in [Threads -> Labels]
    BY <1>13 DEF Signal, Labels
  <2>2. /\ index' \in 0 .. NThread /\ signalled' \in BOOLEAN /\ started' \in BOOLEAN
        /\ UNCHANGED <<position, picks>>
    BY <1>13 DEF Signal
  <2>3. mutex' \in [Workers -> Threads \union {NULL}]
    BY <1>13 DEF Signal
  <2>4. /\ initialised' \in [Workers -> BOOLEAN]
        /\ eventLoop' \in [Workers -> Workers \union {NULL}]
    BY <1>13 DEF Signal
  <2>5. StartedLoopsAreReady'
    BY <1>13 DEF Signal, StartedLoopsAreReady
  <2>6. HandOverInv'
    BY <1>13 DEF Signal, HandOverInv
  <2>7. MutexInv'
    BY <1>13 DEF Signal, MutexInv, HandOverInv
  <2> QED
    BY <1>1, <2>1, <2>2, <2>3, <2>4, <2>5, <2>6, <2>7 DEF Inv
<1>14. ASSUME NEW w \in Workers, UnlockOwn(w) PROVE Inv'
  <2>1. pc' \in [Threads -> Labels]
    BY <1>14 DEF UnlockOwn, Labels
  <2>2. /\ index' \in 0 .. NThread /\ signalled' \in BOOLEAN /\ started' \in BOOLEAN
        /\ UNCHANGED <<position, picks>>
    BY <1>14 DEF UnlockOwn
  <2>3. mutex' \in [Workers -> Threads \union {NULL}]
    BY <1>14 DEF UnlockOwn
  <2>4. /\ initialised' \in [Workers -> BOOLEAN]
        /\ eventLoop' \in [Workers -> Workers \union {NULL}]
    BY <1>14 DEF UnlockOwn
  <2>5. StartedLoopsAreReady'
    BY <1>14 DEF UnlockOwn, StartedLoopsAreReady
  <2>6. HandOverInv'
    BY <1>14 DEF UnlockOwn, HandOverInv
  <2>7. MutexInv'
    BY <1>14 DEF UnlockOwn, MutexInv, HandOverInv
  <2> QED
    BY <1>1, <2>1, <2>2, <2>3, <2>4, <2>5, <2>6, <2>7 DEF Inv
<1>15. CASE UNCHANGED vars
  BY <1>15 DEF vars, StartedLoopsAreReady, PicksFollowPosition, HandOverInv, MutexInv
<1> QED
  BY <1>2, <1>3, <1>4, <1>5, <1>6, <1>7, <1>8, <1>9,
     <1>10, <1>11, <1>12, <1>13, <1>14, <1>15
     DEF Next, MainStep, Loading, WorkerStep, AllServed

\* The inductive invariant holds in every reachable state.
THEOREM Invariance == SafeSpec => []Inv
BY InitInv, StepInv, PTL DEF SafeSpec

\* event_loop_thread_start only returns a loop that is complete and belongs to
\* the worker it was started for.
THEOREM LoopsAreReady == SafeSpec => []StartedLoopsAreReady
<1>1. Inv => StartedLoopsAreReady
  BY DEF Inv
<1> QED
  BY <1>1, Invariance, PTL

\* The main thread and a worker never touch eventLoopThread->eventLoop at once.
THEOREM HandOverIsExclusive == SafeSpec => []PublishedUnderMutex
<1>1. Inv => PublishedUnderMutex
  BY PoolAssumption
     DEF Inv, TypeOK, HandOverInv, MutexInv, PublishedUnderMutex, Workers, Threads
<1> QED
  BY <1>1, Invariance, PTL

\* The connections are shared out evenly, whatever the number of workers.
THEOREM RoundRobinIsBalanced == SafeSpec => []PicksAreBalanced
<1>1. Inv => PicksAreBalanced
  BY PoolAssumption DEF Inv, PicksFollowPosition, PicksAreBalanced, Workers
<1> QED
  BY <1>1, Invariance, PTL
=============================================================================
