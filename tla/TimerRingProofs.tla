-------------------------- MODULE TimerRingProofs --------------------------
(***************************************************************************)
(* Theorems about TimerRing in a server without workers (Main = Owner),    *)
(* for any number of timers and any timeout: the pointers always form one  *)
(* ring, and as long as the clock is not set back it is in ascending order *)
(* and a sweep closes exactly the connections that are due.                *)
(***************************************************************************)
EXTENDS TimerRing, FunctionTheorems, FiniteSetTheorems, WellFoundedInduction, TLAPS

Pointers == [Nodes -> Nodes \union {NULL}]

\* insert and tail_insert put a new node into the ring and break no link.
LEMMA InsertKeepsLinks ==
  ASSUME NEW nodes \in SUBSET Nodes, NEW nx \in Pointers, NEW pv \in Pointers,
         Links(nodes, nx, pv),
         NEW position \in nodes, NEW node \in Nodes \ nodes
  PROVE  Links(nodes \union {node},
               [nx EXCEPT ![pv[position]] = node, ![node] = position],
               [pv EXCEPT ![node] = pv[position], ![position] = node])
<1> DEFINE nx2 == [nx EXCEPT ![pv[position]] = node, ![node] = position]
           pv2 == [pv EXCEPT ![node] = pv[position], ![position] = node]
<1>1. /\ pv[position] \in nodes /\ nx[pv[position]] = position
      /\ pv[position] # node /\ position # node
  BY DEF Links
<1>2. \A n \in Nodes : nx2[n] = IF n = node THEN position
                                ELSE IF n = pv[position] THEN node ELSE nx[n]
  BY <1>1 DEF Pointers
<1>3. \A n \in Nodes : pv2[n] = IF n = position THEN node
                                ELSE IF n = node THEN pv[position] ELSE pv[n]
  BY <1>1 DEF Pointers
<1>4. ASSUME NEW n \in nodes \union {node}
      PROVE  /\ nx2[n] \in nodes \union {node} /\ pv2[nx2[n]] = n
             /\ pv2[n] \in nodes \union {node} /\ nx2[pv2[n]] = n
  <2> HIDE DEF nx2, pv2
  <2>1. CASE n = node
    BY <1>1, <1>2, <1>3, <2>1
  <2>2. CASE n # node
    <3>1. /\ nx[n] \in nodes /\ pv[nx[n]] = n
          /\ pv[n] \in nodes /\ nx[pv[n]] = n
      BY <2>2 DEF Links
    <3>2. nx2[n] \in nodes \union {node} /\ pv2[nx2[n]] = n
      BY <1>1, <1>2, <1>3, <2>2, <3>1
    <3>3. pv2[n] \in nodes \union {node} /\ nx2[pv2[n]] = n
      BY <1>1, <1>2, <1>3, <2>2, <3>1
    <3> QED
      BY <3>2, <3>3
  <2> QED
    BY <2>1, <2>2
<1> HIDE DEF nx2, pv2
<1>5. Links(nodes \union {node}, nx2, pv2)
  BY <1>4 DEF Links
<1> QED
  BY <1>5 DEF nx2, pv2

\* remove takes a node out of the ring and closes the gap.
LEMMA RemoveKeepsLinks ==
  ASSUME NEW nodes \in SUBSET Nodes, NEW nx \in Pointers, NEW pv \in Pointers,
         Links(nodes, nx, pv), NEW node \in nodes
  PROVE  Links(nodes \ {node},
               [nx EXCEPT ![pv[node]] = nx[node]],
               [pv EXCEPT ![nx[node]] = pv[node]])
<1> DEFINE nx2 == [nx EXCEPT ![pv[node]] = nx[node]]
           pv2 == [pv EXCEPT ![nx[node]] = pv[node]]
<1>1. /\ pv[node] \in nodes /\ nx[pv[node]] = node
      /\ nx[node] \in nodes /\ pv[nx[node]] = node
  BY DEF Links
<1>2. \A n \in Nodes : nx2[n] = IF n = pv[node] THEN nx[node] ELSE nx[n]
  BY <1>1 DEF Pointers
<1>3. \A n \in Nodes : pv2[n] = IF n = nx[node] THEN pv[node] ELSE pv[n]
  BY <1>1 DEF Pointers
<1>4. ASSUME NEW n \in nodes \ {node}
      PROVE  /\ nx2[n] \in nodes \ {node} /\ pv2[nx2[n]] = n
             /\ pv2[n] \in nodes \ {node} /\ nx2[pv2[n]] = n
  <2>1. /\ nx[n] \in nodes /\ pv[nx[n]] = n
        /\ pv[n] \in nodes /\ nx[pv[n]] = n
    BY DEF Links
  <2> HIDE DEF nx2, pv2
  <2>2. nx2[n] \in nodes \ {node} /\ pv2[nx2[n]] = n
    BY <1>1, <1>2, <1>3, <2>1
  <2>3. pv2[n] \in nodes \ {node} /\ nx2[pv2[n]] = n
    BY <1>1, <1>2, <1>3, <2>1
  <2> QED
    BY <2>2, <2>3
<1> HIDE DEF nx2, pv2
<1>5. Links(nodes \ {node}, nx2, pv2)
  BY <1>4 DEF Links
<1> QED
  BY <1>5 DEF nx2, pv2

\* What the ring invariant says of the nodes of the ring.
LEMMA RingFacts ==
  ASSUME RingInv
  PROVE  /\ InRing \in SUBSET Nodes /\ Head \in InRing
         /\ next \in Pointers /\ prev \in Pointers
         /\ Head \in Nodes /\ Head \notin Timers /\ NULL \notin Nodes
         /\ Timers \subseteq Nodes /\ Armed \subseteq Timers
BY TimerAssumption DEF RingInv, TypeOK, InRing, Armed, Nodes, Pointers

\* The initial list is the head alone.
LEMMA InitRing == Init => RingInv
<1> SUFFICES ASSUME Init PROVE RingInv
  OBVIOUS
<1> USE TimerAssumption DEF Init
<1>1. TypeOK
  BY DEF TypeOK, Nodes, Threads, Labels
<1>2. InRing = {Head}
  BY DEF InRing, Armed, Threads
<1>3. ControlInv
  BY DEF ControlInv, Threads
<1>4. LinkInv
  BY <1>2 DEF LinkInv, Links, Nodes
<1> QED
  BY <1>1, <1>3, <1>4 DEF RingInv

(***************************************************************************)
(* One step keeps the ring, whatever the clock does.                       *)
(***************************************************************************)
\* Steps that leave the pointers alone leave the nodes of the ring alone.
LEMMA SameRing ==
  ASSUME RingInv, InRing' = InRing, UNCHANGED ring
  PROVE  LinkInv'
BY DEF RingInv, LinkInv, ring

\* The nodes each step adds to the ring or takes out of it.
LEMMA RingChanges ==
  ASSUME Owner = Main, RingInv
  PROVE  /\ \A t \in Timers :
              generate_timer(t) \/ update_timer(t) \/ Close(t) => InRing' = InRing
         /\ WalkOn \/ ResetLast \/ TickStart \/ TimeoutCallback \/ CallbackDies \/ TickDone
              => InRing' = InRing
         /\ InsertHere => (adding \in Nodes \ InRing /\ tmp \in InRing
                            /\ InRing' = InRing \union {adding})
         /\ ResetRemove => (touched \in InRing /\ InRing' = InRing \ {touched})
         /\ ResetTailInsert => (touched \in Nodes \ InRing /\ Head \in InRing
                                 /\ InRing' = InRing \union {touched})
         /\ Unlink => (tmp \in InRing /\ InRing' = InRing \ {tmp})
<1> USE Owner = Main, TimerAssumption, RingFacts DEF RingInv
<1>a. pc \in [{Main} -> Labels] /\ Threads = {Main}
  BY DEF TypeOK, Threads
<1>1. ASSUME NEW t \in Timers, generate_timer(t) PROVE InRing' = InRing
  BY <1>a, <1>1 DEF generate_timer, InRing, ControlInv, Armed, Goto
<1>2. ASSUME WalkOn PROVE InRing' = InRing
  BY <1>a, <1>2 DEF WalkOn, InRing, Armed, timer
<1>3. ASSUME InsertHere
      PROVE  adding \in Nodes \ InRing /\ tmp \in InRing /\ InRing' = InRing \union {adding}
  BY <1>a, <1>3 DEF InsertHere, InRing, ControlInv, Armed, timer
<1>4. ASSUME NEW t \in Timers, update_timer(t) PROVE InRing' = InRing
  BY <1>a, <1>4 DEF update_timer, InRing, Armed, Goto, walk
<1>5. ASSUME ResetLast PROVE InRing' = InRing
  BY <1>a, <1>5 DEF ResetLast, InRing, Armed, Goto, timer, walk
<1>6. ASSUME ResetRemove PROVE touched \in InRing /\ InRing' = InRing \ {touched}
  BY <1>a, <1>6 DEF ResetRemove, InRing, ControlInv, Armed, Goto, timer, walk
<1>7. ASSUME ResetTailInsert
      PROVE  touched \in Nodes \ InRing /\ Head \in InRing /\ InRing' = InRing \union {touched}
  BY <1>a, <1>7 DEF ResetTailInsert, InRing, ControlInv, Armed, Goto, timer, walk
<1>8. ASSUME NEW t \in Timers, Close(t) PROVE InRing' = InRing
  BY <1>a, <1>8 DEF Close, IsOpen, InRing, Armed, walk
<1>9. ASSUME TickStart PROVE InRing' = InRing
  BY <1>a, <1>9 DEF TickStart, InRing, Armed, Goto, timer
<1>10. ASSUME TimeoutCallback PROVE InRing' = InRing
  <2>a. tmp \in Armed
    <3>1. tmp \in InRing /\ tmp # Head
      BY <1>10 DEF TimeoutCallback, IsDue, ControlInv, LinkInv, Links
    <3> QED
      BY <1>10, <3>1 DEF TimeoutCallback, InRing
  <2>b. Armed' = Armed \ {tmp}
    BY <1>10, <2>a DEF TimeoutCallback, Armed, TypeOK
  <2> QED
    BY <1>a, <1>10, <2>a, <2>b
       DEF TimeoutCallback, InRing, ControlInv, Goto, walk, TypeOK
<1>11. ASSUME CallbackDies PROVE InRing' = InRing
  BY <1>a, <1>11 DEF CallbackDies, InRing, Armed, timer, walk
<1>12. ASSUME Unlink PROVE tmp \in InRing /\ InRing' = InRing \ {tmp}
  BY <1>a, <1>12 DEF Unlink, InRing, ControlInv, Armed, Goto, timer
<1>13. ASSUME TickDone PROVE InRing' = InRing
  BY <1>a, <1>13 DEF TickDone, InRing, ControlInv, Armed, timer
<1> QED
  BY <1>1, <1>2, <1>3, <1>4, <1>5, <1>6, <1>7, <1>8, <1>9, <1>10, <1>11, <1>12, <1>13

\* No step breaks a link.
LEMMA RingStep ==
  ASSUME Owner = Main, RingInv, [Next]_vars
  PROVE  RingInv'
<1> USE Owner = Main, TimerAssumption, RingFacts DEF RingInv
<1>a. pc \in [{Main} -> Labels] /\ Threads = {Main}
  BY DEF TypeOK, Threads
<1>1. ASSUME NEW t \in Timers, generate_timer(t) PROVE RingInv'
  <2>1. TypeOK'
    BY <1>a, <1>1 DEF generate_timer, TypeOK, Goto, Labels, ring, LinkInv, Links
  <2>2. InRing' = InRing
    BY <1>1, RingChanges
  <2>3. LinkInv'
    BY <1>1, <2>2, SameRing DEF generate_timer, ring
  <2>4. ControlInv'
    BY <1>a, <1>1, <2>2 DEF generate_timer, ControlInv, Armed, Goto, TypeOK, LinkInv, Links
  <2> QED
    BY <2>1, <2>3, <2>4
<1>2. CASE WalkOn
  <2>1. TypeOK'
    BY <1>a, <1>2 DEF WalkOn, TypeOK, Goto, Labels, ring, timer, ControlInv, LinkInv, Links
  <2>2. InRing' = InRing
    BY <1>2, RingChanges
  <2>3. LinkInv'
    BY <1>2, <2>2, SameRing DEF WalkOn, ring
  <2>4. ControlInv'
    BY <1>a, <1>2, <2>2 DEF WalkOn, ControlInv, Armed, Goto, timer, TypeOK, LinkInv, Links
  <2> QED
    BY <2>1, <2>3, <2>4
<1>3. CASE InsertHere
  <2>1. TypeOK'
    BY <1>a, <1>3 DEF InsertHere, insert, TypeOK, Goto, Labels, timer
  <2>2. adding \in Nodes \ InRing /\ tmp \in InRing /\ InRing' = InRing \union {adding}
    BY <1>3, RingChanges
  <2>3. LinkInv'
    BY <1>3, <2>2, InsertKeepsLinks DEF InsertHere, insert, LinkInv
  <2>4. ControlInv'
    BY <1>a, <1>3, <2>2 DEF InsertHere, ControlInv, Goto, TypeOK
  <2> QED
    BY <2>1, <2>3, <2>4
<1>4. ASSUME NEW t \in Timers, update_timer(t) PROVE RingInv'
  <2>1. TypeOK'
    BY <1>a, <1>4 DEF update_timer, TypeOK, Goto, Labels, ring, walk
  <2>2. InRing' = InRing
    BY <1>4, RingChanges
  <2>3. LinkInv'
    BY <1>4, <2>2, SameRing DEF update_timer, IsOpen, ring
  <2>4. ControlInv'
    BY <1>a, <1>4, <2>2 DEF update_timer, IsOpen, ControlInv, Armed, Goto, walk, TypeOK
  <2> QED
    BY <2>1, <2>3, <2>4
<1>5. CASE ResetLast
  <2>1. TypeOK'
    BY <1>a, <1>5 DEF ResetLast, TypeOK, Goto, Labels, ring, timer, walk
  <2>2. InRing' = InRing
    BY <1>5, RingChanges
  <2>3. LinkInv'
    BY <1>5, <2>2, SameRing DEF ResetLast, ring
  <2>4. ControlInv'
    BY <1>a, <1>5, <2>2 DEF ResetLast, ControlInv, Goto, walk, TypeOK
  <2> QED
    BY <2>1, <2>3, <2>4
<1>6. CASE ResetRemove
  <2>1. TypeOK'
    BY <1>a, <1>6 DEF ResetRemove, remove, TypeOK, Goto, Labels, timer, walk, ControlInv
  <2>2. touched \in InRing /\ InRing' = InRing \ {touched}
    BY <1>6, RingChanges
  <2>3. LinkInv'
    BY <1>6, <2>2, RemoveKeepsLinks DEF ResetRemove, remove, LinkInv
  <2>4. ControlInv'
    BY <1>a, <1>6, <2>2 DEF ResetRemove, ControlInv, Armed, Goto, timer, walk, TypeOK
  <2> QED
    BY <2>1, <2>3, <2>4
<1>7. CASE ResetTailInsert
  <2>1. TypeOK'
    BY <1>a, <1>7 DEF ResetTailInsert, insert, TypeOK, Goto, Labels, timer, walk
  <2>2. touched \in Nodes \ InRing /\ Head \in InRing /\ InRing' = InRing \union {touched}
    BY <1>7, RingChanges
  <2>3. LinkInv'
    BY <1>7, <2>2, InsertKeepsLinks DEF ResetTailInsert, insert, LinkInv
  <2>4. ControlInv'
    BY <1>a, <1>7, <2>2 DEF ResetTailInsert, ControlInv, Goto, walk, TypeOK
  <2> QED
    BY <2>1, <2>3, <2>4
<1>8. ASSUME NEW t \in Timers, Close(t) PROVE RingInv'
  <2>1. TypeOK'
    BY <1>a, <1>8 DEF Close, TypeOK, Goto, Labels, ring, walk
  <2>2. InRing' = InRing
    BY <1>8, RingChanges
  <2>3. LinkInv'
    BY <1>8, <2>2, SameRing DEF Close, IsOpen, ring
  <2>4. ControlInv'
    BY <1>a, <1>8, <2>2 DEF Close, ControlInv, Goto, walk, TypeOK
  <2> QED
    BY <2>1, <2>3, <2>4
<1>9. CASE TickStart
  <2>1. TypeOK'
    BY <1>a, <1>9 DEF TickStart, TypeOK, Goto, Labels, ring, timer, LinkInv, Links
  <2>2. InRing' = InRing
    BY <1>9, RingChanges
  <2>3. LinkInv'
    BY <1>9, <2>2, SameRing DEF TickStart, ring
  <2>4. ControlInv'
    BY <1>a, <1>9, <2>2 DEF TickStart, ControlInv, Goto, ring, TypeOK
  <2> QED
    BY <2>1, <2>3, <2>4
<1>10. CASE TimeoutCallback
  <2>1. TypeOK'
    BY <1>a, <1>10 DEF TimeoutCallback, TypeOK, Goto, Labels, ring, walk
  <2>a. tmp \in Armed
    <3>1. tmp \in InRing /\ tmp # Head
      BY <1>10 DEF TimeoutCallback, IsDue, ControlInv, LinkInv, Links
    <3> QED
      BY <1>10, <3>1 DEF TimeoutCallback, InRing
  <2>b. Armed' = Armed \ {tmp}
    BY <1>10, <2>a DEF TimeoutCallback, Armed, TypeOK
  <2>2. InRing' = InRing
    BY <1>10, RingChanges
  <2>3. LinkInv'
    BY <1>10, <2>2, SameRing DEF TimeoutCallback, IsDue, ring
  <2>4. ControlInv'
    BY <1>a, <1>10, <2>a, <2>b, <2>2
       DEF TimeoutCallback, IsDue, ControlInv, Goto, ring, timer, walk, TypeOK, LinkInv, Links
  <2> QED
    BY <2>1, <2>3, <2>4
<1>11. CASE CallbackDies
  <2>1. TypeOK'
    BY <1>a, <1>11 DEF CallbackDies, TypeOK, Goto, Labels, ring, timer, walk
  <2>2. InRing' = InRing
    BY <1>11, RingChanges
  <2>3. LinkInv'
    BY <1>11, <2>2, SameRing DEF CallbackDies, ring
  <2>4. ControlInv'
    BY <1>a, <1>11, <2>2 DEF CallbackDies, ControlInv, Goto, walk, TypeOK
  <2> QED
    BY <2>1, <2>3, <2>4
<1>12. CASE Unlink
  <2>1. TypeOK'
    BY <1>a, <1>12 DEF Unlink, remove, TypeOK, Goto, Labels, timer, ControlInv, LinkInv, Links
  <2>2. tmp \in InRing /\ InRing' = InRing \ {tmp}
    BY <1>12, RingChanges
  <2>3. LinkInv'
    BY <1>12, <2>2, RemoveKeepsLinks DEF Unlink, remove, LinkInv
  <2>4. ControlInv'
    BY <1>a, <1>12, <2>2 DEF Unlink, remove, ControlInv, Goto, TypeOK, LinkInv, Links
  <2> QED
    BY <2>1, <2>3, <2>4
<1>13. CASE TickDone
  <2>1. TypeOK'
    BY <1>a, <1>13 DEF TickDone, TypeOK, Goto, Labels, ring, timer
  <2>2. InRing' = InRing
    BY <1>13, RingChanges
  <2>3. LinkInv'
    BY <1>13, <2>2, SameRing DEF TickDone, ring
  <2>4. ControlInv'
    BY <1>a, <1>13, <2>2 DEF TickDone, ControlInv, Goto, TypeOK
  <2> QED
    BY <2>1, <2>3, <2>4
<1>14. CASE Advance
  <2>1. TypeOK' /\ InRing' = InRing /\ ControlInv'
    BY <1>14 DEF Advance, TypeOK, InRing, Armed, ControlInv, ring, timer, walk
  <2>2. UNCHANGED ring
    BY <1>14 DEF Advance
  <2> QED
    BY <2>1, <2>2, SameRing
<1>15. CASE UNCHANGED vars
  <2>1. TypeOK' /\ InRing' = InRing /\ ControlInv'
    BY <1>15 DEF vars, TypeOK, InRing, Armed, ControlInv, ring, timer, walk
  <2>2. UNCHANGED ring
    BY <1>15 DEF vars
  <2> QED
    BY <2>1, <2>2, SameRing
<1> QED
  BY <1>1, <1>2, <1>3, <1>4, <1>5, <1>6, <1>7, <1>8, <1>9,
     <1>10, <1>11, <1>12, <1>13, <1>14, <1>15
     DEF Next, add_timer, reset_timer, tick

(***************************************************************************)
(* One step keeps the order.                                               *)
(***************************************************************************)
\* Steps that change neither the ring nor a time nor what is in progress.
LEMMA SameOrder ==
  ASSUME Inv, Owner = Main, InRing' = InRing, Armed' \subseteq Armed,
         UNCHANGED <<ring, expire, touched>>, now' \in Int, now <= now',
         pc'[Main] = "Walk" => pc[Main] = "Walk" /\ UNCHANGED <<tmp, adding>>
  PROVE  OrderInv'
<1> USE TimerAssumption DEF Inv, RingInv, TypeOK
<1>1. \A n \in InRing' : n # touched' => InOrder(n, next[n])'
  BY DEF OrderInv, InOrder, ring
<1>2. \A t \in Armed' : expire'[t] <= now' + Timeout
  BY RingFacts DEF OrderInv
<1>3. touched' \in Armed' => \A t \in Armed' : expire'[t] <= expire'[touched']
  BY DEF OrderInv
<1>4. touched' \in InRing' => InOrder(prev[touched], next[touched])'
  BY DEF OrderInv, InOrder, ring
<1>5. pc'[Main] = "Walk" => InOrder(prev[tmp], adding)'
  BY DEF OrderInv, InOrder, ring
<1> QED
  BY <1>1, <1>2, <1>3, <1>4, <1>5 DEF OrderInv

LEMMA OrderStep ==
  ASSUME Owner = Main, Inv, [Next]_vars
  PROVE  OrderInv'
<1> USE Owner = Main, TimerAssumption, RingFacts, RingChanges DEF Inv, RingInv
<1>a. pc \in [{Main} -> Labels] /\ now \in Nat
  BY DEF TypeOK, Threads
<1>b. \A n \in InRing : /\ next[n] \in InRing /\ prev[next[n]] = n
                      /\ prev[n] \in InRing /\ next[prev[n]] = n
  BY DEF LinkInv, Links
<1>1. ASSUME NEW t \in Timers, generate_timer(t) PROVE OrderInv'
  <2>1. /\ InRing' = InRing /\ Armed' = Armed \union {t} /\ t \notin Armed
        /\ expire' = [expire EXCEPT ![t] = now + Timeout]
        /\ UNCHANGED <<next, prev, now, touched>> /\ touched = NULL
        /\ tmp' = next[Head] /\ adding' = t
    <3>1. InRing' = InRing
      BY <1>1
    <3>2. Armed' = Armed \union {t} /\ t \notin Armed
      BY <1>1 DEF generate_timer, Armed, TypeOK
    <3>3. touched = NULL
      BY <1>1, <1>a DEF generate_timer, ControlInv
    <3> QED
      BY <1>1, <3>1, <3>2, <3>3 DEF generate_timer, ring
  <2>2. t \notin InRing
    BY <1>1, <2>1 DEF generate_timer, InRing
  <2>3. \A n \in InRing' : n # touched' => InOrder(n, next[n])'
    BY <1>b, <2>1, <2>2 DEF OrderInv, InOrder, TypeOK
  <2>4. \A u \in Armed' : expire'[u] <= now' + Timeout
    BY <1>a, <2>1 DEF OrderInv, TypeOK
  <2>5. InOrder(prev[tmp], adding)'
    BY <1>b, <2>1 DEF InOrder
  <2> QED
    BY <2>1, <2>3, <2>4, <2>5 DEF OrderInv
<1>2. CASE WalkOn
  <2>1. /\ InRing' = InRing /\ tmp \in InRing /\ tmp' = next[tmp] /\ Armed' = Armed
        /\ UNCHANGED <<next, prev, expire, now, touched, adding>> /\ pc' = pc
        /\ tmp # Head /\ expire[tmp] <= expire[adding] /\ tmp # touched
        /\ adding \in Timers
    BY <1>2, <1>a DEF WalkOn, GoesHere, ControlInv, ring, timer, Armed, TypeOK
  <2>2. InOrder(prev[tmp], adding)'
    BY <1>b, <2>1 DEF InOrder
  <2> QED
    BY <2>1, <2>2 DEF OrderInv, InOrder
<1>3. CASE InsertHere
  <2>1. /\ adding \in Nodes \ InRing /\ tmp \in InRing
        /\ InRing' = InRing \union {adding} /\ adding \in Timers
        /\ Armed' = Armed /\ touched = NULL /\ pc'[Main] = "Idle"
        /\ UNCHANGED <<expire, now, touched>>
        /\ next' = [next EXCEPT ![prev[tmp]] = adding, ![adding] = tmp]
    BY <1>3, <1>a DEF InsertHere, insert, ControlInv, timer, Armed, Goto
  <2>2. InOrder(prev[tmp], adding) /\ InOrder(adding, tmp)
    BY <1>3, <2>1 DEF InsertHere, OrderInv, InOrder, GoesHere, TypeOK
  <2>3. ASSUME NEW n \in InRing' PROVE InOrder(n, next[n])'
    <3>1. next'[n] = IF n = adding THEN tmp ELSE IF n = prev[tmp] THEN adding ELSE next[n]
      BY <1>b, <2>1 DEF Pointers
    <3>2. n # adding => InOrder(n, next[n])
      BY <2>1 DEF OrderInv
    <3> QED
      BY <2>1, <2>2, <3>1, <3>2 DEF InOrder
  <2>4. \A t \in Armed' : expire'[t] <= now' + Timeout
    BY <2>1 DEF OrderInv
  <2> QED
    BY <2>1, <2>3, <2>4 DEF OrderInv
<1>4. ASSUME NEW t \in Timers, update_timer(t) PROVE OrderInv'
  <2>1. /\ InRing' = InRing /\ Armed' = Armed /\ t \in Armed /\ touched = NULL
        /\ expire' = [expire EXCEPT ![t] = now + Timeout] /\ touched' = t
        /\ UNCHANGED <<next, prev, now>> /\ pc'[Main] = "Reset"
    BY <1>4, <1>a DEF update_timer, IsOpen, Armed, ControlInv, Goto, ring
  <2>2. t \in InRing
    BY <1>4, <2>1, <1>a DEF InRing, update_timer, ControlInv, Armed
  <2>3. ASSUME NEW n \in InRing', n # touched' PROVE InOrder(n, next[n])'
    <3>1. InOrder(n, next[n])
      BY <2>1, <2>3 DEF OrderInv
    <3>2. n \in Timers => n \in Armed
      BY <1>4, <1>a, <2>1 DEF InRing, update_timer
    <3> QED
      BY <1>a, <1>b, <2>1, <2>3, <3>1, <3>2 DEF InOrder, OrderInv, TypeOK
  <2>4. \A u \in Armed' : expire'[u] <= now' + Timeout /\ expire'[u] <= expire'[t]
    BY <1>a, <2>1 DEF OrderInv, TypeOK
  <2>5. InOrder(prev[t], next[t])'
    <3>1. InOrder(prev[t], t) /\ InOrder(t, next[t])
      BY <1>b, <2>1, <2>2 DEF OrderInv
    <3>2. prev[t] = t => next[t] = t
      BY <1>b, <2>2
    <3>3. next[t] = t => prev[t] = t
      BY <1>b, <2>2
    <3>4. next[t] \in Timers => next[t] \in Armed
      BY <1>4, <1>a, <1>b, <2>1, <2>2 DEF InRing, update_timer
    <3>5. prev[t] \in Timers => prev[t] \in Armed
      BY <1>4, <1>a, <1>b, <2>1, <2>2 DEF InRing, update_timer
    <3> QED
      BY <1>a, <2>1, <3>1, <3>2, <3>3, <3>4, <3>5 DEF InOrder, TypeOK, OrderInv
  <2> QED
    BY <2>1, <2>3, <2>4, <2>5 DEF OrderInv
<1>5. CASE ResetLast
  <2>1. /\ InRing' = InRing /\ Armed' = Armed /\ touched = prev[Head] /\ touched' = NULL
        /\ UNCHANGED <<next, prev, expire, now>> /\ pc'[Main] = "Idle"
    BY <1>5, <1>a DEF ResetLast, IsLast, ring, timer, Goto, Armed
  <2>2. next[touched] = Head
    BY <1>b, <2>1
  <2>3. \A n \in InRing' : InOrder(n, next[n])'
    BY <2>1, <2>2 DEF OrderInv, InOrder
  <2> QED
    BY <2>1, <2>3 DEF OrderInv
<1>6. CASE ResetRemove
  <2>1. /\ touched \in InRing /\ InRing' = InRing \ {touched} /\ Armed' = Armed
        /\ next' = [next EXCEPT ![prev[touched]] = next[touched]]
        /\ UNCHANGED <<expire, now, touched>> /\ pc'[Main] = "Relink"
    BY <1>6, <1>a DEF ResetRemove, remove, timer, Goto, Armed
  <2>2. ASSUME NEW n \in InRing' PROVE InOrder(n, next[n])'
    <3>1. next'[n] = IF n = prev[touched] THEN next[touched] ELSE next[n]
      BY <1>b, <2>1 DEF Pointers
    <3>2. InOrder(n, next[n]) /\ InOrder(prev[touched], next[touched])
      BY <2>1 DEF OrderInv
    <3> QED
      BY <2>1, <3>1, <3>2 DEF InOrder
  <2> QED
    BY <2>1, <2>2 DEF OrderInv
<1>7. CASE ResetTailInsert
  <2>1. /\ touched \in Nodes \ InRing /\ InRing' = InRing \union {touched}
        /\ Armed' = Armed /\ touched \in Armed /\ touched' = NULL
        /\ next' = [next EXCEPT ![prev[Head]] = touched, ![touched] = Head]
        /\ UNCHANGED <<expire, now>> /\ pc[Main] = "Relink" /\ pc'[Main] = "Idle"
    BY <1>7, <1>a DEF ResetTailInsert, insert, timer, Goto, Armed, ControlInv
  <2>2. ASSUME NEW n \in InRing' PROVE InOrder(n, next[n])'
    <3>1. next'[n] = IF n = touched THEN Head ELSE IF n = prev[Head] THEN touched ELSE next[n]
      BY <1>b, <2>1 DEF Pointers
    <3>2. n # touched => InOrder(n, next[n])
      BY <2>1 DEF OrderInv
    <3>3. n \in Timers => InOrder(n, touched)
      BY <2>1 DEF InRing, InOrder, OrderInv
    <3> QED
      BY <2>1, <3>1, <3>2, <3>3 DEF InOrder
  <2> QED
    BY <2>1, <2>2 DEF OrderInv
<1>8. ASSUME NEW t \in Timers, Close(t) PROVE OrderInv'
  <2>1. Armed' \subseteq Armed
    BY <1>8 DEF Close, IsOpen, Armed, TypeOK
  <2> QED
    <3>1. InRing' = InRing
      BY <1>8
    <3>2. UNCHANGED <<now, ring, expire, touched, pc, tmp, adding>>
      BY <1>8 DEF Close, walk
    <3> QED
      BY <1>a, <2>1, <3>1, <3>2, SameOrder
<1>9. CASE TickStart
  BY <1>9, <1>a, SameOrder DEF TickStart, Goto, timer, Armed
<1>10. CASE TimeoutCallback
  <2>1. Armed' \subseteq Armed
    BY <1>10 DEF TimeoutCallback, Armed, TypeOK
  <2> QED
    BY <1>10, <1>a, <2>1, SameOrder DEF TimeoutCallback, Goto
<1>11. CASE CallbackDies
  BY <1>11, <1>a, SameOrder DEF CallbackDies, timer, Armed, Threads
<1>12. CASE Unlink
  <2>1. /\ tmp \in InRing /\ InRing' = InRing \ {tmp} /\ Armed' = Armed /\ touched = NULL
        /\ next' = [next EXCEPT ![prev[tmp]] = next[tmp]] /\ prev[tmp] = Head
        /\ UNCHANGED <<expire, now, touched>> /\ pc'[Main] = "Tick"
    BY <1>12, <1>a, <1>b DEF Unlink, remove, timer, Goto, Armed, ControlInv
  <2>2. ASSUME NEW n \in InRing' PROVE InOrder(n, next[n])'
    <3>1. next'[n] = IF n = Head THEN next[tmp] ELSE next[n]
      BY <1>b, <2>1 DEF Pointers
    <3>2. n # Head => InOrder(n, next[n])
      BY <2>1 DEF OrderInv
    <3> QED
      BY <2>1, <3>1, <3>2 DEF InOrder
  <2> QED
    BY <2>1, <2>2 DEF OrderInv
<1>13. CASE TickDone
  BY <1>13, <1>a, SameOrder DEF TickDone, Goto, timer, Armed
<1>14. CASE Advance \/ UNCHANGED vars
  <2>1. /\ InRing' = InRing /\ Armed' = Armed /\ UNCHANGED <<ring, expire, touched, pc, tmp, adding>>
        /\ now' \in Int /\ now <= now'
    BY <1>14, <1>a DEF Advance, vars, ring, timer, walk, InRing, Armed
  <2> QED
    BY <2>1, SameOrder
<1> QED
  BY <1>1, <1>2, <1>3, <1>4, <1>5, <1>6, <1>7, <1>8, <1>9, <1>10, <1>11, <1>12, <1>13, <1>14
     DEF Next, add_timer, reset_timer, tick

(***************************************************************************)
(* One step keeps the ring whole: no list splits into two rings.           *)
(***************************************************************************)
\* insert and tail_insert keep the ring one ring.
LEMMA InsertKeepsOneRing ==
  ASSUME NEW nodes \in SUBSET Nodes, NEW nx \in Pointers, NEW pv \in Pointers,
         Links(nodes, nx, pv), OneRing(nodes, nx),
         NEW position \in nodes, NEW node \in Nodes \ nodes
  PROVE  OneRing(nodes \union {node},
                 [nx EXCEPT ![pv[position]] = node, ![node] = position])
<1> DEFINE nx2 == [nx EXCEPT ![pv[position]] = node, ![node] = position]
<1>1. /\ pv[position] \in nodes /\ nx[pv[position]] = position
      /\ pv[position] # node /\ position # node
  BY DEF Links
<1>2. \A n \in Nodes : nx2[n] = IF n = node THEN position
                                ELSE IF n = pv[position] THEN node ELSE nx[n]
  BY <1>1 DEF Pointers
<1>3. \A n \in nodes : nx[n] \in nodes
  BY DEF Links
<1> HIDE DEF nx2
<1>4. ASSUME NEW part \in SUBSET (nodes \union {node}), part # {},
             \A n \in part : nx2[n] \in part
      PROVE  part = nodes \union {node}
  <2> DEFINE rest == part \ {node}
  <2>1. rest # {}
    BY <1>1, <1>2, <1>4
  <2>2. \A n \in rest : nx[n] \in rest
    <3>1. TAKE n \in rest
    <3>2. n \in nodes /\ nx2[n] \in part /\ nx[n] \in nodes
      BY <1>3, <1>4
    <3>3. CASE n = pv[position]
      <4>1. nx2[n] = node /\ nx[n] = position
        BY <1>1, <1>2, <3>2, <3>3
      <4>2. nx2[node] = position
        BY <1>2
      <4> QED
        BY <1>1, <1>4, <3>2, <4>1, <4>2
    <3>4. CASE n # pv[position]
      BY <1>2, <3>2, <3>4
    <3> QED
      BY <3>3, <3>4
  <2>3. rest = nodes
    <3> HIDE DEF rest
    <3>1. rest \in SUBSET nodes
      BY DEF rest
    <3> QED
      BY <2>1, <2>2, <3>1 DEF OneRing
  <2>4. nx2[pv[position]] = node
    BY <1>1, <1>2
  <2> QED
    BY <1>1, <1>4, <2>3, <2>4
<1>5. OneRing(nodes \union {node}, nx2)
  BY <1>4 DEF OneRing
<1> QED
  BY <1>5 DEF nx2

\* remove leaves one ring behind.
LEMMA RemoveKeepsOneRing ==
  ASSUME NEW nodes \in SUBSET Nodes, NEW nx \in Pointers, NEW pv \in Pointers,
         Links(nodes, nx, pv), OneRing(nodes, nx), NEW node \in nodes
  PROVE  OneRing(nodes \ {node}, [nx EXCEPT ![pv[node]] = nx[node]])
<1> DEFINE nx2 == [nx EXCEPT ![pv[node]] = nx[node]]
<1>1. pv[node] \in nodes /\ nx[pv[node]] = node
  BY DEF Links
<1>2. \A n \in Nodes : nx2[n] = IF n = pv[node] THEN nx[node] ELSE nx[n]
  BY <1>1 DEF Pointers
<1> HIDE DEF nx2
<1>3. ASSUME NEW part \in SUBSET (nodes \ {node}), part # {},
             \A n \in part : nx2[n] \in part
      PROVE  part = nodes \ {node}
  <2>1. CASE pv[node] \in part
    <3> DEFINE whole == part \union {node}
    <3>1. \A n \in whole : nx[n] \in whole
      <4>1. TAKE n \in whole
      <4>2. CASE n = node
        BY <1>2, <1>3, <2>1, <4>2
      <4>3. CASE n = pv[node]
        BY <1>1, <4>3
      <4>4. CASE n # node /\ n # pv[node]
        BY <1>2, <1>3, <4>4
      <4> QED
        BY <4>2, <4>3, <4>4
    <3>2. whole \in SUBSET nodes /\ whole # {}
      OBVIOUS
    <3> HIDE DEF whole
    <3>3. whole = nodes
      BY <3>1, <3>2 DEF OneRing
    <3> QED
      BY <3>3 DEF whole
  <2>2. CASE pv[node] \notin part
    <3>1. \A n \in part : nx[n] \in part
      BY <1>2, <1>3, <2>2
    <3>2. part = nodes
      BY <1>3, <3>1 DEF OneRing
    <3> QED
      BY <3>2
  <2> QED
    BY <2>1, <2>2
<1>4. OneRing(nodes \ {node}, nx2)
  BY <1>3 DEF OneRing
<1> QED
  BY <1>4 DEF nx2

\* One step keeps the ring one ring.
LEMMA CycleStep ==
  ASSUME Owner = Main, RingInv, CycleInv, [Next]_vars
  PROVE  CycleInv'
<1> USE Owner = Main, RingFacts DEF RingInv, LinkInv
<1>1. ASSUME InRing' = InRing, UNCHANGED ring PROVE CycleInv'
  BY <1>1 DEF CycleInv, ring
<1>2. ASSUME NEW t \in Timers, generate_timer(t) \/ update_timer(t) \/ Close(t)
      PROVE  CycleInv'
  BY <1>1, <1>2, RingChanges DEF generate_timer, update_timer, Close
<1>3. CASE WalkOn \/ ResetLast \/ TickStart \/ TimeoutCallback \/ CallbackDies \/ TickDone
  <2>1. UNCHANGED ring
    BY <1>3 DEF WalkOn, ResetLast, TickStart, TimeoutCallback, CallbackDies, TickDone
  <2> QED
    BY <1>1, <1>3, <2>1, RingChanges
<1>4. CASE InsertHere
  <2>1. adding \in Nodes \ InRing /\ tmp \in InRing /\ InRing' = InRing \union {adding}
    BY <1>4, RingChanges
  <2>2. next' = [next EXCEPT ![prev[tmp]] = adding, ![adding] = tmp]
    BY <1>4 DEF InsertHere, insert
  <2>3. OneRing(InRing \union {adding},
                [next EXCEPT ![prev[tmp]] = adding, ![adding] = tmp])
    BY <2>1, InsertKeepsOneRing DEF CycleInv
  <2> QED
    BY <2>1, <2>2, <2>3 DEF CycleInv
<1>5. CASE ResetRemove
  <2>1. touched \in InRing /\ InRing' = InRing \ {touched}
    BY <1>5, RingChanges
  <2>2. next' = [next EXCEPT ![prev[touched]] = next[touched]]
    BY <1>5 DEF ResetRemove, remove
  <2>3. OneRing(InRing \ {touched}, [next EXCEPT ![prev[touched]] = next[touched]])
    BY <2>1, RemoveKeepsOneRing DEF CycleInv
  <2> QED
    BY <2>1, <2>2, <2>3 DEF CycleInv
<1>6. CASE ResetTailInsert
  <2>1. touched \in Nodes \ InRing /\ Head \in InRing /\ InRing' = InRing \union {touched}
    BY <1>6, RingChanges
  <2>2. next' = [next EXCEPT ![prev[Head]] = touched, ![touched] = Head]
    BY <1>6 DEF ResetTailInsert, insert
  <2>3. OneRing(InRing \union {touched},
                [next EXCEPT ![prev[Head]] = touched, ![touched] = Head])
    BY <2>1, InsertKeepsOneRing DEF CycleInv
  <2> QED
    BY <2>1, <2>2, <2>3 DEF CycleInv
<1>7. CASE Unlink
  <2>1. tmp \in InRing /\ InRing' = InRing \ {tmp}
    BY <1>7, RingChanges
  <2>2. next' = [next EXCEPT ![prev[tmp]] = next[tmp]]
    BY <1>7 DEF Unlink, remove
  <2>3. OneRing(InRing \ {tmp}, [next EXCEPT ![prev[tmp]] = next[tmp]])
    BY <2>1, RemoveKeepsOneRing DEF CycleInv
  <2> QED
    BY <2>1, <2>2, <2>3 DEF CycleInv
<1>8. CASE Advance \/ UNCHANGED vars
  <2>1. InRing' = InRing /\ UNCHANGED ring
    BY <1>8 DEF Advance, vars, ring, timer, walk, InRing, Armed
  <2> QED
    BY <1>1, <2>1
<1> QED
  BY <1>2, <1>3, <1>4, <1>5, <1>6, <1>7, <1>8 DEF Next, add_timer, reset_timer, tick

(***************************************************************************)
(* What one ring is to a reader who follows the pointers.                  *)
(***************************************************************************)
\* A set of naturals that is not empty has a least element.
LEMMA LeastNatural ==
  ASSUME NEW T \in SUBSET Nat, T # {}
  PROVE  \E m \in T : \A n \in T : m <= n
<1> DEFINE R == OpToRel(<, Nat)
<1>1. IsWellFoundedOn(R, Nat)
  BY NatLessThanWellFounded
<1>2. \A i, j \in Nat : i < j => <<i, j>> \in R
  BY DEF OpToRel
<1> HIDE DEF R
<1>3. PICK m \in T : \A n \in T : ~(<<n, m>> \in R)
  BY <1>1, WFMin
<1>4. \A n \in T : n \in Nat /\ m \in Nat /\ ~(n < m)
  BY <1>2, <1>3
<1> QED
  BY <1>4

\* An infinite run of f from a.
Iterates(S, f, a, g) ==
  g \in [Nat -> S] /\ g[0] = a /\ \A k \in Nat : g[k + 1] = f[g[k]]

\* A function can be iterated.
LEMMA IterationExists ==
  ASSUME NEW S, NEW f, \A n \in S : f[n] \in S, NEW a \in S
  PROVE  \E g : Iterates(S, f, a, g)
<1> DEFINE Runs(n, h) == /\ h \in [0 .. n -> S]
                         /\ h[0] = a
                         /\ \A k \in 0 .. n - 1 : h[k + 1] = f[h[k]]
           Final(n)   == (CHOOSE h : Runs(n, h))[n]
<1>1. ASSUME NEW n \in Nat PROVE \E h : Runs(n, h)
  <2> DEFINE Without == {m \in Nat : ~\E h : Runs(m, h)}
  <2> SUFFICES ASSUME Without # {} PROVE FALSE
    OBVIOUS
  <2>0. Without \in SUBSET Nat
    OBVIOUS
  <2>1. PICK m \in Without : \A i \in Without : m <= i
    <3> HIDE DEF Without
    <3> QED
      BY <2>0, LeastNatural
  <2>2. m # 0
    <3>1. Runs(0, [k \in 0 .. 0 |-> a])
      OBVIOUS
    <3> QED
      BY <2>1, <3>1
  <2>3. m \in Nat /\ m - 1 \in Nat /\ m - 1 \notin Without
    <3> HIDE DEF Without
    <3> QED
      BY <2>0, <2>1, <2>2
  <2>4. PICK h : Runs(m - 1, h)
    BY <2>3
  <2> DEFINE h2 == [k \in 0 .. m |-> IF k = m THEN f[h[m - 1]] ELSE h[k]]
  <2>5. h2[m] = f[h[m - 1]] /\ \A k \in 0 .. m - 1 : h2[k] = h[k]
    BY <2>3
  <2>6. \A k \in 0 .. m : k = m \/ k \in 0 .. m - 1
    BY <2>3
  <2>7. h[m - 1] \in S /\ f[h[m - 1]] \in S /\ h[0] = a /\ 0 \in 0 .. m - 1
    BY <2>3, <2>4
  <2>8. h2 \in [0 .. m -> S]
    BY <2>4, <2>6, <2>7
  <2>9. ASSUME NEW k \in 0 .. m - 1 PROVE h2[k + 1] = f[h2[k]]
    <3> HIDE DEF h2, Without
    <3>1. CASE k = m - 1
      BY <2>3, <2>5, <3>1
    <3>2. CASE k # m - 1
      <4>1. k \in 0 .. (m - 1) - 1 /\ k + 1 \in 0 .. m - 1
        BY <2>3, <3>2
      <4>2. h[k + 1] = f[h[k]]
        BY <2>4, <4>1
      <4> QED
        BY <2>5, <4>1, <4>2
    <3> QED
      BY <3>1, <3>2
  <2> HIDE DEF h2
  <2>10. Runs(m, h2)
    BY <2>5, <2>7, <2>8, <2>9
  <2> QED
    BY <2>1, <2>10
<1>2. ASSUME NEW n \in Nat, NEW m \in n .. n + 1, NEW h, NEW i, Runs(n, h), Runs(m, i)
      PROVE  \A k \in 0 .. n : h[k] = i[k]
  <2> DEFINE T == {k \in 0 .. n : h[k] # i[k]}
  <2> SUFFICES ASSUME T # {} PROVE FALSE
    OBVIOUS
  <2>a. T \in SUBSET Nat
    OBVIOUS
  <2>1. PICK k \in T : \A j \in T : k <= j
    <3> HIDE DEF T
    <3> QED
      BY <2>a, LeastNatural
  <2>2. k # 0
    BY <1>2, <2>1
  <2>3. k - 1 \in 0 .. n - 1 /\ k - 1 \notin T
    BY <2>1, <2>2
  <2>4. h[k - 1] = i[k - 1]
    BY <2>3
  <2>5. h[k] = f[h[k - 1]] /\ i[k] = f[i[k - 1]]
    <3>1. k - 1 \in 0 .. n - 1 /\ k - 1 \in 0 .. m - 1 /\ (k - 1) + 1 = k
      BY <2>3
    <3> HIDE DEF T
    <3> QED
      BY <1>2, <3>1
  <2> QED
    BY <2>1, <2>4, <2>5
<1>3. \A n \in Nat : Runs(n, CHOOSE h : Runs(n, h))
  BY <1>1
<1> HIDE DEF Runs
<1>4. ASSUME NEW n \in Nat PROVE Final(n) \in S /\ Final(n + 1) = f[Final(n)]
  <2>1. PICK h : h = CHOOSE j : Runs(n, j)
    OBVIOUS
  <2>2. PICK i : i = CHOOSE j : Runs(n + 1, j)
    OBVIOUS
  <2>3. Runs(n, h) /\ Runs(n + 1, i) /\ n + 1 \in Nat
    BY <1>3, <2>1, <2>2
  <2>4. h[n] = i[n]
    BY <1>2, <2>3
  <2>5. h[n] \in S /\ i[n + 1] = f[i[n]]
    BY <2>3 DEF Runs
  <2>6. Final(n) = h[n] /\ Final(n + 1) = i[n + 1]
    BY <2>1, <2>2
  <2> HIDE DEF Final
  <2> QED
    BY <2>4, <2>5, <2>6
<1>5. Final(0) = a
  BY <1>3 DEF Runs
<1> HIDE DEF Final
<1> DEFINE g == [n \in Nat |-> Final(n)]
<1>6. g \in [Nat -> S] /\ g[0] = a /\ \A k \in Nat : g[k + 1] = f[g[k]]
  BY <1>4, <1>5
<1> QED
  BY <1>6 DEF Iterates

\* The recursive function that follows nx from a.
Walk(a, nx) == CHOOSE h : h = [k \in Nat |-> IF k = 0 THEN a ELSE nx[h[k - 1]]]

\* Where nx is closed, that function exists, so it is what its definition says.
LEMMA WalkUnfolds ==
  ASSUME NEW S, NEW a \in S, NEW nx, \A n \in S : nx[n] \in S
  PROVE  /\ Walk(a, nx) \in [Nat -> S]
         /\ Walk(a, nx)[0] = a
         /\ \A k \in Nat : Walk(a, nx)[k + 1] = nx[Walk(a, nx)[k]]
<1> DEFINE IsWalk(h) == h = [k \in Nat |-> IF k = 0 THEN a ELSE nx[h[k - 1]]]
           walked    == Walk(a, nx)
<1>1. \E g : IsWalk(g)
  <2>1. PICK g : Iterates(S, nx, a, g)
    BY IterationExists
  <2>2. ASSUME NEW k \in Nat PROVE g[k] = IF k = 0 THEN a ELSE nx[g[k - 1]]
    <3>1. CASE k = 0
      BY <2>1, <3>1 DEF Iterates
    <3>2. CASE k # 0
      <4>1. k - 1 \in Nat /\ (k - 1) + 1 = k
        BY <3>2
      <4>2. g[(k - 1) + 1] = nx[g[k - 1]]
        BY <2>1, <4>1 DEF Iterates
      <4> QED
        BY <3>2, <4>1, <4>2
    <3> QED
      BY <3>1, <3>2
  <2> QED
    BY <2>1, <2>2 DEF Iterates
<1>2. IsWalk(walked)
  <2>1. walked = CHOOSE h : IsWalk(h)
    BY DEF Walk
  <2> HIDE DEF IsWalk, walked
  <2> QED
    BY <1>1, <2>1
<1> HIDE DEF walked
<1>3. walked[0] = a
  BY <1>2
<1>4. ASSUME NEW k \in Nat PROVE walked[k + 1] = nx[walked[k]]
  <2>1. k + 1 \in Nat /\ k + 1 # 0 /\ (k + 1) - 1 = k
    OBVIOUS
  <2> QED
    BY <1>2, <2>1
<1>5. \A k \in Nat : walked[k] \in S
  <2> DEFINE Out == {k \in Nat : walked[k] \notin S}
  <2> SUFFICES ASSUME Out # {} PROVE FALSE
    OBVIOUS
  <2>1. PICK k \in Out : \A c \in Out : k <= c
    BY LeastNatural
  <2>2. k \in Nat /\ k - 1 \in Nat /\ (k - 1) + 1 = k /\ k - 1 \notin Out
    BY <1>3, <2>1
  <2>3. walked[k - 1] \in S
    BY <2>2
  <2>4. walked[(k - 1) + 1] = nx[walked[k - 1]]
    BY <1>4, <2>2
  <2> QED
    BY <2>1, <2>2, <2>3, <2>4
<1>6. walked \in [Nat -> S]
  <2>1. walked = [k \in Nat |-> IF k = 0 THEN a ELSE nx[walked[k - 1]]]
    BY <1>2
  <2> HIDE DEF IsWalk
  <2>2. walked = [k \in Nat |-> walked[k]]
    BY <2>1
  <2> QED
    BY <1>5, <2>2
<1> HIDE DEF IsWalk
<1> QED
  BY <1>3, <1>4, <1>6 DEF walked

\* Links that make one ring of some nodes lead from any of them to every other
\* exactly once and back to it, forward and backward.
LEMMA RingIsCounted ==
  ASSUME NEW nodes, NEW nx, NEW pv, NEW top \in nodes,
         Links(nodes, nx, pv), OneRing(nodes, nx),
         NEW fw \in [Nat -> nodes], fw[0] = top, \A k \in Nat : fw[k + 1] = nx[fw[k]],
         NEW bw \in [Nat -> nodes], bw[0] = top, \A k \in Nat : bw[k + 1] = pv[bw[k]]
  PROVE  \E m \in Nat \ {0} :
           /\ IsFiniteSet(nodes) /\ Cardinality(nodes) = m
           /\ {fw[k] : k \in 0 .. m - 1} = nodes
           /\ fw[m] = top
           /\ \A k \in 0 .. m : bw[k] = fw[m - k]
<1>1. \A n \in nodes : nx[n] \in nodes /\ pv[n] \in nodes /\ pv[nx[n]] = n /\ nx[pv[n]] = n
  BY DEF Links
<1>2. PICK j \in Nat : fw[j] = pv[top]
  <2> DEFINE all == {fw[k] : k \in Nat}
  <2>1. \A n \in all : nx[n] \in all
    OBVIOUS
  <2>2. all \in SUBSET nodes /\ all # {}
    OBVIOUS
  <2>3. all = nodes
    <3> HIDE DEF all
    <3> QED
      BY <2>1, <2>2 DEF OneRing
  <2> QED
    BY <1>1, <2>3
<1> DEFINE Returns == {k \in Nat : k > 0 /\ fw[k] = top}
<1>3. PICK m \in Returns : \A k \in Returns : m <= k
  <2>1. j + 1 \in Returns
    BY <1>1, <1>2
  <2>2. Returns \in SUBSET Nat /\ Returns # {}
    BY <2>1
  <2> HIDE DEF Returns
  <2> QED
    BY <2>2, LeastNatural
<1>4. m \in Nat \ {0} /\ fw[m] = top /\ \A k \in 1 .. m - 1 : fw[k] # top
  BY <1>3
<1> HIDE DEF Returns
<1>5. {fw[k] : k \in 0 .. m - 1} = nodes
  <2> DEFINE lap == {fw[k] : k \in 0 .. m - 1}
  <2>1. ASSUME NEW k \in 0 .. m - 1 PROVE nx[fw[k]] \in lap
    <3>1. nx[fw[k]] = fw[k + 1] /\ k \in Nat
      BY <1>4
    <3>2. CASE k = m - 1
      BY <1>4, <3>1, <3>2
    <3>3. CASE k # m - 1
      BY <1>4, <3>1, <3>3
    <3> QED
      BY <3>2, <3>3
  <2>2. lap \in SUBSET nodes /\ lap # {}
    <3>1. \A k \in 0 .. m - 1 : fw[k] \in nodes
      BY <1>4
    <3>2. 0 \in 0 .. m - 1
      BY <1>4
    <3> QED
      BY <3>1, <3>2
  <2>3. \A n \in lap : nx[n] \in lap
    BY <2>1
  <2> HIDE DEF lap
  <2>4. lap = nodes
    BY <2>2, <2>3 DEF OneRing
  <2> QED
    BY <2>4 DEF lap
<1>6. \A a \in 0 .. m - 1 : \A b \in a + 1 .. m - 1 : fw[a] # fw[b]
  <2> DEFINE Twice == {a \in 0 .. m - 1 : \E b \in a + 1 .. m - 1 : fw[a] = fw[b]}
  <2> SUFFICES ASSUME Twice # {} PROVE FALSE
    OBVIOUS
  <2>1. Twice \in SUBSET Nat
    BY <1>4
  <2>2. PICK a \in Twice : \A c \in Twice : a <= c
    <3> HIDE DEF Twice
    <3> QED
      BY <2>1, LeastNatural
  <2>3. PICK b \in a + 1 .. m - 1 : fw[a] = fw[b]
    BY <2>2
  <2>4. a # 0
    BY <1>4, <2>3
  <2>5. a - 1 \in 0 .. m - 1 /\ b - 1 \in a .. m - 1 /\ a - 1 \in Nat /\ b - 1 \in Nat
    BY <1>4, <2>2, <2>3, <2>4
  <2>6. fw[a] = nx[fw[a - 1]] /\ fw[b] = nx[fw[b - 1]]
    <3>1. (a - 1) + 1 = a /\ (b - 1) + 1 = b
      BY <2>5
    <3> HIDE DEF Twice
    <3> QED
      BY <2>5, <3>1
  <2>7. fw[a - 1] = fw[b - 1]
    <3>1. fw[a - 1] \in nodes /\ fw[b - 1] \in nodes
      BY <2>5
    <3> HIDE DEF Twice
    <3>2. pv[fw[a]] = fw[a - 1] /\ pv[fw[b]] = fw[b - 1]
      BY <1>1, <2>6, <3>1
    <3> QED
      BY <2>3, <3>2
  <2>8. a - 1 \in Twice
    <3>1. b - 1 \in (a - 1) + 1 .. m - 1
      BY <2>5
    <3> QED
      BY <2>5, <2>7, <3>1
  <2>9. a <= a - 1
    BY <2>2, <2>8
  <2> QED
    BY <2>5, <2>9
<1>7. IsFiniteSet(nodes) /\ Cardinality(nodes) = m
  <2> DEFINE count == [k \in 1 .. m |-> fw[k - 1]]
  <2>1. \A k \in 1 .. m : k - 1 \in 0 .. m - 1 /\ k - 1 \in Nat
    BY <1>4
  <2>2. count \in [1 .. m -> nodes]
    BY <2>1
  <2>3. \A a, b \in 1 .. m : count[a] = count[b] => a = b
    <3> SUFFICES ASSUME NEW a \in 1 .. m, NEW b \in 1 .. m, a < b, count[a] = count[b]
                 PROVE  FALSE
      BY <1>4
    <3>1. a - 1 \in 0 .. m - 1 /\ b - 1 \in (a - 1) + 1 .. m - 1
      BY <1>4
    <3> QED
      BY <1>6, <3>1
  <2>4. \A n \in nodes : \E k \in 1 .. m : count[k] = n
    <3> TAKE n \in nodes
    <3>1. PICK k \in 0 .. m - 1 : fw[k] = n
      BY <1>5
    <3>2. k + 1 \in 1 .. m /\ (k + 1) - 1 = k
      BY <1>4
    <3> QED
      BY <3>1, <3>2
  <2> HIDE DEF count
  <2>5. count \in Bijection(1 .. m, nodes)
    BY <2>2, <2>3, <2>4, Fun_IsBij
  <2>6. ExistsBijection(1 .. m, nodes)
    BY <2>5 DEF ExistsBijection
  <2> QED
    BY <1>4, <2>6, FS_NatBijection, FS_CountingElements
<1>8. \A k \in 0 .. m : bw[k] = fw[m - k]
  <2> DEFINE Apart == {k \in 0 .. m : bw[k] # fw[m - k]}
  <2> SUFFICES ASSUME Apart # {} PROVE FALSE
    OBVIOUS
  <2>1. Apart \in SUBSET Nat
    BY <1>4
  <2>2. PICK k \in Apart : \A c \in Apart : k <= c
    <3> HIDE DEF Apart
    <3> QED
      BY <2>1, LeastNatural
  <2>3. k # 0
    BY <1>4, <2>2
  <2>4. k - 1 \in 0 .. m /\ k - 1 \in Nat /\ m - k \in Nat /\ m - (k - 1) = (m - k) + 1
        /\ (k - 1) + 1 = k
    BY <1>4, <2>2, <2>3
  <2>5. bw[k - 1] = fw[(m - k) + 1]
    BY <2>2, <2>4
  <2>6. bw[k] = pv[bw[k - 1]] /\ fw[(m - k) + 1] = nx[fw[m - k]] /\ fw[m - k] \in nodes
    <3> HIDE DEF Apart
    <3> QED
      BY <2>4
  <2>7. bw[k] = fw[m - k]
    BY <1>1, <2>5, <2>6
  <2> QED
    BY <2>2, <2>7
<1> QED
  BY <1>4, <1>5, <1>7, <1>8

\* The two recursive walks from the head stay in the ring.
LEMMA WalksStayInRing ==
  ASSUME RingInv
  PROVE  /\ Forward \in [Nat -> InRing] /\ Forward[0] = Head
         /\ \A k \in Nat : Forward[k + 1] = next[Forward[k]]
         /\ Backward \in [Nat -> InRing] /\ Backward[0] = Head
         /\ \A k \in Nat : Backward[k + 1] = prev[Backward[k]]
<1>1. /\ Head \in InRing
      /\ \A n \in InRing : next[n] \in InRing
      /\ \A n \in InRing : prev[n] \in InRing
  BY DEF RingInv, LinkInv, Links, InRing
<1>2. Forward = Walk(Head, next) /\ Backward = Walk(Head, prev)
  BY DEF Forward, Backward, Walk
<1>3. /\ Walk(Head, next) \in [Nat -> InRing] /\ Walk(Head, next)[0] = Head
      /\ \A k \in Nat : Walk(Head, next)[k + 1] = next[Walk(Head, next)[k]]
  BY <1>1, WalkUnfolds
<1>4. /\ Walk(Head, prev) \in [Nat -> InRing] /\ Walk(Head, prev)[0] = Head
      /\ \A k \in Nat : Walk(Head, prev)[k + 1] = prev[Walk(Head, prev)[k]]
  BY <1>1, WalkUnfolds
<1> QED
  BY <1>2, <1>3, <1>4

(***************************************************************************)
(* The list does what IdleTimeouts promises.                               *)
(***************************************************************************)
\* A sweep that stops at a timer that is not due has passed every one that is.
LEMMA SweepIsComplete ==
  ASSUME Owner = Main, Inv, pc[Main] = "Tick", ~IsDue
  PROVE  \A t \in Armed : expire[t] > curTime
<1> DEFINE later == {Head} \union {t \in Armed : expire[t] > curTime}
<1>1. /\ InRing = {Head} \union Armed /\ tmp = next[Head] /\ touched = NULL
      /\ Armed \subseteq Timers /\ Head \notin Timers
  BY Owner = Main, TimerAssumption
     DEF Inv, RingInv, ControlInv, TypeOK, InRing, Threads, Armed
<1>2. \A n \in InRing : next[n] \in InRing /\ InOrder(n, next[n])
  BY <1>1, TimerAssumption DEF Inv, RingInv, LinkInv, Links, OrderInv
<1>3. curTime \in Int /\ \A t \in Armed : expire[t] \in Int
  BY <1>1 DEF Inv, RingInv, TypeOK
<1>4. tmp \in later
  BY <1>1, <1>2, <1>3 DEF IsDue
<1>5. ASSUME NEW t \in Armed, expire[t] > curTime PROVE next[t] \in later
  BY <1>1, <1>2, <1>3, <1>5 DEF InOrder
<1>6. \A n \in later : next[n] \in later
  BY <1>1, <1>4, <1>5
<1>7. later \in SUBSET InRing /\ later # {}
  BY <1>1
<1>8. later = InRing
  <2> HIDE DEF later
  <2> QED
    BY <1>6, <1>7 DEF Inv, CycleInv, OneRing
<1> QED
  BY <1>1, <1>8

\* What the refinement mapping makes of a state.
LEMMA TimeoutsMapping ==
  ASSUME Inv
  PROVE  /\ NULL \notin Nat /\ now \in Nat /\ curTime \in Nat
         /\ Armed \subseteq Timers /\ \A t \in Timers : expire[t] \in Nat
         /\ pc \in [Threads -> Labels] /\ Main \in Threads
BY TimerAssumption DEF Inv, RingInv, TypeOK, Armed, Threads

\* Steps between those that the promise is about.
LEMMA TimeoutsStutter ==
  ASSUME Inv, Armed' = Armed, UNCHANGED <<now, expire, curTime>>,
         pc[Main] = "Ended" <=> pc'[Main] = "Ended",
         pc[Main] \in {"Tick", "Unlink"} <=> pc'[Main] \in {"Tick", "Unlink"}
  PROVE  UNCHANGED Timeouts!vars
BY DEF Timeouts!vars

\* A timer is set, for a new connection or an active one, outside of sweeps.
LEMMA RearmStep ==
  ASSUME Inv, NEW t \in Timers, Armed' = Armed \union {t},
         expire' = [expire EXCEPT ![t] = now + Timeout],
         pc[Main] \notin {"Tick", "Unlink", "Ended"},
         pc'[Main] \notin {"Tick", "Unlink", "Ended"}, UNCHANGED now
  PROVE  Timeouts!Next
<1>1. Timeouts!Rearm(t)
  BY DEF Timeouts!Rearm, Inv, RingInv, TypeOK
<1> QED
  BY <1>1 DEF Timeouts!Next

\* Every step of the list is one the promise allows, or none at all.
LEMMA TimeoutStep ==
  ASSUME Owner = Main, Inv, [Next]_vars
  PROVE  [Timeouts!Next]_(Timeouts!vars)
<1> USE Owner = Main, TimeoutsMapping
<1>1. ASSUME NEW t \in Timers, generate_timer(t) PROVE Timeouts!Next
  BY <1>1, RearmStep DEF generate_timer, Armed, Goto, Inv, RingInv, TypeOK
<1>2. ASSUME NEW t \in Timers, update_timer(t) PROVE Timeouts!Next
  BY <1>2, RearmStep DEF update_timer, IsOpen, Armed, Goto, Inv, RingInv, TypeOK
<1>3. ASSUME NEW t \in Timers, Close(t) PROVE UNCHANGED Timeouts!vars
  <2>1. Armed' = Armed
    BY <1>3 DEF Close, IsOpen, Armed, Inv, RingInv, TypeOK
  <2> QED
    BY <1>3, <2>1, TimeoutsStutter DEF Close, walk
<1>4. CASE add_timer \/ reset_timer
  <2>1. Armed' = Armed /\ UNCHANGED <<now, expire, curTime>>
    BY <1>4 DEF add_timer, WalkOn, InsertHere, reset_timer, ResetLast, ResetRemove,
                ResetTailInsert, timer, walk, Armed
  <2>2. /\ pc[Main] \notin {"Tick", "Unlink", "Ended"}
        /\ pc'[Main] \notin {"Tick", "Unlink", "Ended"}
    BY <1>4 DEF add_timer, WalkOn, InsertHere, reset_timer, ResetLast, ResetRemove,
                ResetTailInsert, Goto
  <2> QED
    BY <2>1, <2>2, TimeoutsStutter
<1>5. CASE TickStart
  <2>1. Timeouts!BeginSweep
    BY <1>5 DEF TickStart, Timeouts!BeginSweep, Goto, timer, Armed
  <2> QED
    BY <2>1 DEF Timeouts!Next, Timeouts!Sweep
<1>6. CASE TimeoutCallback
  <2>1. tmp \in Armed
    BY <1>6, TimerAssumption
       DEF TimeoutCallback, IsDue, Inv, RingInv, ControlInv, LinkInv, Links, InRing
  <2>2. Armed' = Armed \ {tmp} /\ UNCHANGED <<now, expire, curTime>>
    BY <1>6, <2>1 DEF TimeoutCallback, Armed, walk, Inv, RingInv, TypeOK
  <2>3. PICK t \in Timers : t = tmp
    BY <2>1
  <2>4. Timeouts!CloseIdle(t)
    BY <1>6, <2>1, <2>2, <2>3
       DEF TimeoutCallback, IsDue, Timeouts!CloseIdle, Timeouts!Due, Goto
  <2> QED
    BY <2>4 DEF Timeouts!Next, Timeouts!Sweep
<1>7. CASE CallbackDies
  <2>1. Timeouts!Abort
    BY <1>7 DEF CallbackDies, Timeouts!Abort, timer, Armed
  <2> QED
    BY <2>1 DEF Timeouts!Next
<1>8. CASE Unlink
  BY <1>8, TimeoutsStutter DEF Unlink, Goto, timer, Armed
<1>9. CASE TickDone
  <2>1. \A t \in Timers : ~Timeouts!Due(t)
    BY <1>9, SweepIsComplete DEF TickDone, Timeouts!Due
  <2>2. Timeouts!EndSweep
    BY <1>9, <2>1 DEF TickDone, Timeouts!EndSweep, Goto, timer, Armed
  <2> QED
    BY <2>2 DEF Timeouts!Next, Timeouts!Sweep
<1>10. CASE Advance
  <2>1. Timeouts!Advance
    BY <1>10 DEF Advance, Timeouts!Advance, timer, walk, Armed
  <2> QED
    BY <2>1 DEF Timeouts!Next
<1>11. CASE UNCHANGED vars
  BY <1>11, TimeoutsStutter DEF vars, timer, walk, Armed
<1> QED
  BY <1>1, <1>2, <1>3, <1>4, <1>5, <1>6, <1>7, <1>8, <1>9, <1>10, <1>11 DEF Next, tick

-----------------------------------------------------------------------------
\* In a server without workers the pointers of the list undo each other at
\* every point of every operation.
THEOREM RingIsIntact ==
  ASSUME Owner = Main
  PROVE  SafeSpec => [](TypeOK /\ LinkInv)
<1>1. RingInv /\ [Next]_vars => RingInv'
  BY Owner = Main, RingStep
<1>2. RingInv => TypeOK /\ LinkInv
  BY DEF RingInv
<1> QED
  BY InitRing, <1>1, <1>2, PTL DEF SafeSpec

\* The inductive invariant holds at every point of a server without workers.
THEOREM Invariance ==
  ASSUME Owner = Main
  PROVE  SafeSpec => []Inv
<1>1. Init => Inv
  <2>1. Init => OrderInv
    BY TimerAssumption
       DEF Init, OrderInv, InOrder, InRing, Armed, Threads, Nodes
  <2>2. Init => CycleInv
    <3>1. Init => InRing = {Head}
      BY DEF Init, InRing, Armed, Threads
    <3>2. OneRing({Head}, next)
      BY DEF OneRing
    <3> QED
      BY <3>1, <3>2 DEF CycleInv
  <2> QED
    BY <2>1, <2>2, InitRing DEF Inv
<1>2. Inv /\ [Next]_vars => Inv'
  BY Owner = Main, RingStep, OrderStep, CycleStep DEF Inv
<1> QED
  BY <1>1, <1>2, PTL DEF SafeSpec

\* No timer waits behind one that expires later, so tick may stop at the first
\* timer that is not due.
THEOREM ListIsAscending ==
  ASSUME Owner = Main
  PROVE  SafeSpec => []Ascending
<1>1. Inv => Ascending
  BY Owner = Main, TimerAssumption
     DEF Inv, RingInv, ControlInv, OrderInv, InOrder, Ascending, Quiet, InRing, Threads,
         Armed
<1> QED
  BY <1>1, Invariance, PTL

\* Between two operations the list is one ring of exactly the timers that wait,
\* and both directions visit them in the same order.
THEOREM RingIsOfArmed ==
  ASSUME Owner = Main
  PROVE  SafeSpec => []RingHoldsArmed
<1>1. ASSUME Inv PROVE RingHoldsArmed
  <2> SUFFICES ASSUME Quiet PROVE /\ {Forward[k] : k \in 0 .. Cardinality(Armed)} = Armed \union {Head}
                                  /\ Forward[Cardinality(Armed) + 1] = Head
                                  /\ \A k \in 0 .. Cardinality(Armed) :
                                       Backward[k] = Forward[Cardinality(Armed) + 1 - k]
    BY DEF RingHoldsArmed
  <2>1. InRing = Armed \union {Head} /\ Head \notin Armed
    BY <1>1, Owner = Main, TimerAssumption
       DEF Inv, RingInv, ControlInv, TypeOK, Quiet, InRing, Threads, Armed
  <2>2. Links(InRing, next, prev) /\ OneRing(InRing, next) /\ Head \in InRing
    BY <1>1, <2>1 DEF Inv, RingInv, LinkInv, CycleInv
  <2>3. PICK m \in Nat \ {0} :
           /\ IsFiniteSet(InRing) /\ Cardinality(InRing) = m
           /\ {Forward[k] : k \in 0 .. m - 1} = InRing
           /\ Forward[m] = Head
           /\ \A k \in 0 .. m : Backward[k] = Forward[m - k]
    <3> HIDE DEF Links, OneRing, InRing, Forward, Backward
    <3>1. /\ Forward \in [Nat -> InRing] /\ Forward[0] = Head
          /\ \A k \in Nat : Forward[k + 1] = next[Forward[k]]
          /\ Backward \in [Nat -> InRing] /\ Backward[0] = Head
          /\ \A k \in Nat : Backward[k + 1] = prev[Backward[k]]
      BY <1>1, WalksStayInRing DEF Inv
    <3> QED
      BY <2>2, <3>1, RingIsCounted
  <2>4. Cardinality(Armed) = m - 1
    <3>1. IsFiniteSet(Armed)
      BY <2>1, <2>3, FS_Subset
    <3>2. Cardinality(Armed) \in Nat
      BY <3>1, FS_CardinalityType
    <3>3. Cardinality(Armed \union {Head}) = Cardinality(Armed) + 1
      BY <2>1, <3>1, FS_AddElement
    <3> QED
      BY <2>1, <2>3, <3>2, <3>3
  <2> QED
    BY <2>1, <2>3, <2>4
<1> QED
  BY <1>1, Owner = Main, Invariance, PTL

\* A sweep closes every connection whose time has come when it starts, closes
\* no other, and nothing else takes a deadline away.
THEOREM StepsImplementTimeouts ==
  ASSUME Owner = Main
  PROVE  SafeSpec => StepsAreTimeoutSteps
<1>1. Init => Timeouts!Init
  BY TimerAssumption DEF Init, Timeouts!Init, Armed, Threads
<1>2. Inv /\ [Next]_vars => [Timeouts!Next]_(Timeouts!vars)
  BY Owner = Main, TimeoutStep
<1> QED
  BY <1>1, <1>2, Owner = Main, Invariance, PTL DEF SafeSpec, StepsAreTimeoutSteps, Timeouts!SafeSpec
=============================================================================
