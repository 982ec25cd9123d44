-------------------------- MODULE ClangTidyProofs --------------------------
(***************************************************************************)
(* Proofs about ClangTidy, for any database, any number of workers and any *)
(* third-party entries.  Inv is inductive: the steps of the main thread    *)
(* leave the queue alone except for Put, and a worker moves one entry from *)
(* the queue through its hands to a result.                                *)
(***************************************************************************)
EXTENDS ClangTidy, TLAPS

ElementsOf(q) == {q[i] : i \in DOMAIN q}
Distinct(q)   == \A i, j \in DOMAIN q : i # j => q[i] # q[j]

(***************************************************************************)
(* The queue as a sequence.                                                *)
(***************************************************************************)
\* What is put is the last element of the queue.
LEMMA AppendElements ==
  ASSUME NEW S, NEW q \in Seq(S), NEW x \in S
  PROVE  /\ Append(q, x) \in Seq(S)
         /\ ElementsOf(Append(q, x)) = ElementsOf(q) \cup {x}
         /\ Distinct(q) /\ x \notin ElementsOf(q) => Distinct(Append(q, x))
<1> DEFINE r == Append(q, x)
<1>1. r \in Seq(S) /\ Len(r) = Len(q) + 1 /\ Len(q) \in Nat
  OBVIOUS
<1>2. DOMAIN r = 1..(Len(q) + 1) /\ DOMAIN q = 1..Len(q)
  BY <1>1
<1>3. /\ \A i \in 1..Len(q) : r[i] = q[i]
      /\ r[Len(q) + 1] = x
  OBVIOUS
<1> HIDE DEF r
<1>4. ElementsOf(r) = ElementsOf(q) \cup {x}
  <2>1. ASSUME NEW e \in ElementsOf(r) PROVE e \in ElementsOf(q) \cup {x}
    <3>1. PICK i \in DOMAIN r : e = r[i]
      BY <2>1 DEF ElementsOf
    <3>2. CASE i = Len(q) + 1
      BY <3>1, <3>2, <1>3
    <3>3. CASE i # Len(q) + 1
      <4>1. i \in DOMAIN q
        BY <1>1, <1>2, <3>3
      <4> QED BY <4>1, <1>2, <1>3, <3>1 DEF ElementsOf
    <3> QED BY <3>2, <3>3
  <2>2. ASSUME NEW e \in ElementsOf(q) PROVE e \in ElementsOf(r)
    <3>1. PICK i \in DOMAIN q : e = q[i]
      BY <2>2 DEF ElementsOf
    <3>2. i \in DOMAIN r /\ r[i] = e
      BY <3>1, <1>1, <1>2, <1>3
    <3> QED BY <3>2 DEF ElementsOf
  <2>3. x \in ElementsOf(r)
    <3>1. Len(q) + 1 \in DOMAIN r
      BY <1>1, <1>2
    <3> QED BY <3>1, <1>3 DEF ElementsOf
  <2> QED BY <2>1, <2>2, <2>3
<1>5. ASSUME Distinct(q), x \notin ElementsOf(q) PROVE Distinct(r)
  <2> SUFFICES ASSUME NEW i \in DOMAIN r, NEW j \in DOMAIN r, i # j PROVE r[i] # r[j]
    BY DEF Distinct
  <2>1. CASE i \in 1..Len(q) /\ j \in 1..Len(q)
    BY <2>1, <1>2, <1>3, <1>5 DEF Distinct
  <2>2. CASE i = Len(q) + 1
    <3>1. j \in 1..Len(q)
      BY <2>2, <1>1, <1>2
    <3> QED BY <2>2, <3>1, <1>2, <1>3, <1>5 DEF ElementsOf
  <2>3. CASE j = Len(q) + 1
    <3>1. i \in 1..Len(q)
      BY <2>3, <1>1, <1>2
    <3> QED BY <2>3, <3>1, <1>2, <1>3, <1>5 DEF ElementsOf
  <2> QED BY <2>1, <2>2, <2>3, <1>1, <1>2
<1> QED BY <1>1, <1>4, <1>5 DEF r

\* What is taken is the first element, and it was there once.
LEMMA TailElements ==
  ASSUME NEW S, NEW q \in Seq(S), q # <<>>, Distinct(q)
  PROVE  /\ Tail(q) \in Seq(S) /\ Head(q) \in ElementsOf(q) /\ Head(q) \in S
         /\ ElementsOf(Tail(q)) = ElementsOf(q) \ {Head(q)}
         /\ Distinct(Tail(q))
<1> DEFINE r == Tail(q)
<1>1. r \in Seq(S) /\ Len(r) = Len(q) - 1 /\ Len(q) \in Nat \ {0} /\ Head(q) = q[1] /\ Head(q) \in S
  OBVIOUS
<1>2. DOMAIN r = 1..(Len(q) - 1) /\ DOMAIN q = 1..Len(q)
  BY <1>1
<1>3. \A i \in 1..(Len(q) - 1) : r[i] = q[i + 1]
  OBVIOUS
<1> HIDE DEF r
<1>4. Head(q) \in ElementsOf(q)
  BY <1>1, <1>2 DEF ElementsOf
<1>5. ASSUME NEW e \in ElementsOf(r) PROVE e \in ElementsOf(q) \ {Head(q)}
  <2>1. PICK i \in DOMAIN r : e = r[i]
    BY <1>5 DEF ElementsOf
  <2>2. i + 1 \in DOMAIN q /\ i + 1 # 1 /\ e = q[i + 1] /\ 1 \in DOMAIN q
    BY <2>1, <1>1, <1>2, <1>3
  <2>3. q[i + 1] # q[1]
    BY <2>2 DEF Distinct
  <2> QED BY <2>2, <2>3, <1>1 DEF ElementsOf
<1>6. ASSUME NEW e \in ElementsOf(q) \ {Head(q)} PROVE e \in ElementsOf(r)
  <2>1. PICK i \in DOMAIN q : e = q[i]
    BY <1>6 DEF ElementsOf
  <2>2. i # 1
    BY <2>1, <1>1, <1>6
  <2>3. i - 1 \in DOMAIN r /\ r[i - 1] = e
    BY <2>1, <2>2, <1>1, <1>2, <1>3
  <2> QED BY <2>3 DEF ElementsOf
<1>7. Distinct(r)
  <2> SUFFICES ASSUME NEW i \in DOMAIN r, NEW j \in DOMAIN r, i # j PROVE r[i] # r[j]
    BY DEF Distinct
  <2>1. i + 1 \in DOMAIN q /\ j + 1 \in DOMAIN q /\ i + 1 # j + 1
    BY <1>1, <1>2
  <2>2. q[i + 1] # q[j + 1]
    BY <2>1 DEF Distinct
  <2> QED BY <2>2, <1>2, <1>3
<1> QED BY <1>1, <1>4, <1>5, <1>6, <1>7 DEF r

(***************************************************************************)
(* What the invariant says once the queue is done.                         *)
(***************************************************************************)
\* Past the join every entry has a result and a file, and no worker is at work.
LEMMA JoinedFacts ==
  ASSUME Inv, main \in Joined
  PROVE  /\ Held = {} /\ unfinished = {}
         /\ \A f \in Files : result[f] \in IF f \in ThirdParty THEN {"skipped"} ELSE {"passed", "failed"}
         /\ WantsFixes => tmpdir /\ yaml = Files
<1> USE SizesAssumption
<1>1. unfinished = {} /\ next = Entries + 1
  BY DEF Inv, MainKnows
<1>2. Held = {}
  BY <1>1 DEF Inv, UnfinishedIsHeld
<1>3. \A f \in Files : result[f] # "none"
  BY <1>1 DEF Inv, ResultsAreReported, Files
<1>4. \A f \in Files : result[f] \in IF f \in ThirdParty THEN {"skipped"} ELSE {"passed", "failed"}
  BY <1>3 DEF Inv, ResultsAreReported, TypeOK
<1>5. WantsFixes => tmpdir /\ yaml = Files
  BY <1>3 DEF Inv, FilesAreThere, TypeOK
<1> QED BY <1>1, <1>2, <1>4, <1>5

\* A verdict of success past the join means that no check failed, and past the fix
\* that the export was written.
LEMMA CleanFacts ==
  ASSUME Inv, main = "clean", code = 0
  PROVE  /\ \A f \in Files : result[f] = IF f \in ThirdParty THEN "skipped" ELSE "passed"
         /\ args.export => merged = "written"
<1>1. main \in Joined
  BY DEF Joined
<1>2. failed = {}
  BY <1>1 DEF Inv, MainKnows
<1>3. \A f \in Files : result[f] # "failed"
  BY <1>2 DEF Inv, ResultsAreReported
<1>4. args.export => merged = "written"
  BY DEF Inv, MainKnows
<1> QED BY <1>1, <1>2, <1>3, <1>4, JoinedFacts

(***************************************************************************)
(* The main thread.                                                        *)
(***************************************************************************)
\* A step that leaves the queue, the workers and the results alone keeps what
\* is said of them.
LEMMA WorkIsKept ==
  ASSUME UnfinishedIsHeld, ResultsAreReported,
         UNCHANGED <<next, queue, unfinished, worker, job, failed, result>>
  PROVE  UnfinishedIsHeld' /\ ResultsAreReported'
<1>1. Held' = Held /\ Waiting' = Waiting
  BY DEF Held, Waiting
<1>2. UnfinishedIsHeld'
  BY <1>1 DEF UnfinishedIsHeld
<1>3. ResultsAreReported'
  BY <1>1 DEF ResultsAreReported
<1> QED BY <1>2, <1>3

\* The steps before the queue is filled.
LEMMA StartPreserves ==
  ASSUME Inv, NoDatabase \/ FindDatabase \/ NoReplacements \/ Prepare
  PROVE  Inv'
<1> USE DEF Main, shared, outside, verdict, Merge
<1>1. UNCHANGED <<args, next, queue, unfinished, worker, job, failed, yaml, result>>
  BY DEF NoDatabase, FindDatabase, NoReplacements, Prepare
<1>2. UnfinishedIsHeld' /\ ResultsAreReported'
  BY <1>1, WorkIsKept DEF Inv
<1>3. TypeOK'
  BY <1>1 DEF Inv, TypeOK, Ended, NoDatabase, FindDatabase, NoReplacements, Prepare, WantsFixes
<1>4. FilesAreThere'
  <2>1. \A f \in Files : result[f] = "none"
    BY SizesAssumption DEF Inv, MainKnows, ResultsAreReported, Files, NoDatabase, FindDatabase, NoReplacements,
       Prepare
  <2>2. Held = {}
    <3>1. \A f \in unfinished : f \in Files /\ f < 1
      BY DEF Inv, TypeOK, MainKnows, UnfinishedIsHeld, NoDatabase, FindDatabase, NoReplacements, Prepare
    <3>2. unfinished = {}
      BY <3>1, SizesAssumption DEF Files
    <3> QED BY <3>2 DEF Inv, UnfinishedIsHeld
  <2>3. \A w \in Workers : worker'[w] \notin {"ready", "running", "ended"}
    BY <1>1, <2>2 DEF Held
  <2>4. ~tmpdir
    BY DEF Inv, FilesAreThere, NoDatabase, FindDatabase, NoReplacements, Prepare
  <2>5. \/ main' \in {"prepare", "exit"} /\ tmpdir' = tmpdir
        \/ main' = "fill" /\ tmpdir' = WantsFixes
    BY DEF NoDatabase, FindDatabase, NoReplacements, Prepare
  <2>6. WantsFixes' = WantsFixes
    BY <1>1 DEF WantsFixes
  <2>7. /\ \A f \in Files : result'[f] = "none"
        /\ \A w \in Workers : worker'[w] \notin {"ready", "running", "ended"}
    BY <1>1, <2>1, <2>3
  <2> QED BY <2>4, <2>5, <2>6, <2>7 DEF FilesAreThere, Joined
<1>5. MainKnows'
  BY <1>1 DEF Inv, MainKnows, Joined, NoDatabase, FindDatabase, NoReplacements, Prepare
<1>6. SuccessMeansPassed'
  BY <1>1 DEF Inv, SuccessMeansPassed, NoDatabase, FindDatabase, NoReplacements, Prepare
<1> QED BY <1>2, <1>3, <1>4, <1>5, <1>6 DEF Inv

\* The steps past the filling of the queue.
LEMMA EndPreserves ==
  ASSUME Inv, Filled \/ Join \/ ExportFixes \/ ApplyFixes
  PROVE  Inv'
<1> USE DEF Main, shared, outside, verdict, Merge
<1>1. UNCHANGED <<args, next, queue, unfinished, worker, job, failed, tmpdir, yaml, result>>
  BY DEF Filled, Join, ExportFixes, ApplyFixes
<1>2. UnfinishedIsHeld' /\ ResultsAreReported'
  BY <1>1, WorkIsKept DEF Inv
<1>3. TypeOK'
  BY <1>1 DEF Inv, TypeOK, Ended, Filled, Join, ExportFixes, ApplyFixes
<1>4. FilesAreThere'
  BY <1>1 DEF Inv, FilesAreThere, Joined, WantsFixes, Filled, Join, ExportFixes, ApplyFixes
<1>5. MainKnows'
  <2>1. CASE Filled
    BY <2>1, <1>1 DEF Inv, MainKnows, Joined, Filled
  <2>2. CASE Join
    BY <2>2, <1>1 DEF Inv, MainKnows, Joined, Join, QueueIsDone
  <2>3. CASE ExportFixes
    <3>1. main \in Joined
      BY <2>3 DEF ExportFixes, Joined
    <3>2. code' = 0 => code = 0
      BY <2>3 DEF ExportFixes
    <3> QED BY <2>3, <3>1, <3>2, <1>1 DEF Inv, MainKnows, Joined, ExportFixes
  <2>4. CASE ApplyFixes
    BY <2>4, <1>1 DEF Inv, MainKnows, Joined, ApplyFixes
  <2> QED BY <2>1, <2>2, <2>3, <2>4
<1>6. SuccessMeansPassed'
  BY <1>1 DEF Inv, SuccessMeansPassed, Filled, Join, ExportFixes, ApplyFixes
<1> QED BY <1>2, <1>3, <1>4, <1>5, <1>6 DEF Inv

\* The end, and Ctrl-C.
LEMMA CleanUpPreserves ==
  ASSUME Inv, CleanUp
  PROVE  Inv'
<1> USE DEF Main, shared, outside, verdict, Merge, CleanUp
<1>1. UnfinishedIsHeld' /\ ResultsAreReported'
  BY WorkIsKept DEF Inv
<1>2. TypeOK'
  BY DEF Inv, TypeOK, Ended
<1>3. FilesAreThere' /\ MainKnows'
  BY DEF Inv, FilesAreThere, MainKnows, Joined
<1>4. SuccessMeansPassed'
  BY CleanFacts DEF SuccessMeansPassed
<1> QED BY <1>1, <1>2, <1>3, <1>4 DEF Inv

LEMMA InterruptPreserves ==
  ASSUME Inv, Interrupt \/ HandlerRemoves \/ HandlerFails \/ HandlerKills \/ InterruptLate
  PROVE  Inv'
<1> USE DEF Main, shared, outside, verdict, Merge
<1>1. UNCHANGED <<args, next, queue, unfinished, worker, job, failed, code, merged, result>>
  BY DEF Interrupt, HandlerRemoves, HandlerFails, HandlerKills, InterruptLate
<1>2. UnfinishedIsHeld' /\ ResultsAreReported'
  BY <1>1, WorkIsKept DEF Inv
<1>3. TypeOK'
  BY <1>1 DEF Inv, TypeOK, Ended, Interrupt, HandlerRemoves, HandlerFails, HandlerKills, InterruptLate
<1>4. FilesAreThere'
  BY <1>1 DEF Inv, FilesAreThere, Joined, WantsFixes, Interrupt, HandlerRemoves, HandlerFails, HandlerKills,
     InterruptLate
<1>5. MainKnows' /\ SuccessMeansPassed'
  BY <1>1 DEF Inv, MainKnows, SuccessMeansPassed, Joined, Interrupt, HandlerRemoves, HandlerFails,
     HandlerKills, InterruptLate
<1> QED BY <1>2, <1>3, <1>4, <1>5 DEF Inv

\* What is put is new: it is behind all that has been put.
LEMMA PutPreserves ==
  ASSUME Inv, Put
  PROVE  Inv'
<1> USE DEF shared, outside, verdict
<1>1. /\ main = "fill" /\ next \in Files /\ queue' = Append(queue, next)
      /\ unfinished' = unfinished \cup {next} /\ next' = next + 1
      /\ UNCHANGED <<args, main, worker, job, failed, tmpdir, yaml, result, code, merged>>
  BY DEF Put, Inv, TypeOK
<1>2. queue \in Seq(Files) /\ Distinct(queue) /\ Waiting = ElementsOf(queue)
      /\ Waiting' = ElementsOf(queue')
  BY DEF Inv, TypeOK, UnfinishedIsHeld, Distinct, Waiting, ElementsOf
<1>3. next \notin unfinished
  BY <1>1, SizesAssumption DEF Inv, UnfinishedIsHeld, Files
<1>4. next \notin Waiting /\ \A w \in Held : job[w] # next
  BY <1>3 DEF Inv, UnfinishedIsHeld
<1>5. queue' \in Seq(Files) /\ Waiting' = Waiting \cup {next} /\ Distinct(queue') /\ Held' = Held
  BY <1>1, <1>2, <1>4, AppendElements DEF Held
<1>6. TypeOK'
  <2>1. next' \in 1..(Entries + 1) /\ unfinished' \subseteq Files
    BY <1>1, SizesAssumption DEF Inv, TypeOK, Files
  <2> QED BY <1>1, <1>5, <2>1 DEF Inv, TypeOK
<1>7. UnfinishedIsHeld'
  <2>1. \A f \in unfinished' : f < next'
    <3>1. \A f \in unfinished : f \in Files /\ f < next
      BY DEF Inv, TypeOK, UnfinishedIsHeld
    <3> QED BY <3>1, <1>1, SizesAssumption DEF Files
  <2>2. /\ unfinished' = Waiting' \cup {job'[w] : w \in Held'}
        /\ \A v, w \in Held' : v # w => job'[v] # job'[w]
        /\ \A w \in Held' : job'[w] \in Files \ Waiting'
    BY <1>1, <1>4, <1>5 DEF Inv, UnfinishedIsHeld
  <2>3. \A i, j \in DOMAIN queue' : i # j => queue'[i] # queue'[j]
    BY <1>5 DEF Distinct
  <2> QED BY <2>1, <2>2, <2>3 DEF UnfinishedIsHeld
<1>8. ResultsAreReported'
  <2>1. \A f \in Files : f < next' /\ f \notin unfinished' => f < next /\ f \notin unfinished
    BY <1>1, SizesAssumption DEF Files
  <2>2. \A f \in Files : f >= next' \/ f \in Waiting' => f >= next \/ f \in Waiting
    BY <1>1, <1>5, SizesAssumption DEF Files
  <2> QED BY <1>1, <2>1, <2>2 DEF Inv, ResultsAreReported
<1>9. FilesAreThere'
  BY <1>1 DEF Inv, FilesAreThere, Joined, WantsFixes
<1>10. MainKnows' /\ SuccessMeansPassed'
  BY <1>1 DEF MainKnows, SuccessMeansPassed, Joined
<1> QED BY <1>6, <1>7, <1>8, <1>9, <1>10 DEF Inv

(***************************************************************************)
(* The workers.                                                            *)
(***************************************************************************)
\* What every step of a worker leaves alone, and that nobody is past the join.
LEMMA WorkerFrame ==
  ASSUME Inv, NEW w \in Workers, NEW from, NEW to, from # "idle", worker[w] = from,
         Works(w, from, to), to \in {"idle", "taken", "ready", "running", "ended", "dead"}
  PROVE  /\ UNCHANGED <<args, main, next, code, merged>> /\ main \notin Ended /\ main \notin Joined
         /\ worker' \in [Workers -> {"idle", "taken", "ready", "running", "ended", "dead"}]
         /\ worker'[w] = to /\ \A v \in Workers \ {w} : worker'[v] = worker[v]
         /\ w \in Held /\ job[w] \in Files /\ job[w] \in unfinished /\ job[w] \notin Waiting
         /\ job[w] < next
         /\ \A v \in Held \ {w} : job[v] # job[w]
<1>1. w \in Held
  BY DEF Held
<1>2. main \notin Joined
  BY <1>1, JoinedFacts
<1>3. UNCHANGED <<args, main, next, code, merged>> /\ main \notin Ended
      /\ worker' = [worker EXCEPT ![w] = to]
  BY DEF Works, verdict
<1>4. worker \in [Workers -> {"idle", "taken", "ready", "running", "ended", "dead"}]
  BY DEF Inv, TypeOK
<1>5. job[w] \in unfinished /\ job[w] \in Files \ Waiting /\ job[w] < next
      /\ \A v \in Held \ {w} : job[v] # job[w]
  BY <1>1 DEF Inv, UnfinishedIsHeld
<1> QED BY <1>1, <1>2, <1>3, <1>4, <1>5

\* A step after which the worker still holds its entry keeps the count.
LEMMA HoldingKeepsCount ==
  ASSUME UnfinishedIsHeld, Held' = Held, UNCHANGED <<next, queue, unfinished, job>>
  PROVE  UnfinishedIsHeld'
<1>1. Waiting' = Waiting
  BY DEF Waiting
<1> QED BY <1>1 DEF UnfinishedIsHeld

\* task_done takes the entry off the count when the worker lets go of it.
LEMMA TaskDoneKeepsCount ==
  ASSUME Inv, NEW w \in Held, Held' = Held \ {w}, task_done(w), UNCHANGED <<next, queue, job>>
  PROVE  UnfinishedIsHeld' /\ unfinished' = unfinished \ {job[w]}
<1>1. Waiting' = Waiting /\ unfinished' = unfinished \ {job[w]}
  BY DEF Waiting, task_done
<1>2. job[w] \notin Waiting /\ \A v \in Held \ {w} : job[v] # job[w]
  BY DEF Inv, UnfinishedIsHeld
<1>3. unfinished' = Waiting' \cup {job'[v] : v \in Held'}
  BY <1>1, <1>2 DEF Inv, UnfinishedIsHeld
<1> QED BY <1>1, <1>3 DEF Inv, UnfinishedIsHeld

\* What the main thread knows past the join does not concern a step before it.
LEMMA MainKnowsIsKept ==
  ASSUME MainKnows, SuccessMeansPassed, main \notin Ended, main \notin Joined,
         main \in {"start", "prepare"} => yaml' = yaml, UNCHANGED <<args, main, next>>
  PROVE  MainKnows' /\ SuccessMeansPassed'
BY DEF MainKnows, SuccessMeansPassed, Ended, Joined

\* A worker holds something only once the queue has been filled.
LEMMA HeldMeansFilled ==
  ASSUME Inv, NEW w \in Held
  PROVE  main \notin {"start", "prepare"}
<1>1. job[w] \in Files /\ job[w] < next
  BY DEF Inv, UnfinishedIsHeld
<1>2. next # 1
  BY <1>1, SizesAssumption DEF Files
<1> QED BY <1>2 DEF Inv, MainKnows

LEMMA GetPreserves ==
  ASSUME Inv, NEW w \in Workers, Get(w)
  PROVE  Inv'
<1> USE DEF outside
<1>1. /\ main \notin Ended /\ worker[w] = "idle" /\ worker' = [worker EXCEPT ![w] = "taken"]
      /\ queue # <<>> /\ job' = [job EXCEPT ![w] = Head(queue)] /\ queue' = Tail(queue)
      /\ UNCHANGED <<args, main, next, code, merged, unfinished, failed, tmpdir, yaml, result>>
  BY DEF Get, Works, verdict
<1>2. queue \in Seq(Files) /\ Distinct(queue) /\ Waiting = ElementsOf(queue)
      /\ Waiting' = ElementsOf(queue')
  BY DEF Inv, TypeOK, UnfinishedIsHeld, Distinct, Waiting, ElementsOf
<1>3. /\ queue' \in Seq(Files) /\ Head(queue) \in Waiting /\ Head(queue) \in Files
      /\ Waiting' = Waiting \ {Head(queue)} /\ Distinct(queue')
  BY <1>1, <1>2, TailElements
<1>4. /\ worker \in [Workers -> {"idle", "taken", "ready", "running", "ended", "dead"}]
      /\ job \in [Workers -> Files \cup {0}]
  BY DEF Inv, TypeOK
<1>5. /\ worker'[w] = "taken" /\ \A v \in Workers \ {w} : worker'[v] = worker[v]
      /\ job'[w] = Head(queue) /\ \A v \in Workers \ {w} : job'[v] = job[v]
  BY <1>1, <1>4
<1>6. Held' = Held \cup {w} /\ w \notin Held
  BY <1>1, <1>5 DEF Held
<1>7. \A v \in Held : v \in Workers \ {w} /\ job'[v] = job[v] /\ job[v] # Head(queue)
  BY <1>3, <1>5, <1>6 DEF Inv, UnfinishedIsHeld, Held
<1>8. main \notin Joined
  <2>1. Head(queue) \in unfinished
    BY <1>3 DEF Inv, UnfinishedIsHeld
  <2> QED BY <2>1, JoinedFacts
<1>9. TypeOK'
  BY <1>1, <1>3, <1>4 DEF Inv, TypeOK, Ended
<1>10. UnfinishedIsHeld'
  <2>1. unfinished' = Waiting' \cup {job'[v] : v \in Held'}
    <3>1. {job'[v] : v \in Held'} = {job[v] : v \in Held} \cup {Head(queue)}
      BY <1>5, <1>6, <1>7
    <3> QED BY <1>1, <1>3, <3>1 DEF Inv, UnfinishedIsHeld
  <2>2. /\ \A u, v \in Held' : u # v => job'[u] # job'[v]
        /\ \A v \in Held' : job'[v] \in Files \ Waiting'
    BY <1>3, <1>5, <1>6, <1>7 DEF Inv, UnfinishedIsHeld
  <2>3. \A i, j \in DOMAIN queue' : i # j => queue'[i] # queue'[j]
    BY <1>3 DEF Distinct
  <2>4. \A f \in unfinished' : f < next'
    BY <1>1 DEF Inv, UnfinishedIsHeld
  <2> QED BY <2>1, <2>2, <2>3, <2>4 DEF UnfinishedIsHeld
<1>11. ResultsAreReported'
  <2>1. result[Head(queue)] = "none"
    BY <1>3 DEF Inv, ResultsAreReported
  <2>2. \A v \in Workers : worker'[v] \in {"taken", "ready", "running"} => result'[job'[v]] = "none"
    BY <2>1, <1>1, <1>5 DEF Inv, ResultsAreReported
  <2>3. \A v \in Workers : worker'[v] \in {"running", "ended"} => job'[v] \notin ThirdParty
    BY <1>5 DEF Inv, ResultsAreReported
  <2>4. \A v \in Workers : worker'[v] = "ended" => result'[job'[v]] # "none"
    BY <1>1, <1>5 DEF Inv, ResultsAreReported
  <2> QED BY <2>2, <2>3, <2>4, <1>1, <1>3 DEF Inv, ResultsAreReported
<1>12. FilesAreThere'
  <2>1. tmpdir' => \A v \in Workers : worker'[v] \in {"ready", "running", "ended"} => job'[v] \in yaml'
    BY <1>1, <1>5 DEF Inv, FilesAreThere
  <2> QED BY <2>1, <1>1 DEF Inv, FilesAreThere, WantsFixes, Joined
<1>13. MainKnows' /\ SuccessMeansPassed'
  BY <1>1, <1>8, MainKnowsIsKept DEF Inv
<1> QED BY <1>9, <1>10, <1>11, <1>12, <1>13 DEF Inv

\* Steps that keep the entry and give it no result: the way to clang-tidy, and
\* the death of a thread.
LEMMA OnTheWayPreserves ==
  ASSUME Inv, NEW w \in Workers,
         get_tidy_invocation(w) \/ NoTemporaryFile(w) \/ Popen(w) \/ DecodeFails(w)
  PROVE  Inv'
<1> USE DEF shared, outside, verdict
<1>1. PICK from \in {"taken", "ready", "ended"}, to \in {"ready", "running", "dead"} :
        /\ Works(w, from, to)
        /\ to \in {"ready", "running"} => from \in {"taken", "ready"}
        /\ to = "running" => from = "ready" /\ job[w] \notin ThirdParty
        /\ UNCHANGED <<queue, unfinished, job, failed, tmpdir, result>>
        /\ yaml' = IF to = "ready" /\ WantsFixes THEN yaml \cup {job[w]} ELSE yaml
  BY DEF get_tidy_invocation, NoTemporaryFile, Popen, DecodeFails
<1>2. worker[w] = from
  BY <1>1 DEF Works, verdict
<1>3. /\ UNCHANGED <<args, main, next, code, merged>> /\ main \notin Ended /\ main \notin Joined
      /\ worker' \in [Workers -> {"idle", "taken", "ready", "running", "ended", "dead"}]
      /\ worker'[w] = to /\ \A v \in Workers \ {w} : worker'[v] = worker[v]
      /\ w \in Held /\ job[w] \in Files
  BY <1>1, <1>2, WorkerFrame
<1>4. Held' = Held
  BY <1>3 DEF Held
<1>5. UnfinishedIsHeld'
  BY <1>1, <1>3, <1>4, HoldingKeepsCount DEF Inv
<1>6. TypeOK'
  BY <1>1, <1>3 DEF Inv, TypeOK
<1>7. ResultsAreReported'
  <2>1. \A v \in Workers : worker'[v] \in {"taken", "ready", "running"} => result'[job'[v]] = "none"
    BY <1>1, <1>2, <1>3 DEF Inv, ResultsAreReported
  <2>2. \A v \in Workers : worker'[v] \in {"running", "ended"} => job'[v] \notin ThirdParty
    BY <1>1, <1>3 DEF Inv, ResultsAreReported
  <2>3. Waiting' = Waiting
    BY <1>1 DEF Waiting
  <2>4. \A v \in Workers : worker'[v] = "ended" => result'[job'[v]] # "none"
    BY <1>1, <1>3 DEF Inv, ResultsAreReported
  <2> QED BY <2>1, <2>2, <2>3, <2>4, <1>1, <1>3 DEF Inv, ResultsAreReported
<1>8. FilesAreThere'
  <2>1. yaml \subseteq yaml' /\ (WantsFixes /\ to = "ready" => job[w] \in yaml')
    BY <1>1
  <2>2. tmpdir' => \A v \in Workers : worker'[v] \in {"ready", "running", "ended"} => job'[v] \in yaml'
    BY <2>1, <1>1, <1>2, <1>3 DEF Inv, FilesAreThere
  <2> QED BY <2>1, <2>2, <1>1, <1>3 DEF Inv, FilesAreThere, WantsFixes, Joined
<1>9. MainKnows' /\ SuccessMeansPassed'
  BY <1>3, HeldMeansFilled, MainKnowsIsKept DEF Inv
<1> QED BY <1>5, <1>6, <1>7, <1>8, <1>9 DEF Inv

\* clang-tidy has ended: the entry has a result.
LEMMA CommunicatePreserves ==
  ASSUME Inv, NEW w \in Workers, NEW status \in {"passed", "failed"}, Communicate(w, status)
  PROVE  Inv'
<1> USE DEF shared, outside, verdict
<1>1. /\ Works(w, "running", "ended") /\ worker[w] = "running"
      /\ failed' = IF status = "failed" THEN failed \cup {job[w]} ELSE failed
      /\ result' = [result EXCEPT ![job[w]] = status]
      /\ UNCHANGED <<queue, unfinished, job, tmpdir, yaml>>
  BY DEF Communicate, Works, verdict
<1>2. /\ UNCHANGED <<args, main, next, code, merged>> /\ main \notin Ended /\ main \notin Joined
      /\ worker' \in [Workers -> {"idle", "taken", "ready", "running", "ended", "dead"}]
      /\ worker'[w] = "ended" /\ \A v \in Workers \ {w} : worker'[v] = worker[v]
      /\ w \in Held /\ job[w] \in Files /\ job[w] \in unfinished /\ job[w] \notin Waiting
      /\ job[w] < next /\ \A v \in Held \ {w} : job[v] # job[w]
  BY <1>1, WorkerFrame
<1>3. Held' = Held /\ Waiting' = Waiting
  BY <1>1, <1>2 DEF Held, Waiting
<1>4. UnfinishedIsHeld'
  BY <1>1, <1>2, <1>3, HoldingKeepsCount DEF Inv
<1>5. result \in [Files -> {"none", "skipped", "passed", "failed"}] /\ failed \subseteq Files
  BY DEF Inv, TypeOK
<1>6. TypeOK'
  BY <1>1, <1>2, <1>5 DEF Inv, TypeOK
<1>7. /\ result'[job[w]] = status /\ \A f \in Files \ {job[w]} : result'[f] = result[f]
      /\ result[job[w]] = "none" /\ job[w] \notin ThirdParty
  BY <1>1, <1>2, <1>5 DEF Inv, ResultsAreReported
<1>8. ResultsAreReported'
  <2>1. \A v \in Workers : worker'[v] \in {"taken", "ready", "running"} => result'[job'[v]] = "none"
    <3> SUFFICES ASSUME NEW v \in Workers, worker'[v] \in {"taken", "ready", "running"}
                 PROVE  result'[job'[v]] = "none"
      OBVIOUS
    <3>1. v # w /\ worker[v] = worker'[v]
      BY <1>2
    <3>2. v \in Held
      BY <3>1 DEF Held
    <3>3. job[v] \in Files /\ job[v] # job[w]
      BY <3>1, <3>2, <1>2 DEF Inv, UnfinishedIsHeld
    <3> QED BY <3>1, <3>3, <1>1, <1>7 DEF Inv, ResultsAreReported
  <2>2. \A v \in Workers : worker'[v] \in {"running", "ended"} => job'[v] \notin ThirdParty
    BY <1>1, <1>2, <1>7 DEF Inv, ResultsAreReported
  <2>3. failed' = {f \in Files : result'[f] = "failed"}
    <3>1. failed = {f \in Files : result[f] = "failed"}
      BY DEF Inv, ResultsAreReported
    <3>2. CASE status = "failed"
      BY <3>1, <3>2, <1>1, <1>2, <1>7
    <3>3. CASE status = "passed"
      BY <3>1, <3>3, <1>1, <1>2, <1>7
    <3> QED BY <3>2, <3>3
  <2>4. /\ \A f \in Files : f < next' /\ f \notin unfinished' => result'[f] # "none"
        /\ \A f \in Files : f >= next' \/ f \in Waiting' => result'[f] = "none"
    <3>1. ~(job[w] >= next)
      BY <1>2, SizesAssumption DEF Inv, TypeOK, Files
    <3> QED BY <3>1, <1>1, <1>2, <1>3, <1>7 DEF Inv, ResultsAreReported
  <2>5. /\ \A f \in Files : result'[f] = "skipped" => f \in ThirdParty
        /\ \A f \in Files : result'[f] \in {"passed", "failed"} => f \notin ThirdParty
    BY <1>7 DEF Inv, ResultsAreReported
  <2>6. \A v \in Workers : worker'[v] = "ended" => result'[job'[v]] # "none"
    <3> SUFFICES ASSUME NEW v \in Workers, worker'[v] = "ended" PROVE result'[job'[v]] # "none"
      OBVIOUS
    <3>1. CASE v = w
      BY <3>1, <1>1, <1>2, <1>7
    <3>2. CASE v # w
      <4>1. worker[v] = "ended" /\ v \in Held
        BY <3>2, <1>2 DEF Held
      <4>2. job[v] \in Files /\ job[v] # job[w]
        BY <4>1, <3>2, <1>2 DEF Inv, UnfinishedIsHeld
      <4> QED BY <4>1, <4>2, <1>1, <1>7 DEF Inv, ResultsAreReported
    <3> QED BY <3>1, <3>2
  <2> QED BY <2>1, <2>2, <2>3, <2>4, <2>5, <2>6 DEF ResultsAreReported
<1>9. FilesAreThere'
  <2>1. tmpdir' => \A f \in Files : result'[f] # "none" => f \in yaml'
    BY <1>1, <1>2, <1>7 DEF Inv, FilesAreThere
  <2>2. tmpdir' => \A v \in Workers : worker'[v] \in {"ready", "running", "ended"} => job'[v] \in yaml'
    BY <1>1, <1>2 DEF Inv, FilesAreThere
  <2> QED BY <2>1, <2>2, <1>1, <1>2 DEF Inv, FilesAreThere, WantsFixes, Joined
<1>10. MainKnows' /\ SuccessMeansPassed'
  BY <1>1, <1>2, MainKnowsIsKept DEF Inv
<1> QED BY <1>4, <1>6, <1>8, <1>9, <1>10 DEF Inv

\* A third-party entry is let go of with a result.
LEMMA SkipPreserves ==
  ASSUME Inv, NEW w \in Workers, Skip(w)
  PROVE  Inv'
<1> USE DEF shared, outside, verdict
<1>1. /\ Works(w, "ready", "idle") /\ worker[w] = "ready" /\ job[w] \in ThirdParty /\ task_done(w)
      /\ result' = [result EXCEPT ![job[w]] = "skipped"]
      /\ UNCHANGED <<queue, job, failed, tmpdir, yaml>>
  BY DEF Skip, Works, verdict
<1>2. /\ UNCHANGED <<args, main, next, code, merged>> /\ main \notin Ended /\ main \notin Joined
      /\ worker' \in [Workers -> {"idle", "taken", "ready", "running", "ended", "dead"}]
      /\ worker'[w] = "idle" /\ \A v \in Workers \ {w} : worker'[v] = worker[v]
      /\ w \in Held /\ job[w] \in Files /\ job[w] \notin Waiting
      /\ job[w] < next /\ \A v \in Held \ {w} : job[v] # job[w]
  BY <1>1, WorkerFrame
<1>3. Held' = Held \ {w} /\ Waiting' = Waiting
  BY <1>1, <1>2 DEF Held, Waiting
<1>4. UnfinishedIsHeld' /\ unfinished' = unfinished \ {job[w]}
  BY <1>1, <1>2, <1>3, TaskDoneKeepsCount
<1>5. result \in [Files -> {"none", "skipped", "passed", "failed"}]
  BY DEF Inv, TypeOK
<1>6. TypeOK'
  BY <1>1, <1>2, <1>4, <1>5 DEF Inv, TypeOK
<1>7. /\ result'[job[w]] = "skipped" /\ \A f \in Files \ {job[w]} : result'[f] = result[f]
      /\ result[job[w]] = "none"
  BY <1>1, <1>2, <1>5 DEF Inv, ResultsAreReported
<1>8. ResultsAreReported'
  <2>1. \A v \in Workers : worker'[v] \in {"taken", "ready", "running"} => result'[job'[v]] = "none"
    <3> SUFFICES ASSUME NEW v \in Workers, worker'[v] \in {"taken", "ready", "running"}
                 PROVE  result'[job'[v]] = "none"
      OBVIOUS
    <3>1. v # w /\ worker[v] = worker'[v]
      BY <1>2
    <3>2. v \in Held
      BY <3>1 DEF Held
    <3>3. job[v] \in Files /\ job[v] # job[w]
      BY <3>1, <3>2, <1>2 DEF Inv, UnfinishedIsHeld
    <3> QED BY <3>1, <3>3, <1>1, <1>7 DEF Inv, ResultsAreReported
  <2>2. \A v \in Workers : worker'[v] \in {"running", "ended"} => job'[v] \notin ThirdParty
    BY <1>1, <1>2 DEF Inv, ResultsAreReported
  <2>3. failed' = {f \in Files : result'[f] = "failed"}
    BY <1>1, <1>2, <1>7 DEF Inv, ResultsAreReported
  <2>4. /\ \A f \in Files : f < next' /\ f \notin unfinished' => result'[f] # "none"
        /\ \A f \in Files : f >= next' \/ f \in Waiting' => result'[f] = "none"
    <3>1. ~(job[w] >= next)
      BY <1>2, SizesAssumption DEF Inv, TypeOK, Files
    <3> QED BY <3>1, <1>2, <1>3, <1>4, <1>7 DEF Inv, ResultsAreReported
  <2>5. /\ \A f \in Files : result'[f] = "skipped" => f \in ThirdParty
        /\ \A f \in Files : result'[f] \in {"passed", "failed"} => f \notin ThirdParty
    BY <1>1, <1>7 DEF Inv, ResultsAreReported
  <2>6. \A v \in Workers : worker'[v] = "ended" => result'[job'[v]] # "none"
    <3> SUFFICES ASSUME NEW v \in Workers, worker'[v] = "ended" PROVE result'[job'[v]] # "none"
      OBVIOUS
    <3>1. CASE v = w
      BY <3>1, <1>1, <1>2, <1>7
    <3>2. CASE v # w
      <4>1. worker[v] = "ended" /\ v \in Held
        BY <3>2, <1>2 DEF Held
      <4>2. job[v] \in Files /\ job[v] # job[w]
        BY <4>1, <3>2, <1>2 DEF Inv, UnfinishedIsHeld
      <4> QED BY <4>1, <4>2, <1>1, <1>7 DEF Inv, ResultsAreReported
    <3> QED BY <3>1, <3>2
  <2> QED BY <2>1, <2>2, <2>3, <2>4, <2>5, <2>6 DEF ResultsAreReported
<1>9. FilesAreThere'
  <2>1. tmpdir' => \A f \in Files : result'[f] # "none" => f \in yaml'
    BY <1>1, <1>2, <1>7 DEF Inv, FilesAreThere
  <2>2. tmpdir' => \A v \in Workers : worker'[v] \in {"ready", "running", "ended"} => job'[v] \in yaml'
    BY <1>1, <1>2 DEF Inv, FilesAreThere
  <2> QED BY <2>1, <2>2, <1>1, <1>2 DEF Inv, FilesAreThere, WantsFixes, Joined
<1>10. MainKnows' /\ SuccessMeansPassed'
  BY <1>1, <1>2, MainKnowsIsKept DEF Inv
<1> QED BY <1>4, <1>6, <1>8, <1>9, <1>10 DEF Inv

\* An entry with a result is let go of.
LEMMA PrintPreserves ==
  ASSUME Inv, NEW w \in Workers, PrintOutput(w)
  PROVE  Inv'
<1> USE DEF shared, outside, verdict
<1>1. /\ Works(w, "ended", "idle") /\ worker[w] = "ended" /\ task_done(w)
      /\ UNCHANGED <<queue, job, failed, tmpdir, yaml, result>>
  BY DEF PrintOutput, Works, verdict
<1>2. /\ UNCHANGED <<args, main, next, code, merged>> /\ main \notin Ended /\ main \notin Joined
      /\ worker' \in [Workers -> {"idle", "taken", "ready", "running", "ended", "dead"}]
      /\ worker'[w] = "idle" /\ \A v \in Workers \ {w} : worker'[v] = worker[v]
      /\ w \in Held /\ job[w] \in Files
  BY <1>1, WorkerFrame
<1>3. Held' = Held \ {w} /\ Waiting' = Waiting
  BY <1>1, <1>2 DEF Held, Waiting
<1>4. UnfinishedIsHeld' /\ unfinished' = unfinished \ {job[w]}
  BY <1>1, <1>2, <1>3, TaskDoneKeepsCount
<1>5. TypeOK'
  BY <1>1, <1>2, <1>4 DEF Inv, TypeOK
<1>6. result[job[w]] # "none"
  BY <1>1 DEF Inv, ResultsAreReported
<1>7. ResultsAreReported'
  <2>1. \A v \in Workers : worker'[v] # "idle" => worker'[v] = worker[v]
    BY <1>2
  <2> QED BY <2>1, <1>1, <1>2, <1>3, <1>4, <1>6 DEF Inv, ResultsAreReported
<1>8. FilesAreThere'
  BY <1>1, <1>2 DEF Inv, FilesAreThere, WantsFixes, Joined
<1>9. MainKnows' /\ SuccessMeansPassed'
  BY <1>1, <1>2, MainKnowsIsKept DEF Inv
<1> QED BY <1>4, <1>5, <1>7, <1>8, <1>9 DEF Inv

(***************************************************************************)
(* The theorems.                                                           *)
(***************************************************************************)
\* At the start nothing has been put.
LEMMA InitInv == Init => Inv
<1> SUFFICES ASSUME Init PROVE Inv
  OBVIOUS
<1> USE SizesAssumption
<1>1. TypeOK
  <2>1. next \in 1..(Entries + 1)
    BY DEF Init
  <2>2. queue \in Seq(Files) /\ worker \in [Workers -> {"idle", "taken", "ready", "running", "ended", "dead"}]
    BY DEF Init
  <2>3. job \in [Workers -> Files \cup {0}] /\ result \in [Files -> {"none", "skipped", "passed", "failed"}]
    BY DEF Init
  <2> QED BY <2>1, <2>2, <2>3 DEF Init, TypeOK
<1>2. Held = {} /\ Waiting = {}
  BY DEF Init, Held, Waiting
<1>3. UnfinishedIsHeld
  BY <1>2 DEF Init, UnfinishedIsHeld
<1>4. ResultsAreReported
  BY <1>2 DEF Init, ResultsAreReported, Files
<1>5. FilesAreThere /\ MainKnows /\ SuccessMeansPassed
  BY DEF Init, FilesAreThere, MainKnows, SuccessMeansPassed, Joined
<1> QED BY <1>1, <1>3, <1>4, <1>5 DEF Inv

\* Every step keeps the invariant.
LEMMA NextPreserves == Inv /\ [Next]_vars => Inv'
<1> SUFFICES ASSUME Inv, [Next]_vars PROVE Inv'
  OBVIOUS
<1>1. CASE MainStep
  BY <1>1, StartPreserves, PutPreserves, EndPreserves, CleanUpPreserves, InterruptPreserves DEF MainStep
<1>2. CASE Interrupt \/ InterruptLate
  BY <1>2, InterruptPreserves
<1>3. ASSUME NEW w \in Workers, WorkerStep(w) PROVE Inv'
  BY <1>3, GetPreserves, OnTheWayPreserves, CommunicatePreserves, SkipPreserves, PrintPreserves
  DEF WorkerStep
<1>4. CASE UNCHANGED vars
  <2>1. UNCHANGED <<args, main, next, queue, unfinished, worker, job, failed, tmpdir, yaml, code, merged, result>>
    BY <1>4 DEF vars, shared, outside, verdict
  <2>2. UnfinishedIsHeld' /\ ResultsAreReported'
    BY <2>1, WorkIsKept DEF Inv
  <2>3. TypeOK' /\ FilesAreThere' /\ MainKnows' /\ SuccessMeansPassed'
    BY <2>1 DEF Inv, TypeOK, FilesAreThere, MainKnows, SuccessMeansPassed, WantsFixes
  <2> QED BY <2>2, <2>3 DEF Inv
<1> QED BY <1>1, <1>2, <1>3, <1>4 DEF Next, TryAgain

\* The invariant holds in every state, whatever the database, the number of
\* workers, the failures of clang-tidy, the deaths of threads and the Ctrl-Cs.
THEOREM Invariance == SafeSpec => []Inv
<1>1. Init => Inv
  BY InitInv
<1>2. Inv /\ [Next]_vars => Inv'
  BY NextPreserves
<1> QED BY <1>1, <1>2, PTL DEF SafeSpec

\* What main exports and applies past task_queue.join() is complete.
THEOREM JoinedFilesAreChecked == SafeSpec => []JoinedIsChecked
<1>1. Inv => JoinedIsChecked
  BY JoinedFacts DEF JoinedIsChecked
<1> QED BY <1>1, Invariance, PTL

\* Success is reported only if clang-tidy passed every entry it was to check, and the
\* file of -export-fixes was written if it was asked for.
THEOREM SuccessIsEarned == SafeSpec => []SuccessMeansPassed
<1>1. Inv => SuccessMeansPassed
  BY DEF Inv
<1> QED BY <1>1, Invariance, PTL
=============================================================================
