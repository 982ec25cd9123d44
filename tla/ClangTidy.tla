----------------------------- MODULE ClangTidy -----------------------------
(***************************************************************************)
(* run_clang_tidy.py: the main thread puts the entries of the compilation  *)
(* database into a bounded queue, the workers run clang-tidy on them, and  *)
(* when the queue is done the main thread exports or applies the fixes and *)
(* ends with a verdict.  An entry is its position in the database.         *)
(*                                                                         *)
(* The queue's count of unfinished tasks is the set of the entries that    *)
(* have been put and for which task_done has not been called.              *)
(* `result' is what has become of each entry, and `merged' what has become *)
(* of the file of -export-fixes; the program reads neither.                *)
(***************************************************************************)
EXTENDS Integers, Sequences

CONSTANTS
  Entries,      \* how many entries the compilation database has
  MaxTask,      \* max_task: the number of workers and the size of the queue
  ThirdParty    \* the entries that match CheckConfig.ignore_pats

ASSUME SizesAssumption == Entries \in Nat /\ MaxTask \in Nat \ {0}
ASSUME ThirdPartyAssumption == ThirdParty \subseteq 1..Entries

Files   == 1..Entries
Workers == 1..MaxTask

VARIABLES
  args,         \* -export-fixes and -fix, and the entries the regexps match
  main,         \* where the main thread is
  next,         \* the entry that is to be put into the queue
  queue,        \* task_queue
  unfinished,   \* task_queue.unfinished_tasks
  worker,       \* where each worker is
  job,          \* name, in each worker
  failed,       \* failed_files
  tmpdir,       \* does the directory tmpdir exist
  yaml,         \* the entries that have a file in tmpdir
  code,         \* return_code
  merged,       \* what has become of the file of -export-fixes
  result        \* what has become of each entry

shared == <<queue, unfinished>>
outside == <<failed, tmpdir, yaml, result>>
verdict == <<code, merged>>
vars == <<args, main, next, shared, worker, job, outside, verdict>>

Ended == {"exit", "killed", "crashed"}

TypeOK ==
  /\ args \in [export : BOOLEAN, fix : BOOLEAN, matching : SUBSET Files]
  /\ main \in {"start", "prepare", "fill", "join", "handler", "export", "fix", "clean"} \cup Ended
  /\ next \in 1..(Entries + 1)
  /\ queue \in Seq(Files)
  /\ unfinished \subseteq Files
  /\ worker \in [Workers -> {"idle", "taken", "ready", "running", "ended", "dead"}]
  /\ job \in [Workers -> Files \cup {0}]
  /\ failed \subseteq Files
  /\ tmpdir \in BOOLEAN
  /\ yaml \subseteq Files
  /\ code \in {0, 1}
  /\ merged \in {"none", "written", "refused", "NameError"}
  /\ result \in [Files -> {"none", "skipped", "passed", "failed"}]

Init ==
  /\ args \in [export : BOOLEAN, fix : BOOLEAN, matching : SUBSET Files]
  /\ main = "start"
  /\ next = 1
  /\ queue = <<>> /\ unfinished = {}
  /\ worker = [w \in Workers |-> "idle"] /\ job = [w \in Workers |-> 0]
  /\ failed = {} /\ tmpdir = FALSE /\ yaml = {}
  /\ code = 0 /\ merged = "none"
  /\ result = [f \in Files |-> "none"]

WantsFixes == args.export \/ args.fix

(***************************************************************************)
(* The main thread.                                                        *)
(***************************************************************************)
Main(from, to) == main = from /\ main' = to

\* No database up to the root, or clang-tidy -list-checks does not run.
NoDatabase ==
  /\ Main("start", "exit") /\ code' = 1
  /\ UNCHANGED <<args, next, shared, worker, job, outside, merged>>

FindDatabase ==
  /\ Main("start", "prepare")
  /\ UNCHANGED <<args, next, shared, worker, job, outside, verdict>>

\* check_clang_apply_replacements_binary ends the program before mkdtemp.
NoReplacements ==
  /\ WantsFixes
  /\ Main("prepare", "exit") /\ code' = 1
  /\ UNCHANGED <<args, next, shared, worker, job, outside, merged>>

Prepare ==
  /\ Main("prepare", "fill")
  /\ tmpdir' = WantsFixes
  /\ UNCHANGED <<args, next, shared, worker, job, failed, yaml, verdict, result>>

Put ==
  /\ main = "fill" /\ next \in args.matching
  /\ Len(queue) < MaxTask
  /\ queue' = Append(queue, next)
  /\ unfinished' = unfinished \cup {next}
  /\ next' = next + 1
  /\ UNCHANGED <<args, main, worker, job, outside, verdict>>

\* put_file stays False: after queue.Full, and when the name does not match.
TryAgain ==
  /\ main = "fill" /\ next <= Entries
  /\ next \in args.matching => Len(queue) = MaxTask
  /\ UNCHANGED vars

Filled ==
  /\ Main("fill", "join") /\ next = Entries + 1
  /\ UNCHANGED <<args, next, shared, worker, job, outside, verdict>>

\* Mutant: the queue is taken for done as soon as it is empty.
QueueIsEmpty == queue = <<>>

QueueIsDone == unfinished = {}

Join ==
  /\ Main("join", "export") /\ QueueIsDone
  /\ code' = IF failed = {} THEN 0 ELSE 1
  /\ UNCHANGED <<args, next, shared, worker, job, outside, merged>>

\* merge_replacement_files: the module yaml is not imported (line 49), so
\* that the first file found in tmpdir raises NameError; without one, the
\* merge file is emptied, which may raise too.  What is raised is caught.
Merge(file, verdictOf) == merged' = file /\ code' = verdictOf

ExportFixes ==
  /\ Main("export", "fix")
  /\ \/ ~args.export /\ UNCHANGED verdict
     \/ args.export /\ yaml # {} /\ Merge("NameError", 1)
     \/ args.export /\ yaml = {} /\ Merge("refused", 1)
     \/ args.export /\ yaml = {} /\ Merge("written", code)
  /\ UNCHANGED <<args, next, shared, worker, job, outside>>

\* apply_fixes: a program that cannot be started raises, one that fails
\* does not.
\* Mutant: the status of clang-apply-replacements becomes the verdict.
ApplyGivesVerdict ==
  /\ Main("fix", "clean")
  /\ code' \in IF args.fix THEN {0, 1} ELSE {code}
  /\ UNCHANGED <<args, next, shared, worker, job, outside, merged>>

ApplyFixes ==
  /\ Main("fix", "clean")
  /\ code' \in IF args.fix THEN {code, 1} ELSE {code}
  /\ UNCHANGED <<args, next, shared, worker, job, outside, merged>>

CleanUp ==
  /\ Main("clean", "exit")
  /\ tmpdir' = FALSE /\ yaml' = {}
  /\ UNCHANGED <<args, next, shared, worker, job, failed, verdict, result>>

(***************************************************************************)
(* Ctrl-C.  While the queue is filled and joined it is handled: the        *)
(* directory is removed and the process group killed.  Removal fails if a  *)
(* worker in mkstemp or a clang-tidy that still runs puts a file into it.  *)
(* The export and the fix catch everything; after them nothing does.       *)
(***************************************************************************)
Interrupt ==
  /\ main \in {"fill", "join"} /\ main' = "handler"
  /\ UNCHANGED <<args, next, shared, worker, job, outside, verdict>>

HandlerRemoves ==
  /\ main = "handler" /\ tmpdir
  /\ tmpdir' = FALSE /\ yaml' = {}
  /\ UNCHANGED <<args, main, next, shared, worker, job, failed, verdict, result>>

HandlerFails ==
  /\ Main("handler", "crashed") /\ tmpdir
  /\ \E w \in Workers : worker[w] \in {"taken", "running"}
  /\ UNCHANGED <<args, next, shared, worker, job, outside, verdict>>

HandlerKills ==
  /\ Main("handler", "killed") /\ ~tmpdir
  /\ UNCHANGED <<args, next, shared, worker, job, outside, verdict>>

InterruptLate ==
  /\ Main("clean", "crashed")
  /\ UNCHANGED <<args, next, shared, worker, job, outside, verdict>>

(***************************************************************************)
(* A worker.  An exception ends its thread without task_done.              *)
(***************************************************************************)
Works(w, from, to) ==
  /\ main \notin Ended /\ worker[w] = from
  /\ worker' = [worker EXCEPT ![w] = to]
  /\ UNCHANGED <<args, main, next, verdict>>

task_done(w) == unfinished' = unfinished \ {job[w]}

\* Mutant: the head of the queue is looked at and left there.
GetWithoutRemoval(w) ==
  /\ Works(w, "idle", "taken")
  /\ queue # <<>>
  /\ job' = [job EXCEPT ![w] = Head(queue)]
  /\ UNCHANGED <<shared, outside>>

Get(w) ==
  /\ Works(w, "idle", "taken")
  /\ queue # <<>>
  /\ job' = [job EXCEPT ![w] = Head(queue)]
  /\ queue' = Tail(queue)
  /\ UNCHANGED <<unfinished, outside>>

get_tidy_invocation(w) ==
  /\ Works(w, "taken", "ready")
  /\ WantsFixes => tmpdir
  /\ yaml' = IF WantsFixes THEN yaml \cup {job[w]} ELSE yaml
  /\ UNCHANGED <<shared, job, failed, tmpdir, result>>

\* mkstemp: tmpdir has been removed by the handler of Ctrl-C.
NoTemporaryFile(w) ==
  /\ Works(w, "taken", "dead")
  /\ WantsFixes /\ ~tmpdir
  /\ UNCHANGED <<shared, job, outside>>

\* Mutant: a skipped entry is not reported with task_done.
SkipWithoutTaskDone(w) ==
  /\ Works(w, "ready", "idle")
  /\ job[w] \in ThirdParty
  /\ result' = [result EXCEPT ![job[w]] = "skipped"]
  /\ UNCHANGED <<shared, job, failed, tmpdir, yaml>>

Skip(w) ==
  /\ Works(w, "ready", "idle")
  /\ job[w] \in ThirdParty
  /\ task_done(w)
  /\ result' = [result EXCEPT ![job[w]] = "skipped"]
  /\ UNCHANGED <<queue, job, failed, tmpdir, yaml>>

Popen(w) ==
  /\ job[w] \notin ThirdParty
  /\ Works(w, "ready", "running") \/ Works(w, "ready", "dead")
  /\ UNCHANGED <<shared, job, outside>>

\* communicate returns; a non-zero status goes to failed_files.
Communicate(w, status) ==
  /\ Works(w, "running", "ended")
  /\ failed' = IF status = "failed" THEN failed \cup {job[w]} ELSE failed
  /\ result' = [result EXCEPT ![job[w]] = status]
  /\ UNCHANGED <<shared, job, tmpdir, yaml>>

PrintOutput(w) ==
  /\ Works(w, "ended", "idle")
  /\ task_done(w)
  /\ UNCHANGED <<queue, job, outside>>

\* What clang-tidy wrote is not UTF-8.
DecodeFails(w) ==
  /\ Works(w, "ended", "dead")
  /\ UNCHANGED <<shared, job, outside>>

WorkerStep(w) ==
  \/ Get(w) \/ get_tidy_invocation(w) \/ NoTemporaryFile(w) \/ Skip(w) \/ Popen(w)
  \/ Communicate(w, "passed") \/ Communicate(w, "failed") \/ PrintOutput(w) \/ DecodeFails(w)

MainStep ==
  \/ NoDatabase \/ FindDatabase \/ NoReplacements \/ Prepare
  \/ Put \/ Filled \/ Join \/ ExportFixes \/ ApplyFixes \/ CleanUp
  \/ HandlerRemoves \/ HandlerFails \/ HandlerKills

Next ==
  \/ MainStep \/ TryAgain \/ Interrupt \/ InterruptLate
  \/ \E w \in Workers : WorkerStep(w)

\* The threads are scheduled, and clang-tidy ends.  Nobody presses Ctrl-C.
Fairness == WF_vars(MainStep) /\ \A w \in Workers : WF_vars(WorkerStep(w))

SafeSpec == Init /\ [][Next]_vars
Spec == SafeSpec /\ Fairness

(***************************************************************************)
(* Properties.                                                             *)
(***************************************************************************)
Held    == {w \in Workers : worker[w] # "idle"}
Waiting == {queue[i] : i \in DOMAIN queue}
Joined  == {"export", "fix", "clean"}

\* The queue's count is right: what is unfinished waits in the queue or is
\* in the hands of one worker, dead workers included, and never of two
\* (queue.get, task_done).
UnfinishedIsHeld ==
  /\ unfinished = Waiting \cup {job[w] : w \in Held}
  /\ \A v, w \in Held : v # w => job[v] # job[w]
  /\ \A i, j \in DOMAIN queue : i # j => queue[i] # queue[j]
  /\ \A w \in Held : job[w] \in Files \ Waiting
  /\ \A f \in unfinished : f < next

\* An entry has a result once clang-tidy is through with it, and keeps it;
\* a put entry that is not unfinished has one, and failed_files lists the
\* failed ones.
ResultsAreReported ==
  /\ \A f \in Files : f < next /\ f \notin unfinished => result[f] # "none"
  /\ \A f \in Files : f >= next \/ f \in Waiting => result[f] = "none"
  /\ \A w \in Workers : worker[w] \in {"taken", "ready", "running"} => result[job[w]] = "none"
  /\ \A w \in Workers : worker[w] = "ended" => result[job[w]] # "none"
  /\ failed = {f \in Files : result[f] = "failed"}
  /\ \A f \in Files : result[f] = "skipped" => f \in ThirdParty
  /\ \A f \in Files : result[f] \in {"passed", "failed"} => f \notin ThirdParty
  /\ \A w \in Workers : worker[w] \in {"running", "ended"} => job[w] \notin ThirdParty

\* While it exists, the temporary directory has a file for every entry that
\* a worker has got past mkstemp.
FilesAreThere ==
  /\ main \in {"fill", "join"} \cup Joined => tmpdir = WantsFixes
  /\ main \in {"start", "prepare", "exit", "killed"} => ~tmpdir
  /\ tmpdir => WantsFixes
  /\ tmpdir => \A f \in Files : result[f] # "none" => f \in yaml
  /\ tmpdir => \A w \in Workers : worker[w] \in {"ready", "running", "ended"} => job[w] \in yaml

\* What the main thread knows at each place.
MainKnows ==
  /\ main \in {"start", "prepare"} => next = 1 /\ yaml = {}
  /\ main \in {"join"} \cup Joined => next = Entries + 1
  /\ main \in Joined => unfinished = {}
  /\ main \in Joined /\ code = 0 => failed = {}
  /\ main \in {"fix", "clean"} /\ code = 0 /\ args.export => merged = "written"

\* Past task_queue.join() every entry of the database has been checked or
\* skipped, no worker is at work, and every entry has left its file in
\* tmpdir: what is exported and applied is complete.
JoinedIsChecked ==
  main \in Joined =>
    /\ \A f \in Files : result[f] \in IF f \in ThirdParty THEN {"skipped"}
                                      ELSE {"passed", "failed"}
    /\ Held = {}
    /\ WantsFixes => tmpdir /\ yaml = Files

\* The program reports success only if clang-tidy passed every entry that
\* is not third-party code, whichever worker failed and whenever it did, and
\* the file of -export-fixes, if it was asked for, has been written.  (Without
\* the module yaml that is so for an empty database only: every other export
\* ends with the status 1.)
SuccessMeansPassed ==
  main = "exit" /\ code = 0 =>
    /\ \A f \in Files : result[f] = IF f \in ThirdParty THEN "skipped" ELSE "passed"
    /\ args.export => merged = "written"

\* The invariant that the properties above follow from.
Inv == TypeOK /\ UnfinishedIsHeld /\ ResultsAreReported /\ FilesAreThere /\ MainKnows
       /\ SuccessMeansPassed

\* If every entry matches, the program ends, unless a worker has died, for
\* whose task join would wait for ever (or the put, once all have died).
Finishes ==
  <>(main \in Ended \/ args.matching # Files \/ \E w \in Workers : worker[w] = "dead")
=============================================================================
