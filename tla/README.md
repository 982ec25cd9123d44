# A TLA+ verification of netproject-c

The repository is a small network library in C, a reactor in the style of
muduo: non-blocking sockets, one event loop per thread, callbacks on
connections (`utils/`, `include/`), with an HTTP server and two echo servers on
top of it (`Http/`, `Concurrent/`). Its build support is written in Python: a
linter for C++ (`cpplint.py`) and a driver that runs clang-tidy on all files of a
build (`run_clang_tidy.py`). This directory holds models of both halves in TLA+,
the TLC configurations that check them on small instances, and proofs that TLAPS
checks for every instance.

The repository has no tests; what it says of itself is in the comments of the
headers, in a few comments in the code, in its asserts, and in the usage texts of
the Python programs. Paths below are
relative to `src/`.

## 1. Inventory

| Component | State it keeps | Operations | Model |
|---|---|---|---|
| event loop, epoll dispatcher (`utils/event_loop.c`, `event_dispatcher.c`) | pending list, its mutex, `is_handle_pending`; the channel table; the socket pair; what epoll watches; the events of the last `epoll_wait` | add / remove / update a channel from any thread, wake up, handle pending requests, wait, dispatch, activate | `EventLoop` |
| channel, channel table (`channel.c`, `channel_map.c`) | a descriptor's event mask, callbacks, `data`; the array indexed by descriptor | enable / disable write events, grow | in `EventLoop` (not: growth, `data`) |
| worker threads, pool (`event_loop_thread.c`, `thread_pool.c`) | `eventLoop` pointer, mutex, condition variable; `started`, `position` | start a worker and wait for its loop; pick a loop | `ThreadPool` |
| inactivity timers (`timer.c`) | circular doubly linked list of expiry times | add, delete, reset, tick | `TimerRing` |
| byte buffer (`buffer.c`) | block, `readIndex`, `writeIndex`, `total_size`; a mapped file | append, append a char, read from a socket, read, find a line end | `Buffer`; the mapped file in `HttpExchange` |
| TCP connection (`tcp_connection.c`) | channel, two buffers, timer, HTTP request and response; memory that is freed on close | handle_read, handle_write, send_data, close | partly, as the caller in the modules above |
| acceptor, server, signals (`tcp_utils.c`, `acceptor.c`) | `sig_pipe`, `timeout`, `quit`, the alarm | accept, signal handler, handle_signal | accept and timeouts, in `EventLoop` and `TimerRing` |
| HTTP (`http_request.c`, `http_response.c`, `http_server.c`, `Http/httpServer.c`) | parse status, headers, file to send, its offset, write events | parse, answer, encode, write, free the file, shut down | `HttpExchange` |
| logging (`log.c`) | none | output | not modelled |
| `IO/`, `NonBlock/`, `TCP/`, `UDP/` | stand-alone teaching programs; they do not use the library | | not modelled |
| clang-tidy driver (`build_support/run_clang_tidy.py`) | bounded task queue with its count of unfinished tasks, `failed_files`, the temporary directory, the return code | fill, join, check a file, export and apply fixes, Ctrl-C | `ClangTidy` |
| cpplint: session (`build_support/cpplint.py`) | module-wide settings, filters and their backup, suppressions, counts | arguments, CPPLINT.cfg, lint a file line by line, report, exit status | `Lint` |
| cpplint: text (`CleansedLines`, `CloseExpression`) | the lines without raw strings, comments and strings | cleanse, match brackets forwards and backwards | `CppText` |
| cpplint: blocks and includes (`NestingState`, `_IncludeState`) | stack of blocks, preprocessor checkpoints; include sections and paths | update by a line, classify and order an include, checks at the end of a block | `LintNesting`, `LintIncludes` |
| clang-format script (`build_support/run_clang_format.py`) | `had_err` | format or compare every file, one after the other | not modelled |

**How they interact.** The main thread owns the main loop. It starts the
workers (`thread_pool_start`), each of which makes a loop of its own, publishes
it under a mutex and then runs it. The listening socket is a channel of the main
loop; its callback accepts a connection, picks a loop in turn
(`thread_pool_get_loop`), makes the connection with its channel, *posts* a
request to add the channel to that loop, and then adds a timer for the
connection to the main loop's list. A loop's pending list is the only state two
loops are meant to share: it is protected by the loop's mutex, and a byte in
the loop's socket pair wakes the owner, which otherwise sleeps in `epoll_wait`
without a timeout. Callbacks run in the owner's thread and post requests
themselves (switching write events, closing). Data that arrives moves the
connection's timer; every SIGALRM makes the main loop sweep the timers, which
closes connections, whatever thread they belong to.

The Python programs do not touch the library. The threads of the clang-tidy
driver share a `queue.Queue`, the list `failed_files` and a temporary directory
that the main thread makes and removes. cpplint is sequential, but most of its
state is module-wide and outlives a file: what one file leaves behind is there
when the next one is read.

**What is hard here.** The hand-over of requests between threads (lost
wake-ups, requests handled twice or never, the list changed while it is
walked); one `epoll_wait` snapshot against a table that callbacks change;
descriptors that are closed and given out again while something still refers to
them; the two-thread start with a condition variable; a linked list without a
mutex that two threads use; the order of timers that depends on the wall clock;
who frees a connection and who still points to it; partial reads and writes;
index arithmetic in a block that moves and grows. In the driver: an exception that
ends a worker's thread between `get` and `task_done`, Ctrl-C at any moment, and
verdicts that come from several threads and three phases. In cpplint: filters and
settings that must be those of the file being read, a scanner that is not a lexer
but is trusted like one, and a stack that has to follow both braces and
conditionals.

**What makes each component correct.** *Event loop*: every request takes effect
once and in order, the owner never sleeps on a request, epoll watches exactly
descriptors with a channel to go to, and with the channel's own mask. *Pool*:
the start comes to an end, a loop is complete when another thread sees it, and
the turn is fair. *Timers*: an idle connection is closed, an active one is not,
the ring stays a ring and in order. *Buffer*: bytes come out once each, unchanged
and in order. *HTTP*: each request gets its answer, the bytes on the wire are the
answers, a file is unmapped when it has been sent. *clang-tidy driver*: success
means that every file was checked and passed, what is exported is complete, and
the program ends. *cpplint*: what is wrong on a
line is reported exactly if the filters, the verbosity and the comments of the
file itself let it through; text, brackets, blocks, includes and functions are
what a reader of C++ takes them for.

## 2. Modules

Every module names, in its first comment, the files it models. `PROJECT.json`
maps each definition to its lines.

### EventLoop (and ChannelRegistry)

One loop: its owner, and `Producers`, the other threads that post to it. A step
is what a thread does between two points where another thread can see it: take
the mutex, append, release it, write the wake-up byte; for the owner also: wait,
activate one event, handle one request of the list, release the list. `pc` is a
thread's place in the code, `arg` the request it is about to post. `pending` and
`cursor` are the list and `channelElement` of
`event_loop_handle_pending_channel`; the list is only emptied at the end, as in
the code. `interest` is the mask epoll holds, `events` the channel's own:
between the two lies a request. `batch` is the array `epoll_wait` returned; its
events are dispatched in any order, readable before writable for one descriptor,
against the table as it is *then*. `openFds` gives `accept` the lowest free
number, so descriptors are reused.

The process ends where the code ends it: a null dereference in
`channel_event_activate` or `epoll_del`, or `error(1, ...)` after `epoll_ctl`.
What a peer sends, when a timer expires, whether a signal interrupts
`epoll_wait`, and what a callback decides is left open.

Left out: `quit`, the growth of the table (a slot exists when it is used,
because the add of a descriptor comes first), allocation failures, the contents
of callbacks other than the requests they post.

`ChannelRegistry` says what a loop promises the threads that use it: a FIFO of
requests, each applied once, the table changing in no other way. `EventLoop`
implements it, with the part of the list behind `cursor` as the queue:
`StepsAreRegistrySteps` is its safety part (`ChannelRegistry!SafeSpec`: every step
of the loop posts, applies the next request, aborts, or is invisible), and
`RequestsAreApplied` holds its liveness part, `RequestsTakeEffect`.

### ThreadPool

The main thread and `NThread` workers, at the level of the mutex and the
condition variable: `pthread_cond_wait` releases and waits in one step, may
return without a signal, and takes the mutex again before it returns. The
worker makes its loop, stores the pointer, signals, releases. The loop itself
is `EventLoop`. Then `thread_pool_get_loop` is called any number of times
(bounded by `MaxPicks`).

### TimerRing (and IdleTimeouts)

The list on its real pointers: `next` and `prev` are functions over the timers
and the head, unset until a timer is linked. One step is one helper (`insert`,
`remove`) or one turn of a loop, by the thread that executes it: the main thread
in `add_timer` and `tick`, the `Owner` of the connections in `reset_timer`.
`Owner = Main` is a server with `nthread = 0` (the HTTP server and the
single-threaded echo server): the callbacks then never overlap. `Owner # Main`
is the multi-threaded echo server. A connection that its peer has closed keeps
its timer, since `del_timer` never finds anything. `list->size` is left out:
nothing reads it. A read before `add_timer` has linked the timer is excluded
(`IsOpen`).

`IdleTimeouts` says what the list promises: deadlines, moved by activity, and
sweeps that close all connections that were due at their start and no other. Its
safety part is the property `StepsAreTimeoutSteps` of `TimerRing`, its liveness
part (`SweepsGoOn`, and that idle connections are closed) `IdleIsClosed`.

### Buffer (and ByteQueue)

The block byte by byte, with the stale bytes behind the write index that the
code leaves there. The three ways of `make_room` are three actions, shared by
`buffer_append` and by the second half of `buffer_socket_read`; `realloc` finds
arbitrary bytes. `call` records the bytes the last call passed in or out, so
that `ByteQueue`, the abstract queue, can relate them. `buffer_append_char` on
a full block writes behind it; nothing is promised after that, and the model
stops (`failure`). The search for a line end is part of `HttpExchange`.

### HttpExchange

One connection of the HTTP server, from what a client sends to what the socket
has taken. The HTTP server starts no workers, so a callback is one step: a read
event runs `handle_read`, `http_onMessage`, the parser, the request handler and
the encoder (`ReadPart`, `ReadRequest`, `ReadHeader` and `ReadFails` are its
outcomes), a write event runs `http_handle_write` (`WritePart`, `WriteRest`,
`WriteFails`, `WriteToShut`). A request is a record; on the stream it is a
sequence of units, one for the text of a line and one for a line end, and TCP may
cut it between any two. `input` is what lies between the indices of the input
buffer, `skip` says that `readIndex` is two bytes ahead of `writeIndex`, which
`http_request_parse` brings about when the empty line has not arrived. `output`,
`file`, `offset` and `mapped` are the output buffer with its mapped file; a file
that is replaced before it was sent is one that nobody unmaps. `wire` is what
`writev` has taken, any number of units at a time. `promised` and `orderly` are
history: all answers in full, and whether the exchange was orderly so far: the
client waited for each answer before it sent the next request, every request had
a header, and each was read as a whole. Most of what is promised needs such an
exchange; what a request in two pieces does to it is in section 4.

The process ends where the code ends it: a length or an address that is none in
`parse_start_line`, `strncmp` of a NULL in `http_request_close_connection`,
SIGPIPE after `shutdown`. The comparison of header keys is modelled as it is
written: it returns the value of the first header with *another* key.

Left out: the wording of an answer, cuts inside a line, starting lines without two
spaces, arrays that are too small, missing or empty files, EAGAIN (the write event
has just reported room), the end of the connection, and line ends behind the
write index, which the input holds only after it has wrapped to the front of its
block. A first read without a line end leaves `method` as `malloc` returned it,
which is taken to be different from GET.

### ClangTidy

The main thread and `MaxTask` workers of `run_clang_tidy.py`. A worker's step ends
where another thread can see what it did: at `queue.get`, `mkstemp`, `task_done`,
the append to `failed_files`, the start and the end of clang-tidy. `unfinished` is
the queue's count as the set of entries that are counted, so that it can be said
*whose* they are. `tmpdir` and `yaml` are the temporary directory and the files
that `mkstemp` made in it. Ctrl-C arrives anywhere between the first put and the
end; while the queue is filled or joined its handler removes the directory and
kills the process group. Removing can fail when a worker that still runs puts a
file back; the program then ends with that exception, and the directory stays; behind the export and the fix nothing handles it. Whether the database
is found, clang-tidy starts, passes or prints something that is no UTF-8, and
whether the system lets the file of an export be written, is left open.
`result` is history: what has become of an entry; so is `merged`: what has become
of the file of `-export-fixes` (written, refused by the system, or never reached
because of a NameError).

A worker that has died keeps its task, as its thread never calls `task_done`.
`TryAgain` is the turn of the loop that puts a file and finds the queue full, or
finds a name that no regular expression matches: nothing moves on in either case.
An export that finds a file of suggestions ends in a NameError, since `yaml` is
never imported (line 49): see section 4. The status of clang-apply-replacements is not looked at, and no property says that it should.

### CppText, LintNesting, LintIncludes, Lint and LintProperties

A line is a sequence of tokens: brackets, quotes, starts and ends of comments,
keywords, directives, and one word for all others. White space is left out; which
lines are indented, or end in a carriage return, is part of a file. A category is
the sequence of its parts, so that a filter's comparison of prefixes stays one.

`CppText` has `CleanseRawStrings`, `RemoveMultiLineComments`, `CleanseComments`,
the collapsing of strings with the separators between the digits of a number, and
the search for the end and the start of an
expression with its stack of brackets. `LintNesting` has `NestingState.Update`
with the checkpoints of `#if`, the class and namespace blocks, and the checks at
their end. `LintIncludes` has the classification of a header, the sections, the
order, duplicates, and what a directive resets.

`Lint` is the run: `job` is what the program finds (arguments, files, the
CPPLINT.cfg of every directory). One step reads one configuration file, or one
line. The module-wide variables are variables of the model; they are reset only
where the code resets them. The marker lines which the code puts in front of and
behind a file are left out, so line numbers start at one.

`LintProperties` states what the run is to keep against definitions of another
shape: a lexer of C++, a count of open braces, the branches of conditionals, the
directories above a file, the NOLINT comments of a line. Where a property is about
the agreement of two parts of the program, it uses the program's operators: the two
bracket searches are held against each other, and the blocks of a file with
conditionals against those the program reads from the file without its `#else`
branches. What a directive, an include or the head of a function looks like is taken
from the program as well.

A file whose code has the word `asm` is left out of the properties about what a file
gets reported (`IsCalm`): the program checks nothing inside of assembly.

A path without `--recursive` is that of a file: a directory given there is opened
like one, under its name in the directory above, and cannot be read.

The program's loops are recursive functions: `Loop(step, n, x)` applies `step` to `x`
for each of `1..n`, where `n` bounds what a `while` of the code can do. No module declares a `RECURSIVE`
operator, so that proofs can be made about all of them.

Left out: most checks of a single line, for which `Offences` stands (tokens with a
category and a confidence); header guards, missing includes, bad characters, the
newline at the end of a file; indentation and access levels of classes and the
DISALLOW macros; escapes in strings; the formats of the output, `--quiet`,
`--root`, `--repository` and standard input.

### Proof modules

`EventLoopProofs`, `ThreadPoolProofs`, `TimerRingProofs`, `BufferProofs`,
`HttpExchangeProofs`, `ClangTidyProofs` and `LintProofs` (for `Lint` and
`LintProperties`) each extend the module they are about. `LintLemmas`, which `LintProofs`
extends, holds what is proved of the operators of the cpplint model: the reading of a
text, the blocks, the braces, what the checks report (section 5).

## 3. Runs

| Run | Instance | What it checks |
|---|---|---|
| `loop_safety` | 1 producer, 2 channels, 2 descriptors, pipe of 1 byte | the assert on `is_handle_pending`; no lost wake-up; what epoll watches has a channel, and its write interest is the channel's own or a request is on its way (`InterestFollowsTable`); every step is one of `ChannelRegistry`; the inductive invariant |
| `loop_live` | the same with 1 descriptor | every request is applied or the process ends, and the queue of `ChannelRegistry` moves on |
| `loop_activate` | as `loop_safety` | **violated**: the assert of `channel_event_activate` |
| `pool` | 4 workers, at most 5 connections each | loops are ready when used; round robin is balanced; the start ends; the inductive invariant |
| `timer_single` | 3 timers, time-out 2, time 0..4, one thread | one ring that holds every waiting timer; its order; every step is one of `IdleTimeouts` (a sweep closes what is due and no other); idle connections are closed; the inductive invariant |
| `timer_threads` | 3 timers, a worker owns the connections | **violated**: the ring |
| `buffer_queue` | 3 bytes (NUL and two others), block 2, at most 5 | the inductive invariant; the buffer implements `ByteQueue` |
| `http` | 2 requests out of 6, heads of 2 units, files of 3 and 1 | in an orderly exchange (the client waits for its answers, every request has a header and is read as a whole): answers match, wire is the answers, files unmapped; always: heads whole and in order, write events on exactly as long as needed; every answer is written; the inductive invariant |
| `http_close` | the same | **violated**: the answer comes before the end of the connection |
| `tidy` | 4 entries, 2 workers, queue of 2, the second entry third-party code | past the join all is checked; success means passed, and exported if asked for; the program ends, if every name matches and no worker dies; the inductive invariant |
| `lint` | all jobs of nine families (below) | filters are those of the file; the inductive invariant behind that; offences are reported exactly when nothing silences them; the status tells; text, brackets, blocks and conditionals against independent definitions; what is reported of duplicates, the order of includes and long functions is, where no name is given twice and no assembly stands in the file, exactly what is due, that of long functions with the confidence that goes with the length |
| `lint_config` | the jobs about configuration | **violated**: the nearest CPPLINT.cfg sets the length of lines |

**Why the bounds are enough to be interesting.** *Loop*: two connections with
one descriptor make `accept` fail or return a number that is still in the table;
with two, requests for different descriptors interleave in one list, and an
event of one can follow a callback of the other. A pipe of one byte makes the
main thread block in `write`. *Pool*: the first, the last and inner workers
differ, and the turn wraps twice. *Timers*: three timers are a first, a last and
one between, which is what insertion, removal and moving distinguish; the clock
covers two time-outs, so timers expire alone, together, and after being moved.
*Buffer*: a block of two bytes that can become five lets every operation hit the
exact end, the move to the front, and the growth, once and twice. *HTTP*: the six
requests reach every status of `onRequest`, both versions, requests with no, one
and two headers, a connection that stays and one that is closed; two of them are
one exchange after the other, or one overtaking the other, and the second file is
shorter than the part of the first that may have been sent. Three units of file
behind two of head put the end of a write into each, and between them.
*clang-tidy*: with four entries, a queue of two and two workers, the queue is full
at times, the main thread waits, every worker takes more than one entry, and both
can be dead while tasks are left. All choices of `-fix`, `-export-fixes` and of
matching names are initial states. *cpplint*: the families in `MCLint` are the
files of one to five lines, each for one part of the program: all sequences of up
to four tokens of strings and comments, and of brackets, in one line, or up to two
in each of two lines; up to five tokens of numbers and quotes; three lines out of fourteen that open and close blocks, four
or five with conditionals; three includes out of eight headers, up to five lines
with conditionals; four or five lines of functions at verbosity 0, where two and
more lines are too long; functions of up to six lines at the verbosities 0, 1 and 2,
where the limit is 1, 2 and 4 lines, and twice that for a test; pairs of files with NOLINT comments; every assignment of
eight CPPLINT.cfg files, or none, to three nested directories with a file in two
of them; and the arguments of the command line. The limits of the code (10, 24,
250, 400 lines) become 2, 2, 1 and 2: below, at and above them are lines apart.

Deadlock is checked in the `loop_*` and `lint*` runs, where a process that has
ended stutters by a step of its own, and in `pool`. The timer, buffer and HTTP runs may
stop: their bounds on time, size and requests leave nothing to do, or the process
has ended. So may the clang-tidy driver: it has ended, or a worker has died and the
main thread waits in `join` for ever.

**Fairness.** *Loop*: threads run; a thread that waits for a mutex gets it when
it is released again and again (strong fairness on `Lock` and `HandleLock`);
`epoll_wait` must return only when the wake-up byte is there. No fairness is
assumed of peers, timers or signals. *Pool*: the same for the mutexes, and
`pthread_cond_wait` must return only after a signal. *Timers*: a handler that
has begun ends, and a sweep that is possible again and again begins
(`TickStart`): `event_loop_run` looks at `timeout` after each dispatch, and each
sweep asks for the next alarm. That the chain of alarms does not break is
an assumption here: signals are not modelled. *Buffer* and *cpplint*: no
liveness. *HTTP*: the loop dispatches what `epoll_wait` reports, so a read event
and a write event are each handled in the end (`HandleRead`,
`http_handle_write`, weak fairness); that the second is reported needs a client
that takes its answers. *clang-tidy*: the main thread and each worker are scheduled,
and clang-tidy ends; nobody has to press Ctrl-C, and nothing is assumed of
`TryAgain`. `Finishes` says what is left out: if a name does not match, the main
thread tries for ever, and if a worker dies, it waits for ever.

Each property of a passing run is backed by a mutant of the code (the
definitions marked "Mutant", listed in `PROJECT.json`) that violates it.

## 4. What disagrees with the code's own words

1. `loop_activate`: the assert of `channel_event_activate` (`event_loop.c:165`)
   dereferences an empty slot when a callback has removed the channel whose
   next event of the same `epoll_wait` is still to be dispatched.
2. `timer_threads`: workers change the main loop's timer list
   (`tcp_connection.c:32`) without a mutex, against `event_loop.h:48`; the ring
   breaks.
3. `http_close`: `http_onMessage` shuts the connection down for writing
   (`http_server.c:72`) when the answer is still in the output buffer, against
   `http_server.c:53`; the answer is never sent, and the write raises SIGPIPE,
   which ends the server.
4. `lint_config`: a nested CPPLINT.cfg is said to override the outer ones
   (`cpplint.py:253`), but they are read upwards and each assigns the same
   module-wide variable (`cpplint.py:6289`), so that the outermost wins. It is
   never set back and holds for later files as well.

Other behaviours are in the models as the code has them, without a run of their
own:

- On a hang-up the dispatcher closes the descriptor and leaves its slot
  (`event_dispatcher.c:136`), so that the next connection of that number is never
  added.
- `del_timer` never removes (`timer.c:65-67`), so that the timer of a freed
  connection fires.
- A request that comes in two pieces gets two answers, the first of them 501 on a
  new connection (`http_request.c:156`), though `http_onMessage` decodes a request and
  then answers it (`http_server.c:29`).
- A pipelined request replaces the file of the answer before it (`http_server.c:59`):
  the rest of that file is never sent, and it is never unmapped.
- `-export-fixes` is to create a file of suggested fixes (`run_clang_tidy.py:220`), but
  `merge_replacement_files` uses `yaml`, whose import is commented out
  (`run_clang_tidy.py:49`): with an entry in the database the NameError is caught and
  printed, the status becomes 1, and the file is never written.
- The arguments of that program choose the files to be processed
  (`run_clang_tidy.py:226`), but an entry that they do not choose is tried again for
  ever (`run_clang_tidy.py:316`).
- The usage text of cpplint says that the filter `FOO` means `-FOO` (`cpplint.py:124`)
  and gives `--filter=whitespace,...` as an example (`cpplint.py:128`), but `AddFilters`
  raises `ValueError` for a filter without a sign (`cpplint.py:1074`), as the docstring
  of `SetFilters` says (`cpplint.py:1058`), and the program ends before it opens a file
  (`BadArguments`); some jobs of `lint` are such. That the filters in force have their
  sign, which is part of the inductive invariant (`SignInv`), is a promise of the code to
  itself (the assertion of `cpplint.py:1431`), not one of the usage text.
- A comment that is never closed is reported one line late (`cpplint.py:1626`).
- The `filter=` lines of one CPPLINT.cfg are applied from the last to the first
  (`cpplint.py:6312`).
- The stack of blocks is said to be pushed at every `{` and popped at every `}`
  (`cpplint.py:2642`), but the loop over the namespaces of a line goes on behind the next
  `{` (`cpplint.py:2879`) and skips a `}` before it, as in
  `namespace A { namespace B = C; } namespace D {`: A stays on the stack.

## 5. Proofs

All theorems hold for any values of the constants that satisfy the module's
named `ASSUME`; nothing else is assumed unless the statement says so.

**EventLoop** (`Invariance`, `TypeCorrect`, `PendingListIsNotWalked`,
`WakeupsAreNotLost`, `WakeupReadHasAByte`, `InterestIsCurrent`,
`StepsImplementRegistry`). The
properties are not inductive alone. `Inv` adds `MutexInv` (who is inside the
list holds the mutex, and `is_handle_pending` is set only by an owner who does),
`AskedInv` (a request in flight is for a channel that has been posted, so its
descriptor does not change any more), and `PipeInv` (a wake-up event in the
batch still has its byte). What epoll watches rests on the requests that are still
to take effect, wherever they are: in the list behind `cursor`, or in the hands of a
thread that has not got the mutex. `AddOnceInv` and `AddInv`: an add is under way
once, and until it takes effect the descriptor is open, silent and awaited by no
other channel. `UpdateInv`: only the channel that is being dispatched is updated, so
the request finds it in its slot. The mask that epoll holds then differs from the
channel's own only as long as an update is under way. `RequestPosted`, `RequestReached` and
`RequestApplied` say what posting, walking and applying do to that set. There is
one lemma per part of `Inv`, and in it one step per action. `RegistryStep` maps each
action to a step of `ChannelRegistry` or to none: the queue grows when the list
does, and shrinks when `cursor` moves on, not when the list is emptied.

**ThreadPool** (`Invariance`, `LoopsAreReady`, `HandOverIsExclusive`,
`RoundRobinIsBalanced`). The hand-over needs `HandOverInv` (a published pointer
is the worker's own and complete; the main thread passes the test only when it is
set) and `MutexInv`. The balance needs `PicksFollowPosition`: every loop has had
`k` connections, those before `position` one more. That the main thread's index
is a worker in the states that use it is part of the invariant.

**TimerRing** (`RingIsIntact`, `Invariance`, `ListIsAscending`, `RingIsOfArmed`,
`StepsImplementTimeouts`). With one thread,
`LinkInv`: on the nodes in the ring, `next` and `prev` undo each other. `InRing`
says which nodes those are at each control point: not the timer being added, nor
the one taken out to be moved, but still the one whose connection has just been
closed. `InsertKeepsLinks` and `RemoveKeepsLinks` are the facts about the
pointer assignments. `OrderInv` carries the order through a move: the moved
timer is the latest of all, and its neighbours are in order without it. That it is
*one* ring is a statement about sets: no set of timers but the empty one is closed
under `next` without the head (`InsertKeepsOneRing`, `RemoveKeepsOneRing`). From
there `RingIsCounted` shows that the walk along `next`, and the one along `prev`,
come back to the head after one step for each armed timer, which is `RingHoldsArmed`.
For the refinement, `WalksStayInRing` says that the two loops of the code (the search
for the place of a timer, and the sweep) stand on a node of the ring, and
`SweepIsComplete` that a sweep which stops at a timer that is not due, or at the head,
has left no timer that is due: behind the place where it stops they are all later.
The clock of the model does not go back, as the wall clock `timer.c:27` reads may.
`Owner = Main` is a hypothesis of the theorems; `timer_threads` shows that it
cannot be dropped.

**Buffer** (`Invariance`, `IndicesStayOrdered`, `IsByteQueue`). `AppendStep` says
that each of the three ways of `make_room` appends the string to what was
readable; `FillAndAppend` splits what arrives into the part that fits and the
rest. `StepOK` then shows each operation to keep the invariant and to be a step
of `ByteQueue`, so that the refinement is proved, not only checked.

**HttpExchange** (`Invariance`, `RequestsAreAnswered`, `AnswersAreWhole`,
`HeadsAreWhole`, `WritesArePushed`, `FilesAreReleased`). `RequestsAreAnswered`, `AnswersAreWhole` and `FilesAreReleased` are about an orderly
exchange, the other two about any. What makes the properties inductive is `InputInv`: as
long as the exchange is orderly, what is on the stream is the whole last request, nothing of an
earlier one is in the buffer, and nothing is left to write when it arrives; and
`OutputInv`: a file that is there is mapped once and not sent to its end. `ParseRequest` is the fact
about the parser (a request read as a whole is consumed as a whole),
`RespondInOrder` says that an answer put behind an empty output is what is still
to be written, and `SendingSplits` that a write of any length moves a part of
head and file to the wire and leaves the rest. `HeadsAreSent` is about every client:
the heads on the wire, with what is left of the output, are those of the answers in
their order. `Heads` folds over the stream; `HeadRunUnfolds` and `HeadsConcat` show
that it goes through two pieces one after the other, so that a write may cut
anywhere (`SendingKeepsHeads`).

**ClangTidy** (`Invariance`, `JoinedFilesAreChecked`, `SuccessIsEarned`), for any number of entries and workers. What the verdict
says of all files rests on where each file is: `UnfinishedIsHeld` (an entry that
is counted waits in the queue once, or is in the hands of one worker, dead ones
included), `ResultsAreReported` (an entry that has been put and is not counted any
more has its result, and `failed_files` lists the failed ones), `FilesAreThere`
(the temporary directory has a file for every entry beyond `mkstemp`) and
`MainKnows` (past the join nothing is unfinished; a code of 0 there means that no
file failed, and behind the export that its file was written). Each is a lemma with one step per action; `AppendElements` and
`TailElements` say what a put and a get do to the set of waiting entries, and
`WorkIsKept` and `HoldingKeepsCount` carry the count through the steps of a worker.

**Lint** (`Invariance`, `FiltersAreRight`, `StatusIsRight`, `OffencesAreExact`,
`BlocksAreBraces`, `LongFunctionsAreRight`, `SystemHeadersAreFirst`,
`DuplicatesAreRight`, `BranchesLeaveNoTrace`), for any directories, configuration files,
options, filters and texts of files: a file is linted with the filters of the program, of the
command line, and of the directories from the outermost that counts down to its own,
and with nothing that another file left behind; the exit status and the counts by
category tell what was reported; what is wrong on a line of a file is reported
exactly when its own NOLINT comments, the filters and the verbosity let it through; the
same holds of functions that are too long, each with the confidence that goes with its
length, of headers that are included twice and of system headers that stand too late
(all of these in a file without assembly); without conditionals, the blocks that are open
are as many as the braces; and with them, the blocks at the end are those of the file
without what follows an `#else`.
`Inv` is inductive. For the filters, the search
upwards stands at some directory `k` and holds the filters of those below it
(`SearchIsAt`); `ConfigIsRead` shows that one configuration file prepends exactly its
own filters, last line first, `OutermostEnds` and `FiltersFromNext` that the search
ends where `Outermost` says. That the filters are those of the *file* needs the
backup: `filters_backup` holds the given ones from `ProcessFile` to its end
(`BackupStep`, `RestoreStep`), on every way out. The loop over the options of a file is a
recursive function; `OptionRunUnfolds` gives its value after `n` options.

For the status, `ReportInv` says that the count of errors is the number of those
reported and the count of every category (`CountsOf`) that of its errors:
`CountsGrow` and `PrintedCounts` carry it through one error, `ErrorReports` through a
list of them. A list it must be, for the number of errors to be that of its
positions, and every check is shown to report one (`NolintIsReport` to
`EndingsAreList`), that of a line with errors of this line only. What the checks of a line read comes out of the text of the file
and the lines before it, so `LineInv` says what these are: `CleansedLines` makes one
line of tokens of every line of the file (`CleansedType`, `RemovedType`,
`CleansedLinesType`), and whatever a line holds, `Update` leaves lists of blocks, also
in the checkpoints of conditionals (`PreprocessorKeeps`, `NamespacesKeep`,
`BracesKeep`, `UpdateKeeps`). At the exit, only a bad filter of a configuration leaves
files in `todo` (`StatusStep`).

For what is reported of a line, `NolintInv` says that the suppressions are those of the
file as a whole and of the lines read so far (`NotesUpTo`). `Silenced` looks at the line,
the one before it and the file alone; `NotesAreRead` shows that the tables of the
program say the same of every line that has been read, whatever the later lines add:
a NOLINT reaches its own line or the next one, and no line has the number of the
global suppressions. `LetThroughInv` (no error that was printed is silenced or held
back, of this file or of an earlier one) and `SearchedInv` (every offence of the lines
behind is reported, silenced or held back) are then carried through a line by
`LineIsChecked`: `PrintedIfAdmitted` reduces what `_ShouldPrintError` says to the last
filter that matches, and `OffencesIsReport` finds an error for every kind of token. Two
things the proof had to be told. A comment without an end is reported before the NOLINT
comments are read, and functions and includes have checks of their own: these
categories are none that the other checks of a line report (`OffencesAssumption`). And `InAsmBlock` skips the checks while the top of the stack is
assembly: without `asm` in the code of the file (`IsCalm`) no block ever is one, which
is why `IsStack`, `IsCheckpoint` and the lemmas about the blocks carry it along.

For the blocks, counting is not inductive. `BlockInv` says that on the stack all but the
innermost have their brace, so that the braces that are open are its length, or one less
while a class or namespace waits for its own (`Follows`); and that then its head is the
last token read which could be answered (`Waits`), so that the next brace or semicolon is
its own and not that of a block inside. The three loops of `Update` over one line
(namespaces, a class, the braces) each take what is left behind the `o`-th token and
leave the stack as it is to be behind the `e`-th (`FollowsTo`): `ReadsOn` for tokens that
change nothing, `StopFollows` for one brace, semicolon or parenthesis, `HeadFollows` and
`OpenHeadFollows` for a head without and with its brace. `LineFollows` joins the loops,
`BlocksFollow` the lines. The two preconditions are about the text alone, and are where
the code counts something else: a class or namespace whose head is cut off by another one
or by a `}` has a block that no brace closes (`HeadsAreComplete`; the `class` of a
template parameter is no head), and a `}` may be skipped by the loop over namespaces
(`NoneEndsAhead`, section 4). With conditionals the stack is set back at `#else`,
and what is to be shown of it is another thing:

`BranchesLeaveNoTrace`: reading a file with balanced conditionals leaves the blocks that
reading its first branches alone would leave (`FirstBranches`, in which the lines behind
an `#else` are blank), whatever stands in the others. The two readings go line by line
(`BlocksRead`, `UpdateReads`), and `BranchInv` holds them together: outside of such
branches the stack is that of the first branches; inside, it is the outermost of the open
conditionals with an `#else` that keeps it (`before_else`), until its `#endif` puts it
back. `DepthSteps` and `ElseSteps` say what a directive does to the depth and to the
branch a line is in; `IfFollows`, `ElseFollows`, `EndifFollows` and `PlainFollows` that
`BranchInv` goes with it. The stacks are not equal but alike (`Alike`): a class notes the
line where it ends by its braces (`last`), which are counted over all branches, and no
other part of a block depends on it (`AlikeReading`). A blank line is not quite nothing:
behind the line on which assembly ended it takes the mark of that off, and a second one
does nothing more (`CountedOnce`); this is why the blocks that wait are compared behind a
blank line, and why `IsSound` says that assembly within parentheses has some open. The precondition `ArgumentsStandAlone` is not for
the proof's sake: whether a `class` is an argument of a template is searched for in the
lines that follow, over conditionals (`cpplint.py:2705`), so that a `>` behind an `#else`
can make a class before it one or none.

Functions and includes are read line by line, so what is to be known before line `n` is
a sentence about the lines before it, in terms of the text alone, and the state is shown
to agree with it. `FunctionInv`: a function is open exactly when some head has begun one
and nothing since has ended it or begun another (`IsOpenFrom`), the counter holds the
lines of its body, and what was reported of functions is at the ends of the long ones.
`FunctionCases` splits `CheckForFunctionLengths` into its five outcomes, `OpenNext` and
`BodyNext` say what one more line does to the sentence, `FunctionFollows` and
`LengthsAreReported` join them; `LevelPasses` compares the loop that works out the
confidence with the doubling of the limit by the verbosity, and shows that it stops at
the level the length reaches (`LengthsAreGraded`; the errors themselves carry it through
`OthersAreOld`: no check but that of functions reports of this category). `IncludeInv`: the lists hold
the paths of the headers heard of (`Heard`), all lists but the last those with an `#if`
behind them, which is what makes an `#else` forget the right ones; and the section is the
greatest of the stretch since the last directive. `IncludeCases` splits
`CheckIncludeLine`, `HeardNext` and `StretchNext` say what a line does to the sentence,
`DirectiveHolds`, `IncludeHolds` and `SectionFollows` that the state goes with it.
`BranchesEnd` shows, by counting (`DepthIs`), that in a file whose conditionals are not
nested the last `#if` before an `#else` is its own, which `DuplicatesAreReal` needs: with
nesting, the program forgets the headers of the wrong branch (`cpplint.py:908`).
That the errors of a file are those and no more needs two things besides.
`ErrorsGrow` (in `LineIsChecked`): a line adds to the errors of these categories what
its own two checks report and nothing else does, whatever the other checks are
(`IsAside`). And `OnceInv`: a file is not read twice, so that nothing was reported of it
before; for this no name may be given twice on the command line (`Once`), for a file
that is linted again is reported again, with settings that another may have changed.

**In the place of induction.** The provers cannot instantiate a rule whose parameter
is a predicate. `LintLemmas` states the same with sets, as do `TimerRingProofs` and
`HttpExchangeProofs` where they need it: a set of naturals with
0 and the successor of every member holds them all (`Climbs`), a set that is not empty
has a least element (`LeastNatural`), a recursion over a counter has a function that
satisfies it (`RecursionExists`, `IterationExists`), and a run that starts in a
set and stays in it at every step is in it to the end (`RunStays`). A proof defines the set and cites
the lemma; so the folds over options, filters, heads and pointers of any length are
proved about.

**Only model-checked.** Liveness under fairness: `RequestsAreApplied` (with the
fairness of `ChannelRegistry`), `PoolStarts`, `IdleIsClosed` (with that of
`IdleTimeouts`), `AnswersAreWritten`, `Finishes`; TLAPS proves no liveness under
fairness and nothing about ENABLED. Of cpplint, what its scanners find in a file
(`TextIsReadOrReported`, `BracketsMatch`): each relates a scanner
to a definition of another shape over the tokens of a file, which takes an invariant of
its own for every loop of the scanner.

## 6. Not modelled, and what would come next

- The life of a connection over the main thread and its worker: created, added,
  given its timer after the add (`tcp_utils.c:232-244`), closed by its peer or by
  its timer, freed (`tcp_connection.c:12-23`); which loop and list still point to it.
- The output path of the echo servers (`tcp_connection.c:145`, `:166`): partial
  writes, and a channel whose `data` is a connection where an event loop is taken.
- Signals: handler, pipe, `timeout`, `quit`. They would discharge the fairness that
  `TimerRing` assumes of `TickStart`.
- The growth of the channel table (`map_make_space`).
- cpplint's checks of single lines, each a set of regular expressions over one
  line that keeps no state; header guards and missing includes.
- `run_clang_format.py`, logging, and the stand-alone teaching programs: sequential
  calls around input and output, without state worth a model. (`run_clang_format.py`
  overwrites `had_err` with the next source directory, `:125`, so that only the last one
  decides.)

Worth proving next: `TextIsReadOrReported`, for which `CleansedLines` is typed and its
loops are unfolded (`RemovedType`, `CollapseType`), token by token against the lexer.
