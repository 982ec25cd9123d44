---------------------------- MODULE HttpExchange ----------------------------
(***************************************************************************)
(* Requests and answers on one connection of the HTTP server               *)
(* (utils/http_server.c, http_request.c, http_response.c, and the request  *)
(* handler of Http/httpServer.c): what arrives is parsed, answered into    *)
(* the output buffer, followed by a mapped file, and written as the socket *)
(* takes it.                                                               *)
(*                                                                         *)
(* The server has no workers (nthread = 0), so a callback is one step.     *)
(* What arrives comes in units: the text of a line, or a line end.  TCP    *)
(* may cut the stream between any two units.  What is sent comes in units  *)
(* too, HeadSize for the head of an answer and a number per file.  The     *)
(* buffers are the queues that Buffer shows them to be; the input does not *)
(* reach the end of its block, so that no line end is found behind what    *)
(* has arrived.  writev is called when epoll has reported room, so it does *)
(* not return EAGAIN.  Starting lines have a method, a path and a version. *)
(***************************************************************************)
EXTENDS Integers, Sequences, FiniteSets

CONSTANTS
  Requests,    \* what clients send
  HeadSize,    \* units of an encoded head
  FileSize,    \* units of the requested file, and of 404.html
  MaxRequests  \* bound on the requests sent

Methods  == {"GET", "POST"}
Targets  == {"file", "directory", "missing", "forbidden"}
Versions == {"1.0", "1.1"}
Fields   == [key : {"Connection", "Host"}, value : {"close", "keep-Alive", "text"}]

ASSUME HttpAssumption ==
  /\ Requests \subseteq
       [method : Methods, target : Targets, version : Versions, headers : Seq(Fields)]
  /\ HeadSize \in Nat \ {0}
  /\ FileSize \in [{"file", "404.html"} -> Nat \ {0}]
  /\ MaxRequests \in Nat

VARIABLES
  sent,         \* the requests the client has sent
  stream,       \* units on the way to the server
  input,        \* input_buffer, from readIndex to writeIndex
  skip,         \* whether readIndex is a line end ahead of writeIndex
  answers,      \* the status of each answer given
  output,       \* output_buffer, from readIndex to writeIndex
  file,         \* file_base, as the answer it belongs to (0: NULL), and file_size
  offset,       \* file_offset
  mapped,       \* how many files are mapped
  writeEnabled, \* EVENT_WRITE of the channel
  shut,         \* shutdown(SHUT_WR)
  wire,         \* units the socket has taken
  promised,     \* history: the units of all answers, in order
  orderly,      \* history: one request at a time, with a header, each read as
                \* a whole
  failure       \* none, or what ended the process

arriving == <<sent, stream>>
reading  == <<input, skip>>
sending  == <<output, file, offset, mapped, writeEnabled, wire>>
vars     == <<arriving, reading, answers, sending, shut, promised, orderly, failure>>

NoFile == [answer |-> 0, size |-> 0]

Init ==
  /\ sent = << >> /\ stream = << >>
  /\ input = << >> /\ skip = FALSE
  /\ answers = << >>
  /\ output = << >> /\ file = NoFile /\ offset = 0 /\ mapped = 0
  /\ writeEnabled = FALSE /\ shut = FALSE
  /\ wire = << >> /\ promised = << >>
  /\ orderly = TRUE
  /\ failure = "none"

-----------------------------------------------------------------------------
(* What is on the stream.                                                  *)
CRLF      == [kind |-> "crlf"]
Start(r)  == [kind |-> "start", request |-> r]
Header(f) == [kind |-> "header", field |-> f]

Encode(r) ==
  <<Start(r), CRLF>>
  \o [i \in 1 .. 2 * Len(r.headers) |->
        IF i % 2 = 1 THEN Header(r.headers[(i + 1) \div 2]) ELSE CRLF]
  \o <<CRLF>>

(* What is sent.                                                           *)
Part(answer, part, n) == [i \in 1 .. n |-> [answer |-> answer, part |-> part, unit |-> i]]

Sendable == offset <= file.size

FileRest == SubSeq(Part(file.answer, "file", file.size), offset + 1, file.size)

Pending == output \o FileRest

-----------------------------------------------------------------------------
(* The client sends a request.  The exchange is orderly as long as the     *)
(* client waits for the answer to its last request, its requests have a    *)
(* header, and (Receive) each is read as a whole.                          *)
Waiting == stream = << >> /\ Pending = << >> /\ Len(answers) = Len(sent)

Send(r) ==
  /\ failure = "none"
  /\ Len(sent) < MaxRequests
  /\ sent' = Append(sent, r)
  /\ stream' = stream \o Encode(r)
  /\ orderly' = (orderly /\ Waiting /\ r.headers # << >>)
  /\ UNCHANGED <<reading, answers, sending, shut, promised, failure>>

-----------------------------------------------------------------------------
(* http_request_parse.                                                     *)
\* Mutant: only the first place is looked at.
StartsWithEnd(s) == s # << >> /\ s[1] = CRLF

HasLine(s) == \E i \in 1 .. Len(s) : s[i] = CRLF

\* The i-th line is there, and it is not empty.
IsLine(s, i) == 2 * i <= Len(s) /\ s[2 * i - 1] # CRLF /\ s[2 * i] = CRLF

\* parse_headers goes on to an empty line, or to where no line end follows.
HeaderNumber(s) == Cardinality({k \in 1 .. Len(s) : \A i \in 1 .. k : IsLine(s, i)})

\* Two bytes on: past a line end.  Two letters less leave a header text one.
Behind(s) == IF s # << >> /\ s[1] = CRLF THEN Tail(s) ELSE s

\* What a read of n units leaves in the input buffer.
Arrived(n) ==
  LET s == input \o SubSeq(stream, 1, n) IN IF skip THEN Behind(s) ELSE s

\* The fields of the headers, and what is left behind them.
HeaderFields(s) == [i \in 1 .. HeaderNumber(s) |-> s[2 * i - 1].field]
BehindFields(s) == SubSeq(s, 2 * HeaderNumber(s) + 1, Len(s))

\* Mutant: the empty line is left in the buffer.
KeepsEmptyLine(s) == input' = BehindFields(s) /\ skip' = FALSE

\* parse_headers for the units s.  If there is a header, the read index goes
\* past the empty line, or past writeIndex if that has not arrived.
parse_headers(s) ==
  IF HeaderNumber(s) > 0
    THEN input' = Behind(BehindFields(s)) /\ skip' = (BehindFields(s) = << >>)
    ELSE input' = s /\ skip' = FALSE

\* What a line that cannot be a request is taken for.
NoRequest == [method |-> "POST", target |-> "file", version |-> "1.1", headers |-> << >>]

-----------------------------------------------------------------------------
(* onRequest: the status of the answer, and the size of its file, or 0.    *)
Answer(status, size) == [status |-> status, size |-> size]

onRequest(r) ==
  CASE r.method # "GET" -> Answer(501, 0)
    [] r.method = "GET" /\ r.target = "file"      -> Answer(200, FileSize["file"])
    [] r.method = "GET" /\ r.target = "directory" -> Answer(0, FileSize["file"])
    [] r.method = "GET" /\ r.target = "missing"   -> Answer(404, FileSize["404.html"])
    [] r.method = "GET" /\ r.target = "forbidden" -> Answer(403, 0)

\* http_request_key2value compares with strncmp, which is 0 when the keys
\* agree: the value is that of the first header with another key.
key2value(fields, key) ==
  LET other == {i \in 1 .. Len(fields) : fields[i].key # key}
  IN IF other = {} THEN "NULL"
     ELSE fields[CHOOSE i \in other : \A j \in other : i <= j].value

http_request_close_connection(r, fields) ==
  \/ key2value(fields, "Connection") = "close"
  \/ (r.version = "1.0" /\ key2value(fields, "Connection") # "keep-Alive")

\* strncmp of a NULL.
ComparesNull(r, fields) ==
  r.version = "1.0" /\ key2value(fields, "Connection") = "NULL"

-----------------------------------------------------------------------------
(***************************************************************************)
(* handle_read and http_onMessage, which answers whatever was parsed.      *)
(***************************************************************************)
\* A mapped file replaces the last one, the file offset stays.
Respond(r, fields) ==
  LET a    == Len(answers) + 1
      size == onRequest(r).size
  IN
  /\ answers' = Append(answers, onRequest(r).status)
  /\ output' = output \o Part(a, "head", HeadSize)
  /\ promised' = promised \o Part(a, "head", HeadSize) \o Part(a, "file", size)
  /\ file' = IF size > 0 THEN [answer |-> a, size |-> size] ELSE file
  /\ mapped' = IF size > 0 THEN mapped + 1 ELSE mapped
  /\ writeEnabled' = TRUE
  /\ failure' = IF ComparesNull(r, fields) THEN "header" ELSE "none"
  /\ shut' = (shut \/ (/\ ~ComparesNull(r, fields)
                       /\ http_request_close_connection(r, fields)))
  /\ UNCHANGED <<offset, wire>>

Receive(n) ==
  /\ failure = "none"
  /\ stream' = SubSeq(stream, n + 1, Len(stream))
  /\ orderly' = (orderly /\ n = Len(stream))
  /\ UNCHANGED sent

\* No line end: nothing is taken from the buffer.
ReadPart(n) ==
  LET s == Arrived(n) IN
  /\ ~HasLine(s)
  /\ Receive(n)
  /\ input' = s
  /\ skip' = FALSE
  /\ Respond(NoRequest, << >>)

ReadRequest(n) ==
  LET s == Arrived(n)
      t == SubSeq(s, 3, Len(s))
  IN
  /\ HasLine(s) /\ s[1].kind = "start"
  /\ Receive(n)
  /\ parse_headers(t)
  /\ Respond(s[1].request, HeaderFields(t))

\* A header where a starting line should be may have its two spaces.
ReadHeader(n) ==
  LET s == Arrived(n)
      t == SubSeq(s, 3, Len(s))
  IN
  /\ HasLine(s) /\ s[1].kind = "header"
  /\ Receive(n)
  /\ parse_headers(t)
  /\ Respond(NoRequest, HeaderFields(t))

\* If it has not, or if the line is empty, the version is copied from an
\* address that is none, or with a negative length.
ReadFails(n) ==
  LET s == Arrived(n) IN
  /\ HasLine(s) /\ s[1].kind \in {"header", "crlf"}
  /\ Receive(n)
  /\ failure' = "parse"
  /\ UNCHANGED <<reading, answers, sending, shut, promised>>

handle_read(n) == ReadPart(n) \/ ReadRequest(n) \/ ReadHeader(n) \/ ReadFails(n)

-----------------------------------------------------------------------------
(***************************************************************************)
(* http_handle_write.                                                      *)
(***************************************************************************)
\* Mutant: the offset is not reset.
FreeKeepsOffset ==
  /\ file' = NoFile
  /\ mapped' = IF file = NoFile THEN mapped ELSE mapped - 1
  /\ UNCHANGED offset

buffer_file_free ==
  /\ file' = NoFile
  /\ offset' = 0
  /\ mapped' = IF file = NoFile THEN mapped ELSE mapped - 1

\* Mutant: after a short write the whole head counts as sent.
HeadIsGone(n) == << >>

\* What is left of the head when n units have been sent.
HeadRest(n) == SubSeq(output, n + 1, Len(output))

\* What of n units came from the file.
FromFile(n) == IF n > Len(output) THEN n - Len(output) ELSE 0

CanWrite ==
  /\ failure = "none"
  /\ writeEnabled

Sent(n) ==
  /\ wire' = wire \o SubSeq(Pending, 1, n)
  /\ output' = HeadRest(n)

WritePart(n) ==
  /\ CanWrite /\ ~shut /\ Sendable
  /\ Sent(n)
  /\ offset' = offset + FromFile(n)
  /\ UNCHANGED <<arriving, reading, answers, file, mapped, writeEnabled, shut,
                 promised, orderly, failure>>

\* Mutant: the end of the head is taken for the end of the answer.
WriteEndsWithHead ==
  /\ CanWrite /\ ~shut /\ Sendable
  /\ Sent(Len(output))
  /\ writeEnabled' = FALSE
  /\ UNCHANGED <<arriving, reading, answers, file, offset, mapped, shut,
                 promised, orderly, failure>>

\* Mutant: the file stays mapped.
WriteKeepsFile ==
  /\ CanWrite /\ ~shut /\ Sendable
  /\ Sent(Len(Pending))
  /\ offset' = offset + FromFile(Len(Pending))
  /\ writeEnabled' = FALSE
  /\ UNCHANGED <<arriving, reading, answers, file, mapped, shut, promised, orderly, failure>>

WriteRest ==
  /\ CanWrite /\ ~shut /\ Sendable
  /\ Sent(Len(Pending))
  /\ writeEnabled' = FALSE
  /\ buffer_file_free
  /\ UNCHANGED <<arriving, reading, answers, shut, promised, orderly, failure>>

\* file_size - file_offset is negative: writev fails, and the file is freed.
WriteFails ==
  /\ CanWrite /\ ~Sendable
  /\ buffer_file_free
  /\ UNCHANGED <<arriving, reading, answers, output, writeEnabled, wire, shut,
                 promised, orderly, failure>>

\* A socket that has been shut down for writing raises SIGPIPE, which nobody
\* handles.
WriteToShut ==
  /\ CanWrite /\ shut /\ Sendable
  /\ failure' = "SIGPIPE"
  /\ UNCHANGED <<arriving, reading, answers, sending, shut, promised, orderly>>

http_handle_write ==
  \/ \E n \in 1 .. Len(Pending) - 1 : WritePart(n)
  \/ WriteRest
  \/ WriteFails
  \/ WriteToShut

HandleRead == \E n \in 1 .. Len(stream) : handle_read(n)

Next ==
  \/ \E r \in Requests : Send(r)
  \/ HandleRead
  \/ http_handle_write

\* The loop dispatches what epoll reports, and the client takes its answers.
Fairness == WF_vars(HandleRead) /\ WF_vars(http_handle_write)

SafeSpec == Init /\ [][Next]_vars

Spec == SafeSpec /\ Fairness

-----------------------------------------------------------------------------
Units == {CRLF} \union {Start(r) : r \in Requests} \union {Header(f) : f \in Fields}

\* Type invariant.
TypeOK ==
  /\ sent \in Seq(Requests)
  /\ stream \in Seq(Units)
  /\ input \in Seq(Units)
  /\ skip \in BOOLEAN
  /\ answers \in Seq({0, 200, 403, 404, 501})
  /\ output \in Seq([answer : Nat, part : {"head"}, unit : Nat])
  /\ wire \in Seq([answer : Nat, part : {"head", "file"}, unit : Nat])
  /\ promised \in Seq([answer : Nat, part : {"head", "file"}, unit : Nat])
  /\ file \in [answer : Nat, size : Nat]
  /\ offset \in Nat
  /\ mapped \in Nat
  /\ writeEnabled \in BOOLEAN
  /\ shut \in BOOLEAN
  /\ orderly \in BOOLEAN
  /\ failure \in {"none", "parse", "header", "SIGPIPE"}

\* In an orderly exchange a request leaves nothing behind in the input, so
\* that the next one is parsed from its start (http_request_parse).
InputIsConsumed == orderly => input = << >> /\ ~skip

\* In an orderly exchange -- the client waits for each answer, its requests
\* have a header, and each is read as a whole -- the i-th answer is the answer
\* to the i-th request (http_onMessage).  Waiting is not enough: a request that
\* arrives in two pieces is answered twice.
AnswersMatchRequests ==
  orderly => /\ Len(answers) <= Len(sent)
             /\ \A i \in 1 .. Len(answers) : answers[i] = onRequest(sent[i]).status

\* In an orderly exchange, what the socket has taken and what is still to be
\* written are the answers: the offsets into the head and into the file add up
\* (http_handle_write).  With pipelining a file is lost.
WireIsAnswers == orderly => wire \o Pending = promised

\* The units of heads among those of s.
Heads(s) ==
  LET heads[i \in 0 .. Len(s)] ==
        IF i = 0 THEN << >>
        ELSE IF s[i].part = "head" THEN Append(heads[i - 1], s[i]) ELSE heads[i - 1]
  IN heads[Len(s)]

\* However requests and answers overlap, no part of a head is lost, sent twice
\* or out of order (http_handle_write, http_encode_response).
HeadsAreSent == Heads(wire) \o output = Heads(promised)

\* Write events are on exactly as long as there is something to write: an
\* answer is not forgotten, and the loop does not spin.
OutputIsPushed == writeEnabled <=> Pending # << >>

\* In an orderly exchange, when everything is written, no file is left mapped
\* (buffer_file_free).  With pipelining one file can replace another.
FilesAreUnmapped == orderly /\ Pending = << >> => mapped = 0

\* The inductive invariant.  In an orderly exchange what is on the stream is
\* the last request, and everything before it has been answered and sent.
InputInv ==
  orderly =>
    /\ input = << >> /\ ~skip
    /\ IF stream = << >>
         THEN Len(sent) = Len(answers)
         ELSE /\ Len(sent) = Len(answers) + 1
              /\ Pending = << >>
              /\ stream = Encode(sent[Len(sent)])
              /\ sent[Len(sent)].headers # << >>

OutputInv ==
  /\ OutputIsPushed
  /\ file # NoFile => mapped > 0
  /\ orderly => IF file = NoFile THEN offset = 0 /\ mapped = 0
                                ELSE offset < file.size /\ mapped = 1

Inv ==
  /\ TypeOK /\ InputInv /\ AnswersMatchRequests
  /\ OutputInv /\ WireIsAnswers /\ HeadsAreSent

\* In an orderly exchange each request is answered and the answer written,
\* unless the process ends.
AnswersAreWritten ==
  \A i \in 1 .. MaxRequests :
    Len(sent) = i ~>
      \/ Len(answers) >= i /\ Pending = << >>
      \/ ~orderly
      \/ failure # "none"

\* Expected by "encode, send and respond" (http_server.c:53): a connection
\* that is to be closed is closed behind its answer.
AnswerComesFirst == orderly => failure # "SIGPIPE"
=============================================================================
