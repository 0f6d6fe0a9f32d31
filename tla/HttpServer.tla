----------------------------- MODULE HttpServer -----------------------------
(***************************************************************************)
(* The frontend HTTP server in Rust: the accept loop, the thread pool that *)
(* runs one job for each connection, the parser of a request, the router   *)
(* and the response.  A client sends its request line by line and may stop *)
(* or close at any point; nothing in the server times out.                 *)
(***************************************************************************)
EXTENDS Integers, Sequences

CONSTANTS
    Conns,      \* the connections
    Size,       \* workers of the pool (4 in the code)
    Requests,   \* requests a client may mean to send: sequences of items
    Files,      \* the files under netsim-ui: their extension, by URI
    MaxVec,     \* the largest size of a Vec<u8>
    NoConn

ASSUME SizeAssumption == Size \in Nat \ {0}
ASSUME NoConnAssumption == NoConn \notin Conns
ASSUME RequestsAssumption ==
    \A r \in Requests, c \in Conns :
        /\ Len(r[c]) \in Nat
        /\ \A i \in 1..Len(r[c]) : r[c][i].item = "header" => r[c][i].length \in Int
        \* What follows the empty line is not divided into lines.
        /\ \A i \in 2..Len(r[c]) : r[c][i].item = "end" =>
              \A j \in i + 1 .. Len(r[c]) : r[c][j].item = "byte"

Workers == 1..Size

VARIABLES
    request,    \* request[c]: what the client means to send
    sent,       \* sent[c]: how many of its items were sent
    closed,     \* closed[c]: the client will send no more
    server,     \* the thread of the accept loop: "accept", "dropping" or "aborted"
    joined,     \* workers that ThreadPool::drop has joined
    queue,      \* the jobs in the channel
    accepted,   \* the connections for which execute was called, in order
    started,    \* the connections whose job a worker took, in order
    mutex,      \* the worker that holds the receiver's lock, or 0
    pc,         \* pc[w]: where a worker is
    job,        \* job[w]: the connection it serves
    read,       \* read[c]: how many items of c were read
    length,     \* length[w]: the first Content-Length of the header section
    reply       \* reply[c]: the response written to the stream

clientVars == <<request, sent, closed>>
poolVars == <<queue, accepted, started, mutex>>
vars == <<clientVars, server, joined, poolVars, pc, job, read, length, reply>>

-----------------------------------------------------------------------------
(***************************************************************************)
(* Items of a request, and responses                                       *)
(***************************************************************************)
Line(method, uri) == [item |-> "line", method |-> method, uri |-> uri]
BadLine == [item |-> "bad line"]
NoLength == -1
NotANumber == -2
\* A header; its length is that of a Content-Length, NotANumber if that does
\* not parse, or NoLength for any other header.
Header(n) == [item |-> "header", length |-> n]
NoColon == [item |-> "no colon"]
EndOfHeaders == [item |-> "end"]
Byte == [item |-> "byte"]

NoReply == << >>

new_404 == <<404, "text/plain", "Not Found">>

new_200(type, body) == <<200, type, body>>

to_content_type(extension) ==
    CASE extension = "html"            -> "text/html"
      [] extension = "txt"             -> "text/plain"
      [] extension \in {"jpg", "jpeg"} -> "image/jpeg"
      [] extension = "png"             -> "image/png"
      [] extension = "js"              -> "application/javascript"
      [] extension = "svg"             -> "image/svg+xml"
      [] OTHER                         -> "application/octet-stream"

handle_file(method, uri) ==
    IF method = "GET" /\ uri \in DOMAIN Files
    THEN new_200(to_content_type(Files[uri]), uri) ELSE new_404

\* The routes in the order of add_route; a URI that starts with no slash
\* matches none of them.
handle_request(line) ==
    CASE line.uri = "/"            -> handle_file(line.method, "/index.html")
      [] line.uri = "/get-version" -> new_200("text/plain", "version")
      [] line.uri = "/get-devices" -> new_200("text/plain", "devices")
      [] line.uri = "*"            -> new_404
      [] OTHER                     -> handle_file(line.method, line.uri)

-----------------------------------------------------------------------------
Init ==
    /\ request \in Requests
    /\ sent = [c \in Conns |-> 0]
    /\ closed = [c \in Conns |-> FALSE]
    /\ server = "accept"
    /\ joined = 0
    /\ queue = << >>
    /\ accepted = << >>
    /\ started = << >>
    /\ mutex = 0
    /\ pc = [w \in Workers |-> "lock"]
    /\ job = [w \in Workers |-> NoConn]
    /\ read = [c \in Conns |-> 0]
    /\ length = [w \in Workers |-> NoLength]
    /\ reply = [c \in Conns |-> NoReply]

Up == server # "aborted"

\* A client sends its next item, whether or not the connection was accepted.
Send(c) ==
    /\ Up
    /\ ~closed[c]
    /\ sent[c] < Len(request[c])
    /\ sent' = [sent EXCEPT ![c] = @ + 1]
    /\ UNCHANGED <<request, closed, server, joined, poolVars, pc, job, read, length, reply>>

\* A client closes before it has sent all.
Close(c) ==
    /\ Up
    /\ ~closed[c]
    /\ sent[c] < Len(request[c])
    /\ closed' = [closed EXCEPT ![c] = TRUE]
    /\ UNCHANGED <<request, sent, server, joined, poolVars, pc, job, read, length, reply>>

-----------------------------------------------------------------------------
(***************************************************************************)
(* The accept loop, ThreadPool::execute and ThreadPool::drop               *)
(***************************************************************************)
\* The receiver lives in the workers' closures.
ReceiverDropped == \A w \in Workers : pc[w] \in {"panicked", "ended"}

\* execute: send(job).unwrap().  Without a receiver it panics, the pool is
\* dropped, and to join a worker that panicked is a panic in a panic.
Accept(c) ==
    /\ server = "accept"
    /\ c \notin {accepted[i] : i \in DOMAIN accepted}
    /\ IF ReceiverDropped
       THEN server' = "aborted" /\ UNCHANGED <<queue, accepted>>
       ELSE /\ queue' = Append(queue, c)
            /\ accepted' = Append(accepted, c)
            /\ UNCHANGED server
    /\ UNCHANGED <<clientVars, joined, started, mutex, pc, job, read, length, reply>>

\* stream.unwrap() panics and the pool is dropped, its sender first.
AcceptFails ==
    /\ server = "accept"
    /\ server' = "dropping"
    /\ UNCHANGED <<clientVars, joined, poolVars, pc, job, read, length, reply>>

\* thread.join().unwrap() of the next worker.
Join ==
    /\ server = "dropping"
    /\ joined < Size
    /\ \/ /\ pc[joined + 1] = "ended"
          /\ joined' = joined + 1
          /\ UNCHANGED server
       \/ /\ pc[joined + 1] = "panicked"
          /\ server' = "aborted"
          /\ UNCHANGED joined
    /\ UNCHANGED <<clientVars, poolVars, pc, job, read, length, reply>>

\* The panic reaches the C++ caller, which ends the process.
Unwound ==
    /\ server = "dropping"
    /\ joined = Size
    /\ server' = "aborted"
    /\ UNCHANGED <<clientVars, joined, poolVars, pc, job, read, length, reply>>

-----------------------------------------------------------------------------
(***************************************************************************)
(* Worker::new                                                             *)
(***************************************************************************)
Goto(w, where) == pc' = [pc EXCEPT ![w] = where]

Lock(w) ==
    /\ Up
    /\ pc[w] = "lock"
    /\ mutex = 0
    /\ mutex' = w
    /\ Goto(w, "recv")
    /\ UNCHANGED <<clientVars, server, joined, queue, accepted, started, job, read, length, reply>>

\* Mutated form: the job stays in the channel.
RecvKeepsJob(w) ==
    /\ Up
    /\ pc[w] = "recv"
    /\ queue # << >>
    /\ job' = [job EXCEPT ![w] = Head(queue)]
    /\ started' = Append(started, Head(queue))
    /\ mutex' = 0
    /\ length' = [length EXCEPT ![w] = NoLength]
    /\ Goto(w, "line")
    /\ UNCHANGED <<clientVars, server, joined, queue, accepted, read, reply>>

\* Mutated form: the channel is a stack.
RecvNewest(w) ==
    /\ Up
    /\ pc[w] = "recv"
    /\ queue # << >>
    /\ job' = [job EXCEPT ![w] = queue[Len(queue)]]
    /\ started' = Append(started, queue[Len(queue)])
    /\ queue' = SubSeq(queue, 1, Len(queue) - 1)
    /\ mutex' = 0
    /\ length' = [length EXCEPT ![w] = NoLength]
    /\ Goto(w, "line")
    /\ UNCHANGED <<clientVars, server, joined, accepted, read, reply>>

\* Mutated form: the guard lives as long as the job.
RecvKeepsGuard(w) ==
    /\ Up
    /\ pc[w] = "recv"
    /\ queue # << >>
    /\ job' = [job EXCEPT ![w] = Head(queue)]
    /\ started' = Append(started, Head(queue))
    /\ queue' = Tail(queue)
    /\ length' = [length EXCEPT ![w] = NoLength]
    /\ Goto(w, "line")
    /\ UNCHANGED <<clientVars, server, joined, accepted, mutex, read, reply>>

\* recv() returns a job; the guard is dropped before the job runs.
Recv(w) ==
    /\ Up
    /\ pc[w] = "recv"
    /\ queue # << >>
    /\ job' = [job EXCEPT ![w] = Head(queue)]
    /\ started' = Append(started, Head(queue))
    /\ queue' = Tail(queue)
    /\ mutex' = 0
    /\ length' = [length EXCEPT ![w] = NoLength]
    /\ Goto(w, "line")
    /\ UNCHANGED <<clientVars, server, joined, accepted, read, reply>>

\* Mutated form: the worker goes on after an error.
DisconnectedRetries(w) ==
    /\ Up
    /\ pc[w] = "recv"
    /\ server = "dropping"
    /\ queue = << >>
    /\ mutex' = 0
    /\ Goto(w, "lock")
    /\ UNCHANGED <<clientVars, server, joined, queue, accepted, started, job, read, length, reply>>

\* recv() fails: the sender is gone and the channel is empty.
Disconnected(w) ==
    /\ Up
    /\ pc[w] = "recv"
    /\ server = "dropping"
    /\ queue = << >>
    /\ mutex' = 0
    /\ Goto(w, "ended")
    /\ UNCHANGED <<clientVars, server, joined, queue, accepted, started, job, read, length, reply>>

-----------------------------------------------------------------------------
(***************************************************************************)
(* handle_connection: HttpRequest::parse, then the router                  *)
(***************************************************************************)
Has(w) == read[job[w]] < sent[job[w]]
NextItem(w) == request[job[w]][read[job[w]] + 1]
AtEof(w) == ~Has(w) /\ closed[job[w]]

\* The worker reads the next item of its connection and goes on.
Take(w, where) ==
    /\ Has(w)
    /\ read' = [read EXCEPT ![job[w]] = @ + 1]
    /\ Goto(w, where)

ParserVars == <<clientVars, server, joined, poolVars, job, reply>>

\* An empty line at the end of the input has no method either.
ParseRequestLine(w) ==
    /\ Up
    /\ pc[w] = "line"
    /\ \/ Has(w) /\ Take(w, IF NextItem(w).item = "line" THEN "headers" ELSE "invalid")
       \/ AtEof(w) /\ Goto(w, "invalid") /\ UNCHANGED read
    /\ UNCHANGED <<ParserVars, length>>

\* Mutated form: the last header counts.
ParseHeaderLastLength(w) ==
    /\ Up
    /\ pc[w] = "headers"
    /\ \/ /\ Has(w)
          /\ NextItem(w).item = "header"
          /\ Take(w, "headers")
          /\ length' = [length EXCEPT ![w] = NextItem(w).length]
       \/ /\ Has(w)
          /\ NextItem(w).item = "end"
          /\ Take(w, "body")
          /\ UNCHANGED length
       \/ /\ Has(w)
          /\ NextItem(w).item \notin {"header", "end"}
          /\ Take(w, "invalid")
          /\ UNCHANGED length
       \/ /\ AtEof(w)
          /\ Goto(w, "body")
          /\ UNCHANGED <<read, length>>
    /\ UNCHANGED ParserVars

\* A header has a colon; an empty line, or one of one character, ends the
\* section, and so does the end of the input.
ParseHeader(w) ==
    /\ Up
    /\ pc[w] = "headers"
    /\ \/ /\ Has(w)
          /\ NextItem(w).item = "header"
          /\ Take(w, "headers")
          /\ length' = [length EXCEPT ![w] = IF @ = NoLength THEN NextItem(w).length ELSE @]
       \/ /\ Has(w)
          /\ NextItem(w).item = "end"
          /\ Take(w, "body")
          /\ UNCHANGED length
       \/ /\ Has(w)
          /\ NextItem(w).item \notin {"header", "end"}
          /\ Take(w, "invalid")
          /\ UNCHANGED length
       \/ /\ AtEof(w)
          /\ Goto(w, "body")
          /\ UNCHANGED <<read, length>>
    /\ UNCHANGED ParserVars

\* body.resize(len) beyond the size of a vector panics.  The thread ends, and
\* with the last one the receiver and the jobs in the channel.
ResizePanics(w) ==
    /\ Up
    /\ pc[w] = "body"
    /\ length[w] > MaxVec
    /\ Goto(w, "panicked")
    /\ queue' = IF \A v \in Workers \ {w} : pc[v] \in {"panicked", "ended"} THEN << >> ELSE queue
    /\ UNCHANGED <<clientVars, server, joined, accepted, started, mutex, job, read, length, reply>>

\* read_exact, if there was a Content-Length.
ReadBody(w) ==
    /\ Up
    /\ pc[w] = "body"
    /\ length[w] <= MaxVec
    /\ \/ /\ length[w] \in {NoLength, NotANumber}
          /\ Goto(w, "valid")
          /\ UNCHANGED read
       \/ /\ length[w] >= 0
          /\ sent[job[w]] - read[job[w]] >= length[w]
          /\ read' = [read EXCEPT ![job[w]] = @ + length[w]]
          /\ Goto(w, "valid")
       \/ /\ sent[job[w]] - read[job[w]] < length[w]
          /\ closed[job[w]]
          /\ read' = [read EXCEPT ![job[w]] = sent[job[w]]]
          /\ Goto(w, "invalid")
    /\ UNCHANGED <<ParserVars, length>>

Response(w) ==
    IF pc[w] = "valid" THEN handle_request(request[job[w]][1]) ELSE new_404

\* Mutated form: the connection is not given up.
RespondKeepsJob(w) ==
    /\ Up
    /\ pc[w] \in {"valid", "invalid"}
    /\ reply' = [reply EXCEPT ![job[w]] = Response(w)]
    /\ Goto(w, "lock")
    /\ UNCHANGED <<clientVars, server, joined, poolVars, job, read, length>>

\* write_to: an error, because the client is gone, is only printed.  The stream
\* is closed either way, and the worker asks for the next job.
Respond(w) ==
    /\ Up
    /\ pc[w] \in {"valid", "invalid"}
    /\ reply' = [reply EXCEPT ![job[w]] = Response(w)]
    /\ Goto(w, "lock")
    /\ job' = [job EXCEPT ![w] = NoConn]
    /\ UNCHANGED <<clientVars, server, joined, poolVars, read, length>>

-----------------------------------------------------------------------------
Work(w) ==
    \/ Lock(w) \/ Recv(w) \/ Disconnected(w)
    \/ ParseRequestLine(w) \/ ParseHeader(w) \/ ResizePanics(w)
    \/ ReadBody(w) \/ Respond(w)

Next ==
    \/ \E c \in Conns : Send(c) \/ Close(c) \/ Accept(c)
    \/ AcceptFails \/ Join \/ Unwound
    \/ \E w \in Workers : Work(w)

Spec == Init /\ [][Next]_vars

\* The threads of the process run; a client sends when it likes.  The kernel
\* hands over every connection.
FairSpec ==
    /\ Spec
    /\ \A w \in Workers : WF_vars(Work(w))
    /\ \A c \in Conns : WF_vars(Accept(c))
    /\ WF_vars(Join \/ Unwound)

-----------------------------------------------------------------------------
Phases == {"lock", "recv", "line", "headers", "body", "valid", "invalid", "panicked", "ended"}

Serving == {"line", "headers", "body", "valid", "invalid"}

\* Type invariant; a worker has a connection exactly while its job runs.
TypeOK ==
    /\ request \in Requests
    /\ sent \in [Conns -> Nat] /\ read \in [Conns -> Nat]
    /\ closed \in [Conns -> BOOLEAN]
    /\ server \in {"accept", "dropping", "aborted"}
    /\ joined \in 0..Size
    /\ queue \in Seq(Conns) /\ accepted \in Seq(Conns) /\ started \in Seq(Conns)
    /\ mutex \in 0..Size
    /\ pc \in [Workers -> Phases]
    /\ job \in [Workers -> Conns \cup {NoConn}]
    /\ length \in [Workers -> Int]
    /\ \A w \in Workers : job[w] # NoConn <=> pc[w] \in Serving \cup {"panicked"}

\* A worker that waits for a job, for the lock or for its client is the only one
\* that has the connection: no connection is served by two workers, and none that
\* is still in the channel is served, answered or lost.
ServedOnce ==
    /\ \A v, w \in Workers : v # w /\ job[v] # NoConn => job[v] # job[w]
    /\ \A i \in DOMAIN queue :
          /\ reply[queue[i]] = NoReply /\ read[queue[i]] = 0
          /\ \A w \in Workers : job[w] # queue[i]

\* Jobs start in the order of the connections, although four workers race for
\* the channel; no job is lost between the accept loop and the workers.
StartOrder == ~ReceiverDropped => accepted = started \o queue

\* A job that panics takes its worker with it and nothing else: the receiver's
\* lock is not held by a worker that serves, panicked or ended, so it is never
\* poisoned and the other workers go on.
LockNotLost == mutex # 0 => pc[mutex] = "recv"

\* What a request deserves, as a definition over the items the client sent.
Headers(c) ==
    LET end == {i \in 2..sent[c] : request[c][i].item = "end"}
        last == IF end = {} THEN sent[c] ELSE (CHOOSE i \in end : \A j \in end : i <= j) - 1
    IN  2..last

DeclaredLength(c) ==
    LET given == {i \in Headers(c) : request[c][i].item = "header" /\ request[c][i].length # NoLength}
    IN  IF given = {} THEN NoLength
        ELSE request[c][CHOOSE i \in given : \A j \in given : i <= j].length

Bytes(c) == {i \in 1..sent[c] : i \notin Headers(c) /\ request[c][i].item = "byte"}

WellFormed(c) ==
    /\ sent[c] > 0
    /\ request[c][1].item = "line"
    /\ \A i \in Headers(c) : request[c][i].item = "header"
    /\ \A n \in {DeclaredLength(c)} : n > 0 => \E f \in [1..n -> Bytes(c)] :
          \A i, j \in 1..n : f[i] = f[j] => i = j

\* A client is answered with what it asked for: a well-formed request by its
\* route, anything else, or a request cut short, with 404.  No answer is given
\* before the request is whole or the client has closed.
RightAnswer ==
    \A c \in Conns :
        reply[c] # NoReply =>
            reply[c] = IF WellFormed(c) THEN handle_request(request[c][1]) ELSE new_404

\* A worker waits for a client that neither sends nor closes.
Waits(w) ==
    /\ pc[w] \in {"line", "headers", "body"}
    /\ ~closed[job[w]]
    /\ sent[job[w]] - read[job[w]] < IF pc[w] = "body" THEN length[w] ELSE 1

AllStuck == \A w \in Workers : pc[w] \in {"panicked", "ended"} \/ Waits(w)

Whole(c) == closed[c] \/ sent[c] = Len(request[c])

Panicked(c) == \E w \in Workers : job[w] = c /\ pc[w] = "panicked"

\* A connection whose client has sent all or has closed is answered as long as
\* the process runs, unless it panics its worker or every worker is left waiting
\* for a silent client for good: one silent client, or one panic, holds up
\* nobody else.
Answered ==
    []<>~AllStuck =>
        \A c \in Conns :
            (\E i \in DOMAIN accepted : accepted[i] = c) /\ Whole(c)
                ~> reply[c] # NoReply \/ Panicked(c) \/ ~Up

\* After a failed accept the pool is dropped and the process ends: the workers
\* drain the channel, find that the sender is gone and are joined, unless one of
\* them waits for a silent client for good.
DropEnds ==
    (\A w \in Workers : []<>~Waits(w)) => (server = "dropping" ~> ~Up)
=============================================================================
