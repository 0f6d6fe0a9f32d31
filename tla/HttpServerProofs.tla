-------------------------- MODULE HttpServerProofs --------------------------
(***************************************************************************)
(* Proofs about the Rust HTTP server, for any number of workers and        *)
(* connections and any requests.                                           *)
(***************************************************************************)
EXTENDS HttpServer, SequenceTheorems, FiniteSetTheorems, TLAPS

-----------------------------------------------------------------------------
(* Types *)

\* A client sends no more than its request.
SentSome == \A c \in Conns : sent[c] <= Len(request[c])

TypeInv == TypeOK /\ SentSome

\* The initial state is well typed.
LEMMA InitTypeInv == Init => TypeInv
<1> SUFFICES ASSUME Init PROVE TypeInv
  OBVIOUS
<1>1. << >> \in Seq(Conns)
  OBVIOUS
<1> QED
  BY <1>1, SizeAssumption, NoConnAssumption, RequestsAssumption
  DEF Init, TypeInv, TypeOK, SentSome, Phases, Serving, Workers, NoLength

\* The steps of the clients and of the accept loop keep the types.
LEMMA ServerTypeInv ==
  ASSUME TypeInv,
         \/ \E c \in Conns : Send(c) \/ Close(c) \/ Accept(c)
         \/ AcceptFails \/ Join \/ Unwound
  PROVE  TypeInv'
<1> USE SizeAssumption, RequestsAssumption
    DEF TypeInv, TypeOK, SentSome, clientVars, poolVars, Workers
<1>1. ASSUME NEW c \in Conns, Send(c) PROVE TypeInv'
  BY <1>1 DEF Send
<1>2. ASSUME NEW c \in Conns, Close(c) PROVE TypeInv'
  BY <1>2 DEF Close
<1>3. ASSUME NEW c \in Conns, Accept(c) PROVE TypeInv'
  <2>1. Append(queue, c) \in Seq(Conns) /\ Append(accepted, c) \in Seq(Conns)
    OBVIOUS
  <2>2. \/ queue' = queue /\ accepted' = accepted
        \/ queue' = Append(queue, c) /\ accepted' = Append(accepted, c)
    BY <1>3 DEF Accept
  <2>3. queue' \in Seq(Conns) /\ accepted' \in Seq(Conns)
    BY <2>1, <2>2
  <2> QED
    BY <1>3, <2>3 DEF Accept
<1>4. CASE AcceptFails
  BY <1>4 DEF AcceptFails
<1>5. CASE Join
  BY <1>5 DEF Join
<1>6. CASE Unwound
  BY <1>6 DEF Unwound
<1> QED
  BY <1>1, <1>2, <1>3, <1>4, <1>5, <1>6

\* The steps of a worker keep the types.
LEMMA WorkTypeInv ==
  ASSUME TypeInv, NEW w \in Workers, Work(w)
  PROVE  TypeInv'
<1> USE SizeAssumption, NoConnAssumption
    DEF TypeInv, TypeOK, SentSome, clientVars, poolVars, ParserVars, Workers, Goto,
        Phases, Serving, Up
<1>1. CASE Lock(w)
  <2>1. /\ pc' \in [Workers -> Phases]
        /\ \A v \in Workers : pc'[v] \in Serving \cup {"panicked"}
                              <=> pc[v] \in Serving \cup {"panicked"}
    BY <1>1 DEF Lock
  <2> QED
    BY <1>1, <2>1 DEF Lock
<1>2. CASE Recv(w)
  <2>1. Head(queue) \in Conns /\ Tail(queue) \in Seq(Conns)
    BY <1>2 DEF Recv
  <2>2. started' \in Seq(Conns) /\ queue' \in Seq(Conns)
    BY <1>2, <2>1 DEF Recv
  <2>3. /\ pc' = [pc EXCEPT ![w] = "line"] /\ job' = [job EXCEPT ![w] = Head(queue)]
        /\ length' = [length EXCEPT ![w] = NoLength] /\ mutex' = 0
        /\ UNCHANGED <<request, sent, closed, server, joined, accepted, read>>
    BY <1>2 DEF Recv
  <2>4. \A v \in Workers : job'[v] # NoConn <=> pc'[v] \in Serving \cup {"panicked"}
    BY <2>1, <2>3
  <2>5. /\ pc' \in [Workers -> Phases]
        /\ job' \in [Workers -> Conns \cup {NoConn}]
        /\ length' \in [Workers -> Int]
    BY <2>1, <2>3 DEF NoLength
  <2>6. /\ request' \in Requests /\ sent' \in [Conns -> Nat] /\ read' \in [Conns -> Nat]
        /\ closed' \in [Conns -> BOOLEAN] /\ server' \in {"accept", "dropping", "aborted"}
        /\ joined' \in 0..Size /\ mutex' \in 0..Size /\ accepted' \in Seq(Conns)
        /\ SentSome'
    BY <2>3
  <2> HIDE DEF Workers, Phases, Serving, SentSome
  <2> QED
    BY <2>2, <2>4, <2>5, <2>6
<1>3. CASE Disconnected(w)
  <2>1. /\ pc' \in [Workers -> Phases]
        /\ \A v \in Workers : pc'[v] \in Serving \cup {"panicked"}
                              <=> pc[v] \in Serving \cup {"panicked"}
    BY <1>3 DEF Disconnected
  <2> QED
    BY <1>3, <2>1 DEF Disconnected
<1>4. CASE ParseRequestLine(w)
  <2>1. pc[w] = "line" /\ job[w] \in Conns
    BY <1>4 DEF ParseRequestLine
  <2>2. /\ pc' \in [Workers -> Phases]
        /\ \A v \in Workers : pc'[v] \in Serving \cup {"panicked"}
                              <=> pc[v] \in Serving \cup {"panicked"}
    <3>1. PICK x \in {"headers", "invalid"} : pc' = [pc EXCEPT ![w] = x]
      BY <1>4 DEF ParseRequestLine, Take
    <3> QED
      BY <2>1, <3>1
  <2>3. read' \in [Conns -> Nat]
    <3>1. \/ read' = read
          \/ read' = [read EXCEPT ![job[w]] = @ + 1]
      BY <1>4 DEF ParseRequestLine, Take
    <3>2. read \in [Conns -> Nat] /\ read[job[w]] + 1 \in Nat
      BY <2>1
    <3> HIDE DEF TypeInv, TypeOK, SentSome
    <3> QED
      BY <2>1, <3>1, <3>2
  <2> QED
    BY <1>4, <2>2, <2>3 DEF ParseRequestLine
<1>5. CASE ParseHeader(w)
  <2>1. pc[w] = "headers" /\ job[w] \in Conns
    BY <1>5 DEF ParseHeader
  <2>2. Has(w) /\ NextItem(w).item = "header" => NextItem(w).length \in Int
    <3>1. Has(w) => read[job[w]] + 1 \in 1..Len(request[job[w]])
      BY <2>1, RequestsAssumption DEF Has
    <3> QED
      BY <2>1, <3>1, RequestsAssumption DEF NextItem
  <2>3. length' \in [Workers -> Int]
    BY <1>5, <2>1, <2>2 DEF ParseHeader
  <2>4. read' \in [Conns -> Nat]
    BY <1>5, <2>1 DEF ParseHeader, Take
  <2>5. /\ pc' \in [Workers -> Phases]
        /\ \A v \in Workers : pc'[v] \in Serving \cup {"panicked"}
                              <=> pc[v] \in Serving \cup {"panicked"}
    BY <1>5, <2>1 DEF ParseHeader, Take
  <2> QED
    BY <1>5, <2>3, <2>4, <2>5 DEF ParseHeader
<1>6. CASE ResizePanics(w)
  <2>1. << >> \in Seq(Conns)
    OBVIOUS
  <2> QED
    BY <1>6, <2>1 DEF ResizePanics
<1>7. CASE ReadBody(w)
  <2>1. pc[w] = "body" /\ job[w] \in Conns
    BY <1>7 DEF ReadBody
  <2>2. read' \in [Conns -> Nat]
    BY <1>7, <2>1 DEF ReadBody
  <2>3. /\ pc' \in [Workers -> Phases]
        /\ \A v \in Workers : pc'[v] \in Serving \cup {"panicked"}
                              <=> pc[v] \in Serving \cup {"panicked"}
    BY <1>7, <2>1 DEF ReadBody
  <2> QED
    BY <1>7, <2>2, <2>3 DEF ReadBody
<1>8. CASE Respond(w)
  BY <1>8 DEF Respond
<1> QED
  BY <1>1, <1>2, <1>3, <1>4, <1>5, <1>6, <1>7, <1>8 DEF Work

\* Every step keeps the types.
LEMMA NextTypeInv == TypeInv /\ [Next]_vars => TypeInv'
<1> SUFFICES ASSUME TypeInv, [Next]_vars PROVE TypeInv'
  OBVIOUS
<1>1. CASE UNCHANGED vars
  BY <1>1 DEF vars, clientVars, poolVars, TypeInv, TypeOK, SentSome
<1>2. CASE Next
  BY <1>2, ServerTypeInv, WorkTypeInv DEF Next
<1> QED
  BY <1>1, <1>2

\* The types of the server, for any pool and any requests; a worker has a
\* connection exactly while it runs a job.
THEOREM TypeCorrect == Spec => []TypeOK
<1>1. TypeInv => TypeOK
  BY DEF TypeInv
<1> QED
  BY <1>1, InitTypeInv, NextTypeInv, PTL DEF Spec

-----------------------------------------------------------------------------
(* The receiver's lock *)

\* Every step leaves the lock with a worker in recv, or free.
LEMMA NextLockNotLost == TypeOK /\ LockNotLost /\ [Next]_vars => LockNotLost'
<1> SUFFICES ASSUME TypeOK, LockNotLost, [Next]_vars PROVE LockNotLost'
  OBVIOUS
<1> USE DEF TypeOK, LockNotLost, Workers, clientVars, poolVars
<1>1. CASE UNCHANGED vars
  BY <1>1 DEF vars
<1>2. ASSUME NEW c \in Conns, Send(c) \/ Close(c) \/ Accept(c) PROVE LockNotLost'
  BY <1>2 DEF Send, Close, Accept
<1>3. CASE AcceptFails \/ Join \/ Unwound
  BY <1>3 DEF AcceptFails, Join, Unwound
<1>4. ASSUME NEW w \in Workers, Work(w) PROVE LockNotLost'
  <2>1. CASE Lock(w)
    BY <2>1 DEF Lock, Goto
  <2>2. CASE Recv(w) \/ Disconnected(w)
    BY <2>2 DEF Recv, Disconnected
  <2>3. CASE ParseRequestLine(w) \/ ParseHeader(w) \/ ReadBody(w)
    <3>1. mutex' = mutex /\ pc[w] # "recv" /\ \A v \in Workers : v # w => pc'[v] = pc[v]
      BY <2>3 DEF ParseRequestLine, ParseHeader, ReadBody, ParserVars, Take, Goto
    <3> QED
      BY <3>1, SizeAssumption
  <2>4. CASE ResizePanics(w) \/ Respond(w)
    <3>1. mutex' = mutex /\ pc[w] # "recv" /\ \A v \in Workers : v # w => pc'[v] = pc[v]
      BY <2>4 DEF ResizePanics, Respond, Goto
    <3> QED
      BY <3>1, SizeAssumption
  <2> QED
    BY <1>4, <2>1, <2>2, <2>3, <2>4 DEF Work
<1> QED
  BY <1>1, <1>2, <1>3, <1>4 DEF Next

\* The lock is never lost: whatever job panics, its worker does not hold it.
THEOREM LockNotLostHolds == Spec => []LockNotLost
<1>1. Init => LockNotLost
  BY DEF Init, LockNotLost
<1> QED
  BY <1>1, TypeCorrect, NextLockNotLost, PTL DEF Spec

-----------------------------------------------------------------------------
(* The order of the jobs *)

\* What was started, then what is queued, is what was accepted, without the jobs
\* that were lost with the last worker; a connection is accepted once.
OrderInv ==
    /\ Len(started) + Len(queue) <= Len(accepted)
    /\ ~ReceiverDropped => Len(accepted) = Len(started) + Len(queue)
    /\ \A i \in 1..Len(started) : started[i] = accepted[i]
    /\ \A i \in 1..Len(queue) : queue[i] = accepted[Len(started) + i]
    /\ \A i, j \in 1..Len(accepted) : accepted[i] = accepted[j] => i = j

\* A worker that is neither dead nor ended keeps the receiver alive.
LEMMA WorkerKeepsReceiver ==
  ASSUME NEW w \in Workers, Work(w)
  PROVE  ~ReceiverDropped
BY DEF Work, Lock, Recv, Disconnected, ParseRequestLine, ParseHeader, ResizePanics,
       ReadBody, Respond, ReceiverDropped

\* What a step does to the channel: nothing, a job added, a job taken, or all lost.
LEMMA ChannelSteps ==
  ASSUME TypeOK, [Next]_vars
  PROVE  \/ /\ queue' = queue /\ accepted' = accepted /\ started' = started
            /\ ReceiverDropped => ReceiverDropped'
         \/ \E c \in Conns :
               /\ \A i \in 1..Len(accepted) : accepted[i] # c
               /\ ~ReceiverDropped
               /\ queue' = Append(queue, c) /\ accepted' = Append(accepted, c)
               /\ started' = started
         \/ /\ queue # << >> /\ ~ReceiverDropped
            /\ queue' = Tail(queue) /\ accepted' = accepted
            /\ started' = Append(started, Head(queue))
         \/ queue' = << >> /\ accepted' = accepted /\ started' = started /\ ReceiverDropped'
<1>1. CASE UNCHANGED vars
  BY <1>1 DEF vars, poolVars, ReceiverDropped
<1>2. ASSUME NEW c \in Conns, Send(c) \/ Close(c)
      PROVE  /\ queue' = queue /\ accepted' = accepted /\ started' = started
             /\ ReceiverDropped => ReceiverDropped'
  BY <1>2 DEF Send, Close, poolVars, ReceiverDropped
<1>3. CASE AcceptFails \/ Join \/ Unwound
  BY <1>3 DEF AcceptFails, Join, Unwound, poolVars, ReceiverDropped
<1>4. ASSUME NEW c \in Conns, Accept(c)
      PROVE  \/ /\ queue' = queue /\ accepted' = accepted /\ started' = started
                /\ ReceiverDropped => ReceiverDropped'
             \/ /\ \A i \in 1..Len(accepted) : accepted[i] # c
                /\ ~ReceiverDropped
                /\ queue' = Append(queue, c) /\ accepted' = Append(accepted, c)
                /\ started' = started
  <2>1. DOMAIN accepted = 1..Len(accepted)
    BY LenProperties DEF TypeOK
  <2>2. CASE ReceiverDropped
    BY <1>4, <2>2 DEF Accept, ReceiverDropped
  <2>3. CASE ~ReceiverDropped
    <3>1. \A i \in 1..Len(accepted) : accepted[i] # c
      BY <1>4, <2>1 DEF Accept
    <3> QED
      BY <1>4, <2>3, <3>1 DEF Accept
  <2> QED
    BY <2>2, <2>3
<1>5. ASSUME NEW w \in Workers, Work(w)
      PROVE  \/ queue' = queue /\ accepted' = accepted /\ started' = started
             \/ /\ queue # << >>
                /\ queue' = Tail(queue) /\ accepted' = accepted
                /\ started' = Append(started, Head(queue))
             \/ queue' = << >> /\ accepted' = accepted /\ started' = started /\ ReceiverDropped'
  <2>1. CASE Lock(w) \/ Disconnected(w) \/ Respond(w)
    BY <2>1 DEF Lock, Disconnected, Respond, poolVars
  <2>2. CASE Recv(w)
    BY <2>2 DEF Recv
  <2>3. CASE ParseRequestLine(w) \/ ParseHeader(w) \/ ReadBody(w)
    BY <2>3 DEF ParseRequestLine, ParseHeader, ReadBody, ParserVars, poolVars
  <2>4. CASE ResizePanics(w)
    <3>1. pc' = [pc EXCEPT ![w] = "panicked"]
      BY <2>4 DEF ResizePanics, Goto
    <3>2. CASE \A v \in Workers \ {w} : pc[v] \in {"panicked", "ended"}
      <4>1. ReceiverDropped'
        BY <3>1, <3>2 DEF ReceiverDropped, TypeOK
      <4> QED
        BY <2>4, <3>2, <4>1 DEF ResizePanics
    <3>3. CASE ~\A v \in Workers \ {w} : pc[v] \in {"panicked", "ended"}
      BY <2>4, <3>3 DEF ResizePanics
    <3> QED
      BY <3>2, <3>3
  <2> QED
    BY <1>5, <2>1, <2>2, <2>3, <2>4 DEF Work
<1>6. ASSUME NEW w \in Workers, Work(w) PROVE ~ReceiverDropped
  BY <1>6, WorkerKeepsReceiver
<1> QED
  BY <1>1, <1>2, <1>3, <1>4, <1>5, <1>6 DEF Next

\* The channel starts empty.
LEMMA InitOrderInv == Init => OrderInv
<1> SUFFICES ASSUME Init PROVE OrderInv
  OBVIOUS
<1>1. Len(queue) = 0 /\ Len(accepted) = 0 /\ Len(started) = 0
  BY DEF Init
<1> QED
  BY <1>1 DEF OrderInv

\* Every step keeps the order.
LEMMA NextOrderInv == TypeOK /\ OrderInv /\ [Next]_vars => OrderInv'
<1> SUFFICES ASSUME TypeOK, OrderInv, [Next]_vars PROVE OrderInv'
  OBVIOUS
<1>0. /\ queue \in Seq(Conns) /\ accepted \in Seq(Conns) /\ started \in Seq(Conns)
      /\ Len(queue) \in Nat /\ Len(accepted) \in Nat /\ Len(started) \in Nat
  BY LenProperties DEF TypeOK
<1>1. CASE /\ queue' = queue /\ accepted' = accepted /\ started' = started
           /\ ReceiverDropped => ReceiverDropped'
  BY <1>1 DEF OrderInv
<1>2. ASSUME NEW c \in Conns,
             \A i \in 1..Len(accepted) : accepted[i] # c,
             ~ReceiverDropped,
             queue' = Append(queue, c), accepted' = Append(accepted, c), started' = started
      PROVE  OrderInv'
  <2>1. /\ Len(queue') = Len(queue) + 1 /\ Len(accepted') = Len(accepted) + 1
        /\ \A i \in 1..Len(queue) : queue'[i] = queue[i]
        /\ \A i \in 1..Len(accepted) : accepted'[i] = accepted[i]
        /\ queue'[Len(queue) + 1] = c /\ accepted'[Len(accepted) + 1] = c
    BY <1>0, <1>2
  <2>2. Len(accepted) = Len(started) + Len(queue)
    BY <1>2 DEF OrderInv
  <2>3. Len(accepted') = Len(started') + Len(queue')
    BY <1>0, <1>2, <2>1, <2>2
  <2>4. \A i \in 1..Len(started') : started'[i] = accepted'[i]
    BY <1>0, <1>2, <2>1, <2>2 DEF OrderInv
  <2>5. \A i \in 1..Len(queue') : queue'[i] = accepted'[Len(started') + i]
    <3> SUFFICES ASSUME NEW i \in 1..Len(queue')
                 PROVE  queue'[i] = accepted'[Len(started) + i]
      BY <1>2
    <3>1. CASE i = Len(queue) + 1
      <4>1. Len(started) + i = Len(accepted) + 1
        BY <1>0, <2>2, <3>1
      <4> QED
        BY <2>1, <3>1, <4>1
    <3>2. CASE i # Len(queue) + 1
      <4>1. i \in 1..Len(queue) /\ Len(started) + i \in 1..Len(accepted)
        BY <1>0, <2>1, <2>2, <3>2
      <4> QED
        BY <2>1, <4>1 DEF OrderInv
    <3> QED
      BY <3>1, <3>2
  <2>6. \A i, j \in 1..Len(accepted') : accepted'[i] = accepted'[j] => i = j
    BY <1>0, <1>2, <2>1 DEF OrderInv
  <2>7. Len(started') + Len(queue') <= Len(accepted')
    BY <1>0, <1>2, <2>1, <2>2
  <2> QED
    BY <2>3, <2>4, <2>5, <2>6, <2>7 DEF OrderInv
<1>3. ASSUME queue # << >>, ~ReceiverDropped,
             queue' = Tail(queue), accepted' = accepted, started' = Append(started, Head(queue))
      PROVE  OrderInv'
  <2>1. /\ Len(queue') = Len(queue) - 1 /\ Len(queue) > 0
        /\ \A i \in 1..Len(queue') : queue'[i] = queue[i + 1]
        /\ Head(queue) = queue[1]
    BY <1>0, <1>3, HeadTailProperties, EmptySeq
  <2>2. /\ Len(started') = Len(started) + 1
        /\ \A i \in 1..Len(started) : started'[i] = started[i]
        /\ started'[Len(started) + 1] = queue[1]
    BY <1>0, <1>3, <2>1
  <2>3. Len(accepted') = Len(started') + Len(queue')
    BY <1>0, <1>3, <2>1, <2>2 DEF OrderInv
  <2>4. \A i \in 1..Len(started') : started'[i] = accepted'[i]
    BY <1>0, <1>3, <2>1, <2>2 DEF OrderInv
  <2>5. \A i \in 1..Len(queue') : queue'[i] = accepted'[Len(started') + i]
    BY <1>0, <1>3, <2>1, <2>2 DEF OrderInv
  <2>6. \A i, j \in 1..Len(accepted') : accepted'[i] = accepted'[j] => i = j
    BY <1>3 DEF OrderInv
  <2> QED
    BY <1>0, <1>3, <2>3, <2>4, <2>5, <2>6 DEF OrderInv
<1>4. CASE queue' = << >> /\ accepted' = accepted /\ started' = started /\ ReceiverDropped'
  <2>1. Len(queue') = 0
    BY <1>4
  <2> QED
    BY <1>0, <1>4, <2>1 DEF OrderInv
<1> QED
  BY <1>1, <1>2, <1>3, <1>4, ChannelSteps

\* Jobs start in the order of the connections and none is lost while a worker is
\* left, whatever the number of workers.
THEOREM StartOrderHolds == Spec => []StartOrder
<1>1. TypeOK /\ OrderInv => StartOrder
  <2> SUFFICES ASSUME TypeOK, OrderInv, ~ReceiverDropped PROVE accepted = started \o queue
    BY DEF StartOrder
  <2>1. queue \in Seq(Conns) /\ accepted \in Seq(Conns) /\ started \in Seq(Conns)
    BY DEF TypeOK
  <2>2. Len(queue) \in Nat /\ Len(accepted) \in Nat /\ Len(started) \in Nat
    BY <2>1, LenProperties
  <2>3. /\ started \o queue \in Seq(Conns)
        /\ Len(started \o queue) = Len(started) + Len(queue)
        /\ \A i \in 1 .. Len(started) + Len(queue) : (started \o queue)[i] =
              IF i <= Len(started) THEN started[i] ELSE queue[i - Len(started)]
    BY <2>1, ConcatProperties
  <2> DEFINE all == started \o queue
  <2>4. Len(accepted) = Len(all)
    BY <2>3 DEF OrderInv
  <2>5. \A i \in 1..Len(accepted) : accepted[i] = all[i]
    <3> SUFFICES ASSUME NEW i \in 1..Len(accepted) PROVE accepted[i] = all[i]
      OBVIOUS
    <3>1. CASE i <= Len(started)
      <4>1. i \in 1..Len(started) /\ i \in 1..Len(started) + Len(queue)
        BY <2>2, <3>1
      <4> QED
        BY <2>3, <3>1, <4>1 DEF OrderInv
    <3>2. CASE ~(i <= Len(started))
      <4>1. /\ i - Len(started) \in 1..Len(queue)
            /\ i \in 1..Len(started) + Len(queue) /\ ~(i <= Len(started))
            /\ Len(started) + (i - Len(started)) = i
        BY <2>2, <3>2 DEF OrderInv
      <4>2. all[i] = queue[i - Len(started)]
        BY <2>3, <4>1
      <4> QED
        BY <4>1, <4>2 DEF OrderInv
    <3> QED
      BY <3>1, <3>2
  <2> HIDE DEF all
  <2>6. all \in Seq(Conns)
    BY <2>3 DEF all
  <2>7. accepted = all
    BY <2>1, <2>4, <2>5, <2>6, SeqEqual
  <2> QED
    BY <2>7 DEF all
<1> QED
  BY <1>1, InitOrderInv, NextOrderInv, TypeCorrect, PTL DEF Spec

-----------------------------------------------------------------------------
(* One worker for each connection *)

Started(c) == \E i \in 1..Len(started) : started[i] = c

\* A worker serves a connection whose job was started, no two workers the same one,
\* and a connection whose job was not started is untouched.
JobInv ==
    /\ \A w \in Workers : job[w] # NoConn => Started(job[w])
    /\ \A v, w \in Workers : v # w /\ job[v] # NoConn => job[v] # job[w]
    /\ \A c \in Conns : ~Started(c) => reply[c] = NoReply /\ read[c] = 0

\* A step that leaves the channel and the jobs alone and touches no connection but
\* that of its worker keeps JobInv.
LEMMA ServingJobInv ==
  ASSUME TypeOK, JobInv, started' = started, NEW w \in Workers,
         \A v \in Workers : job'[v] \in {job[v], NoConn},
         job[w] # NoConn,
         \A c \in Conns : c # job[w] => reply'[c] = reply[c] /\ read'[c] = read[c]
  PROVE  JobInv'
<1>1. \A c : Started(c)' <=> Started(c)
  BY DEF Started
<1>2. Started(job[w])
  BY DEF JobInv
<1>3. ASSUME NEW v \in Workers, job'[v] # NoConn PROVE Started(job[v])'
  BY <1>1, <1>3 DEF JobInv
<1>4. ASSUME NEW u \in Workers, NEW v \in Workers, u # v, job'[u] # NoConn
      PROVE  job'[u] # job'[v]
  BY <1>4 DEF JobInv
<1>5. ASSUME NEW c \in Conns, ~Started(c)' PROVE reply'[c] = NoReply /\ read'[c] = 0
  BY <1>1, <1>2, <1>5 DEF JobInv
<1> QED
  BY <1>3, <1>4, <1>5 DEF JobInv

\* So does one that touches neither jobs nor connections.
LEMMA QuietJobInv ==
  ASSUME JobInv, started' = started, job' = job, reply' = reply, read' = read
  PROVE  JobInv'
BY DEF JobInv, Started

\* A worker that takes a job takes one that no other worker had.
LEMMA RecvJobInv ==
  ASSUME TypeOK, OrderInv, JobInv, NEW w \in Workers, Recv(w)
  PROVE  JobInv'
<1>0. /\ queue \in Seq(Conns) /\ accepted \in Seq(Conns) /\ started \in Seq(Conns)
      /\ Len(queue) \in Nat /\ Len(accepted) \in Nat /\ Len(started) \in Nat
  BY LenProperties DEF TypeOK
<1>c. PICK c : c = Head(queue)
  OBVIOUS
<1>1. c = queue[1] /\ c \in Conns /\ Len(queue) > 0
  BY <1>0, <1>c, HeadTailProperties, EmptySeq DEF Recv
<1>2. ~Started(c)
  <2>1. c = accepted[Len(started) + 1] /\ Len(started) + 1 \in 1..Len(accepted)
    BY <1>0, <1>1 DEF OrderInv
  <2>2. ASSUME NEW i \in 1..Len(started), started[i] = c PROVE FALSE
    <3>1. accepted[i] = c /\ i \in 1..Len(accepted) /\ i # Len(started) + 1
      BY <1>0, <2>2 DEF OrderInv
    <3> QED
      BY <2>1, <3>1 DEF OrderInv
  <2> QED
    BY <2>2 DEF Started
<1>3. /\ job' = [job EXCEPT ![w] = c] /\ started' = Append(started, c)
      /\ reply' = reply /\ read' = read
  BY <1>c DEF Recv
<1>4. /\ Len(started') = Len(started) + 1 /\ started'[Len(started) + 1] = c
      /\ \A i \in 1..Len(started) : started'[i] = started[i]
  BY <1>0, <1>1, <1>3
<1>5. Started(c)' /\ \A d : Started(d) => Started(d)'
  BY <1>0, <1>4 DEF Started
<1>6. \A v \in Workers : job'[v] = IF v = w THEN c ELSE job[v]
  BY <1>3 DEF TypeOK
<1>7. ASSUME NEW v \in Workers, job'[v] # NoConn PROVE Started(job[v])'
  BY <1>5, <1>6, <1>7 DEF JobInv
<1>8. ASSUME NEW u \in Workers, NEW v \in Workers, u # v, job'[u] # NoConn
      PROVE  job'[u] # job'[v]
  <2>1. \A x \in Workers : job[x] # c
    BY <1>1, <1>2, NoConnAssumption DEF JobInv
  <2> QED
    BY <1>6, <1>8, <2>1 DEF JobInv
<1>9. ASSUME NEW d \in Conns, ~Started(d)' PROVE reply'[d] = NoReply /\ read'[d] = 0
  BY <1>3, <1>5, <1>9 DEF JobInv
<1> QED
  BY <1>7, <1>8, <1>9 DEF JobInv

\* Every step keeps JobInv.
LEMMA NextJobInv == TypeOK /\ OrderInv /\ JobInv /\ [Next]_vars => JobInv'
<1> SUFFICES ASSUME TypeOK, OrderInv, JobInv, [Next]_vars PROVE JobInv'
  OBVIOUS
<1>1. CASE UNCHANGED vars
  BY <1>1, QuietJobInv DEF vars, poolVars
<1>2. ASSUME NEW c \in Conns, Send(c) \/ Close(c) \/ Accept(c) PROVE JobInv'
  BY <1>2, QuietJobInv DEF Send, Close, Accept, poolVars
<1>3. CASE AcceptFails \/ Join \/ Unwound
  BY <1>3, QuietJobInv DEF AcceptFails, Join, Unwound, poolVars
<1>4. ASSUME NEW w \in Workers, Work(w) PROVE JobInv'
  <2>1. CASE Lock(w) \/ Disconnected(w) \/ ResizePanics(w)
    BY <2>1, QuietJobInv DEF Lock, Disconnected, ResizePanics
  <2>2. CASE Recv(w)
    BY <2>2, RecvJobInv
  <2>3. CASE ParseRequestLine(w) \/ ParseHeader(w) \/ ReadBody(w)
    <3>1. started' = started /\ job' = job /\ reply' = reply
      BY <2>3 DEF ParseRequestLine, ParseHeader, ReadBody, ParserVars, poolVars
    <3>2. job[w] # NoConn
      BY <2>3 DEF ParseRequestLine, ParseHeader, ReadBody, TypeOK, Serving
    <3>3. \A c \in Conns : c # job[w] => read'[c] = read[c]
      BY <2>3 DEF ParseRequestLine, ParseHeader, ReadBody, Take, TypeOK
    <3> QED
      BY <3>1, <3>2, <3>3, ServingJobInv
  <2>4. CASE Respond(w)
    <3>1. started' = started /\ read' = read
      BY <2>4 DEF Respond, poolVars
    <3>2. job[w] # NoConn
      BY <2>4 DEF Respond, TypeOK, Serving
    <3>3. \A v \in Workers : job'[v] \in {job[v], NoConn}
      BY <2>4 DEF Respond, TypeOK
    <3>4. \A c \in Conns : c # job[w] => reply'[c] = reply[c]
      BY <2>4 DEF Respond
    <3> QED
      BY <3>1, <3>2, <3>3, <3>4, ServingJobInv
  <2> QED
    BY <1>4, <2>1, <2>2, <2>3, <2>4 DEF Work
<1> QED
  BY <1>1, <1>2, <1>3, <1>4 DEF Next

\* No connection is served by two workers, and one that is still in the channel is
\* served and answered by none, for any number of workers and connections.
THEOREM ServedOnceHolds == Spec => []ServedOnce
<1>1. Init => JobInv
  BY DEF Init, JobInv
<1>2. TypeOK /\ OrderInv /\ JobInv => ServedOnce
  <2> SUFFICES ASSUME TypeOK, OrderInv, JobInv,
                      NEW i \in DOMAIN queue
               PROVE  /\ queue[i] \in Conns
                      /\ ~Started(queue[i])
    BY NoConnAssumption DEF ServedOnce, JobInv
  <2>1. /\ queue \in Seq(Conns) /\ i \in 1..Len(queue)
        /\ Len(queue) \in Nat /\ Len(accepted) \in Nat /\ Len(started) \in Nat
    BY LenProperties DEF TypeOK
  <2>2. queue[i] \in Conns
    BY <2>1, ElementOfSeq
  <2>3. queue[i] = accepted[Len(started) + i] /\ Len(started) + i \in 1..Len(accepted)
    BY <2>1 DEF OrderInv
  <2>4. ASSUME NEW k \in 1..Len(started), started[k] = queue[i] PROVE FALSE
    <3>1. accepted[k] = queue[i] /\ k \in 1..Len(accepted) /\ k # Len(started) + i
      BY <2>1, <2>4 DEF OrderInv
    <3> QED
      BY <2>3, <3>1 DEF OrderInv
  <2> QED
    BY <2>2, <2>4 DEF Started
<1> QED
  BY <1>1, <1>2, InitOrderInv, NextOrderInv, NextJobInv, TypeCorrect, PTL DEF Spec

-----------------------------------------------------------------------------
(* The right answer *)

\* The header section of c holds headers only, up to item k.
HeadersTo(c, k) ==
    /\ k \in 1..sent[c]
    /\ request[c][1].item = "line"
    /\ \A i \in 2..k : request[c][i].item = "header"

\* Of the headers up to item k the first Content-Length is n, or there is none.
FirstLength(c, k, n) ==
    \/ n = NoLength /\ \A i \in 2..k : request[c][i].length = NoLength
    \/ /\ n # NoLength
       /\ \E i \in 2..k :
             /\ request[c][i].length = n
             /\ \A j \in 2..i - 1 : request[c][j].length = NoLength

\* The empty line follows item k, or the client closed after it.
EndsAfter(c, k) ==
    \/ k < sent[c] /\ request[c][k + 1].item = "end"
    \/ k = sent[c] /\ closed[c]

\* The request was read to its end; nothing the client still does changes that.
ReadWhole(c) ==
    \E k \in 1..sent[c], n \in Int :
        /\ HeadersTo(c, k) /\ FirstLength(c, k, n) /\ EndsAfter(c, k)
        /\ n > 0 => k + 1 + n <= sent[c]

\* The request was refused; nothing the client still does changes that.
Refused(c) ==
    \/ sent[c] = 0 /\ closed[c]
    \/ sent[c] > 0 /\ request[c][1].item # "line"
    \/ \E k \in 1..sent[c] :
          /\ HeadersTo(c, k) /\ k < sent[c]
          /\ request[c][k + 1].item \notin {"header", "end"}
    \/ \E k \in 1..sent[c], n \in Int :
          /\ HeadersTo(c, k) /\ FirstLength(c, k, n) /\ EndsAfter(c, k)
          /\ n > 0 /\ closed[c] /\ sent[c] < k + 1 + n

\* What a worker has established of its connection.
Parsed(w, c) ==
    /\ pc[w] = "line" => read[c] = 0 /\ length[w] = NoLength
    /\ pc[w] = "headers" => HeadersTo(c, read[c]) /\ FirstLength(c, read[c], length[w])
    /\ pc[w] = "body" =>
          \E k \in 1..sent[c] :
              /\ HeadersTo(c, k) /\ FirstLength(c, k, length[w]) /\ EndsAfter(c, k)
              /\ read[c] = IF k < sent[c] THEN k + 1 ELSE k
    /\ pc[w] = "valid" => ReadWhole(c)
    /\ pc[w] = "invalid" => Refused(c)

\* What an answer was given for.
Justified(c) ==
    \/ ReadWhole(c) /\ reply[c] = handle_request(request[c][1])
    \/ Refused(c) /\ reply[c] = new_404

AnswerInv ==
    /\ \A w \in Workers : job[w] \in Conns => Parsed(w, job[w])
    /\ \A c \in Conns : reply[c] # NoReply => Justified(c)

\* The items a client has sent are items of its request; those after the empty line
\* are bytes.
LEMMA SentItems ==
  ASSUME TypeInv, NEW c \in Conns
  PROVE  /\ sent[c] \in Nat
         /\ \A i \in 2..sent[c] : request[c][i].item = "end" =>
               \A j \in i + 1 .. sent[c] : request[c][j].item = "byte"
         /\ \A i \in 1..sent[c] : request[c][i].item = "header" => request[c][i].length \in Int
<1>1. request \in Requests /\ sent[c] \in Nat /\ sent[c] <= Len(request[c])
  BY DEF TypeInv, TypeOK, SentSome
<1>2. /\ Len(request[c]) \in Nat
      /\ \A i \in 1..Len(request[c]) : request[c][i].item = "header" => request[c][i].length \in Int
      /\ \A i \in 2..Len(request[c]) : request[c][i].item = "end" =>
            \A j \in i + 1 .. Len(request[c]) : request[c][j].item = "byte"
  BY <1>1, RequestsAssumption
<1> QED
  BY <1>1, <1>2

\* The section that Headers finds is the one a parser reads.
LEMMA HeadersAre ==
  ASSUME TypeInv, NEW c \in Conns, NEW k \in 1..sent[c], HeadersTo(c, k), EndsAfter(c, k)
  PROVE  Headers(c) = 2..k
<1> DEFINE end == {i \in 2..sent[c] : request[c][i].item = "end"}
           least == CHOOSE i \in end : \A j \in end : i <= j
<1>0. sent[c] \in Nat /\ k \in Nat
  BY SentItems
<1>h. \A i \in end : i > k
  BY <1>0 DEF HeadersTo
<1>1. Headers(c) = 2..(IF end = {} THEN sent[c] ELSE least - 1)
  BY DEF Headers
<1>2. CASE k < sent[c] /\ request[c][k + 1].item = "end"
  <2>1. k + 1 \in end /\ \A j \in end : k + 1 <= j
    BY <1>0, <1>h, <1>2
  <2>2. least \in end /\ \A j \in end : least <= j
    BY <2>1
  <2>3. least = k + 1
    BY <1>0, <2>1, <2>2
  <2> HIDE DEF least, end
  <2> QED
    BY <1>0, <1>1, <2>1, <2>3
<1>3. CASE k = sent[c]
  <2>1. end = {}
    BY <1>0, <1>h, <1>3
  <2> HIDE DEF least, end
  <2> QED
    BY <1>1, <1>3, <2>1
<1> QED
  BY <1>2, <1>3 DEF EndsAfter

\* The length that DeclaredLength finds is the one a parser keeps.
LEMMA LengthIs ==
  ASSUME TypeInv, NEW c \in Conns, NEW k \in 1..sent[c], NEW n \in Int,
         HeadersTo(c, k), FirstLength(c, k, n), Headers(c) = 2..k
  PROVE  DeclaredLength(c) = n
<1> DEFINE given == {i \in 2..k : request[c][i].item = "header" /\ request[c][i].length # NoLength}
           least == CHOOSE i \in given : \A j \in given : i <= j
<1>0. sent[c] \in Nat /\ k \in Nat
  BY SentItems
<1>1. DeclaredLength(c) = IF given = {} THEN NoLength ELSE request[c][least].length
  BY DEF DeclaredLength
<1>2. CASE n = NoLength /\ \A i \in 2..k : request[c][i].length = NoLength
  <2>1. given = {}
    BY <1>2
  <2> HIDE DEF least, given
  <2> QED
    BY <1>1, <1>2, <2>1
<1>3. CASE n # NoLength /\ \E i \in 2..k :
             /\ request[c][i].length = n
             /\ \A j \in 2..i - 1 : request[c][j].length = NoLength
  <2>1. PICK i \in 2..k : /\ request[c][i].length = n
                          /\ \A j \in 2..i - 1 : request[c][j].length = NoLength
    BY <1>3
  <2>2. i \in given /\ \A j \in given : i <= j
    BY <1>0, <1>3, <2>1 DEF HeadersTo
  <2>3. least \in given /\ \A j \in given : least <= j
    BY <2>2
  <2>4. least = i
    BY <1>0, <2>2, <2>3
  <2> HIDE DEF least, given
  <2> QED
    BY <1>1, <2>1, <2>2, <2>4
<1> QED
  BY <1>2, <1>3 DEF FirstLength

\* A request that was read to its end deserves its route.
LEMMA ReadWholeIsWellFormed ==
  ASSUME TypeInv, NEW c \in Conns, ReadWhole(c)
  PROVE  WellFormed(c)
<1>1. PICK k \in 1..sent[c], n \in Int :
         /\ HeadersTo(c, k) /\ FirstLength(c, k, n) /\ EndsAfter(c, k)
         /\ n > 0 => k + 1 + n <= sent[c]
  BY DEF ReadWhole
<1>2. sent[c] \in Nat /\ k \in Nat
  BY SentItems
<1>3. Headers(c) = 2..k
  BY <1>1, HeadersAre
<1>4. DeclaredLength(c) = n
  BY <1>1, <1>3, LengthIs
<1>5. ASSUME n > 0
      PROVE  \E f \in [1..n -> Bytes(c)] : \A i, j \in 1..n : f[i] = f[j] => i = j
  <2> DEFINE f == [i \in 1..n |-> k + 1 + i]
  <2>1. k < sent[c] /\ request[c][k + 1].item = "end" /\ k + 1 + n <= sent[c]
    BY <1>1, <1>2, <1>5 DEF EndsAfter
  <2>2. ASSUME NEW i \in 1..n PROVE k + 1 + i \in Bytes(c)
    <3>1. k + 1 + i \in 1..sent[c] /\ k + 1 + i \notin 2..k /\ k + 1 \in 2..sent[c]
          /\ k + 1 + i \in (k + 1) + 1 .. sent[c]
      BY <1>2, <2>1
    <3>2. request[c][k + 1 + i].item = "byte"
      BY <2>1, <3>1, SentItems
    <3> QED
      BY <1>3, <3>1, <3>2 DEF Bytes
  <2>3. f \in [1..n -> Bytes(c)]
    BY <2>2
  <2>4. \A i, j \in 1..n : f[i] = f[j] => i = j
    BY <1>2
  <2> QED
    BY <2>3, <2>4
<1>6. /\ sent[c] > 0 /\ request[c][1].item = "line"
      /\ \A i \in Headers(c) : request[c][i].item = "header"
  BY <1>1, <1>2, <1>3 DEF HeadersTo
<1> QED
  BY <1>4, <1>5, <1>6 DEF WellFormed

\* A request that was refused deserves none.
LEMMA RefusedIsNotWellFormed ==
  ASSUME TypeInv, NEW c \in Conns, Refused(c), WellFormed(c)
  PROVE  FALSE
<1>0. sent[c] \in Nat
  BY SentItems
<1>1. CASE sent[c] = 0 \/ request[c][1].item # "line"
  BY <1>1 DEF WellFormed
<1>2. ASSUME NEW k \in 1..sent[c], HeadersTo(c, k), k < sent[c],
             request[c][k + 1].item \notin {"header", "end"}
      PROVE  FALSE
  <2> DEFINE end == {i \in 2..sent[c] : request[c][i].item = "end"}
             least == CHOOSE i \in end : \A j \in end : i <= j
  <2>1. k \in Nat /\ \A i \in end : i > k + 1
    BY <1>0, <1>2 DEF HeadersTo
  <2>2. Headers(c) = 2..(IF end = {} THEN sent[c] ELSE least - 1)
    BY DEF Headers
  <2>3. k + 1 \in Headers(c)
    <3>1. CASE end = {}
      <4> HIDE DEF least, end
      <4> QED
        BY <1>0, <1>2, <2>1, <2>2, <3>1
    <3>2. CASE end # {}
      <4>1. PICK e \in end : TRUE
        BY <3>2
      <4>2. \A j \in end : ~(e < j) /\ ~(j < e)
        BY <1>0, <4>1, SentItems
      <4>3. \A j \in end : e <= j
        BY <1>0, <4>1, <4>2
      <4>4. least \in end
        BY <4>1, <4>3
      <4> HIDE DEF least
      <4>5. least \in Int /\ least > k + 1
        BY <1>0, <2>1, <4>4
      <4> HIDE DEF end
      <4> QED
        BY <2>1, <2>2, <3>2, <4>5
    <3> QED
      BY <3>1, <3>2
  <2> QED
    BY <1>2, <2>3 DEF WellFormed
<1>3. ASSUME NEW k \in 1..sent[c], NEW n \in Int,
             HeadersTo(c, k), FirstLength(c, k, n), EndsAfter(c, k),
             n > 0, sent[c] < k + 1 + n
      PROVE  FALSE
  <2>1. k \in Nat
    BY <1>0
  <2>2. Headers(c) = 2..k
    BY <1>3, HeadersAre
  <2>3. DeclaredLength(c) = n
    BY <1>3, <2>2, LengthIs
  <2>4. PICK f \in [1..n -> Bytes(c)] : \A i, j \in 1..n : f[i] = f[j] => i = j
    BY <1>3, <2>3 DEF WellFormed
  <2>5. Bytes(c) \in SUBSET (k + 2 .. sent[c])
    <3> SUFFICES ASSUME NEW i \in Bytes(c) PROVE i \in k + 2 .. sent[c]
      OBVIOUS
    <3>1. i \in 1..sent[c] /\ i \notin 2..k /\ request[c][i].item = "byte"
      BY <2>2 DEF Bytes
    <3>2. i # 1 /\ (k < sent[c] => i # k + 1)
      BY <1>3, <3>1 DEF HeadersTo, EndsAfter
    <3> QED
      BY <1>0, <2>1, <3>1, <3>2
  <2>6. /\ IsFiniteSet(k + 2 .. sent[c])
        /\ Cardinality(k + 2 .. sent[c]) < n
    <3>0. k + 2 \in Int /\ sent[c] \in Int
      BY <1>0, <2>1
    <3>1. Cardinality(k + 2 .. sent[c]) = IF k + 2 > sent[c] THEN 0 ELSE sent[c] - (k + 2) + 1
      BY <3>0, FS_Interval, Zenon
    <3>2. IsFiniteSet(k + 2 .. sent[c])
      BY <3>0, FS_Interval, Zenon
    <3> QED
      BY <1>0, <1>3, <2>1, <3>1, <3>2
  <2>7. /\ IsFiniteSet(Bytes(c))
        /\ Cardinality(Bytes(c)) <= Cardinality(k + 2 .. sent[c])
    BY <2>5, <2>6, FS_Subset
  <2>8. IsFiniteSet(1..n) /\ Cardinality(1..n) = n
    BY <1>3, FS_Interval
  <2>9. Cardinality(Bytes(c)) < Cardinality(1..n)
    <3>1. Cardinality(Bytes(c)) \in Nat /\ Cardinality(k + 2 .. sent[c]) \in Nat
      BY <2>6, <2>7, FS_CardinalityType
    <3> QED
      BY <2>6, <2>7, <2>8, <3>1
  <2>10. \E i, j \in 1..n : i # j /\ f[i] = f[j]
    BY <2>7, <2>8, <2>9, FS_PigeonHole
  <2> QED
    BY <2>4, <2>10
<1> QED
  BY <1>1, <1>2, <1>3 DEF Refused

\* A client sends more or closes, and after that sends nothing.
ClientGoesOn(c) ==
    /\ request' = request
    /\ sent'[c] \in Nat /\ sent[c] <= sent'[c]
    /\ closed[c] => closed'[c] /\ sent'[c] = sent[c]

\* That is all that a step does to a client.
LEMMA ClientSteps ==
  ASSUME TypeInv, [Next]_vars, NEW c \in Conns
  PROVE  ClientGoesOn(c)
<1>0. sent \in [Conns -> Nat] /\ closed \in [Conns -> BOOLEAN]
  BY DEF TypeInv, TypeOK
<1>1. ASSUME NEW d \in Conns, Send(d) \/ Close(d) PROVE ClientGoesOn(c)
  BY <1>0, <1>1 DEF Send, Close, ClientGoesOn
<1>2. ASSUME UNCHANGED clientVars PROVE ClientGoesOn(c)
  BY <1>0, <1>2 DEF clientVars, ClientGoesOn
<1>3. \/ \E d \in Conns : Send(d) \/ Close(d)
      \/ UNCHANGED clientVars
  BY DEF Next, Work, vars, Accept, AcceptFails, Join, Unwound, Lock, Recv, Disconnected,
         ParseRequestLine, ParseHeader, ResizePanics, ReadBody, Respond, ParserVars
<1> QED
  BY <1>1, <1>2, <1>3

\* What was read of a request stays as it is.
LEMMA ReadStays ==
  ASSUME TypeInv, NEW c \in Conns, ClientGoesOn(c), NEW k \in 1..sent[c]
  PROVE  /\ k \in 1..sent'[c]
         /\ HeadersTo(c, k) => HeadersTo(c, k)'
         /\ \A n : FirstLength(c, k, n) => FirstLength(c, k, n)'
         /\ EndsAfter(c, k) => EndsAfter(c, k)'
<1>0. sent[c] \in Nat /\ sent'[c] \in Nat /\ k \in Nat
  BY SentItems DEF ClientGoesOn
<1>1. k \in 1..sent'[c]
  BY <1>0 DEF ClientGoesOn
<1>2. HeadersTo(c, k) => HeadersTo(c, k)'
  BY <1>1 DEF HeadersTo, ClientGoesOn
<1>3. \A n : FirstLength(c, k, n) => FirstLength(c, k, n)'
  BY DEF FirstLength, ClientGoesOn
<1>4. EndsAfter(c, k) => EndsAfter(c, k)'
  BY <1>0 DEF EndsAfter, ClientGoesOn
<1> QED
  BY <1>1, <1>2, <1>3, <1>4

\* So does the verdict on it, whatever the client does next.
LEMMA VerdictStays ==
  ASSUME TypeInv, NEW c \in Conns, ClientGoesOn(c)
  PROVE  /\ ReadWhole(c) => ReadWhole(c)'
         /\ Refused(c) => Refused(c)'
<1>0. sent[c] \in Nat /\ sent'[c] \in Nat /\ sent[c] <= sent'[c] /\ request' = request
  BY SentItems DEF ClientGoesOn
<1>1. ASSUME ReadWhole(c) PROVE ReadWhole(c)'
  <2>1. PICK k \in 1..sent[c], n \in Int :
           /\ HeadersTo(c, k) /\ FirstLength(c, k, n) /\ EndsAfter(c, k)
           /\ n > 0 => k + 1 + n <= sent[c]
    BY <1>1 DEF ReadWhole
  <2>2. /\ k \in 1..sent'[c] /\ HeadersTo(c, k)' /\ FirstLength(c, k, n)'
        /\ EndsAfter(c, k)'
    BY <2>1, ReadStays
  <2>3. n > 0 => k + 1 + n <= sent'[c]
    BY <1>0, <2>1
  <2> QED
    BY <2>2, <2>3 DEF ReadWhole
<1>2. ASSUME Refused(c) PROVE Refused(c)'
  <2>1. CASE sent[c] = 0 /\ closed[c]
    BY <2>1 DEF Refused, ClientGoesOn
  <2>2. CASE sent[c] > 0 /\ request[c][1].item # "line"
    BY <1>0, <2>2 DEF Refused
  <2>3. ASSUME NEW k \in 1..sent[c], HeadersTo(c, k), k < sent[c],
               request[c][k + 1].item \notin {"header", "end"}
        PROVE  Refused(c)'
    <3>1. k \in 1..sent'[c] /\ HeadersTo(c, k)' /\ k < sent'[c]
      BY <1>0, <2>3, ReadStays
    <3> QED
      BY <1>0, <2>3, <3>1 DEF Refused
  <2>4. ASSUME NEW k \in 1..sent[c], NEW n \in Int,
               HeadersTo(c, k), FirstLength(c, k, n), EndsAfter(c, k),
               n > 0, closed[c], sent[c] < k + 1 + n
        PROVE  Refused(c)'
    <3>1. /\ k \in 1..sent'[c] /\ HeadersTo(c, k)' /\ FirstLength(c, k, n)'
          /\ EndsAfter(c, k)'
      BY <2>4, ReadStays
    <3>2. closed'[c] /\ sent'[c] < k + 1 + n
      BY <2>4 DEF ClientGoesOn
    <3> QED
      BY <2>4, <3>1, <3>2 DEF Refused
  <2> QED
    BY <1>2, <2>1, <2>2, <2>3, <2>4 DEF Refused
<1> QED
  BY <1>1, <1>2

\* A worker that does not move keeps what it has established.
LEMMA ParsedStays ==
  ASSUME TypeInv, NEW c \in Conns, ClientGoesOn(c), NEW w \in Workers, Parsed(w, c),
         pc'[w] = pc[w], length'[w] = length[w], read'[c] = read[c]
  PROVE  Parsed(w, c)'
<1>0. sent[c] \in Nat /\ sent'[c] \in Nat
  BY SentItems DEF ClientGoesOn
<1>1. CASE pc[w] = "headers"
  <2>1. /\ read[c] \in 1..sent[c]
        /\ HeadersTo(c, read[c]) /\ FirstLength(c, read[c], length[w])
    BY <1>1 DEF Parsed, HeadersTo
  <2>2. PICK k \in 1..sent[c] : k = read[c]
    BY <2>1
  <2>3. HeadersTo(c, k)' /\ FirstLength(c, k, length[w])'
    <3>1. PICK n : n = length[w]
      OBVIOUS
    <3>2. HeadersTo(c, k)' /\ FirstLength(c, k, n)'
      BY <2>1, <2>2, <3>1, ReadStays
    <3> QED
      BY <3>1, <3>2
  <2>4. HeadersTo(c, read[c])' /\ FirstLength(c, read[c], length[w])'
    BY <2>2, <2>3
  <2> QED
    BY <1>1, <2>4 DEF Parsed
<1>2. CASE pc[w] = "body"
  <2>1. PICK k \in 1..sent[c] :
           /\ HeadersTo(c, k) /\ FirstLength(c, k, length[w]) /\ EndsAfter(c, k)
           /\ read[c] = IF k < sent[c] THEN k + 1 ELSE k
    BY <1>2 DEF Parsed
  <2>2. PICK n : n = length[w]
    OBVIOUS
  <2>3. /\ k \in 1..sent'[c] /\ HeadersTo(c, k)' /\ FirstLength(c, k, n)'
        /\ EndsAfter(c, k)'
    BY <2>1, <2>2, ReadStays
  <2>4. FirstLength(c, k, length[w])'
    BY <2>2, <2>3
  <2>5. read'[c] = IF k < sent'[c] THEN k + 1 ELSE k
    BY <1>0, <2>1 DEF EndsAfter, ClientGoesOn
  <2> QED
    BY <1>2, <2>3, <2>4, <2>5 DEF Parsed
<1>3. CASE pc[w] \in {"valid", "invalid"}
  BY <1>3, VerdictStays DEF Parsed
<1>4. CASE pc[w] \notin {"headers", "body", "valid", "invalid"}
  BY <1>4 DEF Parsed
<1> QED
  BY <1>1, <1>2, <1>3, <1>4

\* The worker that reads the request line knows whether there is one.
LEMMA LineParsed ==
  ASSUME TypeInv, NEW w \in Workers, NEW c \in Conns, job[w] = c, Parsed(w, c),
         ParseRequestLine(w)
  PROVE  Parsed(w, c)'
<1>0. /\ sent' = sent /\ request' = request /\ closed' = closed /\ length' = length
      /\ sent[c] \in Nat /\ read[c] = 0 /\ read \in [Conns -> Nat] /\ pc \in [Workers -> Phases]
  BY SentItems DEF ParseRequestLine, ParserVars, clientVars, Parsed, TypeInv, TypeOK
<1>1. CASE Has(w) /\ NextItem(w).item = "line"
  <2>1. pc'[w] = "headers" /\ read'[c] = 1 /\ sent[c] >= 1 /\ request[c][1].item = "line"
    BY <1>0, <1>1 DEF ParseRequestLine, Take, Goto, Has, AtEof, NextItem
  <2>2. length[w] = NoLength
    BY DEF ParseRequestLine, Parsed
  <2>3. HeadersTo(c, read[c])' /\ FirstLength(c, read[c], length[w])'
    BY <1>0, <2>1, <2>2 DEF HeadersTo, FirstLength
  <2> QED
    BY <2>1, <2>3 DEF Parsed
<1>2. CASE Has(w) /\ NextItem(w).item # "line"
  <2>1. pc'[w] = "invalid" /\ sent[c] > 0 /\ request[c][1].item # "line"
    BY <1>0, <1>2 DEF ParseRequestLine, Take, Goto, Has, AtEof, NextItem
  <2> QED
    BY <1>0, <2>1 DEF Parsed, Refused
<1>3. CASE ~Has(w)
  <2>1. pc'[w] = "invalid" /\ sent[c] = 0 /\ closed[c]
    BY <1>0, <1>3 DEF ParseRequestLine, Take, Goto, Has, AtEof
  <2> QED
    BY <1>0, <2>1 DEF Parsed, Refused
<1> QED
  BY <1>1, <1>2, <1>3

\* The worker that reads a header, the end of the section or the end of the input
\* knows the section up to there.
LEMMA HeaderParsed ==
  ASSUME TypeInv, NEW w \in Workers, NEW c \in Conns, job[w] = c, Parsed(w, c),
         ParseHeader(w)
  PROVE  Parsed(w, c)'
<1>0. /\ sent' = sent /\ request' = request /\ closed' = closed
      /\ sent[c] \in Nat /\ read \in [Conns -> Nat] /\ pc \in [Workers -> Phases]
      /\ length \in [Workers -> Int]
  BY SentItems DEF ParseHeader, ParserVars, clientVars, TypeInv, TypeOK
<1>k. PICK k \in Nat : k = read[c]
  BY <1>0
<1>1. k \in 1..sent[c] /\ HeadersTo(c, k) /\ FirstLength(c, k, length[w])
  BY <1>k DEF ParseHeader, Parsed, HeadersTo
<1>2. HeadersTo(c, k)' /\ (EndsAfter(c, k) => EndsAfter(c, k)')
  BY <1>0, <1>1 DEF HeadersTo, EndsAfter
<1>3. CASE /\ Has(w) /\ NextItem(w).item = "header"
           /\ Take(w, "headers")
           /\ length' = [length EXCEPT ![w] = IF @ = NoLength THEN NextItem(w).length ELSE @]
  <2>1. /\ pc'[w] = "headers" /\ read'[c] = k + 1 /\ k + 1 \in 1..sent[c]
        /\ request[c][k + 1].item = "header"
        /\ length'[w] = IF length[w] = NoLength THEN request[c][k + 1].length ELSE length[w]
    BY <1>0, <1>1, <1>3, <1>k DEF Take, Goto, Has, NextItem
  <2>2. \A i \in 2..k + 1 : i \in 2..k \/ i = k + 1
    BY <1>1
  <2>3. HeadersTo(c, read[c])'
    BY <1>0, <1>1, <2>1, <2>2 DEF HeadersTo
  <2>4. FirstLength(c, k + 1, length'[w])
    <3>1. CASE length[w] = NoLength
      <4>1. \A i \in 2..k : request[c][i].length = NoLength
        BY <1>1, <3>1 DEF FirstLength
      <4>2. k + 1 \in 2..k + 1 /\ (k + 1) - 1 = k
        BY <1>1
      <4>3. length'[w] = request[c][k + 1].length
        BY <2>1, <3>1
      <4>4. CASE length'[w] = NoLength
        BY <2>2, <4>1, <4>3, <4>4 DEF FirstLength
      <4>5. CASE length'[w] # NoLength
        BY <4>1, <4>2, <4>3, <4>5 DEF FirstLength
      <4> QED
        BY <4>4, <4>5
    <3>2. CASE length[w] # NoLength
      <4>1. PICK i \in 2..k : /\ request[c][i].length = length[w]
                              /\ \A j \in 2..i - 1 : request[c][j].length = NoLength
        BY <1>1, <3>2 DEF FirstLength
      <4>2. i \in 2..k + 1
        BY <1>1, <4>1
      <4>3. length'[w] = length[w]
        BY <2>1, <3>2
      <4> QED
        BY <3>2, <4>1, <4>2, <4>3 DEF FirstLength
    <3> QED
      BY <3>1, <3>2
  <2>5. FirstLength(c, read[c], length[w])'
    BY <1>0, <2>1, <2>4 DEF FirstLength
  <2> QED
    BY <2>1, <2>3, <2>5 DEF Parsed
<1>4. CASE Has(w) /\ NextItem(w).item = "end" /\ Take(w, "body") /\ UNCHANGED length
  <2>1. /\ pc'[w] = "body" /\ read'[c] = k + 1 /\ k < sent[c]
        /\ request[c][k + 1].item = "end"
    BY <1>0, <1>1, <1>4, <1>k DEF Take, Goto, Has, NextItem
  <2>2. EndsAfter(c, k)' /\ FirstLength(c, k, length[w])'
    BY <1>0, <1>1, <1>4, <2>1 DEF EndsAfter, FirstLength
  <2>3. \E j \in 1..sent'[c] :
           /\ HeadersTo(c, j)' /\ FirstLength(c, j, length[w])' /\ EndsAfter(c, j)'
           /\ read'[c] = IF j < sent'[c] THEN j + 1 ELSE j
    BY <1>0, <1>1, <1>2, <2>1, <2>2
  <2> QED
    BY <2>1, <2>3 DEF Parsed
<1>5. CASE Has(w) /\ NextItem(w).item \notin {"header", "end"} /\ Take(w, "invalid")
  <2>1. /\ pc'[w] = "invalid" /\ k < sent[c]
        /\ request[c][k + 1].item \notin {"header", "end"}
    BY <1>0, <1>5, <1>k DEF Take, Goto, Has, NextItem
  <2>2. Refused(c)'
    BY <1>0, <1>1, <1>2, <2>1 DEF Refused
  <2> QED
    BY <2>1, <2>2 DEF Parsed
<1>6. CASE AtEof(w) /\ Goto(w, "body") /\ UNCHANGED <<read, length>>
  <2>1. pc'[w] = "body" /\ read'[c] = k /\ k = sent[c] /\ closed[c]
    BY <1>0, <1>1, <1>6, <1>k DEF Goto, AtEof, Has
  <2>2. EndsAfter(c, k)' /\ FirstLength(c, k, length[w])'
    BY <1>0, <1>1, <1>6, <2>1 DEF EndsAfter, FirstLength
  <2>3. \E j \in 1..sent'[c] :
           /\ HeadersTo(c, j)' /\ FirstLength(c, j, length[w])' /\ EndsAfter(c, j)'
           /\ read'[c] = IF j < sent'[c] THEN j + 1 ELSE j
    BY <1>0, <1>1, <1>2, <2>1, <2>2
  <2> QED
    BY <2>1, <2>3 DEF Parsed
<1> QED
  BY <1>3, <1>4, <1>5, <1>6 DEF ParseHeader

\* The worker that reads the body, or finds it cut short, knows the verdict.
LEMMA BodyParsed ==
  ASSUME TypeInv, NEW w \in Workers, NEW c \in Conns, job[w] = c, Parsed(w, c),
         ReadBody(w)
  PROVE  Parsed(w, c)'
<1>0. /\ sent' = sent /\ request' = request /\ closed' = closed /\ length' = length
      /\ sent[c] \in Nat /\ pc \in [Workers -> Phases] /\ length[w] \in Int
  BY SentItems DEF ReadBody, ParserVars, clientVars, TypeInv, TypeOK
<1>c. ClientGoesOn(c)
  BY <1>0 DEF ClientGoesOn
<1>1. PICK k \in 1..sent[c] :
         /\ HeadersTo(c, k) /\ FirstLength(c, k, length[w]) /\ EndsAfter(c, k)
         /\ read[c] = IF k < sent[c] THEN k + 1 ELSE k
  BY DEF ReadBody, Parsed
<1>2. \/ pc'[w] = "valid" /\ length[w] \in {NoLength, NotANumber}
      \/ pc'[w] = "valid" /\ length[w] >= 0 /\ sent[c] - read[c] >= length[w]
      \/ pc'[w] = "invalid" /\ closed[c] /\ sent[c] - read[c] < length[w]
  BY <1>0 DEF ReadBody, Goto
<1>3. CASE pc'[w] = "valid"
  <2>1. length[w] > 0 => k + 1 + length[w] <= sent[c]
    BY <1>0, <1>1, <1>2, <1>3 DEF NoLength, NotANumber
  <2>2. ReadWhole(c)
    BY <1>0, <1>1, <2>1 DEF ReadWhole
  <2>3. ReadWhole(c)'
    BY <1>c, <2>2, VerdictStays
  <2> QED
    BY <1>3, <2>3 DEF Parsed
<1>4. CASE pc'[w] = "invalid"
  <2>1. closed[c] /\ length[w] > 0 /\ sent[c] < k + 1 + length[w]
    BY <1>0, <1>1, <1>2, <1>4
  <2>2. Refused(c)
    BY <1>0, <1>1, <2>1 DEF Refused
  <2>3. Refused(c)'
    BY <1>c, <2>2, VerdictStays
  <2> QED
    BY <1>4, <2>3 DEF Parsed
<1> QED
  BY <1>2, <1>3, <1>4

\* A worker that takes a job finds a connection of which nothing was read.
LEMMA RecvParsed ==
  ASSUME TypeInv, ServedOnce, NEW w \in Workers, Recv(w)
  PROVE  job'[w] \in Conns /\ Parsed(w, job[w])'
<1>1. queue \in Seq(Conns) /\ queue # << >> /\ pc \in [Workers -> Phases]
      /\ job \in [Workers -> Conns \cup {NoConn}] /\ length \in [Workers -> Int]
  BY DEF Recv, TypeInv, TypeOK
<1>2. Head(queue) = queue[1] /\ 1 \in DOMAIN queue /\ Head(queue) \in Conns
  BY <1>1, HeadTailProperties, EmptySeq
<1>3. read[Head(queue)] = 0
  BY <1>2 DEF ServedOnce
<1>4. /\ job'[w] = Head(queue) /\ pc'[w] = "line" /\ length'[w] = NoLength
      /\ read' = read
  BY <1>1 DEF Recv, Goto
<1> QED
  BY <1>2, <1>3, <1>4 DEF Parsed

\* Every step of a worker keeps what the workers have established.
LEMMA WorkParsed ==
  ASSUME TypeInv, ServedOnce, AnswerInv, NEW w \in Workers, Work(w),
         \A c \in Conns : ClientGoesOn(c),
         NEW v \in Workers, job'[v] \in Conns
  PROVE  Parsed(v, job[v])'
<1>0. /\ pc \in [Workers -> Phases] /\ job \in [Workers -> Conns \cup {NoConn}]
      /\ length \in [Workers -> Int] /\ read \in [Conns -> Nat]
      /\ job[w] = NoConn \/ job[w] \in Conns
      /\ NoConn \notin Conns
      /\ job[w] # NoConn <=> pc[w] \in Serving \cup {"panicked"}
  BY NoConnAssumption DEF TypeInv, TypeOK
<1>1. CASE v # w
  <2>1. PICK c \in Conns : c = job[v]
    <3>1. job'[v] = job[v]
      BY <1>0, <1>1 DEF Work, Lock, Recv, Disconnected, ParseRequestLine, ParseHeader,
            ResizePanics, ReadBody, Respond, ParserVars
    <3> QED
      BY <3>1
  <2>2. job[w] # c
    BY <1>0, <1>1, <2>1 DEF ServedOnce
  <2>3. pc'[v] = pc[v] /\ length'[v] = length[v] /\ job'[v] = job[v]
    BY <1>0, <1>1 DEF Work, Lock, Recv, Disconnected, ParseRequestLine, ParseHeader,
          ResizePanics, ReadBody, Respond, ParserVars, Take, Goto
  <2>4. read'[c] = read[c]
    BY <1>0, <2>2 DEF Work, Lock, Recv, Disconnected, ParseRequestLine, ParseHeader,
          ResizePanics, ReadBody, Respond, ParserVars, Take, Goto
  <2>5. Parsed(v, c)
    BY <2>1 DEF AnswerInv
  <2>6. Parsed(v, c)'
    BY <2>3, <2>4, <2>5, ParsedStays
  <2> QED
    BY <2>1, <2>3, <2>6
<1>2. CASE v = w
  <2>1. CASE Lock(w) \/ Disconnected(w)
    BY <1>0, <1>2, <2>1 DEF Lock, Disconnected, Serving
  <2>2. CASE Recv(w)
    BY <1>2, <2>2, RecvParsed
  <2>3. CASE ParseRequestLine(w) \/ ParseHeader(w) \/ ReadBody(w)
    <3>1. job' = job
      BY <2>3 DEF ParseRequestLine, ParseHeader, ReadBody, ParserVars
    <3>2. PICK c \in Conns : c = job[w]
      BY <1>2, <3>1
    <3>3. Parsed(w, c)
      BY <3>2 DEF AnswerInv
    <3>4. Parsed(w, c)'
      BY <2>3, <3>2, <3>3, LineParsed, HeaderParsed, BodyParsed
    <3> QED
      BY <1>2, <3>1, <3>2, <3>4
  <2>4. CASE ResizePanics(w)
    <3>1. pc'[w] = "panicked"
      BY <1>0, <2>4 DEF ResizePanics, Goto
    <3> QED
      BY <1>2, <3>1 DEF Parsed
  <2>5. CASE Respond(w)
    <3>1. job'[w] = NoConn
      BY <1>0, <2>5 DEF Respond
    <3> QED
      BY <1>0, <1>2, <3>1
  <2> QED
    BY <2>1, <2>2, <2>3, <2>4, <2>5 DEF Work
<1> QED
  BY <1>1, <1>2

\* Every step keeps AnswerInv.
LEMMA NextAnswerInv == TypeInv /\ ServedOnce /\ AnswerInv /\ [Next]_vars => AnswerInv'
<1> SUFFICES ASSUME TypeInv, ServedOnce, AnswerInv, [Next]_vars PROVE AnswerInv'
  OBVIOUS
<1>0. \A c \in Conns : ClientGoesOn(c)
  BY ClientSteps
<1>1. ASSUME NEW v \in Workers, job'[v] \in Conns PROVE Parsed(v, job[v])'
  <2>1. CASE \E w \in Workers : Work(w)
    BY <1>0, <1>1, <2>1, WorkParsed
  <2>2. CASE ~\E w \in Workers : Work(w)
    <3>1. pc' = pc /\ length' = length /\ job' = job /\ read' = read
      BY <2>2 DEF Next, vars, Send, Close, Accept, AcceptFails, Join, Unwound
    <3>2. PICK c \in Conns : c = job[v]
      BY <1>1, <3>1
    <3>3. Parsed(v, c)'
      BY <1>0, <3>1, <3>2, ParsedStays DEF AnswerInv
    <3> QED
      BY <3>1, <3>2, <3>3
  <2> QED
    BY <2>1, <2>2
<1>2. ASSUME NEW c \in Conns, reply'[c] # NoReply PROVE Justified(c)'
  <2>0. request' = request
    BY <1>0 DEF ClientGoesOn
  <2>1. CASE reply'[c] = reply[c]
    <3>1. Justified(c)
      BY <1>2, <2>1 DEF AnswerInv
    <3> QED
      BY <1>0, <2>0, <2>1, <3>1, VerdictStays DEF Justified
  <2>2. CASE reply'[c] # reply[c]
    <3>1. PICK w \in Workers : Respond(w)
      BY <2>2 DEF Next, Work, vars, Send, Close, Accept, AcceptFails, Join, Unwound, Lock,
            Recv, Disconnected, ParseRequestLine, ParseHeader, ResizePanics, ReadBody, ParserVars
    <3>2. job[w] = c /\ reply'[c] = Response(w)
      BY <2>2, <3>1, NoConnAssumption DEF Respond, TypeInv, TypeOK, Serving
    <3>3. Parsed(w, c)
      BY <3>2 DEF AnswerInv
    <3>4. \/ ReadWhole(c) /\ reply'[c] = handle_request(request[c][1])
          \/ Refused(c) /\ reply'[c] = new_404
      BY <3>1, <3>2, <3>3 DEF Respond, Response, Parsed
    <3> QED
      BY <1>0, <2>0, <3>4, VerdictStays DEF Justified
  <2> QED
    BY <2>1, <2>2
<1> QED
  BY <1>1, <1>2 DEF AnswerInv

\* A client is answered with what its request deserves, however it splits its sending
\* over the server's steps and wherever it closes, for any requests and any pool.
THEOREM RightAnswerHolds == Spec => []RightAnswer
<1>1. Init => AnswerInv
  BY NoConnAssumption DEF Init, AnswerInv
<1>2. TypeInv /\ AnswerInv => RightAnswer
  <2> SUFFICES ASSUME TypeInv, AnswerInv, NEW c \in Conns, reply[c] # NoReply
               PROVE  reply[c] = IF WellFormed(c) THEN handle_request(request[c][1]) ELSE new_404
    BY DEF RightAnswer
  <2>1. Justified(c)
    BY DEF AnswerInv
  <2> QED
    BY <2>1, ReadWholeIsWellFormed, RefusedIsNotWellFormed DEF Justified
<1> QED
  BY <1>1, <1>2, InitTypeInv, NextTypeInv, NextAnswerInv, ServedOnceHolds, PTL DEF Spec
=============================================================================
