---------------------------- MODULE HciTransport ----------------------------
(***************************************************************************)
(* BackendServerHciTransportImpl (src/backend/backend_server_hci_transport *)
(* .cc): one packet stream between a gRPC peer and its rootcanal device.   *)
(*                                                                         *)
(* Two threads run its code: the reader, which is the gRPC handler thread  *)
(* of StreamPackets (register the callbacks, Transport, return), and the   *)
(* writer it starts.  Both end in Done().  Rootcanal's event thread pushes *)
(* outgoing packets and may close the transport.  The peer sends packets,  *)
(* finishes sending (half close) or disappears.                            *)
(*                                                                         *)
(* mQueue is the atomic queue of StoppableQueue, which BlockingQueue is    *)
(* proved to implement; the writer is its only consumer.                   *)
(*                                                                         *)
(* External: rootcanal (the callbacks it registers, of which the close     *)
(* callback closes the HciDevice, which calls Close() here, and takes the  *)
(* device out of the test model) and gRPC's Read and Write.                *)
(***************************************************************************)
EXTENDS Naturals, Sequences

CONSTANTS MaxSent,     \* bound: packets rootcanal sends to the peer
          MaxInbox     \* bound: packets of the peer waiting to be read

ASSUME BoundsAssumption == MaxSent \in Nat /\ MaxInbox \in Nat

VARIABLES pc,              \* pc[th]: the next step of the reader and the writer
          mReading,        \* bool mReading
          mCloseCallback,  \* rootcanal::CloseCallback: is it non-empty?
          items, stopped,  \* mQueue
          outgoing,        \* the packet the writer holds, 0 when it has none
          inbox,           \* packets of the peer not yet read
          conn,            \* the gRPC stream: open, half-closed or closed by the peer
          hostOpen,        \* rootcanal's device uses this transport
          sent,            \* how many packets rootcanal has sent, numbered 1..sent
          received,        \* the packets the peer received
          closeCalls       \* close callbacks that ran to their end

vars == <<pc, mReading, mCloseCallback, items, stopped, outgoing, inbox, conn,
          hostOpen, sent, received, closeCalls>>

queueVars == <<items, stopped>>
peerVars == <<inbox, conn, received>>
hostVars == <<hostOpen, sent>>

mQueue == INSTANCE StoppableQueue
            WITH Threads <- {}, Items <- Nat, NoItem <- 0,
                 op <- << >>, arg <- << >>, got <- << >>

\* What the peer can send: an HCI packet of a known type, one of an unknown
\* type, or a request that is no hci_packet.
Kinds == {"HCI", "UNKNOWN_TYPE", "NOT_HCI"}

Threads == {"reader", "writer"}

DoneSteps == {"done", "stop", "test", "call", "in_close", "clear"}
ReaderSteps == {"register", "start", "loop", "read", "in_packet", "returned", "crashed"} \cup DoneSteps
WriterSteps == {"none", "pop", "write", "exited", "crashed"} \cup DoneSteps

\* Where the two threads can be (the reader never ends as the writer does, nor
\* the other way round) and what passes between rootcanal and the peer.
TypeOK ==
  /\ pc \in [Threads -> ReaderSteps \cup WriterSteps]
  /\ pc["reader"] \in ReaderSteps
  /\ pc["writer"] \in WriterSteps
  /\ mReading \in BOOLEAN
  /\ mCloseCallback \in BOOLEAN
  /\ items \in Seq(Nat)
  /\ stopped \in BOOLEAN
  /\ outgoing \in Nat
  /\ inbox \in Seq(Kinds)
  /\ conn \in {"open", "half", "closed"}
  /\ hostOpen \in BOOLEAN
  /\ sent \in Nat
  /\ received \in Seq(Nat)
  /\ closeCalls \in Nat

Init ==
  /\ pc = [th \in Threads |-> IF th = "reader" THEN "register" ELSE "none"]
  /\ mReading = TRUE
  /\ mCloseCallback = FALSE
  /\ items = << >>
  /\ stopped = FALSE
  /\ outgoing = 0
  /\ inbox = << >>
  /\ conn = "open"
  /\ hostOpen = FALSE
  /\ sent = 0
  /\ received = << >>
  /\ closeCalls = 0

Goto(th, label) == pc' = [pc EXCEPT ![th] = label]

-----------------------------------------------------------------------------
(* The reader *)

\* RegisterCallbacks, called by rootcanal within AddHciConnection.
RegisterCallbacks ==
  /\ pc["reader"] = "register"
  /\ Goto("reader", "start")
  /\ mCloseCallback' = TRUE
  /\ hostOpen' = TRUE
  /\ UNCHANGED <<mReading, queueVars, outgoing, peerVars, sent, closeCalls>>

\* Transport starts the writer thread.
StartTransport ==
  /\ pc["reader"] = "start"
  /\ pc' = [pc EXCEPT !["reader"] = "loop", !["writer"] = "pop"]
  /\ UNCHANGED <<mReading, mCloseCallback, queueVars, outgoing, peerVars, hostVars,
                 closeCalls>>

\* while (mReading)
LoopTest ==
  /\ pc["reader"] = "loop"
  /\ Goto("reader", IF mReading THEN "read" ELSE "done")
  /\ UNCHANGED <<mReading, mCloseCallback, queueVars, outgoing, peerVars, hostVars,
                 closeCalls>>

\* mStream->Read gives a packet.  Only an HCI packet of a known type reaches
\* rootcanal.
ReadPacket ==
  /\ pc["reader"] = "read"
  /\ inbox # << >>
  /\ inbox' = Tail(inbox)
  /\ Goto("reader", IF Head(inbox) = "HCI" THEN "in_packet" ELSE "loop")
  /\ UNCHANGED <<mReading, mCloseCallback, queueVars, outgoing, conn, received, hostVars,
                 closeCalls>>

\* mStream->Read fails: nothing more will come.
ReadFails ==
  /\ pc["reader"] = "read"
  /\ \/ conn = "closed"
     \/ conn = "half" /\ inbox = << >>
  /\ Goto("reader", "done")
  /\ UNCHANGED <<mReading, mCloseCallback, queueVars, outgoing, peerVars, hostVars,
                 closeCalls>>

\* packet_callback returns.
PacketCallbackReturns ==
  /\ pc["reader"] = "in_packet"
  /\ Goto("reader", "loop")
  /\ UNCHANGED <<mReading, mCloseCallback, queueVars, outgoing, peerVars, hostVars,
                 closeCalls>>

-----------------------------------------------------------------------------
(* The writer *)

\* Mutated form: only the newest packet is kept.
WriterPopsNewest ==
  /\ pc["writer"] = "pop"
  /\ ~stopped /\ items # << >>
  /\ items' = << >>
  /\ outgoing' = items[Len(items)]
  /\ Goto("writer", "write")
  /\ UNCHANGED <<stopped, mReading, mCloseCallback, peerVars, hostVars, closeCalls>>

WriterPops ==
  /\ pc["writer"] = "pop"
  /\ mQueue!Pop
  /\ outgoing' = Head(items)
  /\ Goto("writer", "write")
  /\ UNCHANGED <<mReading, mCloseCallback, peerVars, hostVars, closeCalls>>

WriterStopped ==
  /\ pc["writer"] = "pop"
  /\ mQueue!PopStopped
  /\ Goto("writer", "done")
  /\ UNCHANGED <<mReading, mCloseCallback, outgoing, peerVars, hostVars, closeCalls>>

\* Mutated form: the writer writes one packet and ends.
WriteOkOnce ==
  /\ pc["writer"] = "write"
  /\ conn # "closed"
  /\ received' = Append(received, outgoing)
  /\ outgoing' = 0
  /\ Goto("writer", "exited")
  /\ UNCHANGED <<mReading, mCloseCallback, queueVars, inbox, conn, hostVars, closeCalls>>

\* mStream->Write succeeds.
WriteOk ==
  /\ pc["writer"] = "write"
  /\ conn # "closed"
  /\ received' = Append(received, outgoing)
  /\ outgoing' = 0
  /\ Goto("writer", "pop")
  /\ UNCHANGED <<mReading, mCloseCallback, queueVars, inbox, conn, hostVars, closeCalls>>

\* mStream->Write fails: the packet is lost and the writer gives up.
WriteFails ==
  /\ pc["writer"] = "write"
  /\ conn = "closed"
  /\ outgoing' = 0
  /\ Goto("writer", "done")
  /\ UNCHANGED <<mReading, mCloseCallback, queueVars, peerVars, hostVars, closeCalls>>

-----------------------------------------------------------------------------
(* Done(), run by either thread, or by both at once *)

\* Mutated form: every thread ends as the writer does.
FinalExits(th) == "exited"

\* Where Done leaves its caller: Transport returns, startWriter ends.
Final(th) == IF th = "reader" THEN "returned" ELSE "exited"

DoneReading(th) ==
  /\ pc[th] = "done"
  /\ mReading' = FALSE
  /\ Goto(th, "stop")
  /\ UNCHANGED <<mCloseCallback, queueVars, outgoing, peerVars, hostVars, closeCalls>>

\* Mutated form: mQueue.Stop() is forgotten.
DoneStopForgotten(th) ==
  /\ pc[th] = "stop"
  /\ Goto(th, "test")
  /\ UNCHANGED <<mReading, mCloseCallback, queueVars, outgoing, peerVars, hostVars,
                 closeCalls>>

DoneStop(th) ==
  /\ pc[th] = "stop"
  /\ mQueue!Stop
  /\ Goto(th, "test")
  /\ UNCHANGED <<mReading, mCloseCallback, outgoing, peerVars, hostVars, closeCalls>>

\* Mutated form: the member is cleared before the callback is called.
DoneTestAndClear(th) ==
  /\ pc[th] = "test"
  /\ Goto(th, IF mCloseCallback THEN "in_close" ELSE Final(th))
  /\ mCloseCallback' = FALSE
  /\ UNCHANGED <<mReading, queueVars, outgoing, peerVars, hostVars, closeCalls>>

\* if (mCloseCallback)
DoneTest(th) ==
  /\ pc[th] = "test"
  /\ Goto(th, IF mCloseCallback THEN "call" ELSE Final(th))
  /\ UNCHANGED <<mReading, mCloseCallback, queueVars, outgoing, peerVars, hostVars,
                 closeCalls>>

\* mCloseCallback()
DoneCall(th) ==
  /\ pc[th] = "call"
  /\ mCloseCallback
  /\ Goto(th, "in_close")
  /\ UNCHANGED <<mReading, mCloseCallback, queueVars, outgoing, peerVars, hostVars, closeCalls>>

\* The other thread has cleared the member since the test: calling an empty
\* std::function ends the process, and with it every connection.
DoneCallEmpty(th) ==
  /\ pc[th] = "call"
  /\ ~mCloseCallback
  /\ pc' = [t \in Threads |-> "crashed"]
  /\ conn' = "closed"
  /\ hostOpen' = FALSE
  /\ UNCHANGED <<mReading, mCloseCallback, queueVars, outgoing, inbox, received, sent, closeCalls>>

\* The close callback closes rootcanal's device, which calls Close().
CloseCallbackReturns(th) ==
  /\ pc[th] = "in_close"
  /\ mReading' = FALSE
  /\ hostOpen' = FALSE
  /\ closeCalls' = closeCalls + 1
  /\ Goto(th, "clear")
  /\ UNCHANGED <<mCloseCallback, queueVars, outgoing, peerVars, sent>>

\* mCloseCallback = nullptr
DoneClear(th) ==
  /\ pc[th] = "clear"
  /\ mCloseCallback' = FALSE
  /\ Goto(th, Final(th))
  /\ UNCHANGED <<mReading, queueVars, outgoing, peerVars, hostVars, closeCalls>>

-----------------------------------------------------------------------------
(* Rootcanal and the peer *)

\* SendEvent, SendAcl, SendSco, SendIso: Write pushes the packet.
Write ==
  /\ hostOpen
  /\ sent < MaxSent
  /\ sent' = sent + 1
  /\ mQueue!Push(sent + 1)
  /\ UNCHANGED <<pc, mReading, mCloseCallback, outgoing, peerVars, hostOpen, closeCalls>>

\* Close(), called by rootcanal of its own accord.
Close ==
  /\ hostOpen
  /\ hostOpen' = FALSE
  /\ mReading' = FALSE
  /\ UNCHANGED <<pc, mCloseCallback, queueVars, outgoing, peerVars, sent, closeCalls>>

PeerSends(kind) ==
  /\ conn = "open"
  /\ Len(inbox) < MaxInbox
  /\ inbox' = Append(inbox, kind)
  /\ UNCHANGED <<pc, mReading, mCloseCallback, queueVars, outgoing, conn, received, hostVars,
                 closeCalls>>

PeerHalfCloses ==
  /\ conn = "open"
  /\ conn' = "half"
  /\ UNCHANGED <<pc, mReading, mCloseCallback, queueVars, outgoing, inbox, received, hostVars,
                 closeCalls>>

PeerGoes ==
  /\ conn # "closed"
  /\ conn' = "closed"
  /\ UNCHANGED <<pc, mReading, mCloseCallback, queueVars, outgoing, inbox, received, hostVars,
                 closeCalls>>

-----------------------------------------------------------------------------
DoneStep(th) ==
  \/ DoneReading(th)
  \/ DoneStop(th)
  \/ DoneTest(th)
  \/ DoneCall(th)
  \/ DoneCallEmpty(th)
  \/ CloseCallbackReturns(th)
  \/ DoneClear(th)

ReaderStep ==
  \/ RegisterCallbacks
  \/ StartTransport
  \/ LoopTest
  \/ ReadPacket
  \/ ReadFails
  \/ PacketCallbackReturns
  \/ DoneStep("reader")

WriterStep ==
  \/ WriterPops
  \/ WriterStopped
  \/ WriteOk
  \/ WriteFails
  \/ DoneStep("writer")

Environment ==
  \/ Write
  \/ Close
  \/ \E kind \in Kinds : PeerSends(kind)
  \/ PeerHalfCloses
  \/ PeerGoes

Next == ReaderStep \/ WriterStep \/ Environment

Spec == Init /\ [][Next]_vars

(***************************************************************************)
(* The two threads are scheduled whenever they are not blocked (in Read on *)
(* an open stream without packets, in WaitAndPop on an empty live queue).  *)
(* Rootcanal and the peer owe nothing.                                     *)
(***************************************************************************)
FairSpec ==
  /\ Spec
  /\ WF_vars(ReaderStep)
  /\ WF_vars(WriterStep)

-----------------------------------------------------------------------------
(* Properties *)

crashed == pc["reader"] = "crashed"

\* When Transport returns, and StreamPackets goes on to remove the chip,
\* rootcanal's close callback has run to its end, whichever thread ran it and
\* however the two runs of Done interleave.
CloseReported == pc["reader"] = "returned" => closeCalls > 0

\* The peer receives the packets rootcanal sent, in order and without a gap:
\* what is lost at the end of a stream is a suffix.
GapFree == \A i \in 1..Len(received) : received[i] = i

\* When the peer is gone the handler thread returns and the writer thread ends.
StreamEnds ==
  conn # "open" ~> crashed \/ (pc["reader"] = "returned" /\ pc["writer"] = "exited")

\* A packet rootcanal sent reaches the peer unless the stream comes to its end.
Delivered ==
  \A n \in 1..MaxSent :
    sent = n ~> Len(received) >= n \/ conn # "open" \/ ~mReading

=============================================================================
