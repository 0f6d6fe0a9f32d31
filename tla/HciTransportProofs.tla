------------------------- MODULE HciTransportProofs -------------------------
(***************************************************************************)
(* Proofs about BackendServerHciTransport, for any number of packets in    *)
(* either direction.                                                       *)
(***************************************************************************)
EXTENDS HciTransport, TLAPS

-----------------------------------------------------------------------------
(* Types *)

\* The initial state is well typed.
LEMMA InitTypeOK == Init => TypeOK
<1> SUFFICES ASSUME Init PROVE TypeOK
  OBVIOUS
<1>1. << >> \in Seq(Nat) /\ << >> \in Seq(Kinds)
  OBVIOUS
<1> QED
  BY <1>1 DEF Init, TypeOK, Threads, ReaderSteps, WriterSteps, DoneSteps

\* The steps of Done keep the types, whichever thread takes them.
LEMMA DoneTypeOK ==
  ASSUME TypeOK, NEW th \in Threads, DoneStep(th)
  PROVE  TypeOK'
<1> USE DEF TypeOK, ReaderSteps, WriterSteps, DoneSteps, Goto, Final, Threads,
            queueVars, peerVars, hostVars
<1>1. CASE DoneReading(th)
  BY <1>1 DEF DoneReading
<1>2. CASE DoneStop(th)
  BY <1>2 DEF DoneStop, mQueue!Stop
<1>3. CASE DoneTest(th)
  BY <1>3 DEF DoneTest
<1>4. CASE DoneCall(th)
  BY <1>4 DEF DoneCall
<1>5. CASE DoneCallEmpty(th)
  BY <1>5 DEF DoneCallEmpty
<1>6. CASE CloseCallbackReturns(th)
  <2>1. /\ pc' \in [Threads -> ReaderSteps \cup WriterSteps]
        /\ pc'["reader"] \in ReaderSteps /\ pc'["writer"] \in WriterSteps
    BY <1>6 DEF CloseCallbackReturns
  <2>2. closeCalls' \in Nat
    BY <1>6 DEF CloseCallbackReturns
  <2> QED
    BY <1>6, <2>1, <2>2 DEF CloseCallbackReturns
<1>7. CASE DoneClear(th)
  BY <1>7 DEF DoneClear
<1> QED
  BY <1>1, <1>2, <1>3, <1>4, <1>5, <1>6, <1>7 DEF DoneStep

\* Every step keeps the types.
LEMMA NextTypeOK == TypeOK /\ [Next]_vars => TypeOK'
<1> SUFFICES ASSUME TypeOK, [Next]_vars PROVE TypeOK'
  OBVIOUS
<1>d. ASSUME NEW th \in Threads, DoneStep(th) PROVE TypeOK'
  BY <1>d, DoneTypeOK
<1> USE DEF TypeOK, ReaderSteps, WriterSteps, DoneSteps, Goto, Threads,
            queueVars, peerVars, hostVars
<1>1. CASE RegisterCallbacks
  BY <1>1 DEF RegisterCallbacks
<1>2. CASE StartTransport
  BY <1>2 DEF StartTransport
<1>3. CASE LoopTest
  BY <1>3 DEF LoopTest
<1>4. CASE ReadPacket
  BY <1>4 DEF ReadPacket
<1>5. CASE ReadFails
  BY <1>5 DEF ReadFails
<1>6. CASE PacketCallbackReturns
  BY <1>6 DEF PacketCallbackReturns
<1>7. CASE WriterPops
  BY <1>7 DEF WriterPops, mQueue!Pop
<1>8. CASE WriterStopped
  BY <1>8 DEF WriterStopped, mQueue!PopStopped
<1>9. CASE WriteOk
  BY <1>9 DEF WriteOk
<1>10. CASE WriteFails
  BY <1>10 DEF WriteFails
<1>11. CASE Write
  BY <1>11 DEF Write, mQueue!Push
<1>12. CASE Close
  BY <1>12 DEF Close
<1>13. ASSUME NEW kind \in Kinds, PeerSends(kind) PROVE TypeOK'
  BY <1>13 DEF PeerSends
<1>14. CASE PeerHalfCloses
  BY <1>14 DEF PeerHalfCloses
<1>15. CASE PeerGoes
  BY <1>15 DEF PeerGoes
<1>16. CASE UNCHANGED vars
  BY <1>16 DEF vars
<1> QED
  BY <1>1, <1>2, <1>3, <1>4, <1>5, <1>6, <1>7, <1>8, <1>9, <1>10, <1>11, <1>12,
     <1>13, <1>14, <1>15, <1>16, <1>d
     DEF Next, ReaderStep, WriterStep, Environment, Threads

\* The variables of a stream keep their types for any number of packets.
THEOREM TypeCorrect == Spec => []TypeOK
  BY InitTypeOK, NextTypeOK, PTL DEF Spec

-----------------------------------------------------------------------------
(* The writer is started by Transport *)

\* There is no writer thread before Transport starts it.
StartOrder == pc["reader"] \in {"register", "start"} => pc["writer"] = "none"

\* Every step keeps that order.
LEMMA NextStartOrder == TypeOK /\ StartOrder /\ [Next]_vars => StartOrder'
<1> SUFFICES ASSUME TypeOK, StartOrder, [Next]_vars PROVE StartOrder'
  OBVIOUS
<1>t. pc \in [Threads -> ReaderSteps \cup WriterSteps]
  BY DEF TypeOK
<1> USE DEF StartOrder, Goto, Threads, Final
<1>1. ASSUME NEW th \in Threads, DoneStep(th) PROVE StartOrder'
  BY <1>1, <1>t DEF DoneStep, DoneReading, DoneStop, DoneTest, DoneCall, DoneCallEmpty,
                    CloseCallbackReturns, DoneClear
<1>2. CASE RegisterCallbacks \/ StartTransport \/ LoopTest
  BY <1>2, <1>t DEF RegisterCallbacks, StartTransport, LoopTest
<1>3. CASE ReadPacket \/ ReadFails \/ PacketCallbackReturns
  BY <1>3, <1>t DEF ReadPacket, ReadFails, PacketCallbackReturns
<1>4. CASE WriterPops \/ WriterStopped \/ WriteOk \/ WriteFails
  BY <1>4, <1>t DEF WriterPops, WriterStopped, WriteOk, WriteFails
<1>5. CASE Environment
  BY <1>5 DEF Environment, Write, Close, PeerSends, PeerHalfCloses, PeerGoes
<1>6. CASE UNCHANGED vars
  BY <1>6 DEF vars
<1> QED
  BY <1>1, <1>2, <1>3, <1>4, <1>5, <1>6 DEF Next, ReaderStep, WriterStep

\* The facts the invariants below build on.
Base == TypeOK /\ StartOrder

\* They hold throughout.
LEMMA AlwaysBase == Spec => []Base
<1>1. Init => StartOrder
  BY DEF Init, StartOrder, Threads
<1>2. TypeOK /\ StartOrder => Base
  BY DEF Base
<1> QED
  BY <1>1, <1>2, TypeCorrect, NextStartOrder, PTL DEF Spec

-----------------------------------------------------------------------------
(* The close callback has run when Transport returns *)

\* CloseReported is not inductive: a thread that finds the member empty relies
\* on the other one having called it before clearing it.
CloseInv ==
  /\ pc["reader"] # "register" => mCloseCallback \/ closeCalls > 0
  /\ \A th \in Threads : pc[th] = "clear" => closeCalls > 0
  /\ CloseReported

\* The steps of Done keep the invariant.
LEMMA DoneCloseInv ==
  ASSUME Base, CloseInv, NEW th \in Threads, DoneStep(th)
  PROVE  CloseInv'
<1> USE DEF Base, TypeOK, CloseInv, CloseReported, Goto, Final, Threads,
            queueVars, peerVars, hostVars
<1>1. CASE DoneReading(th)
  BY <1>1 DEF DoneReading
<1>2. CASE DoneStop(th)
  BY <1>2 DEF DoneStop
<1>3. CASE DoneTest(th)
  BY <1>3 DEF DoneTest
<1>4. CASE DoneCall(th)
  BY <1>4 DEF DoneCall
<1>5. CASE DoneCallEmpty(th)
  <2>1. \A u \in Threads : pc'[u] = "crashed"
    BY <1>5 DEF DoneCallEmpty
  <2>2. pc["reader"] # "register" => closeCalls > 0
    BY <1>5 DEF DoneCallEmpty
  <2>3. pc["reader"] # "register"
    BY <1>5 DEF DoneCallEmpty, StartOrder
  <2> QED
    BY <1>5, <2>1, <2>2, <2>3 DEF DoneCallEmpty
<1>6. CASE CloseCallbackReturns(th)
  BY <1>6 DEF CloseCallbackReturns
<1>7. CASE DoneClear(th)
  BY <1>7 DEF DoneClear
<1> QED
  BY <1>1, <1>2, <1>3, <1>4, <1>5, <1>6, <1>7 DEF DoneStep

\* Every step keeps the invariant.
LEMMA NextCloseInv == Base /\ CloseInv /\ [Next]_vars => CloseInv'
<1> SUFFICES ASSUME Base, CloseInv, [Next]_vars PROVE CloseInv'
  OBVIOUS
<1>d. ASSUME NEW th \in Threads, DoneStep(th) PROVE CloseInv'
  BY <1>d, DoneCloseInv
<1> USE DEF Base, TypeOK, CloseInv, CloseReported, Goto, Threads, queueVars, peerVars, hostVars
<1>1. CASE RegisterCallbacks \/ StartTransport \/ LoopTest
  BY <1>1 DEF RegisterCallbacks, StartTransport, LoopTest
<1>2. CASE ReadPacket \/ ReadFails \/ PacketCallbackReturns
  BY <1>2 DEF ReadPacket, ReadFails, PacketCallbackReturns
<1>3. CASE WriterPops \/ WriterStopped \/ WriteOk \/ WriteFails
  BY <1>3 DEF WriterPops, WriterStopped, WriteOk, WriteFails
<1>4. CASE Write \/ Close
  BY <1>4 DEF Write, Close
<1>5. CASE (\E kind \in Kinds : PeerSends(kind)) \/ PeerHalfCloses \/ PeerGoes
  BY <1>5 DEF PeerSends, PeerHalfCloses, PeerGoes
<1>6. CASE UNCHANGED vars
  BY <1>6 DEF vars
<1> QED
  BY <1>1, <1>2, <1>3, <1>4, <1>5, <1>6, <1>d
     DEF Next, ReaderStep, WriterStep, Environment

\* However the two runs of Done interleave, Transport returns only after
\* rootcanal's close callback has run to its end.
THEOREM CloseReportedHolds == Spec => []CloseReported
<1>1. Init => CloseInv
  BY DEF Init, CloseInv, CloseReported, Threads
<1>2. CloseInv => CloseReported
  BY DEF CloseInv
<1> QED
  BY <1>1, <1>2, NextCloseInv, AlwaysBase, PTL DEF Spec

-----------------------------------------------------------------------------
(* Packets reach the peer in order and without a gap *)

\* A packet moves from the queue to the writer, or enters the queue.
LEMMA Shift ==
  \A a, b, c \in Nat : /\ a + b = c /\ b > 0 => (a + 1) + (b - 1) = c
                       /\ a + b = c => a + (b + 1) = c + 1
  OBVIOUS

\* The packets popped so far, while the writer is in its loop.
Taken == Len(received) + (IF pc["writer"] = "write" THEN 1 ELSE 0)

\* What the writer holds is the next packet the peer has to get, and a live
\* queue holds the ones after it.
FlowInv ==
  /\ GapFree
  /\ pc["writer"] = "write" => outgoing = Len(received) + 1
  /\ ~stopped /\ pc["writer"] \in {"none", "pop", "write"} =>
       /\ Taken + Len(items) = sent
       /\ \A i \in 1..Len(items) : items[i] = Taken + i

\* Done does not touch what was received, and leaves no live queue behind.
LEMMA DoneFlowInv ==
  ASSUME Base, FlowInv, NEW th \in Threads, DoneStep(th)
  PROVE  FlowInv'
<1> USE DEF Goto, Final, Threads, queueVars, peerVars, hostVars
<1>t. pc \in [Threads -> ReaderSteps \cup WriterSteps]
  BY DEF Base, TypeOK
<1>1. received' = received /\ outgoing' = outgoing
  BY DEF DoneStep, DoneReading, DoneStop, DoneTest, DoneCall, DoneCallEmpty,
         CloseCallbackReturns, DoneClear
<1>2. pc'["writer"] = "write" => pc["writer"] = "write"
  BY <1>t DEF DoneStep, DoneReading, DoneStop, DoneTest, DoneCall, DoneCallEmpty,
         CloseCallbackReturns, DoneClear
<1>3. pc'["writer"] \in {"none", "pop", "write"} => pc'["writer"] = pc["writer"]
  BY <1>t DEF DoneStep, DoneReading, DoneStop, DoneTest, DoneCall, DoneCallEmpty,
         CloseCallbackReturns, DoneClear
<1>4. ~stopped' => ~stopped /\ items' = items /\ sent' = sent
  BY DEF DoneStep, DoneReading, DoneStop, DoneTest, DoneCall, DoneCallEmpty,
         CloseCallbackReturns, DoneClear, mQueue!Stop
<1> QED
  BY <1>1, <1>2, <1>3, <1>4 DEF FlowInv, GapFree, Taken

\* Every step keeps the flow of packets gap free.
LEMMA NextFlowInv == Base /\ FlowInv /\ [Next]_vars => FlowInv'
<1> SUFFICES ASSUME Base, FlowInv, [Next]_vars PROVE FlowInv'
  OBVIOUS
<1>d. ASSUME NEW th \in Threads, DoneStep(th) PROVE FlowInv'
  BY <1>d, DoneFlowInv
<1>t. /\ pc \in [Threads -> ReaderSteps \cup WriterSteps]
      /\ items \in Seq(Nat) /\ received \in Seq(Nat)
      /\ outgoing \in Nat /\ sent \in Nat /\ stopped \in BOOLEAN
      /\ Len(items) \in Nat /\ Len(received) \in Nat
  BY DEF Base, TypeOK
<1> USE DEF Goto, Threads, queueVars, peerVars, hostVars
<1>same. ASSUME received' = received, outgoing' = outgoing, sent' = sent, items' = items,
                stopped' = stopped,
                \/ pc'["writer"] = pc["writer"]
                \/ pc["writer"] = "none" /\ pc'["writer"] = "pop"
         PROVE  FlowInv'
  BY <1>same DEF FlowInv, GapFree, Taken
<1>1. CASE RegisterCallbacks \/ StartTransport \/ LoopTest
  <2>1. CASE StartTransport
    BY <2>1, <1>t, <1>same DEF StartTransport, Base, StartOrder
  <2> QED
    BY <1>1, <2>1, <1>t, <1>same DEF RegisterCallbacks, LoopTest
<1>2. CASE ReadPacket \/ ReadFails \/ PacketCallbackReturns
  BY <1>2, <1>t, <1>same DEF ReadPacket, ReadFails, PacketCallbackReturns
<1>3. CASE WriterPops
  <2>1. /\ pc["writer"] = "pop" /\ pc'["writer"] = "write"
        /\ ~stopped /\ items # << >> /\ items' = Tail(items) /\ outgoing' = Head(items)
        /\ received' = received /\ sent' = sent /\ stopped' = stopped
    BY <1>3, <1>t DEF WriterPops, mQueue!Pop
  <2>2. /\ Len(items) > 0 /\ Len(items') = Len(items) - 1
        /\ \A i \in 1..Len(items') : items'[i] = items[i + 1]
        /\ Head(items) = items[1]
    BY <2>1, <1>t
  <2>3. Taken = Len(received) /\ Taken' = Len(received) + 1
    BY <2>1 DEF Taken
  <2>4. /\ Len(received) + Len(items) = sent
        /\ \A i \in 1..Len(items) : items[i] = Len(received) + i
    BY <2>1, <2>3 DEF FlowInv
  <2>5. outgoing' = Len(received) + 1
    BY <2>1, <2>2, <2>4, <1>t
  <2>6. (Len(received) + 1) + Len(items') = sent
    <3>1. /\ Len(items') = Len(items) - 1 /\ Len(items) > 0
          /\ Len(received) + Len(items) = sent
      BY <2>2, <2>4
    <3>2. (Len(received) + 1) + (Len(items) - 1) = sent
      BY <3>1, <1>t, Shift
    <3> QED
      BY <3>1, <3>2
  <2>7. \A i \in 1..Len(items') : items'[i] = Len(received) + 1 + i
    BY <2>2, <2>4, <1>t
  <2> QED
    BY <2>1, <2>3, <2>5, <2>6, <2>7 DEF FlowInv, GapFree
<1>4. CASE WriterStopped
  BY <1>4, <1>t DEF WriterStopped, mQueue!PopStopped, FlowInv, GapFree
<1>5. CASE WriteOk
  <2>1. /\ pc["writer"] = "write" /\ pc'["writer"] = "pop"
        /\ items' = items /\ received' = Append(received, outgoing)
        /\ sent' = sent /\ stopped' = stopped
    BY <1>5, <1>t DEF WriteOk
  <2>2. /\ Len(received') = Len(received) + 1
        /\ \A i \in 1..Len(received) : received'[i] = received[i]
        /\ received'[Len(received) + 1] = outgoing
    BY <2>1, <1>t
  <2>3. outgoing = Len(received) + 1
    BY <2>1 DEF FlowInv
  <2>4. GapFree'
    BY <2>2, <2>3, <1>t DEF GapFree, FlowInv
  <2>5. Taken' = Taken
    BY <2>1, <2>2, <1>t DEF Taken
  <2> QED
    BY <2>1, <2>4, <2>5 DEF FlowInv
<1>6. CASE WriteFails
  BY <1>6, <1>t DEF WriteFails, FlowInv, GapFree
<1>7. CASE Write
  <2>1. /\ pc' = pc /\ received' = received /\ outgoing' = outgoing /\ stopped' = stopped
        /\ sent' = sent + 1 /\ (~stopped => items' = Append(items, sent + 1))
    BY <1>7 DEF Write, mQueue!Push
  <2>2. Taken' = Taken /\ Taken \in Nat
    BY <2>1, <1>t DEF Taken
  <2>3. ASSUME ~stopped, pc["writer"] \in {"none", "pop", "write"}
        PROVE  /\ Taken + Len(items') = sent + 1
               /\ \A i \in 1..Len(items') : items'[i] = Taken + i
    <3>1. Taken + Len(items) = sent /\ \A i \in 1..Len(items) : items[i] = Taken + i
      BY <2>3 DEF FlowInv
    <3>2. /\ Len(items') = Len(items) + 1
          /\ \A i \in 1..Len(items) : items'[i] = items[i]
          /\ items'[Len(items) + 1] = sent + 1
      <4>1. sent + 1 \in Nat /\ items' = Append(items, sent + 1)
        BY <2>1, <2>3, <1>t
      <4> QED
        BY <4>1, <1>t
    <3>3. Taken + Len(items') = sent + 1
      <4>1. Taken + Len(items) = sent /\ Len(items') = Len(items) + 1
        BY <3>1, <3>2
      <4>2. Taken + (Len(items) + 1) = sent + 1
        BY <4>1, <2>2, <1>t, Shift
      <4> QED
        BY <4>1, <4>2
    <3>4. sent + 1 = Taken + (Len(items) + 1)
      <4>1. Taken + Len(items) = sent
        BY <3>1
      <4> QED
        BY <4>1, <2>2, <1>t
    <3>5. ASSUME NEW i \in 1..Len(items') PROVE items'[i] = Taken + i
      <4>1. i \in 1..Len(items) \/ i = Len(items) + 1
        BY <3>2, <1>t
      <4> QED
        BY <4>1, <3>1, <3>2, <3>4
    <3> QED
      BY <3>3, <3>5
  <2> QED
    BY <2>1, <2>2, <2>3 DEF FlowInv, GapFree
<1>8. CASE Close
  BY <1>8, <1>same DEF Close
<1>9. CASE (\E kind \in Kinds : PeerSends(kind)) \/ PeerHalfCloses \/ PeerGoes
  BY <1>9, <1>same DEF PeerSends, PeerHalfCloses, PeerGoes
<1>10. CASE UNCHANGED vars
  BY <1>10, <1>same DEF vars
<1> QED
  BY <1>1, <1>2, <1>3, <1>4, <1>5, <1>6, <1>7, <1>8, <1>9, <1>10, <1>d
     DEF Next, ReaderStep, WriterStep, Environment, Threads

\* The peer gets packets 1, 2, 3, ... of rootcanal, in that order and with none
\* missing between them, for streams of any length.
THEOREM GapFreeHolds == Spec => []GapFree
<1>1. Init => FlowInv
  BY DEF Init, FlowInv, GapFree, Taken, Threads
<1>2. FlowInv => GapFree
  BY DEF FlowInv
<1> QED
  BY <1>1, <1>2, NextFlowInv, AlwaysBase, PTL DEF Spec

=============================================================================
