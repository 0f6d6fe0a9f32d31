------------------------ MODULE SceneControllerProofs ------------------------
(***************************************************************************)
(* Proofs about the scene, for any streams, serials, chip ids and requests *)
(* and any overlap of the handlers.                                        *)
(***************************************************************************)
EXTENDS SceneController, SequenceTheorems, FiniteSetTheorems, TLAPS

-----------------------------------------------------------------------------
(* Sequences *)

\* Erasing an element leaves a sequence of the others, in their order.
LEMMA RemoveAtElements ==
  ASSUME NEW S, NEW seq \in Seq(S), NEW i \in Nat, i <= Len(seq), i >= 1
  PROVE  /\ RemoveAt(seq, i) \in Seq(S)
         /\ Len(RemoveAt(seq, i)) = Len(seq) - 1
         /\ \A j \in 1..(Len(seq) - 1) :
              RemoveAt(seq, i)[j] = IF j < i THEN seq[j] ELSE seq[j + 1]
<1> DEFINE a == SubSeq(seq, 1, i - 1)
           b == SubSeq(seq, i + 1, Len(seq))
<1>0. Len(seq) \in Nat /\ \A j \in 1..Len(seq) : seq[j] \in S
  OBVIOUS
<1>1. a \in Seq(S) /\ Len(a) = i - 1 /\ \A j \in 1..(i - 1) : a[j] = seq[j]
  OBVIOUS
<1>2. b \in Seq(S) /\ Len(b) = Len(seq) - i /\ \A j \in 1..(Len(seq) - i) : b[j] = seq[i + j]
  OBVIOUS
<1>3. RemoveAt(seq, i) = a \o b
  BY DEF RemoveAt
<1> HIDE DEF a, b
<1>4. /\ a \o b \in Seq(S) /\ Len(a \o b) = Len(a) + Len(b)
      /\ \A j \in 1..(Len(a) + Len(b)) :
           (a \o b)[j] = IF j <= Len(a) THEN a[j] ELSE b[j - Len(a)]
  BY <1>1, <1>2, ConcatProperties
<1>5. Len(a) + Len(b) = Len(seq) - 1
  BY <1>0, <1>1, <1>2
<1>6. ASSUME NEW j \in 1..(Len(seq) - 1)
      PROVE  (a \o b)[j] = IF j < i THEN seq[j] ELSE seq[j + 1]
  <2>1. CASE j < i
    <3>1. j <= Len(a) /\ j \in 1..(i - 1)
      BY <2>1, <1>0, <1>1
    <3> QED
      BY <2>1, <3>1, <1>1, <1>4, <1>5
  <2>2. CASE j >= i
    <3>1. j - Len(a) \in 1..(Len(seq) - i) /\ ~(j <= Len(a)) /\ ~(j < i)
      BY <2>2, <1>0, <1>1
    <3>2. i + (j - Len(a)) = j + 1
      BY <1>0, <1>1
    <3>3. b[j - Len(a)] = seq[i + (j - Len(a))]
      BY <3>1, <1>2
    <3> QED
      BY <3>1, <3>2, <3>3, <1>4, <1>5
  <2>3. j < i \/ j >= i
    OBVIOUS
  <2> QED
    BY <2>1, <2>2, <2>3
<1>7. /\ a \o b \in Seq(S) /\ Len(a \o b) = Len(seq) - 1
  BY <1>4, <1>5
<1> QED
  BY <1>3, <1>6, <1>7

\* Dropping the last element.
LEMMA FrontElements ==
  ASSUME NEW S, NEW seq \in Seq(S), seq # << >>
  PROVE  /\ Front(seq) \in Seq(S)
         /\ Len(Front(seq)) = Len(seq) - 1
         /\ \A j \in 1..(Len(seq) - 1) : Front(seq)[j] = seq[j]
<1>1. Len(seq) \in Nat /\ Len(seq) >= 1
  BY EmptySeq
<1> DEFINE n == Len(seq) - 1
<1>2. n \in Nat
  BY <1>1
<1>a. \A j \in 1..Len(seq) : seq[j] \in S
  OBVIOUS
<1>3. SubSeq(seq, 1, n) \in Seq(S) /\ Len(SubSeq(seq, 1, n)) = n
  BY <1>1, <1>a
<1>4. \A j \in 1..n : SubSeq(seq, 1, n)[j] = seq[j]
  BY <1>1
<1> QED
  BY <1>3, <1>4 DEF Front

\* Dropping the first element.
LEMMA TailElements ==
  ASSUME NEW S, NEW seq \in Seq(S), seq # << >>
  PROVE  Tail(seq) \in Seq(S) /\ Len(Tail(seq)) = Len(seq) - 1 /\ Head(seq) \in S
<1>1. Len(seq) \in Nat /\ Len(seq) >= 1
  BY EmptySeq
<1> QED
  BY <1>1, HeadTailProperties

-----------------------------------------------------------------------------
(* Types *)

\* What the handlers rely on between their steps: a handler that adds its chip
\* holds a device, one that erases has found an index, and the chips of a
\* device and the entries of its model are as many.
Shape ==
  /\ \A s \in Streams : pc[s] \in {"add_chip", "insert"} => device[s] \in Streams
  /\ \A s \in Streams : pc[s] = "erase" => idx[s] >= 1
  /\ \A o \in Streams : Len(chips[o]) = Len(models[o])

Typed == TypeOK /\ Shape

LEMMA InitTyped == Init => Typed
<1> SUFFICES ASSUME Init PROVE Typed
  OBVIOUS
<1>1. TypeOK
  BY DEF Init, TypeOK, PCs
<1>2. Shape
  BY DEF Init, Shape
<1> QED
  BY <1>1, <1>2 DEF Typed

\* The device MatchDevice returns is one of the scene.
LEMMA MatchDeviceInScene ==
  ASSUME TypeOK, NEW sn, NEW name, MatchDevice(sn, name) # None
  PROVE  MatchDevice(sn, name) \in Streams
<1> DEFINE found == Matching(sn, name)
<1>1. Cardinality(found) = 1 /\ MatchDevice(sn, name) = CHOOSE o \in found : TRUE
  BY DEF MatchDevice
<1>2. found # {}
  BY <1>1, FS_EmptySet
<1>3. found \subseteq Scene
  BY DEF Matching
<1>4. Scene \subseteq Streams
  BY DEF Scene, ToSet, TypeOK
<1> QED
  BY <1>1, <1>2, <1>3, <1>4

\* What an update of a device leaves behind: models of the same length with
\* states in them, and the handlers where they were unless the process ended.
LEMMA UpdateTyped ==
  ASSUME Typed, NEW o \in Streams, NEW request, Update(o, request),
         request.chip = {} \/ \E r \in ChipRequest : request.chip = {r}
  PROVE  /\ pc' = pc \/ Crash
         /\ DOMAIN info' = Streams
         /\ models' \in [Streams -> Seq(ChipModel)]
         /\ \A p \in Streams : Len(models'[p]) = Len(models[p])
         /\ sniffing' \subseteq Streams /\ lePhy' \subseteq Streams /\ classicPhy' \subseteq Streams
<1>1. DOMAIN info' = Streams
  BY DEF Update, UpdateInfo, Typed, TypeOK
<1>2. CASE UNCHANGED <<pc, models, sniffing, phyVars>>
  BY <1>1, <1>2 DEF Typed, TypeOK, phyVars
<1>3. CASE Crash /\ UNCHANGED <<models, sniffing, phyVars>>
  BY <1>1, <1>3 DEF Typed, TypeOK, phyVars
<1>4. CASE /\ request.chip # {} /\ chips[o] # << >> /\ HasModel(Head(chips[o]))
           /\ \A r \in request.chip : UpdateChip(Head(chips[o]), r)
           /\ UNCHANGED pc
  <2>1. PICK r \in ChipRequest : request.chip = {r}
    BY <1>4
  <2> DEFINE c == Head(chips[o])
             p == parent[c]
             i == index[c]
             m == models[p][i]
             new == [capture |-> NewState(m.capture, r.capture),
                     le |-> NewState(m.le, r.le),
                     classic |-> NewState(m.classic, r.classic)]
  <2>2. UpdateChip(c, r)
    BY <1>4, <2>1
  <2>3. c \in Streams
    BY <1>4, TailElements DEF Typed, TypeOK
  <2>4. p \in Streams /\ i \in DOMAIN models[p] /\ models[p] \in Seq(ChipModel)
    BY <1>4, <2>3 DEF HasModel, Typed, TypeOK
  <2>5. m \in ChipModel
    BY <2>4
  <2>6. new \in ChipModel
    BY <2>5, <2>1 DEF NewState, changedState, ChipModel, ChipRequest
  <2>7. models' = [models EXCEPT ![p] = [models[p] EXCEPT ![i] = new]]
    BY <2>2 DEF UpdateChip
  <2> HIDE DEF new
  <2>8. [models[p] EXCEPT ![i] = new] \in Seq(ChipModel)
        /\ Len([models[p] EXCEPT ![i] = new]) = Len(models[p])
    BY <2>4, <2>6, ExceptSeq
  <2>9. /\ models' \in [Streams -> Seq(ChipModel)]
        /\ \A q \in Streams : Len(models'[q]) = Len(models[q])
    BY <2>4, <2>7, <2>8 DEF Typed, TypeOK
  <2>10. sniffing' \subseteq Streams /\ lePhy' \subseteq Streams /\ classicPhy' \subseteq Streams
    BY <2>2, <2>3 DEF UpdateChip, UpdatePhy, Sniffing, Typed, TypeOK
  <2> QED
    BY <1>1, <1>4, <2>9, <2>10
<1> QED
  BY <1>2, <1>3, <1>4 DEF Update

\* The frontend's updates keep the types.
LEMMA UpdateSceneTyped ==
  ASSUME Typed, NEW request, UpdateScene(request),
         request.chip = {} \/ \E r \in ChipRequest : request.chip = {r}
  PROVE  Typed' /\ (pc' = pc \/ Crash)
<1>1. /\ pc' = pc \/ Crash
      /\ DOMAIN info' = Streams
      /\ models' \in [Streams -> Seq(ChipModel)]
      /\ \A p \in Streams : Len(models'[p]) = Len(models[p])
      /\ sniffing' \subseteq Streams /\ lePhy' \subseteq Streams /\ classicPhy' \subseteq Streams
  <2>1. CASE UpdateFound(request)
    <3>1. MatchDevice(request.serial, request.name) \in Streams
      BY <2>1, MatchDeviceInScene DEF UpdateFound, Typed
    <3> QED
      BY <2>1, <3>1, UpdateTyped DEF UpdateScene
  <2>2. CASE ~UpdateFound(request)
    BY <2>2 DEF UpdateScene, Typed, TypeOK, phyVars
  <2> QED
    BY <2>1, <2>2
<1>2. UNCHANGED <<serial, chipId, device, idx, devices, chips, parent, index, idToChip>>
  BY DEF UpdateScene
<1>3. pc' \in [Streams -> PCs]
  BY <1>1 DEF Crash, PCs, Typed, TypeOK
<1>4. TypeOK'
  BY <1>1, <1>2, <1>3 DEF Typed, TypeOK
<1>5. Shape'
  BY <1>1, <1>2 DEF Typed, TypeOK, Shape, Crash
<1> QED
  BY <1>1, <1>4, <1>5 DEF Typed

\* Every step keeps the types.
LEMMA NextTyped == Typed /\ [Next]_vars => Typed'
<1> SUFFICES ASSUME Typed, [Next]_vars PROVE Typed'
  OBVIOUS
<1>1. ASSUME NEW s \in Streams, Reject(s) PROVE Typed'
  <2>1. TypeOK'
    BY <1>1 DEF Reject, Goto, PCs, Typed, TypeOK, sceneVars, chipVars, phyVars
  <2>2. Shape'
    BY <1>1 DEF Reject, Goto, PCs, Typed, TypeOK, Shape, sceneVars, chipVars, phyVars
  <2> QED
    BY <2>1, <2>2 DEF Typed
<1>2. ASSUME NEW s \in Streams, NEW sn \in Serials, NEW id \in ChipIds, Connect(s, sn, id)
      PROVE  Typed'
  <2>1. TypeOK'
    BY <1>2 DEF Connect, Goto, PCs, Typed, TypeOK, sceneVars, chipVars
  <2>2. Shape'
    BY <1>2 DEF Connect, Goto, PCs, Typed, TypeOK, Shape, sceneVars, chipVars
  <2> QED
    BY <2>1, <2>2 DEF Typed
<1>3. ASSUME NEW s \in Streams, TransportReturns(s) PROVE Typed'
  <2>1. TypeOK'
    BY <1>3 DEF TransportReturns, Goto, PCs, Typed, TypeOK, sceneVars, chipVars, phyVars
  <2>2. Shape'
    BY <1>3 DEF TransportReturns, Goto, PCs, Typed, TypeOK, Shape, sceneVars, chipVars, phyVars
  <2> QED
    BY <2>1, <2>2 DEF Typed
<1>4. ASSUME NEW s \in Streams, GetExisting(s) PROVE Typed'
  <2>0. PICK o \in Scene : device' = [device EXCEPT ![s] = o]
    BY <1>4 DEF GetExisting
  <2>a. o \in Streams
    BY DEF Scene, ToSet, Typed, TypeOK
  <2>1. TypeOK'
    BY <1>4, <2>0, <2>a DEF GetExisting, Goto, PCs, Typed, TypeOK, sceneVars, chipVars, phyVars
  <2>2. Shape'
    BY <1>4, <2>0, <2>a
    DEF GetExisting, Goto, PCs, Typed, TypeOK, Shape, sceneVars, chipVars, phyVars
  <2> QED
    BY <2>1, <2>2 DEF Typed
<1>5. ASSUME NEW s \in Streams, CreateNew(s) PROVE Typed'
  <2>1. TypeOK'
    BY <1>5 DEF CreateNew, Goto, PCs, Typed, TypeOK, sceneVars, chipVars, phyVars
  <2>2. Shape'
    BY <1>5 DEF CreateNew, Goto, PCs, Typed, TypeOK, Shape, sceneVars, chipVars, phyVars
  <2> QED
    BY <2>1, <2>2 DEF Typed
<1>6. ASSUME NEW s \in Streams, AddChipFree(s) PROVE Typed'
  <2>1. TypeOK'
    BY <1>6 DEF AddChipFree, Goto, PCs, Typed, TypeOK, sceneVars, chipVars, phyVars
  <2>2. Shape'
    BY <1>6 DEF AddChipFree, Goto, PCs, Typed, TypeOK, Shape, sceneVars, chipVars, phyVars
  <2> QED
    BY <2>1, <2>2 DEF Typed
<1>7. ASSUME NEW s \in Streams, AddChipDuplicate(s) PROVE Typed'
  <2>1. TypeOK'
    BY <1>7 DEF AddChipDuplicate, Goto, PCs, Typed, TypeOK, sceneVars, chipVars, phyVars
  <2>2. Shape'
    BY <1>7 DEF AddChipDuplicate, Goto, PCs, Typed, TypeOK, Shape, sceneVars, chipVars, phyVars
  <2> QED
    BY <2>1, <2>2 DEF Typed
<1>8. ASSUME NEW s \in Streams, AddChipCrash(s) PROVE Typed'
  <2>1. TypeOK'
    BY <1>8 DEF AddChipCrash, Crash, PCs, Typed, TypeOK, sceneVars, chipVars, phyVars
  <2>2. Shape'
    BY <1>8 DEF AddChipCrash, Crash, PCs, Typed, TypeOK, Shape, sceneVars, chipVars, phyVars
  <2> QED
    BY <2>1, <2>2 DEF Typed
<1>9. ASSUME NEW s \in Streams, AddChipInsert(s) PROVE Typed'
  <2> DEFINE o == device[s]
             entry == [capture |-> "OFF", le |-> "ON", classic |-> "ON"]
  <2>0. o \in Streams /\ chips[o] \in Seq(Streams) /\ models[o] \in Seq(ChipModel)
    BY <1>9 DEF AddChipInsert, Typed, TypeOK, Shape
  <2>1. entry \in ChipModel
    BY DEF ChipModel, States
  <2>2. /\ Append(chips[o], s) \in Seq(Streams) /\ Append(models[o], entry) \in Seq(ChipModel)
        /\ Len(Append(chips[o], s)) = Len(chips[o]) + 1
        /\ Len(Append(models[o], entry)) = Len(models[o]) + 1
        /\ Len(chips[o]) + 1 \in Nat
    BY <2>0, <2>1
  <2>3. /\ chips' = [chips EXCEPT ![o] = Append(chips[o], s)]
        /\ models' = [models EXCEPT ![o] = Append(models[o], entry)]
    BY <1>9 DEF AddChipInsert
  <2> HIDE DEF entry
  <2>4. /\ chips' \in [Streams -> Seq(Streams)] /\ models' \in [Streams -> Seq(ChipModel)]
        /\ \A p \in Streams : Len(chips'[p]) = Len(models'[p])
    BY <2>0, <2>2, <2>3 DEF Typed, TypeOK, Shape
  <2>5. TypeOK'
    BY <1>9, <2>0, <2>2, <2>4 DEF AddChipInsert, Goto, PCs, Typed, TypeOK, phyVars
  <2>6. Shape'
    BY <1>9, <2>4 DEF AddChipInsert, Goto, PCs, Typed, TypeOK, Shape, phyVars
  <2> QED
    BY <2>5, <2>6 DEF Typed
<1>10. ASSUME NEW s \in Streams, RemoveChip(s) PROVE Typed'
  <2>1. PICK d \in 1..Len(devices) :
          /\ \/ chips' = [chips EXCEPT ![devices[d]] = Tail(@)]
                /\ models' = [models EXCEPT ![devices[d]] = Tail(@)]
                /\ models[devices[d]] # << >>
             \/ chips' = chips /\ models' = models
          /\ idx' = [idx EXCEPT ![s] = d]
          /\ Goto(s, IF chips'[devices[d]] = << >> THEN "erase" ELSE "ended")
    BY <1>10 DEF RemoveChip
  <2> DEFINE o == devices[d]
  <2>2. o \in Streams /\ chips[o] \in Seq(Streams) /\ models[o] \in Seq(ChipModel)
    BY DEF Typed, TypeOK
  <2>3. /\ chips' \in [Streams -> Seq(Streams)] /\ models' \in [Streams -> Seq(ChipModel)]
        /\ \A p \in Streams : Len(chips'[p]) = Len(models'[p])
    <3>1. CASE chips' = chips /\ models' = models
      BY <3>1 DEF Typed, TypeOK, Shape
    <3>2. CASE /\ chips' = [chips EXCEPT ![o] = Tail(@)] /\ models' = [models EXCEPT ![o] = Tail(@)]
               /\ models[o] # << >>
      <4>1. Len(chips[o]) = Len(models[o]) /\ chips[o] # << >>
        BY <2>2, <3>2, EmptySeq DEF Typed, Shape
      <4>2. /\ Tail(chips[o]) \in Seq(Streams) /\ Tail(models[o]) \in Seq(ChipModel)
            /\ Len(Tail(chips[o])) = Len(Tail(models[o]))
        BY <2>2, <3>2, <4>1, TailElements
      <4> QED
        BY <2>2, <3>2, <4>2 DEF Typed, TypeOK, Shape
    <3> QED
      BY <2>1, <3>1, <3>2
  <2>4. d \in Nat /\ d >= 1
    BY DEF Typed, TypeOK
  <2>5. TypeOK'
    BY <1>10, <2>1, <2>3, <2>4 DEF RemoveChip, Goto, PCs, Typed, TypeOK, chipVars, phyVars
  <2>6. Shape'
    BY <1>10, <2>1, <2>3, <2>4 DEF RemoveChip, Goto, PCs, Typed, TypeOK, Shape, chipVars, phyVars
  <2> QED
    BY <2>5, <2>6 DEF Typed
<1>11. ASSUME NEW s \in Streams, RemoveChipUnknown(s) PROVE Typed'
  <2>1. TypeOK'
    BY <1>11 DEF RemoveChipUnknown, Goto, PCs, Typed, TypeOK, sceneVars, chipVars, phyVars
  <2>2. Shape'
    BY <1>11 DEF RemoveChipUnknown, Goto, PCs, Typed, TypeOK, Shape, sceneVars, chipVars, phyVars
  <2> QED
    BY <2>1, <2>2 DEF Typed
<1>12. ASSUME NEW s \in Streams, Erase(s) PROVE Typed'
  <2>0. devices' \in Seq(Streams)
    BY <1>12, RemoveAtElements DEF Erase, Typed, TypeOK, Shape
  <2>1. TypeOK'
    BY <1>12, <2>0 DEF Erase, Goto, PCs, Typed, TypeOK, chipVars, phyVars
  <2>2. Shape'
    BY <1>12 DEF Erase, Goto, PCs, Typed, TypeOK, Shape, chipVars, phyVars
  <2> QED
    BY <2>1, <2>2 DEF Typed
<1>13. ASSUME NEW s \in Streams, ErasePastEnd(s) PROVE Typed'
  <2>0. devices' \in Seq(Streams)
    BY <1>13, FrontElements DEF ErasePastEnd, Typed, TypeOK
  <2>1. TypeOK'
    BY <1>13, <2>0 DEF ErasePastEnd, Goto, Crash, PCs, Typed, TypeOK, chipVars, phyVars
  <2>2. Shape'
    BY <1>13 DEF ErasePastEnd, Goto, Crash, PCs, Typed, TypeOK, Shape, chipVars, phyVars
  <2> QED
    BY <2>1, <2>2 DEF Typed
<1>14. ASSUME NEW r \in Requests, UpdateDevice(r) PROVE Typed'
  BY <1>14, UpdateSceneTyped, RequestsAssumption DEF UpdateDevice
<1>15. ASSUME NEW r \in Captures, SetPacketCapture(r) PROVE Typed'
  <2> DEFINE c == [capture |-> r.capture, le |-> "UNKNOWN", classic |-> "UNKNOWN"]
             request == [serial |-> r.serial, name |-> NoText, moves |-> FALSE, chip |-> {c}]
  <2>1. c \in ChipRequest
    BY CapturesAssumption DEF ChipRequest
  <2>2. UpdateScene(request)
    BY <1>15 DEF SetPacketCapture
  <2>3. request.chip = {c}
    OBVIOUS
  <2> HIDE DEF request, c
  <2> QED
    BY <2>1, <2>2, <2>3, UpdateSceneTyped
<1>16. ASSUME Reset PROVE Typed'
  <2>1. TypeOK'
    BY <1>16 DEF Reset, Typed, TypeOK, handlerVars, chipVars, phyVars
  <2>2. Shape'
    BY <1>16 DEF Reset, Typed, TypeOK, Shape, handlerVars, chipVars, phyVars
  <2> QED
    BY <2>1, <2>2 DEF Typed
<1>17. ASSUME UNCHANGED vars PROVE Typed'
  BY <1>17 DEF Typed, TypeOK, Shape, vars, handlerVars, sceneVars, chipVars, phyVars
<1> QED
  BY <1>1, <1>2, <1>3, <1>4, <1>5, <1>6, <1>7, <1>8, <1>9, <1>10, <1>11, <1>12, <1>13, <1>14,
     <1>15, <1>16, <1>17 DEF Next, Handler, GetOrCreate

\* Whatever streams connect, overlap and end and whatever is asked, the scene,
\* the chips and the models keep their types: no update leaves a state in a
\* model that is not ON or OFF, no stale index is used as 0.
THEOREM TypeCorrect == Spec => []TypeOK
<1>1. Spec => []Typed
  BY InitTyped, NextTyped, PTL DEF Spec
<1>2. Typed => TypeOK
  BY DEF Typed
<1> QED
  BY <1>1, <1>2, PTL

-----------------------------------------------------------------------------
(* Unique serials *)

\* A device of the scene was created by a stream that has connected, so its
\* serial is settled.
Entered == \A i \in 1..Len(devices) : pc[devices[i]] # "idle"

\* Steps that leave the scene and the serials alone, and no handler going back
\* to idle, keep the serials unique.
LEMMA SceneUnchanged ==
  ASSUME Typed, Entered, UniqueSerials, UNCHANGED <<devices, serial>>,
         \A s \in Streams : pc'[s] = "idle" => pc[s] = "idle"
  PROVE  (Entered /\ UniqueSerials)'
<1>1. \A i \in 1..Len(devices) : devices[i] \in Streams
  BY DEF Typed, TypeOK
<1> QED
  BY <1>1 DEF Entered, UniqueSerials

\* So do steps that take elements out of the scene: the k-th of the new scene
\* is the f[k]-th of the old one, f being injective.
LEMMA SceneShrinks ==
  ASSUME Typed, Typed', Entered, UniqueSerials, serial' = serial,
         \A s \in Streams : pc'[s] = "idle" => pc[s] = "idle",
         NEW f, f \in [1..Len(devices') -> 1..Len(devices)],
         \A i, j \in 1..Len(devices') : f[i] = f[j] => i = j,
         \A i \in 1..Len(devices') : devices'[i] = devices[f[i]]
  PROVE  (Entered /\ UniqueSerials)'
<1>1. \A i \in 1..Len(devices) : devices[i] \in Streams
  BY DEF Typed, TypeOK
<1>2. Entered'
  BY <1>1 DEF Entered
<1>3. UniqueSerials'
  BY <1>1 DEF UniqueSerials
<1> QED
  BY <1>2, <1>3

LEMMA NextUniqueSerials ==
  Typed /\ Typed' /\ Entered /\ UniqueSerials /\ [Next]_vars => (Entered /\ UniqueSerials)'
<1> SUFFICES ASSUME Typed, Typed', Entered, UniqueSerials, [Next]_vars
             PROVE  (Entered /\ UniqueSerials)'
  OBVIOUS
<1>0. Len(devices) \in Nat /\ \A i \in 1..Len(devices) : devices[i] \in Streams
  BY DEF Typed, TypeOK
<1>1. ASSUME NEW s \in Streams,
             \/ Reject(s) \/ TransportReturns(s) \/ GetExisting(s) \/ AddChipFree(s)
             \/ AddChipDuplicate(s) \/ AddChipInsert(s) \/ RemoveChipUnknown(s)
      PROVE  (Entered /\ UniqueSerials)'
  <2>1. UNCHANGED <<devices, serial>>
    BY <1>1 DEF Reject, TransportReturns, GetExisting, AddChipFree, AddChipDuplicate,
      AddChipInsert, RemoveChipUnknown, sceneVars
  <2>2. \A t \in Streams : pc'[t] = "idle" => pc[t] = "idle"
    BY <1>1 DEF Reject, TransportReturns, GetExisting, AddChipFree, AddChipDuplicate,
      AddChipInsert, RemoveChipUnknown, Goto, Typed, TypeOK
  <2> QED
    BY <2>1, <2>2, SceneUnchanged
<1>2. ASSUME NEW s \in Streams, NEW sn \in Serials, NEW id \in ChipIds, Connect(s, sn, id)
      PROVE  (Entered /\ UniqueSerials)'
  <2>1. devices' = devices /\ \A i \in 1..Len(devices) : devices[i] # s
    BY <1>2 DEF Connect, Entered, sceneVars
  <2>2. \A i \in 1..Len(devices) : serial'[devices[i]] = serial[devices[i]]
    BY <1>0, <1>2, <2>1 DEF Connect, Typed, TypeOK
  <2>3. \A i \in 1..Len(devices) : pc'[devices[i]] # "idle"
    BY <1>0, <1>2 DEF Connect, Goto, Typed, TypeOK, Entered
  <2> QED
    BY <2>1, <2>2, <2>3 DEF Entered, UniqueSerials
<1>3. ASSUME NEW s \in Streams, CreateNew(s) PROVE (Entered /\ UniqueSerials)'
  <2>1. /\ Len(devices') = Len(devices) + 1 /\ devices'[Len(devices) + 1] = s
        /\ \A i \in 1..Len(devices) : devices'[i] = devices[i]
    BY <1>3 DEF CreateNew, Typed, TypeOK
  <2>2. \A i \in 1..Len(devices) : serial[devices[i]] # serial[s]
    <3>1. \A i \in 1..Len(devices) : devices[i] \in Scene
      BY DEF Scene, ToSet, Typed, TypeOK
    <3> QED
      BY <1>3, <3>1 DEF CreateNew
  <2>3. serial' = serial /\ \A t \in Streams : pc'[t] = "idle" => pc[t] = "idle" /\ t # s
    BY <1>3 DEF CreateNew, Goto, Typed, TypeOK
  <2>4. \A i \in 1..(Len(devices) + 1) : i \in 1..Len(devices) \/ i = Len(devices) + 1
    BY <1>0
  <2>5. Entered'
    BY <1>0, <2>1, <2>3, <2>4 DEF Entered
  <2>6. UniqueSerials'
    <3> SUFFICES ASSUME NEW i \in 1..(Len(devices) + 1), NEW j \in 1..(Len(devices) + 1),
                        serial[devices'[i]] = serial[devices'[j]]
                 PROVE  i = j
      BY <2>1, <2>3 DEF UniqueSerials
    <3>1. CASE i \in 1..Len(devices) /\ j \in 1..Len(devices)
      BY <2>1, <3>1 DEF UniqueSerials
    <3>2. CASE i = Len(devices) + 1 /\ j \in 1..Len(devices)
      BY <2>1, <2>2, <3>2
    <3>3. CASE i \in 1..Len(devices) /\ j = Len(devices) + 1
      BY <2>1, <2>2, <3>3
    <3> QED
      BY <2>4, <3>1, <3>2, <3>3
  <2> QED
    BY <2>5, <2>6
<1>4. ASSUME NEW s \in Streams, AddChipCrash(s) PROVE (Entered /\ UniqueSerials)'
  BY <1>4, SceneUnchanged DEF AddChipCrash, Crash, sceneVars
<1>5. ASSUME NEW s \in Streams, RemoveChip(s) PROVE (Entered /\ UniqueSerials)'
  <2>1. UNCHANGED <<devices, serial>>
    BY <1>5 DEF RemoveChip
  <2>2. \E label \in {"erase", "ended"} : Goto(s, label)
    BY <1>5 DEF RemoveChip
  <2>3. \A t \in Streams : pc'[t] = "idle" => pc[t] = "idle"
    BY <2>2 DEF Goto, Typed, TypeOK
  <2> QED
    BY <2>1, <2>3, SceneUnchanged
<1>6. ASSUME NEW s \in Streams, Erase(s) PROVE (Entered /\ UniqueSerials)'
  <2> DEFINE k == idx[s]
             f == [i \in 1..Len(devices') |-> IF i < k THEN i ELSE i + 1]
  <2>1. k \in Nat /\ k <= Len(devices) /\ k >= 1
    BY <1>6 DEF Erase, Typed, TypeOK, Shape
  <2>2. /\ Len(devices') = Len(devices) - 1
        /\ \A i \in 1..(Len(devices) - 1) :
             devices'[i] = IF i < k THEN devices[i] ELSE devices[i + 1]
    <3>1. devices' = RemoveAt(devices, k) /\ devices \in Seq(Streams)
      BY <1>6 DEF Erase, Typed, TypeOK
    <3> HIDE DEF k
    <3> QED
      BY <2>1, <3>1, RemoveAtElements
  <2>3. f \in [1..Len(devices') -> 1..Len(devices)]
    BY <1>0, <2>1, <2>2
  <2>4. \A i, j \in 1..Len(devices') : f[i] = f[j] => i = j
    BY <1>0, <2>1, <2>2
  <2>5. \A i \in 1..Len(devices') : devices'[i] = devices[f[i]]
    BY <2>2
  <2>6. serial' = serial /\ \A t \in Streams : pc'[t] = "idle" => pc[t] = "idle"
    BY <1>6 DEF Erase, Goto, Typed, TypeOK
  <2> HIDE DEF f
  <2> QED
    BY <2>3, <2>4, <2>5, <2>6, SceneShrinks
<1>7. ASSUME NEW s \in Streams, ErasePastEnd(s) PROVE (Entered /\ UniqueSerials)'
  <2>1. CASE devices' = devices /\ Crash
    BY <1>7, <2>1, SceneUnchanged DEF ErasePastEnd, Crash
  <2>2. CASE devices # << >> /\ devices' = Front(devices) /\ Goto(s, "ended")
    <3> DEFINE f == [i \in 1..Len(devices') |-> i]
    <3>1. Len(devices') = Len(devices) - 1
          /\ \A i \in 1..(Len(devices) - 1) : devices'[i] = devices[i]
      BY <2>2, FrontElements DEF Typed, TypeOK
    <3>2. f \in [1..Len(devices') -> 1..Len(devices)]
      BY <1>0, <3>1
    <3>3. /\ \A i, j \in 1..Len(devices') : f[i] = f[j] => i = j
          /\ \A i \in 1..Len(devices') : devices'[i] = devices[f[i]]
      BY <3>1
    <3>4. serial' = serial /\ \A t \in Streams : pc'[t] = "idle" => pc[t] = "idle"
      BY <1>7, <2>2 DEF ErasePastEnd, Goto, Typed, TypeOK
    <3> HIDE DEF f
    <3> QED
      BY <3>2, <3>3, <3>4, SceneShrinks
  <2> QED
    BY <1>7, <2>1, <2>2 DEF ErasePastEnd
<1>8. ASSUME NEW request, UpdateScene(request),
             request.chip = {} \/ \E r \in ChipRequest : request.chip = {r}
      PROVE  (Entered /\ UniqueSerials)'
  <2>1. pc' = pc \/ Crash
    BY <1>8, UpdateSceneTyped
  <2>2. \A t \in Streams : pc'[t] = "idle" => pc[t] = "idle"
    BY <2>1 DEF Crash
  <2> QED
    BY <1>8, <2>2, SceneUnchanged DEF UpdateScene
<1>9. ASSUME NEW r \in Requests, UpdateDevice(r) PROVE (Entered /\ UniqueSerials)'
  BY <1>8, <1>9, RequestsAssumption DEF UpdateDevice
<1>10. ASSUME NEW r \in Captures, SetPacketCapture(r) PROVE (Entered /\ UniqueSerials)'
  <2> DEFINE c == [capture |-> r.capture, le |-> "UNKNOWN", classic |-> "UNKNOWN"]
             request == [serial |-> r.serial, name |-> NoText, moves |-> FALSE, chip |-> {c}]
  <2>1. c \in ChipRequest
    BY CapturesAssumption DEF ChipRequest
  <2>2. UpdateScene(request)
    BY <1>10 DEF SetPacketCapture
  <2>3. request.chip = {c}
    OBVIOUS
  <2> HIDE DEF request, c
  <2> QED
    BY <1>8, <2>1, <2>2, <2>3
<1>11. ASSUME Reset PROVE (Entered /\ UniqueSerials)'
  BY <1>11, SceneUnchanged DEF Reset, handlerVars
<1>12. ASSUME UNCHANGED vars PROVE (Entered /\ UniqueSerials)'
  BY <1>12, SceneUnchanged DEF vars, handlerVars, sceneVars
<1> QED
  BY <1>1, <1>2, <1>3, <1>4, <1>5, <1>6, <1>7, <1>9, <1>10, <1>11, <1>12
  DEF Next, Handler, GetOrCreate

\* GetOrCreate never puts a second device with a serial into the scene, and no
\* erasure, not even one with an index that has become stale or points past the
\* end, makes two of them share one.
THEOREM UniqueSerialsHolds == Spec => []UniqueSerials
<1>1. Init => Typed /\ Entered /\ UniqueSerials
  <2>1. Init => Len(devices) = 0
    BY DEF Init
  <2> QED
    BY <2>1, InitTyped DEF Entered, UniqueSerials
<1>2. Spec => [](Typed /\ Entered /\ UniqueSerials)
  BY <1>1, NextTyped, NextUniqueSerials, PTL DEF Spec
<1> QED
  BY <1>2, PTL

=============================================================================
