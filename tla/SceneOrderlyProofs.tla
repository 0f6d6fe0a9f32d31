------------------------- MODULE SceneOrderlyProofs -------------------------
(***************************************************************************)
(* Proofs about the scene where a device reconnects only when its old      *)
(* stream has ended (Overlap = "none") and streams announce no chip id.    *)
(* What holds only if one stream at a time sets up or tears down comes     *)
(* last (MaxBusy = 1).                                                     *)
(***************************************************************************)
EXTENDS SceneControllerProofs

-----------------------------------------------------------------------------
(* The invariant *)

\* A handler that has a device and has not yet removed its chip.
Holds(s) == pc[s] \in {"add_chip", "insert", "open", "remove"}
HasChip(s) == pc[s] \in {"open", "remove"}
NotYet(s) == pc[s] \in {"idle", "get_or_create"}

\* Of the streams of a serial all but one have ended.
Alone ==
  /\ \A s, t \in Streams :
       s # t /\ serial[s] = serial[t] /\ serial[s] # NoText => pc[s] = "ended" \/ pc[t] = "ended"
  /\ \A s \in Streams : pc[s] = "idle" => serial[s] = NoText
  /\ \A s \in Streams : pc[s] \notin {"idle", "ended"} => serial[s] # NoText
  /\ \A s \in Streams : chipId[s] = NoText

\* A handler's device has its serial, and the scene has no other one that has.
Held ==
  /\ \A s \in Streams : Holds(s) =>
       /\ device[s] \in Streams
       /\ serial[device[s]] = serial[s]
       /\ ~NotYet(device[s])
       /\ \A o \in Scene : serial[o] = serial[s] => o = device[s]
  /\ \A o \in Scene : ~NotYet(o)

\* A device has no chip until a handler inserts its own, which is the only one until that
\* handler removes it.
OneChip ==
  /\ \A s \in Streams : pc[s] \in {"add_chip", "insert"} => chips[device[s]] = << >>
  /\ \A s \in Streams : HasChip(s) =>
       chips[device[s]] = <<s>> /\ parent[s] = device[s] /\ index[s] = 1
  /\ \A o \in Streams : NotYet(o) => chips[o] = << >>
  /\ \A o \in Scene : chips[o] # << >> => \E s \in Streams : HasChip(s) /\ device[s] = o

\* What rootcanal and the sniffers do for a stream, from its connection on.
Radios ==
  /\ \A s \in Streams : pc[s] \in {"idle", "remove", "erase", "ended"} =>
       s \notin lePhy /\ s \notin classicPhy
  /\ \A s \in Streams : pc[s] \in {"get_or_create", "add_chip", "insert"} =>
       s \in lePhy /\ s \in classicPhy
  /\ \A s \in Streams : pc[s] \in {"idle", "get_or_create", "add_chip", "insert"} =>
       s \notin sniffing /\ s \notin idToChip
  /\ \A s \in Streams : pc[s] = "open" =>
       /\ models[device[s]][1].le = "ON" <=> s \in lePhy
       /\ models[device[s]][1].classic = "ON" <=> s \in classicPhy
       /\ models[device[s]][1].capture = "ON" <=> s \in sniffing

Orderly == Alone /\ Held /\ OneChip /\ Radios

Crashed == \A s \in Streams : pc[s] = "crashed"

\* A process that has crashed keeps what it had.
OrderlyInv ==
  /\ Typed /\ Entered /\ UniqueSerials /\ ModelReachable
  /\ Crashed \/ (Up /\ Orderly)

\* One at a time: the handler that erases has the index of its device, every handler finds its
\* device in the scene, and every device of the scene has its handler.
OneAtATime ==
  /\ \A s, t \in Busy : s = t
  /\ \A s \in Streams : Holds(s) => device[s] \in Scene
  /\ \A s \in Streams : pc[s] = "erase" =>
       idx[s] \in 1..Len(devices) /\ devices[idx[s]] = device[s] /\ chips[device[s]] = << >>
  /\ \A o \in Scene : \E s \in Streams : (Holds(s) \/ pc[s] = "erase") /\ device[s] = o

-----------------------------------------------------------------------------
(* What a step may do *)

\* A device reconnects when its old stream has ended, and no stream announces a chip id.
NoOverlap == Overlap = "none" /\ ChipIds \subseteq {NoText}

\* Dropping the only element.
LEMMA TailOfOne ==
  ASSUME NEW S, NEW seq \in Seq(S), Len(seq) = 1
  PROVE  seq # << >> /\ Tail(seq) = << >>
<1>1. seq # << >>
  OBVIOUS
<1>2. Tail(seq) \in Seq(S) /\ Len(Tail(seq)) = 0
  BY <1>1, TailElements
<1> QED
  BY <1>1, <1>2, EmptySeq

\* The devices of the scene are streams.
LEMMA SceneStreams ==
  ASSUME Typed
  PROVE  /\ Scene \subseteq Streams
         /\ Len(devices) \in Nat
         /\ \A i \in 1..Len(devices) : devices[i] \in Scene
         /\ \A o \in Scene : \E i \in 1..Len(devices) : devices[i] = o
  BY DEF Typed, TypeOK, Scene, ToSet

\* A device of the scene that has a chip has the chip of one handler, with its model.
LEMMA FirstChip ==
  ASSUME Typed, Orderly, NEW o \in Scene, chips[o] # << >>
  PROVE  \E c \in Streams :
           /\ HasChip(c) /\ device[c] = o /\ chips[o] = <<c>> /\ Head(chips[o]) = c
           /\ parent[c] = o /\ index[c] = 1 /\ Len(models[o]) = 1 /\ HasModel(c)
<1>1. PICK c \in Streams : HasChip(c) /\ device[c] = o
  BY DEF Orderly, OneChip
<1>2. chips[o] = <<c>> /\ parent[c] = o /\ index[c] = 1
  BY <1>1 DEF Orderly, OneChip
<1>3. o \in Streams /\ models[o] \in Seq(ChipModel)
  BY SceneStreams DEF Typed, TypeOK
<1>4. Head(chips[o]) = c /\ Len(chips[o]) = 1
  BY <1>2
<1>5. Len(models[o]) = 1
  BY <1>3, <1>4 DEF Typed, Shape
<1>6. HasModel(c)
  BY <1>2, <1>3, <1>5, NoneAssumption DEF HasModel
<1> QED
  BY <1>1, <1>2, <1>4, <1>5, <1>6

\* The steps of a handler that finds no chip but its own.
Step(s) ==
  \/ Reject(s) \/ TransportReturns(s) \/ GetExisting(s) \/ CreateNew(s) \/ AddChipFree(s)
  \/ AddChipInsert(s) \/ RemoveChip(s) \/ RemoveChipUnknown(s) \/ Erase(s)
  \/ (ErasePastEnd(s) /\ ~Crash)

\* No handler finds the chip of another stream in its device.
LEMMA NoDuplicate ==
  ASSUME Orderly, NEW s \in Streams, TransportReturns(s) \/ Reject(s) \/ Handler(s)
  PROVE  Step(s) \/ (ErasePastEnd(s) /\ Crash)
<1>1. ~AddChipDuplicate(s) /\ ~AddChipCrash(s)
  BY DEF Orderly, OneChip, AddChipDuplicate, AddChipCrash
<1> QED
  BY <1>1 DEF Handler, GetOrCreate, Step

\* RemoveChip finds the handler's own device, takes its chip out and goes on to erase it.
LEMMA RemovesOwn ==
  ASSUME Typed, Orderly, NEW s \in Streams, RemoveChip(s)
  PROVE  /\ device[s] \in Scene
         /\ \E d \in 1..Len(devices) : devices[d] = device[s] /\ idx' = [idx EXCEPT ![s] = d]
         /\ chips' = [chips EXCEPT ![device[s]] = << >>]
         /\ models' = [models EXCEPT ![device[s]] = << >>]
         /\ Goto(s, "erase")
<1>1. PICK d \in 1..Len(devices) :
        LET o == devices[d]
            found == chipId[s] = NoText /\ models[o] # << >>
        IN  /\ IsFirst(d, serial[s])
            /\ chips' = IF found THEN [chips EXCEPT ![o] = Tail(@)] ELSE chips
            /\ models' = IF found THEN [models EXCEPT ![o] = Tail(@)] ELSE models
            /\ idx' = [idx EXCEPT ![s] = d]
            /\ Goto(s, IF chips'[o] = << >> THEN "erase" ELSE "ended")
  BY DEF RemoveChip
<1> DEFINE o == devices[d]
<1>2. o \in Scene /\ o \in Streams /\ serial[o] = serial[s]
  BY <1>1, SceneStreams DEF IsFirst
<1>3. pc[s] = "remove"
  BY DEF RemoveChip
<1>4. o = device[s]
  BY <1>2, <1>3 DEF Orderly, Held, Holds
<1>5. chips[o] = <<s>> /\ chipId[s] = NoText
  BY <1>3, <1>4 DEF Orderly, Alone, OneChip, HasChip
<1>6. /\ chips[o] \in Seq(Streams) /\ Len(chips[o]) = 1
      /\ models[o] \in Seq(ChipModel) /\ Len(models[o]) = 1
  BY <1>2, <1>5 DEF Typed, TypeOK, Shape
<1>7. Tail(chips[o]) = << >> /\ models[o] # << >> /\ Tail(models[o]) = << >>
  BY <1>6, TailOfOne
<1>8. chips' = [chips EXCEPT ![o] = << >>] /\ models' = [models EXCEPT ![o] = << >>]
  BY <1>1, <1>5, <1>7
<1>9. chips'[o] = << >>
  BY <1>2, <1>8 DEF Typed, TypeOK
<1> QED
  BY <1>1, <1>2, <1>4, <1>8, <1>9

\* How a step changes the scene.
LEMMA SceneChange ==
  ASSUME Typed, Orderly, NEW s \in Streams, Step(s)
  PROVE  /\ CreateNew(s) => Scene' = Scene \cup {s}
         /\ ~CreateNew(s) => Scene' \subseteq Scene
         /\ ~CreateNew(s) /\ ~Erase(s) /\ ~ErasePastEnd(s) => devices' = devices /\ Scene' = Scene
<1>0. devices \in Seq(Streams) /\ Len(devices) \in Nat
  BY DEF Typed, TypeOK
<1>1. ASSUME CreateNew(s) PROVE Scene' = Scene \cup {s}
  <2>1. devices' = Append(devices, s)
    BY <1>1 DEF CreateNew
  <2>2. Len(devices') = Len(devices) + 1 /\ DOMAIN devices' = 1..(Len(devices) + 1)
        /\ devices'[Len(devices) + 1] = s /\ \A i \in 1..Len(devices) : devices'[i] = devices[i]
    BY <1>0, <2>1
  <2>3. DOMAIN devices = 1..Len(devices)
    BY <1>0
  <2> QED
    BY <1>0, <2>2, <2>3 DEF Scene, ToSet
<1>2. ASSUME Erase(s) PROVE Scene' \subseteq Scene
  <2> DEFINE k == idx[s]
  <2>1. k \in Nat /\ k <= Len(devices) /\ k >= 1
    BY <1>2 DEF Erase, Typed, TypeOK, Shape
  <2>2. devices' = RemoveAt(devices, k)
    BY <1>2 DEF Erase
  <2> HIDE DEF k
  <2>3. /\ devices' \in Seq(Streams)
        /\ Len(devices') = Len(devices) - 1
        /\ \A i \in 1..(Len(devices) - 1) :
             devices'[i] = IF i < k THEN devices[i] ELSE devices[i + 1]
    BY <1>0, <2>1, <2>2, RemoveAtElements
  <2>4. ASSUME NEW i \in 1..(Len(devices) - 1)
        PROVE  \E j \in 1..Len(devices) : devices'[i] = devices[j]
    BY <1>0, <2>1, <2>3
  <2>5. DOMAIN devices = 1..Len(devices) /\ DOMAIN devices' = 1..(Len(devices) - 1)
    BY <1>0, <2>3
  <2> QED
    BY <2>4, <2>5 DEF Scene, ToSet
<1>3. ASSUME ErasePastEnd(s), ~Crash PROVE Scene' \subseteq Scene
  <2>1. devices # << >> /\ devices' = Front(devices)
    BY <1>3 DEF ErasePastEnd
  <2>2. /\ devices' \in Seq(Streams)
        /\ Len(devices') = Len(devices) - 1
        /\ \A i \in 1..(Len(devices) - 1) : devices'[i] = devices[i]
    BY <1>0, <2>1, FrontElements
  <2>3. DOMAIN devices = 1..Len(devices) /\ DOMAIN devices' = 1..(Len(devices) - 1)
    BY <1>0, <2>2
  <2> QED
    BY <1>0, <2>2, <2>3 DEF Scene, ToSet
<1>4. ASSUME ~CreateNew(s), ~Erase(s), ~ErasePastEnd(s) PROVE devices' = devices /\ Scene' = Scene
  <2>1. devices' = devices
    BY <1>4 DEF Step, Reject, TransportReturns, GetExisting, AddChipFree, AddChipInsert,
      RemoveChip, RemoveChipUnknown, sceneVars
  <2> QED
    BY <2>1 DEF Scene
<1>5. ErasePastEnd(s) => ~Crash
  BY <1>0 DEF Step, Reject, TransportReturns, GetExisting, CreateNew, AddChipFree, AddChipInsert,
    RemoveChip, RemoveChipUnknown, Erase, ErasePastEnd, Typed, TypeOK
<1> QED
  BY <1>1, <1>2, <1>3, <1>4, <1>5

\* Where a step takes the handler.
Goes(s, from, to) == pc[s] = from /\ pc' = [pc EXCEPT ![s] = to]

\* A step goes on along StreamPackets and changes no initial_info.
LEMMA StepGoes ==
  ASSUME Typed, Orderly, NEW s \in Streams, Step(s)
  PROVE  /\ \/ Goes(s, "idle", "ended") \/ Goes(s, "open", "remove")
            \/ Goes(s, "get_or_create", "add_chip") \/ Goes(s, "add_chip", "insert")
            \/ Goes(s, "insert", "open") \/ Goes(s, "remove", "erase")
            \/ Goes(s, "remove", "ended") \/ Goes(s, "erase", "ended")
         /\ UNCHANGED <<serial, chipId>>
<1>1. CASE RemoveChip(s)
  BY <1>1, RemovesOwn DEF RemoveChip, Goes, Goto
<1>2. CASE ~RemoveChip(s)
  BY <1>2 DEF Step, Reject, TransportReturns, GetExisting, CreateNew, AddChipFree, AddChipInsert,
    RemoveChipUnknown, Erase, ErasePastEnd, Goes, Goto
<1> QED
  BY <1>1, <1>2

\* A step of a handler leaves the streams of a serial alone.
LEMMA StepAlone ==
  ASSUME Typed, Orderly, NEW s \in Streams, Step(s) PROVE Alone' /\ (Up => Up')
<1>1. pc \in [Streams -> PCs] /\ Alone
  BY DEF Typed, TypeOK, Orderly
<1> QED
  BY <1>1, StepGoes DEF Goes, Alone, Up

\* ... and its device the only one with its serial.
LEMMA StepHeld ==
  ASSUME Typed, UniqueSerials, Orderly, NEW s \in Streams, Step(s) PROVE Held'
<1>0. pc \in [Streams -> PCs] /\ device \in [Streams -> Streams \cup {None}] /\ Alone /\ Held
      /\ serial' = serial /\ Scene \subseteq Streams
  BY StepGoes, SceneStreams DEF Typed, TypeOK, Orderly
<1>0a. \A o \in Streams : ~NotYet(o) => ~NotYet(o)'
  BY <1>0, StepGoes DEF Goes, NotYet
<1>1. CASE GetExisting(s)
  <2>1. PICK o \in Scene : serial[o] = serial[s] /\ device' = [device EXCEPT ![s] = o]
    BY <1>1 DEF GetExisting
  <2>2. \A q \in Scene : serial[q] = serial[s] => q = o
    BY <2>1, SceneStreams DEF UniqueSerials
  <2>3. Scene' = Scene /\ pc' = [pc EXCEPT ![s] = "add_chip"]
    BY <1>1, SceneChange DEF GetExisting, CreateNew, Erase, ErasePastEnd, Goto
  <2> QED
    BY <1>0, <1>0a, <2>1, <2>2, <2>3 DEF Held, Holds
<1>2. CASE CreateNew(s)
  <2>1. /\ device' = [device EXCEPT ![s] = s] /\ pc' = [pc EXCEPT ![s] = "add_chip"]
        /\ Scene' = Scene \cup {s}
        /\ pc[s] = "get_or_create" /\ \A o \in Scene : serial[o] # serial[s]
    BY <1>2, SceneChange DEF CreateNew, Goto
  <2>2. \A t \in Streams : Holds(t) => serial[t] # serial[s]
    BY <1>0, <2>1 DEF Alone, Holds
  <2> QED
    BY <1>0, <1>0a, <2>1, <2>2 DEF Held, Holds, NotYet
<1>3. CASE ~GetExisting(s) /\ ~CreateNew(s)
  <2>1. Scene' \subseteq Scene /\ device' = device
    BY <1>3, SceneChange DEF Step, Reject, TransportReturns, AddChipFree, AddChipInsert, RemoveChip,
      RemoveChipUnknown, Erase, ErasePastEnd
  <2>2. \A t \in Streams : Holds(t)' => Holds(t)
    <3>1. pc[s] # "get_or_create"
      BY <1>3 DEF Step, Reject, TransportReturns, AddChipFree, AddChipInsert, RemoveChip,
        RemoveChipUnknown, Erase, ErasePastEnd
    <3> QED
      BY <1>0, <3>1, StepGoes DEF Goes, Holds
  <2> QED
    BY <1>0, <1>0a, <2>1, <2>2 DEF Held
<1> QED
  BY <1>1, <1>2, <1>3

\* The devices that two handlers hold are different.
LEMMA OwnDevice ==
  ASSUME Orderly, NEW s \in Streams, NEW t \in Streams, Holds(s), Holds(t), device[s] = device[t]
  PROVE  s = t
<1>1. serial[s] = serial[t] /\ serial[s] # NoText
  BY DEF Orderly, Held, Alone, Holds
<1> QED
  BY <1>1 DEF Orderly, Alone, Holds

\* A device that GetOrCreate gives out has no chip.
LEMMA GivenEmpty ==
  ASSUME Typed, Orderly, NEW s \in Streams, pc[s] = "get_or_create",
         NEW o \in Scene, serial[o] = serial[s]
  PROVE  chips[o] = << >>
<1> SUFFICES ASSUME chips[o] # << >> PROVE FALSE
  OBVIOUS
<1>1. PICK t \in Streams : HasChip(t) /\ device[t] = o
  BY FirstChip
<1>2. serial[t] = serial[s] /\ t # s
  BY <1>1 DEF Orderly, Held, Holds, HasChip
<1> QED
  BY <1>1, <1>2 DEF Orderly, Alone, HasChip

\* A step keeps every device at one chip at most, that of its handler.
LEMMA StepOneChip ==
  ASSUME Typed, UniqueSerials, Orderly, NEW s \in Streams, Step(s) PROVE OneChip'
<1>0. /\ pc \in [Streams -> PCs] /\ device \in [Streams -> Streams \cup {None}]
      /\ chips \in [Streams -> Seq(Streams)]
      /\ parent \in [Streams -> Streams \cup {None}] /\ index \in [Streams -> Nat]
      /\ Alone /\ Held /\ OneChip /\ Scene \subseteq Streams
  BY SceneStreams DEF Typed, TypeOK, Orderly
<1>1. CASE GetExisting(s)
  <2>1. PICK o \in Scene : serial[o] = serial[s] /\ device' = [device EXCEPT ![s] = o]
    BY <1>1 DEF GetExisting
  <2>2. chips[o] = << >>
    BY <1>1, <2>1, GivenEmpty DEF GetExisting
  <2>3. /\ Scene' = Scene /\ pc[s] = "get_or_create" /\ pc' = [pc EXCEPT ![s] = "add_chip"]
        /\ UNCHANGED <<chips, parent, index>>
    BY <1>1, SceneChange DEF GetExisting, CreateNew, Erase, ErasePastEnd, Goto, sceneVars, chipVars
  <2> QED
    BY <1>0, <2>1, <2>2, <2>3 DEF OneChip, HasChip, NotYet
<1>2. CASE CreateNew(s)
  <2>1. /\ device' = [device EXCEPT ![s] = s]
        /\ Scene' = Scene \cup {s} /\ pc[s] = "get_or_create" /\ pc' = [pc EXCEPT ![s] = "add_chip"]
        /\ UNCHANGED <<chips, parent, index>>
    BY <1>2, SceneChange DEF CreateNew, Goto, sceneVars, chipVars
  <2>2. chips[s] = << >>
    BY <1>0, <2>1 DEF OneChip, NotYet
  <2> QED
    BY <1>0, <2>1, <2>2 DEF OneChip, HasChip, NotYet
<1>3. CASE AddChipInsert(s)
  <2> DEFINE o == device[s]
  <2>1. /\ pc[s] = "insert" /\ pc' = [pc EXCEPT ![s] = "open"] /\ UNCHANGED device
        /\ parent' = [parent EXCEPT ![s] = o] /\ index' = [index EXCEPT ![s] = Len(chips[o]) + 1]
        /\ chips' = [chips EXCEPT ![o] = Append(@, s)]
    BY <1>3 DEF AddChipInsert, Goto
  <2>2. o \in Streams /\ chips[o] = << >> /\ ~NotYet(o)
    BY <1>0, <2>1 DEF OneChip, Held, Holds
  <2>3. chips' = [chips EXCEPT ![o] = <<s>>] /\ index' = [index EXCEPT ![s] = 1]
    BY <1>0, <2>1, <2>2
  <2>4. Scene' = Scene
    BY <2>1, SceneChange DEF CreateNew, Erase, ErasePastEnd
  <2>5. \A t \in Streams : Holds(t) /\ t # s => device[t] # o
    BY <2>1, OwnDevice DEF Holds
  <2> QED
    BY <1>0, <2>1, <2>2, <2>3, <2>4, <2>5 DEF OneChip, HasChip, Holds, NotYet
<1>4. CASE RemoveChip(s)
  <2> DEFINE o == device[s]
  <2>1. /\ pc[s] = "remove" /\ pc' = [pc EXCEPT ![s] = "erase"] /\ UNCHANGED <<device, parent, index>>
        /\ chips' = [chips EXCEPT ![o] = << >>] /\ o \in Streams
    BY <1>0, <1>4, RemovesOwn DEF RemoveChip, Goto, chipVars
  <2>2. Scene' = Scene
    BY <2>1, SceneChange DEF CreateNew, Erase, ErasePastEnd
  <2>3. \A t \in Streams : Holds(t) /\ t # s => device[t] # o
    BY <2>1, OwnDevice DEF Holds
  <2> QED
    BY <1>0, <2>1, <2>2, <2>3 DEF OneChip, HasChip, Holds, NotYet
<1>5. CASE RemoveChipUnknown(s)
  <2>1. /\ pc[s] = "remove" /\ pc' = [pc EXCEPT ![s] = "ended"]
        /\ UNCHANGED <<device, parent, index, chips>>
    BY <1>5 DEF RemoveChipUnknown, Goto, sceneVars, chipVars
  <2>2. Scene' = Scene
    BY <2>1, SceneChange DEF CreateNew, Erase, ErasePastEnd
  <2>3. device[s] \notin Scene
    BY <1>0, <1>5, <2>1 DEF RemoveChipUnknown, Held, Holds
  <2> QED
    BY <1>0, <2>1, <2>2, <2>3 DEF OneChip, HasChip, NotYet
<1>6. CASE Reject(s) \/ TransportReturns(s) \/ AddChipFree(s) \/ Erase(s) \/ ErasePastEnd(s)
  <2>1. UNCHANGED <<device, parent, index, chips>>
    BY <1>6 DEF Reject, TransportReturns, AddChipFree, Erase, ErasePastEnd, sceneVars, chipVars
  <2>2. Scene' \subseteq Scene
    BY <1>6, SceneChange DEF Reject, TransportReturns, AddChipFree, Erase, ErasePastEnd, CreateNew
  <2>3. \A t \in Streams : /\ HasChip(t)' <=> HasChip(t)
                           /\ NotYet(t)' => NotYet(t)
                           /\ pc'[t] \in {"add_chip", "insert"} => pc[t] \in {"add_chip", "insert"}
    <3>1. pc[s] \in {"idle", "open", "add_chip", "erase"}
      BY <1>6 DEF Reject, TransportReturns, AddChipFree, Erase, ErasePastEnd
    <3> QED
      BY <1>0, <3>1, StepGoes DEF HasChip, NotYet, Goes
  <2> QED
    BY <1>0, <2>1, <2>2, <2>3 DEF OneChip
<1> QED
  BY <1>1, <1>2, <1>3, <1>4, <1>5, <1>6 DEF Step

\* A step leaves the radios and the sniffers as the models say.
LEMMA StepRadios ==
  ASSUME Typed, Orderly, NEW s \in Streams, Step(s) PROVE Radios'
<1>0. /\ pc \in [Streams -> PCs] /\ device \in [Streams -> Streams \cup {None}]
      /\ models \in [Streams -> Seq(ChipModel)] /\ Radios
  BY DEF Typed, TypeOK, Orderly
<1>1. CASE AddChipInsert(s)
  <2> DEFINE o == device[s]
             entry == [capture |-> "OFF", le |-> "ON", classic |-> "ON"]
  <2>1. /\ pc[s] = "insert" /\ pc' = [pc EXCEPT ![s] = "open"]
        /\ UNCHANGED <<device, lePhy, classicPhy, sniffing>>
        /\ models' = [models EXCEPT ![o] = Append(@, entry)] /\ idToChip' = idToChip \cup {s}
    BY <1>1 DEF AddChipInsert, Goto, phyVars
  <2>2. o \in Streams /\ chips[o] = << >>
    BY <2>1 DEF Orderly, OneChip, Held, Holds
  <2>3. models[o] \in Seq(ChipModel) /\ Len(models[o]) = 0
    BY <1>0, <2>2 DEF Typed, TypeOK, Shape
  <2>4. models'[o] = Append(models[o], entry)
    BY <1>0, <2>1, <2>2
  <2>4a. Append(models[o], entry)[1] = entry
    <3> HIDE DEF entry
    <3>1. entry \in ChipModel
      BY DEF entry, ChipModel, States
    <3> QED
      BY <2>3, <3>1
  <2>5. \A t \in Streams : pc[t] = "open" => device[t] \in Streams /\ models'[device[t]] = models[device[t]]
    <3> SUFFICES ASSUME NEW t \in Streams, pc[t] = "open"
                 PROVE  device[t] \in Streams /\ models'[device[t]] = models[device[t]]
      OBVIOUS
    <3>1. device[t] # o /\ device[t] \in Streams
      BY <2>1, OwnDevice DEF Holds, Orderly, Held
    <3> HIDE DEF entry
    <3> QED
      BY <1>0, <2>1, <3>1
  <2>6. /\ models'[device[s]][1].le = "ON" /\ models'[device[s]][1].classic = "ON"
        /\ models'[device[s]][1].capture = "OFF"
    BY <2>4, <2>4a
  <2> HIDE DEF entry
  <2>7. \A t \in Streams : pc'[t] = IF t = s THEN "open" ELSE pc[t]
    BY <1>0, <2>1
  <2>8. \A t \in Streams : pc'[t] = "open" =>
           /\ models'[device'[t]][1].le = "ON" <=> t \in lePhy'
           /\ models'[device'[t]][1].classic = "ON" <=> t \in classicPhy'
           /\ models'[device'[t]][1].capture = "ON" <=> t \in sniffing'
    <3> SUFFICES ASSUME NEW t \in Streams, pc'[t] = "open"
                 PROVE  /\ models'[device[t]][1].le = "ON" <=> t \in lePhy
                        /\ models'[device[t]][1].classic = "ON" <=> t \in classicPhy
                        /\ models'[device[t]][1].capture = "ON" <=> t \in sniffing
      BY <2>1
    <3>1. CASE t = s
      BY <1>0, <2>1, <2>6, <3>1 DEF Radios
    <3>2. CASE t # s
      <4>1. pc[t] = "open" /\ models'[device[t]] = models[device[t]]
        BY <2>5, <2>7, <3>2
      <4> QED
        BY <1>0, <4>1 DEF Radios
    <3> QED
      BY <3>1, <3>2
  <2> QED
    BY <1>0, <2>1, <2>7, <2>8 DEF Radios
<1>2. CASE ~AddChipInsert(s)
  <2>1. \A t \in Streams : pc'[t] = "open" => pc[t] = "open" /\ device'[t] = device[t]
    <3>1. ~Goes(s, "insert", "open")
      BY <1>2 DEF Step, Reject, TransportReturns, GetExisting, CreateNew, AddChipFree, RemoveChip,
        RemoveChipUnknown, Erase, ErasePastEnd, Goes
    <3>2. pc'[s] # "open" /\ \A t \in Streams \ {s} : pc'[t] = pc[t]
      BY <1>0, <3>1, StepGoes DEF Goes
    <3>3. \A t \in Streams \ {s} : device'[t] = device[t]
      BY <1>0, <1>2 DEF Step, Reject, TransportReturns, GetExisting, CreateNew, AddChipFree, RemoveChip,
        RemoveChipUnknown, Erase, ErasePastEnd
    <3> QED
      BY <3>2, <3>3
  <2>2. \A t \in Streams : pc'[t] = "open" => models'[device[t]] = models[device[t]]
    <3>1. CASE RemoveChip(s)
      <4>1. /\ models' = [models EXCEPT ![device[s]] = << >>] /\ device[s] \in Streams
            /\ pc[s] = "remove" /\ pc' = [pc EXCEPT ![s] = "erase"]
        BY <3>1, RemovesOwn, SceneStreams DEF RemoveChip, Goto
      <4>2. ASSUME NEW t \in Streams, pc'[t] = "open" PROVE device[t] # device[s] /\ device[t] \in Streams
        <5>1. pc[t] = "open" /\ t # s
          BY <1>0, <4>1, <4>2
        <5> QED
          BY <4>1, <5>1, OwnDevice DEF Holds, Orderly, Held
      <4> QED
        BY <1>0, <4>1, <4>2
    <3>2. CASE ~RemoveChip(s)
      BY <1>2, <3>2 DEF Step, Reject, TransportReturns, GetExisting, CreateNew, AddChipFree,
        RemoveChipUnknown, Erase, ErasePastEnd, sceneVars
    <3> QED
      BY <3>1, <3>2
  <2>3. UNCHANGED <<sniffing, idToChip>>
    BY <1>2 DEF Step, Reject, TransportReturns, GetExisting, CreateNew, AddChipFree, RemoveChip,
        RemoveChipUnknown, Erase, ErasePastEnd, chipVars
  <2>4. CASE TransportReturns(s)
    <3>1. /\ pc[s] = "open" /\ pc' = [pc EXCEPT ![s] = "remove"]
          /\ lePhy' = lePhy \ {s} /\ classicPhy' = classicPhy \ {s}
      BY <2>4 DEF TransportReturns, Goto
    <3> QED
      BY <1>0, <2>1, <2>2, <2>3, <3>1 DEF Radios
  <2>5. CASE ~TransportReturns(s)
    <3>1. UNCHANGED <<lePhy, classicPhy>> /\ ~Goes(s, "open", "remove")
      BY <1>2, <2>5 DEF Step, Reject, GetExisting, CreateNew, AddChipFree, RemoveChip,
        RemoveChipUnknown, Erase, ErasePastEnd, phyVars, Goes
    <3>2. ~Goes(s, "insert", "open")
      BY <1>2 DEF Step, Reject, TransportReturns, GetExisting, CreateNew, AddChipFree, RemoveChip,
        RemoveChipUnknown, Erase, ErasePastEnd, Goes
    <3>3. \A t \in Streams :
            /\ pc'[t] \in {"idle", "remove", "erase", "ended"} =>
                 pc[t] \in {"idle", "remove", "erase", "ended"}
            /\ pc'[t] \in {"get_or_create", "add_chip", "insert"} =>
                 pc[t] \in {"get_or_create", "add_chip", "insert"}
            /\ pc'[t] \in {"idle", "get_or_create", "add_chip", "insert"} =>
                 pc[t] \in {"idle", "get_or_create", "add_chip", "insert"}
      BY <1>0, <3>1, <3>2, StepGoes DEF Goes
    <3>4. \A t \in Streams : pc'[t] = "open" =>
            /\ models'[device'[t]][1].le = "ON" <=> t \in lePhy'
            /\ models'[device'[t]][1].classic = "ON" <=> t \in classicPhy'
            /\ models'[device'[t]][1].capture = "ON" <=> t \in sniffing'
      BY <1>0, <2>1, <2>2, <2>3, <3>1 DEF Radios
    <3>5. /\ \A t \in Streams : pc'[t] \in {"idle", "remove", "erase", "ended"} =>
               t \notin lePhy' /\ t \notin classicPhy'
          /\ \A t \in Streams : pc'[t] \in {"get_or_create", "add_chip", "insert"} =>
               t \in lePhy' /\ t \in classicPhy'
          /\ \A t \in Streams : pc'[t] \in {"idle", "get_or_create", "add_chip", "insert"} =>
               t \notin sniffing' /\ t \notin idToChip'
      BY <1>0, <2>3, <3>1, <3>3 DEF Radios
    <3> QED
      BY <3>4, <3>5 DEF Radios
  <2> QED
    BY <2>4, <2>5
<1> QED
  BY <1>1, <1>2

-----------------------------------------------------------------------------
(* A stream connects *)

\* A stream that connects is the only one of its serial, and its device is none of the scene.
LEMMA ConnectOrderly ==
  ASSUME NoOverlap, Typed, Up, Orderly,
         NEW s \in Streams, NEW sn \in Serials, NEW id \in ChipIds, Connect(s, sn, id)
  PROVE  Up' /\ Orderly'
<1>0. /\ pc \in [Streams -> PCs] /\ serial \in [Streams -> Serials \cup {NoText}]
      /\ chipId \in [Streams -> ChipIds \cup {NoText}]
      /\ Alone /\ Held /\ OneChip /\ Radios /\ Scene \subseteq Streams
  BY SceneStreams DEF Typed, TypeOK, Orderly
<1>1. /\ pc[s] = "idle" /\ pc' = [pc EXCEPT ![s] = "get_or_create"]
      /\ serial' = [serial EXCEPT ![s] = sn] /\ chipId' = [chipId EXCEPT ![s] = id]
      /\ lePhy' = lePhy \cup {s} /\ classicPhy' = classicPhy \cup {s}
      /\ UNCHANGED <<device, chips, models, parent, index, idToChip, sniffing>>
      /\ devices' = devices
  BY DEF Connect, Goto, sceneVars, chipVars
<1>2. Scene' = Scene
  BY <1>1 DEF Scene
<1>3. \A t \in Streams : serial[t] = sn => pc[t] = "ended"
  BY BoundAssumption DEF Connect, MayConnect, NoOverlap
<1>4. s \notin Scene /\ \A t \in Streams : Holds(t) => device[t] # s /\ t # s /\ serial[t] # sn
  BY <1>0, <1>1, <1>3 DEF Held, NotYet, Holds
<1>5. Alone'
  BY <1>0, <1>1, <1>3, NoTextAssumption DEF Alone, NoOverlap
<1>6. Held'
  BY <1>0, <1>1, <1>2, <1>4 DEF Held, NotYet, Holds
<1>7. OneChip'
  BY <1>0, <1>1, <1>2, <1>4 DEF OneChip, NotYet, HasChip
<1>8. Radios'
  <2>1. \A t \in Streams : pc'[t] = "open" => pc[t] = "open" /\ t # s
    BY <1>0, <1>1
  <2> QED
    BY <1>0, <1>1, <2>1 DEF Radios
<1>9. Up'
  BY <1>0, <1>1 DEF Up
<1> QED
  BY <1>5, <1>6, <1>7, <1>8, <1>9 DEF Orderly

-----------------------------------------------------------------------------
(* The frontend updates *)

\* MatchDevice returns a device only if it is the one that matches.
LEMMA MatchOne ==
  ASSUME Typed, NEW sn, NEW name, MatchDevice(sn, name) # None
  PROVE  Matching(sn, name) = {MatchDevice(sn, name)} /\ MatchDevice(sn, name) \in Scene
<1> DEFINE found == Matching(sn, name)
<1>1. Cardinality(found) = 1 /\ MatchDevice(sn, name) = CHOOSE o \in found : TRUE
  BY DEF MatchDevice
<1>2. IsFiniteSet(Scene)
  <2>1. devices \in Seq(Scene)
    <3>1. devices \in [1..Len(devices) -> Scene] /\ Len(devices) \in Nat
      BY SceneStreams DEF Typed, TypeOK
    <3> QED
      BY <3>1, SeqDef, Zenon
  <2> QED
    BY <2>1, SceneStreams DEF IsFiniteSet
<1>3. found \subseteq Scene
  BY DEF Matching
<1>4. IsFiniteSet(found)
  BY <1>2, <1>3, FS_Subset
<1> HIDE DEF found
<1>5. PICK o : found = {o}
  BY <1>1, <1>4, FS_Singleton
<1>6. (CHOOSE x \in found : TRUE) = o
  BY <1>5
<1> QED
  BY <1>1, <1>3, <1>5, <1>6 DEF found

\* What BluetoothChip::Update does to the chip of a handler.
Applied(c, r) ==
  LET o == device[c]
      m == models[o][1]
  IN  /\ models' = [models EXCEPT ![o] = [models[o] EXCEPT ![1] =
                      [capture |-> NewState(m.capture, r.capture),
                       le |-> NewState(m.le, r.le),
                       classic |-> NewState(m.classic, r.classic)]]]
      /\ sniffing' = Sniffing(c, m.capture, r.capture)
      /\ lePhy' = UpdatePhy(lePhy, c, m.le, r.le)
      /\ classicPhy' = UpdatePhy(classicPhy, c, m.classic, r.classic)

\* An update moves no handler, and reaches at most the chip of the device that matches.
LEMMA UpdateReaches ==
  ASSUME Typed, Orderly, NEW request, UpdateScene(request),
         request.chip = {} \/ \E r \in ChipRequest : request.chip = {r}
  PROVE  /\ UNCHANGED <<pc, serial, chipId, device, idx, devices, chips, parent, index, idToChip>>
         /\ \/ UNCHANGED <<models, sniffing, lePhy, classicPhy>>
            \/ /\ UpdateFound(request)
               /\ \E c \in Streams, r \in ChipRequest :
                    /\ HasChip(c) /\ device[c] = MatchDevice(request.serial, request.name)
                    /\ Applied(c, r)
<1>1. UNCHANGED <<serial, chipId, device, idx, devices, chips, parent, index, idToChip>>
  BY DEF UpdateScene
<1>2. CASE ~UpdateFound(request)
  BY <1>1, <1>2 DEF UpdateScene, phyVars
<1>3. CASE UpdateFound(request)
  <2> DEFINE o == MatchDevice(request.serial, request.name)
  <2>1. Update(o, request) /\ o \in Scene
    BY <1>3, MatchOne DEF UpdateScene, UpdateFound
  <2> HIDE DEF o
  <2>2. CASE request.chip = {} \/ chips[o] = << >>
    BY <1>1, <2>1, <2>2 DEF Update, phyVars
  <2>3. CASE request.chip # {} /\ chips[o] # << >>
    <3>1. PICK c \in Streams : /\ HasChip(c) /\ device[c] = o /\ Head(chips[o]) = c
                               /\ parent[c] = o /\ index[c] = 1 /\ HasModel(c)
      BY <2>1, <2>3, FirstChip
    <3>2. PICK r \in ChipRequest : request.chip = {r}
      BY <2>3
    <3>3. UpdateChip(c, r) /\ pc' = pc
      BY <2>1, <2>3, <3>1, <3>2 DEF Update
    <3>4. Applied(c, r)
      BY <3>1, <3>3 DEF UpdateChip, Applied
    <3> QED
      BY <1>1, <1>3, <3>1, <3>3, <3>4 DEF o
  <2> QED
    BY <2>2, <2>3
<1> QED
  BY <1>2, <1>3

\* An update switches the radios and the sniffer of the chip as it changes the model.
LEMMA AppliedRadios ==
  ASSUME Typed, Orderly, NEW c \in Streams, HasChip(c), NEW r \in ChipRequest, Applied(c, r),
         UNCHANGED <<pc, device, idToChip>>
  PROVE  Radios'
<1> DEFINE o == device[c]
           m == models[o][1]
           new == [capture |-> NewState(m.capture, r.capture),
                   le |-> NewState(m.le, r.le),
                   classic |-> NewState(m.classic, r.classic)]
<1>1. o \in Streams /\ chips[o] = <<c>>
  BY DEF Orderly, Held, Holds, HasChip, OneChip
<1>2. models[o] \in Seq(ChipModel) /\ Len(models[o]) = 1
  BY <1>1 DEF Typed, TypeOK, Shape
<1>3. m \in ChipModel
  BY <1>2
<1>4. models' = [models EXCEPT ![o] = [models[o] EXCEPT ![1] = new]]
  BY DEF Applied
<1>5. /\ sniffing' = Sniffing(c, m.capture, r.capture)
      /\ lePhy' = UpdatePhy(lePhy, c, m.le, r.le)
      /\ classicPhy' = UpdatePhy(classicPhy, c, m.classic, r.classic)
  BY DEF Applied
<1>6. /\ new.capture = NewState(m.capture, r.capture) /\ new.le = NewState(m.le, r.le)
      /\ new.classic = NewState(m.classic, r.classic)
  OBVIOUS
<1>7. /\ m.capture \in States /\ m.le \in States /\ m.classic \in States
      /\ r.capture \in States \cup {"UNKNOWN"} /\ r.le \in States \cup {"UNKNOWN"}
      /\ r.classic \in States \cup {"UNKNOWN"}
  BY <1>3 DEF ChipModel, ChipRequest
<1> HIDE DEF new, m
<1>8. models'[o][1] = new
  BY <1>1, <1>2, <1>4 DEF Typed, TypeOK
<1>9. \A t \in Streams \ {c} :
        /\ t \in lePhy' <=> t \in lePhy
        /\ t \in classicPhy' <=> t \in classicPhy
        /\ t \in sniffing' <=> t \in sniffing
  BY <1>5 DEF UpdatePhy, Sniffing
<1>10. \A t \in Streams \ {c} : pc[t] = "open" => models'[device[t]] = models[device[t]]
  <2> SUFFICES ASSUME NEW t \in Streams \ {c}, pc[t] = "open"
               PROVE  models'[device[t]] = models[device[t]]
    OBVIOUS
  <2>1. device[t] # o /\ device[t] \in Streams
    BY OwnDevice DEF Holds, HasChip, Orderly, Held
  <2> QED
    BY <1>4, <2>1 DEF Typed, TypeOK
<1>11. CASE pc[c] = "open"
  <2>1. /\ m.le = "ON" <=> c \in lePhy
        /\ m.classic = "ON" <=> c \in classicPhy
        /\ m.capture = "ON" <=> c \in sniffing
    BY <1>11 DEF Orderly, Radios, m
  <2>2. /\ new.le = "ON" <=> c \in lePhy'
        /\ new.classic = "ON" <=> c \in classicPhy'
        /\ new.capture = "ON" <=> c \in sniffing'
    BY <1>5, <1>6, <1>7, <1>11, <2>1
    DEF NewState, changedState, UpdatePhy, Sniffing, Connected, States
  <2>3. \A t \in Streams : pc[t] = "open" =>
          /\ models'[device[t]][1].le = "ON" <=> t \in lePhy'
          /\ models'[device[t]][1].classic = "ON" <=> t \in classicPhy'
          /\ models'[device[t]][1].capture = "ON" <=> t \in sniffing'
    BY <1>8, <1>9, <1>10, <2>2 DEF Orderly, Radios
  <2> QED
    BY <1>9, <1>11, <2>3 DEF Orderly, Radios
<1>12. CASE pc[c] = "remove"
  <2>1. lePhy' = lePhy /\ classicPhy' = classicPhy
    BY <1>5, <1>12 DEF UpdatePhy, Connected
  <2>2. \A t \in Streams : pc[t] = "open" =>
          /\ models'[device[t]][1].le = "ON" <=> t \in lePhy'
          /\ models'[device[t]][1].classic = "ON" <=> t \in classicPhy'
          /\ models'[device[t]][1].capture = "ON" <=> t \in sniffing'
    BY <1>9, <1>10, <1>12 DEF Orderly, Radios
  <2> QED
    BY <1>9, <1>12, <2>1, <2>2 DEF Orderly, Radios
<1> QED
  BY <1>11, <1>12 DEF HasChip

\* The steps of the frontend keep the invariant, and the process runs on.
LEMMA UpdateOrderly ==
  ASSUME Typed, Up, Orderly, NEW request, UpdateScene(request),
         request.chip = {} \/ \E r \in ChipRequest : request.chip = {r}
  PROVE  Up' /\ Orderly'
<1>1. UNCHANGED <<pc, serial, chipId, device, idx, devices, chips, parent, index, idToChip>>
  BY UpdateReaches
<1>2. Scene' = Scene
  BY <1>1 DEF Scene
<1>3. Up' /\ Alone' /\ Held' /\ OneChip'
  BY <1>1, <1>2 DEF Up, Orderly, Alone, Held, OneChip, Holds, HasChip, NotYet
<1>4. Radios'
  <2>1. CASE UNCHANGED <<models, sniffing, lePhy, classicPhy>>
    BY <1>1, <2>1 DEF Orderly, Radios
  <2>2. CASE \E c \in Streams, r \in ChipRequest : HasChip(c) /\ Applied(c, r)
    BY <1>1, <2>2, AppliedRadios
  <2> QED
    BY <2>1, <2>2, UpdateReaches
<1> QED
  BY <1>3, <1>4 DEF Orderly

\* SetPacketCapture asks for the capture of a chip, and for nothing else.
LEMMA CaptureRequest ==
  ASSUME NEW r \in Captures, SetPacketCapture(r)
  PROVE  \E request : /\ UpdateScene(request)
                      /\ \E q \in ChipRequest : request.chip = {q}
                      /\ request.serial = r.serial
<1> DEFINE c == [capture |-> r.capture, le |-> "UNKNOWN", classic |-> "UNKNOWN"]
           request == [serial |-> r.serial, name |-> NoText, moves |-> FALSE, chip |-> {c}]
<1>1. c \in ChipRequest
  BY CapturesAssumption DEF ChipRequest
<1>2. UpdateScene(request)
  BY DEF SetPacketCapture
<1>3. request.chip = {c} /\ request.serial = r.serial
  OBVIOUS
<1> HIDE DEF request, c
<1> QED
  BY <1>1, <1>2, <1>3

-----------------------------------------------------------------------------
(* The invariant holds *)

\* While the process runs, the chips that can send have models.
LEMMA OrderlyReachable == ASSUME Typed, Up, Orderly PROVE ModelReachable
<1> SUFFICES ASSUME NEW s \in (lePhy \cup classicPhy) \cap idToChip PROVE HasModel(s)
  BY DEF ModelReachable
<1>1. s \in Streams /\ pc[s] \in PCs /\ pc[s] # "crashed"
  BY DEF Typed, TypeOK, Up
<1>2. pc[s] = "open"
  BY <1>1 DEF Orderly, Radios, PCs
<1>3. device[s] \in Streams /\ chips[device[s]] = <<s>> /\ parent[s] = device[s] /\ index[s] = 1
  BY <1>1, <1>2 DEF Orderly, Held, Holds, OneChip, HasChip
<1>4. models[device[s]] \in Seq(ChipModel) /\ Len(models[device[s]]) = 1
  BY <1>3 DEF Typed, TypeOK, Shape
<1> QED
  BY <1>3, <1>4, NoneAssumption DEF HasModel

\* A process that has crashed does nothing more.
LEMMA CrashedStays ==
  ASSUME Typed, Typed', Crashed, ModelReachable, [Next]_vars PROVE Crashed' /\ ModelReachable'
<1>1. ASSUME NEW s \in Streams,
             \/ Reject(s) \/ TransportReturns(s) \/ Handler(s)
             \/ \E sn \in Serials, id \in ChipIds : Connect(s, sn, id)
      PROVE  FALSE
  BY <1>1 DEF Crashed, Handler, GetOrCreate, Reject, TransportReturns, GetExisting, CreateNew, Connect,
    AddChipFree, AddChipDuplicate, AddChipCrash, AddChipInsert, RemoveChip, RemoveChipUnknown, Erase,
    ErasePastEnd
<1>2. ASSUME Up PROVE Streams = {}
  BY <1>2 DEF Up, Crashed
<1>3. ASSUME Streams = {} PROVE Crashed' /\ ModelReachable'
  BY <1>3 DEF Typed, TypeOK, Crashed, ModelReachable
<1>4. CASE UNCHANGED vars
  BY <1>4 DEF vars, handlerVars, sceneVars, chipVars, phyVars, Crashed, ModelReachable, HasModel
<1>5. ASSUME \/ \E r \in Requests : UpdateDevice(r)
             \/ \E r \in Captures : SetPacketCapture(r)
             \/ Reset
      PROVE  Up
  BY <1>5 DEF UpdateDevice, SetPacketCapture, UpdateScene, Reset
<1> QED
  BY <1>1, <1>2, <1>3, <1>4, <1>5 DEF Next

\* Every step keeps the invariant.
LEMMA NextOrderly == NoOverlap /\ OrderlyInv /\ [Next]_vars => OrderlyInv'
<1> SUFFICES ASSUME NoOverlap, OrderlyInv, [Next]_vars PROVE OrderlyInv'
  OBVIOUS
<1>1. Typed /\ Entered /\ UniqueSerials /\ ModelReachable
  BY DEF OrderlyInv
<1>2. Typed' /\ Entered' /\ UniqueSerials'
  BY <1>1, NextTyped, NextUniqueSerials
<1>3. ASSUME Up', Orderly' PROVE OrderlyInv'
  <2>1. ModelReachable'
    BY <1>2, <1>3, OrderlyReachable, PTL
  <2> QED
    BY <1>2, <1>3, <2>1 DEF OrderlyInv
<1>4. CASE Crashed
  BY <1>1, <1>2, <1>4, CrashedStays DEF OrderlyInv
<1>5. CASE Up /\ Orderly
  <2>1. ASSUME NEW s \in Streams, Reject(s) \/ TransportReturns(s) \/ Handler(s) PROVE OrderlyInv'
    <3>1. CASE Step(s)
      BY <1>1, <1>3, <1>5, <3>1, StepAlone, StepHeld, StepOneChip, StepRadios DEF Orderly
    <3>2. CASE ErasePastEnd(s) /\ Crash
      <4>1. Crashed'
        BY <3>2 DEF Crash, Crashed
      <4>2. ModelReachable'
        BY <1>1, <3>2 DEF ErasePastEnd, ModelReachable, HasModel, chipVars, phyVars
      <4> QED
        BY <1>2, <4>1, <4>2 DEF OrderlyInv
    <3> QED
      BY <1>5, <2>1, <3>1, <3>2, NoDuplicate
  <2>2. ASSUME NEW s \in Streams, NEW sn \in Serials, NEW id \in ChipIds, Connect(s, sn, id)
        PROVE  OrderlyInv'
    BY <1>1, <1>3, <1>5, <2>2, ConnectOrderly
  <2>3. ASSUME NEW r \in Requests, UpdateDevice(r) PROVE OrderlyInv'
    BY <1>1, <1>3, <1>5, <2>3, UpdateOrderly, RequestsAssumption DEF UpdateDevice
  <2>4. ASSUME NEW r \in Captures, SetPacketCapture(r) PROVE OrderlyInv'
    BY <1>1, <1>3, <1>5, <2>4, UpdateOrderly, CaptureRequest
  <2>5. ASSUME Reset \/ UNCHANGED vars PROVE OrderlyInv'
    <3>1. UNCHANGED <<pc, serial, chipId, device, idx, devices, chips, models, parent, index,
                      idToChip, lePhy, classicPhy, sniffing>>
      BY <2>5 DEF Reset, vars, handlerVars, sceneVars, chipVars, phyVars
    <3>2. Scene' = Scene
      BY <3>1 DEF Scene
    <3>3. Up' /\ Alone' /\ Held' /\ OneChip' /\ Radios'
      BY <1>5, <3>1, <3>2 DEF Up, Orderly, Alone, Held, OneChip, Radios, Holds, HasChip, NotYet
    <3> QED
      BY <1>3, <3>3 DEF Orderly
  <2> QED
    BY <2>1, <2>2, <2>3, <2>4, <2>5 DEF Next
<1> QED
  BY <1>4, <1>5 DEF OrderlyInv

\* The scene starts with it.
LEMMA InitOrderly == Init => OrderlyInv /\ Up /\ Orderly
<1> SUFFICES ASSUME Init PROVE OrderlyInv /\ Up /\ Orderly
  OBVIOUS
<1>1. Len(devices) = 0 /\ Scene = {}
  BY DEF Init, Scene, ToSet
<1>2. Typed /\ Entered /\ UniqueSerials
  BY <1>1, InitTyped DEF Entered, UniqueSerials
<1>3. Up /\ Alone /\ Held /\ OneChip /\ Radios
  BY <1>1 DEF Init, Up, Alone, Held, OneChip, Radios, Holds, HasChip, NotYet
<1>4. ModelReachable
  BY DEF Init, ModelReachable
<1> QED
  BY <1>2, <1>3, <1>4 DEF OrderlyInv, Orderly

\* Where no two streams of a serial overlap the invariant holds, whatever streams of other
\* serials do meanwhile.
LEMMA OrderlyInvariant == ASSUME NoOverlap PROVE Spec => []OrderlyInv
<1>1. OrderlyInv /\ [Next]_vars => OrderlyInv'
  BY NextOrderly
<1> QED
  BY <1>1, InitOrderly, PTL DEF Spec

\* IncrTx, IncrRx and ComputeRssi go through the model of a chip that can send: where no two
\* streams of a serial overlap it is there, although chips are removed and devices erased
\* without the lock, at indices that may be stale.
THEOREM ModelReachableHolds == ASSUME NoOverlap PROVE Spec => []ModelReachable
<1>1. OrderlyInv => ModelReachable
  BY DEF OrderlyInv
<1> QED
  BY <1>1, OrderlyInvariant, PTL

\* The radios and the sniffer of a connected chip are as its model says, after any updates by
\* any number of requests.
THEOREM ChipStateAppliedHolds == ASSUME NoOverlap PROVE Spec => []ChipStateApplied
<1>1. OrderlyInv => ChipStateApplied
  <2> SUFFICES ASSUME OrderlyInv, NEW s \in Streams, pc[s] = "open"
               PROVE  /\ models[parent[s]][index[s]].le = "ON" <=> s \in lePhy
                      /\ models[parent[s]][index[s]].classic = "ON" <=> s \in classicPhy
                      /\ models[parent[s]][index[s]].capture = "ON" <=> s \in sniffing
    BY DEF ChipStateApplied
  <2>1. Orderly
    BY DEF OrderlyInv, Crashed
  <2>2. parent[s] = device[s] /\ index[s] = 1
    BY <2>1 DEF Orderly, OneChip, HasChip
  <2> QED
    BY <2>1, <2>2 DEF Orderly, Radios
<1> QED
  BY <1>1, OrderlyInvariant, PTL

-----------------------------------------------------------------------------
(* An update reaches one device *)

Touched == {o \in Streams : info'[o] # info[o] \/ models'[o] # models[o]}

Switched ==
  SymDiff(lePhy, lePhy') \cup SymDiff(classicPhy, classicPhy') \cup SymDiff(sniffing, sniffing')

\* What an update does, whichever call it is for: it touches the device that matches, if that
\* is one, and switches what belongs to the chip of a device it touches.
LEMMA UpdateTouches ==
  ASSUME Typed, Orderly, NEW request, UpdateScene(request),
         request.chip = {} \/ \E r \in ChipRequest : request.chip = {r}
  PROVE  /\ \A o \in Touched : Matching(request.serial, NoText) = {o}
         /\ \A s \in Switched : device[s] \in Touched
         /\ ~UpdateFound(request) => Touched = {}
<1>1. CASE ~UpdateFound(request)
  <2>1. UNCHANGED <<info, models, sniffing, lePhy, classicPhy>>
    BY <1>1 DEF UpdateScene, phyVars
  <2>2. Touched = {} /\ Switched = {}
    BY <2>1 DEF Touched, Switched, SymDiff
  <2> QED
    BY <2>2
<1>2. CASE UpdateFound(request)
  <2> DEFINE o == MatchDevice(request.serial, request.name)
  <2>1. o \in Scene /\ Matching(request.serial, request.name) = {o} /\ request.serial # NoText
    BY <1>2, MatchOne DEF UpdateFound
  <2>2. Matching(request.serial, NoText) = {o}
    BY <2>1 DEF Matching
  <2>3. \A p \in Streams : info'[p] # info[p] => p = o
    BY <1>2 DEF UpdateScene, Update, UpdateInfo, Typed, TypeOK
  <2> HIDE DEF o
  <2>4. CASE UNCHANGED <<models, sniffing, lePhy, classicPhy>>
    <3>1. Switched = {}
      BY <2>4 DEF Switched, SymDiff
    <3>2. \A p \in Touched : p = o
      BY <2>3, <2>4 DEF Touched
    <3> QED
      BY <1>2, <2>2, <3>1, <3>2
  <2>5. CASE \E c \in Streams, r \in ChipRequest : HasChip(c) /\ device[c] = o /\ Applied(c, r)
    <3>1. PICK c \in Streams, r \in ChipRequest : HasChip(c) /\ device[c] = o /\ Applied(c, r)
      BY <2>5
    <3> DEFINE m == models[o][1]
               new == [capture |-> NewState(m.capture, r.capture),
                       le |-> NewState(m.le, r.le),
                       classic |-> NewState(m.classic, r.classic)]
    <3>2. o \in Streams /\ models[o] \in Seq(ChipModel) /\ Len(models[o]) = 1
      BY <2>1, <3>1, SceneStreams DEF Typed, TypeOK, Shape, Orderly, OneChip
    <3>3. models' = [models EXCEPT ![o] = [models[o] EXCEPT ![1] = new]]
      BY <3>1 DEF Applied
    <3>4. /\ sniffing' = Sniffing(c, m.capture, r.capture)
          /\ lePhy' = UpdatePhy(lePhy, c, m.le, r.le)
          /\ classicPhy' = UpdatePhy(classicPhy, c, m.classic, r.classic)
      BY <3>1 DEF Applied
    <3>5. /\ new.capture = NewState(m.capture, r.capture) /\ new.le = NewState(m.le, r.le)
          /\ new.classic = NewState(m.classic, r.classic)
      OBVIOUS
    <3> HIDE DEF new, m
    <3>6. models'[o][1] = new /\ \A p \in Streams : models'[p] # models[p] => p = o
      BY <3>2, <3>3 DEF Typed, TypeOK
    <3>7. \A p \in Touched : p = o
      BY <2>3, <3>6 DEF Touched
    <3>8. ASSUME NEW s \in Switched PROVE s = c /\ o \in Touched
      <4>1. s = c
        BY <3>4, <3>8 DEF Switched, SymDiff, Sniffing, UpdatePhy
      <4>2. \/ changedState(m.capture, r.capture)
            \/ changedState(m.le, r.le)
            \/ changedState(m.classic, r.classic)
        BY <3>4, <3>8 DEF Switched, SymDiff, Sniffing, UpdatePhy
      <4>3. new # m
        BY <3>5, <4>2 DEF NewState, changedState
      <4>4. models'[o] # models[o]
        BY <3>6, <4>3 DEF m
      <4> QED
        BY <3>2, <4>1, <4>4 DEF Touched
    <3> QED
      BY <1>2, <2>2, <3>1, <3>7, <3>8
  <2> QED
    BY <2>4, <2>5, UpdateReaches DEF o
<1> QED
  BY <1>1, <1>2

\* Where no two streams of a serial overlap, a call of UpdateDevice or SetPacketCapture changes
\* the one device its serial occurs in, or none, and switches the radios and the sniffer of that
\* device's chip only.
THEOREM OneDeviceUpdatedHolds == ASSUME NoOverlap PROVE Spec => OneDeviceUpdated
<1> DEFINE A == reply'.call \in {"UpdateDevice", "SetPacketCapture"} =>
                  /\ \A o \in Touched : Matching(reply'.request.serial, NoText) = {o}
                  /\ \A s \in Switched : device[s] \in Touched
                  /\ reply'.status = "NOT_FOUND" => Touched = {}
<1>1. OrderlyInv /\ [Next]_vars => [A]_vars
  <2> SUFFICES ASSUME OrderlyInv, Next PROVE A
    OBVIOUS
  <2>1. ASSUME NEW s \in Streams,
               \/ Reject(s) \/ TransportReturns(s) \/ Handler(s)
               \/ \E sn \in Serials, id \in ChipIds : Connect(s, sn, id)
        PROVE  reply' = NoReply
    BY <2>1 DEF Handler, GetOrCreate, Reject, TransportReturns, GetExisting, CreateNew, Connect,
      AddChipFree, AddChipDuplicate, AddChipCrash, AddChipInsert, RemoveChip, RemoveChipUnknown,
      Erase, ErasePastEnd
  <2>2. CASE reply' = NoReply \/ Reset
    BY <2>2 DEF NoReply, Reset
  <2>3. ASSUME Up, Streams # {} PROVE Typed /\ Orderly
    BY <2>3 DEF OrderlyInv, Crashed, Up
  <2>4. ASSUME Up, Streams = {} PROVE A
    <3>1. \A t : t \notin Touched
      BY <2>4 DEF Touched
    <3>2. Typed /\ Typed'
      BY NextTyped DEF OrderlyInv
    <3>3. Switched = {}
      BY <2>4, <3>2 DEF Switched, SymDiff, Typed, TypeOK
    <3> QED
      BY <3>1, <3>3
  <2>5. ASSUME NEW r \in Requests, UpdateDevice(r) PROVE A
    <3>1. UpdateScene(r) /\ Up /\ reply' = [call |-> "UpdateDevice", request |-> r,
               status |-> IF UpdateFound(r) THEN "OK" ELSE "NOT_FOUND"]
      BY <2>5 DEF UpdateDevice, UpdateScene
    <3>2. reply'.request = r /\ (reply'.status = "NOT_FOUND" => ~UpdateFound(r))
      BY <3>1
    <3>3. CASE Streams # {}
      <4>1. Typed /\ Orderly
        BY <2>3, <3>1, <3>3
      <4> QED
        BY <3>1, <3>2, <4>1, UpdateTouches, RequestsAssumption
    <3> QED
      BY <2>4, <3>1, <3>3
  <2>6. ASSUME NEW r \in Captures, SetPacketCapture(r) PROVE A
    <3>1. Up /\ reply' = [call |-> "SetPacketCapture", request |-> r, status |-> "OK"]
      BY <2>6 DEF SetPacketCapture, UpdateScene
    <3>2. reply'.request = r /\ reply'.status # "NOT_FOUND"
      BY <3>1
    <3>3. CASE Streams # {}
      <4>1. Typed /\ Orderly
        BY <2>3, <3>1, <3>3
      <4>2. PICK request : /\ UpdateScene(request)
                           /\ \E q \in ChipRequest : request.chip = {q}
                           /\ request.serial = r.serial
        BY <2>6, CaptureRequest
      <4>3. /\ \A o \in Touched : Matching(request.serial, NoText) = {o}
            /\ \A s \in Switched : device[s] \in Touched
        BY <4>1, <4>2, UpdateTouches
      <4> QED
        BY <3>2, <4>2, <4>3
    <3> QED
      BY <2>4, <3>1, <3>3
  <2> QED
    BY <2>1, <2>2, <2>5, <2>6 DEF Next
<1>2. [A]_vars => [LET touched == {o \in Streams : info'[o] # info[o] \/ models'[o] # models[o]}
                       switched == SymDiff(lePhy, lePhy') \cup SymDiff(classicPhy, classicPhy')
                                     \cup SymDiff(sniffing, sniffing')
                   IN  reply'.call \in {"UpdateDevice", "SetPacketCapture"} =>
                         /\ \A o \in touched : Matching(reply'.request.serial, NoText) = {o}
                         /\ \A s \in switched : device[s] \in touched
                         /\ reply'.status = "NOT_FOUND" => touched = {}]_vars
  BY DEF Touched, Switched
<1> HIDE DEF A
<1>3. Spec => [][A]_vars
  BY <1>1, OrderlyInvariant, PTL DEF Spec
<1> QED
  BY <1>2, <1>3, PTL DEF OneDeviceUpdated

-----------------------------------------------------------------------------
(* One stream at a time *)

\* No handler is busy when a stream connects or its transport returns.
LEMMA NotBusy == ASSUME OneAtATime, Cardinality(Busy) < 1 PROVE Busy = {}
<1> SUFFICES ASSUME NEW b \in Busy PROVE FALSE
  OBVIOUS
<1>1. Busy = {b}
  BY DEF OneAtATime
<1>2. Cardinality(Busy) = 1
  BY <1>1, FS_Singleton
<1> QED
  BY <1>2

\* The erasure takes the handler's device, and no other, out of the scene.
LEMMA ErasesOwn ==
  ASSUME Typed, UniqueSerials, Orderly, OneAtATime, NEW s \in Streams, Erase(s)
  PROVE  Scene' = Scene \ {device[s]} /\ chips[device[s]] = << >>
<1> DEFINE k == idx[s]
<1>1. /\ k \in 1..Len(devices) /\ devices[k] = device[s] /\ chips[device[s]] = << >>
      /\ devices' = RemoveAt(devices, k)
  BY DEF Erase, OneAtATime
<1>2. devices \in Seq(Streams) /\ Len(devices) \in Nat /\ DOMAIN devices = 1..Len(devices)
  BY DEF Typed, TypeOK
<1> HIDE DEF k
<1>range. k \in Nat /\ k <= Len(devices) /\ k >= 1
  BY <1>1, <1>2
<1>3. /\ devices' \in Seq(Streams)
      /\ Len(devices') = Len(devices) - 1
      /\ \A i \in 1..(Len(devices) - 1) :
           devices'[i] = IF i < k THEN devices[i] ELSE devices[i + 1]
  BY <1>1, <1>2, <1>range, RemoveAtElements
<1>4. DOMAIN devices' = 1..(Len(devices) - 1)
  BY <1>2, <1>3
<1>5. \A i \in 1..Len(devices) : devices[i] = device[s] => i = k
  BY <1>1 DEF UniqueSerials
<1>6. ASSUME NEW i \in 1..(Len(devices) - 1) PROVE devices'[i] \in Scene \ {device[s]}
  <2>1. CASE i < k
    <3>1. i \in 1..Len(devices) /\ i # k /\ devices'[i] = devices[i]
      BY <1>2, <1>3, <1>range, <2>1
    <3> QED
      BY <1>5, <3>1, SceneStreams
  <2>2. CASE ~(i < k)
    <3>1. i + 1 \in 1..Len(devices) /\ i + 1 # k
      BY <1>2, <1>range, <2>2
    <3>2. devices'[i] = devices[i + 1]
      BY <1>3, <2>2
    <3> QED
      BY <1>5, <3>1, <3>2, SceneStreams
  <2> QED
    BY <2>1, <2>2
<1>7. ASSUME NEW j \in 1..Len(devices), j # k
      PROVE  \E i \in 1..(Len(devices) - 1) : devices'[i] = devices[j]
  <2>1. CASE j < k
    <3>1. j \in 1..(Len(devices) - 1)
      BY <1>1, <1>2, <2>1
    <3> QED
      BY <1>3, <2>1, <3>1
  <2>2. CASE j > k
    <3>1. j - 1 \in 1..(Len(devices) - 1) /\ ~(j - 1 < k) /\ (j - 1) + 1 = j
      BY <1>1, <1>2, <2>2
    <3> QED
      BY <1>3, <3>1
  <2> QED
    BY <1>1, <1>2, <1>7, <2>1, <2>2
<1>8. Scene' \subseteq Scene \ {device[s]}
  BY <1>4, <1>6 DEF Scene, ToSet
<1>9. ASSUME NEW o \in Scene, o # device[s] PROVE o \in Scene'
  <2>1. PICK j \in 1..Len(devices) : devices[j] = o
    BY SceneStreams
  <2>2. PICK i \in 1..(Len(devices) - 1) : devices'[i] = o
    BY <1>1, <1>7, <1>9, <2>1
  <2> QED
    BY <1>4, <2>2 DEF Scene, ToSet
<1> QED
  BY <1>1, <1>8, <1>9

\* A handler that removes its chip finds its device, and one that erases it finds the index.
LEMMA FindsOwn ==
  ASSUME Typed, Orderly, OneAtATime, NEW s \in Streams
  PROVE  ~RemoveChipUnknown(s) /\ ~ErasePastEnd(s)
<1>1. ~RemoveChipUnknown(s)
  BY DEF RemoveChipUnknown, OneAtATime, Orderly, Held, Holds
<1>2. ~ErasePastEnd(s)
  BY DEF ErasePastEnd, OneAtATime, Typed, TypeOK
<1> QED
  BY <1>1, <1>2

\* A handler that has begun to set up or tear down is the only one that does.
LEMMA StepOneAtATime ==
  ASSUME MaxBusy = 1, Typed, UniqueSerials, Orderly, OneAtATime, NEW s \in Streams, Step(s)
  PROVE  OneAtATime'
<1>0. /\ pc \in [Streams -> PCs] /\ device \in [Streams -> Streams \cup {None}]
      /\ chips \in [Streams -> Seq(Streams)] /\ idx \in [Streams -> Nat] /\ Scene \subseteq Streams
  BY SceneStreams DEF Typed, TypeOK
<1>1. ~RemoveChipUnknown(s) /\ ~ErasePastEnd(s)
  BY FindsOwn
<1>2. CASE Reject(s)
  <2>1. /\ pc[s] = "idle" /\ pc' = [pc EXCEPT ![s] = "ended"]
        /\ UNCHANGED <<device, idx, devices, chips>>
    BY <1>2 DEF Reject, Goto, sceneVars
  <2>2. Scene' = Scene
    BY <2>1 DEF Scene
  <2>3. \A t \in Streams : /\ Holds(t)' <=> Holds(t)
                           /\ pc'[t] = "erase" <=> pc[t] = "erase"
    BY <1>0, <2>1 DEF Holds
  <2>4. Busy' \subseteq Busy
    BY <1>0, <2>1 DEF Busy
  <2> QED
    BY <2>1, <2>2, <2>3, <2>4 DEF OneAtATime
<1>3. CASE TransportReturns(s)
  <2>1. /\ pc[s] = "open" /\ pc' = [pc EXCEPT ![s] = "remove"]
        /\ UNCHANGED <<device, idx, devices, chips>> /\ Cardinality(Busy) < 1
    BY <1>3 DEF TransportReturns, Goto, sceneVars
  <2>2. Scene' = Scene /\ Busy = {}
    BY <2>1, NotBusy DEF Scene
  <2>3. \A t \in Streams : /\ Holds(t)' <=> Holds(t)
                           /\ pc'[t] # "erase"
    BY <1>0, <2>1, <2>2 DEF Holds, Busy
  <2>4. Busy' \subseteq {s}
    BY <1>0, <2>1, <2>2 DEF Busy
  <2> QED
    BY <2>1, <2>2, <2>3, <2>4 DEF OneAtATime
<1>4. CASE ~Reject(s) /\ ~TransportReturns(s)
  <2>1. s \in Busy
    BY <1>1, <1>4 DEF Step, GetExisting, CreateNew, AddChipFree, AddChipInsert, RemoveChip, Erase, Busy
  <2>2. \A t \in Streams \ {s} : t \notin Busy
    BY <2>1 DEF OneAtATime
  <2>3. \A t \in Streams \ {s} : pc[t] \notin {"add_chip", "insert", "remove", "erase"}
    BY <2>2 DEF Busy
  <2>4. \A t \in Streams \ {s} : pc'[t] = pc[t]
    BY <1>0, StepGoes DEF Goes
  <2>5. \A t, u \in Busy' : t = u
    BY <2>2, <2>4 DEF Busy
  <2>6. CASE Erase(s)
    <3>1. /\ pc[s] = "erase" /\ pc' = [pc EXCEPT ![s] = "ended"] /\ UNCHANGED <<device, idx, chips>>
      BY <2>6 DEF Erase, Goto
    <3>2. Scene' = Scene \ {device[s]} /\ chips[device[s]] = << >>
      BY <2>6, ErasesOwn
    <3>3. \A t \in Streams : Holds(t)' => t # s /\ pc[t] = "open"
      BY <1>0, <2>3, <3>1 DEF Holds
    <3>4. \A t \in Streams : pc[t] = "open" => chips[device[t]] # << >>
      BY DEF Orderly, OneChip, HasChip
    <3>5. \A t \in Streams : Holds(t)' => device'[t] \in Scene'
      BY <3>1, <3>2, <3>3, <3>4 DEF OneAtATime, Holds
    <3>6. \A t \in Streams : pc'[t] # "erase"
      BY <1>0, <2>3, <3>1
    <3>7. ASSUME NEW o \in Scene' PROVE \E t \in Streams : Holds(t)' /\ device'[t] = o
      <4>1. PICK t \in Streams : (Holds(t) \/ pc[t] = "erase") /\ device[t] = o
        BY <3>2 DEF OneAtATime
      <4>2. t # s
        BY <3>2, <4>1
      <4> QED
        BY <2>3, <2>4, <3>1, <4>1, <4>2 DEF Holds
    <3> QED
      BY <2>5, <3>5, <3>6, <3>7 DEF OneAtATime
  <2>7. CASE RemoveChip(s)
    <3>1. /\ pc[s] = "remove" /\ pc' = [pc EXCEPT ![s] = "erase"] /\ UNCHANGED <<device, devices>>
          /\ device[s] \in Streams
          /\ chips' = [chips EXCEPT ![device[s]] = << >>]
          /\ \E d \in 1..Len(devices) : devices[d] = device[s] /\ idx' = [idx EXCEPT ![s] = d]
      BY <1>0, <2>7, RemovesOwn DEF RemoveChip, Goto
    <3>2. Scene' = Scene
      BY <3>1 DEF Scene
    <3>3. \A t \in Streams : (Holds(t) \/ pc[t] = "erase") => (Holds(t)' \/ pc'[t] = "erase")
      BY <1>0, <3>1 DEF Holds
    <3>4. \A t \in Streams : Holds(t)' => Holds(t)
      BY <1>0, <3>1 DEF Holds
    <3>5. \A t \in Streams : pc'[t] = "erase" => t = s
      BY <2>3, <2>4
    <3>6. idx'[s] \in 1..Len(devices') /\ devices'[idx'[s]] = device'[s] /\ chips'[device'[s]] = << >>
      BY <1>0, <3>1
    <3> QED
      BY <2>5, <3>1, <3>2, <3>3, <3>4, <3>5, <3>6 DEF OneAtATime
  <2>8. CASE GetExisting(s) \/ CreateNew(s) \/ AddChipFree(s) \/ AddChipInsert(s)
    <3>1. /\ pc'[s] \in {"add_chip", "insert", "open"} /\ pc[s] \in {"get_or_create", "add_chip", "insert"}
      BY <1>0, <2>8 DEF GetExisting, CreateNew, AddChipFree, AddChipInsert, Goto
    <3>2. \A t \in Streams \ {s} : device'[t] = device[t]
      BY <1>0, <2>8 DEF GetExisting, CreateNew, AddChipFree, AddChipInsert
    <3>3. /\ device'[s] \in Scene' /\ Scene \subseteq Scene' /\ Scene' \subseteq Scene \cup {device'[s]}
          /\ Holds(s) => device'[s] = device[s]
      <4>1. CASE GetExisting(s)
        <5>1. Scene' = Scene
          BY <4>1 DEF GetExisting, Scene, sceneVars
        <5> QED
          BY <1>0, <4>1, <5>1 DEF GetExisting, Holds
      <4>2. CASE CreateNew(s)
        BY <1>0, <4>2, SceneChange DEF CreateNew, Holds
      <4>3. CASE AddChipFree(s) \/ AddChipInsert(s)
        <5>1. Scene' = Scene /\ device' = device /\ Holds(s)
          BY <4>3 DEF AddChipFree, AddChipInsert, Scene, sceneVars, Holds
        <5> QED
          BY <5>1 DEF OneAtATime
      <4> QED
        BY <2>8, <4>1, <4>2, <4>3
    <3>4. \A t \in Streams : pc'[t] # "erase" /\ pc[t] # "erase"
      BY <2>3, <2>4, <3>1
    <3>5. \A t \in Streams \ {s} : Holds(t)' <=> Holds(t)
      BY <2>4 DEF Holds
    <3>6. Holds(s)'
      BY <3>1 DEF Holds
    <3>7. \A t \in Streams : Holds(t)' => device'[t] \in Scene'
      BY <3>2, <3>3, <3>5 DEF OneAtATime
    <3>8. ASSUME NEW o \in Scene' PROVE \E t \in Streams : Holds(t)' /\ device'[t] = o
      <4>1. CASE o = device'[s]
        BY <3>6, <4>1
      <4>2. CASE o \in Scene /\ o # device'[s]
        <5>1. PICK t \in Streams : Holds(t) /\ device[t] = o
          BY <3>4, <4>2 DEF OneAtATime
        <5> QED
          BY <3>2, <3>3, <3>5, <4>2, <5>1
      <4> QED
        BY <3>3, <4>1, <4>2
    <3> QED
      BY <2>5, <3>4, <3>7, <3>8 DEF OneAtATime
  <2> QED
    BY <1>1, <1>4, <2>6, <2>7, <2>8 DEF Step
<1> QED
  BY <1>2, <1>3, <1>4

\* What holds where streams set up and tear down one at a time: among it that nothing crashes.
OneAtATimeInv == OrderlyInv /\ Up /\ Orderly /\ OneAtATime

\* Every step keeps it.
LEMMA NextOneAtATime ==
  NoOverlap /\ MaxBusy = 1 /\ OneAtATimeInv /\ [Next]_vars => OneAtATimeInv'
<1> SUFFICES ASSUME NoOverlap, MaxBusy = 1, OneAtATimeInv, [Next]_vars PROVE OneAtATimeInv'
  OBVIOUS
<1>1. Typed /\ UniqueSerials /\ Up /\ Orderly /\ OneAtATime /\ OrderlyInv'
  BY NextOrderly DEF OneAtATimeInv, OrderlyInv
<1>0. /\ pc \in [Streams -> PCs]
  BY <1>1 DEF Typed, TypeOK
<1>2. ASSUME NEW s \in Streams, Reject(s) \/ TransportReturns(s) \/ Handler(s) PROVE OneAtATimeInv'
  <2>1. Step(s)
    BY <1>1, <1>2, NoDuplicate, FindsOwn
  <2> QED
    BY <1>1, <2>1, StepAlone, StepHeld, StepOneChip, StepRadios, StepOneAtATime
    DEF Orderly, OneAtATimeInv
<1>3. ASSUME NEW s \in Streams, NEW sn \in Serials, NEW id \in ChipIds, Connect(s, sn, id)
      PROVE  OneAtATimeInv'
  <2>1. /\ pc[s] = "idle" /\ pc' = [pc EXCEPT ![s] = "get_or_create"]
        /\ UNCHANGED <<device, idx, devices, chips>> /\ Cardinality(Busy) < 1
    BY <1>3 DEF Connect, Goto, sceneVars
  <2>2. Scene' = Scene /\ Busy = {}
    BY <1>1, <2>1, NotBusy DEF Scene
  <2>3. \A t \in Streams : /\ Holds(t)' <=> Holds(t)
                           /\ pc[t] # "erase" /\ pc'[t] # "erase"
    BY <1>0, <2>1, <2>2 DEF Holds, Busy
  <2>4. Busy' \subseteq {s}
    BY <1>0, <2>1, <2>2 DEF Busy
  <2>5. OneAtATime'
    BY <1>1, <2>1, <2>2, <2>3, <2>4 DEF OneAtATime
  <2> QED
    BY <1>1, <1>3, <2>5, ConnectOrderly DEF OneAtATimeInv
<1>4. ASSUME UNCHANGED <<pc, device, idx, devices, chips>> PROVE OneAtATime'
  <2>1. Scene' = Scene /\ Busy' = Busy
    BY <1>4 DEF Scene, Busy
  <2> QED
    BY <1>1, <1>4, <2>1 DEF OneAtATime, Holds
<1>5. ASSUME NEW request, UpdateScene(request),
             request.chip = {} \/ \E r \in ChipRequest : request.chip = {r}
      PROVE  OneAtATimeInv'
  <2>1. OneAtATime'
    BY <1>1, <1>4, <1>5, UpdateReaches
  <2> QED
    BY <1>1, <1>5, <2>1, UpdateOrderly DEF OneAtATimeInv
<1>6. ASSUME NEW r \in Requests, UpdateDevice(r) PROVE OneAtATimeInv'
  BY <1>5, <1>6, RequestsAssumption DEF UpdateDevice
<1>7. ASSUME NEW r \in Captures, SetPacketCapture(r) PROVE OneAtATimeInv'
  BY <1>5, <1>7, CaptureRequest
<1>8. ASSUME Reset \/ UNCHANGED vars PROVE OneAtATimeInv'
  <2>1. UNCHANGED <<pc, serial, chipId, device, idx, devices, chips, models, parent, index,
                    idToChip, lePhy, classicPhy, sniffing>>
    BY <1>8 DEF Reset, vars, handlerVars, sceneVars, chipVars, phyVars
  <2>2. Scene' = Scene
    BY <2>1 DEF Scene
  <2>3. Up' /\ Alone' /\ Held' /\ OneChip' /\ Radios'
    BY <1>1, <2>1, <2>2 DEF Up, Orderly, Alone, Held, OneChip, Radios, Holds, HasChip, NotYet
  <2> QED
    BY <1>1, <1>4, <2>1, <2>3 DEF Orderly, OneAtATimeInv
<1> QED
  BY <1>2, <1>3, <1>6, <1>7, <1>8 DEF Next

\* With one busy handler OneAtATimeInv holds in every reachable state.
LEMMA OneAtATimeInvariant == ASSUME NoOverlap, MaxBusy = 1 PROVE Spec => []OneAtATimeInv
<1>1. Init => OneAtATimeInv
  <2> SUFFICES ASSUME Init PROVE OneAtATimeInv
    OBVIOUS
  <2>1. Scene = {} /\ Busy = {}
    BY DEF Init, Scene, ToSet, Busy
  <2>2. OneAtATime
    BY <2>1 DEF Init, OneAtATime, Holds
  <2> QED
    BY <2>2, InitOrderly DEF OneAtATimeInv
<1>2. OneAtATimeInv /\ [Next]_vars => OneAtATimeInv'
  BY NextOneAtATime
<1> QED
  BY <1>1, <1>2, PTL DEF Spec

\* GetDevices lists every connected stream: its device is in the scene, with its chip, when
\* streams set up and tear down one at a time and none meets an older one of its serial.
THEOREM ConnectedListedHolds ==
  ASSUME NoOverlap, MaxBusy = 1 PROVE Spec => []ConnectedListed
<1>1. OneAtATimeInv => ConnectedListed
  <2> SUFFICES ASSUME OneAtATimeInv, NEW s \in Streams, pc[s] = "open"
               PROVE  device[s] \in Scene /\ s \in ToSet(chips[device[s]])
    BY DEF ConnectedListed
  <2>1. device[s] \in Scene /\ chips[device[s]] = <<s>>
    BY DEF OneAtATimeInv, OneAtATime, Orderly, OneChip, Holds, HasChip
  <2> QED
    BY <2>1 DEF ToSet
<1> QED
  BY <1>1, OneAtATimeInvariant, PTL

\* When the last stream has ended the scene is empty, after any number of streams.
THEOREM NothingLeftHolds == ASSUME NoOverlap, MaxBusy = 1 PROVE Spec => []NothingLeft
<1>1. OneAtATimeInv => NothingLeft
  <2> SUFFICES ASSUME OneAtATimeInv, \A s \in Streams : pc[s] \in {"idle", "ended"}
               PROVE  devices = << >>
    BY DEF NothingLeft
  <2>1. Scene = {}
    BY DEF OneAtATimeInv, OneAtATime, Holds
  <2>2. Typed /\ devices \in Seq(Streams)
    BY DEF OneAtATimeInv, OrderlyInv, Typed, TypeOK
  <2>3. Len(devices) = 0
    BY <2>1, <2>2, SceneStreams
  <2> QED
    BY <2>2, <2>3, EmptySeq
<1> QED
  BY <1>1, OneAtATimeInvariant, PTL

\* A device leaves the scene only when its last chip is gone.
THEOREM EraseOnlyChiplessHolds ==
  ASSUME NoOverlap, MaxBusy = 1 PROVE Spec => EraseOnlyChipless
<1> DEFINE A == \A o \in Scene \ Scene' : chips[o] = << >>
<1>1. OneAtATimeInv /\ [Next]_vars => [A]_vars
  <2> SUFFICES ASSUME OneAtATimeInv, Next, NEW o \in Scene \ Scene' PROVE chips[o] = << >>
    OBVIOUS
  <2>1. Typed /\ UniqueSerials /\ Orderly /\ OneAtATime
    BY DEF OneAtATimeInv, OrderlyInv
  <2>2. ASSUME devices' = devices PROVE FALSE
    BY <2>2 DEF Scene
  <2>3. ASSUME NEW s \in Streams, Reject(s) \/ TransportReturns(s) \/ Handler(s)
        PROVE  chips[o] = << >>
    <3>1. Step(s) /\ ~ErasePastEnd(s)
      BY <2>1, <2>3, NoDuplicate, FindsOwn
    <3>2. Erase(s)
      BY <2>1, <3>1, SceneChange
    <3> QED
      BY <2>1, <3>2, ErasesOwn
  <2>4. ASSUME NEW s \in Streams, NEW sn \in Serials, NEW id \in ChipIds, Connect(s, sn, id)
        PROVE  FALSE
    BY <2>2, <2>4 DEF Connect, sceneVars
  <2>5. ASSUME \/ \E r \in Requests : UpdateDevice(r)
               \/ \E r \in Captures : SetPacketCapture(r)
               \/ Reset
        PROVE  FALSE
    BY <2>2, <2>5 DEF UpdateDevice, SetPacketCapture, UpdateScene, Reset
  <2> QED
    BY <2>3, <2>4, <2>5 DEF Next
<1> QED
  BY <1>1, OneAtATimeInvariant, PTL DEF Spec, EraseOnlyChipless

=============================================================================
