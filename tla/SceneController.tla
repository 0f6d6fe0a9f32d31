--------------------------- MODULE SceneController ---------------------------
(***************************************************************************)
(* The scene of a netsim daemon in its gRPC mode: SceneController and      *)
(* Device (src/controller), the chips of BluetoothChipEmulator (src/hci/   *)
(* bluetooth_facade.cc), and the threads that change them: one StreamPackets*)
(* handler per packet stream (src/backend/backend_server.cc) and the       *)
(* frontend's requests (src/frontend/frontend_server.cc).                  *)
(*                                                                         *)
(* A stream lives once: it connects, adds its chip to the device of its    *)
(* serial, transports packets (module HciTransport) and removes its chip.  *)
(* The chip object and the rootcanal device of a stream, and the Device     *)
(* object it creates if it creates one, are named by the stream itself.    *)
(*                                                                         *)
(* GetOrCreate, UpdateDevice and Reset hold mutex_ and are one step.       *)
(* Device::AddChip and SceneController::RemoveChip take no lock: other     *)
(* threads run between the test for a duplicate and the insertion, and     *)
(* between the removal of the last chip and the erasure of the device.     *)
(*                                                                         *)
(* External: rootcanal's test model, which puts a new connection into both *)
(* phys, takes it out when it closes and ignores requests about devices    *)
(* it does not know.                                                       *)
(***************************************************************************)
EXTENDS Naturals, Sequences, FiniteSets, SequencesExt

CONSTANTS
  Streams,     \* packet streams, each living once
  Serials,     \* device serials
  NoText,      \* the empty string
  ChipIds,     \* chip ids a stream may announce, NoText for none
  Substring,   \* pairs <<p, t>>: text p occurs in text t
  Requests,    \* what UpdateDevice may be asked
  Captures,    \* what SetPacketCapture may be asked
  None,        \* no stream, no device
  Overlap,     \* how a stream may meet an older one of its serial: see MayConnect
  MaxBusy      \* bound: handlers setting up or tearing down at once

States == {"ON", "OFF"}

\* What the frontend may ask of the chip of a device.
ChipRequest == [capture : States \cup {"UNKNOWN"}, le : States \cup {"UNKNOWN"},
                classic : States \cup {"UNKNOWN"}]

ASSUME NoneAssumption == None \notin Streams
ASSUME NoTextAssumption == NoText \notin Serials
ASSUME SubstringAssumption == \A sn \in Serials : <<sn, sn>> \in Substring
ASSUME BoundAssumption == Overlap \in {"none", "removed", "any"} /\ MaxBusy \in Nat
\* An update carries at most one chip of a device.
ASSUME RequestsAssumption ==
  \A r \in Requests : r.chip = {} \/ \E c \in ChipRequest : r.chip = {c}
ASSUME CapturesAssumption == \A r \in Captures : r.capture \in States

VARIABLES
  pc,          \* pc[s]: where the handler of stream s is
  serial,      \* serial[s], chipId[s]: the initial_info of stream s
  chipId,
  device,      \* device[s]: the Device object GetOrCreate gave s
  idx,         \* idx[s]: the index d in RemoveChip
  devices,     \* SceneController::devices_
  info,        \* info[o]: name, moved and visible of the Device object o
  chips,       \* chips[o]: Device::chips
  models,      \* models[o]: Device::model.chips
  parent,      \* parent[c], index[c]: Chip::parent and Chip::chip_index
  index,
  idToChip,    \* keys of id_to_chip_
  lePhy,       \* rootcanal devices in the low energy phy
  classicPhy,  \* rootcanal devices in the classic phy
  sniffing,    \* chips whose sniffer has an output stream
  reply        \* the frontend request answered by the last step

sceneVars == <<devices, info, chips, models>>
chipVars == <<parent, index, idToChip, sniffing>>
phyVars == <<lePhy, classicPhy>>
handlerVars == <<pc, serial, chipId, device, idx>>
vars == <<handlerVars, sceneVars, chipVars, phyVars, reply>>

PCs == {"idle", "get_or_create", "add_chip", "insert", "open", "remove", "erase", "ended", "crashed"}

ChipModel == [capture : States, le : States, classic : States]

NoReply == [call |-> "none"]

Init ==
  /\ pc = [s \in Streams |-> "idle"]
  /\ serial = [s \in Streams |-> NoText]
  /\ chipId = [s \in Streams |-> NoText]
  /\ device = [s \in Streams |-> None]
  /\ idx = [s \in Streams |-> 0]
  /\ devices = << >>
  /\ info = [o \in Streams |-> [name |-> NoText, moved |-> FALSE, visible |-> FALSE]]
  /\ chips = [o \in Streams |-> << >>]
  /\ models = [o \in Streams |-> << >>]
  /\ parent = [c \in Streams |-> None]
  /\ index = [c \in Streams |-> 0]
  /\ idToChip = {}
  /\ lePhy = {}
  /\ classicPhy = {}
  /\ sniffing = {}
  /\ reply = NoReply

Scene == ToSet(devices)
Goto(s, label) == pc' = [pc EXCEPT ![s] = label]
Crash == pc' = [s \in Streams |-> "crashed"]
Up == \A s \in Streams : pc[s] # "crashed"

Connected(s) == pc[s] \in {"get_or_create", "add_chip", "insert", "open"}
Busy == {s \in Streams : pc[s] \in {"get_or_create", "add_chip", "insert", "remove", "erase"}}

-----------------------------------------------------------------------------
(* StreamPackets: connecting *)

\* The first packet carries no initial_info: INVALID_ARGUMENT.
Reject(s) ==
  /\ pc[s] = "idle"
  /\ Goto(s, "ended")
  /\ reply' = NoReply
  /\ UNCHANGED <<serial, chipId, device, idx, sceneVars, chipVars, phyVars>>

\* A device reconnects after its old stream is gone entirely ("none"), as soon
\* as the chip of the old stream is removed ("removed"), or at any time ("any").
MayConnect(sn) ==
  \A t \in Streams :
    serial[t] = sn =>
      \/ pc[t] = "ended"
      \/ Overlap = "removed" /\ pc[t] = "erase"
      \/ Overlap = "any"

\* AddHciConnection up to GetOrCreate: rootcanal gets a new device.
Connect(s, sn, id) ==
  /\ pc[s] = "idle"
  /\ Cardinality(Busy) < MaxBusy
  /\ MayConnect(sn)
  /\ serial' = [serial EXCEPT ![s] = sn]
  /\ chipId' = [chipId EXCEPT ![s] = id]
  /\ lePhy' = lePhy \cup {s}
  /\ classicPhy' = classicPhy \cup {s}
  /\ Goto(s, "get_or_create")
  /\ reply' = NoReply
  /\ UNCHANGED <<device, idx, sceneVars, chipVars>>

GetExisting(s) ==
  /\ pc[s] = "get_or_create"
  /\ \E o \in Scene :
       /\ serial[o] = serial[s]
       /\ device' = [device EXCEPT ![s] = o]
  /\ Goto(s, "add_chip")
  /\ reply' = NoReply
  /\ UNCHANGED <<serial, chipId, idx, sceneVars, chipVars, phyVars>>

\* Mutated form: the scene is not searched.
CreateAlways(s) ==
  /\ pc[s] = "get_or_create"
  /\ device' = [device EXCEPT ![s] = s]
  /\ devices' = Append(devices, s)
  /\ Goto(s, "add_chip")
  /\ reply' = NoReply
  /\ UNCHANGED <<serial, chipId, idx, info, chips, models, chipVars, phyVars>>

CreateNew(s) ==
  /\ pc[s] = "get_or_create"
  /\ \A o \in Scene : serial[o] # serial[s]
  /\ device' = [device EXCEPT ![s] = s]
  /\ devices' = Append(devices, s)
  /\ Goto(s, "add_chip")
  /\ reply' = NoReply
  /\ UNCHANGED <<serial, chipId, idx, info, chips, models, chipVars, phyVars>>

GetOrCreate(s) == GetExisting(s) \/ CreateNew(s)

\* Chip::Model() is there: chip_index is an index of the parent's model.
HasModel(c) == parent[c] # None /\ index[c] \in DOMAIN models[parent[c]]

\* Device::AddChip, the search for a chip with the same key.  All chips of
\* streams have the key (bt, ""), so the first one found is the duplicate.
AddChipFree(s) ==
  /\ pc[s] = "add_chip"
  /\ chips[device[s]] = << >>
  /\ Goto(s, "insert")
  /\ reply' = NoReply
  /\ UNCHANGED <<serial, chipId, device, idx, sceneVars, chipVars, phyVars>>

\* "Trying to add a duplicate chip, skipping!": the chip keeps its null parent,
\* and the emulator keeps the chip.
AddChipDuplicate(s) ==
  /\ pc[s] = "add_chip"
  /\ chips[device[s]] # << >>
  /\ HasModel(Head(chips[device[s]]))
  /\ idToChip' = idToChip \cup {s}
  /\ Goto(s, "open")
  /\ reply' = NoReply
  /\ UNCHANGED <<serial, chipId, device, idx, sceneVars, parent, index, sniffing, phyVars>>

\* KeyComp asks a chip for a model entry that is not there.
AddChipCrash(s) ==
  /\ pc[s] = "add_chip"
  /\ chips[device[s]] # << >>
  /\ ~HasModel(Head(chips[device[s]]))
  /\ Crash
  /\ reply' = NoReply
  /\ UNCHANGED <<serial, chipId, device, idx, sceneVars, chipVars, phyVars>>

\* Mutated form: Init is called after the chip was pushed.
AddChipInsertLate(s) ==
  LET o == device[s]
  IN  /\ pc[s] = "insert"
      /\ parent' = [parent EXCEPT ![s] = o]
      /\ index' = [index EXCEPT ![s] = Len(chips[o]) + 2]
      /\ models' = [models EXCEPT ![o] =
                      Append(@, [capture |-> "OFF", le |-> "ON", classic |-> "ON"])]
      /\ chips' = [chips EXCEPT ![o] = Append(@, s)]
      /\ idToChip' = idToChip \cup {s}
      /\ Goto(s, "open")
      /\ reply' = NoReply
      /\ UNCHANGED <<serial, chipId, device, idx, devices, info, sniffing, phyVars>>

AddChipInsert(s) ==
  LET o == device[s]
  IN  /\ pc[s] = "insert"
      /\ parent' = [parent EXCEPT ![s] = o]
      /\ index' = [index EXCEPT ![s] = Len(chips[o]) + 1]
      /\ models' = [models EXCEPT ![o] =
                      Append(@, [capture |-> "OFF", le |-> "ON", classic |-> "ON"])]
      /\ chips' = [chips EXCEPT ![o] = Append(@, s)]
      /\ idToChip' = idToChip \cup {s}
      /\ Goto(s, "open")
      /\ reply' = NoReply
      /\ UNCHANGED <<serial, chipId, device, idx, devices, info, sniffing, phyVars>>

-----------------------------------------------------------------------------
(* StreamPackets: the stream ends *)

\* Transport returns, rootcanal's close callback having run.
TransportReturns(s) ==
  /\ pc[s] = "open"
  /\ Cardinality(Busy) < MaxBusy
  /\ lePhy' = lePhy \ {s}
  /\ classicPhy' = classicPhy \ {s}
  /\ Goto(s, "remove")
  /\ reply' = NoReply
  /\ UNCHANGED <<serial, chipId, device, idx, sceneVars, chipVars>>

\* Mutated form: the serial is searched for as MatchDevice does.
IsFirstContaining(d, sn) ==
  /\ d \in 1..Len(devices)
  /\ <<sn, serial[devices[d]]>> \in Substring
  /\ \A e \in 1..(d - 1) : <<sn, serial[devices[e]]>> \notin Substring

\* The first device with this serial.
IsFirst(d, sn) ==
  /\ d \in 1..Len(devices)
  /\ serial[devices[d]] = sn
  /\ \A e \in 1..(d - 1) : serial[devices[e]] # sn

\* RemoveChip up to the erasure: Device::RemoveChip takes the first chip with
\* the key (bt, id) out of both lists, the model's chips all having the empty
\* id, and says whether the device has none left.
RemoveChip(s) ==
  /\ pc[s] = "remove"
  /\ \E d \in 1..Len(devices) :
       LET o == devices[d]
           found == chipId[s] = NoText /\ models[o] # << >>
       IN  /\ IsFirst(d, serial[s])
           /\ chips' = IF found THEN [chips EXCEPT ![o] = Tail(@)] ELSE chips
           /\ models' = IF found THEN [models EXCEPT ![o] = Tail(@)] ELSE models
           /\ idx' = [idx EXCEPT ![s] = d]
           /\ Goto(s, IF chips'[o] = << >> THEN "erase" ELSE "ended")
  /\ reply' = NoReply
  /\ UNCHANGED <<serial, chipId, device, devices, info, chipVars, phyVars>>

\* "Trying to remove chip from unknown device"
RemoveChipUnknown(s) ==
  /\ pc[s] = "remove"
  /\ \A o \in Scene : serial[o] # serial[s]
  /\ Goto(s, "ended")
  /\ reply' = NoReply
  /\ UNCHANGED <<serial, chipId, device, idx, sceneVars, chipVars, phyVars>>

\* Mutated form: the device stays.
EraseForgotten(s) ==
  /\ pc[s] = "erase"
  /\ Goto(s, "ended")
  /\ reply' = NoReply
  /\ UNCHANGED <<serial, chipId, device, idx, sceneVars, chipVars, phyVars>>

\* Mutated form: the index is one too large.
EraseNext(s) ==
  /\ pc[s] = "erase"
  /\ idx[s] < Len(devices)
  /\ devices' = RemoveAt(devices, idx[s] + 1)
  /\ Goto(s, "ended")
  /\ reply' = NoReply
  /\ UNCHANGED <<serial, chipId, device, idx, info, chips, models, chipVars, phyVars>>

\* devices_.erase(devices_.begin() + d)
Erase(s) ==
  /\ pc[s] = "erase"
  /\ idx[s] <= Len(devices)
  /\ devices' = RemoveAt(devices, idx[s])
  /\ Goto(s, "ended")
  /\ reply' = NoReply
  /\ UNCHANGED <<serial, chipId, device, idx, info, chips, models, chipVars, phyVars>>

\* The vector has become shorter than d: the erasure is undefined, and drops
\* the last element or ends the process.
ErasePastEnd(s) ==
  /\ pc[s] = "erase"
  /\ idx[s] > Len(devices)
  /\ \/ devices # << >> /\ devices' = Front(devices) /\ Goto(s, "ended")
     \/ devices' = devices /\ Crash
  /\ reply' = NoReply
  /\ UNCHANGED <<serial, chipId, device, idx, info, chips, models, chipVars, phyVars>>

-----------------------------------------------------------------------------
(* The frontend *)

\* MatchDevice: the devices whose serial contains the given one or, without a
\* serial, whose name contains the given one.
Matching(sn, name) ==
  IF sn = NoText
    THEN {o \in Scene : <<name, info[o].name>> \in Substring}
    ELSE {o \in Scene : <<sn, serial[o]>> \in Substring}

\* Mutated form: the first of several devices is as good as any.
MatchDeviceFirst(sn, name) ==
  LET found == Matching(sn, name)
  IN  IF found # {} /\ ~(sn = NoText /\ name = NoText)
        THEN CHOOSE o \in found : TRUE
        ELSE None

\* The one device MatchDevice returns.  None when there are several.
MatchDevice(sn, name) ==
  LET found == Matching(sn, name)
  IN  IF Cardinality(found) = 1 /\ ~(sn = NoText /\ name = NoText)
        THEN CHOOSE o \in found : TRUE
        ELSE None

\* Mutated form: a state left UNKNOWN in the request is a change.
changedStateUnknown(a, b) == a # b

changedState(a, b) == b # "UNKNOWN" /\ a # b

\* Mutated form: a radio is never taken out of its phy.
UpdatePhyOnlyAdds(phy, c, old, new) ==
  IF changedState(old, new) /\ Connected(c) /\ new = "ON" THEN phy \cup {c} ELSE phy

\* A radio of chip c is switched: rootcanal's device enters or leaves the phy.
UpdatePhy(phy, c, old, new) ==
  IF changedState(old, new) /\ Connected(c)
    THEN IF new = "ON" THEN phy \cup {c} ELSE phy \ {c}
    ELSE phy

NewState(old, new) == IF changedState(old, new) THEN new ELSE old

\* BluetoothChip::SetPacketCapture: the sniffer gets a file or loses it.
Sniffing(c, old, new) ==
  IF changedState(old, new)
    THEN IF new = "ON" THEN sniffing \cup {c} ELSE sniffing \ {c}
    ELSE sniffing

\* BluetoothChip::Update
UpdateChip(c, request) ==
  LET o == parent[c]
      m == models[o][index[c]]
  IN  /\ models' = [models EXCEPT ![o][index[c]] =
                      [capture |-> NewState(m.capture, request.capture),
                       le |-> NewState(m.le, request.le),
                       classic |-> NewState(m.classic, request.classic)]]
      /\ sniffing' = Sniffing(c, m.capture, request.capture)
      /\ lePhy' = UpdatePhy(lePhy, c, m.le, request.le)
      /\ classicPhy' = UpdatePhy(classicPhy, c, m.classic, request.classic)

\* Device::Update, the position and the name.
UpdateInfo(o, request) ==
  info' = [info EXCEPT ![o] =
             [name |-> IF request.name = NoText THEN @.name ELSE request.name,
              moved |-> @.moved \/ request.moves,
              visible |-> @.visible]]

\* Device::Update.  The first chip whose key is asked about ends the search,
\* and every chip has that key.
Update(o, request) ==
  /\ UpdateInfo(o, request)
  /\ IF request.chip = {} \/ chips[o] = << >>
       THEN UNCHANGED <<pc, models, sniffing, phyVars>>
       ELSE IF ~HasModel(Head(chips[o]))
         THEN Crash /\ UNCHANGED <<models, sniffing, phyVars>>
         ELSE /\ \A r \in request.chip : UpdateChip(Head(chips[o]), r)
              /\ UNCHANGED pc

\* SceneController::UpdateDevice, and whether it succeeds.
UpdateFound(request) ==
  request.serial # NoText /\ MatchDevice(request.serial, request.name) # None

UpdateScene(request) ==
  /\ Up
  /\ IF UpdateFound(request)
       THEN Update(MatchDevice(request.serial, request.name), request)
       ELSE UNCHANGED <<pc, info, models, sniffing, phyVars>>
  /\ UNCHANGED <<serial, chipId, device, idx, devices, chips, parent, index, idToChip>>

\* FrontendService.UpdateDevice
UpdateDevice(request) ==
  /\ UpdateScene(request)
  /\ reply' = [call |-> "UpdateDevice", request |-> request,
               status |-> IF UpdateFound(request) THEN "OK" ELSE "NOT_FOUND"]

\* FrontendService.SetPacketCapture: the result of the update is ignored.
SetPacketCapture(request) ==
  /\ UpdateScene([serial |-> request.serial, name |-> NoText, moves |-> FALSE,
                  chip |-> {[capture |-> request.capture, le |-> "UNKNOWN",
                             classic |-> "UNKNOWN"]}])
  /\ reply' = [call |-> "SetPacketCapture", request |-> request, status |-> "OK"]

\* Device::Reset: visible, at the origin; chips are left alone.
ResetInfo(i) == [name |-> i.name, moved |-> FALSE, visible |-> TRUE]

\* FrontendService.Reset
Reset ==
  /\ Up
  /\ info' = [o \in Streams |->
                IF o \in Scene THEN ResetInfo(info[o]) ELSE info[o]]
  /\ reply' = [call |-> "Reset", status |-> "OK"]
  /\ UNCHANGED <<handlerVars, devices, chips, models, chipVars, phyVars>>

-----------------------------------------------------------------------------
Handler(s) ==
  \/ GetOrCreate(s)
  \/ AddChipFree(s)
  \/ AddChipDuplicate(s)
  \/ AddChipCrash(s)
  \/ AddChipInsert(s)
  \/ RemoveChip(s)
  \/ RemoveChipUnknown(s)
  \/ Erase(s)
  \/ ErasePastEnd(s)

Next ==
  \/ \E s \in Streams :
       \/ Reject(s)
       \/ \E sn \in Serials, id \in ChipIds : Connect(s, sn, id)
       \/ TransportReturns(s)
       \/ Handler(s)
  \/ \E r \in Requests : UpdateDevice(r)
  \/ \E r \in Captures : SetPacketCapture(r)
  \/ Reset

Spec == Init /\ [][Next]_vars

-----------------------------------------------------------------------------
(* Properties *)

\* What the scene and the handlers can hold: a model's states are ON or OFF
\* whatever a request leaves UNKNOWN, a device's chips are chips of streams.
TypeOK ==
  /\ pc \in [Streams -> PCs]
  /\ serial \in [Streams -> Serials \cup {NoText}]
  /\ chipId \in [Streams -> ChipIds \cup {NoText}]
  /\ device \in [Streams -> Streams \cup {None}]
  /\ idx \in [Streams -> Nat]
  /\ devices \in Seq(Streams)
  /\ DOMAIN info = Streams
  /\ chips \in [Streams -> Seq(Streams)]
  /\ models \in [Streams -> Seq(ChipModel)]
  /\ parent \in [Streams -> Streams \cup {None}]
  /\ index \in [Streams -> Nat]
  /\ idToChip \subseteq Streams
  /\ lePhy \subseteq Streams
  /\ classicPhy \subseteq Streams
  /\ sniffing \subseteq Streams

\* No two devices of the scene have the same serial (model.proto: "unique
\* device serial number"), whatever streams connect, reconnect and end, and
\* although devices are found and erased without the lock.
UniqueSerials ==
  \A i, j \in 1..Len(devices) : serial[devices[i]] = serial[devices[j]] => i = j

\* GetDevices "Returns the emulators and accessory devices that are connected"
\* (frontend.proto): a connected stream has its chip in a device of the scene.
ConnectedListed ==
  \A s \in Streams :
    pc[s] = "open" => device[s] \in Scene /\ s \in ToSet(chips[device[s]])

\* "When a packet stream goes away the chip is removed. When there are no more
\* chips the device is remove." (scene_controller.h): without streams the scene
\* is empty.
NothingLeft == (\A s \in Streams : pc[s] \in {"idle", "ended"}) => devices = << >>

\* The same comment, read the other way: a device that leaves the scene has no
\* chips.
EraseOnlyChipless == [][\A o \in Scene \ Scene' : chips[o] = << >>]_vars

\* What the model of a connected chip says of its radios and of packet capture
\* is what rootcanal's phys and the sniffer do, after any updates.
ChipStateApplied ==
  \A s \in Streams :
    pc[s] = "open" /\ HasModel(s) =>
      LET m == models[parent[s]][index[s]]
      IN  /\ m.le = "ON" <=> s \in lePhy
          /\ m.classic = "ON" <=> s \in classicPhy
          /\ m.capture = "ON" <=> s \in sniffing

\* A rootcanal device that can send has, if the emulator knows its chip, a chip
\* with a model: IncrTx, IncrRx and ComputeRssi go through it unguarded.
ModelReachable == \A s \in (lePhy \cup classicPhy) \cap idToChip : HasModel(s)

\* An update reaches one device: no device the given serial does not occur in
\* is changed, none is changed when the serial occurs in two of the scene, and
\* only radios and sniffers of chips of the changed device are switched.
\* (MatchDevice, Device::Update, BluetoothChip::Update)
OneDeviceUpdated ==
  [][LET touched == {o \in Streams : info'[o] # info[o] \/ models'[o] # models[o]}
         switched == SymDiff(lePhy, lePhy') \cup SymDiff(classicPhy, classicPhy')
                       \cup SymDiff(sniffing, sniffing')
     IN  reply'.call \in {"UpdateDevice", "SetPacketCapture"} =>
           /\ \A o \in touched : Matching(reply'.request.serial, NoText) = {o}
           /\ \A s \in switched : device[s] \in touched
           /\ reply'.status = "NOT_FOUND" => touched = {}]_vars

-----------------------------------------------------------------------------
(* The scene as others see it *)

\* What val says of the members of S, by their keys.
ByKey(S, key, val) == [k \in {key[x] : x \in S} |-> val[CHOOSE x \in S : key[x] = k]]

\* A device with the models of its chips.
View ==
  [o \in Streams |->
     [name |-> info[o].name, moved |-> info[o].moved, visible |-> info[o].visible,
      chip |-> ToSet(models[o])]]

Open == {s \in Streams : pc[s] = "open"}

OnOff(b) == IF b THEN "ON" ELSE "OFF"

\* What rootcanal and the sniffer do for a stream.
Radio ==
  [s \in Streams |->
     [capture |-> OnOff(s \in sniffing), le |-> OnOff(s \in lePhy),
      classic |-> OnOff(s \in classicPhy)]]

SceneMap == ByKey(Scene, serial, View)
RadioMap == ByKey(Open, serial, Radio)

Abstract == INSTANCE DeviceMap WITH scene <- SceneMap, radio <- RadioMap

\* Streams that come and go one at a time leave a map of devices in which nothing is
\* half done: a device appears, gets and loses its one chip and disappears in this
\* order, a request changes the one device it means, in the models and in the phys
\* at once, and is answered accordingly. (SceneController, Device, BluetoothChip)
ImplementsDeviceMap == Abstract!Spec

=============================================================================
