------------------------ MODULE SceneRefinementProofs ------------------------
(***************************************************************************)
(* The scene implements the map of devices of module DeviceMap where a     *)
(* device reconnects only when its old stream has ended (NoOverlap) and    *)
(* streams set up and tear down one at a time (MaxBusy = 1).               *)
(***************************************************************************)
EXTENDS SceneOrderlyProofs

-----------------------------------------------------------------------------
(* Maps by key *)

\* No two members of S have the same key.
Keyed(S, key) == \A x, y \in S : key[x] = key[y] => x = y

\* A map by key has, for the key of a member, what is said of that member, and nothing else.
LEMMA ByKeyDomain ==
  ASSUME NEW S, NEW key, NEW val
  PROVE  \A k : k \in DOMAIN ByKey(S, key, val) <=> \E x \in S : key[x] = k
  BY DEF ByKey

LEMMA ByKeyAt ==
  ASSUME NEW S, NEW key, NEW val, Keyed(S, key)
  PROVE  \A x \in S : ByKey(S, key, val)[key[x]] = val[x]
<1>1. ASSUME NEW x \in S PROVE (CHOOSE y \in S : key[y] = key[x]) = x
  BY DEF Keyed
<1> QED
  BY <1>1 DEF ByKey

\* It is the only function that has.
LEMMA ByKeyOnly ==
  ASSUME NEW S, NEW key, NEW val, Keyed(S, key),
         NEW D, NEW f, f = [k \in D |-> f[k]], D = {key[x] : x \in S},
         \A x \in S : f[key[x]] = val[x]
  PROVE  f = ByKey(S, key, val)
<1> DEFINE g == ByKey(S, key, val)
<1>1. g = [k \in D |-> g[k]]
  BY DEF ByKey
<1>2. ASSUME NEW k \in D PROVE f[k] = g[k]
  <2>1. PICK x \in S : key[x] = k
    OBVIOUS
  <2>2. g[key[x]] = val[x]
    BY ByKeyAt
  <2> QED
    BY <2>1, <2>2
<1> HIDE DEF g
<1>3. f = g
  BY <1>1, <1>2
<1> QED
  BY <1>3 DEF g

\* The map stays the same when keys and values of the members do.
LEMMA ByKeySame ==
  ASSUME NEW S, NEW key, NEW val, NEW key2, NEW val2, Keyed(S, key),
         \A x \in S : key2[x] = key[x] /\ val2[x] = val[x]
  PROVE  ByKey(S, key2, val2) = ByKey(S, key, val)
<1> DEFINE f == ByKey(S, key2, val2)
<1>1. Keyed(S, key2)
  BY DEF Keyed
<1>2. {key2[x] : x \in S} = {key[x] : x \in S}
  OBVIOUS
<1>3. f = [k \in {key[x] : x \in S} |-> f[k]]
  BY <1>2 DEF ByKey
<1>4a. \A x \in S : f[key2[x]] = val2[x]
  BY <1>1, ByKeyAt
<1>4. \A x \in S : f[key[x]] = val[x]
  BY <1>4a
<1> HIDE DEF f
<1>5. f = ByKey(S, key, val)
  BY <1>3, <1>4, ByKeyOnly
<1> QED
  BY <1>5 DEF f

\* One more member is one more argument of the map.
LEMMA ByKeyAdd ==
  ASSUME NEW S, NEW key, NEW val, NEW key2, NEW val2, NEW x, x \notin S,
         Keyed(S \cup {x}, key2),
         \A y \in S : key2[y] = key[y] /\ val2[y] = val[y]
  PROVE  /\ key2[x] \notin DOMAIN ByKey(S, key, val)
         /\ ByKey(S \cup {x}, key2, val2) = Abstract!With(ByKey(S, key, val), key2[x], val2[x])
<1> DEFINE T == S \cup {x}
           g == ByKey(S, key, val)
           f == Abstract!With(g, key2[x], val2[x])
           D == DOMAIN g \cup {key2[x]}
<1>1. Keyed(S, key)
  BY DEF Keyed
<1>2. DOMAIN g = {key[y] : y \in S}
  BY DEF ByKey
<1> HIDE DEF g
<1>2a. \A y \in S : g[key[y]] = val[y]
  BY <1>1, ByKeyAt DEF g
<1>3. key2[x] \notin DOMAIN g
  BY <1>2 DEF Keyed
<1>4. D = {key2[y] : y \in T}
  BY <1>2
<1>5. f = [k \in D |-> f[k]]
  BY DEF Abstract!With
<1>6. ASSUME NEW y \in T PROVE f[key2[y]] = val2[y]
  <2>1. CASE y = x
    BY <2>1 DEF Abstract!With
  <2>2. CASE y \in S
    <3>1. key2[y] # key2[x] /\ key2[y] \in DOMAIN g /\ key2[y] = key[y]
      BY <1>2, <1>3, <2>2
    <3> QED
      BY <1>2a, <2>2, <3>1 DEF Abstract!With
  <2> QED
    BY <2>1, <2>2
<1> HIDE DEF f, D, T
<1>7. f = ByKey(T, key2, val2)
  BY <1>4, <1>5, <1>6, ByKeyOnly DEF T
<1> QED
  BY <1>3, <1>7 DEF T, f, g

\* One member less is one argument less.
LEMMA ByKeyDrop ==
  ASSUME NEW S, NEW key, NEW val, NEW x \in S, Keyed(S, key)
  PROVE  ByKey(S \ {x}, key, val) = Abstract!Without(ByKey(S, key, val), key[x])
<1> DEFINE T == S \ {x}
           g == ByKey(S, key, val)
           f == Abstract!Without(g, key[x])
           D == DOMAIN g \ {key[x]}
<1>1. Keyed(T, key)
  BY DEF Keyed
<1>2. DOMAIN g = {key[y] : y \in S}
  BY DEF ByKey
<1>2a. \A y \in S : g[key[y]] = val[y]
  BY ByKeyAt
<1>3. D = {key[y] : y \in T}
  BY <1>2 DEF Keyed
<1>4. f = [k \in D |-> f[k]]
  BY DEF Abstract!Without
<1>5. ASSUME NEW y \in T PROVE f[key[y]] = val[y]
  <2>1. key[y] \in D /\ g[key[y]] = val[y]
    BY <1>2a, <1>3
  <2> QED
    BY <2>1 DEF Abstract!Without
<1> HIDE DEF f, D, T
<1>6. f = ByKey(T, key, val)
  BY <1>1, <1>3, <1>4, <1>5, ByKeyOnly
<1> QED
  BY <1>6 DEF T, f

\* A member that changes changes the map at its key.
LEMMA ByKeyPut ==
  ASSUME NEW S, NEW key, NEW val, NEW val2, NEW x \in S, Keyed(S, key),
         \A y \in S : y # x => val2[y] = val[y]
  PROVE  ByKey(S, key, val2) = Abstract!With(ByKey(S, key, val), key[x], val2[x])
<1> DEFINE g == ByKey(S, key, val)
           D == DOMAIN g \cup {key[x]}
           f == Abstract!With(g, key[x], val2[x])
<1>1. DOMAIN g = {key[y] : y \in S}
  BY DEF ByKey
<1>2. \A y \in S : g[key[y]] = val[y]
  BY ByKeyAt
<1> HIDE DEF g
<1>3. D = {key[y] : y \in S}
  BY <1>1
<1>4. f = [k \in D |-> f[k]]
  BY DEF Abstract!With
<1>5. ASSUME NEW y \in S PROVE f[key[y]] = val2[y]
  <2>1. key[y] \in D /\ (key[y] = key[x] => y = x)
    BY <1>3 DEF Keyed
  <2>2. g[key[y]] = val[y]
    BY <1>2
  <2> QED
    BY <2>1, <2>2 DEF Abstract!With
<1> HIDE DEF f, D
<1>6. f = ByKey(S, key, val2)
  BY <1>3, <1>4, <1>5, ByKeyOnly
<1> QED
  BY <1>6 DEF f, g

-----------------------------------------------------------------------------
(* The invariant *)

NewInfo == [name |-> NoText, moved |-> FALSE, visible |-> FALSE]

\* A device is not named, moved or shown before it is created.
Informed == \A o \in Streams : NotYet(o) => info[o] = NewInfo

\* The device a handler erases has its serial.
Erasers == \A s \in Streams : pc[s] = "erase" => serial[device[s]] = serial[s]

RefinementInv == OneAtATimeInv /\ Informed /\ Erasers

\* The parts of the invariant.
LEMMA Parts ==
  ASSUME RefinementInv
  PROVE  /\ Typed /\ UniqueSerials /\ Up /\ Orderly /\ Alone /\ Held /\ OneChip /\ Radios
         /\ OneAtATime /\ Informed /\ Erasers
         /\ Scene \subseteq Streams /\ Open \subseteq Streams
         /\ pc \in [Streams -> PCs] /\ serial \in [Streams -> Serials \cup {NoText}]
         /\ device \in [Streams -> Streams \cup {None}]
<1>1. Typed /\ UniqueSerials /\ Up /\ Orderly /\ OneAtATime /\ Informed /\ Erasers
  BY DEF RefinementInv, OneAtATimeInv, OrderlyInv
<1> QED
  BY <1>1, SceneStreams DEF Orderly, Open, Typed, TypeOK

\* An update gives the device that matches another name and position.
LEMMA UpdateInforms ==
  ASSUME RefinementInv, NEW request, UpdateScene(request)
  PROVE  IF UpdateFound(request)
           THEN UpdateInfo(MatchDevice(request.serial, request.name), request)
           ELSE info' = info
  BY DEF UpdateScene, Update

\* Every step leaves devices that are not yet created as they are ...
LEMMA NextInformed ==
  ASSUME RefinementInv, Next PROVE Informed'
<1>1. /\ Typed /\ Up /\ Orderly /\ Held /\ Informed /\ OneAtATime /\ Scene \subseteq Streams
      /\ pc \in [Streams -> PCs] /\ DOMAIN info = Streams
  BY Parts DEF Typed, TypeOK
<1>2. ASSUME info' = info, \A o \in Streams : NotYet(o)' => NotYet(o) PROVE Informed'
  BY <1>1, <1>2 DEF Informed
<1>3. ASSUME pc' = pc, \A q \in Streams \ Scene : info'[q] = info[q] PROVE Informed'
  <2>1. \A q \in Streams : NotYet(q)' => NotYet(q) /\ q \notin Scene
    BY <1>1, <1>3 DEF Held, NotYet
  <2> QED
    BY <1>1, <1>3, <2>1 DEF Informed
<1>4. ASSUME NEW s \in Streams, Reject(s) \/ TransportReturns(s) \/ Handler(s) PROVE Informed'
  <2>1. Step(s)
    BY <1>1, <1>4, NoDuplicate, FindsOwn
  <2>2. \A o \in Streams : NotYet(o)' => NotYet(o)
    BY <1>1, <2>1, StepGoes DEF Goes, NotYet
  <2>3. info' = info
    BY <2>1 DEF Step, Reject, TransportReturns, GetExisting, CreateNew, AddChipFree, AddChipInsert,
      RemoveChip, RemoveChipUnknown, Erase, ErasePastEnd, sceneVars
  <2> QED
    BY <1>2, <2>2, <2>3
<1>5. ASSUME NEW s \in Streams, NEW sn \in Serials, NEW id \in ChipIds, Connect(s, sn, id)
      PROVE  Informed'
  <2>1. pc[s] = "idle" /\ pc' = [pc EXCEPT ![s] = "get_or_create"] /\ info' = info
    BY <1>5 DEF Connect, Goto, sceneVars
  <2> QED
    BY <1>1, <1>2, <2>1 DEF NotYet
<1>6. ASSUME NEW request, UpdateScene(request),
             request.chip = {} \/ \E r \in ChipRequest : request.chip = {r}
      PROVE  Informed'
  <2>0. pc' = pc
    BY <1>1, <1>6, UpdateReaches
  <2>1. CASE ~UpdateFound(request)
    <3>1. info' = info
      BY <1>6, <2>1, UpdateInforms
    <3> QED
      BY <1>2, <2>0, <3>1 DEF NotYet
  <2>2. CASE UpdateFound(request)
    <3> DEFINE o == MatchDevice(request.serial, request.name)
    <3>1. o \in Scene
      BY <1>1, <2>2, MatchOne DEF UpdateFound
    <3>2. UpdateInfo(o, request)
      BY <1>6, <2>2, UpdateInforms
    <3> HIDE DEF o
    <3>3. \A q \in Streams \ {o} : info'[q] = info[q]
      BY <1>1, <3>2 DEF UpdateInfo
    <3> QED
      BY <1>3, <2>0, <3>1, <3>3
  <2> QED
    BY <2>1, <2>2
<1>7. ASSUME NEW r \in Requests, UpdateDevice(r) PROVE Informed'
  BY <1>6, <1>7, RequestsAssumption DEF UpdateDevice
<1>8. ASSUME NEW r \in Captures, SetPacketCapture(r) PROVE Informed'
  BY <1>6, <1>8, CaptureRequest
<1>9. ASSUME Reset PROVE Informed'
  <2>1. pc' = pc /\ \A o \in Streams \ Scene : info'[o] = info[o]
    BY <1>9 DEF Reset, handlerVars
  <2> QED
    BY <1>3, <2>1
<1> QED
  BY <1>4, <1>5, <1>7, <1>8, <1>9 DEF Next

\* ... and lets no handler erase the device of another serial.
LEMMA NextErasers ==
  ASSUME MaxBusy = 1, RefinementInv, Next PROVE Erasers'
<1>1. /\ Typed /\ Orderly /\ Held /\ OneAtATime /\ Erasers
      /\ pc \in [Streams -> PCs] /\ device \in [Streams -> Streams \cup {None}]
  BY Parts
<1>2. ASSUME NEW s \in Streams, Reject(s) \/ TransportReturns(s) \/ Handler(s) PROVE Erasers'
  <2>1. Step(s) /\ ~ErasePastEnd(s)
    BY <1>1, <1>2, NoDuplicate, FindsOwn
  <2>2. CASE RemoveChip(s)
    <3>1. /\ pc[s] = "remove" /\ pc' = [pc EXCEPT ![s] = "erase"] /\ UNCHANGED <<serial, device>>
      BY <1>1, <2>2, RemovesOwn DEF RemoveChip, Goto
    <3> QED
      BY <1>1, <3>1 DEF Erasers, Held, Holds
  <2>3. CASE ~RemoveChip(s)
    <3>1. serial' = serial /\ pc'[s] # "erase"
      BY <1>1, <2>1, <2>3 DEF Step, Reject, TransportReturns, GetExisting, CreateNew, AddChipFree,
        AddChipInsert, RemoveChipUnknown, Erase, Goto
    <3>2. \A t \in Streams \ {s} : pc'[t] = pc[t] /\ device'[t] = device[t]
      BY <1>1, <2>1, <2>3 DEF Step, Reject, TransportReturns, GetExisting, CreateNew, AddChipFree,
        AddChipInsert, RemoveChipUnknown, Erase, Goto
    <3> QED
      BY <1>1, <3>1, <3>2 DEF Erasers
  <2> QED
    BY <2>2, <2>3
<1>3. ASSUME NEW s \in Streams, NEW sn \in Serials, NEW id \in ChipIds, Connect(s, sn, id)
      PROVE  Erasers'
  <2>1. pc' = [pc EXCEPT ![s] = "get_or_create"] /\ Cardinality(Busy) < 1
    BY <1>3 DEF Connect, Goto
  <2>2. Busy = {}
    BY <1>1, <2>1, NotBusy
  <2> QED
    BY <1>1, <2>1, <2>2 DEF Erasers, Busy
<1>4. ASSUME UNCHANGED <<pc, serial, device>> PROVE Erasers'
  BY <1>1, <1>4 DEF Erasers
<1>5. ASSUME NEW request, UpdateScene(request),
             request.chip = {} \/ \E r \in ChipRequest : request.chip = {r}
      PROVE  Erasers'
  BY <1>1, <1>4, <1>5, UpdateReaches
<1>6. ASSUME NEW r \in Requests, UpdateDevice(r) PROVE Erasers'
  BY <1>5, <1>6, RequestsAssumption DEF UpdateDevice
<1>7. ASSUME NEW r \in Captures, SetPacketCapture(r) PROVE Erasers'
  BY <1>5, <1>7, CaptureRequest
<1>8. ASSUME Reset PROVE Erasers'
  BY <1>4, <1>8 DEF Reset, handlerVars
<1> QED
  BY <1>2, <1>3, <1>6, <1>7, <1>8 DEF Next

\* The invariant holds in every reachable state.
LEMMA RefinementInvariant == ASSUME NoOverlap, MaxBusy = 1 PROVE Spec => []RefinementInv
<1>1. Init => Informed /\ Erasers
  BY DEF Init, Informed, Erasers, NewInfo
<1>2. RefinementInv /\ [Next]_vars => RefinementInv'
  <2> SUFFICES ASSUME RefinementInv, [Next]_vars PROVE RefinementInv'
    OBVIOUS
  <2>1. OneAtATimeInv'
    BY NextOneAtATime DEF RefinementInv
  <2>2. CASE UNCHANGED vars
    BY <2>1, <2>2 DEF vars, handlerVars, sceneVars, NotYet, RefinementInv, Informed, Erasers
  <2> QED
    BY <2>1, <2>2, NextInformed, NextErasers DEF RefinementInv
<1>3. Spec => []OneAtATimeInv
  BY OneAtATimeInvariant
<1> QED
  BY <1>1, <1>2, <1>3, PTL DEF Spec, RefinementInv

-----------------------------------------------------------------------------
(* The maps *)

\* Serials are keys of the devices of the scene and of the connected streams.
LEMMA SerialsKeyed ==
  ASSUME RefinementInv PROVE Keyed(Scene, serial) /\ Keyed(Open, serial)
<1>1. Keyed(Scene, serial)
  BY Parts, SceneStreams DEF UniqueSerials, Keyed
<1>2. Keyed(Open, serial)
  <2> SUFFICES ASSUME NEW s \in Open, NEW t \in Open, serial[s] = serial[t] PROVE s = t
    BY DEF Keyed
  <2>1. s \in Streams /\ t \in Streams /\ pc[s] = "open" /\ pc[t] = "open"
    BY DEF Open
  <2> QED
    BY <2>1, Parts DEF Alone
<1> QED
  BY <1>1, <1>2

\* The serial of a handler that has a device is in the map, with that device.
LEMMA HolderListed ==
  ASSUME RefinementInv, NEW s \in Streams, Holds(s) \/ pc[s] = "erase"
  PROVE  /\ device[s] \in Scene /\ device[s] \in Streams
         /\ serial[s] \in Serials /\ serial[device[s]] = serial[s]
         /\ serial[s] \in DOMAIN SceneMap
         /\ SceneMap[serial[s]] = View[device[s]]
<1>1. device[s] \in Scene
  BY Parts, SceneStreams DEF OneAtATime
<1>2. serial[s] \in Serials /\ serial[device[s]] = serial[s]
  BY Parts DEF Alone, Holds, Held, Erasers
<1> QED
  BY <1>1, <1>2, Parts, SerialsKeyed, ByKeyAt, ByKeyDomain DEF SceneMap

\* A handler that is neither idle nor ended is connected exactly if its serial has radios.
LEMMA RadioListed ==
  ASSUME RefinementInv, NEW s \in Streams, pc[s] \notin {"idle", "ended"}
  PROVE  serial[s] \in DOMAIN RadioMap <=> s \in Open
<1>1. serial[s] \in DOMAIN RadioMap <=> \E t \in Open : serial[t] = serial[s]
  BY ByKeyDomain DEF RadioMap
<1>2. ASSUME NEW t \in Open, serial[t] = serial[s] PROVE t = s
  BY <1>2, Parts DEF Alone, Open
<1> QED
  BY <1>1, <1>2

\* The map of devices stays the same when serial, information and models of its devices do.
LEMMA SceneSame ==
  ASSUME RefinementInv, Scene' = Scene,
         \A o \in Scene : serial'[o] = serial[o] /\ View'[o] = View[o]
  PROVE  SceneMap' = SceneMap
<1>1. ByKey(Scene, serial', View') = ByKey(Scene, serial, View)
  BY SerialsKeyed, ByKeySame
<1> QED
  BY <1>1 DEF SceneMap

\* So does the map of radios when the connected streams keep their serials and radios.
LEMMA RadioSame ==
  ASSUME RefinementInv, Open' = Open,
         \A s \in Open : serial'[s] = serial[s] /\ Radio'[s] = Radio[s]
  PROVE  RadioMap' = RadioMap
<1>1. ByKey(Open, serial', Radio') = ByKey(Open, serial, Radio)
  BY SerialsKeyed, ByKeySame
<1> QED
  BY <1>1 DEF RadioMap

\* A device shows its information and models, and nothing else.
LEMMA ViewUnchanged == ASSUME UNCHANGED <<info, models>> PROVE View' = View
  BY DEF View

\* The radios of a stream are what rootcanal and the sniffer do, and nothing else.
LEMMA RadioUnchanged == ASSUME UNCHANGED <<lePhy, classicPhy, sniffing>> PROVE Radio' = Radio
  BY DEF Radio

-----------------------------------------------------------------------------
(* Packet streams *)

\* Rejecting a stream, finding a device and finding room for a chip are not seen.
LEMMA HiddenStep ==
  ASSUME RefinementInv, NEW s \in Streams, Reject(s) \/ GetExisting(s) \/ AddChipFree(s)
  PROVE  Abstract!Hidden
<1>0. pc \in [Streams -> PCs]
  BY Parts
<1>1. /\ reply' = NoReply /\ UNCHANGED <<serial, info, models, devices, sniffing, lePhy, classicPhy>>
      /\ pc[s] # "open" /\ \E label : label # "open" /\ pc' = [pc EXCEPT ![s] = label]
  BY DEF Reject, GetExisting, AddChipFree, Goto, sceneVars, chipVars, phyVars
<1>2. Scene' = Scene
  BY <1>1 DEF Scene
<1>3. Open' = Open
  BY <1>0, <1>1 DEF Open
<1>4. View' = View /\ Radio' = Radio
  BY <1>1, ViewUnchanged, RadioUnchanged
<1>5. SceneMap' = SceneMap /\ RadioMap' = RadioMap
  BY <1>1, <1>2, <1>3, <1>4 DEF SceneMap, RadioMap
<1> QED
  BY <1>1, <1>5 DEF Abstract!Hidden, Abstract!NoReply, NoReply

\* Neither is a new connection, before it has a device.
LEMMA ConnectStep ==
  ASSUME RefinementInv, NEW s \in Streams, NEW sn \in Serials, NEW id \in ChipIds,
         Connect(s, sn, id)
  PROVE  Abstract!Hidden
<1>0. /\ pc \in [Streams -> PCs] /\ serial \in [Streams -> Serials \cup {NoText}]
      /\ Scene \subseteq Streams /\ Open \subseteq Streams
  BY Parts
<1>1. /\ reply' = NoReply /\ UNCHANGED <<info, models, devices, sniffing>>
      /\ serial' = [serial EXCEPT ![s] = sn]
      /\ lePhy' = lePhy \cup {s} /\ classicPhy' = classicPhy \cup {s}
      /\ pc[s] = "idle" /\ pc' = [pc EXCEPT ![s] = "get_or_create"]
  BY DEF Connect, Goto, sceneVars, chipVars
<1>2. Scene' = Scene /\ s \notin Scene
  BY <1>1, Parts DEF Scene, Held, NotYet
<1>3. Open' = Open /\ s \notin Open
  BY <1>0, <1>1 DEF Open
<1>4. View' = View
  BY <1>1, ViewUnchanged
<1>5. \A t \in Streams \ {s} : Radio'[t] = Radio[t] /\ serial'[t] = serial[t]
  BY <1>0, <1>1 DEF Radio, OnOff
<1>6. SceneMap' = SceneMap
  BY <1>0, <1>2, <1>4, <1>5, SceneSame
<1>7. RadioMap' = RadioMap
  BY <1>0, <1>3, <1>5, RadioSame
<1> QED
  BY <1>1, <1>6, <1>7 DEF Abstract!Hidden, Abstract!NoReply, NoReply

\* GetOrCreate puts a new device into the map.
LEMMA CreateStep ==
  ASSUME RefinementInv, NEW s \in Streams, CreateNew(s)
  PROVE  serial[s] \in Serials /\ Abstract!Create(serial[s])
<1>0. /\ pc \in [Streams -> PCs] /\ serial \in [Streams -> Serials \cup {NoText}]
      /\ Typed /\ Orderly /\ Scene \subseteq Streams /\ Open \subseteq Streams
  BY Parts
<1>1. /\ reply' = NoReply /\ UNCHANGED <<serial, info, models, sniffing, lePhy, classicPhy>>
      /\ pc[s] = "get_or_create" /\ pc' = [pc EXCEPT ![s] = "add_chip"]
      /\ \A o \in Scene : serial[o] # serial[s]
  BY DEF CreateNew, Goto, chipVars, phyVars
<1>2. Scene' = Scene \cup {s} /\ s \notin Scene
  <2>1. Step(s)
    BY DEF Step
  <2> QED
    BY <1>0, <1>1, <2>1, SceneChange
<1>3. Open' = Open
  BY <1>0, <1>1 DEF Open
<1>4. View' = View /\ Radio' = Radio
  BY <1>1, ViewUnchanged, RadioUnchanged
<1>5. View[s] = Abstract!NewDevice
  <2>1. info[s] = NewInfo /\ chips[s] = << >>
    BY <1>1, Parts DEF Informed, NotYet, OneChip
  <2>2. models[s] = << >>
    <3>1. models[s] \in Seq(ChipModel) /\ Len(models[s]) = 0
      BY <1>0, <2>1 DEF Typed, TypeOK, Shape
    <3> QED
      BY <3>1, EmptySeq
  <2>3. ToSet(models[s]) = {}
    BY <2>2 DEF ToSet
  <2>4. info[s].name = NoText /\ info[s].moved = FALSE /\ info[s].visible = FALSE
    BY <2>1 DEF NewInfo
  <2>5. View[s] = [name |-> info[s].name, moved |-> info[s].moved, visible |-> info[s].visible,
                   chip |-> ToSet(models[s])]
    BY DEF View
  <2> QED
    BY <2>3, <2>4, <2>5 DEF Abstract!NewDevice
<1>6. Keyed(Scene \cup {s}, serial)
  BY <1>1, SerialsKeyed DEF Keyed
<1>7. /\ serial[s] \notin DOMAIN ByKey(Scene, serial, View)
      /\ ByKey(Scene \cup {s}, serial, View) = Abstract!With(ByKey(Scene, serial, View), serial[s], View[s])
  BY <1>2, <1>6, ByKeyAdd
<1>8. SceneMap' = Abstract!With(SceneMap, serial[s], Abstract!NewDevice) /\ serial[s] \notin DOMAIN SceneMap
  BY <1>1, <1>2, <1>4, <1>5, <1>7 DEF SceneMap
<1>9. RadioMap' = RadioMap
  BY <1>1, <1>3, <1>4 DEF RadioMap
<1>10. serial[s] \in Serials
  BY <1>0, <1>1, Parts DEF Alone
<1> QED
  BY <1>1, <1>8, <1>9, <1>10 DEF Abstract!Create, Abstract!NoReply, NoReply

\* A device that changes changes the map at its serial.
LEMMA DevicePut ==
  ASSUME RefinementInv, NEW o \in Scene, Scene' = Scene, serial' = serial,
         \A q \in Scene : q # o => View'[q] = View[q]
  PROVE  SceneMap' = Abstract!With(SceneMap, serial[o], View'[o])
<1>1. ByKey(Scene, serial, View') = Abstract!With(ByKey(Scene, serial, View), serial[o], View'[o])
  <2>1. Keyed(Scene, serial)
    BY SerialsKeyed
  <2> QED
    BY <2>1, ByKeyPut
<1> QED
  BY <1>1 DEF SceneMap

\* Other models of the chips of a device are seen there and nowhere else.
LEMMA ChipsPut ==
  ASSUME RefinementInv, NEW o \in Scene, NEW m, Scene' = Scene, UNCHANGED <<serial, info>>,
         models' = [models EXCEPT ![o] = m]
  PROVE  SceneMap' = Abstract!With(SceneMap, serial[o], [View[o] EXCEPT !.chip = ToSet(m)])
<1>0. DOMAIN models = Streams /\ Scene \subseteq Streams
  BY Parts DEF Typed, TypeOK
<1>1. \A q \in Scene : q # o => View'[q] = View[q]
  BY <1>0 DEF View
<1>2. models'[o] = m /\ o \in Streams
  BY <1>0
<1>3. View'[o] = [View[o] EXCEPT !.chip = ToSet(m)]
  <2>1. View[o] = [name |-> info[o].name, moved |-> info[o].moved, visible |-> info[o].visible,
                   chip |-> ToSet(models[o])]
    BY <1>2 DEF View
  <2>2. View'[o] = [name |-> info[o].name, moved |-> info[o].moved, visible |-> info[o].visible,
                    chip |-> ToSet(m)]
    BY <1>2 DEF View
  <2> QED
    BY <2>1, <2>2
<1> QED
  BY <1>1, <1>3, DevicePut

\* The models of a device are those of its chips, none or that of its handler.
LEMMA ModelsOf ==
  ASSUME RefinementInv, NEW o \in Scene
  PROVE  /\ chips[o] = << >> => models[o] = << >> /\ View[o].chip = {}
         /\ chips[o] # << >> => /\ Len(models[o]) = 1 /\ models[o][1] \in ChipModel
                                /\ View[o].chip = {models[o][1]}
<1>0. o \in Streams /\ models[o] \in Seq(ChipModel) /\ View[o].chip = ToSet(models[o])
  BY Parts DEF Typed, TypeOK, View
<1>1. ASSUME chips[o] = << >> PROVE models[o] = << >> /\ View[o].chip = {}
  <2>1. Len(models[o]) = 0
    BY <1>0, <1>1, Parts DEF Typed, Shape
  <2>2. models[o] = << >>
    BY <1>0, <2>1, EmptySeq
  <2>3. ToSet(models[o]) = {}
    BY <2>2 DEF ToSet
  <2> QED
    BY <1>0, <2>2, <2>3
<1>2. ASSUME chips[o] # << >>
      PROVE  Len(models[o]) = 1 /\ models[o][1] \in ChipModel /\ View[o].chip = {models[o][1]}
  <2>1. Len(models[o]) = 1
    BY <1>2, FirstChip, Parts
  <2>2. ToSet(models[o]) = {models[o][1]}
    BY <1>0, <2>1 DEF ToSet
  <2> QED
    BY <1>0, <2>1, <2>2
<1> QED
  BY <1>1, <1>2

\* AddChip gives the device its chip, whose radios are on since the connection.
LEMMA InsertStep ==
  ASSUME RefinementInv, NEW s \in Streams, AddChipInsert(s)
  PROVE  serial[s] \in Serials /\ Abstract!Connect(serial[s])
<1> DEFINE o == device[s]
<1>0. pc \in [Streams -> PCs] /\ Alone /\ OneChip /\ Radios
  BY Parts
<1>1. /\ reply' = NoReply /\ UNCHANGED <<serial, info, devices, sniffing, lePhy, classicPhy>>
      /\ pc[s] = "insert" /\ pc' = [pc EXCEPT ![s] = "open"]
      /\ models' = [models EXCEPT ![o] = Append(models[o], Abstract!NewChip)]
  BY DEF AddChipInsert, Goto, phyVars, Abstract!NewChip
<1>2. /\ o \in Scene /\ serial[o] = serial[s] /\ serial[s] \in Serials
      /\ serial[s] \in DOMAIN SceneMap /\ SceneMap[serial[s]] = View[o]
  BY <1>1, HolderListed DEF Holds
<1>3. models[o] = << >> /\ View[o].chip = {}
  BY <1>0, <1>1, <1>2, ModelsOf DEF OneChip
<1> HIDE DEF o
<1>4. Scene' = Scene
  BY <1>1 DEF Scene
<1>5. SceneMap' = Abstract!With(SceneMap, serial[s], [View[o] EXCEPT !.chip = {Abstract!NewChip}])
  <2>1. Append(models[o], Abstract!NewChip) = <<Abstract!NewChip>>
    BY <1>3
  <2>2. ToSet(<<Abstract!NewChip>>) = {Abstract!NewChip}
    BY DEF ToSet
  <2> QED
    BY <1>1, <1>2, <1>4, <2>1, <2>2, ChipsPut
<1>6. serial[s] \notin DOMAIN RadioMap /\ s \notin Open
  BY <1>1, RadioListed DEF Open
<1>7. Open' = Open \cup {s}
  BY <1>0, <1>1 DEF Open
<1>8. Radio' = Radio /\ Radio[s] = Abstract!NewChip
  BY <1>0, <1>1, RadioUnchanged DEF Radio, OnOff, Radios, Abstract!NewChip
<1>9. Keyed(Open \cup {s}, serial)
  <2>1. \A t \in Open : serial[t] # serial[s]
    BY <1>0, <1>1, <1>2, NoTextAssumption DEF Open, Alone
  <2> QED
    BY <2>1, SerialsKeyed DEF Keyed
<1>10. RadioMap' = Abstract!With(RadioMap, serial[s], Abstract!NewChip)
  <2>1. ByKey(Open \cup {s}, serial, Radio) = Abstract!With(ByKey(Open, serial, Radio), serial[s], Radio[s])
    BY <1>6, <1>9, ByKeyAdd
  <2> QED
    BY <1>1, <1>7, <1>8, <2>1 DEF RadioMap
<1> QED
  BY <1>1, <1>2, <1>3, <1>5, <1>6, <1>10 DEF Abstract!Connect, Abstract!NoReply, NoReply

\* When Transport returns the radios of the stream are gone.
LEMMA DisconnectStep ==
  ASSUME RefinementInv, NEW s \in Streams, TransportReturns(s)
  PROVE  serial[s] \in Serials /\ Abstract!Disconnect(serial[s])
<1>0. pc \in [Streams -> PCs] /\ Open \subseteq Streams
  BY Parts
<1>1. /\ reply' = NoReply /\ UNCHANGED <<serial, info, models, devices, sniffing>>
      /\ lePhy' = lePhy \ {s} /\ classicPhy' = classicPhy \ {s}
      /\ pc[s] = "open" /\ pc' = [pc EXCEPT ![s] = "remove"]
  BY DEF TransportReturns, Goto, sceneVars, chipVars
<1>2. serial[s] \in Serials /\ s \in Open
  BY <1>1, HolderListed DEF Holds, Open
<1>3. serial[s] \in DOMAIN RadioMap
  BY <1>1, <1>2, RadioListed
<1>4. Open' = Open \ {s}
  BY <1>0, <1>1 DEF Open
<1>5. \A t \in Open \ {s} : Radio'[t] = Radio[t]
  BY <1>0, <1>1 DEF Radio, OnOff
<1>6. Keyed(Open \ {s}, serial)
  BY SerialsKeyed DEF Keyed
<1>7. ByKey(Open \ {s}, serial, Radio') = ByKey(Open \ {s}, serial, Radio)
  BY <1>5, <1>6, ByKeySame
<1>8. ByKey(Open \ {s}, serial, Radio) = Abstract!Without(ByKey(Open, serial, Radio), serial[s])
  BY <1>2, SerialsKeyed, ByKeyDrop
<1>9. RadioMap' = Abstract!Without(RadioMap, serial[s])
  BY <1>1, <1>4, <1>7, <1>8 DEF RadioMap
<1>10. SceneMap' = SceneMap
  <2>1. Scene' = Scene /\ View' = View
    BY <1>1, ViewUnchanged DEF Scene
  <2> QED
    BY <1>1, <2>1 DEF SceneMap
<1> QED
  BY <1>1, <1>2, <1>3, <1>9, <1>10 DEF Abstract!Disconnect, Abstract!NoReply, NoReply

\* RemoveChip takes the chip out of the device of the stream.
LEMMA RemoveStep ==
  ASSUME RefinementInv, NEW s \in Streams, RemoveChip(s)
  PROVE  serial[s] \in Serials /\ Abstract!RemoveChip(serial[s])
<1> DEFINE o == device[s]
<1>0. pc \in [Streams -> PCs] /\ Typed /\ Orderly /\ OneChip
  BY Parts
<1>1. /\ reply' = NoReply /\ UNCHANGED <<serial, info, devices, sniffing, lePhy, classicPhy>>
      /\ pc[s] = "remove"
  BY DEF RemoveChip, chipVars, phyVars
<1>2. pc' = [pc EXCEPT ![s] = "erase"] /\ models' = [models EXCEPT ![o] = << >>]
  BY <1>0, RemovesOwn DEF Goto
<1>3. /\ o \in Scene /\ serial[o] = serial[s] /\ serial[s] \in Serials
      /\ serial[s] \in DOMAIN SceneMap /\ SceneMap[serial[s]] = View[o]
  BY <1>1, HolderListed DEF Holds
<1>4. View[o].chip # {}
  <2>1. chips[o] # << >>
    BY <1>0, <1>1 DEF OneChip, HasChip
  <2> QED
    BY <1>3, <2>1, ModelsOf
<1> HIDE DEF o
<1>5. Scene' = Scene
  BY <1>1 DEF Scene
<1>6. SceneMap' = Abstract!With(SceneMap, serial[s], [View[o] EXCEPT !.chip = {}])
  <2>1. ToSet(<< >>) = {}
    BY DEF ToSet
  <2> QED
    BY <1>1, <1>2, <1>3, <1>5, <2>1, ChipsPut
<1>7. serial[s] \notin DOMAIN RadioMap
  BY <1>1, RadioListed DEF Open
<1>8. RadioMap' = RadioMap
  <2>1. Open' = Open /\ Radio' = Radio
    BY <1>0, <1>1, <1>2, RadioUnchanged DEF Open
  <2> QED
    BY <1>1, <2>1 DEF RadioMap
<1> QED
  BY <1>1, <1>3, <1>4, <1>6, <1>7, <1>8 DEF Abstract!RemoveChip, Abstract!NoReply, NoReply

\* The device goes last.
LEMMA EraseStep ==
  ASSUME RefinementInv, NEW s \in Streams, Erase(s)
  PROVE  serial[s] \in Serials /\ Abstract!Erase(serial[s])
<1> DEFINE o == device[s]
<1>0. pc \in [Streams -> PCs] /\ Typed /\ UniqueSerials /\ Orderly /\ OneAtATime
  BY Parts
<1>1. /\ reply' = NoReply /\ UNCHANGED <<serial, info, models, sniffing, lePhy, classicPhy>>
      /\ pc[s] = "erase" /\ pc' = [pc EXCEPT ![s] = "ended"]
  BY DEF Erase, Goto, chipVars, phyVars
<1>2. Scene' = Scene \ {o} /\ chips[o] = << >>
  BY <1>0, ErasesOwn
<1>3. /\ o \in Scene /\ serial[o] = serial[s] /\ serial[s] \in Serials
      /\ serial[s] \in DOMAIN SceneMap /\ SceneMap[serial[s]] = View[o]
  BY <1>1, HolderListed
<1>4. View[o].chip = {}
  BY <1>2, <1>3, ModelsOf
<1> HIDE DEF o
<1>5. SceneMap' = Abstract!Without(SceneMap, serial[s])
  <2>1. ByKey(Scene \ {o}, serial, View) = Abstract!Without(ByKey(Scene, serial, View), serial[o])
    BY <1>3, SerialsKeyed, ByKeyDrop
  <2>2. View' = View
    BY <1>1, ViewUnchanged
  <2> QED
    BY <1>1, <1>2, <1>3, <2>1, <2>2 DEF SceneMap
<1>6. serial[s] \notin DOMAIN RadioMap
  BY <1>1, RadioListed DEF Open
<1>7. RadioMap' = RadioMap
  <2>1. Open' = Open /\ Radio' = Radio
    BY <1>0, <1>1, RadioUnchanged DEF Open
  <2> QED
    BY <1>1, <2>1 DEF RadioMap
<1> QED
  BY <1>1, <1>3, <1>4, <1>5, <1>6, <1>7 DEF Abstract!Erase, Abstract!NoReply, NoReply

-----------------------------------------------------------------------------
(* The frontend *)

\* Reset shows every device of the map where it was.
LEMMA ResetStep == ASSUME RefinementInv, Reset PROVE Abstract!Reset
<1> DEFINE New(d) == [name |-> d.name, moved |-> FALSE, visible |-> TRUE, chip |-> d.chip]
           D == DOMAIN SceneMap
           f == [k \in D |-> New(SceneMap[k])]
<1>1. /\ reply' = [call |-> "Reset", status |-> "OK"]
      /\ UNCHANGED <<pc, serial, devices, models, sniffing, lePhy, classicPhy>>
      /\ \A o \in Scene : info'[o] = ResetInfo(info[o])
  BY Parts DEF Reset, handlerVars, chipVars, phyVars
<1>2. Scene' = Scene /\ Scene \subseteq Streams /\ Open' = Open
  BY <1>1, Parts DEF Scene, Open
<1>3. ASSUME NEW o \in Scene PROVE View'[o] = New(SceneMap[serial[o]]) /\ serial[o] \in D
  <2>1. SceneMap[serial[o]] = View[o] /\ serial[o] \in D
    BY SerialsKeyed, ByKeyAt, ByKeyDomain DEF SceneMap
  <2> DEFINE no == FALSE
             yes == TRUE
  <2>2. info'[o] = [name |-> info[o].name, moved |-> no, visible |-> yes]
    BY <1>1 DEF ResetInfo
  <2>3. View'[o] = [name |-> info'[o].name, moved |-> info'[o].moved, visible |-> info'[o].visible,
                    chip |-> ToSet(models[o])]
    BY <1>1, <1>2 DEF View
  <2>4. View[o].name = info[o].name /\ View[o].chip = ToSet(models[o])
    BY <1>2 DEF View
  <2>5. New(SceneMap[serial[o]]) = [name |-> info[o].name, moved |-> no, visible |-> yes,
                                    chip |-> ToSet(models[o])]
    BY <2>1, <2>4
  <2> HIDE DEF New, D, yes, no
  <2>6. View'[o] = [name |-> info[o].name, moved |-> no, visible |-> yes, chip |-> ToSet(models[o])]
    BY <2>2, <2>3
  <2> QED
    BY <2>1, <2>5, <2>6
<1>4. D = {serial[o] : o \in Scene}
  BY DEF SceneMap, ByKey
<1>5. f = [k \in D |-> f[k]] /\ \A o \in Scene : f[serial[o]] = View'[o]
  BY <1>3
<1>6. Keyed(Scene, serial)
  BY SerialsKeyed
<1> HIDE DEF f, D
<1>7. f = ByKey(Scene, serial, View')
  BY <1>4, <1>5, <1>6, ByKeyOnly
<1>8. SceneMap' = f
  BY <1>1, <1>2, <1>7 DEF SceneMap
<1>9. RadioMap' = RadioMap
  <2>1. Radio' = Radio
    BY <1>1, RadioUnchanged
  <2> QED
    BY <1>1, <1>2, <2>1 DEF RadioMap
<1> QED
  BY <1>1, <1>8, <1>9 DEF Abstract!Reset, f, D

\* MatchDevice finds the device that is the one target in the map.
LEMMA TargetFound ==
  ASSUME RefinementInv, NEW sn, NEW name, sn # NoText, MatchDevice(sn, name) # None
  PROVE  /\ serial[MatchDevice(sn, name)] \in DOMAIN SceneMap
         /\ Abstract!Found(sn) = {serial[MatchDevice(sn, name)]}
<1> DEFINE o == MatchDevice(sn, name)
<1>1. Matching(sn, name) = {o} /\ o \in Scene
  BY Parts, MatchOne
<1>2. Matching(sn, name) = {q \in Scene : <<sn, serial[q]>> \in Substring}
  BY DEF Matching
<1> HIDE DEF o
<1>3. \A k : k \in DOMAIN SceneMap <=> \E q \in Scene : serial[q] = k
  BY ByKeyDomain DEF SceneMap
<1>4. serial[o] \in Abstract!Found(sn)
  BY <1>1, <1>2, <1>3 DEF Abstract!Found
<1>5. ASSUME NEW k \in Abstract!Found(sn) PROVE k = serial[o]
  <2>1. k \in DOMAIN SceneMap /\ <<sn, k>> \in Substring
    BY DEF Abstract!Found
  <2>2. PICK q \in Scene : serial[q] = k
    BY <1>3, <2>1
  <2> QED
    BY <1>1, <1>2, <2>1, <2>2
<1> QED
  BY <1>1, <1>3, <1>4, <1>5 DEF o

\* When the map has one target MatchDevice finds it.
LEMMA TargetMatched ==
  ASSUME RefinementInv, NEW sn, NEW name,
         NEW k \in DOMAIN SceneMap, Abstract!IsTarget(sn, k)
  PROVE  MatchDevice(sn, name) # None
<1>1. sn # NoText /\ Abstract!Found(sn) = {k}
  BY DEF Abstract!IsTarget
<1>2. \A j : j \in DOMAIN SceneMap <=> \E q \in Scene : serial[q] = j
  BY ByKeyDomain DEF SceneMap
<1>3. PICK o \in Scene : serial[o] = k
  BY <1>2
<1>4. Matching(sn, name) = {q \in Scene : <<sn, serial[q]>> \in Substring}
  BY <1>1 DEF Matching
<1>5. \A q \in Scene : <<sn, serial[q]>> \in Substring <=> serial[q] = k
  BY <1>1, <1>2 DEF Abstract!Found
<1>6. Matching(sn, name) = {o}
  BY <1>3, <1>4, <1>5, SerialsKeyed DEF Keyed
<1>7. Cardinality({o}) = 1
  BY FS_Singleton
<1>8. o # None
  BY Parts, NoneAssumption
<1> HIDE DEF Matching
<1> QED
  BY <1>1, <1>6, <1>7, <1>8 DEF MatchDevice

\* An update is found exactly if the map has one target.
LEMMA FoundOne ==
  ASSUME RefinementInv, NEW request
  PROVE  UpdateFound(request) <=> \E k \in DOMAIN SceneMap : Abstract!IsTarget(request.serial, k)
<1>1. ASSUME UpdateFound(request)
      PROVE  \E k \in DOMAIN SceneMap : Abstract!IsTarget(request.serial, k)
  BY <1>1, TargetFound DEF UpdateFound, Abstract!IsTarget
<1>2. ASSUME NEW k \in DOMAIN SceneMap, Abstract!IsTarget(request.serial, k)
      PROVE  UpdateFound(request)
  BY <1>2, TargetMatched DEF UpdateFound, Abstract!IsTarget
<1> QED
  BY <1>1, <1>2

\* A request about a device that has a chip reaches the chip of its handler.
LEMMA UpdateApplies ==
  ASSUME RefinementInv, NEW request, UpdateScene(request), UpdateFound(request),
         NEW r, request.chip = {r},
         chips[MatchDevice(request.serial, request.name)] # << >>
  PROVE  \E c \in Streams :
           HasChip(c) /\ device[c] = MatchDevice(request.serial, request.name) /\ Applied(c, r)
<1> DEFINE o == MatchDevice(request.serial, request.name)
<1>1. Update(o, request) /\ o \in Scene
  BY Parts, MatchOne DEF UpdateScene, UpdateFound
<1> HIDE DEF o
<1>2. chips[o] # << >>
  BY DEF o
<1>3. PICK c \in Streams : /\ HasChip(c) /\ device[c] = o /\ Head(chips[o]) = c
                           /\ parent[c] = o /\ index[c] = 1 /\ HasModel(c)
  BY <1>1, <1>2, Parts, FirstChip
<1>4. UpdateChip(c, r)
  BY <1>1, <1>2, <1>3 DEF Update
<1>5. Applied(c, r)
  BY <1>3, <1>4 DEF UpdateChip, Applied
<1> QED
  BY <1>3, <1>5 DEF o

\* One about a device without a chip, or not about a chip, leaves models and radios alone.
LEMMA UpdateMisses ==
  ASSUME NEW request, UpdateScene(request),
         \/ ~UpdateFound(request)
         \/ request.chip = {}
         \/ chips[MatchDevice(request.serial, request.name)] = << >>
  PROVE  UNCHANGED <<models, sniffing, lePhy, classicPhy>>
  BY DEF UpdateScene, Update, phyVars

\* A chip has a state for its sniffer and for each radio.
LEMMA ModelStates ==
  ASSUME NEW m \in ChipModel
  PROVE  /\ m = [capture |-> m.capture, le |-> m.le, classic |-> m.classic]
         /\ m.capture \in States /\ m.le \in States /\ m.classic \in States
  BY DEF ChipModel

\* What BluetoothChip::Update makes of a model is what the map says.
LEMMA SwitchedModel ==
  ASSUME NEW m \in ChipModel, NEW r \in ChipRequest
  PROVE  /\ Abstract!Changed(m, {r}) = [capture |-> NewState(m.capture, r.capture),
                                        le |-> NewState(m.le, r.le),
                                        classic |-> NewState(m.classic, r.classic)]
         /\ Abstract!Changed(m, {r}) \in ChipModel
         /\ Abstract!Changed(m, {}) = m
<1>1. (CHOOSE q \in {r} : TRUE) = r
  OBVIOUS
<1>2. Abstract!Changed(m, {r}) = Abstract!Switched(m, r) /\ Abstract!Changed(m, {}) = m
  BY <1>1 DEF Abstract!Changed
<1>3. /\ m.capture \in States /\ m.le \in States /\ m.classic \in States
      /\ r.capture \in States \cup {"UNKNOWN"} /\ r.le \in States \cup {"UNKNOWN"}
      /\ r.classic \in States \cup {"UNKNOWN"}
  BY DEF ChipModel, ChipRequest
<1>4. \A old, new : Abstract!Requested(old, new) = NewState(old, new)
  BY DEF Abstract!Requested, NewState, changedState
<1>5. \A old \in States, new \in States \cup {"UNKNOWN"} : NewState(old, new) \in States
  BY DEF NewState, changedState, States
<1>6. Abstract!Switched(m, r) = [capture |-> NewState(m.capture, r.capture),
                                 le |-> NewState(m.le, r.le),
                                 classic |-> NewState(m.classic, r.classic)]
  BY <1>4 DEF Abstract!Switched
<1>7. Abstract!Switched(m, r) \in ChipModel
  BY <1>3, <1>5, <1>6 DEF ChipModel
<1> QED
  BY <1>2, <1>6, <1>7

\* An update changes the models of the one device as the map says, and no others.
LEMMA UpdateModels ==
  ASSUME RefinementInv, NEW request, UpdateScene(request), UpdateFound(request),
         request.chip = {} \/ \E r \in ChipRequest : request.chip = {r},
         NEW o, o = MatchDevice(request.serial, request.name)
  PROVE  /\ \A q \in Streams : q # o => models'[q] = models[q]
         /\ ToSet(models'[o]) = {Abstract!Changed(c, request.chip) : c \in View[o].chip}
<1>0. /\ o \in Scene /\ o \in Streams /\ models \in [Streams -> Seq(ChipModel)]
      /\ View[o].chip = ToSet(models[o])
  BY Parts, MatchOne DEF UpdateFound, Typed, TypeOK, View
<1>1. CASE chips[o] = << >>
  <2>1. models' = models
    BY <1>1, UpdateMisses
  <2>2. View[o].chip = {}
    BY <1>0, <1>1, ModelsOf
  <2> QED
    BY <1>0, <2>1, <2>2
<1>2. CASE chips[o] # << >> /\ request.chip = {}
  <2>1. models' = models
    BY <1>2, UpdateMisses
  <2>2. View[o].chip = {models[o][1]} /\ models[o][1] \in ChipModel
    BY <1>0, <1>2, ModelsOf
  <2>3. Abstract!Changed(models[o][1], {}) = models[o][1]
    BY DEF Abstract!Changed
  <2> QED
    BY <1>0, <1>2, <2>1, <2>2, <2>3
<1>3. CASE chips[o] # << >> /\ request.chip # {}
  <2>1. PICK r \in ChipRequest : request.chip = {r}
    BY <1>3
  <2>2. PICK c \in Streams : HasChip(c) /\ device[c] = o /\ Applied(c, r)
    BY <1>3, <2>1, UpdateApplies
  <2> DEFINE m == models[o][1]
             new == [capture |-> NewState(m.capture, r.capture),
                     le |-> NewState(m.le, r.le),
                     classic |-> NewState(m.classic, r.classic)]
  <2>3. Len(models[o]) = 1 /\ m \in ChipModel /\ View[o].chip = {m}
    BY <1>0, <1>3, ModelsOf
  <2>4. models' = [models EXCEPT ![o] = [models[o] EXCEPT ![1] = new]]
    BY <2>2 DEF Applied
  <2>5. Abstract!Changed(m, request.chip) = new
    BY <2>1, <2>3, SwitchedModel
  <2> HIDE DEF m, new
  <2>6. ToSet(models'[o]) = {new}
    <3>1. models'[o] = [models[o] EXCEPT ![1] = new]
      BY <1>0, <2>4
    <3>2. DOMAIN models[o] = {1}
      BY <1>0, <2>3
    <3>3. DOMAIN models'[o] = {1} /\ models'[o][1] = new
      BY <3>1, <3>2
    <3> QED
      BY <3>3 DEF ToSet
  <2> QED
    BY <1>0, <2>3, <2>4, <2>5, <2>6
<1> QED
  BY <1>1, <1>2, <1>3

\* The map shows the device as asked.
LEMMA UpdateSceneMap ==
  ASSUME RefinementInv, NEW request, UpdateScene(request), UpdateFound(request),
         request.chip = {} \/ \E r \in ChipRequest : request.chip = {r},
         NEW o, o = MatchDevice(request.serial, request.name)
  PROVE  SceneMap' = Abstract!With(SceneMap, serial[o],
           [name |-> IF request.name = NoText THEN SceneMap[serial[o]].name ELSE request.name,
            moved |-> SceneMap[serial[o]].moved \/ request.moves,
            visible |-> SceneMap[serial[o]].visible,
            chip |-> {Abstract!Changed(c, request.chip) : c \in SceneMap[serial[o]].chip}])
<1>0. o \in Scene /\ o \in Streams /\ Scene \subseteq Streams /\ DOMAIN info = Streams
  BY Parts, MatchOne DEF UpdateFound, Typed, TypeOK
<1>1. UNCHANGED <<serial, devices>> /\ UpdateInfo(o, request)
  BY UpdateInforms DEF UpdateScene
<1>2. Scene' = Scene
  BY <1>1 DEF Scene
<1>3. /\ \A q \in Streams : q # o => models'[q] = models[q] /\ info'[q] = info[q]
      /\ ToSet(models'[o]) = {Abstract!Changed(c, request.chip) : c \in View[o].chip}
  BY <1>0, <1>1, UpdateModels DEF UpdateInfo
<1>4. \A q \in Scene : q # o => View'[q] = View[q]
  BY <1>0, <1>3 DEF View
<1>5. SceneMap' = Abstract!With(SceneMap, serial[o], View'[o])
  BY <1>0, <1>1, <1>2, <1>4, DevicePut
<1>6. SceneMap[serial[o]] = View[o]
  BY <1>0, SerialsKeyed, ByKeyAt DEF SceneMap
<1> DEFINE name == IF request.name = NoText THEN info[o].name ELSE request.name
           moved == info[o].moved \/ request.moves
           chip == {Abstract!Changed(c, request.chip) : c \in View[o].chip}
<1>7. info'[o] = [name |-> name, moved |-> moved, visible |-> info[o].visible]
  BY <1>0, <1>1 DEF UpdateInfo
<1>8. View[o].name = info[o].name /\ View[o].moved = info[o].moved /\ View[o].visible = info[o].visible
  BY <1>0 DEF View
<1>9. /\ name = IF request.name = NoText THEN View[o].name ELSE request.name
      /\ moved = (View[o].moved \/ request.moves)
  BY <1>8
<1>10. View'[o] = [name |-> info'[o].name, moved |-> info'[o].moved, visible |-> info'[o].visible,
                   chip |-> ToSet(models'[o])]
  BY <1>0 DEF View
<1> HIDE DEF name, moved, chip
<1>11. View'[o] = [name |-> name, moved |-> moved, visible |-> View[o].visible, chip |-> chip]
  BY <1>3, <1>7, <1>8, <1>10 DEF chip
<1> QED
  BY <1>5, <1>6, <1>9, <1>11 DEF chip

\* A map keeps its values when one is replaced by itself.
LEMMA WithSame ==
  ASSUME NEW S, NEW key, NEW val, NEW k \in DOMAIN ByKey(S, key, val)
  PROVE  Abstract!With(ByKey(S, key, val), k, ByKey(S, key, val)[k]) = ByKey(S, key, val)
<1> DEFINE g == ByKey(S, key, val)
<1>1. g = [j \in DOMAIN g |-> g[j]]
  BY DEF ByKey
<1> HIDE DEF g
<1>2. k \in DOMAIN g
  BY DEF g
<1>3. Abstract!With(g, k, g[k]) = [j \in DOMAIN g |-> g[j]]
  BY <1>2 DEF Abstract!With
<1> QED
  BY <1>1, <1>3 DEF g

\* An update that reaches a chip switches its radios, and those of no other stream.
LEMMA AppliedElsewhere ==
  ASSUME NEW c \in Streams, NEW r, Applied(c, r)
  PROVE  \A t \in Streams : t # c => Radio'[t] = Radio[t]
<1>1. \A t \in Streams : t # c => /\ t \in sniffing' <=> t \in sniffing
                                  /\ t \in lePhy' <=> t \in lePhy
                                  /\ t \in classicPhy' <=> t \in classicPhy
  BY DEF Applied, Sniffing, UpdatePhy
<1> QED
  BY <1>1 DEF Radio, OnOff

\* They do what the model says, before and after.
LEMMA AppliedHere ==
  ASSUME RefinementInv, NEW c \in Streams, pc[c] = "open", NEW r \in ChipRequest, Applied(c, r),
         UNCHANGED <<pc, device, idToChip>>
  PROVE  Radio'[c] = Abstract!Changed(Radio[c], {r})
<1> DEFINE o == device[c]
           m == models[o][1]
           new == [capture |-> NewState(m.capture, r.capture),
                   le |-> NewState(m.le, r.le),
                   classic |-> NewState(m.classic, r.classic)]
<1>0. Typed /\ Orderly /\ Radios /\ HasChip(c) /\ models \in [Streams -> Seq(ChipModel)]
  BY Parts DEF HasChip, Typed, TypeOK
<1>1. o \in Scene /\ o \in Streams /\ chips[o] # << >>
  <2>1. o \in Scene /\ o \in Streams
    BY HolderListed DEF Holds
  <2>2. chips[o] = <<c>>
    BY <1>0 DEF Orderly, OneChip
  <2> QED
    BY <2>1, <2>2
<1>2. Len(models[o]) = 1 /\ m \in ChipModel
  BY <1>1, ModelsOf
<1>3. Abstract!Changed(m, {r}) = new /\ new \in ChipModel
  BY <1>2, SwitchedModel
<1>4. models'[o][1] = new
  <2>1. models' = [models EXCEPT ![o] = [models[o] EXCEPT ![1] = new]]
    BY DEF Applied
  <2> HIDE DEF m, new
  <2> QED
    BY <1>0, <1>1, <1>2, <2>1
<1>5. Radios'
  BY <1>0, AppliedRadios
<1>6. m.capture = "ON" <=> c \in sniffing
  BY <1>0 DEF Radios
<1>7. m.le = "ON" <=> c \in lePhy
  BY <1>0 DEF Radios
<1>8. m.classic = "ON" <=> c \in classicPhy
  BY <1>0 DEF Radios
<1> HIDE DEF m, new
<1>9. new.capture = "ON" <=> c \in sniffing'
  BY <1>4, <1>5 DEF Radios
<1>10. new.le = "ON" <=> c \in lePhy'
  BY <1>4, <1>5 DEF Radios
<1>11. new.classic = "ON" <=> c \in classicPhy'
  BY <1>4, <1>5 DEF Radios
<1>12. Radio[c] = m
  <2>1. m = [capture |-> m.capture, le |-> m.le, classic |-> m.classic]
        /\ m.capture \in States /\ m.le \in States /\ m.classic \in States
    BY <1>2, ModelStates
  <2>2. OnOff(c \in sniffing) = m.capture
    BY <1>6, <2>1 DEF OnOff, States
  <2>3. OnOff(c \in lePhy) = m.le
    BY <1>7, <2>1 DEF OnOff, States
  <2>4. OnOff(c \in classicPhy) = m.classic
    BY <1>8, <2>1 DEF OnOff, States
  <2>5. Radio[c] = [capture |-> OnOff(c \in sniffing), le |-> OnOff(c \in lePhy),
                    classic |-> OnOff(c \in classicPhy)]
    BY DEF Radio
  <2> QED
    BY <2>1, <2>2, <2>3, <2>4, <2>5
<1>13. Radio'[c] = new
  <2>1. new = [capture |-> new.capture, le |-> new.le, classic |-> new.classic]
        /\ new.capture \in States /\ new.le \in States /\ new.classic \in States
    BY <1>3, ModelStates
  <2>2. OnOff(c \in sniffing') = new.capture
    BY <1>9, <2>1 DEF OnOff, States
  <2>3. OnOff(c \in lePhy') = new.le
    BY <1>10, <2>1 DEF OnOff, States
  <2>4. OnOff(c \in classicPhy') = new.classic
    BY <1>11, <2>1 DEF OnOff, States
  <2>5. Radio'[c] = [capture |-> OnOff(c \in sniffing'), le |-> OnOff(c \in lePhy'),
                    classic |-> OnOff(c \in classicPhy')]
    BY DEF Radio
  <2> QED
    BY <2>1, <2>2, <2>3, <2>4, <2>5
<1> QED
  BY <1>3, <1>12, <1>13

\* The radios of the device, if it is connected, are switched as asked.
LEMMA UpdateRadioMap ==
  ASSUME RefinementInv, NEW request, UpdateScene(request), UpdateFound(request),
         request.chip = {} \/ \E r \in ChipRequest : request.chip = {r},
         NEW o, o = MatchDevice(request.serial, request.name)
  PROVE  RadioMap' = IF serial[o] \in DOMAIN RadioMap
                       THEN Abstract!With(RadioMap, serial[o],
                              Abstract!Changed(RadioMap[serial[o]], request.chip))
                       ELSE RadioMap
<1>0. o \in Scene /\ o \in Streams /\ OneChip /\ Open \subseteq Streams
  BY Parts, MatchOne DEF UpdateFound
<1>1. UNCHANGED <<pc, serial, device, idToChip>>
  BY Parts, UpdateReaches
<1>2. Open' = Open
  BY <1>1 DEF Open
<1>3. ASSUME NEW c \in Open, serial[c] = serial[o]
      PROVE  c \in Streams /\ device[c] = o /\ chips[o] # << >>
  <2>1. c \in Streams /\ pc[c] = "open"
    BY DEF Open
  <2>2. device[c] \in Scene /\ serial[device[c]] = serial[o]
    BY <1>3, <2>1, HolderListed DEF Holds
  <2>3. device[c] = o
    BY <1>0, <2>2, SerialsKeyed DEF Keyed
  <2> QED
    BY <1>0, <2>1, <2>3 DEF OneChip, HasChip
<1>4. serial[o] \in DOMAIN RadioMap <=> \E c \in Open : serial[c] = serial[o]
  BY ByKeyDomain DEF RadioMap
<1>5. CASE chips[o] = << >> \/ request.chip = {}
  <2>1. UNCHANGED <<sniffing, lePhy, classicPhy>>
    BY <1>5, UpdateMisses
  <2>2. RadioMap' = RadioMap
    BY <1>1, <1>2, <2>1, RadioUnchanged DEF RadioMap
  <2>3. ASSUME serial[o] \in DOMAIN RadioMap
        PROVE  Abstract!With(RadioMap, serial[o],
                 Abstract!Changed(RadioMap[serial[o]], request.chip)) = RadioMap
    <3>1. request.chip = {}
      BY <1>3, <1>4, <1>5, <2>3
    <3>2. Abstract!Changed(RadioMap[serial[o]], request.chip) = RadioMap[serial[o]]
      BY <3>1 DEF Abstract!Changed
    <3>3. Abstract!With(RadioMap, serial[o], RadioMap[serial[o]]) = RadioMap
      BY <2>3, WithSame DEF RadioMap
    <3> QED
      BY <3>2, <3>3
  <2> QED
    BY <2>2, <2>3
<1>6. CASE chips[o] # << >> /\ request.chip # {}
  <2>1. PICK r \in ChipRequest : request.chip = {r}
    BY <1>6
  <2>2. PICK c \in Streams : HasChip(c) /\ device[c] = o /\ Applied(c, r)
    BY <1>6, <2>1, UpdateApplies
  <2>3. serial[c] = serial[o] /\ (serial[o] \in DOMAIN RadioMap <=> c \in Open)
    <3>1. serial[c] = serial[o]
      BY <2>2, HolderListed DEF Holds, HasChip
    <3> QED
      BY <2>2, <3>1, RadioListed DEF HasChip
  <2>4. \A t \in Streams : t # c => Radio'[t] = Radio[t]
    BY <2>2, AppliedElsewhere
  <2>5. CASE c \notin Open
    <3>1. RadioMap' = RadioMap
      BY <1>0, <1>1, <1>2, <2>4, <2>5, RadioSame
    <3> QED
      BY <2>3, <2>5, <3>1
  <2>6. CASE c \in Open
    <3>1. pc[c] = "open"
      BY <2>6 DEF Open
    <3>2. Radio'[c] = Abstract!Changed(Radio[c], {r})
      BY <1>1, <2>2, <3>1, AppliedHere
    <3>3. Keyed(Open, serial)
      BY SerialsKeyed
    <3>4. RadioMap[serial[o]] = Radio[c]
      BY <2>3, <2>6, <3>3, ByKeyAt DEF RadioMap
    <3>5. \A t \in Open : t # c => Radio'[t] = Radio[t]
      BY <1>0, <2>4
    <3>6. ByKey(Open, serial, Radio') = Abstract!With(ByKey(Open, serial, Radio), serial[c], Radio'[c])
      BY <2>6, <3>3, <3>5, ByKeyPut
    <3>7. RadioMap' = Abstract!With(RadioMap, serial[o], Radio'[c])
      BY <1>1, <1>2, <2>3, <3>6 DEF RadioMap
    <3> QED
      BY <2>1, <2>3, <2>6, <3>2, <3>4, <3>7
  <2> QED
    BY <2>5, <2>6
<1> QED
  BY <1>5, <1>6

\* UpdateDevice of the scene changes the map as an update of the map does.
LEMMA UpdateStep ==
  ASSUME RefinementInv, NEW request, UpdateScene(request),
         request.chip = {} \/ \E r \in ChipRequest : request.chip = {r}
  PROVE  Abstract!Update(request.serial, request.name, request.moves, request.chip)
<1>1. CASE ~UpdateFound(request)
  <2>1. UNCHANGED <<models, sniffing, lePhy, classicPhy, pc, serial, devices>>
    BY <1>1, UpdateMisses DEF UpdateScene
  <2>2. info' = info
    BY <1>1, UpdateInforms
  <2>3. Scene' = Scene /\ Open' = Open /\ View' = View /\ Radio' = Radio
    BY <2>1, <2>2, ViewUnchanged, RadioUnchanged DEF Scene, Open
  <2>4. SceneMap' = SceneMap /\ RadioMap' = RadioMap
    BY <2>1, <2>3 DEF SceneMap, RadioMap
  <2>5. ~ \E k \in DOMAIN SceneMap : Abstract!IsTarget(request.serial, k)
    BY <1>1, FoundOne
  <2> QED
    BY <2>4, <2>5 DEF Abstract!Update
<1>2. CASE UpdateFound(request)
  <2> DEFINE o == MatchDevice(request.serial, request.name)
  <2>1. \E k \in DOMAIN SceneMap : Abstract!IsTarget(request.serial, k)
    BY <1>2, FoundOne
  <2>2. serial[o] \in Abstract!Found(request.serial)
    BY <1>2, TargetFound DEF UpdateFound
  <2>3. SceneMap' = Abstract!With(SceneMap, serial[o],
          [name |-> IF request.name = NoText THEN SceneMap[serial[o]].name ELSE request.name,
           moved |-> SceneMap[serial[o]].moved \/ request.moves,
           visible |-> SceneMap[serial[o]].visible,
           chip |-> {Abstract!Changed(c, request.chip) : c \in SceneMap[serial[o]].chip}])
    BY <1>2, UpdateSceneMap
  <2>4. RadioMap' = IF serial[o] \in DOMAIN RadioMap
                      THEN Abstract!With(RadioMap, serial[o],
                             Abstract!Changed(RadioMap[serial[o]], request.chip))
                      ELSE RadioMap
    BY <1>2, UpdateRadioMap
  <2> HIDE DEF o
  <2> QED
    BY <2>1, <2>2, <2>3, <2>4 DEF Abstract!Update
<1> QED
  BY <1>1, <1>2

-----------------------------------------------------------------------------
(* The refinement *)

\* At first both maps are empty.
LEMMA InitRefines == ASSUME Init PROVE Abstract!Init
<1>1. Scene = {} /\ Open = {}
  BY DEF Init, Scene, ToSet, Open
<1>2. SceneMap = [sn \in {} |-> {}]
  BY <1>1 DEF SceneMap, ByKey
<1>3. RadioMap = [sn \in {} |-> {}]
  BY <1>1 DEF RadioMap, ByKey
<1> QED
  BY <1>2, <1>3 DEF Init, Abstract!Init, NoReply, Abstract!NoReply

\* Every step of the scene is a step of the map, or is not seen there.
LEMMA NextRefines ==
  ASSUME RefinementInv, Next PROVE Abstract!Next
<1>1. Typed /\ Orderly /\ OneAtATime
  BY Parts
<1>2. ASSUME NEW s \in Streams, Reject(s) \/ TransportReturns(s) \/ Handler(s) PROVE Abstract!Next
  <2>1. /\ Step(s) /\ ~ErasePastEnd(s) /\ ~RemoveChipUnknown(s)
    BY <1>1, <1>2, NoDuplicate, FindsOwn
  <2>2. CASE Reject(s) \/ GetExisting(s) \/ AddChipFree(s)
    BY <2>2, HiddenStep DEF Abstract!Next
  <2>3. CASE CreateNew(s)
    BY <2>3, CreateStep DEF Abstract!Next
  <2>4. CASE AddChipInsert(s)
    BY <2>4, InsertStep DEF Abstract!Next
  <2>5. CASE TransportReturns(s)
    BY <2>5, DisconnectStep DEF Abstract!Next
  <2>6. CASE RemoveChip(s)
    BY <2>6, RemoveStep DEF Abstract!Next
  <2>7. CASE Erase(s)
    BY <2>7, EraseStep DEF Abstract!Next
  <2> QED
    BY <2>1, <2>2, <2>3, <2>4, <2>5, <2>6, <2>7 DEF Step
<1>3. ASSUME NEW s \in Streams, NEW sn \in Serials, NEW id \in ChipIds, Connect(s, sn, id)
      PROVE  Abstract!Next
  BY <1>3, ConnectStep DEF Abstract!Next
<1>4. ASSUME NEW r \in Requests, UpdateDevice(r) PROVE Abstract!Next
  <2>1. UpdateScene(r)
    BY <1>4 DEF UpdateDevice
  <2>2. Abstract!Update(r.serial, r.name, r.moves, r.chip)
    BY <2>1, RequestsAssumption, UpdateStep
  <2>3. UpdateFound(r) <=> \E k \in DOMAIN SceneMap : Abstract!IsTarget(r.serial, k)
    BY FoundOne
  <2>4. Abstract!UpdateDevice(r)
    BY <1>4, <2>2, <2>3 DEF UpdateDevice, Abstract!UpdateDevice
  <2> QED
    BY <2>4 DEF Abstract!Next
<1>5. ASSUME NEW r \in Captures, SetPacketCapture(r) PROVE Abstract!Next
  <2> DEFINE c == [capture |-> r.capture, le |-> "UNKNOWN", classic |-> "UNKNOWN"]
             request == [serial |-> r.serial, name |-> NoText, moves |-> FALSE, chip |-> {c}]
  <2>1. c \in ChipRequest
    BY CapturesAssumption DEF ChipRequest
  <2>2. UpdateScene(request) /\ reply' = [call |-> "SetPacketCapture", request |-> r, status |-> "OK"]
    BY <1>5 DEF SetPacketCapture
  <2>3. /\ request.serial = r.serial /\ request.name = NoText /\ request.chip = {c}
    OBVIOUS
  <2>4. request.moves = FALSE
    OBVIOUS
  <2>5. Abstract!Update(r.serial, NoText, FALSE, {c})
    <3> HIDE DEF request, c
    <3>1. Abstract!Update(request.serial, request.name, request.moves, request.chip)
      BY <2>1, <2>2, <2>3, UpdateStep
    <3> QED
      BY <2>3, <2>4, <3>1
  <2>6. Abstract!SetPacketCapture(r)
    BY <2>2, <2>5 DEF Abstract!SetPacketCapture
  <2> QED
    BY <2>6 DEF Abstract!Next
<1>6. ASSUME Reset PROVE Abstract!Next
  BY <1>6, ResetStep DEF Abstract!Next
<1> QED
  BY <1>2, <1>3, <1>4, <1>5, <1>6 DEF Next

\* Streams that come and go one at a time, none meeting an older one of its serial, leave a
\* scene that is a map of devices: each appears, gets its chip, loses it and disappears, in this
\* order and by one step each, and a request changes the one device it means, models and radios
\* together, whatever streams, serials, substrings and requests there are. (SceneController,
\* Device, BluetoothChip)
THEOREM Refinement == ASSUME NoOverlap, MaxBusy = 1 PROVE Spec => ImplementsDeviceMap
<1>1. Init => Abstract!Init
  BY InitRefines
<1>2. RefinementInv /\ [Next]_vars => [Abstract!Next]_(Abstract!vars)
  <2> SUFFICES ASSUME RefinementInv, [Next]_vars PROVE [Abstract!Next]_(Abstract!vars)
    OBVIOUS
  <2>1. CASE Next
    BY <2>1, NextRefines
  <2>2. CASE UNCHANGED vars
    <3>1. UNCHANGED <<pc, serial, devices, info, models, sniffing, lePhy, classicPhy, reply>>
      BY <2>2 DEF vars, handlerVars, sceneVars, chipVars, phyVars
    <3>2. Scene' = Scene /\ Open' = Open /\ View' = View /\ Radio' = Radio
      BY <3>1, ViewUnchanged, RadioUnchanged DEF Scene, Open
    <3> QED
      BY <3>1, <3>2 DEF Abstract!vars, SceneMap, RadioMap
  <2> QED
    BY <2>1, <2>2
<1>3. Spec => []RefinementInv
  BY RefinementInvariant
<1> QED
  BY <1>1, <1>2, <1>3, PTL DEF Spec, ImplementsDeviceMap, Abstract!Spec

=============================================================================
