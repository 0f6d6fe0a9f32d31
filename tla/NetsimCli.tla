----------------------------- MODULE NetsimCli -----------------------------
(***************************************************************************)
(* The command line tool (rust/netsim-cli), from the command to the screen:*)
(* the request bytes, the gRPC client, the frontend server, the response   *)
(* bytes and what is printed.  Requests and responses are the bytes the    *)
(* generated message code writes (module Protobuf).  Meanwhile other       *)
(* frontends change the scene and radios count packets.                    *)
(***************************************************************************)
EXTENDS Protobuf

CONSTANTS
    Serials,     \* the serials of the scene's devices, in order
    Commands,    \* the commands that are given
    Counts,      \* how many packets a radio sends between two looks at its count
    MaxChanges   \* bound on the changes of the scene

VARIABLES
    daemon,     \* whether netsimd is running
    scene,      \* its devices, as message objects
    changes,    \* changes of the scene so far
    pc,         \* where the tool is
    cmd,        \* the command it runs
    stub,       \* whether NewFrontendClient got a stub
    response,   \* the bytes of the answer
    served,     \* the scene that was answered with
    screen,     \* what was printed
    outcome     \* how the tool ended

cli == <<pc, cmd, stub, response, served, screen, outcome>>
vars == <<daemon, scene, changes, cli>>

-----------------------------------------------------------------------------
(***************************************************************************)
(* Commands and their requests: args.rs, requests.rs                       *)
(***************************************************************************)
\* A move command without z.
NoZ == <<>>

Float == [1..4 -> 0..255]

\* What clap parses: the x, y and z of a move are floats, z is optional.
Command ==
    [kind : {"Version", "Devices", "Reset", "Gui"}]
    \cup [kind : {"Radio"}, bt_type : {"Ble", "Classic"}, status : {"Up", "Down"},
          serial : Seq(0..127)]
    \cup [kind : {"Move"}, serial : Seq(0..127), x : Float, y : Float, z : Float \cup {NoZ}]
    \cup [kind : {"Capture"}, state : {"True", "False"}, serial : Seq(0..127)]

ASSUME MaxChanges \in Nat /\ Counts \subseteq Nat /\ Commands \subseteq Command

\* Requests that change the scene.
Changing == {c \in Commands : c.kind \in {"Radio", "Move", "Capture", "Reset"}}

grpc_method(c) ==
    CASE c.kind = "Version"            -> "GetVersion"
      [] c.kind \in {"Radio", "Move"}  -> "UpdateDevice"
      [] c.kind = "Devices"            -> "GetDevices"
      [] c.kind = "Capture"            -> "SetPacketCapture"
      [] c.kind = "Reset"              -> "Reset"

\* The field of a name.
Name(m, name) == CHOOSE f \in ToSet(Fields[m.type]) : f.name = name

Set(m, name, v) == SetField(m, Name(m, name), v)

Get(m, name) == GetField(m, Name(m, name))

RadioDevice(c) ==
    LET radio == Set(New("Chip_Radio"), "state", IF c.status = "Up" THEN ON ELSE OFF)
        bt == Set(New("Chip_Bluetooth"),
                  IF c.bt_type = "Ble" THEN "low_energy" ELSE "classic", radio)
        chip == Set(New("Chip"), "bt", bt)
    IN  Set(Set(New("Device"), "device_serial", c.serial), "chips", <<chip>>)

MoveDevice(c) ==
    LET position == Set(Set(Set(New("Position"), "x", c.x), "y", c.y),
                        "z", IF c.z = NoZ THEN Zero ELSE c.z)
    IN  Set(Set(New("Device"), "device_serial", c.serial), "position", position)

get_request_bytes(c) ==
    CASE c.kind = "Radio" ->
            WriteToBytes(Set(New("UpdateDeviceRequest"), "device", RadioDevice(c)))
      [] c.kind = "Move" ->
            WriteToBytes(Set(New("UpdateDeviceRequest"), "device", MoveDevice(c)))
      [] c.kind = "Capture" ->
            WriteToBytes(Set(Set(New("SetPacketCaptureRequest"),
                                 "device_serial", c.serial), "capture", c.state = "True"))
      [] OTHER -> <<>>

-----------------------------------------------------------------------------
(***************************************************************************)
(* The daemon: frontend_server.cc and what it changes of the scene         *)
(***************************************************************************)
changedState(a, b) == b # UNKNOWN /\ a # b

UpdateRadio(bt, radio, request) ==
    LET new == Get(Get(request, radio), "state")
        old == Get(bt, radio)
    IN  Set(bt, radio, IF changedState(Get(old, "state"), new)
                       THEN Set(old, "state", new) ELSE old)

\* BluetoothChip::Update
UpdateChip(chip, request) ==
    LET capture == IF changedState(Get(chip, "capture"), Get(request, "capture"))
                   THEN Set(chip, "capture", Get(request, "capture")) ELSE chip
        bt == UpdateRadio(UpdateRadio(Get(chip, "bt"), "low_energy", Get(request, "bt")),
                          "classic", Get(request, "bt"))
    IN  Set(capture, "bt", bt)

\* Mutated form: a position at the origin is taken for none.
UpdateIfNotDefault(device, request) ==
    IF Get(request, "position") = New("Position") THEN device
    ELSE Set(device, "position", Get(request, "position"))

\* Device::Update; the chips of the scene are Bluetooth chips without an id.
Update(device, request) ==
    LET moved == IF request.val.position = <<>> THEN device
                 ELSE Set(device, "position", Get(request, "position"))
        KeyComp(chip) == HasCase(chip, Name(chip, "bt")) /\ Get(chip, "chip_id") = <<>>
    IN  [moved EXCEPT !.val.chips =
            [i \in DOMAIN @ |->
                FoldLeft(LAMBDA chip, r : IF i = 1 /\ KeyComp(r) THEN UpdateChip(chip, r) ELSE chip,
                         @[i], request.val.chips)]]

\* std::string::find
Occurs(part, s) == \E i \in 0..(Len(s) - Len(part)) : SubSeq(s, i + 1, i + Len(part)) = part

\* SceneController::UpdateDevice; MatchDevice wants exactly one device whose
\* serial has the given one in it.
UpdateDevice(request) ==
    LET serial == Get(request, "device_serial")
        found == {i \in DOMAIN scene : Occurs(serial, Get(scene[i], "device_serial"))}
    IN  IF serial # <<>> /\ \E i \in DOMAIN scene : found = {i}
        THEN [i \in DOMAIN scene |-> IF i \in found THEN Update(scene[i], request) ELSE scene[i]]
        ELSE scene

\* FrontendServer::SetPacketCapture
CaptureDevice(request) ==
    LET chip == Set(Set(New("Chip"), "capture", IF Get(request, "capture") THEN ON ELSE OFF),
                    "bt", New("Chip_Bluetooth"))
    IN  Set(Set(New("Device"), "device_serial", Get(request, "device_serial")), "chips", <<chip>>)

ResetDevice(device) ==
    Set(Set(Set(device, "visible", TRUE), "position", New("Position")),
        "orientation", New("Orientation"))

\* The scene after a request.
Handle(method, bytes) ==
    CASE method = "UpdateDevice" ->
            UpdateDevice(Get(ParseFromBytes("UpdateDeviceRequest", bytes)[1], "device"))
      [] method = "SetPacketCapture" ->
            UpdateDevice(CaptureDevice(ParseFromBytes("SetPacketCaptureRequest", bytes)[1]))
      [] method = "Reset" -> [i \in DOMAIN scene |-> ResetDevice(scene[i])]
      [] OTHER -> scene

\* The answer to a request: the version, or all devices.
Answer(method) ==
    IF method = "GetVersion"
    THEN WriteToBytes(Set(New("VersionResponse"), "version", <<49>>))
    ELSE WriteToBytes(Set(New("GetDevicesResponse"), "devices", scene))

\* A device as GetOrCreate and AddChip leave it: no position, both radios on.
NewDevice(serial) ==
    LET on == Set(New("Chip_Radio"), "state", ON)
        bt == Set(Set(New("Chip_Bluetooth"), "low_energy", on), "classic", on)
        chip == Set(Set(New("Chip"), "capture", OFF), "bt", bt)
    IN  Set(Set(New("Device"), "device_serial", serial), "chips", <<chip>>)

-----------------------------------------------------------------------------
Init ==
    /\ daemon \in BOOLEAN
    /\ scene = [i \in DOMAIN Serials |-> NewDevice(Serials[i])]
    /\ changes = 0
    /\ pc = "idle"
    /\ cmd = [kind |-> "Version"]
    /\ stub = FALSE
    /\ response = <<>>
    /\ served = <<>>
    /\ screen = <<>>
    /\ outcome = "none"

\* The daemon handles a request with the bytes get_request_bytes makes of c.
HandleRequest(c) ==
    /\ daemon
    /\ changes < MaxChanges
    /\ scene' = Handle(grpc_method(c), get_request_bytes(c))
    /\ changes' = changes + 1
    /\ UNCHANGED <<daemon, cli>>

\* IncrTx: a radio has sent n packets since.
CountPackets(i, radio, n) ==
    /\ daemon
    /\ changes < MaxChanges
    /\ scene' = [scene EXCEPT ![i].val.chips[1] =
            LET bt == Get(@, "bt")
                counted == Set(Get(bt, radio), "tx_count", Get(Get(bt, radio), "tx_count") + n)
            IN  Set(@, "bt", Set(bt, radio, counted))]
    /\ changes' = changes + 1
    /\ UNCHANGED <<daemon, cli>>

DaemonEnds ==
    /\ daemon
    /\ daemon' = FALSE
    /\ UNCHANGED <<scene, changes, cli>>

-----------------------------------------------------------------------------
(***************************************************************************)
(* rust_main                                                               *)
(***************************************************************************)
End(how) == pc' = "idle" /\ outcome' = how

\* The command is parsed; the request and the client are made.
Start(c) ==
    /\ pc = "idle"
    /\ c.kind # "Gui"
    /\ cmd' = c
    /\ stub' = daemon
    /\ pc' = "send"
    /\ outcome' = "none"
    /\ screen' = <<>>
    /\ response' = <<>>
    /\ served' = <<>>
    /\ UNCHANGED <<daemon, scene, changes>>

\* browser::open: the first of the handlers that works, or the address printed.
Gui(works) ==
    /\ pc = "idle"
    /\ cmd' = [kind |-> "Gui"]
    /\ screen' = <<>>
    /\ End(IF \E i \in 1..3 : works[i] THEN "opened" ELSE "address")
    /\ UNCHANGED <<daemon, scene, changes, stub, response, served>>

\* send_grpc: a method it does not know panics; without a stub the call
\* dereferences a null pointer.
SendGrpc ==
    /\ pc = "send"
    /\ IF grpc_method(cmd) \in {"GetVersion", "GetDevices"} /\ stub
       THEN pc' = "wait" /\ UNCHANGED outcome
       ELSE End("aborted")
    /\ UNCHANGED <<daemon, scene, changes, cmd, stub, response, served, screen>>

Serve ==
    /\ pc = "wait"
    /\ daemon
    /\ response' = Answer(grpc_method(cmd))
    /\ served' = scene
    /\ pc' = "answered"
    /\ UNCHANGED <<daemon, scene, changes, cmd, stub, screen, outcome>>

\* The call fails because the daemon is gone; its message is printed.
CallFails ==
    /\ pc = "wait"
    /\ ~daemon
    /\ End("error")
    /\ UNCHANGED <<daemon, scene, changes, cmd, stub, response, served, screen>>

bt_state_to_string(state) ==
    CASE state = ON -> "up" [] state = OFF -> "down" [] OTHER -> "unknown"

\* Mutated form: the radios are printed in the wrong order.
print_chip_swapped(chip) ==
    IF HasCase(chip, Name(chip, "bt"))
    THEN <<bt_state_to_string(Get(Get(Get(chip, "bt"), "classic"), "state")),
           bt_state_to_string(Get(Get(Get(chip, "bt"), "low_energy"), "state"))>>
    ELSE <<"Unknown">>

print_chip(chip) ==
    IF HasCase(chip, Name(chip, "bt"))
    THEN <<bt_state_to_string(Get(Get(Get(chip, "bt"), "low_energy"), "state")),
           bt_state_to_string(Get(Get(Get(chip, "bt"), "classic"), "state"))>>
    ELSE <<"Unknown">>

print_device(device) ==
    [serial |-> Get(device, "device_serial"),
     chips |-> [i \in DOMAIN Get(device, "chips") |-> print_chip(Get(device, "chips")[i])],
     position |-> LET pos == Get(device, "position")
                  IN  <<Get(pos, "x"), Get(pos, "y"), Get(pos, "z")>>]

\* ByteStr() makes a Rust String of the bytes, which ends the process unless they
\* are UTF-8; print_response then parses them, which must succeed.
PrintResponse ==
    LET parsed == ParseFromBytes(IF cmd.kind = "Version" THEN "VersionResponse"
                                 ELSE "GetDevicesResponse", response)
        devices == IF cmd.kind = "Version" THEN <<>> ELSE Get(parsed[1], "devices")
    IN  /\ pc = "answered"
        /\ IF IsUtf8(response) /\ parsed # Failed
           THEN /\ screen' = [i \in DOMAIN devices |-> print_device(devices[i])]
                /\ End("printed")
           ELSE End("aborted") /\ UNCHANGED screen
        /\ UNCHANGED <<daemon, scene, changes, cmd, stub, response, served>>

Next ==
    \/ \E c \in Commands : Start(c)
    \/ \E works \in [1..3 -> BOOLEAN] : Gui(works)
    \/ SendGrpc \/ Serve \/ CallFails \/ PrintResponse
    \/ \E c \in Changing : HandleRequest(c)
    \/ \E i \in DOMAIN scene, radio \in {"low_energy", "classic"}, n \in Counts :
            CountPackets(i, radio, n)
    \/ DaemonEnds

Spec == Init /\ [][Next]_vars

-----------------------------------------------------------------------------
\* What a command asks for.
Intended(c, device) ==
    CASE c.kind = "Reset" -> ResetDevice(device)
      [] device.val.device_serial # c.serial -> device
      [] c.kind = "Move" ->
            [device EXCEPT !.val.position = <<[New("Position") EXCEPT !.val =
                [x |-> c.x, y |-> c.y, z |-> IF c.z = NoZ THEN Zero ELSE c.z]]>>]
      [] c.kind = "Capture" ->
            [device EXCEPT !.val.chips[1].val.capture = IF c.state = "True" THEN ON ELSE OFF]
      [] c.kind = "Radio" /\ c.bt_type = "Ble" ->
            [device EXCEPT !.val.chips[1].val.chip[1].bt.val.low_energy[1].val.state =
                IF c.status = "Up" THEN ON ELSE OFF]
      [] c.kind = "Radio" /\ c.bt_type = "Classic" ->
            [device EXCEPT !.val.chips[1].val.chip[1].bt.val.classic[1].val.state =
                IF c.status = "Up" THEN ON ELSE OFF]

\* The request bytes of a command make the daemon do what the command asks for
\* and nothing else, although values at their default are not in the bytes:
\* "move 0 0" must still reach the daemon as a position, and a radio command must
\* leave the other radio, the capture state and the position alone.
HandledAsMeant ==
    [][\A c \in Changing : HandleRequest(c) =>
            scene' = [i \in DOMAIN scene |-> Intended(c, scene[i])]]_vars

\* What "netsim devices" prints is the scene the daemon answered with: every
\* device in order, with the states of its radios and its position, values at
\* their default included.
PrintedIsServed ==
    cmd.kind = "Devices" /\ outcome = "printed" =>
        /\ Len(screen) = Len(served)
        /\ \A i \in DOMAIN served :
              LET bt == served[i].val.chips[1].val.chip[1].bt.val
                  Word(radio) == IF radio[1].val.state = ON THEN "up" ELSE "down"
                  at == served[i].val.position
              IN  /\ screen[i].serial = served[i].val.device_serial
                  /\ screen[i].chips = <<<<Word(bt.low_energy), Word(bt.classic)>>>>
                  /\ screen[i].position = IF at = <<>> THEN <<Zero, Zero, Zero>>
                                          ELSE <<at[1].val.x, at[1].val.y, at[1].val.z>>

\* "Display device(s) information": with the daemon there, the command prints.
DevicesShown ==
    cmd.kind = "Devices" /\ stub /\ daemon => outcome # "aborted"

=============================================================================
