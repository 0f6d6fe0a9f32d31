------------------------------ MODULE DeviceMap ------------------------------
(***************************************************************************)
(* What the scene of a netsim daemon promises those who look at it: a map  *)
(* from serials to devices, in which every operation is one step, and the  *)
(* radios of the connected devices, which do what the map says.  Streams,  *)
(* lists, indices and locks are not visible here.                          *)
(***************************************************************************)
CONSTANTS
  Serials,     \* device serials
  NoText,      \* the empty string
  Substring,   \* pairs <<p, t>>: text p occurs in text t
  Requests,    \* what UpdateDevice may be asked
  Captures     \* what SetPacketCapture may be asked

VARIABLES
  scene,       \* what GetDevices shows: a device for each serial that is there
  radio,       \* what radios and sniffer of each connected serial do
  reply        \* the frontend request answered by the last step

vars == <<scene, radio, reply>>

NoReply == [call |-> "none"]

Init ==
  /\ scene = [sn \in {} |-> {}]
  /\ radio = [sn \in {} |-> {}]
  /\ reply = NoReply

\* A function with value v at x, one of its arguments or one more, and one without x.
With(f, x, v) == [y \in DOMAIN f \cup {x} |-> IF y = x THEN v ELSE f[y]]
Without(f, x) == [y \in DOMAIN f \ {x} |-> f[y]]

-----------------------------------------------------------------------------
(* Packet streams *)

NewDevice == [name |-> NoText, moved |-> FALSE, visible |-> FALSE, chip |-> {}]
NewChip == [capture |-> "OFF", le |-> "ON", classic |-> "ON"]

\* A device appears, still without a chip.
Create(sn) ==
  /\ sn \notin DOMAIN scene
  /\ scene' = With(scene, sn, NewDevice)
  /\ reply' = NoReply
  /\ UNCHANGED radio

\* It gets its chip, whose radios are on.
Connect(sn) ==
  /\ sn \in DOMAIN scene \ DOMAIN radio
  /\ scene[sn].chip = {}
  /\ scene' = With(scene, sn, [scene[sn] EXCEPT !.chip = {NewChip}])
  /\ radio' = With(radio, sn, NewChip)
  /\ reply' = NoReply

\* The stream is gone, and its radios with it.
Disconnect(sn) ==
  /\ sn \in DOMAIN radio
  /\ radio' = Without(radio, sn)
  /\ reply' = NoReply
  /\ UNCHANGED scene

\* Then the chip goes, and last the device.
RemoveChip(sn) ==
  /\ sn \in DOMAIN scene \ DOMAIN radio
  /\ scene[sn].chip # {}
  /\ scene' = With(scene, sn, [scene[sn] EXCEPT !.chip = {}])
  /\ reply' = NoReply
  /\ UNCHANGED radio

Erase(sn) ==
  /\ sn \in DOMAIN scene \ DOMAIN radio
  /\ scene[sn].chip = {}
  /\ scene' = Without(scene, sn)
  /\ reply' = NoReply
  /\ UNCHANGED radio

\* What a stream does that nobody sees.
Hidden == reply' = NoReply /\ UNCHANGED <<scene, radio>>

-----------------------------------------------------------------------------
(* The frontend *)

\* The one device whose serial contains the given one.
Found(sn) == {t \in DOMAIN scene : <<sn, t>> \in Substring}
IsTarget(sn, t) == sn # NoText /\ Found(sn) = {t}

Requested(old, new) == IF new = "UNKNOWN" THEN old ELSE new

Switched(chip, r) ==
  [capture |-> Requested(chip.capture, r.capture),
   le |-> Requested(chip.le, r.le),
   classic |-> Requested(chip.classic, r.classic)]

\* The states of a chip after a request about none or one.
Changed(chip, asked) == IF asked = {} THEN chip ELSE Switched(chip, CHOOSE r \in asked : TRUE)

\* The map and, of a connected device, the radios change together.
Update(sn, name, moves, asked) ==
  IF \E t \in DOMAIN scene : IsTarget(sn, t)
    THEN \E t \in Found(sn) :
           /\ scene' = With(scene, t,
                        [name |-> IF name = NoText THEN scene[t].name ELSE name,
                         moved |-> scene[t].moved \/ moves,
                         visible |-> scene[t].visible,
                         chip |-> {Changed(c, asked) : c \in scene[t].chip}])
           /\ radio' = IF t \in DOMAIN radio
                         THEN With(radio, t, Changed(radio[t], asked)) ELSE radio
    ELSE UNCHANGED <<scene, radio>>

UpdateDevice(request) ==
  /\ Update(request.serial, request.name, request.moves, request.chip)
  /\ reply' = [call |-> "UpdateDevice", request |-> request,
               status |-> IF \E t \in DOMAIN scene : IsTarget(request.serial, t)
                            THEN "OK" ELSE "NOT_FOUND"]

SetPacketCapture(request) ==
  /\ Update(request.serial, NoText, FALSE,
            {[capture |-> request.capture, le |-> "UNKNOWN", classic |-> "UNKNOWN"]})
  /\ reply' = [call |-> "SetPacketCapture", request |-> request, status |-> "OK"]

Reset ==
  /\ scene' = [t \in DOMAIN scene |-> [name |-> scene[t].name, moved |-> FALSE, visible |-> TRUE,
                                       chip |-> scene[t].chip]]
  /\ reply' = [call |-> "Reset", status |-> "OK"]
  /\ UNCHANGED radio

-----------------------------------------------------------------------------
Next ==
  \/ \E sn \in Serials :
       Create(sn) \/ Connect(sn) \/ Disconnect(sn) \/ RemoveChip(sn) \/ Erase(sn)
  \/ Hidden
  \/ \E r \in Requests : UpdateDevice(r)
  \/ \E r \in Captures : SetPacketCapture(r)
  \/ Reset

Spec == Init /\ [][Next]_vars
=============================================================================
