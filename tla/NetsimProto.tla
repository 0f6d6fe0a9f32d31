---------------------------- MODULE NetsimProto ----------------------------
(***************************************************************************)
(* The fields of netsim's messages, as the generated Rust code reads and   *)
(* writes them: number, name, kind and, where it has one, the type of the  *)
(* message or the values of the enum.  "messages" and "strings" are        *)
(* repeated fields.  The cases of a oneof share a slot.                    *)
(***************************************************************************)
EXTENDS Integers, Sequences

Field(num, name, kind) ==
    [num |-> num, name |-> name, slot |-> name, kind |-> kind, of |-> {}]

Nested(num, name, kind, of) == [Field(num, name, kind) EXCEPT !.of = of]

OneofCase(num, slot, name, kind, of) ==
    [Nested(num, name, kind, of) EXCEPT !.slot = slot]

-----------------------------------------------------------------------------
(***************************************************************************)
(* model.proto                                                             *)
(***************************************************************************)
UNKNOWN == 0
ON == 1
OFF == 2

State == {UNKNOWN, ON, OFF}

\* NONE, BLUETOOTH_CLASSIC, BLUETOOTH_LOW_ENERGY, WIFI, UWB, WIFI_RTT
PhyKind == 0..5

Position == <<Field(1, "x", "float"), Field(2, "y", "float"), Field(3, "z", "float")>>

Orientation ==
    <<Field(1, "yaw", "float"), Field(2, "pitch", "float"), Field(3, "roll", "float")>>

Chip_Radio ==
    <<Nested(1, "state", "enum", State), Field(2, "range", "float"),
      Field(3, "tx_count", "int32"), Field(4, "rx_count", "int32")>>

Chip_Bluetooth ==
    <<Nested(1, "low_energy", "message", "Chip_Radio"),
      Nested(2, "classic", "message", "Chip_Radio")>>

Chip_oneof_chip ==
    <<OneofCase(5, "chip", "bt", "message", "Chip_Bluetooth"),
      OneofCase(6, "chip", "uwb", "message", "Chip_Radio"),
      OneofCase(7, "chip", "wifi", "message", "Chip_Radio")>>

Chip ==
    <<Field(1, "chip_id", "string"), Field(2, "manufacturer", "string"),
      Field(3, "model", "string"), Nested(4, "capture", "enum", State)>>
    \o Chip_oneof_chip

Device ==
    <<Field(1, "device_serial", "string"), Field(2, "name", "string"),
      Field(3, "visible", "bool"), Nested(4, "position", "message", "Position"),
      Nested(5, "orientation", "message", "Orientation"),
      Nested(6, "chips", "messages", "Chip")>>

Scene == <<Nested(1, "devices", "messages", "Device")>>

-----------------------------------------------------------------------------
(***************************************************************************)
(* frontend.proto                                                          *)
(***************************************************************************)
VersionResponse == <<Field(1, "version", "string")>>

SetLinkLossRequest ==
    <<Field(1, "device_serial", "string"), Field(2, "other_device", "string"),
      Nested(3, "radio", "enum", PhyKind), Field(4, "link_loss", "float")>>

UpdateDeviceRequest == <<Nested(2, "device", "message", "Device")>>

Updates == <<Nested(1, "devices", "messages", "Device")>>

GetDevicesResponse == <<Nested(1, "devices", "messages", "Device")>>

NetCatStream == <<Field(1, "result", "strings")>>

SetPacketCaptureRequest ==
    <<Field(1, "capture", "bool"), Field(2, "device_serial", "string")>>

-----------------------------------------------------------------------------
(***************************************************************************)
(* startup.proto, hci_packet.proto, packet_streamer.proto                  *)
(***************************************************************************)
\* UNSPECIFIED, BLUETOOTH, WIFI, UWB
Chip_ChipKind == 0..3

\* HCI_PACKET_UNSPECIFIED, COMMAND, ACL, SCO, EVENT, ISO
HCIPacket_PacketType == 0..5

StartupInfo == <<Nested(1, "devices", "messages", "StartupInfo_Device")>>

StartupInfo_Device ==
    <<Field(1, "serial", "string"), Nested(2, "chips", "messages", "startup_Chip")>>

ChipInfo ==
    <<Field(1, "serial", "string"), Nested(2, "chip", "message", "startup_Chip")>>

startup_Chip ==
    <<Nested(1, "kind", "enum", Chip_ChipKind), Field(2, "id", "string"),
      Field(3, "manufacturer", "string"), Field(4, "model", "string"),
      Field(5, "fd_in", "int32"), Field(6, "fd_out", "int32"),
      Field(7, "loopback", "bool")>>

HCIPacket ==
    <<Nested(1, "field_type", "enum", HCIPacket_PacketType), Field(2, "packet", "bytes")>>

StreamPacketsRequest ==
    <<OneofCase(1, "request_type", "initial_info", "message", "ChipInfo"),
      OneofCase(2, "request_type", "hci_packet", "message", "HCIPacket"),
      OneofCase(3, "request_type", "packet", "bytes", {})>>

StreamPacketsResponse ==
    <<OneofCase(1, "response_type", "error", "string", {}),
      OneofCase(2, "response_type", "hci_packet", "message", "HCIPacket"),
      OneofCase(3, "response_type", "packet", "bytes", {})>>

-----------------------------------------------------------------------------
Fields ==
    [Position |-> Position, Orientation |-> Orientation, Chip |-> Chip,
     Chip_Radio |-> Chip_Radio, Chip_Bluetooth |-> Chip_Bluetooth,
     Device |-> Device, Scene |-> Scene, VersionResponse |-> VersionResponse,
     SetLinkLossRequest |-> SetLinkLossRequest,
     UpdateDeviceRequest |-> UpdateDeviceRequest, Updates |-> Updates,
     GetDevicesResponse |-> GetDevicesResponse, NetCatStream |-> NetCatStream,
     SetPacketCaptureRequest |-> SetPacketCaptureRequest,
     StartupInfo |-> StartupInfo, StartupInfo_Device |-> StartupInfo_Device,
     ChipInfo |-> ChipInfo, startup_Chip |-> startup_Chip, HCIPacket |-> HCIPacket,
     StreamPacketsRequest |-> StreamPacketsRequest,
     StreamPacketsResponse |-> StreamPacketsResponse]

=============================================================================
