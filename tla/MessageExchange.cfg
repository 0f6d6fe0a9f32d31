SPECIFICATION Spec
CONSTANTS
    Types = {"Position", "Chip_Radio", "Chip", "Device", "UpdateDeviceRequest", "SetLinkLossRequest", "NetCatStream", "SetPacketCaptureRequest", "VersionResponse", "Scene", "ChipInfo", "StartupInfo", "startup_Chip", "HCIPacket", "StreamPacketsRequest", "StreamPacketsResponse", "Chip_Bluetooth", "Orientation", "Updates", "GetDevicesResponse", "StartupInfo_Device"}
    MaxCalls = 2
    MaxMerges = 2
CHECK_DEADLOCK FALSE
INVARIANTS
    RoundTrip
    RelayLossless
PROPERTIES
    SizeExact
    MergeOverrides
