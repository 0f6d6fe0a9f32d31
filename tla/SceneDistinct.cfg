\* Streams of different serials come and go at any time; a device reconnects when its old stream has ended.
SPECIFICATION Spec
CONSTANTS
  Streams = {s1, s2, s3}
  Serials = {"emu1", "emu10"}
  NoText = NoText
  ChipIds = {NoText}
  Substring <- MCSubstring
  Requests <- RadioRequests
  Captures <- CaptureRequests
  None = None
  Overlap = "none"
  MaxBusy = 3
CHECK_DEADLOCK FALSE
INVARIANTS ChipStateApplied 
PROPERTY OneDeviceUpdated
