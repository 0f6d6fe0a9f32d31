\* Streams connect, reconnect and end at any time.
SPECIFICATION Spec
CONSTANTS
  Streams = {s1, s2, s3}
  Serials = {"emu1", "emu10"}
  NoText = NoText
  ChipIds = {NoText, other}
  Substring <- MCSubstring
  Requests <- ChipOffRequests
  Captures <- Nothing
  None = None
  Overlap = "any"
  MaxBusy = 3
CHECK_DEADLOCK FALSE
INVARIANT UniqueSerials
