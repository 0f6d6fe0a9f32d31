\* A device reconnects between the removal of its old chip and the erasure of its device.
SPECIFICATION Spec
CONSTANTS
  Streams = {s1, s2}
  Serials = {"emu1"}
  NoText = NoText
  ChipIds = {NoText}
  Substring <- MCSubstring
  Requests <- Nothing
  Captures <- Nothing
  None = None
  Overlap = "removed"
  MaxBusy = 2
CHECK_DEADLOCK FALSE
INVARIANT ConnectedListed
