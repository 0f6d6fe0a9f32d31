\* Streams come and go one at a time, with any updates in between.
SPECIFICATION Spec
CONSTANTS
  Streams = {s1, s2, s3}
  Serials = {"emu1", "emu10"}
  NoText = NoText
  ChipIds = {NoText}
  Substring <- MCSubstring
  Requests <- OrderlyRequests
  Captures <- Nothing
  None = None
  Overlap = "none"
  MaxBusy = 1
SYMMETRY StreamSymmetry
CHECK_DEADLOCK FALSE
INVARIANTS TypeOK ConnectedListed NothingLeft
 
