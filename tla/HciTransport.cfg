\* One stream, all interleavings of its two threads, rootcanal and the peer.
SPECIFICATION FairSpec
CONSTANTS
  MaxSent = 3
  MaxInbox = 2
CHECK_DEADLOCK FALSE
INVARIANTS TypeOK CloseReported GapFree
PROPERTIES StreamEnds Delivered
