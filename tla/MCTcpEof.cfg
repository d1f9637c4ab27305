\* A peer that sends data and its FIN at once.
CONSTANTS
  MaxData = 1
  MaxReplies = 0
  Window = 1
  RemoteBuf = 1
SPECIFICATION Spec
INVARIANT EofIsLast
CHECK_DEADLOCK FALSE
