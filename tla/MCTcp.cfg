\* The buffers to the peer and to the remote hold one piece; more than that is
\* sent each way.  The remote takes what it is sent.
CONSTANTS
  MaxData = 2
  MaxReplies = 2
  Window = 1
  RemoteBuf = 1
SPECIFICATION Spec
INVARIANT OneFin
PROPERTIES
  EofReachesRelay
  WriterResumes
  DropEnds
CHECK_DEADLOCK FALSE
