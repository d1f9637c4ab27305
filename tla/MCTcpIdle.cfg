\* A flow whose idle timeout expires.
CONSTANTS
  MaxData = 1
  MaxReplies = 0
  Window = 1
  RemoteBuf = 1
SPECIFICATION SpecIdle
PROPERTY IdleFlowEnds
CHECK_DEADLOCK FALSE
