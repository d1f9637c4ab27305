CONSTANTS
  Flows = {"other", "lookup"}
  Upstreams = {"proxy"}
  Up <- UpInstance
  Kind <- KindInstance
  HasUdp = {"proxy"}
  V6 = {"other"}
  ShortIdle = TRUE
  MaxSent = 2
SPECIFICATION FairSpec
INVARIANTS AnswersInOrder NothingClippedSilently
PROPERTIES DnsResolves FlowsEnd
CHECK_DEADLOCK FALSE
