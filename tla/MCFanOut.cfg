SPECIFICATION FairFanSpec
CONSTANT Apps = {a1, a2, a3}
INVARIANTS
  FanTypeOK
  NoSendAfterClose
  SendNeverBlocks
  OkMeansEveryoneCounted
PROPERTIES
  EveryCallWindsDown
  ErrorsAreNotHeldUp
  ImplementsGather
