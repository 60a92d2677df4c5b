\* One connection, with a pipelining peer or a Python client.
SPECIFICATION FairSpec
CONSTANTS
  Cids = {1, 2, 3}
  PeerFrames <- SomeFrames
  MaxFrames = 3
  ReqCap = 1
  RespCap = 1
  SockCap = 1
  MaxCalls = 3
  CallKinds = {"request", "bulky", "fatal"}
  MaxCancels = 1
INVARIANTS
  TypeOK
  ConnectedFirst
  AnsweredOnce
  TeardownReachesTasks
  OwnAnswer
PROPERTIES
  ConnectionEnds
  CallsReturn
CHECK_DEADLOCK FALSE
