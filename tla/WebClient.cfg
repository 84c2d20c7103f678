SPECIFICATION FairClientSpec
CONSTANTS
    Clients = {c1}
    NoClient = NoClient
    RetryLimit = 1
    MaxConns = 2
    MaxKeys = 2
    MaxOutages = 1
    MaxChunks = 2
    MaxDrops = 1
INVARIANTS BridgeWhole KeysInOrder FramesInOrder
PROPERTIES DisposedStaysBlank LiveOutputResumes
CHECK_DEADLOCK FALSE
