\* The spec promises a ReceiveTimeout; with a server that dies after taking
\* a request, the test's socket.recv() blocks forever.
CONSTANTS
    Tokens <- MCTokens
    Scenarios <- MCScenarios
    EchoPrefix = "Echo: "
    NoMsg = NoMsg
    MayCrash = TRUE
SPECIFICATION FairSpec
PROPERTY Terminates
CHECK_DEADLOCK FALSE
