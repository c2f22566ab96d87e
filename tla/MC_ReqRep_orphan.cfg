\* The spec's stop kills a process that outlives the grace period;
\* MonocoqueServer.stop lets wait(timeout=5) raise and leaves it running.
CONSTANTS
    Tokens <- MCTokens
    Scenarios <- MCScenarios
    EchoPrefix = "Echo: "
    NoMsg = NoMsg
    MayCrash = FALSE
SPECIFICATION FairSpec
INVARIANT NoOrphanServer
