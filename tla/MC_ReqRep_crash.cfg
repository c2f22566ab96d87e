\* Against a server that may start late or die at any point: the
\* strengthened invariant of the TLAPS proof (which contains Lockstep and
\* NoFalseMismatch) holds on every reachable state.  The test may hang, so
\* deadlock is not checked.
CONSTANTS
    Tokens <- MCTokens
    Scenarios <- MCScenarios
    EchoPrefix = "Echo: "
    NoMsg = NoMsg
    MayCrash = TRUE
SPECIFICATION Spec
INVARIANT IInv
CHECK_DEADLOCK FALSE
