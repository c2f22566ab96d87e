\* Typing and cleanup of the PUB -> Monocoque SUB tests, with a subscriber
\* that may also die on its own and a communicate() that may time out.
CONSTANTS
    Tokens <- MCTokens
    Scenarios <- MCScenarios
    MayCrash = TRUE
SPECIFICATION Spec
INVARIANT TypeOK
INVARIANT NoOrphanSubscriber
