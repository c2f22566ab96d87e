\* Spec section 8: the subscriber observes exactly the matching published
\* messages.  The fixed sleeps do not make it so.
CONSTANTS
    Tokens <- MCTokens
    Scenarios <- MCScenarios
    MayCrash = FALSE
SPECIFICATION Spec
INVARIANT CompleteDelivery
