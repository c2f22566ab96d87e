\* Counters and queue bounds of the bulk PUB/SUB benchmark, with num_messages
\* equal to the two high-water marks together, so that the loop can finish.
CONSTANTS
    NumMessages = 6
    SndHwm = 4
    RcvHwm = 2
SPECIFICATION FairSpec
INVARIANT TypeOK
