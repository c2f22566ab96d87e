\* A NOBLOCK recv that finds the SUB queue empty fails the test with
\* zmq.Again, although the publisher is still publishing.
CONSTANTS
    MaxPub = 7
    MayCrash = FALSE
SPECIFICATION Spec
INVARIANT NoAgainFailure
CHECK_DEADLOCK FALSE
