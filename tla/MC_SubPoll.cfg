\* The SUB test against a publisher that may crash or subscribe late: the
\* receive loop never holds more than its five messages.  The first recv() has no
\* timeout and blocks for ever once the publisher is gone, so deadlock is
\* not checked.
CONSTANTS
    MaxPub = 7
    MayCrash = TRUE
SPECIFICATION Spec
INVARIANT TypeOK
CHECK_DEADLOCK FALSE
