\* The spec bounds the receive polling by a retry budget; the code's
\* "while received < num_messages" never ends once one message is dropped.
CONSTANTS
    NumMessages = 6
    SndHwm = 4
    RcvHwm = 2
SPECIFICATION FairSpec
PROPERTY Terminates
