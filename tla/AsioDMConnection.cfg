SPECIFICATION ConnectionSpec
CONSTANTS
    Byte = {x}
    MaxPayload = 2
    MaxMessages = 3
PROPERTIES
    IsNameQueue
    EveryPingAnswered
\* the pipe may close, and the connection be destroyed
CHECK_DEADLOCK FALSE
