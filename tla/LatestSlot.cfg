\* Mailbox: the rotation of three slots comes round more than once.
SPECIFICATION Spec
CONSTANTS
    EpochMod = 8
    Closers = {"producer", "stop"}
    MaxOffers = 5
    Null = Null
INVARIANTS Rotation Conservation
PROPERTIES ImplementsHandOff NewestGetsThrough CloseEndsConsumer
\* The threads may all be done: everything published, taken and closed.
CHECK_DEADLOCK FALSE
