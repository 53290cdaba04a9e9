\* Two slots, indices wrap after four elements, epochs after six; pushes that
\* block and pushes that give up.
SPECIFICATION Spec
CONSTANTS
    Policies = {"block", "drop_newest"}
    Capacity = 2
    IndexMod = 4
    EpochMod = 6
    Closers = {"producer", "stop"}
    MaxOffers = 4
    Null = Null
INVARIANTS FifoDelivery SlotExclusion DrainedAtEnd
PROPERTIES ImplementsHandOff CloseEndsConsumer PushReturns
\* The threads may all be done: everything pushed, popped and closed.
CHECK_DEADLOCK FALSE
