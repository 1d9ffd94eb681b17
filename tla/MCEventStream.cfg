CONSTANTS
    Consumers = {c1, c2, c3}
    MaxEvents = 4
SPECIFICATION FairSpec
INVARIANTS
    ExactlyOnce
    NoSleepOnFullQueue
PROPERTIES
    ImplementsContract
    LoopsServed
