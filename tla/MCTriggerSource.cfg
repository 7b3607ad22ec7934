\* Two keys, so that the pending set of one overflows.
CONSTANTS
    Keys = {k1, k2}
    Capacity = 1
    Callers = {"policy"}
SPECIFICATION FairSpec
INVARIANTS
    TypeOK
    NoTriggerLost
    IngressAwake
    IntentServed
PROPERTIES
    TriggersDelivered
    ImplementsDelivery
