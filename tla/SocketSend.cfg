CONSTANTS
    s1 = s1
    s2 = s2
    Null = Null
    Senders <- TwoSenders
    Owner <- Owners
    Size <- Sizes
    Capacity = 5
    KernelSpace = 2
SPECIFICATION FairSpec
INVARIANTS
    BufferServed
PROPERTIES
    StreamSpec
    Flows
CHECK_DEADLOCK FALSE
