SPECIFICATION FairSpec
CONSTANTS
    e1 = e1
    e2 = e2
    Source = {"hw"}
    HwBit = {"h1"}
    Event = {e1}
    Cpu = {c1}
    Injector = {i1}
    Client = {}
    Group = {}
    Null = Null
INVARIANTS
    PendingServed
    HwBitTracked
PROPERTY
    AcceptedIsDispatched
