SPECIFICATION Spec
CONSTANTS
    e1 = e1
    e2 = e2
    Source = {"s04"}
    HwBit = {}
    Event = {e1}
    Cpu = {c1}
    Injector = {}
    Client = {u1}
    Group = {}
    Null = Null
INVARIANTS
    WakeupNotLost
