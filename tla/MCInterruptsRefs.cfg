SPECIFICATION Spec
CONSTANTS
    e1 = e1
    e2 = e2
    Source = {}
    HwBit = {}
    Event = {e1, e2}
    Cpu = {}
    Injector = {}
    Client = {u1, u2}
    Group = {2, 3}
    Null = Null
SYMMETRY EventSymmetry
INVARIANT
    ReferencesBalanced
