SPECIFICATION Spec
CONSTANTS
    l1 = l1
    l2 = l2
    x1 = x1
    x2 = x2
    Locked = {l1, l2}
    Unlocked = {u1}
    MaskBit = {"dma", "err"}
    ErrBit = {x1, x2}
    Persistent = Persistent
    Null = Null
SYMMETRY Symmetry
CONSTRAINT Bounded
INVARIANTS
    MaskSerialised
    MaskCoherent
    ErrorsKept
