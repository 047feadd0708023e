SPECIFICATION FairSpec
CONSTANTS
    t1 = t1
    t2 = t2
    d1 = d1
    p1 = p1
    r1 = r1
    r2 = r2
    TransferThread = {t1}
    DirectThread = {d1}
    Process = {p1}
    ProcessOf <- OneProcess
    Record = {r1, r2}
    Cpu = {c1, c2}
    TokenMax = 2
    HandleMax = 1
    DirectMax = 2
    Null = Null
CONSTRAINT
    Unexcused
PROPERTY
    CompletionDelivered
