SPECIFICATION Spec
CONSTANTS
    IP = {ip1, ip2}
    Limit = 1
    Burst = 1
    Window = 1
    MaxTime = 4
    MaxCount = 4
    None = None
INVARIANT TypeOK
INVARIANT NoLockout
INVARIANT TwoBudgets
PROPERTY ImplementsBudget
