SPECIFICATION Spec
CONSTANTS
    Targets = {a, b, c}
    Devices = {d1, d2}
    NoDevice = NoDevice
    Generic = Generic
    Requests = {r1, r2}
    Batches <- OneSiteBatches
    MaxLog = 2
    r1 = r1
    r2 = r2
    a = a
    b = b
    c = c
    d1 = d1
    d2 = d2
INVARIANTS
    LogTellsRow
