SPECIFICATION Spec
CONSTANTS
    Targets = {t1, t2}
    NoValue = NoValue
    Traffic = {1}
    Ages = {1}
    StoppedAt = 2
    MaxTime = 3
    MaxSamples = 2
SYMMETRY Permuted
CONSTRAINT Unfinished
INVARIANTS
    TypeOK
    RatesReal
    RatesAnswered
