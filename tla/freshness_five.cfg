SPECIFICATION Spec
CONSTANTS
    Interval = 10
    Jitter = 1
    Limit = 8
    Window = 60
    Mine = 2
    Tolerated = 5
INVARIANTS
    SurvivesFailures
