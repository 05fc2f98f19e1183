SPECIFICATION FairSpec
CONSTANTS
    Devices = {1, 2}
    Interfaces <- MCPorts
    Owner <- MCOwner
    NoIf = NoIf
    Sources <- MCSources
    SourceBase <- MCSourceBase
    AgreementBonus = 20
    AutoCeiling = 95
    Window = 1
    Cables <- WithLoop
    Faces <- MCFaces
    Movable <- SwitchSights
    Detailed = {2}
    Portless = {1}
    Learners = {2}
    p1 = p1
    p2 = p2
    p3 = p3
    q1 = q1
INVARIANTS
    TypeOK
    EndpointsOnOwnSide
    OneRowPerPair
    RefusedOnlyInDoubt
PROPERTIES
    SuppressibleOnFreshAgreement
    HistoryKept
    UnseenOnlyAges
    UnseenRetracted
