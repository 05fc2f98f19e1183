SPECIFICATION Spec
CONSTANTS
    Devices = {1, 2}
    Interfaces <- MCPorts
    Owner <- MCOwner
    NoIf = NoIf
    Sources <- MCSources
    SourceBase <- MCSourceBase
    AgreementBonus = 15
    AutoCeiling = 95
    Window = 2
    Cables <- OneCable
    Faces <- OwnFaces
    Movable <- SwitchSights
    Detailed = {2}
    Portless = {1}
    Learners = {}
    p1 = p1
    p2 = p2
    p3 = p3
    q1 = q1
INVARIANTS
    ObservationsLand
