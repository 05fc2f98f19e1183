SPECIFICATION Spec
CONSTANTS
    Ports = {e1, e2}
    Indexes = {1, 2}
    Names <- MCNames
    NameOf <- MCNameOf
    DescrOf <- MCDescrOf
    NoPort = NoPort
    Devices <- MCDevices
    Switch = sw
    Cards <- MCCards
    Holder <- MCHolder
    Chassis <- MCChassis
    PortOf <- MCPortOf
    NoIf = NoIf
    NoCard = NoCard
    Pollable = {host}
    Audible = {ap}
    MaxLeafMacs = 2
    sw = sw
    ap = ap
    host = host
    cSw = cSw
    cAp = cAp
    cHost = cHost
    e1 = e1
    e2 = e2
    d1 = d1
INVARIANTS
    TypeOK
    OneActivePerIndex
    RowsBearOwnAddress
PROPERTIES
    RightPort
CONSTRAINT Bounded
