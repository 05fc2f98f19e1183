SPECIFICATION Spec
CONSTANTS
    Boxes <- MCBoxes
    Values <- MCValues
    NoBox = NoBox
    NoValue = NoValue
    NoDevice = NoDevice
    Runs = {r1}
    MaxSeen = 1
    GenericNames <- MCGeneric
    Polls <- MCPolls
    Frames <- MCFrames
    DeviceIds = {d1, d2, d3}
    r1 = r1
    r2 = r2
    d1 = d1
    d2 = d2
    d3 = d3
    mesh1 = mesh1
    mesh2 = mesh2
    router = router
    nMesh = nMesh
    nRouter = nRouter
    nGeneric = nGeneric
    m1 = m1
    m2 = m2
    m3 = m3
    m4 = m4
INVARIANTS
    OneChassisPerDevice
