SPECIFICATION Spec
SYMMETRY MCSymmetry
CONSTANTS
    Devices <- MCDevices
    Targets <- MCDevices
    DeviceOf <- MCDeviceOf
    Vantage = mon
    Networks <- MCNetworks
    Restrictable = {x}
    MaxFailed = 2
    mon = mon
    x = x
    y = y
    z = z
INVARIANTS
    TypeOK
    RootsFailed
    RootsExplain
    TreeOutages
    SingleFailureOneIncident
    EveryOutageReported
