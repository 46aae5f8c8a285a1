SPECIFICATION Spec
CONSTANTS
    Bodies <- MCBodies
    Names = {"host"}
    Ports = {1, 2}
    MaxLaunchRecords = 2
    MaxLaunches = 3
    MaxChanges = 4
CHECK_DEADLOCK FALSE
INVARIANTS ConfigLasts RecordsAreHistory
