SPECIFICATION FairSpec
CONSTANTS
    Sessions = {s1, s2}
    Clients = {remote, local, viewer}
    Privileged = {remote, local}
    NoClient = NoClient
    NoRecord = NoRecord
    StoreCanFail = FALSE
    TerminateCanFail = TRUE
INVARIANTS ControllerOK OwnershipOK CrashSafe ShutdownOK
PROPERTIES TerminalIsFinal ImplementsContract ExitNoticed
