SPECIFICATION FairSpec
CONSTANTS
    Locals = {l1}
    Remotes = {r1}
    Viewers = {v1}
    NoClient = NoClient
    Faults = {"resize", "dup"}
INVARIANTS NoControlLeak DriverPolls
PROPERTIES KeepsContract ExitNoticed ConnectionsClosed
