CONSTANTS
    Ids = {e1}
    Actors = {a1, a2}
    NoActor = noActor
    OwnTemplates = {"own.md"}
    Kinds = {"match", "binary"}
    Limits = {2}
    MaxEvents = 2
    LimitEntries = 2
    MaxLines = 3
    MaxRequests = 3
SYMMETRY MCSymmetry
SPECIFICATION Spec
INVARIANTS EvidenceAsTold AuditComplete TemplatesAsTold
CHECK_DEADLOCK FALSE
