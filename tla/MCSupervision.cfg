SPECIFICATION Spec
CONSTANTS
    Chunks <- MCChunks
    Windows <- MCWindows
    GitPollInterval = 1
    FilePollInterval = 0
    MaxReads = 1
    MaxEvents = 3
    MaxFrames = 1
CHECK_DEADLOCK FALSE

PROPERTIES Converges ChangesNoticed
