CONSTANTS
    Sizes = {1, 2}
    MaxOthers = 1
SPECIFICATION ClientSpec
INVARIANTS NoSilentControl
PROPERTIES AttachEnds SizeFollows
CHECK_DEADLOCK FALSE
