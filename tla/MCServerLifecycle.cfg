SPECIFICATION Spec
CONSTANT Bridges = {b1}
CHECK_DEADLOCK FALSE
INVARIANTS OneJoiner QuietInTheEnd OneUse
PROPERTY StopCompletes
