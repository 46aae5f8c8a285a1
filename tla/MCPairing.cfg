SPECIFICATION Spec
CONSTANTS
    Pairings = {p1, p2}
    Devices = {d1, d2}
    HostUi = HostUi
    Ttl = 1
    MaxTime = 3
    MaxFaults = 2
SYMMETRY PairingSymmetry
INVARIANTS TrustLasts NothingTrustedUntold OneDeviceEach
PROPERTIES VerdictIsFinal
