------------------------------- MODULE MCPairing ------------------------------
EXTENDS Pairing, TLC

PairingSymmetry == Permutations(Pairings) \cup Permutations(Devices)
===============================================================================
