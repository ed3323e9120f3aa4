CONSTANTS
    Clients = {alice, bob}
    Procs = {p1, p2}
    Ops = {"attest", "allocate", "revoke", "suspend", "set"}
    MaxIndex = 1
    NoJob = NoJob
SPECIFICATION AttestSpec
SYMMETRY Symmetry
INVARIANTS AttestTypeOK SlotUsedOnce TokensRevocable RevocationReachesAll
PROPERTIES OwnTokensOnly
