CONSTANTS
    Clients = {alice}
    Procs = {p1, p2}
    Ops = {"attest", "revoke"}
    MaxIndex = 1
    NoJob = NoJob
SPECIFICATION AttestSpec
SYMMETRY Symmetry
INVARIANTS RevokedMeansRevoked
