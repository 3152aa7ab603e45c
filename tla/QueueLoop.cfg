SPECIFICATION Spec
CONSTANTS
    Payload = {p1, p2}
    None = None
    NonceSpace = 8
    MaxSent = 4
INVARIANTS
    IndInv
    DrainIsPopLoop
    FirstArrivalWins
