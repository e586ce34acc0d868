SPECIFICATION Spec
CONSTANTS
    RotationInterval = 1
    KeyOverlap = 4
    TokenTtl = 2
    None = None
    MaxTime = 5
    MaxKeys = 4
    MaxBoots = 1
INVARIANT
    SignedByItsKid
