SPECIFICATION Spec
CONSTANTS
    u1 = u1
    u2 = u2
    p1 = p1
    a1 = a1
    a2 = a2
    Users = {u1, u2}
    Pools = {p1}
    Assets = {a1, a2}
    Indexes = {0, 1}
    Blobs <- MCBlobs
    LapsedValues <- MCLapsedValues
    Undecodable = Undecodable
    None = None
    MaxChanges = 3
SYMMETRY Symmetry
INVARIANTS
    TypeOK
    DirtyComplete
    LostLegDiagnosed
    OnlyRemovalPurges
    LapsesLoseNoRows
    NoMisattribution
