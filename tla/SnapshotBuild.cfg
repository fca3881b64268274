CONSTANTS
    Builder = {lz4, plain}
    lz4 = lz4
    plain = plain
    Hash = {h1}
    h1 = h1
    HashOf <- MCHashOf
    None = none
    MaxAttempts = 2
SPECIFICATION Spec
INVARIANTS
    PublishedVerifies
    EndsPublished
PROPERTIES
    KeepsItsPlace
CHECK_DEADLOCK FALSE
