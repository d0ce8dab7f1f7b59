SPECIFICATION Spec
CONSTANTS
    SeedBits = 3
    MantissaBits = 2
    MaxChanges = 2
INVARIANTS
    StructsAreStrict
    SentIsUnderstood
