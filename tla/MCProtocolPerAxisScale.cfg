SPECIFICATION Spec
CONSTANTS
    SeedBits = 3
    MantissaBits = 2
    MaxChanges = 1
INVARIANT
    PerAxisScaleIsRejected
