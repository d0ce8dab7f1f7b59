SPECIFICATION Spec
CONSTANTS
    a = a
    b = b
    c = c
    d = d
    other = other
    Categories <- MCCategories
    manifest <- MCManifest
    Answers <- MCAnswers
    StaleDirs <- MCStaleDirs
    MaxAssetsPerCategory = 4
    MaxAssetsTotal = 5
INVARIANT
    RecordedRunReplays
