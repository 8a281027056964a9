SPECIFICATION Spec
CONSTANTS
    Ids <- FourIds
    MaxDigits = 3
    MaxTears = 2
    Loaders = {"cpp", "java", "python"}
INVARIANTS TypeOK FewMarksAreInvented FewMarksAreLost
