SPECIFICATION Spec
CONSTANTS
    Books = {1, 2, 3}
    Terms = {"seal", "sea", "island"}
    TermsOf <- TermsOf3
    CutWordsOf <- CutWords3
    Modes = {"online"}
    ListOf <- OneList
    Available <- AllBooks
    Splittable = {1, 2, 3}
    Structures = {"hierarchical", "mongo"}
    Layouts = {"book"}
    FoldersOf <- OneFolder
    ConfigChanges = TRUE
    StepCounts = {2}
    MaxFaults = 0
    ShortWritesMayVanish = FALSE
    None = None
INVARIANT ChosenIndexHoldsEveryIndexedBook
