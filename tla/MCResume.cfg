SPECIFICATION FairSpec
CONSTANTS
    Books = {1, 2, 3}
    Terms = {"seal", "sea", "island"}
    TermsOf <- TermsOf3
    CutWordsOf <- CutWords3
    Modes = {"online", "offline"}
    ListOf <- TwoOrders
    Available <- AllBooks
    Splittable = {1, 2}
    Structures = {"monolithic", "hierarchical", "mongo"}
    Layouts = {"book"}
    FoldersOf <- OneFolder
    ConfigChanges = TRUE
    StepCounts = {1, 3}
    MaxFaults = 2
    ShortWritesMayVanish = TRUE
    None = None
PROPERTY OnlyATornJsonFileStopsTheRuns
