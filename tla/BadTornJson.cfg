SPECIFICATION FairSpec
CONSTANTS
    Books = {1, 2, 3}
    Terms = {"seal", "sea", "island"}
    TermsOf <- TermsOf3
    CutWordsOf <- CutWords3
    Modes = {"online"}
    ListOf <- OneList
    Available <- AllBooks
    Splittable = {1, 2, 3}
    Structures = {"monolithic"}
    Layouts = {"book"}
    FoldersOf <- OneFolder
    ConfigChanges = FALSE
    StepCounts = {4}
    MaxFaults = 1
    ShortWritesMayVanish = FALSE
    None = None
PROPERTY ReachableBooksGetIndexed
