SPECIFICATION StatusSpec
CONSTANTS
    Books = {1, 2, 3}
    Terms = {"seal", "sea", "island"}
    TermsOf <- TermsOf3
    CutWordsOf <- CutWords3
    Modes = {"online"}
    ListOf <- OneList
    Available <- AllBooks
    Splittable = {1, 2, 3}
    Structures = {"monolithic", "hierarchical", "mongo"}
    Layouts = {"book", "time"}
    FoldersOf <- HourFolders
    ConfigChanges = FALSE
    StepCounts = {1, 4}
    MaxFaults = 2
    ShortWritesMayVanish = FALSE
    None = None
INVARIANTS TypeOK MarkedBooksHaveBodies StoredPostingsAreTrue
    DamageIsRepairedFirst
PROPERTIES IndexedOnlyWhenServed BooksInOrderOnceEach PendingBooksWait
