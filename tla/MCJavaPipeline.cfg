SPECIFICATION FairSpec
CONSTANTS
    Books = {1, 2, 3}
    Terms = {"sea", "whale"}
    TermsOf <- TermsOf3
    Sources = {"online", "offline"}
    ListOf <- ListsOf3
    Available <- AllBooks
    Splittable = {1, 2}
    Structures = {"monolithic", "hierarchical"}
    Layouts = {"range", "time"}
    RangeSize = 2
    Hours = {10, 11}
    ConfigChanges = TRUE
    StepCounts = {1, 3}
    MaxFaults = 2
    None = None
INVARIANTS TypeOK RowsNameCompleteCopies EveryIndexedBookStaysServed
PROPERTIES NothingIsRepeated StructuresKeepTheirPromise
    ReachableBooksGetIndexed
