SPECIFICATION FairSpec
CONSTANTS
    Books = {1, 2, 3}
    Terms = {"sea", "whale"}
    TermsOf <- TermsOf3
    BookIds <- ListWithRepetition
    Sources = {"online", "offline"}
    Available <- AllBooks
    Splittable = {1, 2}
    RangeSize = 2
    Hours = {10, 11}
    Servers = {TRUE, FALSE}
    StepCounts = {1, 2}
    MaxFaults = 2
    None = None
INVARIANTS TypeOK MarkedBooksAreInEveryDatalake EveryIndexedBookStaysServed
PROPERTIES StructuresKeepTheirPromise ReachableBooksGetIndexed
