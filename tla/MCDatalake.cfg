SPECIFICATION FairSpec
CONSTANTS
    Books = {1, 2}
    Texts = {"first", "second"}
    Languages = {"cpp", "java"}
    Layouts = {"range", "time"}
    RangeSize = 2
    Hours = {10, 11, 12}
    MaxFaults = 2
    Absent = Absent
    Torn = Torn
    None = None
INVARIANTS TypeOK SavedBooksStayWhole PairsComeFromOneSave RecoveryDuplicatesNothing
    LocatedBooksAreWhole
PROPERTIES EveryBodyIsSavedInTheEnd
