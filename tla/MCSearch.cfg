SPECIFICATION Spec
CONSTANTS
    Books = {1, 2}
    Terms = {"sea", "whale"}
    TermsOf <- TermsOf2
    Settings <- AllSettings
    Queries = {{"sea"}, {"sea", "whale"}}
    MaxFaults = 1
    None = None
INVARIANTS TypeOK AnswersAreTrue IndexedBooksAreFound AnswersAreTheIntersection
