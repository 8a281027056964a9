SPECIFICATION Spec
CONSTANTS
    Books = {1, 2}
    Terms = {"sea", "whale"}
    TermsOf <- TermsOf1
    Settings <- JavaCollection
    Queries = {{"sea", "whale"}}
    MaxFaults = 0
    None = None
INVARIANT SearchIsAnAnd
