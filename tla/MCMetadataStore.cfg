SPECIFICATION Spec
CONSTANTS
    Connections = {1, 2}
    Books = {1, 2}
    Values = {"a", "b"}
    None = None
    RefusedRows <- Refused
    Mixes <- Pairs
INVARIANTS TypeOK TableIsWhatReturned AnswersAreOneSnapshot
PROPERTIES BatchesAreAllOrNothing
