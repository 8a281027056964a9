SPECIFICATION Spec
CONSTANTS
    NL = "nl"
    CR = "cr"
    Blank = "blank"
    Controls = {"control"}
    Separators = {"sep"}
    NoBreaks = {"nobreak"}
    Wides = {"wide"}
    LineSeparators = {"line"}
    Bracket = "["
    Hash = "#"
    StartMarkers = {"StartThe", "StartThis"}
    EndMarkers = {"EndThe", "EndThis"}
    Labels = {"Title:", "Date:"}
    Dated = {"Date:"}
    TokenChars = {"a", "b"}
    Capitals = {"A"}
    LowerOf <- Lower
    StopwordLines <- Stops
    Texts <- SomeTexts
    Languages = {"cpp", "java", "python"}
    None = None
INVARIANTS NoBookIsCutShort LanguagesAgree FieldsComeFromTheirLine TermsAreTheWords
CHECK_DEADLOCK FALSE
