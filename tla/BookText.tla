------------------------------ MODULE BookText ------------------------------
(***************************************************************************)
(* The text of one book, from its source to the fields and the terms: the  *)
(* fetch (CurlHttpClient, LocalFileSource, and those of Java and Python),  *)
(* split_book, extract_metadata and tokenize.                              *)
(*                                                                         *)
(* A text is a sequence of symbols.  A START or END marker is one symbol,  *)
(* and so is the label of a field ("Title:"): a marker cut in two is any   *)
(* other symbol.  In a body they separate words like other punctuation:    *)
(* the words in them are left out.                                         *)
(*                                                                         *)
(* What arrives may be a part of the text only, and nobody notices: an     *)
(* answer without a length that ends early, a local file that is a broken  *)
(* copy or fails to be read to its end (its stream is not asked).          *)
(***************************************************************************)
EXTENDS Integers, Sequences, FiniteSets

CONSTANTS
    NL, CR, Blank, Bracket,    \* "\n", "\r", one of " \t\f\v", "["
    Controls, Separators,      \* the rest up to U+001B; U+001C to U+001F
    NoBreaks, Wides,           \* U+00A0 and its like; U+3000, U+2003, ...
    LineSeparators,            \* U+0085, U+2028, U+2029
    StartMarkers, EndMarkers,  \* each in its THE and its THIS form
    Labels,                    \* "Title:", "Release date:", ...
    Dated,                     \* the labels whose value ends before a "["
    TokenChars,                \* a-z and 0-9
    Capitals, LowerOf,         \* A-Z, and the lower case of each
    Hash,                      \* "#", a comment of the stopwords file
    StopwordLines,             \* that file
    Texts,                     \* what the source may have
    Languages,
    None

\* What is blank to all three programs, and what is blank to some of them.
Blanks == {NL, CR, Blank}
OddBlanks == Controls \cup Separators \cup NoBreaks \cup Wides \cup LineSeparators

Symbols ==
    Blanks \cup OddBlanks \cup {Bracket, Hash} \cup StartMarkers \cup EndMarkers \cup Labels \cup TokenChars \cup Capitals

ASSUME BookTextAssumption ==
    /\ NL # CR /\ {NL, CR} \cap (StartMarkers \cup EndMarkers) = {}
    /\ TokenChars \cap Capitals = {} /\ LowerOf \in [Capitals -> TokenChars]
    /\ (Blanks \cup OddBlanks) \cap (TokenChars \cup Capitals \cup Labels) = {}
    /\ StopwordLines \in Seq(Seq(Symbols))
    /\ \A i \in DOMAIN StopwordLines :
          LET line == StopwordLines[i]
          IN  (line # <<>> /\ line[1] = Hash) \/ line \in Seq(Symbols \ (OddBlanks \cup Capitals))
    /\ Texts \subseteq Seq(Symbols)
    /\ Dated \subseteq Labels
    /\ Languages \subseteq {"cpp", "java", "python"}
    /\ None \notin Seq(Symbols) \cup [header : Seq(Symbols), body : Seq(Symbols)]

VARIABLES
    lang,      \* which program works on the book
    source,    \* "online" or "offline"
    text,      \* what the source has
    received,  \* what arrived of it
    place,     \* how far the book is
    book,      \* its header and body, or None
    fields,    \* the metadata of its header
    pos,       \* the tokenizer's place in the body
    current,   \* the token it is building
    terms      \* the tokens it has closed

vars == <<lang, source, text, received, place, book, fields, pos, current, terms>>

\* What `\s` matches: what is blank in ASCII, for Python in Unicode.
Spaces(l) ==
    IF l = "python" THEN Blanks \cup Separators \cup NoBreaks \cup Wides \cup LineSeparators ELSE Blanks

\* What a splitter takes off both ends: trim, String.trim(), str.strip().
Trimmable(l) == IF l = "java" THEN Blanks \cup Controls \cup Separators ELSE Spaces(l)

\* What is taken off a field: trim, String.strip(), str.strip().
Strippable(l) == IF l = "java" THEN Blanks \cup Separators \cup Wides ELSE Spaces(l)

\* What ends a line for the regular expressions.
LineEnds(l) ==
    CASE l = "cpp" -> {NL, CR} [] l = "java" -> {NL, CR} \cup LineSeparators [] l = "python" -> {NL}

Least(S) == CHOOSE i \in S : \A j \in S : i <= j
Greatest(S) == CHOOSE i \in S : \A j \in S : j <= i

\* Where a symbol of the set stands in s, at or after a position.
Where(s, from, set) == {i \in from .. Len(s) : s[i] \in set}

\* The part from the first to the last symbol that is not in the set.
Trim(s, set) ==
    LET visible == {i \in 1 .. Len(s) : s[i] \notin set}
    IN  IF visible = {} THEN <<>> ELSE SubSeq(s, Least(visible), Greatest(visible))

\* Replaces every "\r\n" with "\n".
NormalizeNewlines(s) ==
    LET IsCrOfCrLf(i) == s[i] = CR /\ i < Len(s) /\ s[i + 1] = NL
        normalized[i \in 0 .. Len(s)] ==
            IF i = 0 THEN <<>>
            ELSE IF IsCrOfCrLf(i) THEN normalized[i - 1] ELSE Append(normalized[i - 1], s[i])
    IN  normalized[Len(s)]

-----------------------------------------------------------------------------
(* The splitters.                                                           *)

HeaderAndBody(l, s, start, begin, end) ==
    [header |-> Trim(SubSeq(s, 1, start - 1), Trimmable(l)), body |-> Trim(SubSeq(s, begin, end - 1), Trimmable(l))]

\* Position after the line that position i is in; the end of the text if it
\* is the last line.
AfterLine(s, i) ==
    LET ends == Where(s, i, {NL}) IN IF ends = {} THEN Len(s) + 1 ELSE Least(ends) + 1

\* Mutant of SplitCpp: without an END marker the body is what there is.
SplitToTheEnd(raw) ==
    LET s == NormalizeNewlines(raw)
        starts == Where(s, 1, StartMarkers)
        begin == AfterLine(s, Least(starts))
        ends == Where(s, begin, EndMarkers)
    IN  IF starts = {} THEN None
        ELSE HeaderAndBody("cpp", s, Least(starts), begin, IF ends = {} THEN Len(s) + 1 ELSE Least(ends))

\* Mutant of SplitCpp: the END marker is searched from the top of the text.
SplitAtFirstEnd(raw) ==
    LET s == NormalizeNewlines(raw)
        starts == Where(s, 1, StartMarkers)
        begin == AfterLine(s, Least(starts))
        ends == Where(s, 1, EndMarkers)
    IN  IF starts = {} \/ ends = {} THEN None
        ELSE HeaderAndBody("cpp", s, Least(starts), begin, Least(ends))

\* Mutant of SplitCpp: the header is not trimmed.
SplitUntrimmed(raw) ==
    LET s == NormalizeNewlines(raw)
        starts == Where(s, 1, StartMarkers)
        begin == AfterLine(s, Least(starts))
        ends == Where(s, begin, EndMarkers)
    IN  IF starts = {} \/ ends = {} THEN None
        ELSE [header |-> SubSeq(s, 1, Least(starts) - 1), body |-> Trim(SubSeq(s, begin, Least(ends) - 1), Blanks)]

\* split_book: the first marker of either form, whatever precedes it on its line.
SplitCpp(raw) ==
    LET s == NormalizeNewlines(raw)
        starts == Where(s, 1, StartMarkers)
        begin == AfterLine(s, Least(starts))
        ends == Where(s, begin, EndMarkers)
    IN  IF starts = {} \/ ends = {} THEN None
        ELSE HeaderAndBody("cpp", s, Least(starts), begin, Least(ends))

\* BookSplitter.split: the pattern of the START marker takes its line to the
\* end, where a lone "\r" and a LineSeparator end it too.  An END marker between that and the
\* newline makes substring() throw, which costs the book as well.
SplitJava(raw) ==
    LET s == NormalizeNewlines(raw)
        starts == Where(s, 1, StartMarkers)
        lineEnds == Where(s, Least(starts), LineEnds("java"))
        matched == IF lineEnds = {} THEN Len(s) + 1 ELSE Least(lineEnds)
        ends == Where(s, matched, EndMarkers)
        newlines == Where(s, matched, {NL})
    IN  IF starts = {} \/ ends = {} \/ newlines = {} \/ Least(ends) < Least(newlines) THEN None
        ELSE HeaderAndBody("java", s, Least(starts), Least(newlines), Least(ends))

\* The first position of the line that position i is in.
LineStart(s, i) ==
    LET before == {j \in 1 .. i - 1 : s[j] = NL} IN IF before = {} THEN 1 ELSE Greatest(before) + 1

\* split_header_body: by lines.  What stands before a marker on its line is
\* dropped with the line.
SplitPython(s) ==
    LET starts == Where(s, 1, StartMarkers)
        begin == AfterLine(s, Least(starts))
        ends == Where(s, begin, EndMarkers)
    IN  IF starts = {} \/ ends = {} THEN None
        ELSE HeaderAndBody("python", s, LineStart(s, Least(starts)), begin, LineStart(s, Least(ends)))

\* fetch_book and fetch_book_offline normalize for it.  A local file is opened
\* as text, where a lone "\r" is a newline as well.
PythonNewlines(src, raw) ==
    LET s == NormalizeNewlines(raw)
    IN  [i \in 1 .. Len(s) |-> IF src = "offline" /\ s[i] = CR THEN NL ELSE s[i]]

\* What each program makes of the text that arrived.
Split(l, src, raw) ==
    CASE l = "cpp" -> SplitCpp(raw)
      [] l = "java" -> SplitJava(raw)
      [] l = "python" -> SplitPython(PythonNewlines(src, raw))

-----------------------------------------------------------------------------
(* The fields of a header.                                                  *)

\* Where the `.+` of `^Title:\s*(.+)$` may begin for the label at p.
ValueStarts(l, header, p) ==
    {q \in p + 1 .. Len(header) :
        header[q] \notin LineEnds(l) /\ \A i \in p + 1 .. q - 1 : header[i] \in Spaces(l)}

\* That pattern matches at p: the label begins a line, and `\s*` leads to a
\* symbol that is no line end.
Labelled(l, header, label, p) ==
    /\ header[p] = label
    /\ p = 1 \/ header[p - 1] \in LineEnds(l)
    /\ ValueStarts(l, header, p) # {}

\* What ends the value of a label.
ValueStops(l, label) == LineEnds(l) \cup (IF label \in Dated THEN {Bracket} ELSE {})

\* The value after the label at p: `\s*` takes what it can, line ends too, so
\* the value is on the next line where this one has none.  Blanks alone are a
\* match, with nothing left of it once they are taken off.
ValueAfter(l, header, label, p) ==
    LET first == Greatest(ValueStarts(l, header, p))
        stops == Where(header, first + 1, ValueStops(l, label))
    IN  Trim(SubSeq(header, first, IF stops = {} THEN Len(header) ELSE Least(stops) - 1), Strippable(l))

\* extract_field, firstMatch, _first_match: the first match, trimmed.  Java
\* and Python turn an empty one into "no value", C++ does not.
Field(l, header, label) ==
    LET places == {p \in 1 .. Len(header) : Labelled(l, header, label, p)}
        value == ValueAfter(l, header, label, Least(places))
    IN  IF places = {} \/ (l # "cpp" /\ value = <<>>) THEN None ELSE value

\* extract_metadata, MetadataParser.parse, parse_metadata.  Java normalizes
\* the line ends once more.
FieldsOf(l, header) ==
    [label \in Labels |-> Field(l, IF l = "java" THEN NormalizeNewlines(header) ELSE header, label)]

-----------------------------------------------------------------------------
(* The tokenizer.                                                           *)

Fold(c) == IF c \in Capitals THEN LowerOf[c] ELSE c

IsTokenChar(c) == c \in TokenChars \cup Capitals

\* load_stopwords.  The words of the list are ASCII in lower case, for which
\* the three make the same of a line.  Without the file only Python goes on:
\* left out.
Stopwords ==
    {w \in {Trim(StopwordLines[i], Blanks) : i \in DOMAIN StopwordLines} : w # <<>> /\ w[1] # Hash}

\* Mutant of Closed: a token that the end of the text cuts off is lost.
ClosedInside(token, done) ==
    IF pos <= Len(book.body) /\ Len(token) >= 2 /\ token \notin Stopwords THEN done \cup {token} ELSE done

\* flush(): keeps a token of two characters or more that is no stopword.
Closed(token, done) ==
    IF Len(token) >= 2 /\ token \notin Stopwords THEN done \cup {token} ELSE done

-----------------------------------------------------------------------------
Init ==
    /\ lang \in Languages /\ source \in {"online", "offline"}
    /\ text \in Texts /\ received = <<>>
    /\ place = "fetching"
    /\ book = None /\ fields = None
    /\ pos = 1 /\ current = <<>> /\ terms = {}

\* write_callback: the next bytes are appended to the buffer.
Receive ==
    /\ place = "fetching"
    /\ \E n \in Len(received) + 1 .. Len(text) : received' = SubSeq(text, 1, n)
    /\ UNCHANGED <<lang, source, text, place, book, fields, pos, current, terms>>

\* A curl error, a status that is no success, a file that cannot be opened:
\* what did arrive is thrown away.
FetchFails ==
    /\ place = "fetching" /\ place' = "failed"
    /\ received' = <<>>
    /\ UNCHANGED <<lang, source, text, book, fields, pos, current, terms>>

\* The transfer ended without an error, which is all that get() and fetch()
\* ask about.
FetchSucceeds ==
    /\ place = "fetching" /\ place' = "fetched"
    /\ UNCHANGED <<lang, source, text, received, book, fields, pos, current, terms>>

SplitBook ==
    /\ place = "fetched"
    /\ book' = Split(lang, source, received)
    /\ place' = IF book' = None THEN "discarded" ELSE "saved"
    /\ UNCHANGED <<lang, source, text, received, fields, pos, current, terms>>

ExtractMetadata ==
    /\ place = "saved" /\ place' = "tokenizing"
    /\ fields' = FieldsOf(lang, book.header)
    /\ UNCHANGED <<lang, source, text, received, book, pos, current, terms>>

\* One round of the tokenizer's loop.
NextCharacter ==
    /\ place = "tokenizing" /\ pos <= Len(book.body)
    /\ LET c == book.body[pos]
       IN  \/ /\ IsTokenChar(c)
              /\ current' = Append(current, Fold(c))
              /\ UNCHANGED terms
           \/ /\ ~IsTokenChar(c)
              /\ current' = <<>>
              /\ terms' = Closed(current, terms)
    /\ pos' = pos + 1
    /\ UNCHANGED <<lang, source, text, received, place, book, fields>>

\* The text may end in the middle of a token.
LastFlush ==
    /\ place = "tokenizing" /\ pos = Len(book.body) + 1
    /\ place' = "tokenized"
    /\ current' = <<>>
    /\ terms' = Closed(current, terms)
    /\ UNCHANGED <<lang, source, text, received, book, fields, pos>>

Next == Receive \/ FetchFails \/ FetchSucceeds \/ SplitBook \/ ExtractMetadata \/ NextCharacter \/ LastFlush

Spec == Init /\ [][Next]_vars

-----------------------------------------------------------------------------
(* The typing of the state.                                                 *)
TypeOK ==
    /\ lang \in Languages /\ source \in {"online", "offline"}
    /\ text \in Texts /\ received \in Seq(Symbols)
    /\ place \in {"fetching", "failed", "fetched", "discarded", "saved", "tokenizing", "tokenized"}
    /\ book \in [header : Seq(Symbols), body : Seq(Symbols)] \cup {None}
    /\ place \in {"saved", "tokenizing", "tokenized"} <=> book # None
    /\ fields \in [Labels -> Seq(Symbols) \cup {None}] \cup {None}
    /\ pos \in Nat \ {0} /\ (book # None => pos <= Len(book.body) + 1)
    /\ current \in Seq(TokenChars)
    /\ terms \subseteq Seq(TokenChars)

(* A book is saved whole or not at all: what was split is what the whole    *)
(* text would have given, however much of it arrived (book_splitter.cpp:57  *)
(* discards a book without its END marker; nothing else notices).           *)
NoBookIsCutShort == book # None => book = Split(lang, source, text)

\* A character of a text that is no blank, no label, no marker and no "[".
Inner == Symbols \ (Blanks \cup OddBlanks \cup Labels \cup StartMarkers \cup EndMarkers \cup {Bracket})

\* Markers begin their lines; a line ends with "\n" or "\r\n" and in no other
\* way; a blank that is not blank to all stands between two inner characters.
Regular(raw) ==
    LET s == NormalizeNewlines(raw)
    IN  \A i \in 1 .. Len(s) :
            /\ s[i] \notin {CR} \cup LineSeparators
            /\ s[i] \in StartMarkers \cup EndMarkers => i = 1 \/ s[i - 1] = NL
            /\ s[i] \in OddBlanks => i \in 2 .. Len(s) - 1 /\ s[i - 1] \in Inner /\ s[i + 1] \in Inner

(* SPEC.md asks for equivalent outputs of the three programs: of a regular  *)
(* text they make the same book, with the same fields, though one looks for *)
(* positions, one for patterns and one for lines, and no two of them take   *)
(* the same characters for blanks (text_utils.hpp:10, BookSplitter.java:38, *)
(* splitter.py:65).  Of a body that ends with U+00A0 they do not.           *)
LanguagesAgree ==
    Regular(received) =>
        /\ place \in {"saved", "discarded"} => \A l \in Languages : Split(l, source, received) = book
        /\ fields # None => \A l \in Languages : FieldsOf(l, book.header) = fields

\* The places of a label that begins a line.
LabelLines(header, label) ==
    {p \in 1 .. Len(header) : header[p] = label /\ (p = 1 \/ header[p - 1] \in LineEnds(lang))}

\* Nothing but blanks after the label at p, up to the end of its line.
NoValueOnItsLine(header, label, p) ==
    \A q \in p + 1 .. Len(header) :
        (\A i \in p + 1 .. q : header[i] \notin ValueStops(lang, label)) => header[q] \in Strippable(lang)

(* A field is never empty, though C++ does not ask (metadata.cpp:26-27, the *)
(* others do), and it is one piece of one line of the header, with nothing  *)
(* but blanks and line ends between it and its label: it comes from its     *)
(* own line, or, if its line has no value, from the next that is not empty. *)
(* There is none only where the header ends with the label.  Java also has  *)
(* none where a blank that its `\s` does not skip, and its strip() takes    *)
(* away, is all that the line of the first label has (MetadataParser:68),   *)
(* and goes on to the next label where a line separator follows the first.  *)
FieldsComeFromTheirLine ==
    fields # None => \A label \in Labels :
        LET places == LabelLines(book.header, label)
        IN  \/ /\ fields[label] = None
               /\ \A p \in places :
                     IF lang = "java" THEN NoValueOnItsLine(book.header, label, p) \/ \E o \in places : o < p
                     ELSE p = Len(book.header)
            \/ /\ fields[label] \notin {None, <<>>}
               /\ \E p \in places, q \in 1 .. Len(book.header) :
                     /\ p < q
                     /\ SubSeq(book.header, q, q + Len(fields[label]) - 1) = fields[label]
                     /\ \A i \in p + 1 .. q - 1 : book.header[i] \in Strippable(lang)
                     /\ \A i \in q .. q + Len(fields[label]) - 1 : book.header[i] \notin LineEnds(lang)
                     /\ \A o \in places :
                           p <= o \/ (lang = "java" /\ NoValueOnItsLine(book.header, label, o))

\* A word of the body: token characters with none before and none after.
IsWord(s, i, j) ==
    /\ i <= j /\ \A k \in i .. j : IsTokenChar(s[k])
    /\ i = 1 \/ ~IsTokenChar(s[i - 1])
    /\ j = Len(s) \/ ~IsTokenChar(s[j + 1])

Folded(s, i, j) == [k \in 1 .. j - i + 1 |-> Fold(s[i + k - 1])]

\* The words that are kept, by their first and last position.
WordsIn(s) ==
    {w \in (1 .. Len(s)) \X (1 .. Len(s)) :
        IsWord(s, w[1], w[2]) /\ w[1] < w[2] /\ Folded(s, w[1], w[2]) \notin Stopwords}

(* SPEC.md section 5: the terms of a body are its words in lower case, but  *)
(* those of one character and the stopwords; the last one too.              *)
TermsAreTheWords ==
    place = "tokenized" => terms = {Folded(book.body, w[1], w[2]) : w \in WordsIn(book.body)}
=============================================================================
