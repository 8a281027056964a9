---------------------------- MODULE ControlFile ----------------------------
(***************************************************************************)
(* One control file (downloaded_books.txt or indexed_books.txt) at the     *)
(* level of its characters: an append may be cut short (the process dies,  *)
(* or the disk is full, in the middle of it), and the next process reads   *)
(* what is left.  Java and Python end with the exception of a full disk;   *)
(* C++ looks for it before the line leaves the stream's buffer, and goes   *)
(* on.  The C++ module takes every line it finds, the last one             *)
(* even without its newline; the Java and the Python modules read complete *)
(* lines only, and trim the rest from the file.  Their `status` trims it   *)
(* too: a bystander, which may read the file before a pipeline starts and  *)
(* cut it after that pipeline has appended.  "Marked", "confirmed" and     *)
(* "cut" belong to no program: they remember what its user may rely on.    *)
(*                                                                         *)
(* A book id is its numeral, a sequence of digits, since what matters here *)
(* is that a prefix of an id may be an id, and so may two ids glued.       *)
(***************************************************************************)
EXTENDS Integers, Sequences, FiniteSets

CONSTANTS
    Ids,        \* the numerals of the books that get marked
    MaxDigits,  \* longer numerals do not parse (an int, or 9 digits)
    MaxTears,   \* bound: how many appends are cut short
    Loaders     \* the programs

ASSUME ControlFileAssumption ==
    /\ Ids \subseteq Seq(0 .. 9) \ {<<>>}
    /\ \A id \in Ids : Len(id) <= MaxDigits
    /\ MaxTears \in Nat
    /\ Loaders \subseteq {"cpp", "java", "python"}

VARIABLES
    loader,     \* whose file it is
    lines,      \* the complete lines of the file
    tail,       \* what follows the last newline
    open,       \* a process has the file loaded
    recorded,   \* the ids that process takes as recorded
    marked,     \* the ids mark() was called for: their work was finished
    confirmed,  \* those whose mark() returned
    tears,      \* appends cut short so far
    unnoticed,  \* those of them after which the process went on
    keep,       \* how many lines a bystander will leave, or Nothing
    cut         \* the ids it took from the file

vars == <<loader, lines, tail, open, recorded, marked, confirmed, tears, unnoticed, keep, cut>>

Nothing == -1

Parses(n) == n # <<>> /\ Len(n) <= MaxDigits

\* Mutant of IdsIn: lines that are no number are not skipped.
IdsInAnyLine(ls) == {ls[i] : i \in DOMAIN ls}

IdsIn(ls) == {ls[i] : i \in {j \in DOMAIN ls : Parses(ls[j])}}

Init ==
    /\ loader \in Loaders
    /\ lines = <<>> /\ tail = <<>>
    /\ open = FALSE /\ recorded = {}
    /\ marked = {} /\ confirmed = {} /\ tears = 0 /\ unnoticed = 0
    /\ keep = Nothing /\ cut = {}

\* ControlLog's constructor: getline yields the unterminated rest as well.
LoadCpp ==
    /\ ~open /\ open' = TRUE
    /\ loader = "cpp"
    /\ recorded' = IdsIn(Append(lines, tail))
    /\ UNCHANGED <<loader, lines, tail, marked, confirmed, tears, unnoticed, keep, cut>>

\* Mutant of LoadTrimming: the rest is cut off, but read first.
LoadReadingTail ==
    /\ ~open /\ open' = TRUE
    /\ loader # "cpp"
    /\ tail' = <<>>
    /\ recorded' = IdsIn(Append(lines, tail))
    /\ UNCHANGED <<loader, lines, marked, confirmed, tears, unnoticed, keep, cut>>

\* Mutant of LoadTrimming: the rest is skipped and stays in the file.
LoadSkippingTail ==
    /\ ~open /\ open' = TRUE
    /\ loader # "cpp"
    /\ recorded' = IdsIn(lines)
    /\ UNCHANGED <<loader, lines, tail, marked, confirmed, tears, unnoticed, keep, cut>>

\* ControlFiles.load, ControlLayer.__init__: the rest is cut from the file.
LoadTrimming ==
    /\ ~open /\ open' = TRUE
    /\ loader # "cpp"
    /\ tail' = <<>>
    /\ recorded' = IdsIn(lines)
    /\ UNCHANGED <<loader, lines, marked, confirmed, tears, unnoticed, keep, cut>>

\* mark(): nothing to do for a recorded id; else the line is appended to
\* whatever the file ends with, and the id is recorded.
Mark(id) ==
    /\ open
    /\ id \notin recorded
    /\ lines' = Append(lines, tail \o id)
    /\ tail' = <<>>
    /\ recorded' = recorded \cup {id}
    /\ marked' = marked \cup {id}
    /\ confirmed' = confirmed \cup {id}
    /\ UNCHANGED <<loader, open, tears, unnoticed, keep, cut>>

\* mark() is cut short after n digits, and the process ends.
MarkTorn(id, n) ==
    /\ open
    /\ id \notin recorded
    /\ tears < MaxTears
    /\ tail' = tail \o SubSeq(id, 1, n)
    /\ marked' = marked \cup {id}
    /\ tears' = tears + 1
    /\ open' = FALSE /\ recorded' = {}
    /\ UNCHANGED <<loader, lines, confirmed, unnoticed, keep, cut>>

\* C++ tests the stream before its buffer is written out: when the disk is
\* full, mark() returns with n digits of the line in the file, or none, and
\* the run goes on.
MarkShort(id, n) ==
    /\ loader = "cpp" /\ open
    /\ id \notin recorded
    /\ tears < MaxTears
    /\ tail' = tail \o SubSeq(id, 1, n)
    /\ recorded' = recorded \cup {id}
    /\ marked' = marked \cup {id}
    /\ confirmed' = confirmed \cup {id}
    /\ tears' = tears + 1 /\ unnoticed' = unnoticed + 1
    /\ UNCHANGED <<loader, lines, open, keep, cut>>

\* The process ends between two marks.
Close ==
    /\ open
    /\ open' = FALSE /\ recorded' = {}
    /\ UNCHANGED <<loader, lines, tail, marked, confirmed, tears, unnoticed, keep, cut>>

\* Another process of the same program has read the file, and found that its
\* last line has no newline.
BystanderReads ==
    /\ loader # "cpp"
    /\ keep = Nothing /\ tail # <<>>
    /\ keep' = Len(lines)
    /\ UNCHANGED <<loader, lines, tail, open, recorded, marked, confirmed, tears, unnoticed, cut>>

\* It trims the file to the length it computed, whatever the file is by now.
\* The Python pipeline reads the file for every question, the Java one has
\* its set.
BystanderTrims ==
    /\ keep # Nothing /\ keep' = Nothing
    /\ lines' = SubSeq(lines, 1, keep)
    /\ tail' = <<>>
    /\ recorded' = IF open /\ loader = "python" THEN IdsIn(lines') ELSE recorded
    /\ cut' = cut \cup {lines[i] : i \in keep + 1 .. Len(lines)}
    /\ UNCHANGED <<loader, open, marked, confirmed, tears, unnoticed>>

Next ==
    \/ BystanderReads \/ BystanderTrims
    \/ LoadCpp \/ LoadTrimming \/ Close
    \/ \E id \in Ids :
        \/ Mark(id)
        \/ \E n \in 1 .. Len(id) : MarkTorn(id, n)
        \/ \E n \in 0 .. Len(id) : MarkShort(id, n)

Spec == Init /\ [][Next]_vars

-----------------------------------------------------------------------------
(* The typing of the state; an id read from a line is a number.             *)
TypeOK ==
    /\ loader \in Loaders
    /\ lines \in Seq(Seq(0 .. 9)) /\ tail \in Seq(0 .. 9)
    /\ open \in BOOLEAN
    /\ recorded \subseteq Seq(0 .. 9) /\ \A n \in recorded : Parses(n)
    /\ marked \subseteq Ids /\ confirmed \subseteq marked
    /\ tears \in 0 .. MaxTears /\ unnoticed \in 0 .. tears
    /\ keep \in {Nothing} \cup 0 .. Len(lines)
    /\ cut \subseteq Seq(0 .. 9)

(* An id is taken as recorded only if the work it stands for was finished:  *)
(* with the loaders that trim the file always, whatever a bystander cuts,   *)
(* and in C++ but for one id per append cut short (its torn line, or that   *)
(* line glued to the next one).                                             *)
FewMarksAreInvented ==
    open => Cardinality(recorded \ marked) <= IF loader = "cpp" THEN tears ELSE 0

(* A mark that returned is found by every later process, unless a bystander *)
(* cut it from the file (the read and the truncate of ControlFiles.java:    *)
(* 119-130 are not one step); and in C++ every append cut short loses one   *)
(* mark at most, the one appended to the torn line, and one more if nobody  *)
(* noticed: its own, which mark() returned from (control_log.cpp:51-56).    *)
FewMarksAreLost ==
    open => Cardinality((confirmed \ recorded) \ cut)
                <= IF loader = "cpp" THEN tears + unnoticed ELSE 0
=============================================================================
