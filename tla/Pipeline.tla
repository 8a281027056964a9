------------------------------ MODULE Pipeline ------------------------------
(***************************************************************************)
(* The C++ pipeline: `pipeline N [--offline]` (cli_commands.cpp) run again *)
(* and again over one data folder, each run with the layout, the index     *)
(* structure and the book list of its own command line.  A run downloads a *)
(* book into the datalake, stores its metadata row, marks it downloaded,   *)
(* indexes it, stores its postings and marks it indexed; it may be killed  *)
(* between any two writes, and a file it was writing is then left torn.    *)
(*                                                                         *)
(* Data are abstracted to what the properties tell apart: a text is its    *)
(* set of terms, a file is absent, torn (opened, hence truncated, and not  *)
(* yet complete) or whole; a torn body reads as part of its terms and,     *)
(* perhaps, a cut word.  A stored index maps a term to the set of books of *)
(* its posting list, or to None when it has no file, key or document.      *)
(***************************************************************************)
EXTENDS Integers, Sequences, FiniteSets

CONSTANTS
    Books,          \* the book ids
    Terms,          \* the terms of all books, and of words that are cut short
    TermsOf,        \* [Books -> SUBSET Terms]: the distinct tokens of a body
    CutWordsOf,     \* [Books -> SUBSET Terms]: what a word of it cut short may be
    Modes,          \* "online" and/or "offline"
    ListOf,         \* [Modes -> Seq(Books)]: the candidate ids of each mode
    Available,      \* [Modes -> SUBSET Books]: what the mode's source has
    Splittable,     \* the books with both START and END markers
    Structures,     \* some of "monolithic", "hierarchical", "mongo"
    Layouts,        \* some of "book", "range", "time"
    FoldersOf,      \* [Layouts -> sets of folders]: "time" has one per hour
    ConfigChanges,  \* TRUE: each run may have another mode, structure, layout
    StepCounts,     \* the values of N the user may pass
    MaxFaults,      \* bound: runs killed or ended by an exception, writes lost
    ShortWritesMayVanish, \* TRUE: a full disk loses short buffered writes
    None            \* no row, no file, no book

Folders == UNION {FoldersOf[l] : l \in Layouts}

Runs == [mode : Modes, structure : Structures, layout : Layouts]

RunsAfter(r) == IF ConfigChanges THEN Runs ELSE {r}

FileStates == {"absent", "torn", "whole"}

\* What a structure holds for a term: nothing, or a posting list.
Entries == {None} \cup SUBSET Books

PipelineAssumption ==
    /\ IsFiniteSet(Terms)
    /\ TermsOf \in [Books -> SUBSET Terms]
    /\ CutWordsOf \in [Books -> SUBSET Terms]
    /\ Modes # {} /\ Structures # {} /\ Layouts # {}
    /\ Modes \subseteq {"online", "offline"}
    /\ Structures \subseteq {"monolithic", "hierarchical", "mongo"}
    /\ ListOf \in [Modes -> Seq(Books)]
    /\ Available \in [Modes -> SUBSET Books]
    /\ StepCounts \subseteq Nat \ {0}
    /\ MaxFaults \in Nat
    /\ ConfigChanges \in BOOLEAN /\ ShortWritesMayVanish \in BOOLEAN
    /\ None \notin Books /\ None \notin Terms /\ None \notin Folders
    /\ \A S \in SUBSET Books : S # None

ASSUME PipelineAssumption

VARIABLES
    body,           \* the datalake: state of each body file
    header,         \* and of each header file
    metadata,       \* the SQLite row of a book: the folder its paths name
    downloadedLog,  \* ids in control/downloaded_books.txt
    indexedLog,     \* ids in control/indexed_books.txt
    stored,         \* the postings each structure holds
    jsonFile,       \* state of the monolithic index file
    faults,         \* runs that ended abnormally and writes lost so far
    run,            \* configuration of the current (or the last) run
    pc,             \* where the current run is; "off" between runs
    steps,          \* steps the run may still make
    downloaded,     \* recorded_ of the downloaded ControlLog
    indexed,        \* recorded_ of the indexed ControlLog
    index,          \* the in-memory InvertedIndex
    book,           \* the book of the step under way
    folder,         \* the datalake folder that book is being written to
    todo,           \* terms of the index write under way, not yet written
    opened          \* the term file opened but not yet filled

datalake == <<body, header>>
logs     == <<downloadedLog, indexedLog>>
disk     == <<datalake, metadata, logs, stored, jsonFile>>
memory   == <<downloaded, indexed, index>>
cursor   == <<book, folder, todo, opened>>
vars     == <<disk, faults, run, pc, steps, memory, cursor>>

-----------------------------------------------------------------------------
(* The in-memory index, and what a structure holds.                         *)

EmptyIndex == [t \in Terms |-> {}]

TermsIn(ix) == {t \in Terms : ix[t] # {}}

AddBook(ix, b, ts) ==
    [t \in Terms |-> IF t \in ts THEN ix[t] \cup {b} ELSE ix[t]]

NothingStored == [t \in Terms |-> None]

\* A structure that holds exactly ix: a term without postings is not a key.
Image(ix) == [t \in Terms |-> IF ix[t] = {} THEN None ELSE ix[t]]

StoredTerms(s) == {t \in Terms : stored[s][t] # None}

\* The tokens of a part of a body: some of its own, and what its last word,
\* cut short, has become.
PartsOf(b) ==
    {ts \cup cut : ts \in SUBSET TermsOf[b], cut \in {{}} \cup {{w} : w \in CutWordsOf[b]}}

\* What reading a book's body, at the path its row names, may give.  How much
\* of a torn one was written is left open, at every reading.
BodyReadings(b) ==
    IF body[<<metadata[b], b>>] = "whole" THEN {TermsOf[b]} ELSE PartsOf(b)

\* The books a run rebuilds its index from, and what their bodies may give.
Rebuilt(r) == {b \in indexedLog :
    /\ \E i \in DOMAIN ListOf[r.mode] : ListOf[r.mode][i] = b
    /\ metadata[b] # None}

Readings(S) == {read \in [S -> UNION {BodyReadings(b) : b \in S}] :
    \A b \in S : read[b] \in BodyReadings(b)}

Candidates == ListOf[run.mode]

IsCandidate(b) == \E i \in DOMAIN Candidates : Candidates[i] = b

\* b is the first of the candidates that lies in S.
IsFirst(b, S) ==
    /\ b \in S
    /\ \E i \in DOMAIN Candidates :
          /\ Candidates[i] = b
          /\ \A j \in 1 .. i - 1 : Candidates[j] \notin S

Monolithic == run.structure = "monolithic"

ReadyToIndex == downloaded \ indexed

AnyCandidateIn(S) == \E b \in S : IsCandidate(b)

-----------------------------------------------------------------------------
(* What the groups of actions leave alone, and how a run and a step end.    *)

\* The process ends; what it held in memory is gone.
Exit ==
    /\ pc' = "off" /\ steps' = 0
    /\ downloaded' = {} /\ indexed' = {} /\ index' = EmptyIndex
    /\ book' = None /\ folder' = None /\ todo' = {} /\ opened' = None
    /\ UNCHANGED run

StepDone == pc' = "loop" /\ steps' = steps - 1 /\ book' = None /\ folder' = None

\* A short write is lost, and nobody is told.
Vanishes == ShortWritesMayVanish /\ faults < MaxFaults /\ faults' = faults + 1

DownloadGoesOn == UNCHANGED <<stored, jsonFile, run, cursor, index, indexed, indexedLog>>

WriteGoesOn == UNCHANGED <<datalake, metadata, logs, run, steps, memory, book, folder>>

-----------------------------------------------------------------------------
(* Mutants: the actions below with a mistake someone might make in the      *)
(* code.  No specification uses them; each shows that a property can fail.  *)

\* The downloaded log is not read back.
StartRunForgettingDownloads ==
    /\ pc = "off"
    /\ run' \in RunsAfter(run)
    /\ steps' \in StepCounts
    /\ downloaded' = {}
    /\ indexed' = indexedLog
    /\ \E read \in Readings(Rebuilt(run')) :
          index' = [t \in Terms |-> {b \in DOMAIN read : t \in read[b]}]
    /\ pc' = "check"
    /\ UNCHANGED <<disk, faults, cursor>>

\* A structure is trusted unless it has too many terms.
CountsAgreeUnlessTooMany ==
    /\ Monolithic => jsonFile = "whole"
    /\ Cardinality(StoredTerms(run.structure)) <= Cardinality(TermsIn(index))

\* The last term file need not be written yet.
IndexWrittenTooEarly ==
    /\ pc = "fill"
    /\ opened = None
    /\ Monolithic => jsonFile = "whole"
    /\ pc' = IF book = None THEN "loop" ELSE "markIndexed"
    /\ UNCHANGED <<faults, stored, jsonFile, todo, opened>> /\ WriteGoesOn

\* One step more than was asked for.
ChooseToIndexOnceMore ==
    /\ pc = "loop"
    /\ \E b \in Books : IsFirst(b, ReadyToIndex) /\ book' = b
    /\ pc' = "index"
    /\ UNCHANGED <<disk, faults, run, steps, memory, folder, todo, opened>>

\* The id is recorded in memory and never appended.
MarkDownloadedInMemory ==
    /\ pc = "markDownloaded"
    /\ downloaded' = downloaded \cup {book}
    /\ StepDone
    /\ UNCHANGED <<datalake, metadata, logs, stored, jsonFile, faults, run,
                   indexed, index, todo, opened>>

\* The book is added to every term of the index, not only to its own.
IndexBookUnderEveryTerm ==
    /\ pc = "index"
    /\ metadata[book] # None
    /\ \E ts \in BodyReadings(book) :
          /\ index' = AddBook(index, book, ts \cup TermsIn(index))
          /\ todo' = ts \cup TermsIn(index)
    /\ pc' = IF Monolithic THEN "clear" ELSE "fill"
    /\ UNCHANGED <<disk, faults, run, steps, downloaded, indexed, book, folder, opened>>

\* The id is recorded in memory and never appended.
MarkIndexedInMemory ==
    /\ pc = "markIndexed"
    /\ indexed' = indexed \cup {book}
    /\ StepDone
    /\ UNCHANGED <<datalake, metadata, logs, stored, jsonFile, faults, run,
                   downloaded, index, todo, opened>>

-----------------------------------------------------------------------------
Init ==
    /\ body   = [p \in Folders \X Books |-> "absent"]
    /\ header = [p \in Folders \X Books |-> "absent"]
    /\ metadata = [b \in Books |-> None]
    /\ downloadedLog = {} /\ indexedLog = {}
    /\ stored = [s \in Structures |-> NothingStored]
    /\ jsonFile = "absent"
    /\ faults = 0
    /\ run \in Runs
    /\ pc = "off"
    /\ steps = 0
    /\ downloaded = {} /\ indexed = {} /\ index = EmptyIndex
    /\ book = None /\ folder = None /\ todo = {} /\ opened = None

(* A run starts: the logs are loaded, and the index is rebuilt from the     *)
(* bodies of the candidates that are marked indexed and have a row.         *)
StartRun ==
    /\ pc = "off"
    /\ run' \in RunsAfter(run)
    /\ steps' \in StepCounts
    /\ downloaded' = downloadedLog
    /\ indexed' = indexedLog
    /\ \E read \in Readings(Rebuilt(run')) :
          index' = [t \in Terms |-> {b \in DOMAIN read : t \in read[b]}]
    /\ pc' = "check"
    /\ UNCHANGED <<disk, faults, cursor>>

(* The run is killed, or an exception of the environment (no MongoDB        *)
(* server, disk full on a long write, SQLite error) ends it as "[fatal]".   *)
Kill ==
    /\ pc # "off"
    /\ faults < MaxFaults
    /\ faults' = faults + 1
    /\ Exit
    /\ UNCHANGED disk

-----------------------------------------------------------------------------
(* The check of the stored index that precedes the first step.              *)

TornIndex == Monolithic /\ jsonFile = "torn"

\* stored_term_count parses the JSON file: a torn one throws.
CheckFails ==
    /\ pc = "check"
    /\ TornIndex
    /\ Exit
    /\ UNCHANGED <<disk, faults>>

\* The structure exists and has as many terms as the rebuilt index.
CountsAgree ==
    /\ Monolithic => jsonFile = "whole"
    /\ Cardinality(StoredTerms(run.structure)) = Cardinality(TermsIn(index))

TrustIndex ==
    /\ pc = "check"
    /\ ~TornIndex
    /\ CountsAgree
    /\ pc' = "loop"
    /\ UNCHANGED <<disk, faults, run, steps, memory, cursor>>

RewriteIndex ==
    /\ pc = "check"
    /\ ~TornIndex
    /\ ~CountsAgree
    /\ pc' = "clear"
    /\ todo' = TermsIn(index)
    /\ UNCHANGED <<disk, faults, run, steps, memory, book, folder, opened>>

-----------------------------------------------------------------------------
(* Writing an index structure: write() clears it and then fills it with the *)
(* terms of the index; update_terms() only fills the terms of one book,     *)
(* except for the monolithic file, whose only way is write().               *)

\* Opening the JSON file truncates it ...
OpenJson ==
    /\ pc = "clear"
    /\ Monolithic
    /\ jsonFile' = "torn"
    /\ stored' = [stored EXCEPT !["monolithic"] = NothingStored]
    /\ pc' = "fill"
    /\ UNCHANGED <<faults, todo, opened>> /\ WriteGoesOn

\* ... and the whole index is written to it at once.
FillJson ==
    /\ pc = "fill"
    /\ Monolithic
    /\ jsonFile = "torn"
    /\ jsonFile' = "whole"
    /\ stored' = [stored EXCEPT !["monolithic"] = Image(index)]
    /\ todo' = {}
    /\ UNCHANGED <<faults, pc, opened>> /\ WriteGoesOn

\* remove_all deletes the term files one after the other.
RemoveTermFile ==
    /\ pc = "clear"
    /\ run.structure = "hierarchical"
    /\ \E t \in StoredTerms("hierarchical") :
          stored' = [stored EXCEPT !["hierarchical"][t] = None]
    /\ UNCHANGED <<faults, jsonFile, pc, todo, opened>> /\ WriteGoesOn

FolderRemoved ==
    /\ pc = "clear"
    /\ run.structure = "hierarchical"
    /\ StoredTerms("hierarchical") = {}
    /\ pc' = "fill"
    /\ UNCHANGED <<faults, stored, jsonFile, todo, opened>> /\ WriteGoesOn

OpenTermFile ==
    /\ pc = "fill"
    /\ run.structure = "hierarchical"
    /\ opened = None
    /\ \E t \in todo :
          /\ stored' = [stored EXCEPT !["hierarchical"][t] = {}]
          /\ opened' = t
    /\ UNCHANGED <<faults, jsonFile, pc, todo>> /\ WriteGoesOn

FillTermFile ==
    /\ pc = "fill"
    /\ opened # None
    /\ \/ stored' = [stored EXCEPT !["hierarchical"][opened] = index[opened]] /\ UNCHANGED faults
       \/ Vanishes /\ UNCHANGED stored
    /\ todo' = todo \ {opened}
    /\ opened' = None
    /\ UNCHANGED <<jsonFile, pc>> /\ WriteGoesOn

DeleteDocuments ==
    /\ pc = "clear"
    /\ run.structure = "mongo"
    /\ stored' = [stored EXCEPT !["mongo"] = NothingStored]
    /\ pc' = "fill"
    /\ UNCHANGED <<faults, jsonFile, todo, opened>> /\ WriteGoesOn

\* One document of insert_many, or one upsert of the unordered bulk write.
PutDocument ==
    /\ pc = "fill"
    /\ run.structure = "mongo"
    /\ \E t \in todo :
          /\ stored' = [stored EXCEPT !["mongo"][t] = index[t]]
          /\ todo' = todo \ {t}
    /\ UNCHANGED <<faults, jsonFile, pc, opened>> /\ WriteGoesOn

IndexWritten ==
    /\ pc = "fill"
    /\ todo = {} /\ opened = None
    /\ Monolithic => jsonFile = "whole"
    /\ pc' = IF book = None THEN "loop" ELSE "markIndexed"
    /\ UNCHANGED <<faults, stored, jsonFile, todo, opened>> /\ WriteGoesOn

-----------------------------------------------------------------------------
(* One step: next_control_action, then perform_download or perform_indexing *)

ChooseToIndex ==
    /\ pc = "loop" /\ steps > 0
    /\ \E b \in Books : IsFirst(b, ReadyToIndex) /\ book' = b
    /\ pc' = "index"
    /\ UNCHANGED <<disk, faults, run, steps, memory, folder, todo, opened>>

ChooseToDownload ==
    /\ pc = "loop" /\ steps > 0
    /\ ~AnyCandidateIn(ReadyToIndex)
    /\ \E b \in Books : IsFirst(b, Books \ downloaded) /\ book' = b
    /\ pc' = "fetch"
    /\ UNCHANGED <<disk, faults, run, steps, memory, folder, todo, opened>>

\* The steps are used up, or every candidate is downloaded and indexed.
FinishRun ==
    /\ pc = "loop"
    /\ \/ steps = 0
       \/ ~AnyCandidateIn(ReadyToIndex) /\ ~AnyCandidateIn(Books \ downloaded)
    /\ Exit
    /\ UNCHANGED <<disk, faults>>

\* The source has no such book, the network fails, or a marker is missing:
\* the step fails, and the run stops.
FetchFails ==
    /\ pc = "fetch"
    /\ \/ run.mode = "online"
       \/ book \notin Available[run.mode]
       \/ book \notin Splittable
    /\ Exit
    /\ UNCHANGED <<disk, faults>>

\* The book is fetched and split; the layout says where it goes (for "time",
\* the folder of the current hour), and opening its body file truncates it.
FetchSucceeds ==
    /\ pc = "fetch"
    /\ book \in Available[run.mode] \cap Splittable
    /\ \E f \in FoldersOf[run.layout] :
          /\ folder' = f
          /\ body' = [body EXCEPT ![<<f, book>>] = "torn"]
    /\ pc' = "body"
    /\ UNCHANGED <<header, metadata, logs, stored, jsonFile, faults, run, steps,
                   memory, book, todo, opened>>

FillBody ==
    /\ pc = "body"
    /\ body' = [body EXCEPT ![<<folder, book>>] = "whole"]
    /\ pc' = "openHeader"
    /\ UNCHANGED <<faults, header, metadata, downloadedLog, downloaded, steps>> /\ DownloadGoesOn

OpenHeader ==
    /\ pc = "openHeader"
    /\ header' = [header EXCEPT ![<<folder, book>>] = "torn"]
    /\ pc' = "header"
    /\ UNCHANGED <<faults, body, metadata, downloadedLog, downloaded, steps>> /\ DownloadGoesOn

\* The few lines of a header stay in the stream's buffer until it closes,
\* after write_text_file has looked at the stream's state.
FillHeader ==
    /\ pc = "header"
    /\ \/ header' = [header EXCEPT ![<<folder, book>>] = "whole"] /\ UNCHANGED faults
       \/ Vanishes /\ UNCHANGED header
    /\ pc' = "row"
    /\ UNCHANGED <<body, metadata, downloadedLog, downloaded, steps>> /\ DownloadGoesOn

InsertRow ==
    /\ pc = "row"
    /\ metadata' = [metadata EXCEPT ![book] = folder]
    /\ pc' = "markDownloaded"
    /\ UNCHANGED <<faults, datalake, downloadedLog, downloaded, steps>> /\ DownloadGoesOn

\* ControlLog::mark appends the line and then records the id in memory.  The
\* line is short too: the check of the stream precedes the flush.
MarkDownloaded ==
    /\ pc = "markDownloaded"
    /\ \/ downloadedLog' = downloadedLog \cup {book} /\ UNCHANGED faults
       \/ Vanishes /\ UNCHANGED downloadedLog
    /\ downloaded' = downloaded \cup {book}
    /\ StepDone
    /\ UNCHANGED <<datalake, metadata, indexedLog, stored, jsonFile, run,
                   indexed, index, todo, opened>>

\* The book's row exists (otherwise the step fails: no run gets there); its
\* body is read and tokenised, and its terms are added and then persisted.
IndexBook ==
    /\ pc = "index"
    /\ metadata[book] # None
    /\ \E ts \in BodyReadings(book) : index' = AddBook(index, book, ts) /\ todo' = ts
    /\ pc' = IF Monolithic THEN "clear" ELSE "fill"
    /\ UNCHANGED <<disk, faults, run, steps, downloaded, indexed, book, folder, opened>>

MarkIndexed ==
    /\ pc = "markIndexed"
    /\ \/ indexedLog' = indexedLog \cup {book} /\ UNCHANGED faults
       \/ Vanishes /\ UNCHANGED indexedLog
    /\ indexed' = indexed \cup {book}
    /\ StepDone
    /\ UNCHANGED <<datalake, metadata, downloadedLog, stored, jsonFile, run,
                   downloaded, index, todo, opened>>

-----------------------------------------------------------------------------
Check    == CheckFails \/ TrustIndex \/ RewriteIndex
Write    == \/ OpenJson \/ FillJson
            \/ RemoveTermFile \/ FolderRemoved \/ OpenTermFile \/ FillTermFile
            \/ DeleteDocuments \/ PutDocument
            \/ IndexWritten
Choose   == ChooseToIndex \/ ChooseToDownload \/ FinishRun
Download == \/ FetchFails \/ FetchSucceeds \/ FillBody \/ OpenHeader \/ FillHeader
            \/ InsertRow \/ MarkDownloaded
Index    == IndexBook \/ MarkIndexed

Proceed == Check \/ Write \/ Choose \/ Download \/ Index

Next == StartRun \/ Proceed \/ Kill

Spec == Init /\ [][Next]_vars

(* A started run proceeds, the user starts another one when it has ended,   *)
(* and a fetch that is tried again and again succeeds some day.             *)
FairSpec == Spec /\ WF_vars(StartRun) /\ WF_vars(Proceed) /\ SF_vars(FetchSucceeds)

-----------------------------------------------------------------------------
(* The typing of the state.                                                 *)
TypeOK ==
    /\ body \in [Folders \X Books -> FileStates]
    /\ header \in [Folders \X Books -> FileStates]
    /\ metadata \in [Books -> Folders \cup {None}]
    /\ downloadedLog \subseteq Books /\ indexedLog \subseteq Books
    /\ stored \in [Structures -> [Terms -> Entries]]
    /\ jsonFile \in FileStates
    /\ faults \in 0 .. MaxFaults
    /\ run \in Runs
    /\ pc \in {"off", "check", "clear", "fill", "loop", "fetch", "body", "openHeader",
               "header", "row", "markDownloaded", "index", "markIndexed"}
    /\ steps \in Nat
    /\ downloaded \subseteq Books /\ indexed \subseteq Books
    /\ index \in [Terms -> SUBSET Books]
    /\ book \in Books \cup {None}
    /\ folder \in Folders \cup {None}
    /\ todo \subseteq Terms
    /\ opened \in Terms \cup {None}

(* A book whose id is in downloaded_books.txt has a metadata row, and the   *)
(* body file that row names is whole: mark() comes last (pipeline.cpp:32),  *)
(* and no later run opens that file for writing again.                      *)
MarkedBooksHaveBodies ==
    \A b \in downloadedLog :
        metadata[b] # None /\ body[<<metadata[b], b>>] = "whole"

\* A term of the book; or, where short writes are lost, what a cut of its
\* body has made of a word, after the loss of its downloaded mark and a kill
\* in the middle of its second download.
TrueTerm(b, t) ==
    \/ t \in TermsOf[b]
    \/ ShortWritesMayVanish /\ faults > 1 /\ t \in CutWordsOf[b]

(* Whatever happened, a stored posting is true: the book has a row, and the *)
(* term is one of its own.  So search never answers with a book that does   *)
(* not match the query, or with one it knows no title of.  Lost short       *)
(* writes are the exception: two faults can bring a cut word (TrueTerm).    *)
StoredPostingsAreTrue ==
    \A s \in Structures, t \in Terms :
        stored[s][t] # None =>
            \A b \in stored[s][t] : metadata[b] # None /\ TrueTerm(b, t)

Served(b) == \A t \in TermsOf[b] :
    /\ stored[run.structure][t] # None
    /\ b \in stored[run.structure][t]

(* What cli_commands.cpp:164 says: before each step the chosen structure    *)
(* holds every book marked indexed ("must already hold exactly the index    *)
(* rebuilt above").                                                         *)
ChosenIndexHoldsEveryIndexedBook ==
    pc = "loop" => \A b \in indexedLog : Served(b)

(* A run that always uses the same structure takes no step over an index    *)
(* that misses a book marked indexed: the check finds what an interrupted   *)
(* write left.  Only term files that were opened and not filled escape it:  *)
(* after one interruption, indexing the book that waits repairs them before *)
(* anything else is done.                                                   *)
DamageIsRepairedFirst ==
    /\ pc = "loop"
    /\ run.structure = "hierarchical" => faults <= 1 /\ ~AnyCandidateIn(ReadyToIndex)
    => \A b \in indexedLog : Served(b)

(* A book is marked indexed only by a step that leaves its every term       *)
(* stored ("only now: the index has actually been persisted").              *)
IndexedOnlyWhenServed ==
    [][\A b \in indexedLog' \ indexedLog : Served(b)]_vars

\* The life cycle that the marks of the books of the only list go through.
OnlyList == ListOf[CHOOSE m \in Modes : TRUE]
Lifecycle == INSTANCE BookLifecycle WITH
    List <- OnlyList, downloaded <- downloadedLog, indexed <- indexedLog

(* Where every run has the same list, the two logs follow the life cycle of *)
(* BookLifecycle, whatever is killed: books in the order of the list, each  *)
(* indexed before the next is downloaded (control_log.cpp:59), none twice.  *)
BooksInOrderOnceEach == Lifecycle!Spec

(* A book can be reached when it and all those listed before it can be      *)
(* fetched and split.                                                       *)
Reachable(b) == \A m \in Modes : \E i \in DOMAIN ListOf[m] :
    ListOf[m][i] = b /\ \A j \in 1 .. i : ListOf[m][j] \in Available[m] \cap Splittable

(* Interrupted runs resume: every book that can be reached is marked        *)
(* indexed in the end.                                                      *)
ReachableBooksGetIndexed ==
    \A b \in Books : Reachable(b) => <>(b \in indexedLog)

(* One thing only keeps them from it: a JSON file that a killed write left  *)
(* torn, and that no later run writes again (each ends in the parser's      *)
(* exception, index_factory.cpp:80).  Runs of the other structures go on,   *)
(* and so do those of any configuration after lost short writes.            *)
OnlyATornJsonFileStopsTheRuns ==
    \A b \in Books : Reachable(b) => <>(b \in indexedLog \/ [](jsonFile = "torn"))

-----------------------------------------------------------------------------
(* What makes the invariants inductive.                                     *)

Downloading == {"fetch", "body", "openHeader", "header", "row", "markDownloaded"}

(* Where a book is being processed, there is a book; the folder it goes to  *)
(* is known from the moment its body is opened; a step is left to pay.      *)
Cursor ==
    /\ pc \in Downloading \cup {"index", "markIndexed"} => book \in Books
    /\ pc \in Downloading \ {"fetch"} => folder \in Folders
    /\ book # None => steps > 0

(* A run knows every mark on disk, the book it downloads has none, and what *)
(* the step has written so far is there.                                    *)
DownloadUnderWay ==
    /\ pc # "off" => downloadedLog \subseteq downloaded
    /\ pc \in Downloading => book \notin downloaded
    /\ pc \in {"openHeader", "header", "row", "markDownloaded"} =>
          body[<<folder, book>>] = "whole"
    /\ pc = "markDownloaded" => metadata[book] = folder

(* The postings in memory are true as well.                                 *)
IndexIsTrue == \A t \in Terms, b \in Books :
    b \in index[t] => metadata[b] # None /\ TrueTerm(b, t)

(* A book marked indexed is marked downloaded until a short write is lost,  *)
(* so its body is whole until then; it is torn only while it is downloaded  *)
(* once more, and for as long as a kill has left it so.                     *)
TornOnlyAfterLosses ==
    /\ ~ShortWritesMayVanish \/ faults = 0 =>
          indexedLog \subseteq downloadedLog /\ downloaded \subseteq downloadedLog
    /\ \A b \in indexedLog : metadata[b] # None /\ body[<<metadata[b], b>>] # "whole" =>
          /\ ShortWritesMayVanish
          /\ faults > 1 \/ (pc = "body" /\ book = b /\ folder = metadata[b])

(* A run works on the candidates of its list; whatever it counts as         *)
(* downloaded has its row and its whole body, and the book it indexes is    *)
(* one of those, not yet marked.                                            *)
KnownBooks ==
    /\ pc \in {"off", "check", "loop"} => book = None
    /\ pc # "off" => \A b \in downloaded : metadata[b] # None /\ body[<<metadata[b], b>>] = "whole"
    /\ book # None => IsCandidate(book)
    /\ book # None /\ pc \notin Downloading => book \in downloaded \ indexed

DurabilityInv == /\ Cursor /\ DownloadUnderWay /\ MarkedBooksHaveBodies /\ KnownBooks
                 /\ TornOnlyAfterLosses /\ IndexIsTrue /\ StoredPostingsAreTrue

(* Without lost writes a run knows exactly the marks on disk, and what is   *)
(* marked indexed is marked downloaded too.                                 *)
MarksAreNested ==
    /\ indexedLog \subseteq downloadedLog
    /\ pc # "off" => downloaded = downloadedLog /\ indexed = indexedLog

(* The index in memory is then exactly that of the candidates marked        *)
(* indexed, whichever bodies it was rebuilt or extended from, and of the    *)
(* book being indexed.                                                      *)
IndexIsExact ==
    pc # "off" => \A t \in Terms : index[t] =
        {b \in Books : /\ t \in TermsOf[b] /\ IsCandidate(b)
                      /\ (b \in indexedLog \/ (b = book /\ pc \in {"clear", "fill", "markIndexed"}))}

(* With one list and no lost writes: the marks are those of a prefix of the *)
(* list, all of it indexed or all but its last book.                        *)
MarksFollowTheList ==
    \E n \in 0 .. Len(OnlyList) :
        /\ downloadedLog = Lifecycle!First(n)
        /\ \/ indexedLog = downloadedLog
           \/ n > 0 /\ indexedLog = Lifecycle!First(n - 1) /\ OnlyList[n] \notin indexedLog

(* The run knows exactly the marks on disk; the book of a download is the   *)
(* next one of the list, that of an indexing is the one that waits.         *)
StepFollowsTheList ==
    /\ pc # "off" => downloaded = downloadedLog /\ indexed = indexedLog
    /\ pc \in {"off", "check", "loop"} => book = None
    /\ pc \in Downloading =>
          /\ indexedLog = downloadedLog
          /\ \E i \in DOMAIN OnlyList : /\ book = OnlyList[i] /\ book \notin downloadedLog
                                       /\ downloadedLog = Lifecycle!First(i - 1)
    /\ pc \notin Downloading /\ book # None => book \in downloadedLog \ indexedLog

(* While a book is being indexed, each of its terms has it in memory, and   *)
(* in the structure unless the term is still to be written.                 *)
WriteUnderWay ==
    /\ book # None /\ pc \in {"clear", "fill"} => \A t \in TermsOf[book] : book \in index[t]
    /\ book # None /\ pc = "clear" => Monolithic
    /\ opened # None => pc = "fill" /\ run.structure = "hierarchical" /\ opened \in todo
    /\ pc = "fill" /\ Monolithic /\ jsonFile = "whole" => stored["monolithic"] = Image(index)
    /\ pc = "fill" /\ book # None /\ ~Monolithic => \A t \in TermsOf[book] \ todo :
          stored[run.structure][t] # None /\ book \in stored[run.structure][t]
    /\ pc = "markIndexed" => Served(book)

LifeInv == MarksFollowTheList /\ StepFollowsTheList

(* The books marked indexed that a posting list must hold, the terms that   *)
(* have such a book, and what the structure of the run holds as it should.  *)
Due(t) == {b \in indexedLog : t \in TermsOf[b]}

DueTerms == {t \in Terms : Due(t) # {}}

HeldTerms == StoredTerms(run.structure)

Sound(t) == t \in HeldTerms /\ Due(t) \subseteq stored[run.structure][t]

Waiting == downloadedLog \ indexedLog

(* With one list and no lost writes, the rebuilt index is exactly what is   *)
(* due, plus the book that is being indexed; a rewrite still has to write   *)
(* terms that are due, an update terms of its book.                         *)
IndexIsDue ==
    /\ pc # "off" => \A t \in Terms :
          /\ Due(t) \subseteq index[t]
          /\ \A b \in index[t] \ Due(t) : b = book /\ pc \in {"clear", "fill", "markIndexed"}
    /\ pc = "markIndexed" => \A t \in TermsOf[book] : book \in index[t]
    /\ pc = "clear" /\ book = None => todo = DueTerms
    /\ pc = "fill" /\ book = None => todo \subseteq DueTerms
    /\ pc \in {"clear", "fill"} /\ book # None => todo \subseteq TermsOf[book]

Stepping == Downloading \cup {"loop", "index", "markIndexed"}

(* A whole JSON file is sound, and no step is taken without one.            *)
JsonIsSound == Monolithic =>
    /\ jsonFile = "whole" => \A t \in DueTerms : Sound(t)
    /\ pc \in Stepping => jsonFile = "whole"

(* A document, once there, is never behind; and the terms of the collection *)
(* contain those that are due or are contained in them, so that an equal    *)
(* number means the same terms.                                             *)
DocumentsAreSound == run.structure = "mongo" =>
    /\ \A t \in HeldTerms : Sound(t)
    /\ HeldTerms \subseteq DueTerms \/ DueTerms \subseteq HeldTerms
    /\ pc \in Stepping \/ (pc = "fill" /\ book # None) => DueTerms \subseteq HeldTerms
    /\ pc = "fill" /\ book = None => HeldTerms \subseteq DueTerms /\ DueTerms \ todo \subseteq HeldTerms

(* Until a run is interrupted, the files are those of the terms that are    *)
(* due (and of the book being indexed), so nothing is ever rewritten; one   *)
(* interruption spoils at most terms of the book that waits, and a rewrite  *)
(* that follows goes on to its end.                                         *)
TermFilesAreSound == run.structure = "hierarchical" =>
    /\ faults = 0 =>
          /\ pc # "clear" /\ (pc = "fill" => book # None)
          /\ DueTerms \subseteq HeldTerms
          /\ HeldTerms \subseteq DueTerms \cup (IF pc \in {"fill", "markIndexed"} THEN TermsOf[book] ELSE {})
    /\ faults <= 1 /\ pc # "clear" /\ ~(pc = "fill" /\ book = None) =>
          \A t \in DueTerms : Sound(t) \/ \E w \in Waiting : t \in TermsOf[w]
    /\ faults <= 1 /\ pc = "fill" /\ book = None => \A t \in DueTerms \ todo : Sound(t)
    /\ pc = "fill" /\ book # None => \A t \in TermsOf[book] \ todo : Sound(t)
    /\ pc = "markIndexed" => \A t \in TermsOf[book] : Sound(t)
=============================================================================
