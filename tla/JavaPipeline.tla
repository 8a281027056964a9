---------------------------- MODULE JavaPipeline ----------------------------
(***************************************************************************)
(* The Java pipeline: `Main pipeline N [--offline]`, run again and again   *)
(* over one data folder.  Every file is written beside its place and moved *)
(* into it, so there are no half-written files; a step that fails skips    *)
(* its book for the rest of the run, which goes on; what the index could   *)
(* not flush stays in memory and is flushed with the next book.  The row   *)
(* of a book is written when it is indexed, not when it is downloaded.     *)
(*                                                                         *)
(* The sets ControlFiles keeps in memory always equal its files while a    *)
(* run is on (disk first, then memory), so one variable stands for both.   *)
(***************************************************************************)
EXTENDS Integers, Sequences, FiniteSets

CONSTANTS
    Books,          \* the book ids
    Terms,          \* the terms of all books
    TermsOf,        \* [Books -> SUBSET Terms]: uniqueTerms of a body
    Sources,        \* "online" and/or "offline"
    ListOf,         \* [Sources -> Seq(Books)]: BookIdList.load of each
    Available,      \* [Sources -> SUBSET Books]: what each source has
    Splittable,     \* the books with both START and END markers
    Structures,     \* some of "monolithic", "hierarchical", "mongo"
    Layouts,        \* some of "book", "range", "time"
    RangeSize,      \* 1000 in the code: books per folder of "range"
    Hours,          \* the hours in which "time" may save a book
    ConfigChanges,  \* TRUE: each run may have another source, structure, layout
    StepCounts,     \* the values of N the user may pass
    MaxFaults,      \* bound: runs killed, exceptions of disk, SQLite or MongoDB
    None            \* no row, no book, no structure

\* Where the layout puts a book: one place, or for "time" that of any hour.
FoldersOf(l, b) ==
    CASE l = "book"  -> {[layout |-> "book", at |-> b]}
      [] l = "range" -> {[layout |-> "range", at |-> b \div RangeSize]}
      [] l = "time"  -> {[layout |-> "time", at |-> h] : h \in Hours}

Folders == UNION {FoldersOf(l, b) : l \in Layouts, b \in Books}

Runs == [source : Sources, structure : Structures, layout : Layouts]

RunsAfter(r) == IF ConfigChanges THEN Runs ELSE {r}

JavaAssumption ==
    /\ Books \subseteq Nat /\ IsFiniteSet(Terms)
    /\ TermsOf \in [Books -> SUBSET Terms]
    /\ Sources # {} /\ Structures # {} /\ Layouts # {} /\ Hours \subseteq Nat /\ Hours # {}
    /\ Sources \subseteq {"online", "offline"}
    /\ Structures \subseteq {"monolithic", "hierarchical", "mongo"}
    /\ Layouts \subseteq {"book", "range", "time"}
    /\ RangeSize \in Nat \ {0}
    /\ ListOf \in [Sources -> Seq(Books)]
    /\ Available \in [Sources -> SUBSET Books]
    /\ StepCounts \subseteq Nat \ {0}
    /\ MaxFaults \in Nat /\ ConfigChanges \in BOOLEAN
    /\ None \notin Books /\ None \notin Folders /\ None \notin Structures

ASSUME JavaAssumption

VARIABLES
    headers, bodies, \* the datalake: which <<folder, book>> have the file
    metadata,       \* the SQLite row of a book: the folder its paths name
    downloaded,     \* ids in downloaded_books.txt
    indexed,        \* ids in indexed_books.txt
    stored,         \* the postings each structure holds
    home,           \* history: the structure in which a book was marked indexed
    faults,         \* faults so far
    run,            \* configuration of the current (or the last) run
    pc,             \* where the current run is; "off" between runs
    steps,          \* steps the run may still make
    skipped,        \* skippedThisRun
    index,          \* "monolithic": the whole index; else the pending postings
    book,           \* the book of the step under way
    folder,         \* the folder it is saved to or read from
    todo            \* the pending terms not yet flushed

datalake == <<headers, bodies>>
logs     == <<downloaded, indexed, home>>
disk     == <<datalake, metadata, logs, stored>>
cursor   == <<book, folder, todo>>
vars     == <<disk, faults, run, pc, steps, skipped, index, cursor>>

-----------------------------------------------------------------------------
EmptyIndex == [t \in Terms |-> {}]

AddBook(ix, b, ts) == [t \in Terms |-> IF t \in ts THEN ix[t] \cup {b} ELSE ix[t]]

Monolithic == run.structure = "monolithic"

Complete(f, b) == <<f, b>> \in headers \cap bodies

\* Mutant of IsLocation: the header alone makes a book.
HasHeader(f, b) ==
    /\ f \in FoldersOf(run.layout, b)
    /\ <<f, b>> \in headers

\* locate: the newest folder of the active layout that has both files.
IsLocation(f, b) ==
    /\ f \in FoldersOf(run.layout, b)
    /\ Complete(f, b)
    /\ \A g \in FoldersOf(run.layout, b) : Complete(g, b) => g.at <= f.at

Located(b) == \E f \in FoldersOf(run.layout, b) : Complete(f, b)

Candidates == ListOf[run.source]

ReadyToIndex == (downloaded \ indexed) \ skipped

\* Mutant of ToDownload: a book that failed is tried again at once.
ToDownloadAgain == {b \in Books \ downloaded : \E i \in DOMAIN Candidates : Candidates[i] = b}

ToDownload == {b \in Books \ (downloaded \cup skipped) :
                  \E i \in DOMAIN Candidates : Candidates[i] = b}

\* Where b comes first in the list of the run.
Rank(b) == CHOOSE i \in DOMAIN Candidates :
    /\ Candidates[i] = b
    /\ \A j \in 1 .. i - 1 : Candidates[j] # b

StepDone == /\ pc' = "loop" /\ steps' = steps - 1
            /\ book' = None /\ folder' = None /\ todo' = {}

\* The step found an obstacle: the run goes on without the book.
SkipBook == skipped' = skipped \cup {book} /\ StepDone

\* The process ends; what it held in memory is gone.
Exit ==
    /\ pc' = "off" /\ steps' = 0
    /\ skipped' = {} /\ index' = EmptyIndex
    /\ book' = None /\ folder' = None /\ todo' = {}
    /\ UNCHANGED run

DiskStays == UNCHANGED disk

RunGoesOn == UNCHANGED <<faults, run, steps, skipped>>

-----------------------------------------------------------------------------
(* Mutants: the actions below with a mistake someone might make in the      *)
(* code.  No specification uses them; each shows that a property can fail.  *)

\* An index file that is not read yet counts as an empty index.
StartRunWithEmptyIndex ==
    /\ pc = "off"
    /\ run' \in RunsAfter(run)
    /\ steps' \in StepCounts
    /\ index' = EmptyIndex
    /\ pc' = "loop"
    /\ DiskStays /\ UNCHANGED <<faults, skipped, cursor>>

\* One step more than was asked for.
ChooseToIndexOnceMore ==
    /\ pc = "loop"
    /\ \E b \in ReadyToIndex : book' = b /\ \A c \in ReadyToIndex : b <= c
    /\ pc' = "locate"
    /\ DiskStays /\ RunGoesOn /\ UNCHANGED <<index, folder, todo>>

\* Downloading does not look whether the book is marked.
ChooseToDownloadAgain ==
    /\ pc = "loop" /\ steps > 0
    /\ ReadyToIndex = {}
    /\ \E i \in DOMAIN Candidates : book' = Candidates[i]
    /\ pc' = "fetch"
    /\ DiskStays /\ RunGoesOn /\ UNCHANGED <<index, folder, todo>>

\* The index comes first, the row is left for later.
ReadBookWithoutRow ==
    /\ pc = "locate"
    /\ \E f \in FoldersOf(run.layout, book) : IsLocation(f, book) /\ folder' = f
    /\ pc' = "add"
    /\ DiskStays /\ RunGoesOn /\ UNCHANGED <<index, book, todo>>

-----------------------------------------------------------------------------
Init ==
    /\ headers = {} /\ bodies = {}
    /\ metadata = [b \in Books |-> None]
    /\ downloaded = {} /\ indexed = {}
    /\ stored = [s \in Structures |-> EmptyIndex]
    /\ home = [b \in Books |-> None]
    /\ faults = 0
    /\ run \in Runs
    /\ pc = "off" /\ steps = 0 /\ skipped = {} /\ index = EmptyIndex
    /\ book = None /\ folder = None /\ todo = {}

\* SearchEngine.open: the control files and the JSON index are loaded.
StartRun ==
    /\ pc = "off"
    /\ run' \in RunsAfter(run)
    /\ steps' \in StepCounts
    /\ index' = IF run'.structure = "monolithic" THEN stored["monolithic"] ELSE EmptyIndex
    /\ pc' = "loop"
    /\ DiskStays /\ UNCHANGED <<faults, skipped, cursor>>

\* The process is killed, or an exception leaves step(): no MongoDB when the
\* index is opened, a mark that cannot be appended.
Kill ==
    /\ pc # "off"
    /\ faults < MaxFaults /\ faults' = faults + 1
    /\ Exit
    /\ DiskStays

-----------------------------------------------------------------------------
(* step(): index the first waiting book, else download the first missing.  *)

ChooseToIndex ==
    /\ pc = "loop" /\ steps > 0
    /\ \E b \in ReadyToIndex : book' = b /\ \A c \in ReadyToIndex : b <= c
    /\ pc' = "locate"
    /\ DiskStays /\ RunGoesOn /\ UNCHANGED <<index, folder, todo>>

ChooseToDownload ==
    /\ pc = "loop" /\ steps > 0
    /\ ReadyToIndex = {}
    /\ \E b \in ToDownload : book' = b /\ \A c \in ToDownload : Rank(b) <= Rank(c)
    /\ pc' = "fetch"
    /\ DiskStays /\ RunGoesOn /\ UNCHANGED <<index, folder, todo>>

FinishRun ==
    /\ pc = "loop"
    /\ steps = 0 \/ (ReadyToIndex = {} /\ ToDownload = {})
    /\ Exit
    /\ DiskStays /\ UNCHANGED faults

-----------------------------------------------------------------------------
(* index(): locate and read, save the row, add, flush, mark.                *)

\* The control was lying: the active layout does not have the book.
MissingFromDatalake ==
    /\ pc = "locate"
    /\ ~Located(book)
    /\ SkipBook
    /\ DiskStays /\ UNCHANGED <<faults, run, index>>

ReadBook ==
    /\ pc = "locate"
    /\ \E f \in FoldersOf(run.layout, book) : IsLocation(f, book) /\ folder' = f
    /\ pc' = "row"
    /\ DiskStays /\ RunGoesOn /\ UNCHANGED <<index, book, todo>>

SaveRow ==
    /\ pc = "row"
    /\ metadata' = [metadata EXCEPT ![book] = folder]
    /\ pc' = "add"
    /\ RunGoesOn /\ UNCHANGED <<datalake, logs, stored, index, cursor>>

AddDocument ==
    /\ pc = "add"
    /\ index' = AddBook(index, book, TermsOf[book])
    /\ todo' = IF Monolithic THEN {} ELSE {t \in Terms : index'[t] # {}}
    /\ pc' = "flush"
    /\ DiskStays /\ RunGoesOn /\ UNCHANGED <<book, folder>>

\* The JSON is written beside the index file and moved over it.
FlushJson ==
    /\ pc = "flush" /\ Monolithic
    /\ stored' = [stored EXCEPT !["monolithic"] = index]
    /\ pc' = "mark"
    /\ RunGoesOn /\ UNCHANGED <<datalake, metadata, logs, index, cursor>>

\* One term file is merged and moved into place, or one document updated.
FlushTerm ==
    /\ pc = "flush" /\ ~Monolithic
    /\ \E t \in todo :
          /\ stored' = [stored EXCEPT ![run.structure][t] = @ \cup index[t]]
          /\ todo' = todo \ {t}
    /\ RunGoesOn /\ UNCHANGED <<datalake, metadata, logs, pc, index, book, folder>>

FlushEnds ==
    /\ pc = "flush" /\ ~Monolithic
    /\ todo = {}
    /\ index' = EmptyIndex
    /\ pc' = "mark"
    /\ DiskStays /\ RunGoesOn /\ UNCHANGED cursor

\* SQLite, the disk or MongoDB fails: pending postings stay in memory.
IndexFails ==
    /\ pc \in {"locate", "row", "flush"}
    /\ faults < MaxFaults /\ faults' = faults + 1
    /\ SkipBook
    /\ DiskStays /\ UNCHANGED <<run, index>>

MarkIndexed ==
    /\ pc = "mark"
    /\ indexed' = indexed \cup {book}
    /\ home' = [home EXCEPT ![book] = run.structure]
    /\ StepDone
    /\ UNCHANGED <<datalake, metadata, downloaded, stored, faults, run, skipped, index>>

-----------------------------------------------------------------------------
(* download(): fetch and split, save the header, then the body, then mark.  *)

\* A 404, a network failure or a missing marker: nothing is saved.
NotAvailable ==
    /\ pc = "fetch"
    /\ run.source = "online" \/ book \notin Available[run.source] \cap Splittable
    /\ SkipBook
    /\ DiskStays /\ UNCHANGED <<faults, run, index>>

Fetch ==
    /\ pc = "fetch"
    /\ book \in Available[run.source] \cap Splittable
    /\ folder' \in FoldersOf(run.layout, book)
    /\ pc' = "header"
    /\ DiskStays /\ RunGoesOn /\ UNCHANGED <<index, book, todo>>

SaveHeader ==
    /\ pc = "header"
    /\ headers' = headers \cup {<<folder, book>>}
    /\ pc' = "body"
    /\ RunGoesOn /\ UNCHANGED <<bodies, metadata, logs, stored, index, cursor>>

SaveBody ==
    /\ pc = "body"
    /\ bodies' = bodies \cup {<<folder, book>>}
    /\ pc' = "markDownloaded"
    /\ RunGoesOn /\ UNCHANGED <<headers, metadata, logs, stored, index, cursor>>

DownloadFails ==
    /\ pc \in {"header", "body"}
    /\ faults < MaxFaults /\ faults' = faults + 1
    /\ SkipBook
    /\ DiskStays /\ UNCHANGED <<run, index>>

MarkDownloaded ==
    /\ pc = "markDownloaded"
    /\ downloaded' = downloaded \cup {book}
    /\ StepDone
    /\ UNCHANGED <<datalake, metadata, indexed, home, stored, faults, run, skipped, index>>

-----------------------------------------------------------------------------
Choose   == ChooseToIndex \/ ChooseToDownload \/ FinishRun
Index    == \/ MissingFromDatalake \/ ReadBook \/ SaveRow \/ AddDocument
            \/ FlushJson \/ FlushTerm \/ FlushEnds \/ MarkIndexed
Download == NotAvailable \/ Fetch \/ SaveHeader \/ SaveBody \/ MarkDownloaded

Proceed == Choose \/ Index \/ Download

Fail == Kill \/ IndexFails \/ DownloadFails

Next == StartRun \/ Proceed \/ Fail

Spec == Init /\ [][Next]_vars

(* A started run proceeds, the user starts another one when it has ended,   *)
(* and a fetch that is tried again and again succeeds some day.             *)
FairSpec == Spec /\ WF_vars(StartRun) /\ WF_vars(Proceed) /\ SF_vars(Fetch)

-----------------------------------------------------------------------------
(* The typing of the state.                                                 *)
TypeOK ==
    /\ headers \subseteq Folders \X Books /\ bodies \subseteq Folders \X Books
    /\ metadata \in [Books -> {None} \cup Folders]
    /\ downloaded \subseteq Books /\ indexed \subseteq Books
    /\ stored \in [Structures -> [Terms -> SUBSET Books]]
    /\ home \in [Books -> {None} \cup Structures]
    /\ faults \in 0 .. MaxFaults
    /\ run \in Runs
    /\ pc \in {"off", "loop", "locate", "row", "add", "flush", "mark",
               "fetch", "header", "body", "markDownloaded"}
    /\ steps \in Nat
    /\ skipped \subseteq Books
    /\ index \in [Terms -> SUBSET Books]
    /\ book \in {None} \cup Books
    /\ folder \in {None} \cup Folders
    /\ todo \subseteq Terms

(* A row names a folder that has both files of its book, in whatever layout *)
(* and hour that was, and although other copies may have been left there by *)
(* interrupted downloads.                                                   *)
RowsNameCompleteCopies ==
    \A b \in Books : metadata[b] # None => Complete(metadata[b], b)

Served(s, b) == \A t \in TermsOf[b] : b \in stored[s][t]

(* At every moment, not only between steps, a book marked indexed is found  *)
(* under all its terms in the structure it was indexed in.  So no later     *)
(* run, with this or another structure, complete or interrupted, hides it.  *)
EveryIndexedBookStaysServed ==
    \A b \in indexed : home[b] # None /\ Served(home[b], b)

(* Nothing done is done again ("without repeating", java README, Resuming): *)
(* no file of a marked book is written, and an indexed book keeps its home. *)
NothingIsRepeated ==
    [][/\ \A p \in (headers' \ headers) \cup (bodies' \ bodies) : p[2] \notin downloaded
       /\ \A b \in indexed : home'[b] = home[b] /\ metadata'[b] = metadata[b]]_vars

(* The structures keep what IndexPromise promises of them.                  *)
Promise == INSTANCE IndexPromise WITH
    known   <- {b \in Books : metadata[b] # None},
    visible <- stored,
    done    <- {p \in Structures \X Books : p[2] \in indexed /\ home[p[2]] = p[1]}

StructuresKeepTheirPromise == Promise!Spec

\* A book can be reached when each source lists it, has it and it splits.
Reachable(b) == \A s \in Sources :
    /\ \E i \in DOMAIN ListOf[s] : ListOf[s][i] = b
    /\ b \in Available[s] \cap Splittable

(* The books this run cannot bring further: not in the source, without      *)
(* markers, or not where the layout looks.  Each costs it a step, counted   *)
(* although it failed (PipelineController.java:66).                         *)
InTheWay == {c \in Books \ (indexed \cup skipped) :
    IF c \in downloaded
      THEN ~Located(c)
      ELSE /\ \E i \in DOMAIN Candidates : Candidates[i] = c
           /\ c \notin Available[run.source] \cap Splittable}

StepsToSpare == pc = "loop" /\ steps > Cardinality(InTheWay)

(* Books that cannot be had block no other if again and again a run has     *)
(* more steps than there are such books: every book that can be reached is  *)
(* indexed in the end, if among those runs there is always one more whose   *)
(* layout has it.  With fewer steps they do block it: which books failed is *)
(* forgotten with the run (skippedThisRun), and the next one spends its     *)
(* steps on them again.                                                     *)
ReachableBooksGetIndexed ==
    \A b \in {c \in Books : Reachable(c)} :
        []<>(StepsToSpare /\ (b \in downloaded => Located(b))) => <>(b \in indexed)

-----------------------------------------------------------------------------
(* What makes the invariants inductive.                                     *)

Indexing == {"locate", "row", "add", "flush", "mark"}
Downloading == {"fetch", "header", "body", "markDownloaded"}

(* Where a book is being processed, there is a book, and a step left to pay *)
(* for it; what it is saved to or read from is known when it is needed; a   *)
(* book being indexed is not marked yet.                                    *)
Cursor ==
    /\ pc \in Indexing => book \in Books \ indexed
    /\ pc \in Downloading => book \in Books
    /\ pc \in {"row", "header", "body"} => folder \in Folders
    /\ pc \in Indexing \cup Downloading => steps > 0

(* What is done again is not done yet: the row about to be written names a  *)
(* folder whose copy is whole, and the book on its way is not marked.       *)
NothingDoneIsUnderWay ==
    /\ RowsNameCompleteCopies
    /\ pc = "row" => Complete(folder, book)
    /\ pc \in Downloading => book \notin downloaded

TruePosting(b, t) == metadata[b] # None /\ t \in TermsOf[b]

(* Every posting in memory or stored is true, and its book is known.        *)
PostingsAreTrue ==
    /\ \A t \in Terms : \A b \in index[t] : TruePosting(b, t)
    /\ \A s \in Structures, t \in Terms : \A b \in stored[s][t] : TruePosting(b, t)

(* The index in memory never lacks what the JSON file has, or the next      *)
(* flush would delete it.                                                   *)
NothingToLose ==
    pc # "off" /\ Monolithic => \A t \in Terms : stored["monolithic"][t] \subseteq index[t]

(* How far the book being indexed has come.                                 *)
IndexUnderWay ==
    /\ pc \in {"add", "flush", "mark"} => metadata[book] # None
    /\ pc = "flush" => \A t \in TermsOf[book] :
          IF Monolithic THEN book \in index[t]
          ELSE (t \in todo /\ book \in index[t]) \/ book \in stored[run.structure][t]
    /\ pc = "mark" => Served(run.structure, book)

PromiseInv == /\ TypeOK /\ Cursor /\ PostingsAreTrue /\ NothingToLose
              /\ IndexUnderWay /\ EveryIndexedBookStaysServed
=============================================================================
