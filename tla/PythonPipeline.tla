--------------------------- MODULE PythonPipeline ---------------------------
(***************************************************************************)
(* The Python pipeline: `main pipeline [steps] [--offline-source dir]`,    *)
(* run again and again over one data folder.  A run goes once through the  *)
(* list; it saves each book that is not indexed yet to three datalakes and *)
(* adds it to three indexes, of which MongoDB's only when the server       *)
(* answered at the start.  Files are moved into place, so none is ever     *)
(* half-written.  Nothing is caught after the fetch: a failure there ends  *)
(* the run, so what a hierarchical or MongoDB index has pending is never   *)
(* more than the terms of one book.                                        *)
(***************************************************************************)
EXTENDS Integers, Sequences, FiniteSets

CONSTANTS
    Books,          \* the book ids
    Terms,          \* the terms of all books
    TermsOf,        \* [Books -> SUBSET Terms]: tokenize of a body
    BookIds,        \* Seq(Books): load_book_ids, which may repeat an id
    Sources,        \* "online" and/or "offline"
    Available,      \* [Sources -> SUBSET Books]: what each source has
    Splittable,     \* the books with both START and END markers
    RangeSize,      \* 1000 in the code: books per folder of "range"
    Hours,          \* the hours in which a book may be saved
    Servers,        \* whether MongoDB may answer: some of TRUE, FALSE
    StepCounts,     \* the values of steps; Len(BookIds) or more stands for none
    MaxFaults,      \* bound: runs killed or ended by an exception
    None            \* no book

Layouts    == {"book", "time", "range"}
Structures == {"monolithic", "hierarchical", "mongo"}
Parts      == {"header", "body"}

Runs == [source : Sources, server : Servers]

PythonAssumption ==
    /\ Books \subseteq Nat /\ IsFiniteSet(Terms) /\ None \notin Books
    /\ TermsOf \in [Books -> SUBSET Terms]
    /\ BookIds \in Seq(Books)
    /\ Sources # {} /\ Sources \subseteq {"online", "offline"}
    /\ Available \in [Sources -> SUBSET Books]
    /\ RangeSize \in Nat \ {0} /\ Hours # {} /\ Hours \subseteq Nat
    /\ Servers # {} /\ Servers \subseteq BOOLEAN
    /\ StepCounts \subseteq Nat /\ MaxFaults \in Nat

ASSUME PythonAssumption

VARIABLES
    saved,          \* the files of the datalakes: [layout, at, book, part]
    rows,           \* the books with a row in SQLite
    downloaded,     \* ids in downloaded_books.txt
    indexed,        \* ids in indexed_books.txt
    stored,         \* the postings each structure holds
    inMongo,        \* history: books marked by a run that had the server
    faults,         \* faults so far
    run,            \* source and server of the current (or the last) run
    pc,             \* where the current run is; "off" between runs
    steps,          \* steps - processed
    place,          \* place of the loop in BookIds
    index,          \* the monolithic index in memory
    unsaved,        \* the <<layout, part>> the book still has to be written to
    hour,           \* what the clock of the time layout says
    pending         \* the terms of the book still to be flushed

disk   == <<saved, rows, downloaded, indexed, stored, inMongo>>
vars   == <<disk, faults, run, pc, steps, place, index, unsaved, hour, pending>>

-----------------------------------------------------------------------------
EmptyIndex == [t \in Terms |-> {}]

AddBook(ix, b, ts) == [t \in Terms |-> IF t \in ts THEN ix[t] \cup {b} ELSE ix[t]]

\* The folder each layout saves a book to at that hour.
FolderOf(l, b, h) ==
    CASE l = "book" -> b
      [] l = "time" -> h
      [] l = "range" -> b \div RangeSize

File(l, b, h, p) == [layout |-> l, at |-> FolderOf(l, b, h), book |-> b, part |-> p]

Files == {File(l, b, h, p) : l \in Layouts, b \in Books, h \in Hours, p \in Parts}

Complete(l, b, h) == \A p \in Parts : File(l, b, h, p) \in saved

Located(l, b) == \E h \in Hours : Complete(l, b, h)

\* Mutant of FilesToSave: the range layout is left out.
FilesOfTwoLayouts == << <<"book", "header">>, <<"book", "body">>,
                        <<"time", "header">>, <<"time", "body">> >>

\* The order in which main saves a book.
FilesToSave == << <<"book", "header">>, <<"book", "body">>, <<"time", "header">>,
                  <<"time", "body">>, <<"range", "header">>, <<"range", "body">> >>


InList == place <= Len(BookIds)

book == IF InList THEN BookIds[place] ELSE None

DiskStays == UNCHANGED disk

RunGoesOn == UNCHANGED <<faults, run, steps, place>>

\* The process ends; what it held in memory is gone.
Exit ==
    /\ pc' = "off" /\ steps' = 0 /\ place' = 1 /\ index' = EmptyIndex
    /\ unsaved' = <<>> /\ hour' = (CHOOSE h \in Hours : TRUE) /\ pending' = {}
    /\ UNCHANGED run

-----------------------------------------------------------------------------
(* Mutants: the actions below with a mistake someone might make in the      *)
(* code.  No specification uses them; each shows that a property can fail.  *)

\* processed > steps instead of >=.
FetchOneMore ==
    /\ pc = "next" /\ InList
    /\ book \in (Available[run.source] \cap Splittable) \ indexed
    /\ hour' \in Hours
    /\ unsaved' = FilesToSave
    /\ pc' = "save"
    /\ DiskStays /\ RunGoesOn /\ UNCHANGED <<index, pending>>

\* A failed fetch is counted as processed.
FetchFailsCounting ==
    /\ pc = "next" /\ steps > 0 /\ InList
    /\ book \notin indexed
    /\ run.source = "online" \/ book \notin Available[run.source] \cap Splittable
    /\ place' = place + 1 /\ steps' = steps - 1
    /\ DiskStays /\ UNCHANGED <<faults, run, pc, index, unsaved, hour, pending>>

\* The row is left for later.
MarkDownloadedWithoutRow ==
    /\ pc = "save" /\ unsaved = <<>>
    /\ downloaded' = downloaded \cup {book}
    /\ pc' = "add"
    /\ RunGoesOn
    /\ UNCHANGED <<saved, rows, indexed, stored, inMongo, index, unsaved, hour, pending>>

\* The flush returns before the last file is moved.
FilesFlushedTooEarly ==
    /\ pc = "hierarchical" /\ Cardinality(pending) <= 1
    /\ IF run.server THEN pc' = "mongo" /\ pending' = TermsOf[book]
                     ELSE pc' = "mark" /\ pending' = {}
    /\ DiskStays /\ RunGoesOn /\ UNCHANGED <<index, unsaved, hour>>

-----------------------------------------------------------------------------
Init ==
    /\ saved = {} /\ rows = {} /\ downloaded = {} /\ indexed = {}
    /\ stored = [s \in Structures |-> EmptyIndex]
    /\ inMongo = {} /\ faults = 0
    /\ run \in Runs
    /\ pc = "off" /\ steps = 0 /\ place = 1 /\ index = EmptyIndex
    /\ unsaved = <<>> /\ hour = (CHOOSE h \in Hours : TRUE) /\ pending = {}

\* The control files, the JSON index and, if the server answers, MongoDB.
StartRun ==
    /\ pc = "off"
    /\ run' \in Runs
    /\ steps' \in StepCounts
    /\ index' = stored["monolithic"]
    /\ pc' = "next"
    /\ DiskStays /\ UNCHANGED <<faults, place, unsaved, hour, pending>>

\* Killed, or ended by an exception of the disk, SQLite or MongoDB.
Fail ==
    /\ pc # "off"
    /\ faults < MaxFaults /\ faults' = faults + 1
    /\ Exit
    /\ DiskStays

Finish ==
    /\ pc = "next"
    /\ steps <= 0 \/ ~InList
    /\ Exit
    /\ DiskStays /\ UNCHANGED faults

SkipIndexed ==
    /\ pc = "next" /\ steps > 0 /\ InList
    /\ book \in indexed
    /\ place' = place + 1
    /\ DiskStays /\ UNCHANGED <<faults, run, pc, steps, index, unsaved, hour, pending>>

\* fetch_book returns None: network, missing file or missing markers.
FetchFails ==
    /\ pc = "next" /\ steps > 0 /\ InList
    /\ book \notin indexed
    /\ run.source = "online" \/ book \notin Available[run.source] \cap Splittable
    /\ place' = place + 1
    /\ DiskStays /\ UNCHANGED <<faults, run, pc, steps, index, unsaved, hour, pending>>

\* A book that is marked downloaded is fetched again too.
Fetch ==
    /\ pc = "next" /\ steps > 0 /\ InList
    /\ book \in (Available[run.source] \cap Splittable) \ indexed
    /\ hour' \in Hours
    /\ unsaved' = FilesToSave
    /\ pc' = "save"
    /\ DiskStays /\ RunGoesOn /\ UNCHANGED <<index, pending>>

SaveFile ==
    /\ pc = "save" /\ unsaved # <<>>
    /\ saved' = saved \cup {File(Head(unsaved)[1], book, hour, Head(unsaved)[2])}
    /\ unsaved' = Tail(unsaved)
    /\ RunGoesOn
    /\ UNCHANGED <<rows, downloaded, indexed, stored, inMongo, pc, index, hour, pending>>

MarkDownloaded ==
    /\ pc = "save" /\ unsaved = <<>>
    /\ downloaded' = downloaded \cup {book}
    /\ pc' = "row"
    /\ RunGoesOn
    /\ UNCHANGED <<saved, rows, indexed, stored, inMongo, index, unsaved, hour, pending>>

\* INSERT OR REPLACE with the paths of the book layout, which never change.
SaveRow ==
    /\ pc = "row"
    /\ rows' = rows \cup {book}
    /\ pc' = "add"
    /\ RunGoesOn
    /\ UNCHANGED <<saved, downloaded, indexed, stored, inMongo, index, unsaved, hour, pending>>

AddDocument ==
    /\ pc = "add"
    /\ index' = AddBook(index, book, TermsOf[book])
    /\ pending' = TermsOf[book]
    /\ pc' = "monolithic"
    /\ DiskStays /\ RunGoesOn /\ UNCHANGED <<unsaved, hour>>

FlushJson ==
    /\ pc = "monolithic"
    /\ stored' = [stored EXCEPT !["monolithic"] = index]
    /\ pc' = "hierarchical"
    /\ RunGoesOn
    /\ UNCHANGED <<saved, rows, downloaded, indexed, inMongo, index, unsaved, hour, pending>>

\* One term file is merged and replaced, or one document updated.
FlushTerm ==
    /\ pc \in {"hierarchical", "mongo"}
    /\ \E t \in pending :
          /\ stored' = [stored EXCEPT ![pc][t] = @ \cup {book}]
          /\ pending' = pending \ {t}
    /\ RunGoesOn
    /\ UNCHANGED <<saved, rows, downloaded, indexed, inMongo, pc, index, unsaved, hour>>

FilesFlushed ==
    /\ pc = "hierarchical" /\ pending = {}
    /\ IF run.server THEN pc' = "mongo" /\ pending' = TermsOf[book]
                     ELSE pc' = "mark" /\ UNCHANGED pending
    /\ DiskStays /\ RunGoesOn /\ UNCHANGED <<index, unsaved, hour>>

DocumentsFlushed ==
    /\ pc = "mongo" /\ pending = {}
    /\ pc' = "mark"
    /\ DiskStays /\ RunGoesOn /\ UNCHANGED <<index, unsaved, hour, pending>>

MarkIndexed ==
    /\ pc = "mark"
    /\ indexed' = indexed \cup {book}
    /\ inMongo' = IF run.server THEN inMongo \cup {book} ELSE inMongo
    /\ steps' = steps - 1 /\ place' = place + 1
    /\ pc' = "next"
    /\ UNCHANGED <<saved, rows, downloaded, stored, faults, run, index, unsaved, hour, pending>>

Proceed ==
    \/ Finish \/ SkipIndexed \/ FetchFails \/ Fetch
    \/ SaveFile \/ MarkDownloaded \/ SaveRow \/ AddDocument
    \/ FlushJson \/ FlushTerm \/ FilesFlushed \/ DocumentsFlushed \/ MarkIndexed

Next == StartRun \/ Proceed \/ Fail

Spec == Init /\ [][Next]_vars

(* A started run proceeds, the user starts another one when it has ended,   *)
(* and a fetch that is tried again and again succeeds some day.             *)
FairSpec == Spec /\ WF_vars(StartRun) /\ WF_vars(Proceed) /\ SF_vars(Fetch)

-----------------------------------------------------------------------------
(* The typing of the state.                                                 *)
TypeOK ==
    /\ saved \subseteq Files
    /\ rows \subseteq Books /\ downloaded \subseteq Books
    /\ indexed \subseteq Books /\ inMongo \subseteq Books
    /\ stored \in [Structures -> [Terms -> SUBSET Books]]
    /\ faults \in 0 .. MaxFaults
    /\ run \in Runs
    /\ pc \in {"off", "next", "save", "row", "add", "monolithic", "hierarchical", "mongo", "mark"}
    /\ steps \in Nat
    /\ place \in 1 .. Len(BookIds) + 1
    /\ index \in [Terms -> SUBSET Books]
    /\ unsaved \in Seq(Layouts \X Parts)
    /\ hour \in Hours
    /\ pending \subseteq Terms

(* A book marked downloaded is whole in each of the three datalakes, in     *)
(* some one hour of the time layout: the mark comes after six files         *)
(* (main.py:199-202), whatever copies interrupted runs have left behind.    *)
MarkedBooksAreInEveryDatalake ==
    \A b \in downloaded, l \in Layouts : Located(l, b)

(* The three indexes are written one after the other, and a run that fails  *)
(* in between is never continued: MongoDB never has a posting that the term *)
(* files lack, nor these one that the JSON file lacks.                      *)
IndexesFollowInOrder ==
    \A t \in Terms :
        /\ stored["mongo"][t] \subseteq stored["hierarchical"][t]
        /\ stored["hierarchical"][t] \subseteq stored["monolithic"][t]

Reported(s) == IF s = "mongo" THEN inMongo ELSE indexed

(* "A book is marked as indexed only after its three indexes have been      *)
(* flushed" (README:109), and no later run loses it: it is found under all  *)
(* its terms, in MongoDB too if the run that marked it had the server.      *)
EveryIndexedBookStaysServed ==
    \A s \in Structures : \A b \in Reported(s) : \A t \in TermsOf[b] : b \in stored[s][t]

(* The structures keep what IndexPromise promises of them.                  *)
Promise == INSTANCE IndexPromise WITH
    known   <- rows,
    visible <- stored,
    done    <- {d \in Structures \X Books : d[2] \in Reported(d[1])}

StructuresKeepTheirPromise == Promise!Spec

(* Whatever fails, a book of the list that every source has and that can be *)
(* split is indexed in the end: a book that cannot costs no step, so it     *)
(* does not take the place of those behind it.                              *)
ReachableBooksGetIndexed ==
    \A b \in {BookIds[i] : i \in DOMAIN BookIds} \cap Splittable :
        (\A s \in Sources : b \in Available[s]) => <>(b \in indexed)

-----------------------------------------------------------------------------
(* The invariant that PythonProofs shows to be inductive.                   *)

\* While a book is under way it is in the list, and its step is still to count.
AtABook == pc \notin {"off", "next"} => InList /\ steps > 0

\* Postings are true and follow the row, on disk and in memory.
TruePostings(ix) == \A t \in Terms : \A b \in ix[t] : b \in rows /\ t \in TermsOf[b]

PostingsAreTrue == (\A s \in Structures : TruePostings(stored[s])) /\ TruePostings(index)

\* The index in memory never lacks what the JSON file has.
NothingToLose == pc # "off" => \A t \in Terms : stored["monolithic"][t] \subseteq index[t]

\* Each file of the book under way is there or still to be written.
SavingUnderWay ==
    pc = "save" => \A l \in Layouts, p \in Parts :
        \/ File(l, book, hour, p) \in saved
        \/ \E i \in DOMAIN unsaved : unsaved[i] = <<l, p>>

In(s, b) == \A t \in TermsOf[b] : b \in stored[s][t]

InUnless(s, b, ts) == \A t \in TermsOf[b] \ ts : b \in stored[s][t]

\* How far the book under way has come.
IndexUnderWay ==
    /\ pc \in {"add", "monolithic", "hierarchical", "mongo", "mark"} => book \in rows
    /\ pc \in {"hierarchical", "mongo"} => pending \subseteq TermsOf[book]
    /\ pc = "monolithic" =>
          pending = TermsOf[book] /\ \A t \in TermsOf[book] : book \in index[t]
    /\ pc \in {"hierarchical", "mongo", "mark"} => In("monolithic", book)
    /\ pc = "hierarchical" => InUnless("hierarchical", book, pending)
    /\ pc \in {"mongo", "mark"} => In("hierarchical", book)
    /\ pc = "mongo" => run.server /\ InUnless("mongo", book, pending)
    /\ pc = "mark" /\ run.server => In("mongo", book)

TypeInv == TypeOK /\ AtABook

PromiseInv ==
    /\ PostingsAreTrue /\ NothingToLose /\ IndexUnderWay
    /\ IndexesFollowInOrder /\ EveryIndexedBookStaysServed

SavedInv == SavingUnderWay /\ MarkedBooksAreInEveryDatalake
=============================================================================
