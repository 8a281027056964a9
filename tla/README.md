# Specifications of the Stage 1 data layer

The repository builds the data layer of a search engine over Project Gutenberg books three times,
in C++, Java and Python, against one contract (`src/shared/SPEC.md`). This directory holds TLA+
models of its programs, what TLC checks of them, and what the TLA+ proof system proves about them.

## 1. Inventory

Each implementation is a command-line program over one data folder. All of them have the same
layers; what follows names the C++ files, the other two differ where noted.

| component | state it keeps | operations | hard behaviour |
|---|---|---|---|
| pipeline (`cli_commands.cpp`, `control/pipeline.cpp`; `PipelineController.java`, `Indexer.java`; `main.py`) | the step under way, the steps left, the index in memory | one step: index the first waiting book, else download the first missing one; `status` prints what is pending | killed between any two writes; the next run may have another layout, structure, list |
| control layer (`control/control_log.cpp`; `ControlFiles.java`; `state_manager.py`) | `downloaded_books.txt`, `indexed_books.txt`, and the sets read from them | load, contains, mark (append, then record) | a line cut short; a mark without its work, work without its mark |
| datalake (`datalake/*.cpp`; `AbstractFileDatalake.java` and subclasses; `datalake/base.py`) | a body and a header file per book, in a folder by book, by range of ids, or by hour | write/save, locate, list ids | one file of two written; a book twice under the time layout; in C++ files are written in place, in Java and Python moved into place |
| metadata store (`metadata_store.cpp`; `SqliteMetadataRepository.java`; `repository.py`) | a SQLite row per book, with the paths of its files | upsert one or a batch, find by id, author, title; clear | a row that names files of another layout or hour; a batch that fails in the middle or at its COMMIT; readers and writers that lock each other out |
| inverted index (`inverted_index.cpp`, `*_index_writer.cpp`; `MonolithicJsonIndex`, `HierarchicalFolderIndex`, `MongoInvertedIndex`; `datamart/index/*.py`) | term to posting list: one JSON file, one file per term, or one MongoDB document per term | add a book; write everything; update the terms of a book; read a posting list | structures written term by term; switching structure; deleting before rewriting |
| query engine (`query_engine.cpp`; `SearchService.java`; `search_service.py`) | none | AND of posting lists | reads what another process is writing; lists another language stored in its own order |
| crawler (`crawler/*`) | none | fetch, split at the START and END markers | a book that does not exist or has no markers; a server that does not answer; a text that arrives in part and nobody notices |
| header parser and tokenizer (`metadata.cpp`, `tokenizer.cpp`) | none | the fields of a header; the terms of a body | patterns that cross line ends; words at the border of the text |
| configuration (`app_config.cpp`, `AppConfig.java`) | none | which layout, structure, folders | precedence of sources |
| benchmarks | temporary folders | time, disk and memory of the structures; crash recovery of the datalake | clock ties, cleaning up |

Interactions: the pipeline calls the others in a fixed order (fetch, split, write the files, row,
mark; read, tokenise, add, persist, mark) inside one process and one thread; there are no callbacks
and no locks. What couples components is the data folder: each run rereads the control files, and
trusts or rebuilds what earlier runs left, under whichever configuration each of them had. Search is
another process over the same folder and the same MongoDB collection.

What makes each of them correct:

* control layer: a mark is there exactly when its work is complete, none is invented or lost, and
  books are done in order, once;
* crawler, parser, tokenizer: a book is saved whole or not at all, its fields come from their lines, its
  terms are its words, and the three programs make the same of it;
* datalake and rows: a book marked downloaded can be read, body and header, where its row says;
* metadata store: the table holds what the calls that returned left, a batch goes in whole or not at
  all, and the rows of an answer are of one state of the table;
* index: the structure in use holds every book marked indexed, and nothing false;
* pipeline: an interrupted run resumes, repairs what the interruption left before relying on it, and
  every book that can be processed is processed in the end;
* `status`: what it calls pending is downloaded and not indexed;
* search: it answers with the intersection of the lists it read, names no book that does not match,
  and misses none that was indexed before it started.

`PROJECT.json` lists the components with what is modelled of each, and the hazards: the places in the
code where one of these could go wrong in a way a test would hardly reach.

## 2. The modules

| module | what it is |
|---|---|
| `Pipeline` | the C++ pipeline over one data folder, run after run |
| `Status` | the C++ `status` command beside that pipeline |
| `BookLifecycle` | the abstract promise of the control layer: books in list order, downloaded then indexed, once |
| `ControlFile` | one control file, digit by digit, with the loaders of the three languages and a bystander that trims it |
| `JavaPipeline` | the Java pipeline over one data folder, run after run |
| `PythonPipeline` | the Python pipeline over one data folder, run after run |
| `IndexPromise` | the abstract promise of the index structures, which the Java and the Python pipeline implement |
| `Search` | `search` in the three languages beside the processes that write the index, the shared MongoDB collection included |
| `Datalake` | saving, locating, listing and recovering books, file operation by file operation, in the three languages |
| `MetadataStore` | the connections of the three languages to one metadata database, over SQLite's locks |
| `BookText` | the text of one book on its way to a header, a body, fields and terms, in the three languages |
| `PipelineProofs` | the proofs about `Pipeline` and `Status` |
| `ControlFileProofs`, `JavaProofs`, `PythonProofs`, `DatalakeProofs`, `SearchProofs`, `MetadataStoreProofs`, `BookTextProofs` | the proofs about the module each is named after |
| `MCPipeline`, `MCStatus` (which extends it), `MCControlFile`, `MCJavaPipeline`, `MCPythonPipeline`, `MCDatalake`, `MCSearch`, `MCMetadataStore`, `MCBookText` | the instances TLC checks |

`Pipeline` and `BookLifecycle`, `JavaPipeline` and `IndexPromise`, `PythonPipeline` and `IndexPromise`
are related by refinement. `ControlFile`, `Datalake`, `MetadataStore`, `BookText` and `Search` open up, for all
three languages, what the pipelines take in one step (a control file, a row), in few (saving a book), as a
choice (whether a fetch succeeds and a book can be split) or as a set (the terms of a body, a posting list).
`Status` composes `Pipeline` with a reader of its logs. `Search`
also composes them: up to three pipelines and a search share one structure, each pipeline reduced to what
it does to that structure, its rows and its marks.

### Pipeline

State. On disk: `body` and `header` (absent, torn, whole, per folder and book), `metadata` (the
folder a row's paths name), `downloadedLog` and `indexedLog`, `stored` (per structure and term a set
of books, or `None` for no file, key or document) and `jsonFile`. In memory: `downloaded`, `indexed`
(`ControlLog::recorded_`), `index` (`InvertedIndex`), and the place the run has reached (`pc`,
`steps`, `book`, `folder`, `todo`, `opened`). `run` is the configuration of the current run: mode
(list and source), structure, layout. `faults` counts interruptions and lost writes for the bound only.

Actions. `StartRun` is `run_pipeline_command` up to line 162: it picks a configuration and a number
of steps, loads the logs and rebuilds the index from the bodies of the candidates that are marked
indexed and have a row. `CheckFails`, `TrustIndex` and `RewriteIndex` are lines 164-174: the stored
structure is compared with the rebuilt index by its number of terms only. `ChooseToIndex`,
`ChooseToDownload` and `FinishRun` are the loop and `next_control_action`. A download is
`FetchSucceeds` or `FetchFails`, then one action per write of `perform_download`: body opened and
filled, header opened and filled, row, mark. Indexing is `IndexBook` and then the writes of the
structure (`OpenJson`, `FillJson`; `RemoveTermFile`, `FolderRemoved`, `OpenTermFile`, `FillTermFile`;
`DeleteDocuments`, `PutDocument`; `IndexWritten`), then `MarkIndexed`. A step that fails ends the run
(`FetchFails`). `Kill` ends the process between any two of these, which stands for a signal, a power
cut of the process and for exceptions of the environment.

Abstractions. A text is the set of its terms. A file that was opened with truncation and not written to its
end is `torn`. A body may be torn anywhere: reading it gives some of the terms of the book and perhaps one of
`CutWordsOf`, what a word of it cut short may be (`PartsOf`), and how much of it there is is left open at every
reading (`BodyReadings`; `StartRun` reads all bodies of `Rebuilt`, `IndexBook` one). No run opens the body of a
book it counts as downloaded, so this matters only where short writes are lost: a book marked indexed whose
downloaded mark was lost is downloaded again, a kill tears its body, and the next run rebuilds its index from
the part. That is why `StoredPostingsAreTrue` speaks of `TrueTerm`: with two faults, a cut word can be
a posting. Bytes written to a stream and closed are on the disk: a loss of the operating system's own
cache is outside the model. With `ShortWritesMayVanish`, the short writes (header, term file, log
line) may be lost without an exception, because `write_text_file` and `ControlLog::mark` test the
stream before its buffer is flushed. `ConfigChanges = FALSE` restricts the environment to runs that
keep the configuration of the first one.

### Status

`run_status_command` in another process: `LoadLog` is the constructor of a `ControlLog`, once per file in the
order of the code, `PrintStatus` the lines and the end of the process, `Pending` the set difference it
prints. Every action of `Pipeline` may come between the two loads. `status` writes nothing.

### BookLifecycle

The abstract specification of the two logs for one list. `BooksInOrderOnceEach` says that `Pipeline`
implements it, with the two log files for its variables: `MarkDownloaded` maps to `Download`,
`MarkIndexed` to `Index`, everything else stutters, a kill included.

### ControlFile

The file is a sequence of complete lines and a tail without newline, over numerals as sequences of
digits, because what matters is that a prefix of an id can be an id and that two ids can be glued.
`Mark` is an append that completes, `MarkTorn` one cut after n digits, after which the process is gone: killed,
or ended by the exception of a full disk. C++ need not notice the full disk: `ControlLog::mark` tests the stream
before its buffer is written out (`control_log.cpp:51-56`), so with `MarkShort` the line is cut or lost, and mark()
returns, records the id and the run goes on. The two loaders differ:
`LoadCpp` takes the tail for a line, `LoadTrimming` (Java and Python) ignores it and cuts it off.
`marked` and `confirmed` are history: the ids whose work was finished, and whose mark returned; `tears` counts
the appends cut short, `unnoticed` those of them after which the process went on.

`search` and `status` of Java and Python load the files too, and trim them. `BystanderReads` finds a tail and
computes the length to keep, `BystanderTrims` truncates the file to it, and between the two a pipeline may
start, trim the same tail itself and append marks; `cut` is history, the ids taken from the file in this way.
The Python pipeline asks the file again and sees the cut, the Java one has its set.

### JavaPipeline

State. On disk: `headers` and `bodies` (which folder has the file of which book; a file that is moved
into place is never torn, and a `.tmp` left behind is never read), `metadata`, `downloaded`, `indexed`,
`stored`. In memory: `skipped` (`skippedThisRun`), `index` (the whole map of `MonolithicJsonIndex`, the
pending postings of the other two) and the place the run has reached. `home` is history: the structure
in which a book was marked indexed. `ControlFiles` writes to disk and then to its sets, and nothing comes
between, so one variable stands for file and set; how the file is read after a cut is `ControlFile`.

Actions. `StartRun` opens a run with any source, structure and layout and loads the JSON map. The loop
is `ChooseToIndex`, `ChooseToDownload`, `FinishRun`. A download is `NotAvailable` or `Fetch`, then
`SaveHeader`, `SaveBody`, `MarkDownloaded`; indexing is `MissingFromDatalake` or `ReadBook`, `SaveRow`,
`AddDocument`, the flush (`FlushJson`, or one `FlushTerm` per term and `FlushEnds`), `MarkIndexed`. A
step that fails (`NotAvailable`, `MissingFromDatalake`, `DownloadFails`, `IndexFails`) skips its book
and the run goes on; what was not flushed stays pending and goes out with the next book. A term that
was flushed before the failure is pending still, and written again: the union does not change.

A failed step is counted (`PipelineController.java:66`), and `skippedThisRun` is gone with the process. So a book
that cannot be had costs every run one step, and runs of fewer steps than there are such books (`InTheWay`) in
front of the others never get past them: `pipeline 1` over a list that begins with a book without markers does
nothing, however often it is run. `ReachableBooksGetIndexed` is stated of runs with `StepsToSpare`.

### PythonPipeline

State. `saved` is the set of files of the three datalakes (layout, folder, book, header or body), `rows`
the books with a row, `stored` the three indexes, all written in one run. `inMongo` is history: the books
marked indexed by a run that had the server. `place` is the position in the list, `unsaved` the files the
book still has to be written to, `pending` the terms still to be flushed.

Actions. A run goes once through the list (`SkipIndexed`, `FetchFails`, or `Fetch`), writes the six
files one by one (`SaveFile`), marks, writes the row, adds, flushes the JSON, each term file and, when
`run.server`, each document, and marks. Nothing is caught after the fetch, so a failure there is the
same as a kill: the run ends and the memory is lost.

### IndexPromise

Three variables: the books known (they have a row), the postings visible per structure, and the pairs
of structure and book reported as indexed. `Reveal` adds any number of true postings of known books and
takes none away, `Finish` reports a book for structures where all its terms are visible. Both pipelines
map onto it; a flush maps to `Reveal`, a mark to `Finish`, for Python of two or three structures at once.

### Search

State. `setting` fixes one structure and the languages that write it: one language, but for the MongoDB
collection, which the three share. `store` has the posting lists as sequences, because order matters here;
`hollow` the term files that were truncated and not yet filled (empty, and counted by the check of C++),
`readable` whether the JSON file parses. Per language: `job` (where its run is), `pending` (postings added
and not flushed), `rows`, `marked`. The search has the local variables of the code: `opened` (the JSON as
it was read), `unread`, `lists`, `result`, `current`, the pointers `i` and `j`, `out`. `served` is history:
the matching books that were marked when it began.

Actions of the writers. C++ runs the check and, if it fails, `write()`: `ClearTerm` and `OpenTermFile`,
`FillTermFile` or `InsertDocument`, or `OpenJson`, `FillJson`; then each book is `Begin`, the writes of
`update_terms` (whole lists: `OpenTermFile`, `FillTermFile`, `SetDocument`, `OpenJson`, `FillJson`),
`Mark`. Java and Python load (`Open`) and merge: `MergeTermFile` and `ReplaceJson` write a sorted union and move
it into place, `AddToSet` appends what is not there. `FlushFails` leaves postings pending in Java;
`Leave` ends a run anywhere. `InsertFails` is the unique index on `term` refusing what another language
created between C++'s delete and insert.

Actions of the search. `Ask` opens the index, `ReadPostings` reads one list (sorted by Java and Python, as it
is by C++) with the early exit of Java and Python, `TakeFirst` and `TakeNext` take the lists by length,
`KeepBoth`, `SkipLower`, `Merged` are the two-pointer loop, for which `std::set_intersection` stands in C++,
`Answer` looks up the titles. Between any two of these a writer may take a step or die.

The lists of one collection are a place where the languages disagree. Java and Python append, and sort
when they read; C++ stores sorted lists and reads what is there. So `AnswersAreTheIntersection` is stated of the
cases where the lists read are sorted (`ListsAreSorted`), and `unsorted_lists` shows the other. C++ also
writes its own lists over those of the others, so `IndexedBooksAreFound` is stated of collections it does not
write. What holds in every case is `AnswersAreTrue`.

### Datalake

State. `file` is the disk: for each folder, book and name (`header`, `body` and their `.tmp`) a content:
absent, torn, or one of two versions of the text, so that a pair made of two saves shows. `clock` is the
hour, `written` the map of the C++ time layout, `todo` the books a recovery has still to save, `save` the
save under way, `saved` history: the text of the last save of a book that returned. `vanished` is history too:
the books whose C++ header a full disk took unnoticed. `lake` fixes language,
layout and the kind of interruption: `"process"` kills the process between any two file operations,
`"renamed"` is what the benchmarks do to imitate it (bodies of saved books renamed to `.tmp`).

Actions. `StartRecovery` lists the datalake and computes what is missing; `BeginSave` takes a book, a
text and the folder of the present hour; `OpenFile`, `FillFile`, `MoveFile` follow the operations of the
language in their order (`InPlaceSave`, `MovingSave`); `EndSave`, `Finish`, `Close`; and the faults `Kill` (a
process dies, or a C++ write fails in time for its exception), `WriteFails` (the `.tmp` is deleted and the
exception ends the run), `Damage`, and `HeaderVanishes`: `write_text_file` of C++ tests the stream before its
destructor flushes it (`file_io.cpp:22-26`), so a header, which is shorter than the stream's buffer, may stay
empty or torn while the save goes on and returns. A body is longer than the buffer, so that its failure is seen.
`HeaderOf` is what the header of a book holds beside a body of some text: that text, or, of a header that
vanished, a torn file. The properties are stated with it.

### MetadataStore

State. `table` is what is committed; `writer` and `pending` are SQLite's locks. Per connection: `place` (what
call is under way), `tran` (its transaction, and why it was left open), `written` (its rows that are not
committed), `batch` and `left` (the batch under way and what of it is still to be inserted), `query` and
`answer`. `expected` is history: the rows as the calls that returned left them. `doubtful` is history too:
rows about which a caller was told the wrong thing, because they went into a transaction that was left open.

Actions. `InsertBook` and `Clear` are a statement with its own transaction. A batch is `BeginBatch`, one
`InsertRow` per row, `Commit`. A row that cannot go in, because the table refuses it or the lock is taken, is
`RollBack` in C++ and Java and `KeepRows` in Python, whose repository does not roll back. A COMMIT that meets
readers is `CommitThrows` in C++ (the call is behind the `try` block, so the transaction stays open),
`CommitWaits` and then `CommitRollsBack` in Java, `CommitWaits` and then `CommitRaises` in Python.
`InsertBookInside` is a row inserted while such a transaction is open. A query is `Ask`, a `ReadRow` per
`sqlite3_step`, `EndQuery`. `Close` ends a connection or its process anywhere. A call that throws and changes
nothing is a step that is not taken.

SQLite is external: what the code relies on is in `MayWrite`, `MayCommit`, `MayRead`, `Release` and `Visible`.
A row is the one value a query can ask for, and a refused row stands for any row the table does not accept.

### BookText

State. `text` is what the source has, `received` what arrived of it, `place` how far the book is, `book` its
header and body, `fields` its metadata; `pos`, `current` and `terms` are the variables of the tokenizer's
loop. `Receive` appends any number of symbols, `FetchSucceeds` may come after any of them, since neither an
answer without a length that ends early nor a local file read in part is noticed. `SplitBook` applies the
splitter of the language, `ExtractMetadata` its patterns, `NextCharacter` and `LastFlush` are the loop.

The three splitters are three definitions, because they are three kinds of program: C++ searches positions,
Java patterns, Python lines. The normalization of line ends, which Python does differently for a local file,
and the blanks and line ends that the patterns of the fields skip are modelled by what they do to the text.

What is blank depends on the program and on the call. `Blank` stands for what is blank to all of them;
`Controls`, `Separators` (U+001C to U+001F), `NoBreaks` (U+00A0), `Wides` (U+3000) and `LineSeparators` (U+0085,
U+2028) for what is blank to some. `Trimmable` is what a splitter takes off (`trim` of `text_utils.hpp:10`,
`String.trim()`, `str.strip()`), `Strippable` what is taken off a field (`trim`, `String.strip()`, `str.strip()`),
`Spaces` what `\s` matches and `LineEnds` what ends a line for `.` and `$`, each per language.

The words of the stopword list are taken to be ASCII in lower case, as those of the shared file are (a comment line
may hold anything): of such a list C++, Java and Python (which lowers each line, `tokenizer.py:10`) read the same words. `BookTextAssumption`
says so. What happens without the file is left out: only Python goes on.

A text is a sequence of symbols: a marker, or the label of a field, is one symbol, so a marker cut in two is
some other symbol. The words inside a marker or a label in a body are left out. Letters outside ASCII are
symbols like punctuation, which is what all three tokenizers take them for.

## 3. The runs

Bounds are in the configurations; what they leave in is named here.

| run | instance | what it shows |
|---|---|---|
| `one_structure` | 3 books, 3 terms (one book brings no new term, one a new one; one word cut short is another), a list with a repetition, each structure, book and time layout (two hours), 2 interruptions, fixed configuration, a `status` at any time | what the marks, the rows, the bodies and the structure say of each other, the refinement of `BookLifecycle`, and that what `status` calls pending is |
| `resume` | online and offline runs with lists in different orders mixed in one folder, the three structures, a third book that cannot be split, short writes that may vanish, 2 faults | every reachable book gets indexed, unless a torn JSON file is all that later runs meet |
| `control_file` | ids 1, 13, 84, 184, two appends cut short, noticed or not, the loaders of the three languages, a bystander | how many marks an append cut short can invent or lose, and that a bystander invents none |
| `java_pipeline` | 3 books, one without markers and first in one of two lists, monolithic and hierarchical, range (2 books per folder) and time (2 hours), configuration free in each run, runs of 1 and of 3 steps, 2 faults | rows name complete copies, indexed books stay served, nothing is repeated, `IndexPromise`, liveness |
| `python_pipeline` | 3 books, the first cannot be split, one named twice, 2 hours, with and without the MongoDB server, 2 faults | three datalakes and three indexes stay in step, `IndexPromise`, liveness |
| `datalake_recovery` | 2 books, 2 texts, in-place and moving saves, range and time (3 hours), both kinds of interruption, C++ headers that vanish, 2 faults | what a recovery repairs, leaves and never touches |
| `search` | 2 books, one with both terms, queries of one and of two terms, one fault; C++, Java and Python each alone over a JSON file or a folder, C++ alone, Java with Python, and C++ with Java over the collection | what a search answers beside writers |
| `metadata_store` | two connections (C++ and C++, Java and C++, Python and Java), each in every role, 2 books, 2 values, one refused row | the table holds what was returned, batches go in whole, answers are of one state |
| `book_text` | every text put together from one of 12 headers, 5 START lines, 5 bodies and 4 ends, those no source should have included, and from 7 headers, 2 START lines and 4 bodies with what is blank to some programs only; every part of them that can arrive; three languages, two sources | a book is whole or discarded, the languages agree, fields and terms are right |
| `switch_structure`, `torn_json`, `unsorted_lists` | small instances | the disagreements of section 6 |

Why the bounds are enough. For `Pipeline`: the second interruption reaches the states that only exist
while the damage of the first is being repaired; one book without new terms and one with a new term are
the two cases the comparison of term counts distinguishes; two hours make a book's second download go
elsewhere; a third book makes "the books before it" different from "the other book"; the repeated id is
the case `BookIdList` keeps. The prefix and the concatenation of ids need ids of one, two and three
digits. For `JavaPipeline`: one of the two structures keeps its whole index in memory and the other its
pending postings, and MongoDB differs from the second only in what it calls a file; one layout always
finds a book again and the other finds it by hour; a run of one step ends with work left and is
used up by one book in the way, a run of three can also end for lack of work, and has a step to spare. For `Datalake`: three hours let two deaths leave a body in two
folders and the recovery save it in a third; `"java"` stands for `"python"`, whose operations are the same in
the same order, and "range" for "book", which is a range of one. For `Search`: two books are enough for a list
in the wrong order and for a pointer to pass over an id; two terms are one intersection, and the proofs
cover any number; `"java"` and `"python"` differ in who can read the structure and in `FlushFails`. For
`MetadataStore`: a lock is between two connections, a third only adds another reader; a batch of two rows has a
first that went in when the second fails; two values make a row that replaces another differ from it. The proofs
cover any number of each. For `BookText`: the parts of a text are put together in all ways, so that each form of a
marker line meets each form of what stands before and after it; one symbol of each kind of odd blank is enough,
because the programs tell no two of one kind apart. The proofs cover every text.

Fairness. Each `FairSpec` assumes weak fairness of starting a run or a recovery (the user runs the
program again after it ended) and weak fairness of `Proceed` (a process that runs executes its next
statement). The pipelines add strong fairness of the fetch: a fetch that is tried again and again of a
book the source has succeeds in one of the tries, which is what "the network works again some day"
means. Nothing is assumed about faults; they are bounded by `MaxFaults`, and without a bound no run need
ever get anywhere. A book the source does not have, or that cannot be split, is never forced to succeed.
In C++ it blocks the books behind it, and `Reachable` names the books before it; there
`OnlyATornJsonFileStopsTheRuns` says what else can keep a book from its mark. In
Java and Python it does not, and it is stated of every book that can be had. In Java, where each such book
costs a run one step, that takes runs with `StepsToSpare`; and the user may switch to a layout that does not find a
book. So a book is promised only if, again and again, a run has more steps than there are books in its way and,
once the book is downloaded, a layout that has it. In Python the loop does not count the failure (`main.py:190`). `Search` claims no liveness: it is a loop over finite lists.

What TLC taught about the interruptions. Under the hierarchical structure of C++ `update_terms` truncates
a term file before it writes it. After one interruption the book that was being indexed is still waiting,
so the next run indexes it first and rewrites that very file: the damage is repaired before anything
relies on it. After two it need not be: a file torn while the check is rewriting the structure for the
wrong reason can be left empty with the term count right. `DamageIsRepairedFirst` states exactly this
for the hierarchical structure, and holds for the JSON file and for MongoDB however often they are
interrupted.

What it taught about the datalakes. The interruption the benchmarks imitate, a body renamed to `.tmp`,
is what a dying Java or Python process leaves, and not what a dying C++ process leaves. That one leaves a
body without a header, which no listing names: under "time" a recovery in a later hour saves the book
again, and the first body stays, one per death (`RecoveryDuplicatesNothing` says how many). Or it leaves
a header that was opened and not written, which the listing takes for whole, so that no recovery repairs
it (`PairsComeFromOneSave` allows exactly that). After a kill the pipeline is not affected: its marks and rows name
the complete copy. A header that vanished on a full disk is another matter: nothing was reported, so it is
marked, named and listed like any other, and stays as it is (`SavedBooksStayWhole` and `LocatedBooksAreWhole` allow
it, and nothing else).

## 4. What is proved

For every value of the constants that satisfies the module's assumption:

| theorem | states |
|---|---|
| `TypeCorrect`, `BodiesSurvive`, `PostingsAreTrue`, `IndexingFindsItsBook` (C++) | `Spec => []TypeOK`, `[]MarkedBooksHaveBodies`, `[]StoredPostingsAreTrue`, and that an indexing finds its row and whole body |
| `MarksAreOfServedBooks`, `RebuiltIndexIsExact` (C++, under `NoLoss`) | `Spec => IndexedOnlyWhenServed`, `Spec => [](MarksAreNested /\ IndexIsExact)` |
| `MarksFollowTheLifecycle` (C++, under `OneListNoLoss`) | `Spec => BooksInOrderOnceEach`: the refinement of `BookLifecycle` |
| `DamageIsRepaired` (C++, under `OneConfiguration`) | `Spec => []DamageIsRepairedFirst` |
| `JavaTypeCorrect`, `IndexedStaysServed`, `PromiseKept` | `Spec => []TypeOK`, `[]EveryIndexedBookStaysServed`, and `Spec => Promise!Spec`: the refinement |
| `RowsAreTrue`, `MarksSpareTheWork` (Java) | `Spec => []RowsNameCompleteCopies` and `Spec => NothingIsRepeated`, an action property |
| `PythonTypeCorrect`, `IndexesInOrder`, `PythonIndexedStaysServed`, `DownloadedIsEverywhere`, `PythonPromiseKept` | `Spec => []TypeOK`, the invariants of the run and `IndexesFollowInOrder`, and the refinement |
| `SearchTypeCorrect`, `SearchTellsTheTruth`, `TitlesAreThere`, `SearchIntersects`, `MarkedBooksAreFound` | `Spec => []` of the invariants of the run `search` and of `AnswersHaveTitles` |
| `LakeInvariant`, `LakeTypeCorrect`, `SavesAreForGood`, `PairsAreOfOneSave`, `LocateIsRight` | `Spec => []LakeInv` and, from it, `TypeOK` and three invariants of the run |
| `RecoveryIsFrugal` | `Spec => []RecoveryDuplicatesNothing` |
| `StatusTellsTheTruth` | `StatusSpec => PendingBooksWait`, an action property |
| `ControlFileTypeCorrect`, `MarksAreNotInvented`, `MarksAreNotLost` | `Spec => []` of the three invariants of the run `control_file` |
| `StoreInvariant`, `StoreTypeCorrect`, `StoreTellsTheTruth`, `StoreExplainsOpenTransactions`, `StoreAnswersFromOneSnapshot`, `StoreBatches` | `Spec => []StoreInv` and, from it, the properties of the run `metadata_store` and `OpenTransactionsAreExplained` |
| `TextTypeCorrect`, `BookIsNeverCutShort`, `TokenizerFindsTheWords` | `Spec => []TypeOK`, `[]NoBookIsCutShort`, `[]TermsAreTheWords` |
| `LanguagesAlwaysAgree`, `FieldsAlwaysComeFromTheirLine` | `Spec => []LanguagesAgree`, `Spec => []FieldsComeFromTheirLine` |

C++ pipeline. The two invariants `MarkedBooksHaveBodies` and `StoredPostingsAreTrue` are not inductive. `DurabilityInv` adds what they rest on: `Cursor` (where a book is being
processed there is one, and its folder is known), `DownloadUnderWay` (the run knows every mark that is
on disk, so the book it downloads carries none; what the step has written so far is there when the next
write happens; the row names the folder just written when the mark is appended) and `IndexIsTrue` (the
postings in memory are true, which is where the stored ones come from). The delicate step is
`FetchSucceeds`: it truncates a body file, and must not hit the file of a marked book; it does not,
because the book being downloaded is not in `downloaded`, which contains the log. It may hit the body of a
book marked indexed whose downloaded mark was lost, and a run that starts after a kill there reads what is left
of it. `TornOnlyAfterLosses` says that it takes both: the marks are nested until a short write is lost, so the body of a
book marked indexed is torn only after one fault and while it is filled again, or after two. With it each
reading of a body is true (`ReadingsAreTrue`), as `TrueTerm` puts it. These proofs do not assume anything of
`ConfigChanges`, `MaxFaults` or `ShortWritesMayVanish`: they hold with any mixture of modes, layouts and
structures, any number of interruptions, and lost short writes.

`KnownBooks` holds as generally: whatever a run counts as downloaded has its row and its whole body, and the book
it indexes is one of those. So the error `perform_indexing` reports when it finds no row ("should not
normally happen", `pipeline.cpp:41`) never occurs.

What a mark in `indexed_books.txt` says needs one assumption, `NoLoss`: no short write is lost. `WriteUnderWay` follows the
write of an index, file by file: each term of the book is stored already or still in `todo`, or it is in
the JSON file once that is whole. So when `MarkIndexed` comes, the book is served, whatever an earlier
interrupted write had left in that structure, and whatever list or structure was used before.
`MarksAreNested` (a run knows exactly the marks on disk; what is marked indexed is marked downloaded) and `IndexIsExact` (the
index in memory is that of the marked candidates, and of the book being indexed) are inductive together: each body
that `StartRun` reads back is whole because its book is also marked downloaded.

The life cycle needs `OneListNoLoss`: besides, all runs are online or all are offline (the two lists may
order the books differently). Then `LifeInv` is inductive. Its first half, `MarksFollowTheList`, says that the
downloaded marks are a prefix of the list and the indexed ones all of them, or all but the last; so a download
is chosen only when nothing waits, and takes the book that comes next. The second half, `StepFollowsTheList`,
says which book a step under way must be about.

The repair of damage needs `OneConfiguration`: besides, every run has the same structure and layout (a
switch is what `switch_structure` refutes it with). `RepairInv` has a conjunct per structure over one about memory. `IndexIsDue`: the
rebuilt index is exactly what is due (`Due(t)`, the marked books of a term), and a rewrite writes only terms that are due. `JsonIsSound`: a
whole JSON file is never behind, and no step is taken without one. `DocumentsAreSound`: a document that is there is
never behind, and the terms of the collection contain those that are due or are contained in them; of two nested
finite sets with as many members each is the other (`EqualCounts`), so the count check is right. `TermFilesAreSound`: before
the first interruption the files are those of the due terms and no rewrite ever starts; one interruption spoils at
most files of the book that waits, which is why the property for that structure speaks of at most one, and of
moments when no book waits.

Java pipeline. `EveryIndexedBookStaysServed` rests on `NothingToLose` (the map in memory contains the
JSON file it will replace) and on `IndexUnderWay` (each term of the book under way is pending or already
stored, so that at the mark all are stored). `NothingToLose` in turn needs that only a run writes, and
that every run loads first. The refinement uses the same invariant: a flush reveals only true postings
of known books because `SaveRow` comes before `AddDocument`, and takes none away because of `NothingToLose`.
`NothingDoneIsUnderWay` carries the other two: from `locate` on, the copy the row is going to name has both files, and
files are never removed; a book on its way from the source is not marked yet, and only its files are written.

Python pipeline. The same argument for three structures at once, with `IndexesFollowInOrder` as part of
the invariant: a posting is in the term files only if it is in the JSON file. `DownloadedIsEverywhere`
rests on `SavingUnderWay`: each of the six files is there, or still in `unsaved`, so at the mark all are there.

Datalake. `LakeInv` says what each file operation may assume: `HalfASave` (with moved files a body never
comes without its header, with files written in place a header never without its body), `SaveUnderWay`
(what the save has written after each of its 4 or 6 operations), `NothingMissingIsThere` (a book still to
be saved has no pair, so a save cannot produce a second), `OnePair`, `SavedTextsAreThere` and
`RememberedBooksAreWhole`; `VanishedAreListed` says that a header can only vanish from a pair that is listed for
ever after, so no later save fills it and no kill makes it less. The delicate steps are the moves: a header moved over one of an earlier, cut
save must not meet that save's body, and does not, because the header always comes first. `CountInv` adds what
the number of bodies needs: where nothing is killed, a body without a header is of the save under way (so
two bodies are two pairs, and `OnePair` excludes them); where C++ is killed, the bodies of a book are at most the faults, and
one more if the book is listed or being saved (`BodiesArePaidFor`), which a kill may only trade for a fault.

Search. Every theorem rests on `Typed` (the types, and what the place a run or a search has reached says of
its local variables). `TruthInv` says that the stored lists and those read only hold books that have the
term, and that what is intersected so far was in every list taken (`ResultIsCommon`), whatever their order.
`ExactInv` is the loop invariant of the intersection: if the lists are in order (`ListsInOrder`, which is where
the sorted set of Java and Python or of C++ comes in), then `out` is ascending, holds only ids the pointer has
passed (`Kept`), and every id behind a pointer that is in the other list is in `out` (`Passed`); so when one
list ends, `out` is the intersection, and when the result is empty so is every further
one. `ServedInv` carries a mark to an answer: each term of a marked book is stored (`MarkedAreStored`, which needs
that no list is written over, hence no C++), so a served book is in each list that is read and in each that
is still to be read, whatever was appended meanwhile (`ServedAreThere`).

Status. `StatusInv` says that what was loaded of the first file is in it still, which rests on
`LogOnlyGrows`, an action property of `Pipeline`; a `StatusNext` step is one of `Pipeline` or leaves its state
alone, so that `BodiesSurvive` carries over to `StatusSpec`.

Control file. What a process takes as recorded comes from the file it loaded, so `FileInv` keeps the bounds of
the file as well. With the trimming loaders (`TrimmedFileTells`) every id in a line is marked, whatever the
bystander cuts, because an open file has no tail. In C++ (`CppFileTells`) a tail is charged to the append that left it
(`Charged`) until the next mark is glued to it; that line is then the one id it invents, and the one it loses.
An append that was cut short and returned has lost its own id besides, which is what `unnoticed` pays for.

Metadata store. `StoreInv` adds `Transactions` and `BatchUnderWay`: the rows written by a transaction are
those of the batch that have left `left`, in Python also earlier ones, which are all doubtful. So `Commit` puts
the whole batch in the table, and nothing else that was not told. `AnswersAreOneSnapshot` is inductive because a commit of
another connection needs every reader gone.

Book text. `SplitCut` is the heart of `NoBookIsCutShort`: if a splitter makes a book of a part of a text, both
markers were in that part, and it makes the same book of the whole; one lemma per splitter, over one about the
normalization of a part (whose last symbol may be a lone `\r`: it can only follow the END marker). The
tokenizer's loop invariant (`TokensInv`) is that `terms` has exactly the words that ended before `pos`, and
`current` is the folded rest of the one that has not.

That the languages agree rests on `BookIsSplit` (the book is what the splitter of the language made of what arrived)
and on one lemma per splitter: of a regular text the patterns of Java and the lines of Python find the two marker
lines that the positions of C++ do (`LinesAgree`, `PatternsAgree`). The pieces they take differ in what they are
trimmed of. A text is regular only if what is blank to some of the programs stands between two characters that are
blank to none and part of no label or marker (`Inner`); so no piece begins or ends with one, and every trim of a piece is the
trim of the blanks common to all (`TrimsAgree`, over `BlankSets`), which skips the differences between the
pieces (`TrimSkips`). A regular header has no `\r` left (`HeaderIsRegular`), and again no odd blank next to a label, a
line end or a bracket; so the parsers, which differ in what ends a line, what `\s` skips and what is taken off a value,
find the same fields (`FieldsAgree`, over `BlanksAgree`). Where a field comes from
needs no regular text: `ValueIs` says which piece of the header each parser's value is, `ValueIsThere` that there is
one, in C++ and Python because a header is trimmed of all its parser skips. In Java it is not: trim() and strip()
differ, so the label may have only blanks on its line, and then there is no value or the next label's
(`NoValueOnItsLine`). Java's piece, found in
the header with its line ends normalized, is one of the header itself, since normalizing places every symbol that
is kept in order (`Place`, `PlacesGrow`, `PlacesApart`).

Each proof has a lemma per group of actions, a step per action in it, a step per conjunct the action can
disturb, and the temporal step at the end. Every invariant and every action property of the runs is stated by a
theorem. Only model-checked are the liveness properties (`ReachableBooksGetIndexed`,
`OnlyATornJsonFileStopsTheRuns`, `EveryBodyIsSavedInTheEnd`): liveness under fairness is out of the prover's reach.

## 5. Plan

Order of work, the most important behaviour first.

1. `Pipeline` with `BookLifecycle`, checked and its durability proved (done).
2. `ControlFile` (done).
3. `JavaPipeline` with `IndexPromise`, checked, permanence and refinement proved (done).
4. `PythonPipeline` with `IndexPromise`, checked and proved (done).
5. `Search`: the query engines of the three languages beside running pipelines, over structures written
   in place, moved into place, or appended to, checked and proved (done).
6. `Datalake` with recovery (done).
7. `MetadataStore`: batches, refused COMMITs and queries over SQLite's locks, checked and proved (done).
8. The shared collection (done in `Search`, as far as posting lists go); what the term count check of
   C++ does run after run when others write the collection too (to do).
9. `BookText`: fetch, splitters, header parser and tokenizer of the three languages, checked and proved,
   the agreement of the languages included (done).
10. `Status`, and the bystander that trims a control file, checked and proved (done).
11. The precedence of the configuration sources; the sampling of the benchmarks (to do).
12. The refinement of `BookLifecycle` by `Pipeline`, `RowsNameCompleteCopies` and `NothingIsRepeated` of Java, and
    the number of bodies a recovery leaves, proved (done).
13. Proofs of `DamageIsRepairedFirst`, `LanguagesAgree` and `FieldsComeFromTheirLine`, and of what the index in
    memory is (done).

## 6. Findings

The violation runs show these; each quotes its line in `PROJECT.json`.

* `switch_structure`: the check before the first step compares term counts. A structure left behind by
  a switch and back has the right count when the book it misses brings no new term. An offline run has the same effect: it
  rebuilds the index from the sample's list alone and rewrites the chosen structure from it, without the
  online books that are marked indexed.
* `torn_json`: a run killed while it writes the JSON file leaves a file the next run's check cannot
  parse; every later run ends there.
* `unsorted_lists`: the C++ search intersects the lists of the shared collection as if they were sorted; after
  Java indexed book 2 before book 1, a book that is in both lists is not in the answer.

More things that the passing runs allow for, and say so in their properties:

* The C++ log takes an unfinished last line for an id, and appends the next mark to it; `FewMarksAreInvented` and
  `FewMarksAreLost` grant C++ one id per append cut short. On a full disk mark() returns over such a line; then it
  loses two, its own and the next one. A bystander of Java or Python may cut a mark that was
  just appended; it never makes another id of it.
* On a full disk a C++ save returns with an empty or torn header, which is listed, located and named by a row for
  ever after (`HeaderOf`).
* Where a C++ log line was lost too, a book is downloaded again, and a kill in the middle of that leaves a part of
  its body; the next run indexes that part, and its last word may be none of the book's (`TrueTerm`).
* A Java run of `pipeline 1` spends its step on the first book that cannot be had, every time: the books
  behind it starve (`StepsToSpare`). A C++ run stops at such a book whatever N is (`Reachable`).
* C++, Java and Python do not agree on what is blank. Of a body that ends with U+00A0, U+3000 or a control character
  they make three different bodies, and of a header with such a blank beside a label different fields;
  `LanguagesAgree` is stated of texts where these stand between two other characters, as in a line of a book.
* The Python pipeline saves a book that is marked downloaded and not indexed once more, under the time layout
  perhaps in a second hour; `MarkedBooksAreInEveryDatalake` asks for a complete pair, not for one.
* After a C++ COMMIT that was refused the connection stays in its transaction, and the next insert returns
  without its row being there; after a Python batch that failed its first rows come with the next one.
  `TableIsWhatReturned` excepts these `doubtful` rows and no other. No command of the three programs meets
  either today: the pipelines insert one row at a time, a Python run ends with the exception, and batches are the benchmarks'.

## 7. Not modelled

Parsing of the configuration and the precedence of its sources, the building of URLs and paths, formatting,
`count`, and clearing an index or measuring it on disk (which are the benchmarks'); the SQLite engine, libcurl and
the HTTP client, the MongoDB server beyond the atomicity of one document, the benchmarks' measurements,
and the operating system's cache after a process has closed a file. Java's in-memory structure, which is
documented as not persisted, is left out of `Structures`; so is the fallback of a file system without
atomic moves. A change of layout that leaves marked books where the new layout does not look is modelled
(`MissingFromDatalake`) and is what `src/java/stage1/README.md` documents. Two runs of the pipeline at the same time over one data folder are
excluded by none of the programs and meant by none of them; they are not modelled either (two languages over
one collection are, in `Search`).
