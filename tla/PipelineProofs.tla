--------------------------- MODULE PipelineProofs ---------------------------
(***************************************************************************)
(* Proofs about Pipeline: its typing, what a mark in downloaded_books.txt   *)
(* guarantees, that no structure ever stores a false posting, that an       *)
(* indexing finds its book, and what Status prints, for every set of books, *)
(* terms, lists, structures and layouts, every number of faults, and even   *)
(* if short writes are lost.  Then, where none is lost (NoLoss), that a     *)
(* mark in indexed_books.txt means a served book, and what the index in     *)
(* memory is exactly; where moreover all runs have one list                 *)
(* (OneListNoLoss), that the logs follow BookLifecycle; and where all runs  *)
(* have one configuration (OneConfiguration), that damage done by           *)
(* interrupted writes is repaired before a step relies on it.               *)
(***************************************************************************)
EXTENDS Status, FiniteSetTheorems, TLAPS

(* Every way the actions change stored keeps its type.                      *)
LEMMA EntryTyped ==
    ASSUME TypeOK, NEW s, NEW t, NEW v \in Entries
    PROVE  [stored EXCEPT ![s][t] = v] \in [Structures -> [Terms -> Entries]]
<1>1. stored \in [Structures -> [Terms -> Entries]]
  BY DEF TypeOK
<1> QED BY <1>1

LEMMA ImageTyped ==
    ASSUME TypeOK, NEW s, NEW ix \in [Terms -> SUBSET Books]
    PROVE  /\ [stored EXCEPT ![s] = Image(ix)] \in [Structures -> [Terms -> Entries]]
           /\ [stored EXCEPT ![s] = NothingStored] \in [Structures -> [Terms -> Entries]]
<1>1. stored \in [Structures -> [Terms -> Entries]]
  BY DEF TypeOK
<1>2. Image(ix) \in [Terms -> Entries] /\ NothingStored \in [Terms -> Entries]
  BY DEF Image, NothingStored, Entries
<1> QED BY <1>1, <1>2

(* So does the change of a datalake file's state.                           *)
LEMMA FileTyped ==
    ASSUME NEW g \in [Folders \X Books -> FileStates], NEW p, NEW v \in FileStates
    PROVE  [g EXCEPT ![p] = v] \in [Folders \X Books -> FileStates]
OBVIOUS

LEMMA FolderOfLayout ==
    ASSUME NEW r \in Runs, NEW f \in FoldersOf[r.layout]
    PROVE  f \in Folders
BY DEF Runs, Folders

LEMMA StructureOfRun ==
    ASSUME NEW r \in Runs
    PROVE  r.structure \in Structures
BY DEF Runs

(* Type correctness needs Cursor: the writes take their target from it.     *)
TypeInv == TypeOK /\ Cursor

LEMMA InitTyped == Init => TypeInv
BY PipelineAssumption
   DEF Init, TypeInv, TypeOK, Cursor, Downloading, PipelineAssumption, FileStates, EmptyIndex, NothingStored,
       Entries

LEMMA ExitTyped ==
    ASSUME TypeInv, Exit, UNCHANGED disk, faults' \in 0 .. MaxFaults
    PROVE  TypeInv'
BY DEF TypeInv, TypeOK, Cursor, Downloading, Exit, EmptyIndex, disk, datalake, logs

\* The count of faults stays in its bound, whether a write is lost or not.
LEMMA FaultsTyped ==
    ASSUME TypeInv, UNCHANGED faults \/ Vanishes
    PROVE  faults' \in 0 .. MaxFaults
<1>1. faults \in 0 .. MaxFaults /\ MaxFaults \in Nat
  BY PipelineAssumption DEF TypeInv, TypeOK, PipelineAssumption
<1> QED BY <1>1 DEF Vanishes

LEMMA CheckTyped == TypeInv /\ Check => TypeInv'
<1> SUFFICES ASSUME TypeInv, Check PROVE TypeInv'
  OBVIOUS
<1>1. CASE CheckFails
  BY <1>1, ExitTyped DEF CheckFails, TypeInv, TypeOK
<1>2. CASE TrustIndex
  BY <1>2 DEF TrustIndex, TypeInv, TypeOK, Cursor, Downloading, disk, datalake, logs, memory, cursor
<1>3. CASE RewriteIndex
  BY <1>3 DEF RewriteIndex, TermsIn, TypeInv, TypeOK, Cursor, Downloading, disk, datalake, logs, memory
<1> QED BY <1>1, <1>2, <1>3 DEF Check

(* The writes of an index structure change stored, jsonFile and the cursor. *)
LEMMA WriteFrame ==
    ASSUME TypeInv, WriteGoesOn, faults' \in 0 .. MaxFaults,
           stored' \in [Structures -> [Terms -> Entries]],
           jsonFile' \in FileStates,
           pc' \in {"clear", "fill", "loop"} \/ (pc' = "markIndexed" /\ book \in Books),
           todo' \subseteq Terms, opened' \in Terms \cup {None}
    PROVE  TypeInv'
BY DEF TypeInv, TypeOK, Cursor, Downloading, WriteGoesOn, datalake, logs, memory

LEMMA WriteTyped == TypeInv /\ Write => TypeInv'
<1> SUFFICES ASSUME TypeInv, Write PROVE TypeInv'
  OBVIOUS
<1>t. /\ TypeOK
      /\ stored \in [Structures -> [Terms -> Entries]] /\ jsonFile \in FileStates
      /\ index \in [Terms -> SUBSET Books]
      /\ todo \subseteq Terms /\ opened \in Terms \cup {None} /\ book \in Books \cup {None}
  BY DEF TypeInv, TypeOK
<1>f. faults' \in 0 .. MaxFaults
  BY FaultsTyped DEF Write, OpenJson, FillJson, RemoveTermFile, FolderRemoved, OpenTermFile,
     FillTermFile, DeleteDocuments, PutDocument, IndexWritten
<1>e. {} \in Entries /\ None \in Entries /\ \A t \in Terms : index[t] \in Entries
  BY <1>t DEF Entries
<1>1. CASE OpenJson
  BY <1>1, <1>t, ImageTyped, <1>f, WriteFrame DEF OpenJson, FileStates
<1>2. CASE FillJson
  BY <1>2, <1>t, ImageTyped, <1>f, WriteFrame DEF FillJson, FileStates
<1>3. CASE RemoveTermFile
  <2>1. stored' \in [Structures -> [Terms -> Entries]]
    BY <1>3, <1>t, <1>e, EntryTyped DEF RemoveTermFile
  <2> QED BY <1>3, <1>t, <2>1, <1>f, WriteFrame DEF RemoveTermFile
<1>4. CASE FolderRemoved
  BY <1>4, <1>t, <1>f, WriteFrame DEF FolderRemoved
<1>5. CASE OpenTermFile
  <2>1. PICK t \in todo : stored' = [stored EXCEPT !["hierarchical"][t] = {}] /\ opened' = t
    BY <1>5 DEF OpenTermFile
  <2>2. stored' \in [Structures -> [Terms -> Entries]]
    BY <2>1, <1>t, <1>e, EntryTyped
  <2> QED BY <1>5, <1>t, <2>1, <2>2, <1>f, WriteFrame DEF OpenTermFile
<1>6. CASE FillTermFile
  <2>1. opened \in Terms
    BY <1>6, <1>t DEF FillTermFile
  <2>2. [stored EXCEPT !["hierarchical"][opened] = index[opened]]
          \in [Structures -> [Terms -> Entries]]
    BY <2>1, <1>t, <1>e, EntryTyped
  <2>3. stored' \in [Structures -> [Terms -> Entries]]
    BY <1>6, <1>t, <2>2 DEF FillTermFile
  <2> QED BY <1>6, <1>t, <2>3, <1>f, WriteFrame DEF FillTermFile
<1>7. CASE DeleteDocuments
  BY <1>7, <1>t, ImageTyped, <1>f, WriteFrame DEF DeleteDocuments
<1>8. CASE PutDocument
  <2>1. PICK t \in todo : /\ stored' = [stored EXCEPT !["mongo"][t] = index[t]]
                          /\ todo' = todo \ {t}
    BY <1>8 DEF PutDocument
  <2>2. stored' \in [Structures -> [Terms -> Entries]]
    BY <2>1, <1>t, <1>e, EntryTyped
  <2> QED BY <1>8, <1>t, <2>1, <2>2, <1>f, WriteFrame DEF PutDocument
<1>9. CASE IndexWritten
  BY <1>9, <1>t, <1>f, WriteFrame DEF IndexWritten
<1> QED BY <1>1, <1>2, <1>3, <1>4, <1>5, <1>6, <1>7, <1>8, <1>9 DEF Write

LEMMA ChooseTyped == TypeInv /\ Choose => TypeInv'
<1> SUFFICES ASSUME TypeInv, Choose PROVE TypeInv'
  OBVIOUS
<1>1. CASE ChooseToIndex
  BY <1>1 DEF ChooseToIndex, TypeInv, TypeOK, Cursor, Downloading, disk, datalake, logs, memory
<1>2. CASE ChooseToDownload
  BY <1>2 DEF ChooseToDownload, TypeInv, TypeOK, Cursor, Downloading, disk, datalake, logs, memory
<1>3. CASE FinishRun
  BY <1>3, ExitTyped DEF FinishRun, TypeInv, TypeOK
<1> QED BY <1>1, <1>2, <1>3 DEF Choose

LEMMA DownloadTyped == TypeInv /\ Download => TypeInv'
<1> SUFFICES ASSUME TypeInv, Download PROVE TypeInv'
  OBVIOUS
<1>1. CASE FetchFails
  BY <1>1, ExitTyped DEF FetchFails, TypeInv, TypeOK
<1> USE DEF TypeInv, TypeOK, Cursor, Downloading, DownloadGoesOn, datalake, logs, memory, cursor, FileStates
<1>2. CASE FetchSucceeds
  <2>1. PICK f \in FoldersOf[run.layout] :
             folder' = f /\ body' = [body EXCEPT ![<<f, book>>] = "torn"]
    BY <1>2 DEF FetchSucceeds
  <2>2. f \in Folders
    BY <2>1, FolderOfLayout
  <2>3. body' \in [Folders \X Books -> FileStates]
    BY <2>1, FileTyped
  <2>4. folder' \in Folders /\ book' \in Books /\ pc' = "body"
    BY <1>2, <2>1, <2>2 DEF FetchSucceeds
  <2>5. UNCHANGED <<header, metadata, logs, stored, jsonFile, faults, run, steps,
                    memory, book, todo, opened>>
    BY <1>2 DEF FetchSucceeds
  <2> QED BY <2>3, <2>4, <2>5
<1>3. CASE FillBody
  BY <1>3 DEF FillBody
<1>4. CASE OpenHeader
  BY <1>4 DEF OpenHeader
<1>5. CASE FillHeader
  <2>1. faults' \in 0 .. MaxFaults
    BY <1>5, FaultsTyped DEF FillHeader
  <2> QED BY <1>5, <2>1 DEF FillHeader
<1>6. CASE InsertRow
  BY <1>6 DEF InsertRow
<1>7. CASE MarkDownloaded
  <2>1. downloadedLog' \subseteq Books /\ downloaded' \subseteq Books
    BY <1>7 DEF MarkDownloaded
  <2>2. book \in Books /\ steps > 0
    BY <1>7, PipelineAssumption DEF MarkDownloaded, PipelineAssumption
  <2>3. pc' = "loop" /\ steps' \in Nat /\ book' = None /\ folder' = None
    BY <1>7, <2>2 DEF MarkDownloaded, StepDone
  <2>4. UNCHANGED <<datalake, metadata, indexedLog, stored, jsonFile, run,
                    indexed, index, todo, opened>>
    BY <1>7 DEF MarkDownloaded
  <2>5. faults' \in 0 .. MaxFaults
    BY <1>7, FaultsTyped DEF MarkDownloaded
  <2> QED BY <2>1, <2>3, <2>4, <2>5
<1> HIDE DEF TypeInv, TypeOK, Cursor, Downloading, DownloadGoesOn, datalake, logs, memory, cursor
<1> QED BY <1>1, <1>2, <1>3, <1>4, <1>5, <1>6, <1>7 DEF Download

(* What reading a body gives: terms, each the book's own or, of a torn body,  *)
(* a cut word; from a whole body exactly the terms of the book.             *)
LEMMA ReadingsTyped ==
    ASSUME NEW b \in Books, NEW ts \in BodyReadings(b)
    PROVE  /\ ts \subseteq Terms
           /\ \A t \in ts : t \in TermsOf[b] \/ (t \in CutWordsOf[b] /\ body[<<metadata[b], b>>] # "whole")
<1>1. TermsOf[b] \subseteq Terms /\ CutWordsOf[b] \subseteq Terms
  BY PipelineAssumption DEF PipelineAssumption
<1>2. CASE body[<<metadata[b], b>>] = "whole"
  BY <1>1, <1>2 DEF BodyReadings
<1>3. CASE body[<<metadata[b], b>>] # "whole"
  <2>1. PICK own \in SUBSET TermsOf[b], cut \in {{}} \cup {{w} : w \in CutWordsOf[b]} : ts = own \cup cut
    BY <1>3 DEF BodyReadings, PartsOf
  <2> QED BY <1>1, <1>3, <2>1
<1> QED BY <1>2, <1>3

LEMMA WholeReading ==
    ASSUME NEW b, body[<<metadata[b], b>>] = "whole"
    PROVE  BodyReadings(b) = {TermsOf[b]}
BY DEF BodyReadings

(* The index a run rebuilds: of the candidates marked indexed that have a   *)
(* row, under terms that reading their bodies gave.                         *)
LEMMA StartReads ==
    ASSUME StartRun
    PROVE  \E read \in Readings(Rebuilt(run')) :
               /\ DOMAIN read = Rebuilt(run') /\ \A b \in Rebuilt(run') : read[b] \in BodyReadings(b)
               /\ index' = [t \in Terms |-> {b \in Rebuilt(run') : t \in read[b]}]
<1>1. PICK read \in Readings(Rebuilt(run')) : index' = [t \in Terms |-> {b \in DOMAIN read : t \in read[b]}]
  BY DEF StartRun
<1>2. DOMAIN read = Rebuilt(run') /\ \A b \in Rebuilt(run') : read[b] \in BodyReadings(b)
  BY DEF Readings
<1> QED BY <1>1, <1>2

LEMMA StartReadsWhole ==
    ASSUME StartRun, \A b \in indexedLog : BodyReadings(b) = {TermsOf[b]}
    PROVE  index' = [t \in Terms |-> {b \in Rebuilt(run') : t \in TermsOf[b]}]
<1>1. Rebuilt(run') \subseteq indexedLog
  BY DEF Rebuilt
<1> QED BY <1>1, StartReads

LEMMA IndexTyped == TypeInv /\ Index => TypeInv'
<1> SUFFICES ASSUME TypeInv, Index PROVE TypeInv'
  OBVIOUS
<1> USE DEF TypeInv, TypeOK, Cursor, Downloading, datalake, logs, disk
<1>1. CASE IndexBook
  <2>1. book \in Books
    BY <1>1, PipelineAssumption DEF IndexBook, PipelineAssumption
  <2>2. index' \in [Terms -> SUBSET Books]
    BY <1>1, <2>1 DEF IndexBook, AddBook
  <2>3. todo' \subseteq Terms
    <3>1. PICK ts \in BodyReadings(book) : todo' = ts
      BY <1>1 DEF IndexBook
    <3> HIDE DEF TypeInv, TypeOK, Cursor, Downloading
    <3> QED BY <2>1, <3>1, ReadingsTyped
  <2>4. /\ pc' \in {"clear", "fill"}
        /\ UNCHANGED <<disk, faults, run, steps, downloaded, indexed, book, folder, opened>>
    BY <1>1 DEF IndexBook
  <2> QED BY <2>1, <2>2, <2>3, <2>4
<1>2. CASE MarkIndexed
  <2>1. indexedLog' \subseteq Books /\ indexed' \subseteq Books
    BY <1>2 DEF MarkIndexed
  <2>2. book \in Books /\ steps > 0
    BY <1>2, PipelineAssumption DEF MarkIndexed, PipelineAssumption
  <2>3. pc' = "loop" /\ steps' \in Nat /\ book' = None /\ folder' = None
    BY <1>2, <2>2 DEF MarkIndexed, StepDone
  <2>4. UNCHANGED <<datalake, metadata, downloadedLog, stored, jsonFile, run,
                    downloaded, index, todo, opened>>
    BY <1>2 DEF MarkIndexed
  <2>5. faults' \in 0 .. MaxFaults
    BY <1>2, FaultsTyped DEF MarkIndexed
  <2> QED BY <2>1, <2>3, <2>4, <2>5
<1> HIDE DEF TypeInv, TypeOK, Cursor, Downloading, datalake, logs, disk
<1> QED BY <1>1, <1>2 DEF Index

LEMMA StartTyped == TypeInv /\ StartRun => TypeInv'
<1> SUFFICES ASSUME TypeInv, StartRun PROVE TypeInv'
  OBVIOUS
<1>1. index' \in [Terms -> SUBSET Books]
  <2>1. Rebuilt(run') \subseteq Books
    BY DEF Rebuilt, TypeInv, TypeOK
  <2> QED BY <2>1, StartReads
<1>2. /\ UNCHANGED <<disk, faults, cursor>> /\ run' \in Runs /\ steps' \in StepCounts
      /\ downloaded' = downloadedLog /\ indexed' = indexedLog /\ pc' = "check"
  BY DEF StartRun, RunsAfter, TypeInv, TypeOK
<1>3. steps' \in Nat /\ steps' > 0
  BY <1>2, PipelineAssumption DEF PipelineAssumption
<1> QED BY <1>1, <1>2, <1>3 DEF TypeInv, TypeOK, Cursor, Downloading, disk, datalake, logs, cursor

LEMMA StepTyped == TypeInv /\ [Next]_vars => TypeInv'
<1> SUFFICES ASSUME TypeInv, [Next]_vars PROVE TypeInv'
  OBVIOUS
<1>1. CASE Kill
  <2>1. faults' \in 0 .. MaxFaults
    BY <1>1, PipelineAssumption DEF Kill, TypeInv, TypeOK, PipelineAssumption
  <2> QED BY <1>1, <2>1, ExitTyped DEF Kill
<1>2. CASE UNCHANGED vars
  BY <1>2 DEF TypeInv, TypeOK, Cursor, Downloading, vars, disk, datalake, logs, memory, cursor
<1> QED BY <1>1, <1>2, StartTyped, CheckTyped, WriteTyped, ChooseTyped, DownloadTyped,
           IndexTyped DEF Next, Proceed

(* Type correctness: what every variable of the pipeline holds.             *)
THEOREM TypeCorrect == Spec => []TypeOK
<1>1. Spec => []TypeInv
  BY InitTyped, StepTyped, PTL DEF Spec
<1> QED BY <1>1, PTL DEF TypeInv

-----------------------------------------------------------------------------
(* The bodies of marked books.                                              *)

BodiesInv == DownloadUnderWay /\ MarkedBooksHaveBodies

LEMMA InitBodies == Init => BodiesInv
BY DEF Init, BodiesInv, DownloadUnderWay, MarkedBooksHaveBodies, Downloading

(* A step that touches neither the datalake, the rows nor the marks, and    *)
(* starts no download, keeps the invariant.                                 *)
LEMMA QuietBodies ==
    ASSUME BodiesInv,
           UNCHANGED <<datalake, metadata, logs>>,
           pc' = "off" \/ (pc # "off" /\ UNCHANGED downloaded),
           pc' \notin Downloading
    PROVE  BodiesInv'
BY DEF BodiesInv, DownloadUnderWay, MarkedBooksHaveBodies, Downloading, datalake, logs

LEMMA StartBodies == BodiesInv /\ StartRun => BodiesInv'
BY DEF StartRun, BodiesInv, DownloadUnderWay, MarkedBooksHaveBodies, Downloading,
       disk, datalake, logs

LEMMA ExitBodies == BodiesInv /\ Exit /\ UNCHANGED disk => BodiesInv'
BY QuietBodies DEF Exit, disk, datalake, logs, Downloading

LEMMA CheckBodies == BodiesInv /\ Check => BodiesInv'
<1>1. ASSUME BodiesInv, CheckFails PROVE BodiesInv'
  BY <1>1, ExitBodies DEF CheckFails
<1>2. ASSUME BodiesInv, TrustIndex \/ RewriteIndex PROVE BodiesInv'
  BY <1>2, QuietBodies DEF TrustIndex, RewriteIndex, disk, datalake, logs, memory, Downloading
<1> QED BY <1>1, <1>2 DEF Check

LEMMA WriteBodies == BodiesInv /\ Write => BodiesInv'
<1> SUFFICES ASSUME BodiesInv, Write PROVE BodiesInv'
  OBVIOUS
<1>1. WriteGoesOn /\ pc # "off" /\ pc' \in {"clear", "fill", "loop", "markIndexed"}
  BY DEF Write, OpenJson, FillJson, RemoveTermFile, FolderRemoved, OpenTermFile, FillTermFile,
         DeleteDocuments, PutDocument, IndexWritten
<1> QED BY <1>1, QuietBodies DEF WriteGoesOn, datalake, logs, memory, Downloading

LEMMA ChooseBodies == BodiesInv /\ Choose => BodiesInv'
<1> SUFFICES ASSUME BodiesInv, Choose PROVE BodiesInv'
  OBVIOUS
<1>1. CASE ChooseToIndex
  BY <1>1, QuietBodies DEF ChooseToIndex, disk, datalake, logs, memory, Downloading
<1>2. CASE ChooseToDownload
  BY <1>2 DEF ChooseToDownload, IsFirst, BodiesInv, DownloadUnderWay, MarkedBooksHaveBodies,
              Downloading, disk, datalake, logs, memory
<1>3. CASE FinishRun
  BY <1>3, ExitBodies DEF FinishRun
<1> QED BY <1>1, <1>2, <1>3 DEF Choose

LEMMA IndexBodies == BodiesInv /\ Index => BodiesInv'
<1> SUFFICES ASSUME BodiesInv, Index PROVE BodiesInv'
  OBVIOUS
<1>1. CASE IndexBook
  BY <1>1, QuietBodies DEF IndexBook, disk, datalake, logs, Downloading
<1>2. CASE MarkIndexed
  BY <1>2 DEF MarkIndexed, StepDone, BodiesInv, DownloadUnderWay, MarkedBooksHaveBodies,
              Downloading, datalake
<1> QED BY <1>1, <1>2 DEF Index

(* The book of a download is not marked, so the files and the row that the  *)
(* step writes are not those of a marked book; mark() finds them complete.  *)
LEMMA DownloadBodies == TypeInv /\ BodiesInv /\ Download => BodiesInv'
<1> SUFFICES ASSUME TypeInv, BodiesInv, Download PROVE BodiesInv'
  OBVIOUS
<1>1. CASE FetchFails
  BY <1>1, ExitBodies DEF FetchFails
<1>2. book \in Books /\ pc \in Downloading
  BY DEF TypeInv, Cursor, Download, FetchFails, FetchSucceeds, FillBody, OpenHeader, FillHeader,
         InsertRow, MarkDownloaded, Downloading
<1>3. /\ body \in [Folders \X Books -> FileStates] /\ metadata \in [Books -> Folders \cup {None}]
      /\ downloadedLog \subseteq Books /\ book \notin downloadedLog
      /\ pc # "fetch" => folder \in Folders
  BY <1>2 DEF TypeInv, TypeOK, Cursor, BodiesInv, DownloadUnderWay, Downloading
<1>4. \A f, v : LET after == [body EXCEPT ![<<f, book>>] = v] IN
        /\ \A b \in downloadedLog : after[<<metadata[b], b>>] = body[<<metadata[b], b>>]
        /\ f \in Folders => after[<<f, book>>] = v
  BY <1>2, <1>3
<1>5. CASE FetchSucceeds
  BY <1>3, <1>4, <1>5 DEF FetchSucceeds, BodiesInv, DownloadUnderWay, MarkedBooksHaveBodies,
                          Downloading, logs, memory
<1> USE DEF BodiesInv, DownloadUnderWay, MarkedBooksHaveBodies, Downloading, DownloadGoesOn,
            datalake, logs, cursor
<1>6. CASE FillBody
  <2>1. body' = [body EXCEPT ![<<folder, book>>] = "whole"] /\ folder \in Folders
    BY <1>3, <1>6 DEF FillBody
  <2>2. body'[<<folder, book>>] = "whole"
    BY <1>4, <2>1
  <2>3. \A b \in downloadedLog : body'[<<metadata[b], b>>] = body[<<metadata[b], b>>]
    BY <1>4, <2>1
  <2> QED BY <1>3, <1>6, <2>2, <2>3 DEF FillBody
<1>7. CASE OpenHeader
  BY <1>7 DEF OpenHeader
<1>8. CASE FillHeader
  BY <1>8 DEF FillHeader
<1>9. CASE InsertRow
  <2>1. /\ metadata'[book] = folder
        /\ \A b \in downloadedLog : metadata'[b] = metadata[b]
    BY <1>2, <1>3, <1>9 DEF InsertRow
  <2> QED BY <1>3, <1>9, <2>1 DEF InsertRow
<1>10. CASE MarkDownloaded
  BY <1>3, <1>10, PipelineAssumption DEF MarkDownloaded, StepDone, PipelineAssumption
<1> HIDE DEF BodiesInv, DownloadUnderWay, MarkedBooksHaveBodies, Downloading, DownloadGoesOn,
             datalake, logs, cursor
<1> QED BY <1>1, <1>5, <1>6, <1>7, <1>8, <1>9, <1>10 DEF Download

LEMMA StepBodies == TypeInv /\ BodiesInv /\ [Next]_vars => BodiesInv'
<1>1. ASSUME BodiesInv, Kill PROVE BodiesInv'
  BY <1>1, ExitBodies DEF Kill
<1>2. ASSUME BodiesInv, UNCHANGED vars PROVE BodiesInv'
  BY <1>2 DEF BodiesInv, DownloadUnderWay, MarkedBooksHaveBodies, vars, disk, datalake, logs,
              memory, cursor
<1> QED BY <1>1, <1>2, StartBodies, CheckBodies, WriteBodies, ChooseBodies, DownloadBodies,
           IndexBodies DEF Next, Proceed

(* A book marked downloaded has its row and, where the row says, its whole  *)
(* body: whenever runs are killed, whatever layout each uses.               *)
THEOREM BodiesSurvive == Spec => []MarkedBooksHaveBodies
<1>1. Spec => []TypeInv
  BY InitTyped, StepTyped, PTL DEF Spec
<1>2. Spec => []BodiesInv
  BY <1>1, InitBodies, StepBodies, PTL DEF Spec
<1> QED BY <1>2, PTL DEF BodiesInv

-----------------------------------------------------------------------------
(* The book of a step.                                                      *)

\* A run keeps its configuration.
LEMMA RunStays ==
    ASSUME [Next]_vars, ~ConfigChanges \/ ~StartRun
    PROVE  run' = run
<1>1. CASE StartRun
  BY <1>1 DEF StartRun, RunsAfter
<1>2. CASE Kill \/ Check \/ UNCHANGED vars
  BY <1>2 DEF Kill, Exit, Check, CheckFails, TrustIndex, RewriteIndex, vars
<1>3. CASE Write
  BY <1>3 DEF Write, OpenJson, FillJson, RemoveTermFile, FolderRemoved, OpenTermFile, FillTermFile,
              DeleteDocuments, PutDocument, IndexWritten, WriteGoesOn
<1>4. CASE Choose
  BY <1>4 DEF Choose, ChooseToIndex, ChooseToDownload, FinishRun, Exit
<1>5. CASE Download
  BY <1>5 DEF Download, FetchFails, FetchSucceeds, FillBody, OpenHeader, FillHeader, InsertRow,
              MarkDownloaded, DownloadGoesOn, Exit
<1>6. CASE Index
  BY <1>6 DEF Index, IndexBook, MarkIndexed
<1> QED BY <1>1, <1>2, <1>3, <1>4, <1>5, <1>6 DEF Next, Proceed

(* Faults are counted, and none is taken back.                              *)
LEMMA FaultsNeverFall ==
    ASSUME TypeOK, [Next]_vars
    PROVE  faults \in Nat /\ faults' \in Nat /\ faults <= faults' /\ (faults' = faults \/ Kill \/ Vanishes)
<1>0. faults \in Nat
  BY PipelineAssumption DEF TypeOK, PipelineAssumption
<1>1. CASE UNCHANGED vars
  BY <1>0, <1>1 DEF vars
<1>2. CASE StartRun \/ Kill
  BY <1>0, <1>2 DEF StartRun, Kill
<1>3. CASE Check
  BY <1>0, <1>3 DEF Check, CheckFails, TrustIndex, RewriteIndex
<1>4. CASE Write
  BY <1>0, <1>4 DEF Write, OpenJson, FillJson, RemoveTermFile, FolderRemoved, OpenTermFile, FillTermFile,
              Vanishes, DeleteDocuments, PutDocument, IndexWritten
<1>5. CASE Choose
  BY <1>0, <1>5 DEF Choose, ChooseToIndex, ChooseToDownload, FinishRun
<1>6. CASE Download
  BY <1>0, <1>6 DEF Download, FetchFails, FetchSucceeds, FillBody, OpenHeader, FillHeader, InsertRow,
              MarkDownloaded, Vanishes
<1>7. CASE Index
  BY <1>0, <1>7 DEF Index, IndexBook, MarkIndexed, Vanishes
<1> QED BY <1>1, <1>2, <1>3, <1>4, <1>5, <1>6, <1>7 DEF Next, Proceed

LEMMA InitKnown == Init => KnownBooks
BY DEF Init, KnownBooks

\* A step of a run that writes no body, no row and no mark.
LEMMA QuietKnown ==
    ASSUME KnownBooks, UNCHANGED <<body, metadata, downloaded, indexed, run, book>>, pc # "off",
           pc' \in {"off", "check", "loop"} => book = None,
           pc' \in Downloading \/ pc \notin Downloading
    PROVE  KnownBooks'
BY DEF KnownBooks, IsCandidate, Candidates

LEMMA WriteKnown == KnownBooks /\ Write => KnownBooks'
<1> SUFFICES ASSUME KnownBooks, Write PROVE KnownBooks'
  OBVIOUS
<1>1. /\ WriteGoesOn /\ pc \in {"clear", "fill"} /\ pc' \in {"clear", "fill", "loop", "markIndexed"}
      /\ pc' = "loop" => book = None
  BY DEF Write, OpenJson, FillJson, RemoveTermFile, FolderRemoved, OpenTermFile, FillTermFile,
         DeleteDocuments, PutDocument, IndexWritten
<1> QED BY <1>1, QuietKnown DEF WriteGoesOn, datalake, memory, Downloading

LEMMA ChooseKnown == KnownBooks /\ Choose => KnownBooks'
<1> SUFFICES ASSUME KnownBooks, Choose PROVE KnownBooks'
  OBVIOUS
<1>1. CASE ChooseToIndex \/ ChooseToDownload
  <2>1. /\ UNCHANGED <<body, metadata, downloaded, indexed, run>> /\ pc = "loop" /\ pc' \in {"index", "fetch"}
        /\ \E i \in DOMAIN Candidates : Candidates[i] = book'
        /\ pc' = "index" => book' \in downloaded \ indexed
    BY <1>1 DEF ChooseToIndex, ChooseToDownload, IsFirst, ReadyToIndex, disk, datalake, memory
  <2> QED BY <2>1 DEF KnownBooks, IsCandidate, Candidates, Downloading
<1>2. CASE FinishRun
  BY <1>2 DEF FinishRun, Exit, KnownBooks
<1> QED BY <1>1, <1>2 DEF Choose

(* The files and the row of a download are not those of a book that counts  *)
(* as downloaded; when it counts as such, they are complete.                *)
LEMMA DownloadKnown == TypeInv /\ BodiesInv /\ KnownBooks /\ Download => KnownBooks'
<1> SUFFICES ASSUME TypeInv, BodiesInv, KnownBooks, Download PROVE KnownBooks'
  OBVIOUS
<1>1. CASE FetchFails
  BY <1>1 DEF FetchFails, Exit, KnownBooks
<1>2. book \in Books /\ pc \in Downloading
  BY DEF TypeInv, Cursor, Download, FetchFails, FetchSucceeds, FillBody, OpenHeader, FillHeader,
         InsertRow, MarkDownloaded, Downloading
<1>3. /\ body \in [Folders \X Books -> FileStates] /\ metadata \in [Books -> Folders \cup {None}]
      /\ downloaded \subseteq Books /\ book \notin downloaded
      /\ pc # "fetch" => folder \in Folders
  BY <1>2 DEF TypeInv, TypeOK, Cursor, BodiesInv, DownloadUnderWay, Downloading
<1>4. \A f, v : LET after == [body EXCEPT ![<<f, book>>] = v] IN
        \A b \in downloaded : after[<<metadata[b], b>>] = body[<<metadata[b], b>>]
  BY <1>2, <1>3
<1>5. \A b \in downloaded : metadata[b] # None /\ body[<<metadata[b], b>>] = "whole"
  BY <1>2 DEF KnownBooks, Downloading
<1>6. CASE FetchSucceeds \/ FillBody
  <2>1. /\ UNCHANGED <<metadata, downloaded, indexed, run, book>> /\ pc' \in {"body", "openHeader"}
        /\ \E f, v : body' = [body EXCEPT ![<<f, book>>] = v]
    BY <1>6 DEF FetchSucceeds, FillBody, DownloadGoesOn, memory, cursor
  <2>2. \A b \in downloaded : body'[<<metadata[b], b>>] = body[<<metadata[b], b>>]
    BY <1>4, <2>1
  <2> QED BY <1>5, <2>1, <2>2 DEF KnownBooks, IsCandidate, Candidates, Downloading
<1>7. CASE OpenHeader \/ FillHeader
  BY <1>7, QuietKnown DEF OpenHeader, FillHeader, DownloadGoesOn, Downloading, cursor
<1>8. CASE InsertRow
  <2>1. /\ UNCHANGED <<body, downloaded, indexed, run, book>> /\ pc' = "markDownloaded"
        /\ metadata' = [metadata EXCEPT ![book] = folder]
    BY <1>8 DEF InsertRow, DownloadGoesOn, cursor, datalake
  <2>2. \A b \in downloaded : metadata'[b] = metadata[b]
    BY <1>3, <2>1
  <2> QED BY <1>5, <2>1, <2>2 DEF KnownBooks, IsCandidate, Candidates, Downloading
<1>9. CASE MarkDownloaded
  <2>1. /\ UNCHANGED <<body, metadata>> /\ pc' = "loop" /\ book' = None
        /\ downloaded' = downloaded \cup {book}
    BY <1>9 DEF MarkDownloaded, StepDone, datalake
  <2>2. metadata[book] # None /\ body[<<metadata[book], book>>] = "whole"
    BY <1>2, <1>3, <1>9, PipelineAssumption
       DEF MarkDownloaded, BodiesInv, DownloadUnderWay, PipelineAssumption
  <2> QED BY <1>5, <2>1, <2>2 DEF KnownBooks
<1> QED BY <1>1, <1>6, <1>7, <1>8, <1>9 DEF Download

LEMMA StepKnown == TypeInv /\ BodiesInv /\ KnownBooks /\ [Next]_vars => KnownBooks'
<1> SUFFICES ASSUME TypeInv, BodiesInv, KnownBooks, [Next]_vars PROVE KnownBooks'
  OBVIOUS
<1>1. CASE UNCHANGED vars
  BY <1>1 DEF vars, disk, datalake, memory, cursor, KnownBooks, IsCandidate, Candidates
<1>2. CASE Kill \/ CheckFails
  BY <1>2 DEF Kill, CheckFails, Exit, KnownBooks
<1>3. CASE StartRun
  <2>1. /\ UNCHANGED <<body, metadata>> /\ pc' = "check" /\ book' = None /\ downloaded' = downloadedLog
    BY <1>3 DEF StartRun, KnownBooks, disk, datalake, cursor
  <2> QED BY <2>1 DEF KnownBooks, BodiesInv, MarkedBooksHaveBodies
<1>4. CASE TrustIndex \/ RewriteIndex
  BY <1>4, QuietKnown DEF TrustIndex, RewriteIndex, KnownBooks, disk, datalake, memory, cursor, Downloading
<1>5. CASE IndexBook
  BY <1>5, QuietKnown DEF IndexBook, disk, datalake, Downloading
<1>6. CASE MarkIndexed
  BY <1>6 DEF MarkIndexed, StepDone, KnownBooks, datalake
<1> QED BY <1>1, <1>2, <1>3, <1>4, <1>5, <1>6, WriteKnown, ChooseKnown, DownloadKnown
        DEF Next, Proceed, Check, Index

(* perform_indexing finds the row of its book ("no metadata row for it"     *)
(* should not happen, pipeline.cpp:41, and never does) and, where the row   *)
(* says, the whole body: whatever was killed or lost before, whatever list, *)
(* layout and structure each run uses.                                      *)
THEOREM IndexingFindsItsBook ==
    Spec => [](pc = "index" => metadata[book] # None /\ body[<<metadata[book], book>>] = "whole")
<1>1. Spec => [](TypeInv /\ BodiesInv /\ KnownBooks)
  <2>1. Init => TypeInv /\ BodiesInv /\ KnownBooks
    BY InitTyped, InitBodies, InitKnown
  <2>2. TypeInv /\ BodiesInv /\ KnownBooks /\ [Next]_vars => TypeInv' /\ BodiesInv' /\ KnownBooks'
    BY StepTyped, StepBodies, StepKnown
  <2> QED BY <2>1, <2>2, PTL DEF Spec
<1>2. TypeInv /\ KnownBooks =>
        (pc = "index" => metadata[book] # None /\ body[<<metadata[book], book>>] = "whole")
  BY PipelineAssumption DEF TypeInv, Cursor, KnownBooks, Downloading, PipelineAssumption
<1> QED BY <1>1, <1>2, PTL

-----------------------------------------------------------------------------
(* The bodies of the books marked indexed.                                  *)

LEMMA InitTorn == Init => TornOnlyAfterLosses
BY DEF Init, TornOnlyAfterLosses

LEMMA TornMeansLoss ==
    ASSUME TypeOK, MarkedBooksHaveBodies, TornOnlyAfterLosses, NEW b \in indexedLog,
           metadata[b] # None, body[<<metadata[b], b>>] # "whole"
    PROVE  ShortWritesMayVanish /\ faults \in Nat /\ faults > 0
BY PipelineAssumption DEF TypeOK, MarkedBooksHaveBodies, TornOnlyAfterLosses, PipelineAssumption

\* A step that writes no body, no row and no mark; if it kills the run in the
\* middle of a body, one more fault is counted.
LEMMA QuietTorn ==
    ASSUME TypeOK, MarkedBooksHaveBodies, TornOnlyAfterLosses,
           UNCHANGED <<body, metadata, logs>>, downloaded' \in {downloaded, downloadedLog, {}},
           faults' \in Nat, faults <= faults',
           pc = "body" => faults' = faults + 1 \/ UNCHANGED <<pc, book, folder>>
    PROVE  TornOnlyAfterLosses'
<1>1. faults \in Nat
  BY PipelineAssumption DEF TypeOK, PipelineAssumption
<1>2. ~ShortWritesMayVanish \/ faults' = 0 =>
          indexedLog' \subseteq downloadedLog' /\ downloaded' \subseteq downloadedLog'
  BY <1>1 DEF TornOnlyAfterLosses, logs
<1>3. ASSUME NEW b \in indexedLog, metadata[b] # None, body[<<metadata[b], b>>] # "whole"
      PROVE  /\ ShortWritesMayVanish
             /\ faults' > 1 \/ (pc' = "body" /\ book' = b /\ folder' = metadata[b])
  <2>1. ShortWritesMayVanish /\ faults > 0
    BY <1>3, TornMeansLoss
  <2>2. faults > 1 \/ (pc = "body" /\ book = b /\ folder = metadata[b])
    BY <1>3 DEF TornOnlyAfterLosses
  <2> QED BY <1>1, <2>1, <2>2
<1> QED BY <1>2, <1>3 DEF TornOnlyAfterLosses, logs

(* The first write of a second download tears the body of a book marked     *)
(* indexed: its downloaded mark was lost.  The second one makes it whole.   *)
LEMMA DownloadTorn ==
    ASSUME TypeInv, BodiesInv, KnownBooks, TornOnlyAfterLosses, Download, [Next]_vars
    PROVE  TornOnlyAfterLosses'
<1>0. TypeOK /\ MarkedBooksHaveBodies
  BY DEF TypeInv, BodiesInv
<1>1. faults \in Nat /\ faults' \in Nat /\ faults <= faults' /\ (faults' = faults \/ Kill \/ Vanishes)
  BY <1>0, FaultsNeverFall
<1>2. CASE FetchFails
  BY <1>0, <1>1, <1>2, QuietTorn DEF FetchFails, Exit, disk, datalake, logs
<1>3. book \in Books /\ pc \in Downloading
  BY DEF TypeInv, Cursor, Download, FetchFails, FetchSucceeds, FillBody, OpenHeader, FillHeader,
         InsertRow, MarkDownloaded, Downloading
<1>4. /\ body \in [Folders \X Books -> FileStates] /\ metadata \in [Books -> Folders \cup {None}]
      /\ indexedLog \subseteq Books /\ book \notin downloadedLog /\ book \notin downloaded
      /\ pc # "fetch" => folder \in Folders
  BY <1>3 DEF TypeInv, TypeOK, Cursor, BodiesInv, DownloadUnderWay, Downloading
<1>5. CASE FetchSucceeds
  <2>1. PICK f \in Folders : folder' = f /\ body' = [body EXCEPT ![<<f, book>>] = "torn"]
    BY <1>0, <1>5, FolderOfLayout DEF FetchSucceeds, TypeOK
  <2>2. /\ UNCHANGED <<metadata, logs, downloaded, book, faults>> /\ pc = "fetch" /\ pc' = "body"
    BY <1>5 DEF FetchSucceeds, memory
  <2>3. ASSUME NEW b \in indexedLog, metadata[b] # None, body'[<<metadata[b], b>>] # "whole"
        PROVE  /\ ShortWritesMayVanish
               /\ faults' > 1 \/ (pc' = "body" /\ book' = b /\ folder' = metadata[b])
    <3>1. CASE metadata[b] = f /\ b = book
      <4>1. ~(indexedLog \subseteq downloadedLog)
        BY <1>4, <2>3, <3>1
      <4> QED BY <2>1, <2>2, <3>1, <4>1 DEF TornOnlyAfterLosses
    <3>2. CASE ~(metadata[b] = f /\ b = book)
      <4>1. body'[<<metadata[b], b>>] = body[<<metadata[b], b>>]
        BY <1>4, <2>1, <2>3, <3>2
      <4> QED BY <2>2, <2>3, <4>1 DEF TornOnlyAfterLosses
    <3> QED BY <3>1, <3>2
  <2> QED BY <2>2, <2>3 DEF TornOnlyAfterLosses, logs
<1>6. CASE FillBody
  <2>1. /\ body' = [body EXCEPT ![<<folder, book>>] = "whole"] /\ folder \in Folders
        /\ UNCHANGED <<metadata, logs, downloaded, book, folder, faults>> /\ pc = "body"
    BY <1>4, <1>6 DEF FillBody, DownloadGoesOn, logs, cursor
  <2>2. ASSUME NEW b \in indexedLog, metadata[b] # None, body'[<<metadata[b], b>>] # "whole"
        PROVE  ShortWritesMayVanish /\ faults' > 1
    <3>1. ~(metadata[b] = folder /\ b = book) /\ body'[<<metadata[b], b>>] = body[<<metadata[b], b>>]
      BY <1>4, <2>1, <2>2
    <3> QED BY <2>1, <2>2, <3>1 DEF TornOnlyAfterLosses
  <2> QED BY <2>1, <2>2 DEF TornOnlyAfterLosses, logs
<1>7. CASE OpenHeader \/ FillHeader
  BY <1>0, <1>1, <1>7, QuietTorn DEF OpenHeader, FillHeader, DownloadGoesOn, logs
<1>8. CASE InsertRow
  <2>1. /\ UNCHANGED <<body, logs, downloaded, faults>> /\ pc = "row"
        /\ metadata' = [metadata EXCEPT ![book] = folder] /\ folder \in Folders
    BY <1>4, <1>8 DEF InsertRow, DownloadGoesOn, datalake, logs
  <2>2. body[<<folder, book>>] = "whole"
    BY <2>1 DEF BodiesInv, DownloadUnderWay
  <2>3. ASSUME NEW b \in indexedLog, metadata'[b] # None, body[<<metadata'[b], b>>] # "whole"
        PROVE  ShortWritesMayVanish /\ faults' > 1
    <3>1. metadata'[b] = metadata[b]
      BY <1>4, <2>1, <2>2, <2>3
    <3> QED BY <2>1, <2>3, <3>1 DEF TornOnlyAfterLosses
  <2> QED BY <2>1, <2>3 DEF TornOnlyAfterLosses, logs
<1>9. CASE MarkDownloaded
  <2>1. /\ UNCHANGED <<body, metadata, indexedLog>> /\ pc = "markDownloaded"
        /\ downloaded' = downloaded \cup {book}
        /\ \/ downloadedLog' = downloadedLog \cup {book} /\ faults' = faults
           \/ ShortWritesMayVanish /\ faults' = faults + 1 /\ downloadedLog' = downloadedLog
    BY <1>9 DEF MarkDownloaded, Vanishes, datalake
  <2>2. ~ShortWritesMayVanish \/ faults' = 0 =>
          indexedLog' \subseteq downloadedLog' /\ downloaded' \subseteq downloadedLog'
    BY <1>1, <2>1 DEF TornOnlyAfterLosses
  <2>3. ASSUME NEW b \in indexedLog, metadata[b] # None, body[<<metadata[b], b>>] # "whole"
        PROVE  ShortWritesMayVanish /\ faults' > 1
    BY <1>1, <2>1, <2>3 DEF TornOnlyAfterLosses
  <2> QED BY <2>1, <2>2, <2>3 DEF TornOnlyAfterLosses
<1> QED BY <1>2, <1>5, <1>6, <1>7, <1>8, <1>9 DEF Download

\* The book that is marked indexed counts as downloaded: its body is whole.
LEMMA MarkTorn ==
    ASSUME TypeInv, BodiesInv, KnownBooks, TornOnlyAfterLosses, MarkIndexed, [Next]_vars
    PROVE  TornOnlyAfterLosses'
<1>1. TypeOK /\ faults \in Nat /\ faults' \in Nat /\ faults <= faults'
  BY FaultsNeverFall DEF TypeInv
<1>2. /\ UNCHANGED <<body, metadata, downloadedLog, downloaded>> /\ pc = "markIndexed"
      /\ indexedLog' \subseteq indexedLog \cup {book}
  BY DEF MarkIndexed, datalake
<1>3. book \in downloaded /\ body[<<metadata[book], book>>] = "whole"
  BY <1>2, PipelineAssumption DEF TypeInv, Cursor, KnownBooks, Downloading, PipelineAssumption
<1>4. ~ShortWritesMayVanish \/ faults' = 0 => indexedLog' \subseteq downloadedLog /\ downloaded \subseteq downloadedLog
  BY <1>1, <1>2, <1>3 DEF TornOnlyAfterLosses
<1>5. ASSUME NEW b \in indexedLog', metadata[b] # None, body[<<metadata[b], b>>] # "whole"
      PROVE  ShortWritesMayVanish /\ faults' > 1
  <2>1. b \in indexedLog
    BY <1>2, <1>3, <1>5
  <2> QED BY <1>1, <1>2, <1>5, <2>1 DEF TornOnlyAfterLosses
<1> QED BY <1>2, <1>4, <1>5 DEF TornOnlyAfterLosses

LEMMA StepTorn ==
    ASSUME TypeInv, BodiesInv, KnownBooks, TornOnlyAfterLosses, [Next]_vars
    PROVE  TornOnlyAfterLosses'
<1>0. /\ TypeOK /\ MarkedBooksHaveBodies
      /\ faults \in Nat /\ faults' \in Nat /\ faults <= faults'
  BY FaultsNeverFall DEF TypeInv, BodiesInv
<1>1. CASE UNCHANGED vars
  BY <1>0, <1>1, QuietTorn DEF vars, disk, datalake, memory, cursor
<1>2. CASE StartRun \/ Kill \/ CheckFails \/ FinishRun
  BY <1>0, <1>2, QuietTorn DEF StartRun, Kill, CheckFails, FinishRun, Exit, disk, datalake
<1>3. CASE TrustIndex \/ RewriteIndex \/ ChooseToIndex \/ ChooseToDownload \/ IndexBook
  BY <1>0, <1>3, QuietTorn
     DEF TrustIndex, RewriteIndex, ChooseToIndex, ChooseToDownload, IndexBook, disk, datalake, memory
<1>4. CASE Write
  <2>1. WriteGoesOn /\ pc \in {"clear", "fill"}
    BY <1>4 DEF Write, OpenJson, FillJson, RemoveTermFile, FolderRemoved, OpenTermFile, FillTermFile,
           DeleteDocuments, PutDocument, IndexWritten
  <2> QED BY <1>0, <2>1, QuietTorn DEF WriteGoesOn, datalake, memory
<1> QED BY <1>1, <1>2, <1>3, <1>4, DownloadTorn, MarkTorn
        DEF Next, Proceed, Check, Choose, Index

-----------------------------------------------------------------------------
(* The postings, in memory and stored.                                      *)

PostingsInv == IndexIsTrue /\ StoredPostingsAreTrue

(* A true term stays one, whatever is lost later.                           *)
LEMMA TrueTermsStay ==
    ASSUME TypeOK, [Next]_vars, NEW b, NEW t, TrueTerm(b, t)
    PROVE  TrueTerm(b, t)'
<1>1. faults \in Nat /\ faults' \in Nat /\ faults <= faults'
  BY FaultsNeverFall
<1> QED BY <1>1 DEF TrueTerm

(* What the reading of an indexed book's body gives is true, whether the    *)
(* body is whole or torn.                                                   *)
LEMMA ReadingsAreTrue ==
    ASSUME TypeOK, MarkedBooksHaveBodies, TornOnlyAfterLosses, pc # "body", NEW b \in Books,
           b \in indexedLog \/ body[<<metadata[b], b>>] = "whole", metadata[b] # None,
           NEW ts \in BodyReadings(b), NEW t \in ts
    PROVE  TrueTerm(b, t)
BY ReadingsTyped DEF TornOnlyAfterLosses, TrueTerm

(* A step that only forgets postings, or stores those in memory, is safe.   *)
LEMMA CopyingKeepsTruth ==
    ASSUME TypeOK, PostingsInv, [Next]_vars, UNCHANGED <<metadata, index>>,
           stored' \in [Structures -> [Terms -> Entries]],
           \A s \in Structures, t \in Terms :
              stored'[s][t] \in {None, {}, stored[s][t], index[t]}
    PROVE  PostingsInv'
<1>1. IndexIsTrue'
  BY TrueTermsStay DEF PostingsInv, IndexIsTrue
<1>2. StoredPostingsAreTrue'
  <2> SUFFICES ASSUME NEW s \in Structures, NEW t \in Terms, stored'[s][t] # None,
                      NEW b \in stored'[s][t]
               PROVE  metadata[b] # None /\ TrueTerm(b, t)
    BY TrueTermsStay DEF StoredPostingsAreTrue
  <2>1. CASE stored'[s][t] = stored[s][t]
    BY <2>1 DEF PostingsInv, StoredPostingsAreTrue
  <2>2. CASE stored'[s][t] = index[t]
    <3>1. b \in Books
      BY <2>2 DEF TypeOK
    <3> QED BY <2>2, <3>1 DEF PostingsInv, IndexIsTrue
  <2> QED BY <2>1, <2>2
<1> QED BY <1>1, <1>2 DEF PostingsInv

LEMMA WritePostings == TypeInv /\ PostingsInv /\ Write => PostingsInv'
<1> SUFFICES ASSUME TypeInv, PostingsInv, Write PROVE PostingsInv'
  OBVIOUS
<1>1. /\ TypeOK /\ TypeOK' /\ stored' \in [Structures -> [Terms -> Entries]]
      /\ stored \in [Structures -> [Terms -> Entries]] /\ opened \in Terms \cup {None}
  BY WriteTyped DEF TypeInv, TypeOK
<1>2. WriteGoesOn /\ [Next]_vars
  BY DEF Write, OpenJson, FillJson, RemoveTermFile, FolderRemoved, OpenTermFile, FillTermFile,
         DeleteDocuments, PutDocument, IndexWritten, Next, Proceed
<1>3. \A s \in Structures, t \in Terms : stored'[s][t] \in {None, {}, stored[s][t], index[t]}
  <2>1. CASE OpenJson \/ DeleteDocuments
    BY <1>1, <2>1 DEF OpenJson, DeleteDocuments, NothingStored
  <2>2. CASE FillJson
    BY <1>1, <2>2 DEF FillJson, Image
  <2>3. CASE RemoveTermFile
    BY <1>1, <2>3 DEF RemoveTermFile
  <2>4. CASE FolderRemoved \/ IndexWritten
    BY <1>1, <2>4 DEF FolderRemoved, IndexWritten
  <2>5. CASE OpenTermFile
    BY <1>1, <2>5 DEF OpenTermFile
  <2>6. CASE FillTermFile
    BY <1>1, <2>6 DEF FillTermFile
  <2>7. CASE PutDocument
    BY <1>1, <2>7 DEF PutDocument
  <2> QED BY <2>1, <2>2, <2>3, <2>4, <2>5, <2>6, <2>7 DEF Write
<1> QED BY <1>1, <1>2, <1>3, CopyingKeepsTruth DEF WriteGoesOn, memory

(* Rows only ever appear, and the rebuilt or extended index takes its       *)
(* postings from bodies that rows name.                                     *)
LEMMA StepPostings ==
    ASSUME TypeInv, BodiesInv, KnownBooks, TornOnlyAfterLosses, PostingsInv, [Next]_vars
    PROVE  PostingsInv'
<1>0. /\ TypeOK /\ MarkedBooksHaveBodies /\ indexedLog \subseteq Books
      /\ \A b, t : TrueTerm(b, t) => TrueTerm(b, t)'
  BY TrueTermsStay DEF TypeInv, TypeOK, BodiesInv
<1> USE DEF PostingsInv, IndexIsTrue, StoredPostingsAreTrue
<1>e. ASSUME Exit, UNCHANGED disk PROVE PostingsInv'
  BY <1>0, <1>e DEF Exit, EmptyIndex, disk
<1>1. CASE StartRun
  <2>1. PICK read \in Readings(Rebuilt(run')) :
          /\ \A b \in Rebuilt(run') : read[b] \in BodyReadings(b)
          /\ index' = [t \in Terms |-> {b \in Rebuilt(run') : t \in read[b]}]
    BY <1>1, StartReads
  <2>2. /\ Rebuilt(run') \subseteq indexedLog /\ \A b \in Rebuilt(run') : metadata[b] # None
        /\ UNCHANGED <<metadata, stored>> /\ pc = "off"
    BY <1>1 DEF Rebuilt, StartRun, disk
  <2>3. ASSUME NEW t \in Terms, NEW b \in index'[t] PROVE metadata[b] # None /\ TrueTerm(b, t)
    <3>1. b \in Rebuilt(run') /\ t \in read[b] /\ read[b] \in BodyReadings(b) /\ b \in indexedLog /\ b \in Books
      BY <1>0, <2>1, <2>2, <2>3
    <3> QED BY <1>0, <2>2, <3>1, ReadingsAreTrue
  <2> QED BY <1>0, <2>2, <2>3
<1>2. CASE Kill \/ CheckFails \/ FinishRun \/ FetchFails
  BY <1>e, <1>2 DEF Kill, CheckFails, FinishRun, FetchFails
<1>3. CASE TrustIndex \/ RewriteIndex \/ ChooseToIndex \/ ChooseToDownload \/ UNCHANGED vars
  BY <1>0, <1>3 DEF TrustIndex, RewriteIndex, ChooseToIndex, ChooseToDownload, vars, disk, memory
<1>4. CASE FetchSucceeds \/ FillBody \/ OpenHeader \/ FillHeader \/ MarkDownloaded \/ MarkIndexed
  BY <1>0, <1>4 DEF FetchSucceeds, FillBody, OpenHeader, FillHeader, MarkDownloaded, MarkIndexed,
              DownloadGoesOn, memory
<1>5. CASE InsertRow
  <2>1. folder \in Folders /\ book \in Books /\ metadata \in [Books -> Folders \cup {None}]
    BY <1>5 DEF InsertRow, TypeInv, TypeOK, Cursor, Downloading
  <2>2. \A b \in Books : metadata[b] # None => metadata'[b] # None
    BY <1>5, <2>1, PipelineAssumption DEF InsertRow, PipelineAssumption
  <2>3. \A s \in Structures, t \in Terms : stored[s][t] # None => stored[s][t] \subseteq Books
    BY DEF TypeInv, TypeOK, Entries
  <2> QED BY <1>0, <1>5, <2>2, <2>3 DEF InsertRow, DownloadGoesOn
<1>6. CASE IndexBook
  <2>1. /\ book \in Books /\ metadata[book] # None /\ body[<<metadata[book], book>>] = "whole" /\ pc = "index"
        /\ UNCHANGED <<metadata, stored>>
    BY <1>6, PipelineAssumption
       DEF IndexBook, TypeInv, Cursor, KnownBooks, Downloading, PipelineAssumption, disk
  <2>2. PICK ts \in BodyReadings(book) : index' = AddBook(index, book, ts)
    BY <1>6 DEF IndexBook
  <2>3. ASSUME NEW t \in Terms, NEW b \in Books, b \in index'[t] PROVE metadata[b] # None /\ TrueTerm(b, t)
    <3>1. CASE b \in index[t]
      BY <3>1
    <3>2. CASE b \notin index[t]
      <4>1. b = book /\ t \in ts
        BY <2>2, <2>3, <3>2 DEF AddBook
      <4> QED BY <1>0, <2>1, <2>2, <4>1, ReadingsAreTrue
    <3> QED BY <3>1, <3>2
  <2> QED BY <1>0, <2>1, <2>3
<1>7. CASE Write
  BY <1>7, WritePostings
<1> HIDE DEF PostingsInv, IndexIsTrue, StoredPostingsAreTrue
<1> QED BY <1>1, <1>2, <1>3, <1>4, <1>5, <1>6, <1>7
        DEF Next, Proceed, Check, Choose, Download, Index

LEMMA InitPostings == Init => PostingsInv
BY DEF Init, PostingsInv, IndexIsTrue, StoredPostingsAreTrue, EmptyIndex, NothingStored

(* No structure ever stores a posting that is false, nor one of a book      *)
(* without a row: not when a write is interrupted, a run is offline or the  *)
(* structure is switched.  Where short writes are lost, a second download,  *)
(* cut in the middle, of a book marked indexed can leave a cut word as a    *)
(* term; nothing else is ever false.                                        *)
THEOREM PostingsAreTrue == Spec => []StoredPostingsAreTrue
<1>1. Init => TypeInv /\ BodiesInv /\ KnownBooks /\ TornOnlyAfterLosses /\ PostingsInv
  BY InitTyped, InitBodies, InitKnown, InitTorn, InitPostings
<1>2. TypeInv /\ BodiesInv /\ KnownBooks /\ TornOnlyAfterLosses /\ PostingsInv /\ [Next]_vars
      => TypeInv' /\ BodiesInv' /\ KnownBooks' /\ TornOnlyAfterLosses' /\ PostingsInv'
  BY StepTyped, StepBodies, StepKnown, StepTorn, StepPostings
<1> QED BY <1>1, <1>2, PTL DEF Spec, PostingsInv

-----------------------------------------------------------------------------
(* `status` beside the runs.                                                *)

LEMMA StatusRunsThePipeline == StatusSpec => Spec
<1>1. StatusInit => Init
  BY DEF StatusInit
<1>2. [StatusNext]_<<vars, statusVars>> => [Next]_vars
  BY DEF StatusNext, LoadLog, PrintStatus
<1> QED BY <1>1, <1>2, PTL DEF StatusSpec, Spec

(* Marks are never taken back.                                              *)
LEMMA LogOnlyGrows == [Next]_vars => downloadedLog \subseteq downloadedLog'
<1> SUFFICES ASSUME [Next]_vars PROVE downloadedLog \subseteq downloadedLog'
  OBVIOUS
<1> USE DEF disk, logs
<1>1. CASE UNCHANGED vars
  BY <1>1 DEF vars
<1>2. CASE StartRun \/ Kill
  BY <1>2 DEF StartRun, Kill
<1>3. CASE Check
  BY <1>3 DEF Check, CheckFails, TrustIndex, RewriteIndex
<1>4. CASE Write
  BY <1>4 DEF Write, OpenJson, FillJson, RemoveTermFile, FolderRemoved, OpenTermFile, FillTermFile,
              DeleteDocuments, PutDocument, IndexWritten, WriteGoesOn
<1>5. CASE Choose
  BY <1>5 DEF Choose, ChooseToIndex, ChooseToDownload, FinishRun
<1>6. CASE Download
  BY <1>6 DEF Download, FetchFails, FetchSucceeds, FillBody, OpenHeader, FillHeader, InsertRow, MarkDownloaded
<1>7. CASE Index
  BY <1>7 DEF Index, IndexBook, MarkIndexed
<1> QED BY <1>1, <1>2, <1>3, <1>4, <1>5, <1>6, <1>7 DEF Next, Proceed

LEMMA StatusKept == TypeOK /\ StatusInv /\ [StatusNext]_<<vars, statusVars>> => StatusInv'
<1> SUFFICES ASSUME TypeOK, StatusInv, [StatusNext]_<<vars, statusVars>> PROVE StatusInv'
  OBVIOUS
<1>1. CASE (Next /\ UNCHANGED statusVars) \/ UNCHANGED <<vars, statusVars>>
  <2>1. downloadedLog \subseteq downloadedLog'
    BY <1>1, LogOnlyGrows
  <2> QED BY <1>1, <2>1 DEF StatusInv, statusVars
<1>2. CASE LoadLog
  <2>1. downloadedLog' = downloadedLog
    BY <1>2 DEF LoadLog, vars, disk, logs
  <2>2. loaded = 0 \/ loaded = 1
    BY <1>2 DEF LoadLog, StatusInv
  <2>3. Order[loaded + 1] \in Logs /\ IdsOf(Order[loaded + 1]) \subseteq Books
    BY <2>2 DEF Order, Logs, IdsOf, TypeOK
  <2>4. seen'["downloaded"] \subseteq downloadedLog
    BY <1>2, <2>2 DEF LoadLog, StatusInv, Order, Logs, IdsOf
  <2> QED BY <1>2, <2>1, <2>2, <2>3, <2>4 DEF LoadLog, StatusInv
<1>3. CASE PrintStatus
  BY <1>3 DEF PrintStatus, StatusInv, Logs
<1> QED BY <1>1, <1>2, <1>3 DEF StatusNext

(* A book that `status` lists as downloaded and not indexed was that, with  *)
(* its row and its whole body, at one moment of the command.                *)
THEOREM StatusTellsTheTruth == StatusSpec => PendingBooksWait
<1> DEFINE Listed == loaded' = 2 => \A b \in Pending' :
                        /\ b \in downloadedLog \ indexedLog
                        /\ metadata[b] # None /\ body[<<metadata[b], b>>] = "whole"
<1>1. StatusSpec => []TypeOK /\ []MarkedBooksHaveBodies
  BY StatusRunsThePipeline, TypeCorrect, BodiesSurvive, PTL
<1>2. StatusInit => StatusInv
  BY DEF StatusInit, StatusInv, Logs
<1>3. StatusSpec => []StatusInv
  BY <1>1, <1>2, StatusKept, PTL DEF StatusSpec
<1>4. StatusInv /\ MarkedBooksHaveBodies /\ [StatusNext]_<<vars, statusVars>> => [Listed]_statusVars
  <2> SUFFICES ASSUME StatusInv, MarkedBooksHaveBodies, StatusNext, statusVars' # statusVars, loaded' = 2,
                      NEW b \in Pending'
               PROVE  /\ b \in downloadedLog \ indexedLog
                      /\ metadata[b] # None /\ body[<<metadata[b], b>>] = "whole"
    BY DEF statusVars
  <2>1. LoadLog /\ loaded = 1
    BY DEF StatusNext, statusVars, LoadLog, PrintStatus, StatusInv
  <2>2. b \in downloadedLog /\ b \notin indexedLog
    BY <2>1 DEF LoadLog, Pending, Order, IdsOf, StatusInv, Logs
  <2> QED BY <2>2 DEF MarkedBooksHaveBodies
<1> QED BY <1>1, <1>3, <1>4, PTL DEF StatusSpec, PendingBooksWait

-----------------------------------------------------------------------------
(* The life cycle of the books, where every run has the same list and no    *)
(* write is lost.                                                           *)

NoLoss == ~ShortWritesMayVanish

OneListNoLoss == NoLoss /\ \A m, n \in Modes : m = n

LEMMA TheList ==
    ASSUME TypeOK, OneListNoLoss
    PROVE  /\ Candidates = OnlyList /\ OnlyList \in Seq(Books)
           /\ Len(OnlyList) \in Nat /\ DOMAIN OnlyList = 1 .. Len(OnlyList)
           /\ ~Vanishes
<1>1. run.mode \in Modes
  BY DEF TypeOK, Runs
<1>2. (CHOOSE m \in Modes : TRUE) = run.mode
  BY <1>1 DEF OneListNoLoss, NoLoss
<1>3. ListOf[run.mode] \in Seq(Books)
  BY <1>1, PipelineAssumption DEF PipelineAssumption
<1>4. Candidates = OnlyList /\ OnlyList = ListOf[run.mode]
  BY <1>2 DEF Candidates, OnlyList
<1>5. ~Vanishes
  BY DEF OneListNoLoss, NoLoss, Vanishes
<1> HIDE DEF OneListNoLoss, NoLoss
<1> QED BY <1>3, <1>4, <1>5

LEMMA Prefixes ==
    ASSUME OnlyList \in Seq(Books)
    PROVE  /\ Lifecycle!First(0) = {}
           /\ \A i \in DOMAIN OnlyList : Lifecycle!First(i) = Lifecycle!First(i - 1) \cup {OnlyList[i]}
           /\ \A i \in Nat, n \in Nat : i <= n => Lifecycle!First(i) \subseteq Lifecycle!First(n)
           /\ \A n \in 0 .. Len(OnlyList) : \A b \in Lifecycle!First(n) : \E i \in DOMAIN OnlyList : OnlyList[i] = b
<1>1. DOMAIN OnlyList = 1 .. Len(OnlyList) /\ Len(OnlyList) \in Nat
  OBVIOUS
<1>2. \A n : Lifecycle!First(n) = {OnlyList[i] : i \in 1 .. n}
  BY DEF Lifecycle!First
<1>3. ASSUME NEW i \in DOMAIN OnlyList
      PROVE  Lifecycle!First(i) = Lifecycle!First(i - 1) \cup {OnlyList[i]}
  <2>1. 1 .. i = (1 .. i - 1) \cup {i}
    BY <1>1
  <2> QED BY <1>2, <2>1
<1>4. ASSUME NEW i \in Nat, NEW n \in Nat, i <= n
      PROVE  Lifecycle!First(i) \subseteq Lifecycle!First(n)
  <2>1. 1 .. i \subseteq 1 .. n
    BY <1>4
  <2> QED BY <1>2, <2>1
<1>5. Lifecycle!First(0) = {}
  BY <1>2
<1>6. ASSUME NEW n \in 0 .. Len(OnlyList), NEW b \in Lifecycle!First(n)
      PROVE  \E i \in DOMAIN OnlyList : OnlyList[i] = b
  BY <1>1, <1>2
<1> QED BY <1>3, <1>4, <1>5, <1>6

\* What waits is a candidate; where nothing waits, the marks are equal.
LEMMA WaitingBook ==
    ASSUME OnlyList \in Seq(Books), MarksFollowTheList
    PROVE  /\ indexedLog \subseteq downloadedLog
           /\ \A b \in downloadedLog : \E i \in DOMAIN OnlyList : OnlyList[i] = b
           /\ \A b \in downloadedLog \ indexedLog : indexedLog \cup {b} = downloadedLog
<1>1. PICK n \in 0 .. Len(OnlyList) :
         /\ downloadedLog = Lifecycle!First(n)
         /\ \/ indexedLog = downloadedLog
            \/ n > 0 /\ indexedLog = Lifecycle!First(n - 1) /\ OnlyList[n] \notin indexedLog
  BY DEF MarksFollowTheList
<1>2. n > 0 => Lifecycle!First(n) = Lifecycle!First(n - 1) \cup {OnlyList[n]}
  <2>1. n > 0 => n \in DOMAIN OnlyList
    OBVIOUS
  <2> QED BY <2>1, Prefixes
<1>3. \A b \in downloadedLog : \E i \in DOMAIN OnlyList : OnlyList[i] = b
  BY <1>1, Prefixes
<1> QED BY <1>1, <1>2, <1>3

\* A step that marks nothing.
LEMMA QuietLife ==
    ASSUME LifeInv, UNCHANGED logs,
           pc' # "off" => downloaded' = downloadedLog /\ indexed' = indexedLog,
           pc' \notin Downloading,
           pc' \in {"off", "check", "loop"} => book' = None,
           book' # None => book' \in downloadedLog \ indexedLog
    PROVE  LifeInv'
BY DEF LifeInv, MarksFollowTheList, StepFollowsTheList, logs

LEMMA InitLife == Init => LifeInv
<1> SUFFICES ASSUME Init PROVE LifeInv
  OBVIOUS
<1>1. OnlyList \in Seq(Books)
  <2>1. (CHOOSE m \in Modes : TRUE) \in Modes
    BY PipelineAssumption DEF PipelineAssumption
  <2> QED BY <2>1, PipelineAssumption DEF OnlyList, PipelineAssumption
<1>2. 0 \in 0 .. Len(OnlyList) /\ downloadedLog = Lifecycle!First(0) /\ indexedLog = downloadedLog
  BY <1>1, Prefixes DEF Init
<1>3. MarksFollowTheList
  BY <1>2 DEF MarksFollowTheList
<1>4. StepFollowsTheList
  BY DEF Init, StepFollowsTheList, Downloading
<1> QED BY <1>3, <1>4 DEF LifeInv

\* The steps between the marks, and the ends of runs.
LEMMA OtherLife ==
    ASSUME TypeOK, LifeInv,
           StartRun \/ Kill \/ Check \/ Write \/ ChooseToIndex \/ FinishRun \/ FetchFails \/ IndexBook
    PROVE  LifeInv' /\ UNCHANGED logs
<1> USE DEF LifeInv, StepFollowsTheList, Downloading
<1>1. CASE Exit /\ UNCHANGED disk
  BY <1>1, QuietLife DEF Exit, disk, logs
<1>2. CASE StartRun
  BY <1>2, QuietLife DEF StartRun, disk, logs, cursor
<1>3. CASE TrustIndex \/ RewriteIndex
  BY <1>3, QuietLife DEF TrustIndex, RewriteIndex, disk, logs, memory, cursor
<1>4. CASE Write
  <2>1. /\ WriteGoesOn /\ pc \in {"clear", "fill"} /\ pc' \in {"clear", "fill", "loop", "markIndexed"}
        /\ pc' = "loop" => book = None
    BY <1>4 DEF Write, OpenJson, FillJson, RemoveTermFile, FolderRemoved, OpenTermFile, FillTermFile,
             DeleteDocuments, PutDocument, IndexWritten
  <2> QED BY <2>1, QuietLife DEF WriteGoesOn, logs, memory
<1>5. CASE ChooseToIndex
  BY <1>5, QuietLife DEF ChooseToIndex, IsFirst, ReadyToIndex, disk, logs, memory
<1>6. CASE IndexBook
  BY <1>6, QuietLife, PipelineAssumption DEF IndexBook, disk, logs
<1> QED BY <1>1, <1>2, <1>3, <1>4, <1>5, <1>6 DEF Kill, Check, CheckFails, FinishRun, FetchFails

\* A download takes the next book of the list, once nothing waits.
LEMMA ChooseLife ==
    ASSUME TypeOK, LifeInv, OneListNoLoss, ChooseToDownload
    PROVE  LifeInv' /\ UNCHANGED logs
<1>0. /\ Candidates = OnlyList /\ OnlyList \in Seq(Books)
      /\ DOMAIN OnlyList = 1 .. Len(OnlyList) /\ Len(OnlyList) \in Nat
  BY TheList
<1>1. /\ UNCHANGED <<logs, downloaded, indexed>> /\ pc = "loop" /\ pc' = "fetch"
      /\ downloaded = downloadedLog /\ indexed = indexedLog
  BY DEF ChooseToDownload, LifeInv, StepFollowsTheList, disk, memory
<1>2. indexedLog = downloadedLog
  <2>1. ~\E b \in downloadedLog \ indexedLog : \E i \in DOMAIN OnlyList : OnlyList[i] = b
    BY <1>0, <1>1 DEF ChooseToDownload, AnyCandidateIn, IsCandidate, ReadyToIndex
  <2> QED BY <1>0, <2>1, WaitingBook DEF LifeInv
<1>3. PICK i \in 1 .. Len(OnlyList) :
         /\ book' = OnlyList[i] /\ book' \in Books \ downloadedLog
         /\ \A j \in 1 .. i - 1 : OnlyList[j] \notin Books \ downloadedLog
  BY <1>0, <1>1 DEF ChooseToDownload, IsFirst
<1>4. PICK n \in 0 .. Len(OnlyList) : downloadedLog = Lifecycle!First(n)
  BY DEF LifeInv, MarksFollowTheList
<1>5. Lifecycle!First(i - 1) \subseteq downloadedLog
  <2>1. \A j \in 1 .. i - 1 : OnlyList[j] \in downloadedLog
    BY <1>0, <1>3
  <2> QED BY <2>1 DEF Lifecycle!First
<1>6. n <= i - 1
  <2>1. OnlyList[i] \in Lifecycle!First(i)
    BY DEF Lifecycle!First
  <2>2. ~(i <= n)
    BY <1>0, <1>3, <1>4, <2>1, Prefixes
  <2> QED BY <1>0, <2>2
<1>7. downloadedLog = Lifecycle!First(i - 1)
  <2>1. i - 1 \in Nat /\ n \in Nat
    BY <1>0
  <2>2. Lifecycle!First(n) \subseteq Lifecycle!First(i - 1)
    BY <1>0, <1>6, <2>1, Prefixes
  <2> QED BY <1>4, <1>5, <2>2
<1>8. MarksFollowTheList'
  BY <1>1 DEF LifeInv, MarksFollowTheList, logs
<1>9. StepFollowsTheList'
  BY <1>0, <1>1, <1>2, <1>3, <1>7 DEF StepFollowsTheList, Downloading, logs
<1> QED BY <1>1, <1>8, <1>9 DEF LifeInv

\* The download goes on with the same book.
LEMMA DownloadLife ==
    ASSUME TypeOK, LifeInv,
           FetchSucceeds \/ FillBody \/ OpenHeader \/ FillHeader \/ InsertRow
    PROVE  LifeInv' /\ UNCHANGED logs
<1>1. /\ UNCHANGED <<downloadedLog, indexedLog, downloaded, indexed, book>>
      /\ pc \in Downloading /\ pc' \in Downloading
  BY DEF FetchSucceeds, FillBody, OpenHeader, FillHeader, InsertRow, DownloadGoesOn, Downloading, logs, memory, cursor
<1>2. MarksFollowTheList'
  BY <1>1 DEF LifeInv, MarksFollowTheList
<1>3. StepFollowsTheList'
  BY <1>1 DEF LifeInv, StepFollowsTheList, Downloading
<1> QED BY <1>1, <1>2, <1>3 DEF LifeInv, logs

\* mark() of the next book of the list.
LEMMA MarkDownloadedLife ==
    ASSUME TypeOK, LifeInv, OneListNoLoss, MarkDownloaded
    PROVE  LifeInv' /\ Lifecycle!Download
<1>0. OnlyList \in Seq(Books) /\ DOMAIN OnlyList = 1 .. Len(OnlyList) /\ Len(OnlyList) \in Nat /\ ~Vanishes
  BY TheList
<1>1. /\ downloadedLog' = downloadedLog \cup {book} /\ UNCHANGED <<indexedLog, indexed>>
      /\ downloaded' = downloaded \cup {book} /\ pc = "markDownloaded" /\ pc' = "loop" /\ book' = None
  BY <1>0 DEF MarkDownloaded, StepDone
<1>2. /\ downloaded = downloadedLog /\ indexed = indexedLog /\ indexedLog = downloadedLog
      /\ \E i \in DOMAIN OnlyList : /\ book = OnlyList[i] /\ book \notin downloadedLog
                                  /\ downloadedLog = Lifecycle!First(i - 1)
  BY <1>1 DEF LifeInv, StepFollowsTheList, Downloading
<1>3. PICK i \in DOMAIN OnlyList : /\ book = OnlyList[i] /\ book \notin downloadedLog
                                  /\ downloadedLog = Lifecycle!First(i - 1)
  BY <1>2
<1>4. downloadedLog' = Lifecycle!First(i) /\ i \in 0 .. Len(OnlyList) /\ i > 0
  BY <1>0, <1>1, <1>3, Prefixes
<1>5. MarksFollowTheList'
  BY <1>1, <1>2, <1>3, <1>4 DEF MarksFollowTheList
<1>6. StepFollowsTheList'
  BY <1>1, <1>2 DEF StepFollowsTheList, Downloading
<1>7. Lifecycle!Download
  BY <1>1, <1>2, <1>3 DEF Lifecycle!Download
<1> QED BY <1>5, <1>6, <1>7 DEF LifeInv

\* mark() of the book that waits.
LEMMA MarkIndexedLife ==
    ASSUME TypeOK, Cursor, LifeInv, OneListNoLoss, MarkIndexed
    PROVE  LifeInv' /\ Lifecycle!Index
<1>0. OnlyList \in Seq(Books) /\ ~Vanishes
  BY TheList
<1>1. /\ indexedLog' = indexedLog \cup {book} /\ UNCHANGED <<downloadedLog, downloaded>>
      /\ indexed' = indexed \cup {book} /\ pc = "markIndexed" /\ pc' = "loop" /\ book' = None
  BY <1>0 DEF MarkIndexed, StepDone
<1>2. /\ downloaded = downloadedLog /\ indexed = indexedLog /\ book \in downloadedLog \ indexedLog
  BY <1>1, PipelineAssumption DEF LifeInv, StepFollowsTheList, Downloading, Cursor, PipelineAssumption
<1>3. indexedLog' = downloadedLog
  BY <1>0, <1>1, <1>2, WaitingBook DEF LifeInv
<1>4. MarksFollowTheList'
  BY <1>1, <1>3 DEF LifeInv, MarksFollowTheList
<1>5. StepFollowsTheList'
  BY <1>1, <1>2 DEF StepFollowsTheList, Downloading
<1>6. Lifecycle!Index
  BY <1>1, <1>2, <1>3 DEF Lifecycle!Index
<1> QED BY <1>4, <1>5, <1>6 DEF LifeInv

LEMMA StepLife ==
    ASSUME TypeOK, Cursor, LifeInv, OneListNoLoss, [Next]_vars
    PROVE  LifeInv' /\ [Lifecycle!Next]_(Lifecycle!vars)
<1> USE DEF Lifecycle!Next, Lifecycle!vars
<1>1. CASE UNCHANGED vars
  BY <1>1 DEF vars, disk, logs, memory, cursor, LifeInv, MarksFollowTheList, StepFollowsTheList
<1>2. CASE StartRun \/ Kill \/ Check \/ Write \/ ChooseToIndex \/ FinishRun \/ FetchFails \/ IndexBook
  BY <1>2, OtherLife DEF logs
<1>3. CASE ChooseToDownload
  BY <1>3, ChooseLife DEF logs
<1>4. CASE FetchSucceeds \/ FillBody \/ OpenHeader \/ FillHeader \/ InsertRow
  BY <1>4, DownloadLife DEF logs
<1>5. CASE MarkDownloaded
  BY <1>5, MarkDownloadedLife
<1>6. CASE MarkIndexed
  BY <1>6, MarkIndexedLife
<1> QED BY <1>1, <1>2, <1>3, <1>4, <1>5, <1>6 DEF Next, Proceed, Choose, Download, Index

(* Where the list stays the same and no write is lost, the two log files    *)
(* follow the life cycle of BookLifecycle, whatever is killed and whatever  *)
(* layouts and structures the runs use.                                     *)
THEOREM MarksFollowTheLifecycle == ASSUME OneListNoLoss PROVE Spec => BooksInOrderOnceEach
<1>1. Init => LifeInv /\ Lifecycle!Init
  BY InitLife DEF Init, Lifecycle!Init
<1>2. TypeInv /\ LifeInv /\ [Next]_vars => LifeInv' /\ [Lifecycle!Next]_(Lifecycle!vars)
  BY StepLife DEF TypeInv
<1>3. Spec => []TypeInv
  BY InitTyped, StepTyped, PTL DEF Spec
<1>4. Spec => Lifecycle!Spec
  BY <1>1, <1>2, <1>3, PTL DEF Spec, Lifecycle!Spec
<1> QED BY <1>4 DEF BooksInOrderOnceEach

-----------------------------------------------------------------------------
(* What an indexing leaves stored.                                          *)

\* A step that is not one of an index write.
LEMMA QuietWrite ==
    ASSUME WriteUnderWay, pc' \notin {"clear", "fill", "markIndexed"}, opened' = None
    PROVE  WriteUnderWay'
BY DEF WriteUnderWay

LEMMA InitWrite == Init => WriteUnderWay
BY DEF Init, WriteUnderWay

LEMMA OtherWrite ==
    ASSUME TypeOK, WriteUnderWay, StartRun \/ Kill \/ Check \/ Choose \/ Download \/ MarkIndexed,
           pc \in {"off", "check", "loop"} => book = None
    PROVE  WriteUnderWay'
<1>1. pc # "fill" => opened = None
  BY DEF WriteUnderWay
<1>2. CASE Exit
  BY <1>2, QuietWrite DEF Exit
<1>3. CASE StartRun
  BY <1>1, <1>3, QuietWrite DEF StartRun, cursor
<1>4. CASE TrustIndex
  BY <1>1, <1>4, QuietWrite DEF TrustIndex, cursor
<1>5. CASE RewriteIndex
  BY <1>1, <1>5 DEF RewriteIndex, WriteUnderWay
<1>6. CASE ChooseToIndex \/ ChooseToDownload
  BY <1>1, <1>6, QuietWrite DEF ChooseToIndex, ChooseToDownload
<1>7. CASE FetchSucceeds \/ MarkDownloaded \/ MarkIndexed
  BY <1>1, <1>7, QuietWrite DEF FetchSucceeds, MarkDownloaded, MarkIndexed, StepDone
<1>8. CASE FillBody \/ OpenHeader \/ FillHeader \/ InsertRow
  BY <1>1, <1>8, QuietWrite DEF FillBody, OpenHeader, FillHeader, InsertRow, DownloadGoesOn, cursor
<1> QED BY <1>2, <1>3, <1>4, <1>5, <1>6, <1>7, <1>8
        DEF Kill, Check, CheckFails, Choose, FinishRun, Download, FetchFails

(* The book that is indexed is a candidate, and its body is whole.          *)
LEMMA WholeBook ==
    ASSUME TypeInv, KnownBooks, IndexBook
    PROVE  book \in Books /\ IsCandidate(book) /\ BodyReadings(book) = {TermsOf[book]}
<1>1. book \in Books /\ IsCandidate(book) /\ body[<<metadata[book], book>>] = "whole"
  BY PipelineAssumption DEF IndexBook, TypeInv, Cursor, KnownBooks, Downloading, PipelineAssumption
<1> QED BY <1>1, WholeReading

\* So all its terms are added.
LEMMA IndexBookWrite ==
    ASSUME TypeInv, WriteUnderWay, KnownBooks, IndexBook
    PROVE  WriteUnderWay'
<1>0. TypeOK /\ book \in Books /\ BodyReadings(book) = {TermsOf[book]}
  BY WholeBook DEF TypeInv
<1>2. /\ index' = AddBook(index, book, TermsOf[book]) /\ todo' = TermsOf[book]
      /\ pc' = (IF Monolithic THEN "clear" ELSE "fill")
      /\ UNCHANGED <<run, book, opened>> /\ pc = "index"
  BY <1>0 DEF IndexBook
<1>3. opened = None
  BY <1>2 DEF WriteUnderWay
<1>4. TermsOf[book] \subseteq Terms
  BY <1>0, PipelineAssumption DEF PipelineAssumption
<1>5. \A t \in TermsOf[book] : book \in index'[t]
  BY <1>2, <1>4 DEF AddBook
<1> QED BY <1>2, <1>3, <1>5 DEF WriteUnderWay, Monolithic

LEMMA StoredType ==
    ASSUME TypeOK, NEW s \in Structures
    PROVE  /\ DOMAIN stored = Structures /\ stored[s] \in [Terms -> Entries]
           /\ \A t \in Terms : \A v :
                 /\ [stored EXCEPT ![s][t] = v][s][t] = v
                 /\ \A u \in Terms \ {t} : [stored EXCEPT ![s][t] = v][s][u] = stored[s][u]
<1>1. stored \in [Structures -> [Terms -> Entries]]
  BY DEF TypeOK
<1> QED BY <1>1

\* The JSON file is written at once; a list is None nowhere in it.
LEMMA JsonWrite ==
    ASSUME TypeOK, WriteUnderWay, OpenJson \/ FillJson
    PROVE  WriteUnderWay'
<1>1. /\ run' = run /\ book' = book /\ index' = index /\ Monolithic /\ opened' = opened /\ pc' = "fill"
      /\ pc \in {"clear", "fill"}
  BY DEF OpenJson, FillJson, WriteGoesOn, memory
<1>2. run.structure = "monolithic" /\ "monolithic" \in Structures
  BY <1>1, StructureOfRun DEF Monolithic, TypeOK
<1>3. opened = None
  BY <1>2 DEF WriteUnderWay
<1>4. jsonFile' = "whole" => stored'["monolithic"] = Image(index)
  BY <1>2, StoredType DEF OpenJson, FillJson, TypeOK
<1> QED BY <1>1, <1>2, <1>3, <1>4 DEF WriteUnderWay, Monolithic, Image

LEMMA ClearWrite ==
    ASSUME TypeOK, WriteUnderWay, RemoveTermFile \/ FolderRemoved \/ DeleteDocuments
    PROVE  WriteUnderWay'
<1>1. /\ run' = run /\ book' = book /\ index' = index /\ opened' = opened /\ pc = "clear"
      /\ pc' \in {"clear", "fill"} /\ run.structure \in {"hierarchical", "mongo"}
  BY DEF RemoveTermFile, FolderRemoved, DeleteDocuments, WriteGoesOn, memory
<1> QED BY <1>1 DEF WriteUnderWay, Monolithic

\* A term file is opened and filled, or a document is put.
LEMMA OpenWrite ==
    ASSUME TypeOK, WriteUnderWay, OpenTermFile
    PROVE  WriteUnderWay'
<1>1. PICK t \in todo : stored' = [stored EXCEPT !["hierarchical"][t] = {}] /\ opened' = t
  BY DEF OpenTermFile
<1>2. /\ run' = run /\ book' = book /\ index' = index /\ todo' = todo /\ pc' = "fill" /\ pc = "fill"
      /\ run.structure = "hierarchical" /\ "hierarchical" \in Structures /\ t \in Terms
  BY StructureOfRun DEF OpenTermFile, WriteGoesOn, memory, TypeOK
<1>3. \A u \in Terms \ {t} : stored'["hierarchical"][u] = stored["hierarchical"][u]
  BY <1>1, <1>2, StoredType
<1>4. book # None => TermsOf[book] \subseteq Terms
  BY PipelineAssumption DEF PipelineAssumption, TypeOK
<1> QED BY <1>1, <1>2, <1>3, <1>4 DEF WriteUnderWay, Monolithic

LEMMA FillWrite ==
    ASSUME TypeOK, WriteUnderWay, FillTermFile \/ PutDocument, NoLoss
    PROVE  WriteUnderWay'
<1>1. PICK t \in todo : stored' = [stored EXCEPT ![run.structure][t] = index[t]] /\ todo' = todo \ {t}
  <2>1. CASE FillTermFile
    BY <2>1 DEF FillTermFile, WriteUnderWay, NoLoss, Vanishes
  <2>2. CASE PutDocument
    BY <2>2 DEF PutDocument
  <2> QED BY <2>1, <2>2
<1>2. /\ run' = run /\ book' = book /\ index' = index /\ pc' = "fill" /\ pc = "fill" /\ opened' = None
      /\ run.structure # "monolithic"
  BY DEF FillTermFile, PutDocument, WriteGoesOn, memory, WriteUnderWay
<1>3. run.structure \in Structures /\ t \in Terms /\ index[t] # None
  BY StructureOfRun, PipelineAssumption DEF PipelineAssumption, TypeOK
<1>4. /\ stored'[run.structure][t] = index[t]
      /\ \A u \in Terms \ {t} : stored'[run.structure][u] = stored[run.structure][u]
  BY <1>1, <1>3, StoredType
<1>5. book # None => TermsOf[book] \subseteq Terms
  BY PipelineAssumption DEF PipelineAssumption, TypeOK
<1>6. book # None => \A u \in TermsOf[book] \ todo' :
         stored'[run.structure][u] # None /\ book \in stored'[run.structure][u]
  BY <1>1, <1>2, <1>3, <1>4, <1>5 DEF WriteUnderWay, Monolithic
<1>7. book # None => \A u \in TermsOf[book] : book \in index[u]
  BY <1>2 DEF WriteUnderWay
<1> QED BY <1>2, <1>6, <1>7 DEF WriteUnderWay, Monolithic

\* Nothing is left to write: the book is served.
LEMMA WrittenWrite ==
    ASSUME TypeOK, WriteUnderWay, IndexWritten
    PROVE  WriteUnderWay'
<1>1. /\ UNCHANGED <<stored, jsonFile, todo, opened, run, book, index>> /\ todo = {} /\ opened = None
      /\ pc = "fill" /\ pc' = (IF book = None THEN "loop" ELSE "markIndexed")
  BY DEF IndexWritten, WriteGoesOn, memory
<1>2. CASE book = None
  BY <1>1, <1>2 DEF WriteUnderWay
<1>3. CASE book # None
  <2>1. \A t \in TermsOf[book] : book \in index[t] /\ t \in Terms
    BY <1>1, <1>3, PipelineAssumption DEF WriteUnderWay, PipelineAssumption, TypeOK
  <2>2. CASE Monolithic
    <3>1. stored["monolithic"] = Image(index) /\ run.structure = "monolithic"
      BY <1>1, <2>2 DEF WriteUnderWay, IndexWritten, Monolithic
    <3>2. \A t \in TermsOf[book] : index[t] # {} /\ index[t] # None
      BY <2>1, PipelineAssumption DEF PipelineAssumption, TypeOK
    <3>3. Served(book)
      BY <2>1, <3>1, <3>2 DEF Served, Image
    <3> QED BY <1>1, <1>3, <3>3 DEF WriteUnderWay, Served
  <2>3. CASE ~Monolithic
    <3>1. Served(book)
      BY <1>1, <1>3, <2>3 DEF WriteUnderWay, Served
    <3> QED BY <1>1, <1>3, <3>1 DEF WriteUnderWay, Served
  <2> QED BY <2>2, <2>3
<1> QED BY <1>2, <1>3

LEMMA StepWrite ==
    ASSUME TypeInv, KnownBooks, WriteUnderWay, NoLoss, [Next]_vars
    PROVE  WriteUnderWay'
<1>1. TypeOK /\ (pc \in {"off", "check", "loop"} => book = None)
  BY DEF TypeInv, KnownBooks
<1>2. CASE UNCHANGED vars
  BY <1>2 DEF vars, disk, logs, memory, cursor, WriteUnderWay, Monolithic, Served
<1>3. CASE Write
  BY <1>1, <1>3, JsonWrite, ClearWrite, OpenWrite, FillWrite, WrittenWrite DEF Write
<1>4. CASE IndexBook
  BY <1>4, IndexBookWrite
<1>5. CASE StartRun \/ Kill \/ Check \/ Choose \/ Download \/ MarkIndexed
  BY <1>1, <1>5, OtherWrite
<1> QED BY <1>2, <1>3, <1>4, <1>5 DEF Next, Proceed, Index

LEMMA MarksOfServedBooks ==
    ASSUME WriteUnderWay, [Next]_vars
    PROVE  \A b \in indexedLog' \ indexedLog : Served(b)
<1>1. CASE MarkIndexed
  BY <1>1 DEF MarkIndexed, WriteUnderWay
<1>2. CASE ~MarkIndexed
  <2>1. indexedLog' = indexedLog
    <3> USE DEF disk, logs
    <3>1. CASE UNCHANGED vars
      BY <3>1 DEF vars
    <3>2. CASE StartRun \/ Kill \/ Check
      BY <3>2 DEF StartRun, Kill, Check, CheckFails, TrustIndex, RewriteIndex
    <3>3. CASE Write
      BY <3>3 DEF Write, OpenJson, FillJson, RemoveTermFile, FolderRemoved, OpenTermFile, FillTermFile,
                  DeleteDocuments, PutDocument, IndexWritten, WriteGoesOn
    <3>4. CASE Choose
      BY <3>4 DEF Choose, ChooseToIndex, ChooseToDownload, FinishRun
    <3>5. CASE Download
      BY <3>5 DEF Download, FetchFails, FetchSucceeds, FillBody, OpenHeader, FillHeader, InsertRow,
                  MarkDownloaded, DownloadGoesOn
    <3>6. CASE IndexBook
      BY <3>6 DEF IndexBook
    <3> QED BY <1>2, <3>1, <3>2, <3>3, <3>4, <3>5, <3>6 DEF Next, Proceed, Index
  <2> QED BY <2>1
<1> QED BY <1>1, <1>2

(* Where no short write is lost, a book is marked indexed only when the     *)
(* structure of the run has it under each of its terms, whatever damage     *)
(* earlier runs left there and whatever list and structure each run uses.   *)
THEOREM MarksAreOfServedBooks == ASSUME NoLoss PROVE Spec => IndexedOnlyWhenServed
<1>1. Spec => [](TypeInv /\ BodiesInv /\ KnownBooks /\ WriteUnderWay)
  <2>1. Init => TypeInv /\ BodiesInv /\ KnownBooks /\ WriteUnderWay
    BY InitTyped, InitBodies, InitKnown, InitWrite
  <2>2. TypeInv /\ BodiesInv /\ KnownBooks /\ WriteUnderWay /\ [Next]_vars
          => TypeInv' /\ BodiesInv' /\ KnownBooks' /\ WriteUnderWay'
    BY StepTyped, StepBodies, StepKnown, StepWrite
  <2> QED BY <2>1, <2>2, PTL DEF Spec
<1>2. WriteUnderWay /\ [Next]_vars => [\A b \in indexedLog' \ indexedLog : Served(b)]_vars
  BY MarksOfServedBooks
<1>3. Spec => [][\A b \in indexedLog' \ indexedLog : Served(b)]_vars
  BY <1>1, <1>2, PTL DEF Spec
<1> QED BY <1>3 DEF IndexedOnlyWhenServed

-----------------------------------------------------------------------------
(* The marks and the index in memory, where no short write is lost.         *)

ExactInv == MarksAreNested /\ IndexIsExact

LEMMA InitExact == Init => ExactInv
BY DEF Init, ExactInv, MarksAreNested, IndexIsExact

LEMMA ExitExact ==
    ASSUME ExactInv, Exit, UNCHANGED disk
    PROVE  ExactInv'
BY DEF ExactInv, MarksAreNested, IndexIsExact, Exit, disk, logs

\* The rebuilt index: each marked candidate has its row and its whole body.
LEMMA StartExact ==
    ASSUME TypeOK, MarkedBooksHaveBodies, ExactInv, StartRun
    PROVE  ExactInv'
<1>1. /\ downloadedLog' = downloadedLog /\ indexedLog' = indexedLog /\ pc' = "check"
      /\ downloaded' = downloadedLog /\ indexed' = indexedLog
  BY DEF StartRun, disk, logs
<1>2. indexedLog \subseteq Books /\ \A b \in indexedLog : metadata[b] # None /\ BodyReadings(b) = {TermsOf[b]}
  BY WholeReading DEF TypeOK, ExactInv, MarksAreNested, MarkedBooksHaveBodies
<1>3. ASSUME NEW t \in Terms
      PROVE  index'[t] = {b \in Books : t \in TermsOf[b] /\ IsCandidate(b)' /\ b \in indexedLog}
  <2>1. index'[t] = {b \in Rebuilt(run') : t \in TermsOf[b]}
    BY <1>2, StartReadsWhole
  <2>2. Rebuilt(run') = {b \in indexedLog : IsCandidate(b)' /\ metadata[b] # None}
    BY DEF Rebuilt, IsCandidate, Candidates
  <2> QED BY <1>2, <2>1, <2>2
<1> QED BY <1>1, <1>3 DEF ExactInv, MarksAreNested, IndexIsExact

\* A step of a run that marks nothing and indexes nothing.
LEMMA QuietExact ==
    ASSUME ExactInv, UNCHANGED <<logs, run, downloaded, indexed, index>>, pc # "off",
           \/ book = None /\ pc' \notin {"clear", "fill", "markIndexed"}
           \/ pc \notin {"clear", "fill", "markIndexed"} /\ pc' \notin {"clear", "fill", "markIndexed"}
           \/ /\ pc \in {"clear", "fill", "markIndexed"} /\ pc' \in {"clear", "fill", "markIndexed"}
              /\ book' = book
           \/ book = None /\ book' = None,
           None \notin Books
    PROVE  ExactInv'
<1>1. MarksAreNested'
  BY DEF ExactInv, MarksAreNested, logs
<1>2. indexedLog' = indexedLog /\ index' = index /\ \A b \in Books : IsCandidate(b)' <=> IsCandidate(b)
  BY DEF IsCandidate, Candidates, logs
<1>3. \A b \in Books : (b = book' /\ pc' \in {"clear", "fill", "markIndexed"})
                       <=> (b = book /\ pc \in {"clear", "fill", "markIndexed"})
  OBVIOUS
<1>4. IndexIsExact'
  BY <1>2, <1>3 DEF ExactInv, IndexIsExact
<1> QED BY <1>1, <1>4 DEF ExactInv

LEMMA IndexBookExact ==
    ASSUME TypeInv, KnownBooks, ExactInv, IndexBook
    PROVE  ExactInv'
<1>1. /\ book \in Books /\ BodyReadings(book) = {TermsOf[book]} /\ IsCandidate(book)
  BY WholeBook
<1>2. /\ UNCHANGED <<downloadedLog, indexedLog, downloaded, indexed, book, run>>
      /\ index' = AddBook(index, book, TermsOf[book]) /\ pc = "index" /\ pc' \in {"clear", "fill"}
  BY <1>1 DEF IndexBook, disk, logs
<1>3. \A b \in Books : IsCandidate(b)' <=> IsCandidate(b)
  BY <1>2 DEF IsCandidate, Candidates
<1>4. ASSUME NEW t \in Terms
      PROVE  index'[t] = {b \in Books : t \in TermsOf[b] /\ IsCandidate(b)
                                        /\ (b \in indexedLog \/ b = book)}
  <2>1. index[t] = {b \in Books : t \in TermsOf[b] /\ IsCandidate(b) /\ b \in indexedLog}
    BY <1>2 DEF ExactInv, IndexIsExact
  <2>2. index'[t] = IF t \in TermsOf[book] THEN index[t] \cup {book} ELSE index[t]
    BY <1>2 DEF AddBook
  <2> QED BY <1>1, <2>1, <2>2
<1> QED BY <1>2, <1>3, <1>4 DEF ExactInv, MarksAreNested, IndexIsExact

\* A mark adds the book that the index already has.
LEMMA MarkExact ==
    ASSUME TypeInv, KnownBooks, ExactInv, NoLoss, MarkIndexed
    PROVE  ExactInv'
<1>1. /\ pc = "markIndexed" /\ pc' = "loop" /\ indexedLog' = indexedLog \cup {book}
      /\ indexed' = indexed \cup {book} /\ UNCHANGED <<downloadedLog, downloaded, index, run>>
  BY DEF MarkIndexed, StepDone, NoLoss, Vanishes
<1>2. book \in downloaded
  BY <1>1, PipelineAssumption DEF TypeInv, Cursor, KnownBooks, Downloading, PipelineAssumption
<1>3. MarksAreNested'
  BY <1>1, <1>2 DEF ExactInv, MarksAreNested
<1>4. \A b \in Books : IsCandidate(b)' <=> IsCandidate(b)
  BY <1>1 DEF IsCandidate, Candidates
<1>5. IndexIsExact'
  BY <1>1, <1>4 DEF ExactInv, IndexIsExact
<1> QED BY <1>3, <1>5 DEF ExactInv

LEMMA StepExact ==
    ASSUME TypeInv, BodiesInv, KnownBooks, ExactInv, NoLoss, [Next]_vars
    PROVE  ExactInv'
<1>0. TypeOK /\ MarkedBooksHaveBodies /\ None \notin Books
  BY PipelineAssumption DEF TypeInv, BodiesInv, PipelineAssumption
<1>1. CASE UNCHANGED vars
  BY <1>1 DEF vars, disk, logs, memory, cursor, ExactInv, MarksAreNested, IndexIsExact, IsCandidate, Candidates
<1>2. CASE Kill \/ CheckFails \/ FinishRun \/ FetchFails
  BY <1>2, ExitExact DEF Kill, CheckFails, FinishRun, FetchFails
<1>3. CASE TrustIndex \/ RewriteIndex
  BY <1>0, <1>3, QuietExact DEF TrustIndex, RewriteIndex, KnownBooks, disk, memory, cursor
<1>4. CASE Write
  <2>1. /\ WriteGoesOn /\ pc \in {"clear", "fill"} /\ pc' \in {"clear", "fill", "loop", "markIndexed"}
        /\ pc' = "loop" => book = None
    BY <1>4 DEF Write, OpenJson, FillJson, RemoveTermFile, FolderRemoved, OpenTermFile, FillTermFile,
           DeleteDocuments, PutDocument, IndexWritten
  <2> QED BY <1>0, <2>1, QuietExact DEF WriteGoesOn, memory
<1>5. CASE ChooseToIndex \/ ChooseToDownload
  BY <1>0, <1>5, QuietExact DEF ChooseToIndex, ChooseToDownload, disk, memory
<1>6. CASE FetchSucceeds \/ FillBody \/ OpenHeader \/ FillHeader \/ InsertRow
  BY <1>0, <1>6, QuietExact
     DEF FetchSucceeds, FillBody, OpenHeader, FillHeader, InsertRow, DownloadGoesOn, logs, memory
<1>7. CASE MarkDownloaded
  <2>1. /\ downloadedLog' = downloadedLog \cup {book} /\ downloaded' = downloaded \cup {book}
        /\ UNCHANGED <<indexedLog, indexed, index, run>> /\ pc = "markDownloaded" /\ pc' = "loop"
    BY <1>7 DEF MarkDownloaded, StepDone, NoLoss, Vanishes
  <2>2. \A b \in Books : IsCandidate(b)' <=> IsCandidate(b)
    BY <2>1 DEF IsCandidate, Candidates
  <2>3. MarksAreNested'
    BY <2>1 DEF ExactInv, MarksAreNested
  <2>4. IndexIsExact'
    BY <2>1, <2>2 DEF ExactInv, IndexIsExact
  <2> QED BY <2>3, <2>4 DEF ExactInv
<1> QED BY <1>0, <1>1, <1>2, <1>3, <1>4, <1>5, <1>6, <1>7, StartExact, IndexBookExact, MarkExact
        DEF Next, Proceed, Check, Choose, Download, Index

(* Where no short write is lost, a book marked indexed is always one marked *)
(* downloaded, a run knows exactly the marks on disk, and its index holds   *)
(* exactly the candidates marked indexed under exactly their terms (what    *)
(* cli_commands.cpp:164 calls the index rebuilt above), whatever lists,     *)
(* layouts and structures the runs use.                                     *)
THEOREM RebuiltIndexIsExact == ASSUME NoLoss PROVE Spec => [](MarksAreNested /\ IndexIsExact)
<1>1. Init => TypeInv /\ BodiesInv /\ KnownBooks /\ ExactInv
  BY InitTyped, InitBodies, InitKnown, InitExact
<1>2. TypeInv /\ BodiesInv /\ KnownBooks /\ ExactInv /\ [Next]_vars
      => TypeInv' /\ BodiesInv' /\ KnownBooks' /\ ExactInv'
  BY StepTyped, StepBodies, StepKnown, StepExact
<1> QED BY <1>1, <1>2, PTL DEF Spec, ExactInv

-----------------------------------------------------------------------------
(* Damage is repaired first, where every run has the same configuration.    *)

OneConfiguration == OneListNoLoss /\ ~ConfigChanges

Context == TypeInv /\ BodiesInv /\ KnownBooks /\ TornOnlyAfterLosses /\ PostingsInv
           /\ LifeInv /\ WriteUnderWay

LEMMA ContextKept ==
    ASSUME OneListNoLoss
    PROVE  /\ Init => Context
           /\ Context /\ [Next]_vars => Context'
<1>1. Init => Context
  BY InitTyped, InitBodies, InitKnown, InitTorn, InitPostings, InitLife, InitWrite DEF Context
<1>2. Context /\ [Next]_vars => Context'
  <2> SUFFICES ASSUME Context, [Next]_vars PROVE Context'
    OBVIOUS
  <2>1. /\ TypeInv /\ BodiesInv /\ KnownBooks /\ TornOnlyAfterLosses /\ PostingsInv
        /\ LifeInv /\ WriteUnderWay /\ TypeOK /\ Cursor /\ NoLoss
    BY DEF Context, TypeInv, OneListNoLoss
  <2>2. TypeInv' /\ BodiesInv' /\ KnownBooks' /\ TornOnlyAfterLosses' /\ PostingsInv'
    BY <2>1, StepTyped, StepBodies, StepKnown, StepTorn, StepPostings
  <2>3. LifeInv' /\ WriteUnderWay'
    BY <2>1, StepLife, StepWrite
  <2> QED BY <2>2, <2>3 DEF Context
<1> QED BY <1>1, <1>2

\* What is due changes with the marks only.
LEMMA DueStays ==
    ASSUME indexedLog' = indexedLog
    PROVE  DueTerms' = DueTerms /\ \A t \in Terms : Due(t)' = Due(t)
BY DEF DueTerms, Due

\* A book marked downloaded is a candidate with a row and a whole body.
LEMMA MarkedBooksAreReadBack ==
    ASSUME Context, OneListNoLoss, NEW b \in downloadedLog
    PROVE  /\ \E i \in DOMAIN ListOf[run.mode] : ListOf[run.mode][i] = b
           /\ metadata[b] # None /\ BodyReadings(b) = {TermsOf[b]}
<1>1. TypeOK /\ MarksFollowTheList /\ MarkedBooksHaveBodies
  BY DEF Context, TypeInv, LifeInv, BodiesInv
<1>2. Candidates = OnlyList /\ OnlyList \in Seq(Books)
  BY <1>1, TheList
<1>3. \E i \in DOMAIN OnlyList : OnlyList[i] = b
  BY <1>1, <1>2, WaitingBook
<1>4. \E i \in DOMAIN ListOf[run.mode] : ListOf[run.mode][i] = b
  BY <1>2, <1>3 DEF Candidates
<1>5. metadata[b] # None /\ BodyReadings(b) = {TermsOf[b]}
  BY <1>1, WholeReading DEF MarkedBooksHaveBodies
<1> QED BY <1>4, <1>5

LEMMA StartDue ==
    ASSUME Context, OneConfiguration, StartRun
    PROVE  IndexIsDue'
<1>1. run' = run /\ indexedLog' = indexedLog /\ pc' = "check"
  BY DEF StartRun, RunsAfter, OneConfiguration, disk, logs
<1>2. indexedLog \subseteq downloadedLog
  <2>1. OnlyList \in Seq(Books) /\ MarksFollowTheList
    BY TheList DEF Context, TypeInv, LifeInv, OneConfiguration
  <2> QED BY <2>1, WaitingBook
<1>3. ASSUME NEW t \in Terms
      PROVE  index'[t] = Due(t)
  <2>1. \A b \in indexedLog : /\ \E i \in DOMAIN ListOf[run.mode] : ListOf[run.mode][i] = b
                              /\ metadata[b] # None /\ BodyReadings(b) = {TermsOf[b]}
    BY <1>2, MarkedBooksAreReadBack DEF OneConfiguration
  <2>2. index'[t] = {b \in Rebuilt(run) : t \in TermsOf[b]}
    BY <1>1, <2>1, StartReadsWhole
  <2>3. index'[t] = {b \in indexedLog : t \in TermsOf[b]}
    BY <2>1, <2>2 DEF Rebuilt
  <2> QED BY <2>3 DEF Due
<1>4. \A t \in Terms : Due(t)' = Due(t)
  BY <1>1, DueStays
<1> QED BY <1>1, <1>3, <1>4 DEF IndexIsDue

\* Outside of an index write, the index is what is due.
LEMMA DueIndex ==
    ASSUME TypeOK, IndexIsDue, pc # "off", pc \notin {"clear", "fill", "markIndexed"} \/ book = None
    PROVE  (\A t \in Terms : index[t] = Due(t)) /\ TermsIn(index) = DueTerms
<1>1. ASSUME NEW t \in Terms PROVE index[t] = Due(t)
  <2>1. index[t] \subseteq Books /\ None \notin Books
    BY PipelineAssumption DEF TypeOK, PipelineAssumption
  <2> QED BY <2>1 DEF IndexIsDue
<1> QED BY <1>1 DEF TermsIn, DueTerms

LEMMA CheckDue ==
    ASSUME TypeOK, StepFollowsTheList, IndexIsDue, Check
    PROVE  IndexIsDue'
<1>1. CASE CheckFails
  BY <1>1 DEF CheckFails, Exit, IndexIsDue
<1>2. CASE TrustIndex \/ RewriteIndex
  <2>1. /\ indexedLog' = indexedLog /\ index' = index /\ pc = "check" /\ pc' \in {"loop", "clear"}
        /\ pc' = "clear" => todo' = TermsIn(index) /\ book' = book
    BY <1>2 DEF TrustIndex, RewriteIndex, disk, logs, memory
  <2>2. (\A t \in Terms : index[t] = Due(t)) /\ TermsIn(index) = DueTerms
    BY <2>1, DueIndex
  <2>3. DueTerms' = DueTerms /\ \A t \in Terms : Due(t)' = Due(t)
    BY <2>1, DueStays
  <2>4. CASE pc' = "loop"
    BY <2>1, <2>2, <2>3, <2>4 DEF IndexIsDue
  <2>5. CASE pc' = "clear"
    <3>1. book' = None /\ todo' = DueTerms
      BY <2>1, <2>2, <2>5 DEF StepFollowsTheList
    <3> QED BY <2>1, <2>2, <2>3, <2>5, <3>1 DEF IndexIsDue
  <2> QED BY <2>1, <2>4, <2>5
<1> QED BY <1>1, <1>2 DEF Check

\* The steps of a download, and the choices.
LEMMA QuietDue ==
    ASSUME TypeOK, IndexIsDue, UNCHANGED <<indexedLog, index>>,
           pc # "off", pc \notin {"clear", "fill", "markIndexed"},
           pc' \notin {"clear", "fill", "markIndexed"}
    PROVE  IndexIsDue'
<1>1. \A t \in Terms : index[t] = Due(t)
  BY DueIndex
<1>2. \A t \in Terms : Due(t)' = Due(t)
  BY DueStays
<1> QED BY <1>1, <1>2 DEF IndexIsDue

LEMMA StepsDue ==
    ASSUME TypeOK, IndexIsDue, Choose \/ Download
    PROVE  IndexIsDue'
<1>1. CASE Exit
  BY <1>1 DEF Exit, IndexIsDue
<1>2. CASE ChooseToIndex \/ ChooseToDownload
  BY <1>2, QuietDue DEF ChooseToIndex, ChooseToDownload, disk, logs, memory
<1>3. CASE FetchSucceeds
  BY <1>3, QuietDue DEF FetchSucceeds, logs, memory
<1>4. CASE FillBody \/ OpenHeader \/ FillHeader \/ InsertRow
  BY <1>4, QuietDue DEF FillBody, OpenHeader, FillHeader, InsertRow, DownloadGoesOn
<1>5. CASE MarkDownloaded
  BY <1>5, QuietDue DEF MarkDownloaded, StepDone
<1> QED BY <1>1, <1>2, <1>3, <1>4, <1>5 DEF Choose, FinishRun, Download, FetchFails

LEMMA IndexBookDue ==
    ASSUME Context, OneConfiguration, IndexIsDue, IndexBook
    PROVE  IndexIsDue'
<1>0. TypeOK /\ StepFollowsTheList /\ Cursor
  BY DEF Context, TypeInv, LifeInv
<1>1. pc = "index" /\ pc' \in {"clear", "fill"} /\ indexedLog' = indexedLog /\ book' = book
  BY DEF IndexBook, disk, logs
<1>2. book \in Books /\ book # None /\ book \in downloadedLog
  BY <1>0, <1>1, PipelineAssumption DEF Cursor, StepFollowsTheList, Downloading, PipelineAssumption
<1>3. index' = AddBook(index, book, TermsOf[book]) /\ todo' = TermsOf[book]
  BY WholeBook DEF IndexBook, Context
<1>4. \A t \in Terms : index[t] = Due(t)
  BY <1>0, <1>1, DueIndex
<1>5. \A t \in Terms : Due(t)' = Due(t)
  BY <1>1, DueStays
<1>6. \A t \in Terms : index[t] \subseteq index'[t] /\ index'[t] \subseteq index[t] \cup {book}
  BY <1>3 DEF AddBook
<1> QED BY <1>1, <1>2, <1>3, <1>4, <1>5, <1>6 DEF IndexIsDue

LEMMA MarkIndexedDue ==
    ASSUME Context, OneConfiguration, IndexIsDue, MarkIndexed
    PROVE  IndexIsDue'
<1>1. pc = "markIndexed" /\ pc' = "loop" /\ indexedLog' = indexedLog \cup {book} /\ index' = index
  BY DEF MarkIndexed, StepDone, OneConfiguration, OneListNoLoss, NoLoss, Vanishes
<1>2. ASSUME NEW t \in Terms
      PROVE  Due(t)' = Due(t) \cup {b \in {book} : t \in TermsOf[b]}
  BY <1>1 DEF Due
<1>3. book \in Books /\ IndexIsTrue
  BY <1>1 DEF Context, TypeInv, Cursor, PostingsInv
<1>4. ASSUME NEW t \in Terms
      PROVE  Due(t)' \subseteq index'[t]
  BY <1>1, <1>2, <1>3 DEF IndexIsDue
<1>5. ASSUME NEW t \in Terms
      PROVE  index'[t] \subseteq Due(t)'
  BY <1>1, <1>2, <1>3
     DEF IndexIsDue, IndexIsTrue, TrueTerm, OneConfiguration, OneListNoLoss, NoLoss
<1> QED BY <1>1, <1>4, <1>5 DEF IndexIsDue

\* A write changes what is still to be written, and may be the last.
LEMMA WriteDue ==
    ASSUME Context, IndexIsDue, Write
    PROVE  IndexIsDue'
<1>0. TypeOK /\ WriteUnderWay
  BY DEF Context, TypeInv
<1>1. UNCHANGED <<indexedLog, index, book>> /\ pc \in {"clear", "fill"}
  BY DEF Write, OpenJson, FillJson, RemoveTermFile, FolderRemoved, OpenTermFile, FillTermFile,
         DeleteDocuments, PutDocument, IndexWritten, WriteGoesOn, logs, memory
<1>2. todo' \subseteq todo /\ (pc' = "clear" => pc = "clear" /\ todo' = todo)
  BY DEF Write, OpenJson, FillJson, RemoveTermFile, FolderRemoved, OpenTermFile, FillTermFile,
         DeleteDocuments, PutDocument, IndexWritten
<1>3. \/ pc' \in {"clear", "fill"}
      \/ pc = "fill" /\ pc' = (IF book = None THEN "loop" ELSE "markIndexed")
  BY DEF Write, OpenJson, FillJson, RemoveTermFile, FolderRemoved, OpenTermFile, FillTermFile,
         DeleteDocuments, PutDocument, IndexWritten
<1>4. DueTerms' = DueTerms /\ \A t \in Terms : Due(t)' = Due(t)
  BY <1>1, DueStays
<1>5. CASE pc' \in {"clear", "fill"}
  BY <1>1, <1>2, <1>4, <1>5 DEF IndexIsDue
<1>6. CASE pc' = "loop"
  <2>1. book = None
    BY <1>3, <1>6
  <2>2. \A t \in Terms : index[t] = Due(t)
    BY <1>0, <1>1, <2>1, DueIndex
  <2> QED BY <1>1, <1>4, <1>6, <2>2 DEF IndexIsDue
<1>7. CASE pc' = "markIndexed"
  <2>1. pc = "fill" /\ book # None
    BY <1>3, <1>7
  <2>2. \A t \in TermsOf[book] : book \in index[t]
    BY <1>0, <2>1 DEF WriteUnderWay
  <2> QED BY <1>1, <1>4, <1>7, <2>1, <2>2 DEF IndexIsDue
<1> QED BY <1>3, <1>5, <1>6, <1>7

LEMMA StepDue ==
    ASSUME Context, OneConfiguration, IndexIsDue, [Next]_vars
    PROVE  IndexIsDue'
<1>0. TypeOK /\ StepFollowsTheList
  BY DEF Context, TypeInv, LifeInv
<1>1. CASE UNCHANGED vars
  BY <1>1 DEF vars, disk, logs, memory, cursor, IndexIsDue, DueTerms, Due
<1>2. CASE Kill
  BY <1>2 DEF Kill, Exit, IndexIsDue
<1> QED BY <1>0, <1>1, <1>2, StartDue, CheckDue, StepsDue, WriteDue, IndexBookDue, MarkIndexedDue
        DEF Next, Proceed, Index

\* What is sound stays so while neither the structure nor the marks change.
LEMMA QuietSound ==
    ASSUME UNCHANGED <<stored, indexedLog, run>>
    PROVE  /\ HeldTerms' = HeldTerms /\ DueTerms' = DueTerms
           /\ \A t \in Terms : Sound(t)' <=> Sound(t)
BY DEF HeldTerms, StoredTerms, DueTerms, Due, Sound

\* One entry of the structure of the run is written.
LEMMA PutSound ==
    ASSUME TypeOK, UNCHANGED <<indexedLog, run>>, NEW t \in Terms, NEW v,
           stored' = [stored EXCEPT ![run.structure][t] = v]
    PROVE  /\ DueTerms' = DueTerms
           /\ \A u \in Terms \ {t} : /\ u \in HeldTerms' <=> u \in HeldTerms
                                     /\ Sound(u)' <=> Sound(u)
           /\ t \in HeldTerms' <=> v # None
           /\ Sound(t)' <=> v # None /\ Due(t) \subseteq v
<1>1. run.structure \in Structures
  BY StructureOfRun DEF TypeOK
<1>2. /\ stored'[run.structure][t] = v
      /\ \A u \in Terms \ {t} : stored'[run.structure][u] = stored[run.structure][u]
  BY <1>1, StoredType
<1>3. DueTerms' = DueTerms /\ \A u \in Terms : Due(u)' = Due(u)
  BY DueStays
<1> QED BY <1>2, <1>3 DEF HeldTerms, StoredTerms, Sound

\* The posting list that is written is the one of the index.
LEMMA IndexedSound ==
    ASSUME TypeOK, IndexIsDue, pc # "off", NEW t \in Terms
    PROVE  index[t] # None /\ Due(t) \subseteq index[t]
BY PipelineAssumption DEF PipelineAssumption, TypeOK, IndexIsDue

\* The mark of a served book.
LEMMA MarkSound ==
    ASSUME Context, OneConfiguration, MarkIndexed
    PROVE  /\ pc = "markIndexed" /\ pc' = "loop" /\ book \in Books /\ TermsOf[book] \subseteq Terms
           /\ HeldTerms' = HeldTerms /\ TermsOf[book] \subseteq HeldTerms
           /\ DueTerms' = DueTerms \cup TermsOf[book]
           /\ \A t \in TermsOf[book] : Due(t) \subseteq stored[run.structure][t] => Sound(t)'
           /\ \A t \in Terms \ TermsOf[book] : Sound(t)' <=> Sound(t)
<1>1. /\ pc = "markIndexed" /\ pc' = "loop" /\ indexedLog' = indexedLog \cup {book}
      /\ UNCHANGED <<stored, run>>
  BY DEF MarkIndexed, StepDone, OneConfiguration, OneListNoLoss, NoLoss, Vanishes
<1>2. book \in Books
  BY <1>1 DEF Context, TypeInv, Cursor
<1>3. TermsOf[book] \subseteq Terms
  BY <1>2, PipelineAssumption DEF PipelineAssumption
<1>4. \A t \in TermsOf[book] : stored[run.structure][t] # None /\ book \in stored[run.structure][t]
  BY <1>1 DEF Context, WriteUnderWay, Served
<1>5. /\ \A t \in TermsOf[book] : Due(t)' = Due(t) \cup {book}
      /\ \A t \in Terms \ TermsOf[book] : Due(t)' = Due(t)
  BY <1>1 DEF Due
<1>6. HeldTerms' = HeldTerms
  BY <1>1 DEF HeldTerms, StoredTerms
<1>7. TermsOf[book] \subseteq HeldTerms
  BY <1>3, <1>4 DEF HeldTerms, StoredTerms
<1>8. DueTerms' = DueTerms \cup TermsOf[book]
  BY <1>3, <1>5 DEF DueTerms
<1>9. ASSUME NEW t \in TermsOf[book], Due(t) \subseteq stored[run.structure][t]
      PROVE  Sound(t)'
  BY <1>1, <1>4, <1>5, <1>6, <1>7, <1>9 DEF Sound
<1>10. \A t \in Terms \ TermsOf[book] : Sound(t)' <=> Sound(t)
  BY <1>1, <1>5, <1>6 DEF Sound
<1> QED BY <1>1, <1>2, <1>3, <1>6, <1>7, <1>8, <1>9, <1>10

\* Every other step leaves the marks alone, and only a write the structures.
LEMMA OnlyWritesStore ==
    ASSUME [Next]_vars, ~Write
    PROVE  /\ UNCHANGED <<stored, jsonFile>>
           /\ ~MarkIndexed => indexedLog' = indexedLog
           /\ pc' \in Stepping => pc \in Stepping \/ TrustIndex
           /\ pc' = "fill" => IndexBook \/ UNCHANGED vars
           /\ pc' = "clear" => IndexBook \/ RewriteIndex \/ UNCHANGED vars
           /\ pc' = "markIndexed" => UNCHANGED vars
<1> USE DEF disk, logs, Stepping, Downloading
<1>1. CASE UNCHANGED vars
  BY <1>1 DEF vars
<1>2. CASE StartRun \/ Kill
  BY <1>2 DEF StartRun, Kill, Exit
<1>3. CASE Check
  BY <1>3 DEF Check, CheckFails, TrustIndex, RewriteIndex, Exit
<1>4. CASE Choose
  BY <1>4 DEF Choose, ChooseToIndex, ChooseToDownload, FinishRun, Exit
<1>5. CASE Download
  BY <1>5 DEF Download, FetchFails, FetchSucceeds, FillBody, OpenHeader, FillHeader, InsertRow,
              MarkDownloaded, DownloadGoesOn, Exit, StepDone
<1>6. CASE Index
  BY <1>6 DEF Index, IndexBook, MarkIndexed, StepDone
<1> QED BY <1>1, <1>2, <1>3, <1>4, <1>5, <1>6 DEF Next, Proceed

LEMMA WriteStays ==
    ASSUME Write
    PROVE  UNCHANGED <<logs, book, run, index>>
BY DEF Write, OpenJson, FillJson, RemoveTermFile, FolderRemoved, OpenTermFile, FillTermFile,
       DeleteDocuments, PutDocument, IndexWritten, WriteGoesOn, logs, memory

LEMMA StepJson ==
    ASSUME Context, OneConfiguration, IndexIsDue, JsonIsSound, [Next]_vars
    PROVE  JsonIsSound'
<1>0. run' = run /\ TypeOK /\ WriteUnderWay
  BY RunStays DEF OneConfiguration, Context, TypeInv
<1> SUFFICES ASSUME Monolithic
             PROVE  /\ jsonFile' = "whole" => \A t \in DueTerms' : Sound(t)'
                    /\ pc' \in Stepping => jsonFile' = "whole"
  BY <1>0 DEF JsonIsSound, Monolithic, Stepping, Downloading
<1>1. /\ jsonFile = "whole" => \A t \in DueTerms : Sound(t)
      /\ pc \in Stepping => jsonFile = "whole"
  BY DEF JsonIsSound
<1>2. DueTerms \subseteq Terms
  BY DEF DueTerms
<1>3. CASE ~Write /\ ~MarkIndexed
  <2>1. /\ UNCHANGED <<stored, jsonFile, indexedLog>>
        /\ pc' \in Stepping => pc \in Stepping \/ TrustIndex
    BY <1>3, OnlyWritesStore
  <2>2. DueTerms' = DueTerms /\ \A t \in Terms : Sound(t)' <=> Sound(t)
    BY <1>0, <2>1, QuietSound
  <2> QED BY <1>1, <1>2, <2>1, <2>2 DEF TrustIndex, CountsAgree
<1>4. CASE MarkIndexed
  <2>1. jsonFile' = jsonFile /\ pc \in Stepping
    BY <1>4 DEF MarkIndexed, Stepping
  <2>2. \A t \in DueTerms : Sound(t)
    BY <1>1, <2>1
  <2>3. \A t \in TermsOf[book] : Due(t) \subseteq stored[run.structure][t]
    BY <1>4, <2>2, MarkSound DEF Sound, DueTerms
  <2> QED BY <1>1, <1>2, <1>4, <2>1, <2>2, <2>3, MarkSound
<1>5. CASE Write
  <2>0. indexedLog' = indexedLog
    BY <1>5, WriteStays DEF logs
  <2>1. CASE OpenJson
    BY <2>1 DEF OpenJson, Stepping, Downloading
  <2>2. CASE FillJson
    <3>1. /\ stored' = [stored EXCEPT !["monolithic"] = Image(index)] /\ pc' = "fill" /\ pc = "fill"
          /\ run.structure = "monolithic"
      BY <2>2 DEF FillJson, Monolithic
    <3>2. stored'[run.structure] = Image(index)
      BY <1>0, <3>1, StructureOfRun, StoredType DEF TypeOK
    <3>3. ASSUME NEW t \in DueTerms PROVE Sound(t)'
      <4>1. t \in Terms /\ Due(t)' = Due(t) /\ Due(t) # {}
        BY <1>2, <2>0, DueStays DEF DueTerms
      <4>2. index[t] # None /\ Due(t) \subseteq index[t]
        BY <1>0, <3>1, <4>1, IndexedSound
      <4>3. stored'[run.structure][t] = index[t]
        BY <3>2, <4>1, <4>2 DEF Image
      <4> QED BY <1>0, <4>1, <4>2, <4>3 DEF Sound, HeldTerms, StoredTerms
    <3>4. DueTerms' = DueTerms
      BY <2>0, DueStays
    <3> QED BY <3>1, <3>3, <3>4 DEF Stepping, Downloading
  <2>3. CASE IndexWritten
    <3>1. UNCHANGED <<stored, jsonFile>> /\ jsonFile = "whole"
      BY <2>3 DEF IndexWritten
    <3> QED BY <1>0, <1>1, <1>2, <2>0, <3>1, QuietSound
  <2>4. ~(RemoveTermFile \/ FolderRemoved \/ OpenTermFile \/ FillTermFile \/ DeleteDocuments \/ PutDocument)
    BY <1>0 DEF RemoveTermFile, FolderRemoved, OpenTermFile, FillTermFile, DeleteDocuments, PutDocument,
           Monolithic, WriteUnderWay
  <2> QED BY <1>5, <2>1, <2>2, <2>3, <2>4 DEF Write
<1> QED BY <1>3, <1>4, <1>5

\* Comparable sets of terms that have as many members are equal.
LEMMA EqualCounts ==
    ASSUME NEW A \in SUBSET Terms, NEW B \in SUBSET Terms,
           A \subseteq B \/ B \subseteq A, Cardinality(A) = Cardinality(B)
    PROVE  A = B
<1>1. IsFiniteSet(A) /\ IsFiniteSet(B)
  BY PipelineAssumption, FS_Subset DEF PipelineAssumption
<1>2. CASE A \subseteq B
  BY <1>1, <1>2, FS_Subset
<1>3. CASE B \subseteq A
  BY <1>1, <1>3, FS_Subset
<1> QED BY <1>2, <1>3

LEMMA StepDocuments ==
    ASSUME Context, OneConfiguration, IndexIsDue, DocumentsAreSound, [Next]_vars
    PROVE  DocumentsAreSound'
<1>0. run' = run /\ TypeOK /\ WriteUnderWay /\ StepFollowsTheList
  BY RunStays DEF OneConfiguration, Context, TypeInv, LifeInv
<1> SUFFICES ASSUME run.structure = "mongo"
             PROVE  /\ \A t \in HeldTerms' : Sound(t)'
                    /\ HeldTerms' \subseteq DueTerms' \/ DueTerms' \subseteq HeldTerms'
                    /\ pc' \in Stepping \/ (pc' = "fill" /\ book' # None) => DueTerms' \subseteq HeldTerms'
                    /\ pc' = "fill" /\ book' = None => /\ HeldTerms' \subseteq DueTerms'
                                                       /\ DueTerms' \ todo' \subseteq HeldTerms'
  BY <1>0 DEF DocumentsAreSound, Stepping, Downloading
<1>1. /\ \A t \in HeldTerms : Sound(t)
      /\ HeldTerms \subseteq DueTerms \/ DueTerms \subseteq HeldTerms
      /\ pc \in Stepping \/ (pc = "fill" /\ book # None) => DueTerms \subseteq HeldTerms
      /\ pc = "fill" /\ book = None => HeldTerms \subseteq DueTerms /\ DueTerms \ todo \subseteq HeldTerms
  BY DEF DocumentsAreSound
<1>2. DueTerms \subseteq Terms /\ HeldTerms \subseteq Terms
  BY DEF DueTerms, HeldTerms, StoredTerms
<1>3. CASE ~Write /\ ~MarkIndexed
  <2>1. /\ UNCHANGED <<stored, indexedLog>>
        /\ pc' \in Stepping => pc \in Stepping \/ TrustIndex
        /\ pc' = "fill" => IndexBook \/ UNCHANGED vars
    BY <1>3, OnlyWritesStore
  <2>2. HeldTerms' = HeldTerms /\ DueTerms' = DueTerms /\ \A t \in Terms : Sound(t)' <=> Sound(t)
    BY <1>0, <2>1, QuietSound
  <2>3. TrustIndex => DueTerms = HeldTerms
    <3> SUFFICES ASSUME TrustIndex PROVE DueTerms = HeldTerms
      OBVIOUS
    <3>1. pc = "check" /\ Cardinality(HeldTerms) = Cardinality(TermsIn(index))
      BY DEF TrustIndex, CountsAgree, HeldTerms
    <3>2. TermsIn(index) = DueTerms
      BY <1>0, <3>1, DueIndex
    <3> QED BY <1>1, <1>2, <3>1, <3>2, EqualCounts
  <2>4. IndexBook => pc \in Stepping /\ book' # None
    BY <1>0, PipelineAssumption
       DEF IndexBook, Stepping, Context, TypeInv, Cursor, PipelineAssumption
  <2>5. UNCHANGED vars => UNCHANGED <<pc, book, todo>>
    BY DEF vars, cursor
  <2> QED BY <1>1, <1>2, <2>1, <2>2, <2>3, <2>4, <2>5
<1>4. CASE MarkIndexed
  <2>1. /\ pc \in Stepping /\ pc' = "loop" /\ HeldTerms' = HeldTerms /\ DueTerms' = DueTerms \cup TermsOf[book]
        /\ TermsOf[book] \subseteq HeldTerms
    BY <1>4, MarkSound DEF Stepping
  <2>2. DueTerms' \subseteq HeldTerms'
    BY <1>1, <2>1
  <2>3. \A t \in HeldTerms' : Sound(t)'
    BY <1>1, <1>2, <1>4, <2>1, MarkSound DEF Sound
  <2> QED BY <2>1, <2>2, <2>3
<1>5. CASE Write
  <2>0. UNCHANGED <<indexedLog, run, book, index>>
    BY <1>5, WriteStays DEF logs
  <2>1. CASE DeleteDocuments
    <3>1. stored' = [stored EXCEPT ![run.structure] = NothingStored] /\ pc = "clear" /\ pc' = "fill" /\ todo' = todo
      BY <2>1 DEF DeleteDocuments
    <3>2. stored'[run.structure] = NothingStored
      BY <1>0, <3>1, StructureOfRun, StoredType DEF TypeOK
    <3>3. HeldTerms' = {}
      BY <1>0, <3>2 DEF HeldTerms, StoredTerms, NothingStored
    <3>4. book = None /\ todo = DueTerms /\ DueTerms' = DueTerms
      BY <1>0, <2>0, <3>1, DueStays DEF WriteUnderWay, Monolithic, IndexIsDue
    <3> QED BY <2>0, <3>1, <3>3, <3>4 DEF Stepping, Downloading
  <2>2. CASE PutDocument
    <3>1. PICK t \in todo : /\ stored' = [stored EXCEPT ![run.structure][t] = index[t]]
                            /\ todo' = todo \ {t}
      BY <2>2 DEF PutDocument
    <3>2. pc = "fill" /\ pc' = "fill" /\ t \in Terms
      BY <1>0, <2>2 DEF PutDocument, TypeOK
    <3>3. index[t] # None /\ Due(t) \subseteq index[t]
      BY <1>0, <3>2, IndexedSound
    <3>4. /\ DueTerms' = DueTerms /\ t \in HeldTerms' /\ Sound(t)'
          /\ \A u \in Terms \ {t} : /\ u \in HeldTerms' <=> u \in HeldTerms
                                    /\ Sound(u)' <=> Sound(u)
      BY <1>0, <2>0, <3>1, <3>2, <3>3, PutSound
    <3>5. HeldTerms' = HeldTerms \cup {t}
      BY <1>2, <3>2, <3>4 DEF HeldTerms, StoredTerms
    <3>6. \A u \in HeldTerms' : Sound(u)'
      BY <1>1, <1>2, <3>4, <3>5
    <3>7. CASE book = None
      <4>1. t \in DueTerms
        BY <3>1, <3>2, <3>7 DEF IndexIsDue
      <4> QED BY <1>1, <2>0, <3>1, <3>2, <3>4, <3>5, <3>6, <3>7, <4>1 DEF Stepping, Downloading
    <3>8. CASE book # None
      BY <1>1, <2>0, <3>2, <3>4, <3>5, <3>6, <3>8 DEF Stepping, Downloading
    <3> QED BY <3>7, <3>8
  <2>3. CASE IndexWritten
    <3>1. stored' = stored /\ todo = {} /\ pc = "fill" /\ pc' # "fill"
      BY <2>3 DEF IndexWritten
    <3>2. HeldTerms' = HeldTerms /\ DueTerms' = DueTerms /\ \A t \in Terms : Sound(t)' <=> Sound(t)
      BY <2>0, <3>1, QuietSound
    <3> QED BY <1>1, <1>2, <3>1, <3>2
  <2>4. ~(OpenJson \/ FillJson \/ RemoveTermFile \/ FolderRemoved \/ OpenTermFile \/ FillTermFile)
    BY <1>0 DEF OpenJson, FillJson, RemoveTermFile, FolderRemoved, OpenTermFile, FillTermFile,
           Monolithic, WriteUnderWay
  <2> QED BY <1>5, <2>1, <2>2, <2>3, <2>4 DEF Write
<1> QED BY <1>3, <1>4, <1>5

\* How the term files and the count of faults change, step by step.
LEMMA FaultsGrow ==
    ASSUME TypeOK, OneListNoLoss, [Next]_vars
    PROVE  faults \in Nat /\ faults' \in Nat /\ faults <= faults' /\ (~Kill => faults' = faults)
<1>1. ~Vanishes
  BY DEF OneListNoLoss, NoLoss, Vanishes
<1> QED BY <1>1, FaultsNeverFall

\* Where nothing but MarkIndexed marks a book indexed, a book that waits goes on waiting.
LEMMA WaitingStays ==
    ASSUME [Next]_vars, ~MarkIndexed
    PROVE  Waiting \subseteq Waiting' /\ indexedLog' = indexedLog
<1>1. indexedLog' = indexedLog
  BY OnlyWritesStore, WriteStays DEF logs
<1> QED BY <1>1, LogOnlyGrows DEF Waiting

LEMMA QuietTermFiles ==
    ASSUME Context, OneConfiguration, IndexIsDue, TermFilesAreSound, [Next]_vars, ~Write, ~MarkIndexed
    PROVE  TermFilesAreSound'
<1>0. /\ run' = run /\ TypeOK /\ TypeOK' /\ StepFollowsTheList /\ DueTerms \subseteq Terms
      /\ faults \in Nat /\ faults' \in Nat /\ faults <= faults' /\ (~Kill => faults' = faults)
  BY RunStays, FaultsGrow, StepTyped DEF OneConfiguration, Context, TypeInv, LifeInv, DueTerms
<1> SUFFICES ASSUME run.structure = "hierarchical" PROVE TermFilesAreSound'
  BY <1>0 DEF TermFilesAreSound
<1>1. /\ UNCHANGED <<stored, indexedLog>> /\ Waiting \subseteq Waiting'
      /\ pc' = "fill" => IndexBook \/ UNCHANGED vars
      /\ pc' = "clear" => IndexBook \/ RewriteIndex \/ UNCHANGED vars
      /\ pc' = "markIndexed" => UNCHANGED vars
  BY OnlyWritesStore, WaitingStays
<1>2. HeldTerms' = HeldTerms /\ DueTerms' = DueTerms /\ \A t \in Terms : Sound(t)' <=> Sound(t)
  BY <1>0, <1>1, QuietSound
<1>3. CASE UNCHANGED vars
  <2>1. UNCHANGED <<faults, pc, book, todo>> /\ Waiting' = Waiting
    BY <1>3 DEF vars, cursor, disk, logs, Waiting
  <2>2. \A t \in Terms : t \in TermsOf[book] => (Sound(t)' <=> Sound(t))
    BY <1>2
  <2>3. pc \in {"fill", "markIndexed"} /\ book # None => TermsOf[book] \subseteq Terms
    BY <1>0, PipelineAssumption DEF PipelineAssumption, TypeOK
  <2>4. pc = "markIndexed" => book # None
    BY PipelineAssumption DEF PipelineAssumption, Context, TypeInv, Cursor
  <2> QED BY <1>0, <1>2, <2>1, <2>2, <2>3, <2>4 DEF TermFilesAreSound
<1>4. CASE IndexBook
  <2>1. /\ pc = "index" /\ pc' = "fill" /\ book' = book /\ faults' = faults
    BY <1>4 DEF IndexBook, Monolithic
  <2>2. book \in Books /\ book # None /\ book \in downloadedLog
    BY <1>0, <2>1, PipelineAssumption DEF Context, TypeInv, Cursor, StepFollowsTheList, Downloading, PipelineAssumption
  <2>3. todo' = TermsOf[book]
    BY <1>0, <1>4, WholeBook DEF IndexBook, Context
  <2> QED BY <1>0, <1>1, <1>2, <2>1, <2>2, <2>3 DEF TermFilesAreSound
<1>5. CASE RewriteIndex
  <2>1. /\ pc = "check" /\ pc' = "clear" /\ faults' = faults /\ TermsIn(index) = DueTerms
        /\ Cardinality(HeldTerms) # Cardinality(TermsIn(index))
    BY <1>0, <1>5, DueIndex DEF RewriteIndex, CountsAgree, Monolithic, HeldTerms
  <2>2. faults # 0
    <3> SUFFICES ASSUME faults = 0 PROVE FALSE
      OBVIOUS
    <3>1. HeldTerms = DueTerms
      BY <2>1 DEF TermFilesAreSound
    <3> QED BY <2>1, <3>1
  <2> QED BY <1>0, <2>1, <2>2 DEF TermFilesAreSound
<1>6. CASE Kill
  <2>1. pc' = "off" /\ faults' # 0 /\ (faults' <= 1 => faults = 0)
    BY <1>0, <1>6 DEF Kill, Exit
  <2>2. faults' <= 1 => \A t \in DueTerms : Sound(t) \/ \E w \in Waiting : t \in TermsOf[w]
    BY <2>1 DEF TermFilesAreSound
  <2> QED BY <1>0, <1>1, <1>2, <2>1, <2>2 DEF TermFilesAreSound
<1>7. CASE ~(UNCHANGED vars \/ IndexBook \/ RewriteIndex \/ Kill)
  <2>1. pc' \notin {"clear", "fill", "markIndexed"} /\ faults' = faults
    BY <1>0, <1>1, <1>7
  <2>2. pc \notin {"clear", "fill", "markIndexed"}
    BY <1>7
       DEF Next, Proceed, StartRun, Check, CheckFails, TrustIndex, Choose, ChooseToIndex, ChooseToDownload, FinishRun,
           Download, FetchFails, FetchSucceeds, FillBody, OpenHeader, FillHeader, InsertRow, MarkDownloaded, Index
  <2> QED BY <1>0, <1>1, <1>2, <2>1, <2>2 DEF TermFilesAreSound
<1> QED BY <1>3, <1>4, <1>5, <1>6, <1>7

LEMMA MarkTermFiles ==
    ASSUME Context, OneConfiguration, TermFilesAreSound, MarkIndexed
    PROVE  TermFilesAreSound'
<1>0. run' = run /\ TypeOK /\ MarksFollowTheList /\ StepFollowsTheList /\ OnlyList \in Seq(Books)
  BY TheList DEF MarkIndexed, OneConfiguration, Context, TypeInv, LifeInv
<1> SUFFICES ASSUME run.structure = "hierarchical" PROVE TermFilesAreSound'
  BY <1>0 DEF TermFilesAreSound
<1>1. /\ pc = "markIndexed" /\ pc' = "loop" /\ book \in Books /\ TermsOf[book] \subseteq Terms
      /\ HeldTerms' = HeldTerms /\ TermsOf[book] \subseteq HeldTerms
      /\ DueTerms' = DueTerms \cup TermsOf[book]
  BY MarkSound
<1>2. faults' = faults
  BY DEF MarkIndexed, OneConfiguration, OneListNoLoss, NoLoss, Vanishes
<1>3. \A w \in Waiting : w = book
  <2>1. book \in downloadedLog \ indexedLog
    BY <1>0, <1>1, PipelineAssumption DEF StepFollowsTheList, Downloading, PipelineAssumption
  <2>2. indexedLog \cup {book} = downloadedLog
    BY <1>0, <2>1, WaitingBook
  <2> QED BY <2>2 DEF Waiting
<1>4. \A t \in TermsOf[book] : Sound(t)'
  BY <1>1, MarkSound DEF TermFilesAreSound, Sound
<1>5. ASSUME faults <= 1, NEW t \in DueTerms'
      PROVE  Sound(t)'
  <2>1. CASE t \in TermsOf[book]
    BY <1>4, <2>1
  <2>2. CASE t \notin TermsOf[book]
    <3>1. t \in DueTerms /\ t \in Terms
      BY <1>1, <2>2 DEF DueTerms
    <3>2. Sound(t) \/ \E w \in Waiting : t \in TermsOf[w]
      BY <1>1, <1>5, <3>1 DEF TermFilesAreSound
    <3>3. Sound(t)
      BY <1>3, <2>2, <3>2
    <3> QED BY <2>2, <3>1, <3>3, MarkSound
  <2> QED BY <2>1, <2>2
<1>6. faults = 0 => DueTerms' \subseteq HeldTerms' /\ HeldTerms' \subseteq DueTerms'
  BY <1>1 DEF TermFilesAreSound
<1> QED BY <1>1, <1>2, <1>5, <1>6 DEF TermFilesAreSound

LEMMA WriteTermFiles ==
    ASSUME Context, OneConfiguration, IndexIsDue, TermFilesAreSound, Write
    PROVE  TermFilesAreSound'
<1>0. /\ TypeOK /\ WriteUnderWay /\ StepFollowsTheList /\ faults' = faults
      /\ UNCHANGED <<indexedLog, run, book, index, Waiting>>
      /\ DueTerms' = DueTerms /\ DueTerms \subseteq Terms
  <2>1. [Next]_vars /\ ~Kill
    BY DEF Next, Proceed, Kill, Exit, Write, OpenJson, FillJson, RemoveTermFile, FolderRemoved, OpenTermFile,
           FillTermFile, DeleteDocuments, PutDocument, IndexWritten
  <2>2. TypeOK /\ WriteUnderWay /\ StepFollowsTheList /\ OneListNoLoss
    BY DEF Context, TypeInv, LifeInv, OneConfiguration
  <2> QED BY <2>1, <2>2, FaultsGrow, WriteStays, DueStays DEF Waiting, logs, DueTerms
<1> SUFFICES ASSUME run.structure = "hierarchical" PROVE TermFilesAreSound'
  BY <1>0 DEF TermFilesAreSound
<1>b. book # None => book \in Waiting /\ TermsOf[book] \subseteq Terms
  BY <1>0, PipelineAssumption
     DEF StepFollowsTheList, Waiting, Write, OpenJson, FillJson, RemoveTermFile, FolderRemoved, OpenTermFile,
         FillTermFile, DeleteDocuments, PutDocument, IndexWritten, Downloading, PipelineAssumption, TypeOK
<1>1. CASE RemoveTermFile
  BY <1>0, <1>1 DEF RemoveTermFile, TermFilesAreSound
<1>2. CASE FolderRemoved
  <2>1. pc = "clear" /\ pc' = "fill" /\ todo' = todo
    BY <1>2 DEF FolderRemoved
  <2>2. book = None /\ todo = DueTerms
    BY <1>0, <2>1 DEF WriteUnderWay, Monolithic, IndexIsDue
  <2> QED BY <1>0, <2>1, <2>2 DEF TermFilesAreSound
\* One file is opened or filled.
<1>3. CASE OpenTermFile \/ FillTermFile
  <2>1. PICK t \in todo, v \in {{}} \cup {index[u] : u \in todo} :
           /\ stored' = [stored EXCEPT ![run.structure][t] = v]
           /\ \/ todo' = todo /\ v = {}
              \/ todo' = todo \ {t} /\ v = index[t]
    <3>1. CASE OpenTermFile
      BY <3>1 DEF OpenTermFile
    <3>2. CASE FillTermFile
      <4>1. opened \in todo
        BY <1>0, <3>2 DEF FillTermFile, WriteUnderWay
      <4>2. stored' = [stored EXCEPT ![run.structure][opened] = index[opened]] /\ todo' = todo \ {opened}
        BY <3>2 DEF FillTermFile, OneConfiguration, OneListNoLoss, NoLoss, Vanishes
      <4> QED BY <4>1, <4>2
    <3> QED BY <1>3, <3>1, <3>2
  <2>2. pc = "fill" /\ pc' = "fill" /\ t \in Terms
    BY <1>0, <1>3 DEF OpenTermFile, FillTermFile, TypeOK
  <2>3. index[t] # None /\ Due(t) \subseteq index[t] /\ v # None
    <3>1. /\ \A u \in Terms : index[u] # None /\ Due(u) \subseteq index[u]
          /\ todo \subseteq Terms /\ {} # None
      BY <1>0, <2>2, IndexedSound, PipelineAssumption DEF PipelineAssumption, TypeOK
    <3> QED BY <2>1, <2>2, <3>1
  <2>4. /\ t \in HeldTerms' /\ (v = index[t] => Sound(t)')
        /\ \A u \in Terms \ {t} : /\ u \in HeldTerms' <=> u \in HeldTerms
                                  /\ Sound(u)' <=> Sound(u)
    BY <1>0, <2>1, <2>2, <2>3, PutSound
  <2>5. HeldTerms' = HeldTerms \cup {t}
    BY <2>2, <2>4 DEF HeldTerms, StoredTerms
  <2>6. CASE book = None
    <3>1. faults # 0
      BY <2>2, <2>6 DEF TermFilesAreSound
    <3>2. faults <= 1 => \A u \in DueTerms \ todo : Sound(u)
      BY <2>2, <2>6 DEF TermFilesAreSound
    <3>3. faults <= 1 => \A u \in DueTerms \ todo' : Sound(u)'
      BY <1>0, <2>1, <2>4, <3>2
    <3> QED BY <1>0, <2>2, <2>6, <3>1, <3>3 DEF TermFilesAreSound
  <2>7. CASE book # None
    <3>1. t \in TermsOf[book] /\ book \in Waiting
      BY <1>b, <2>1, <2>2, <2>7 DEF IndexIsDue
    <3>2. faults = 0 => /\ DueTerms \subseteq HeldTerms'
                        /\ HeldTerms' \subseteq DueTerms \cup TermsOf[book]
      BY <2>2, <2>5, <3>1 DEF TermFilesAreSound
    <3>3. faults <= 1 => \A u \in DueTerms : Sound(u)' \/ \E w \in Waiting : u \in TermsOf[w]
      BY <1>0, <2>2, <2>4, <2>7, <3>1 DEF TermFilesAreSound
    <3>4. \A u \in TermsOf[book] \ todo' : Sound(u)'
      BY <1>b, <2>1, <2>2, <2>4, <2>7 DEF TermFilesAreSound
    <3> QED BY <1>0, <2>2, <2>7, <3>2, <3>3, <3>4 DEF TermFilesAreSound
  <2> QED BY <2>6, <2>7
<1>4. CASE IndexWritten
  <2>1. stored' = stored /\ todo = {} /\ pc = "fill" /\ pc' = (IF book = None THEN "loop" ELSE "markIndexed")
    BY <1>4 DEF IndexWritten
  <2>2. HeldTerms' = HeldTerms /\ \A t \in Terms : Sound(t)' <=> Sound(t)
    BY <1>0, <2>1, QuietSound
  <2>3. CASE book = None
    BY <1>0, <2>1, <2>2, <2>3 DEF TermFilesAreSound
  <2>4. CASE book # None
    BY <1>0, <1>b, <2>1, <2>2, <2>4 DEF TermFilesAreSound
  <2> QED BY <2>3, <2>4
<1>5. ~(OpenJson \/ FillJson \/ DeleteDocuments \/ PutDocument)
  BY DEF OpenJson, FillJson, DeleteDocuments, PutDocument, Monolithic
<1> QED BY <1>1, <1>2, <1>3, <1>4, <1>5 DEF Write

RepairInv == IndexIsDue /\ JsonIsSound /\ DocumentsAreSound /\ TermFilesAreSound

LEMMA InitRepair == Init => RepairInv
<1> SUFFICES ASSUME Init PROVE RepairInv
  OBVIOUS
<1>1. DueTerms = {} /\ pc = "off" /\ jsonFile = "absent"
  BY DEF Init, DueTerms, Due
<1>2. HeldTerms = {}
  BY StructureOfRun DEF Init, HeldTerms, StoredTerms, NothingStored
<1> QED BY <1>1, <1>2
        DEF RepairInv, IndexIsDue, JsonIsSound, DocumentsAreSound, TermFilesAreSound, Stepping, Downloading

LEMMA StepRepair ==
    ASSUME Context, OneConfiguration, RepairInv, [Next]_vars
    PROVE  RepairInv'
<1>1. IndexIsDue' /\ JsonIsSound' /\ DocumentsAreSound'
  BY StepDue, StepJson, StepDocuments DEF RepairInv
<1>2. TermFilesAreSound'
  BY QuietTermFiles, MarkTermFiles, WriteTermFiles DEF RepairInv
<1> QED BY <1>1, <1>2 DEF RepairInv

\* At the loop everything due is sound, but for the terms of a book that waits.
LEMMA RepairedAtTheLoop ==
    ASSUME Context, OneConfiguration, RepairInv
    PROVE  DamageIsRepairedFirst
<1> SUFFICES ASSUME pc = "loop", run.structure = "hierarchical" => faults <= 1 /\ ~AnyCandidateIn(ReadyToIndex)
             PROVE  \A b \in indexedLog : Served(b)
  BY DEF DamageIsRepairedFirst
<1>0. TypeOK /\ LifeInv
  BY DEF Context, TypeInv
<1>1. run.structure \in {"monolithic", "hierarchical", "mongo"}
  BY <1>0, StructureOfRun, PipelineAssumption DEF TypeOK, PipelineAssumption
<1>2. \A t \in DueTerms : Sound(t)
  <2>1. CASE run.structure = "monolithic"
    BY <2>1 DEF RepairInv, JsonIsSound, Monolithic, Stepping
  <2>2. CASE run.structure = "mongo"
    BY <2>2 DEF RepairInv, DocumentsAreSound, Stepping
  <2>3. CASE run.structure = "hierarchical"
    <3>1. Waiting = {}
      <4>1. downloaded = downloadedLog /\ indexed = indexedLog
        BY <1>0 DEF LifeInv, StepFollowsTheList
      <4>2. \A b \in downloadedLog : IsCandidate(b)
        BY MarkedBooksAreReadBack DEF OneConfiguration, IsCandidate, Candidates
      <4> QED BY <2>3, <4>1, <4>2 DEF Waiting, ReadyToIndex, AnyCandidateIn
    <3> QED BY <2>3, <3>1 DEF RepairInv, TermFilesAreSound
  <2> QED BY <1>1, <2>1, <2>2, <2>3
<1>3. ASSUME NEW b \in indexedLog, NEW t \in TermsOf[b]
      PROVE  stored[run.structure][t] # None /\ b \in stored[run.structure][t]
  <2>1. t \in Terms /\ b \in Due(t)
    BY <1>0, PipelineAssumption DEF Due, TypeOK, PipelineAssumption
  <2>2. Sound(t)
    BY <1>2, <2>1 DEF DueTerms
  <2> QED BY <2>1, <2>2 DEF Sound, HeldTerms, StoredTerms
<1> QED BY <1>3 DEF Served

(* Where every run has the same configuration and no write is lost, a step  *)
(* is taken only over a structure that serves every book marked indexed:    *)
(* what an interrupted write left is found by the comparison of the counts, *)
(* or, for term files after one interruption, is repaired by the step that  *)
(* indexes the book that waits.                                             *)
THEOREM DamageIsRepaired == ASSUME OneConfiguration PROVE Spec => []DamageIsRepairedFirst
<1>1. Init => Context /\ RepairInv
  BY ContextKept, InitRepair DEF OneConfiguration
<1>2. Context /\ RepairInv /\ [Next]_vars => Context' /\ RepairInv'
  BY ContextKept, StepRepair DEF OneConfiguration
<1>3. Context /\ RepairInv => DamageIsRepairedFirst
  BY RepairedAtTheLoop
<1> QED BY <1>1, <1>2, <1>3, PTL DEF Spec
=============================================================================
