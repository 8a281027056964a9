----------------------------- MODULE JavaProofs -----------------------------
(***************************************************************************)
(* Proofs about JavaPipeline, for any books, terms, lists, layouts and     *)
(* structures and any number of faults: the state is well typed, a book    *)
(* that was indexed stays served by the structure it was indexed in, and   *)
(* the structures implement IndexPromise.                                  *)
(***************************************************************************)
EXTENDS JavaPipeline, TLAPS

TypeInv == TypeOK /\ Cursor

(* What the typing of a configuration gives.                                *)
LEMMA RunTyped ==
    ASSUME NEW r \in Runs
    PROVE  r.layout \in Layouts /\ r.structure \in Structures
BY DEF Runs

(* A folder of a layout in use is one of the folders.                       *)
LEMMA FolderTyped ==
    ASSUME NEW l \in Layouts, NEW b \in Books, NEW f \in FoldersOf(l, b)
    PROVE  f \in Folders
BY DEF Folders

(* One posting list grows.                                                  *)
LEMMA EntryTyped ==
    ASSUME NEW st \in [Structures -> [Terms -> SUBSET Books]],
           NEW s \in Structures, NEW t \in Terms, NEW S \in SUBSET Books
    PROVE  [st EXCEPT ![s][t] = @ \cup S] \in [Structures -> [Terms -> SUBSET Books]]
<1>1. st[s][t] \cup S \in SUBSET Books
  OBVIOUS
<1>2. [st[s] EXCEPT ![t] = @ \cup S] \in [Terms -> SUBSET Books]
  BY <1>1
<1> QED BY <1>2

(* Steps taken together: the process ends, or the step does.                *)
LEMMA ExitTyped ==
    ASSUME TypeInv, Exit, UNCHANGED disk, faults' \in 0 .. MaxFaults
    PROVE  TypeInv'
BY DEF TypeInv, TypeOK, Cursor, Indexing, Downloading, Exit, EmptyIndex, disk, datalake, logs

LEMMA StepDoneTyped ==
    ASSUME TypeInv, StepDone, pc \in Indexing \cup Downloading,
           UNCHANGED <<run, index, datalake, metadata, stored>>,
           downloaded' \subseteq Books, indexed' \subseteq Books,
           home' \in [Books -> {None} \cup Structures],
           faults' \in 0 .. MaxFaults, skipped' \subseteq Books
    PROVE  TypeInv'
<1>1. steps' \in Nat
  BY DEF TypeInv, TypeOK, Cursor, StepDone
<1> QED BY <1>1 DEF TypeInv, TypeOK, Cursor, Indexing, Downloading, StepDone, datalake

LEMMA SkipTyped ==
    ASSUME TypeInv, SkipBook, pc \in Indexing \cup Downloading,
           UNCHANGED disk, UNCHANGED <<run, index>>, faults' \in 0 .. MaxFaults
    PROVE  TypeInv'
<1>1. book \in Books
  BY DEF TypeInv, Cursor
<1>2. skipped' \subseteq Books
  BY <1>1 DEF SkipBook, TypeInv, TypeOK
<1> QED BY <1>2, StepDoneTyped DEF SkipBook, disk, logs, TypeInv, TypeOK

LEMMA FaultTyped ==
    ASSUME TypeInv, faults < MaxFaults, faults' = faults + 1
    PROVE  faults' \in 0 .. MaxFaults
BY JavaAssumption DEF JavaAssumption, TypeInv, TypeOK

LEMMA InitTyped == Init => TypeInv
BY JavaAssumption DEF Init, TypeInv, TypeOK, Cursor, Indexing, Downloading, EmptyIndex, JavaAssumption

LEMMA NextTyped == TypeInv /\ [Next]_vars => TypeInv'
<1> SUFFICES ASSUME TypeInv, [Next]_vars PROVE TypeInv'
  OBVIOUS
<1>r. run \in Runs /\ run.layout \in Layouts /\ run.structure \in Structures
  BY RunTyped DEF TypeInv, TypeOK
<1>1. CASE StartRun
  <2>1. run' \in Runs /\ steps' \in Nat
    BY <1>1, <1>r, JavaAssumption DEF StartRun, RunsAfter, JavaAssumption
  <2>2. index' \in [Terms -> SUBSET Books]
    <3>1. CASE run'.structure = "monolithic"
      BY <1>1, <2>1, <3>1, RunTyped DEF StartRun, TypeInv, TypeOK
    <3>2. CASE run'.structure # "monolithic"
      BY <1>1, <3>2 DEF StartRun, EmptyIndex
    <3> QED BY <3>1, <3>2
  <2> QED BY <1>1, <2>1, <2>2 DEF StartRun, TypeInv, TypeOK, Cursor, Indexing, Downloading,
             DiskStays, disk, datalake, logs, cursor
<1>2. CASE Kill
  BY <1>2, FaultTyped, ExitTyped DEF Kill, DiskStays
<1>3. CASE ChooseToIndex
  BY <1>3 DEF ChooseToIndex, ReadyToIndex, TypeInv, TypeOK, Cursor, Indexing, Downloading,
              DiskStays, RunGoesOn, disk, datalake, logs
<1>4. CASE ChooseToDownload
  BY <1>4 DEF ChooseToDownload, ToDownload, TypeInv, TypeOK, Cursor, Indexing, Downloading,
              DiskStays, RunGoesOn, disk, datalake, logs
<1>5. CASE FinishRun
  BY <1>5, ExitTyped DEF FinishRun, DiskStays, TypeInv, TypeOK
<1>6. CASE MissingFromDatalake
  BY <1>6, SkipTyped DEF MissingFromDatalake, DiskStays, Indexing, TypeInv, TypeOK
<1>7. CASE ReadBook
  <2>1. folder' \in Folders
    BY <1>7, <1>r, FolderTyped DEF ReadBook, TypeInv, Cursor, Indexing
  <2> QED BY <1>7, <2>1 DEF ReadBook, TypeInv, TypeOK, Cursor, Indexing, Downloading,
             DiskStays, RunGoesOn, disk, datalake, logs
<1>8. CASE SaveRow
  BY <1>8 DEF SaveRow, TypeInv, TypeOK, Cursor, Indexing, Downloading,
              RunGoesOn, datalake, logs, cursor
<1>9. CASE AddDocument
  <2>1. index' \in [Terms -> SUBSET Books]
    BY <1>9 DEF AddDocument, AddBook, TypeInv, TypeOK, Cursor, Indexing
  <2> QED BY <1>9, <2>1 DEF AddDocument, TypeInv, TypeOK, Cursor, Indexing, Downloading,
             DiskStays, RunGoesOn, disk, datalake, logs
<1>10. CASE FlushJson
  BY <1>10 DEF FlushJson, TypeInv, TypeOK, Cursor, Indexing, Downloading,
               RunGoesOn, datalake, logs, cursor
<1>11. CASE FlushTerm
  <2>1. PICK t \in todo :
           /\ stored' = [stored EXCEPT ![run.structure][t] = @ \cup index[t]]
           /\ todo' = todo \ {t}
    BY <1>11 DEF FlushTerm
  <2>2. t \in Terms /\ todo' \subseteq Terms
    BY <2>1 DEF TypeInv, TypeOK
  <2>3. stored' \in [Structures -> [Terms -> SUBSET Books]]
    BY <2>1, <2>2, <1>r, EntryTyped DEF TypeInv, TypeOK
  <2> QED BY <1>11, <2>2, <2>3 DEF FlushTerm, TypeInv, TypeOK, Cursor, Indexing, Downloading,
             RunGoesOn, datalake, logs
<1>12. CASE FlushEnds
  BY <1>12 DEF FlushEnds, EmptyIndex, TypeInv, TypeOK, Cursor, Indexing, Downloading,
               DiskStays, RunGoesOn, disk, datalake, logs, cursor
<1>13. CASE IndexFails
  BY <1>13, FaultTyped, SkipTyped DEF IndexFails, DiskStays, Indexing
<1>14. CASE MarkIndexed
  <2>1. indexed' \subseteq Books /\ home' \in [Books -> {None} \cup Structures]
    BY <1>14, <1>r DEF MarkIndexed, TypeInv, TypeOK, Cursor, Indexing
  <2> QED BY <1>14, <2>1, StepDoneTyped DEF MarkIndexed, Indexing, TypeInv, TypeOK
<1>15. CASE NotAvailable
  BY <1>15, SkipTyped DEF NotAvailable, DiskStays, Downloading, TypeInv, TypeOK
<1>16. CASE Fetch
  <2>1. folder' \in Folders
    BY <1>16, <1>r, FolderTyped DEF Fetch, TypeInv, Cursor, Downloading
  <2> QED BY <1>16, <2>1 DEF Fetch, TypeInv, TypeOK, Cursor, Indexing, Downloading,
             DiskStays, RunGoesOn, disk, datalake, logs
<1>17. CASE SaveHeader
  BY <1>17 DEF SaveHeader, TypeInv, TypeOK, Cursor, Indexing, Downloading, RunGoesOn, logs, cursor
<1>18. CASE SaveBody
  BY <1>18 DEF SaveBody, TypeInv, TypeOK, Cursor, Indexing, Downloading, RunGoesOn, logs, cursor
<1>19. CASE DownloadFails
  BY <1>19, FaultTyped, SkipTyped DEF DownloadFails, DiskStays, Downloading
<1>20. CASE MarkDownloaded
  <2>1. downloaded' \subseteq Books
    BY <1>20 DEF MarkDownloaded, TypeInv, TypeOK, Cursor, Downloading
  <2> QED BY <1>20, <2>1, StepDoneTyped DEF MarkDownloaded, Downloading, TypeInv, TypeOK
<1>21. CASE UNCHANGED vars
  BY <1>21 DEF vars, disk, datalake, logs, cursor, TypeInv, TypeOK, Cursor
<1> QED BY <1>1, <1>2, <1>3, <1>4, <1>5, <1>6, <1>7, <1>8, <1>9, <1>10, <1>11, <1>12, <1>13,
           <1>14, <1>15, <1>16, <1>17, <1>18, <1>19, <1>20, <1>21
        DEF Next, Proceed, Fail, Choose, Index, Download

(* Every reachable state of the Java pipeline is well typed: the state of   *)
(* the datalake, of the marks and of the run is what the code can make it.  *)
THEOREM JavaTypeCorrect == Spec => []TypeOK
<1>1. TypeInv => TypeOK
  BY DEF TypeInv
<1> QED BY InitTyped, NextTyped, <1>1, PTL DEF Spec

-----------------------------------------------------------------------------
(* What was indexed stays served.                                           *)

\* The parts of PromiseInv that speak of postings.
ServiceInv == PostingsAreTrue /\ NothingToLose /\ IndexUnderWay /\ EveryIndexedBookStaysServed

(* Steps that touch neither rows nor marks nor postings, and that lead to   *)
(* no place where IndexUnderWay asks for something.                         *)
LEMMA QuietKeeps ==
    ASSUME TypeInv, ServiceInv,
           UNCHANGED <<metadata, indexed, home, stored, run>>,
           pc' \notin {"add", "flush", "mark"},
           \/ pc' = "off" /\ index' = EmptyIndex
           \/ pc # "off" /\ index' = index
    PROVE  ServiceInv'
<1>1. PostingsAreTrue'
  BY DEF ServiceInv, PostingsAreTrue, TruePosting, EmptyIndex
<1>2. NothingToLose'
  BY DEF ServiceInv, NothingToLose, Monolithic
<1>3. IndexUnderWay'
  BY DEF IndexUnderWay
<1>4. EveryIndexedBookStaysServed'
  BY DEF ServiceInv, EveryIndexedBookStaysServed, Served
<1> QED BY <1>1, <1>2, <1>3, <1>4 DEF ServiceInv

LEMMA ExitKeeps == TypeInv /\ ServiceInv /\ Exit /\ DiskStays => ServiceInv'
BY QuietKeeps DEF Exit, DiskStays, disk, logs

LEMMA SkipKeeps ==
    ASSUME TypeInv, ServiceInv, SkipBook, DiskStays, UNCHANGED <<run, index>>, pc # "off"
    PROVE  ServiceInv'
BY QuietKeeps DEF SkipBook, StepDone, DiskStays, disk, logs

(* Stored postings only grow, and what they grow by was true in memory: so  *)
(* they stay true, and what is served stays served.                         *)
LEMMA GrowthKeeps ==
    ASSUME ServiceInv, UNCHANGED <<metadata, indexed, home>>,
           \A s \in Structures, t \in Terms :
              /\ stored[s][t] \subseteq stored'[s][t]
              /\ stored'[s][t] \subseteq stored[s][t] \cup index[t]
    PROVE  /\ \A s \in Structures, t \in Terms : \A b \in stored'[s][t] : TruePosting(b, t)'
           /\ \A s \in Structures, b \in Books : Served(s, b) => Served(s, b)'
<1>1. TermsOf \in [Books -> SUBSET Terms]
  BY JavaAssumption DEF JavaAssumption
<1>2. \A s \in Structures, t \in Terms : \A b \in stored'[s][t] : TruePosting(b, t)'
  BY DEF ServiceInv, PostingsAreTrue, TruePosting
<1>3. \A s \in Structures, b \in Books : Served(s, b) => Served(s, b)'
  BY <1>1 DEF Served
<1> QED BY <1>2, <1>3

LEMMA InitServes == Init => ServiceInv
BY DEF Init, ServiceInv, PostingsAreTrue, NothingToLose, IndexUnderWay,
       EveryIndexedBookStaysServed, EmptyIndex

LEMMA NextServes == TypeInv /\ ServiceInv /\ [Next]_vars => ServiceInv'
<1> SUFFICES ASSUME TypeInv, ServiceInv, [Next]_vars PROVE ServiceInv'
  OBVIOUS
<1>r. run.structure \in Structures
  BY RunTyped DEF TypeInv, TypeOK
<1>b. pc \in Indexing => book \in Books \ indexed
  BY DEF TypeInv, Cursor
<1>t. TermsOf \in [Books -> SUBSET Terms]
  BY JavaAssumption DEF JavaAssumption
<1>1. CASE StartRun
  <2>1. UNCHANGED <<metadata, indexed, home, stored>> /\ pc' = "loop"
    BY <1>1 DEF StartRun, DiskStays, disk, logs
  <2>2. run' \in Runs
    BY <1>1, <1>r DEF StartRun, RunsAfter, TypeInv, TypeOK
  <2>3. PostingsAreTrue'
    <3>1. CASE run'.structure = "monolithic"
      <4>1. "monolithic" \in Structures /\ index' = stored["monolithic"]
        BY <1>1, <2>2, <3>1, RunTyped DEF StartRun
      <4> QED BY <2>1, <4>1 DEF ServiceInv, PostingsAreTrue, TruePosting
    <3>2. CASE run'.structure # "monolithic"
      BY <1>1, <2>1, <3>2 DEF StartRun, ServiceInv, PostingsAreTrue, TruePosting, EmptyIndex
    <3> QED BY <3>1, <3>2
  <2>4. NothingToLose'
    BY <1>1, <2>1 DEF StartRun, NothingToLose, Monolithic
  <2> QED BY <2>1, <2>3, <2>4 DEF ServiceInv, IndexUnderWay, EveryIndexedBookStaysServed, Served
<1>2. CASE Kill
  BY <1>2, ExitKeeps DEF Kill
<1>3. CASE ChooseToIndex
  BY <1>3, QuietKeeps DEF ChooseToIndex, DiskStays, RunGoesOn, disk, logs
<1>4. CASE ChooseToDownload
  BY <1>4, QuietKeeps DEF ChooseToDownload, DiskStays, RunGoesOn, disk, logs
<1>5. CASE FinishRun
  BY <1>5, ExitKeeps DEF FinishRun
<1>6. CASE MissingFromDatalake
  BY <1>6, SkipKeeps DEF MissingFromDatalake
<1>7. CASE ReadBook
  BY <1>7, QuietKeeps DEF ReadBook, DiskStays, RunGoesOn, disk, logs
<1>8. CASE SaveRow
  <2>1. /\ metadata' = [metadata EXCEPT ![book] = folder] /\ pc' = "add" /\ pc = "row"
        /\ UNCHANGED <<indexed, home, stored, index, book, run>>
    BY <1>8 DEF SaveRow, RunGoesOn, logs, cursor
  <2>2. folder # None /\ book \in Books
    BY <2>1, JavaAssumption DEF TypeInv, Cursor, Indexing, JavaAssumption
  <2>3. metadata'[book] # None /\ \A b \in Books : metadata[b] # None => metadata'[b] # None
    BY <2>1, <2>2 DEF TypeInv, TypeOK
  <2>4. PostingsAreTrue'
    BY <2>1, <2>3 DEF ServiceInv, PostingsAreTrue, TruePosting, TypeInv, TypeOK
  <2>5. NothingToLose'
    BY <2>1 DEF ServiceInv, NothingToLose, Monolithic
  <2> QED BY <2>1, <2>3, <2>4, <2>5 DEF ServiceInv, IndexUnderWay, EveryIndexedBookStaysServed, Served
<1>9. CASE AddDocument
  <2>1. /\ index' = AddBook(index, book, TermsOf[book]) /\ pc' = "flush" /\ pc = "add"
        /\ todo' = IF Monolithic THEN {} ELSE {t \in Terms : index'[t] # {}}
        /\ UNCHANGED <<metadata, indexed, home, stored, book, run>>
    BY <1>9 DEF AddDocument, DiskStays, RunGoesOn, disk, logs
  <2>2. book \in Books /\ metadata[book] # None
    BY <2>1, <1>b DEF Indexing, ServiceInv, IndexUnderWay
  <2>3. \A t \in Terms : /\ index[t] \subseteq index'[t]
                         /\ t \in TermsOf[book] => book \in index'[t]
                         /\ \A b \in index'[t] : b \in index[t] \/ (b = book /\ t \in TermsOf[book])
    BY <2>1 DEF AddBook
  <2>4. PostingsAreTrue'
    BY <2>1, <2>2, <2>3 DEF ServiceInv, PostingsAreTrue, TruePosting
  <2>5. NothingToLose'
    BY <2>1, <2>3 DEF ServiceInv, NothingToLose, Monolithic
  <2>6. IndexUnderWay'
    BY <2>1, <2>2, <2>3, <1>t DEF IndexUnderWay, Monolithic
  <2> QED BY <2>1, <2>4, <2>5, <2>6 DEF ServiceInv, EveryIndexedBookStaysServed, Served
<1>10. CASE FlushJson
  <2>1. /\ pc = "flush" /\ Monolithic /\ pc' = "mark"
        /\ stored' = [stored EXCEPT !["monolithic"] = index]
        /\ UNCHANGED <<metadata, indexed, home, index, book, run>>
    BY <1>10 DEF FlushJson, RunGoesOn, logs, cursor
  <2>2. \A s \in Structures, t \in Terms :
              /\ stored[s][t] \subseteq stored'[s][t]
              /\ stored'[s][t] \subseteq stored[s][t] \cup index[t]
    BY <2>1 DEF ServiceInv, NothingToLose, TypeInv, TypeOK
  <2>3. /\ \A s \in Structures, t \in Terms : \A b \in stored'[s][t] : TruePosting(b, t)'
        /\ \A s \in Structures, b \in Books : Served(s, b) => Served(s, b)'
    BY <2>1, <2>2, GrowthKeeps
  <2>4. PostingsAreTrue'
    BY <2>1, <2>3 DEF ServiceInv, PostingsAreTrue, TruePosting
  <2>5. NothingToLose'
    BY <2>1, <1>r DEF NothingToLose, Monolithic, TypeInv, TypeOK
  <2>6. IndexUnderWay'
    BY <2>1, <1>r, <1>b, <1>t DEF ServiceInv, IndexUnderWay, Monolithic, Served, Indexing, TypeInv, TypeOK
  <2>7. EveryIndexedBookStaysServed'
    BY <2>1, <2>3 DEF ServiceInv, EveryIndexedBookStaysServed, TypeInv, TypeOK
  <2> QED BY <2>4, <2>5, <2>6, <2>7 DEF ServiceInv
<1>11. CASE FlushTerm
  <2>1. PICK u \in todo :
           /\ stored' = [stored EXCEPT ![run.structure][u] = @ \cup index[u]]
           /\ todo' = todo \ {u}
    BY <1>11 DEF FlushTerm
  <2>2. /\ pc = "flush" /\ pc' = "flush" /\ ~Monolithic /\ u \in Terms
        /\ UNCHANGED <<metadata, indexed, home, index, book, run>>
    BY <1>11, <2>1 DEF FlushTerm, RunGoesOn, logs, TypeInv, TypeOK
  <2>3. \A s \in Structures, t \in Terms :
           stored'[s][t] = IF s = run.structure /\ t = u THEN stored[s][t] \cup index[t] ELSE stored[s][t]
    BY <2>1, <2>2, <1>r DEF TypeInv, TypeOK
  <2>4. /\ \A s \in Structures, t \in Terms : \A b \in stored'[s][t] : TruePosting(b, t)'
        /\ \A s \in Structures, b \in Books : Served(s, b) => Served(s, b)'
    BY <2>2, <2>3, GrowthKeeps
  <2>5. PostingsAreTrue'
    BY <2>2, <2>4 DEF ServiceInv, PostingsAreTrue, TruePosting
  <2>6. NothingToLose'
    BY <2>2 DEF NothingToLose, Monolithic
  <2>7. IndexUnderWay'
    BY <2>1, <2>2, <2>3, <1>r, <1>b, <1>t DEF ServiceInv, IndexUnderWay, Monolithic, Indexing
  <2>8. EveryIndexedBookStaysServed'
    BY <2>2, <2>4 DEF ServiceInv, EveryIndexedBookStaysServed, TypeInv, TypeOK
  <2> QED BY <2>5, <2>6, <2>7, <2>8 DEF ServiceInv
<1>12. CASE FlushEnds
  <2>1. /\ pc = "flush" /\ pc' = "mark" /\ ~Monolithic /\ todo = {} /\ index' = EmptyIndex
        /\ UNCHANGED <<metadata, indexed, home, stored, book, run>>
    BY <1>12 DEF FlushEnds, DiskStays, RunGoesOn, disk, logs, cursor
  <2>2. IndexUnderWay'
    BY <2>1 DEF ServiceInv, IndexUnderWay, Served
  <2> QED BY <2>1, <2>2 DEF ServiceInv, PostingsAreTrue, TruePosting, NothingToLose, Monolithic,
             EmptyIndex, EveryIndexedBookStaysServed, Served
<1>13. CASE IndexFails
  BY <1>13, SkipKeeps DEF IndexFails
<1>14. CASE MarkIndexed
  <2>1. /\ pc = "mark" /\ pc' = "loop"
        /\ indexed' = indexed \cup {book} /\ home' = [home EXCEPT ![book] = run.structure]
        /\ UNCHANGED <<metadata, stored, index, run>>
    BY <1>14 DEF MarkIndexed, StepDone
  <2>2. Served(run.structure, book) /\ book \in Books \ indexed
    BY <2>1, <1>b DEF ServiceInv, IndexUnderWay, Indexing
  <2>3. run.structure # None
    BY <1>r, JavaAssumption DEF JavaAssumption
  <2>4. \A s, b : Served(s, b)' <=> Served(s, b)
    BY <2>1 DEF Served
  <2>5. \A b \in indexed' : IF b = book THEN home'[b] = run.structure ELSE b \in indexed /\ home'[b] = home[b]
    BY <2>1, <2>2 DEF TypeInv, TypeOK
  <2>6. EveryIndexedBookStaysServed'
    BY <2>2, <2>3, <2>4, <2>5 DEF ServiceInv, EveryIndexedBookStaysServed
  <2> QED BY <2>1, <2>6 DEF ServiceInv, PostingsAreTrue, TruePosting, NothingToLose, Monolithic,
             IndexUnderWay
<1>15. CASE NotAvailable
  BY <1>15, SkipKeeps DEF NotAvailable
<1>16. CASE Fetch
  BY <1>16, QuietKeeps DEF Fetch, DiskStays, RunGoesOn, disk, logs
<1>17. CASE SaveHeader
  BY <1>17, QuietKeeps DEF SaveHeader, RunGoesOn, logs
<1>18. CASE SaveBody
  BY <1>18, QuietKeeps DEF SaveBody, RunGoesOn, logs
<1>19. CASE DownloadFails
  BY <1>19, SkipKeeps DEF DownloadFails
<1>20. CASE MarkDownloaded
  BY <1>20, QuietKeeps DEF MarkDownloaded, StepDone
<1>21. CASE UNCHANGED vars
  BY <1>21 DEF vars, disk, datalake, logs, cursor, ServiceInv, PostingsAreTrue, TruePosting,
     NothingToLose, Monolithic, IndexUnderWay, EveryIndexedBookStaysServed, Served
<1> QED BY <1>1, <1>2, <1>3, <1>4, <1>5, <1>6, <1>7, <1>8, <1>9, <1>10, <1>11, <1>12, <1>13,
           <1>14, <1>15, <1>16, <1>17, <1>18, <1>19, <1>20, <1>21
        DEF Next, Proceed, Fail, Choose, Index, Download

(* A book marked indexed is found under all its terms in the structure it   *)
(* was indexed in, at every later moment: no run that follows, of whatever  *)
(* configuration and however it ends, hides it again.                       *)
THEOREM IndexedStaysServed == Spec => []EveryIndexedBookStaysServed
<1>1. ServiceInv => EveryIndexedBookStaysServed
  BY DEF ServiceInv
<1> QED BY InitTyped, NextTyped, InitServes, NextServes, <1>1, PTL DEF Spec

-----------------------------------------------------------------------------
(* The structures implement IndexPromise.                                   *)

LEMMA InitPromises == Init => Promise!Init
BY DEF Init, Promise!Init, EmptyIndex

(* Steps that change no row, no mark and no posting do not show.            *)
LEMMA QuietHidden ==
    ASSUME UNCHANGED <<metadata, indexed, home, stored>>
    PROVE  UNCHANGED Promise!vars
BY DEF Promise!vars

LEMMA RowTeaches ==
    ASSUME TypeInv, SaveRow
    PROVE  Promise!Learn
<1>1. /\ metadata' = [metadata EXCEPT ![book] = folder]
      /\ book \in Books /\ folder # None
      /\ UNCHANGED <<indexed, home, stored>>
  BY JavaAssumption DEF SaveRow, logs, TypeInv, Cursor, Indexing, JavaAssumption
<1>2. {b \in Books : metadata'[b] # None} = {b \in Books : metadata[b] # None} \cup {book}
  BY <1>1 DEF TypeInv, TypeOK
<1> QED BY <1>1, <1>2 DEF Promise!Learn

LEMMA FlushReveals ==
    ASSUME TypeInv, ServiceInv, TypeInv', ServiceInv',
           UNCHANGED <<metadata, indexed, home>>,
           \A s \in Structures, t \in Terms : stored[s][t] \subseteq stored'[s][t]
    PROVE  Promise!Reveal
<1>1. \A s \in Structures, t \in Terms : \A b \in stored'[s][t] :
         b \in {c \in Books : metadata[c] # None} /\ t \in TermsOf[b]
  BY DEF ServiceInv, PostingsAreTrue, TruePosting, TypeInv, TypeOK
<1>2. stored' \in [Structures -> [Terms -> SUBSET {b \in Books : metadata[b] # None}]]
  BY <1>1 DEF TypeInv, TypeOK
<1> QED BY <1>1, <1>2 DEF Promise!Reveal

LEMMA MarkFinishes ==
    ASSUME TypeInv, ServiceInv, MarkIndexed
    PROVE  Promise!Finish
<1>1. /\ run.structure \in Structures /\ book \in Books \ indexed
      /\ Served(run.structure, book) /\ metadata[book] # None
  BY RunTyped DEF MarkIndexed, TypeInv, TypeOK, Cursor, Indexing, ServiceInv, IndexUnderWay
<1>2. /\ indexed' = indexed \cup {book} /\ home' = [home EXCEPT ![book] = run.structure]
      /\ UNCHANGED <<metadata, stored>>
  BY DEF MarkIndexed
<1> DEFINE done == {p \in Structures \X Books : p[2] \in indexed /\ home[p[2]] = p[1]}
<1>3. done' = done \cup ({run.structure} \X {book})
  BY <1>1, <1>2 DEF TypeInv, TypeOK
<1>4. book \in {b \in Books : metadata[b] # None}
  BY <1>1
<1>5. Promise!Findable(run.structure, book)
  BY <1>1 DEF Promise!Findable, Served
<1>6. {run.structure} \in SUBSET Structures /\ \A s \in {run.structure} : Promise!Findable(s, book)
  BY <1>1, <1>5
<1>7. /\ \A s \in {run.structure} : Promise!Findable(s, book)
      /\ done' = done \cup ({run.structure} \X {book})
      /\ UNCHANGED <<{b \in Books : metadata[b] # None}, stored>>
  BY <1>2, <1>3, <1>6
<1> QED BY <1>4, <1>6, <1>7 DEF Promise!Finish

LEMMA NextPromises ==
    ASSUME TypeInv, ServiceInv, [Next]_vars
    PROVE  [Promise!Next]_(Promise!vars)
<1>1. TypeInv' /\ ServiceInv'
  BY NextTyped, NextServes
<1>2. CASE UNCHANGED <<metadata, indexed, home, stored>>
  BY <1>2, QuietHidden
<1>3. CASE SaveRow
  BY <1>3, RowTeaches DEF Promise!Next
<1>4. CASE FlushJson
  <2>1. /\ pc # "off" /\ Monolithic /\ UNCHANGED <<metadata, indexed, home>>
        /\ stored' = [stored EXCEPT !["monolithic"] = index]
    BY <1>4 DEF FlushJson, logs
  <2>2. \A s \in Structures, t \in Terms : stored[s][t] \subseteq stored'[s][t]
    BY <2>1 DEF ServiceInv, NothingToLose, TypeInv, TypeOK
  <2> QED BY <1>1, <2>1, <2>2, FlushReveals DEF Promise!Next
<1>5. CASE FlushTerm
  <2>1. PICK u \in todo : stored' = [stored EXCEPT ![run.structure][u] = @ \cup index[u]]
    BY <1>5 DEF FlushTerm
  <2>2. u \in Terms /\ run.structure \in Structures /\ UNCHANGED <<metadata, indexed, home>>
    BY <1>5, <2>1, RunTyped DEF FlushTerm, logs, TypeInv, TypeOK
  <2>3. \A s \in Structures, t \in Terms : stored[s][t] \subseteq stored'[s][t]
    BY <2>1, <2>2 DEF TypeInv, TypeOK
  <2> QED BY <1>1, <2>2, <2>3, FlushReveals DEF Promise!Next
<1>6. CASE MarkIndexed
  BY <1>6, MarkFinishes DEF Promise!Next
<1> QED
  BY <1>2, <1>3, <1>4, <1>5, <1>6
     DEF Next, Proceed, Fail, Choose, Index, Download, StartRun, Kill, ChooseToIndex,
         ChooseToDownload, FinishRun, MissingFromDatalake, ReadBook, AddDocument, FlushEnds,
         IndexFails, NotAvailable, Fetch, SaveHeader, SaveBody, DownloadFails, MarkDownloaded,
         DiskStays, disk, logs, vars

(* The Java pipeline implements IndexPromise: to whoever searches, postings *)
(* are only ever added, each is true and of a book with a row, and a book   *)
(* is reported as indexed only when all of its own are there.               *)
THEOREM PromiseKept == Spec => StructuresKeepTheirPromise
<1>1. Init => Promise!Init
  BY InitPromises
<1>2. TypeInv /\ ServiceInv /\ [Next]_vars => [Promise!Next]_(Promise!vars)
  BY NextPromises
<1> QED BY InitTyped, NextTyped, InitServes, NextServes, <1>1, <1>2, PTL
        DEF Spec, StructuresKeepTheirPromise, Promise!Spec
-----------------------------------------------------------------------------
(* Rows name complete copies, and nothing is repeated.                      *)

(* Files only get more, so a copy that is whole stays whole.                *)
LEMMA CopiesStay ==
    ASSUME headers \subseteq headers', bodies \subseteq bodies', NEW f, NEW b, Complete(f, b)
    PROVE  Complete(f, b)'
BY DEF Complete

(* Steps that write no row and start nothing.                               *)
LEMMA FilesKeep ==
    ASSUME NothingDoneIsUnderWay, headers \subseteq headers', bodies \subseteq bodies',
           UNCHANGED <<metadata, downloaded, book>>, pc' # "row",
           pc' \in Downloading => pc \in Downloading
    PROVE  NothingDoneIsUnderWay'
BY CopiesStay DEF NothingDoneIsUnderWay, RowsNameCompleteCopies

LEMMA EndKeeps ==
    ASSUME NothingDoneIsUnderWay, UNCHANGED <<datalake, metadata>>, pc' \in {"off", "loop"}
    PROVE  NothingDoneIsUnderWay'
BY CopiesStay DEF NothingDoneIsUnderWay, RowsNameCompleteCopies, Downloading, datalake

LEMMA InitUndone == Init => NothingDoneIsUnderWay
BY DEF Init, NothingDoneIsUnderWay, RowsNameCompleteCopies, Downloading

LEMMA NextUndone == TypeInv /\ NothingDoneIsUnderWay /\ [Next]_vars => NothingDoneIsUnderWay'
<1> SUFFICES ASSUME TypeInv, NothingDoneIsUnderWay, [Next]_vars PROVE NothingDoneIsUnderWay'
  OBVIOUS
<1>1. CASE StartRun
  BY <1>1, EndKeeps DEF StartRun, DiskStays, disk
<1>2. CASE Kill \/ FinishRun
  BY <1>2, EndKeeps DEF Kill, FinishRun, Exit, DiskStays, disk
<1>3. CASE ChooseToIndex
  BY <1>3 DEF ChooseToIndex, DiskStays, disk, datalake, logs, Downloading,
              NothingDoneIsUnderWay, RowsNameCompleteCopies, Complete
<1>4. CASE ChooseToDownload
  BY <1>4 DEF ChooseToDownload, ToDownload, DiskStays, disk, datalake, logs,
              NothingDoneIsUnderWay, RowsNameCompleteCopies, Complete
<1>5. CASE MissingFromDatalake \/ IndexFails \/ NotAvailable \/ DownloadFails
  BY <1>5, EndKeeps DEF MissingFromDatalake, IndexFails, NotAvailable, DownloadFails,
     SkipBook, StepDone, DiskStays, disk
<1>6. CASE ReadBook
  <2>1. Complete(folder', book)
    BY <1>6 DEF ReadBook, IsLocation
  <2>2. UNCHANGED <<headers, bodies, metadata, book>> /\ pc' = "row"
    BY <1>6 DEF ReadBook, DiskStays, disk, datalake
  <2> QED BY <2>1, <2>2 DEF NothingDoneIsUnderWay, RowsNameCompleteCopies, Complete, Downloading
<1>7. CASE SaveRow
  <2>1. /\ metadata' = [metadata EXCEPT ![book] = folder] /\ pc = "row" /\ pc' = "add"
        /\ UNCHANGED <<headers, bodies>>
    BY <1>7 DEF SaveRow, datalake
  <2>2. \A b \in Books : metadata'[b] = IF b = book THEN folder ELSE metadata[b]
    BY <2>1 DEF TypeInv, TypeOK
  <2> QED BY <2>1, <2>2 DEF NothingDoneIsUnderWay, RowsNameCompleteCopies, Complete, Downloading
<1>8. CASE AddDocument \/ FlushJson \/ FlushTerm \/ FlushEnds
  <2>1. UNCHANGED <<headers, bodies, metadata, downloaded, book>> /\ pc' \in {"flush", "mark"}
    BY <1>8 DEF AddDocument, FlushJson, FlushTerm, FlushEnds, DiskStays, disk, datalake, logs, cursor
  <2> QED BY <2>1, FilesKeep DEF Downloading
<1>9. CASE MarkIndexed \/ MarkDownloaded
  BY <1>9, EndKeeps DEF MarkIndexed, MarkDownloaded, StepDone, datalake
<1>10. CASE Fetch
  BY <1>10, FilesKeep DEF Fetch, DiskStays, disk, datalake, logs, Downloading
<1>11. CASE SaveHeader \/ SaveBody
  <2>1. /\ headers \subseteq headers' /\ bodies \subseteq bodies'
        /\ UNCHANGED <<metadata, downloaded, book>>
        /\ pc \in Downloading /\ pc' # "row"
    BY <1>11 DEF SaveHeader, SaveBody, logs, cursor, Downloading
  <2> QED BY <2>1, FilesKeep
<1>12. CASE UNCHANGED vars
  BY <1>12 DEF vars, disk, datalake, logs, cursor, NothingDoneIsUnderWay,
     RowsNameCompleteCopies, Complete
<1> QED BY <1>1, <1>2, <1>3, <1>4, <1>5, <1>6, <1>7, <1>8, <1>9, <1>10, <1>11, <1>12
        DEF Next, Proceed, Fail, Choose, Index, Download

(* A row names a folder that has both files of its book, whatever layouts   *)
(* and hours the runs had and whatever copies the cut ones left behind.     *)
THEOREM RowsAreTrue == Spec => []RowsNameCompleteCopies
<1>1. NothingDoneIsUnderWay => RowsNameCompleteCopies
  BY DEF NothingDoneIsUnderWay
<1> QED BY InitTyped, NextTyped, InitUndone, NextUndone, <1>1, PTL DEF Spec

(* Only the book on its way gets files, and only one that is not indexed    *)
(* gets a row or a home.                                                    *)
LEMMA NextRepeatsNothing ==
    ASSUME TypeInv, NothingDoneIsUnderWay, [Next]_vars
    PROVE  /\ \A p \in (headers' \ headers) \cup (bodies' \ bodies) : p[2] \notin downloaded
           /\ \A b \in indexed : home'[b] = home[b] /\ metadata'[b] = metadata[b]
<1>1. CASE SaveHeader \/ SaveBody
  <2>1. book \notin downloaded
    BY <1>1 DEF SaveHeader, SaveBody, NothingDoneIsUnderWay, Downloading
  <2>2. UNCHANGED <<home, metadata>>
    BY <1>1 DEF SaveHeader, SaveBody, logs
  <2>3. \A p \in (headers' \ headers) \cup (bodies' \ bodies) : p = <<folder, book>>
    BY <1>1 DEF SaveHeader, SaveBody
  <2> QED BY <2>1, <2>2, <2>3
<1>2. CASE SaveRow \/ MarkIndexed
  <2>1. book \notin indexed /\ UNCHANGED <<headers, bodies>>
    BY <1>2 DEF SaveRow, MarkIndexed, datalake, TypeInv, Cursor, Indexing
  <2>2. \A b \in indexed : home'[b] = home[b] /\ metadata'[b] = metadata[b]
    BY <1>2, <2>1 DEF SaveRow, MarkIndexed, logs, TypeInv, TypeOK
  <2> QED BY <2>1, <2>2
<1>3. CASE ~(SaveHeader \/ SaveBody \/ SaveRow \/ MarkIndexed)
  <2>1. UNCHANGED <<headers, bodies, metadata, home>>
    BY <1>3 DEF Next, Proceed, Fail, Choose, Index, Download, StartRun, Kill, ChooseToIndex,
       ChooseToDownload, FinishRun, MissingFromDatalake, ReadBook, AddDocument, FlushJson,
       FlushTerm, FlushEnds, IndexFails, NotAvailable, Fetch, DownloadFails, MarkDownloaded,
       DiskStays, disk, datalake, logs, vars
  <2> QED BY <2>1
<1> QED BY <1>1, <1>2, <1>3

(* What is done is not done again: no file of a book marked downloaded is   *)
(* written, and an indexed book keeps its structure and its row, however    *)
(* often and with whatever configuration runs follow.                       *)
THEOREM MarksSpareTheWork == Spec => NothingIsRepeated
<1>1. TypeInv /\ NothingDoneIsUnderWay /\ [Next]_vars =>
        [/\ \A p \in (headers' \ headers) \cup (bodies' \ bodies) : p[2] \notin downloaded
         /\ \A b \in indexed : home'[b] = home[b] /\ metadata'[b] = metadata[b]]_vars
  BY NextRepeatsNothing
<1> QED BY InitTyped, NextTyped, InitUndone, NextUndone, <1>1, PTL DEF Spec, NothingIsRepeated
=============================================================================
