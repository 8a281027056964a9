---------------------------- MODULE PythonProofs ----------------------------
(***************************************************************************)
(* Proofs about PythonPipeline, for any books, terms, list, sources and    *)
(* any number of faults: the state is well typed, the three indexes follow *)
(* one another, an indexed book stays served, a book marked downloaded is  *)
(* in the three datalakes, and the indexes implement IndexPromise.         *)
(***************************************************************************)
EXTENDS PythonPipeline, TLAPS

(* The book under way is a book.                                            *)
LEMMA BookTyped ==
    ASSUME TypeInv, InList
    PROVE  book \in Books
<1>1. place \in 1 .. Len(BookIds)
  BY PythonAssumption DEF TypeInv, TypeOK, InList, PythonAssumption
<1> QED BY <1>1, PythonAssumption DEF book, InList, PythonAssumption

(* Nothing moves in the list: the book stays the same.                      *)
LEMMA SameBook ==
    ASSUME UNCHANGED place
    PROVE  book' = book /\ InList' = InList
BY DEF book, InList

LEMMA HourTyped == (CHOOSE h \in Hours : TRUE) \in Hours
BY PythonAssumption DEF PythonAssumption

(* The process ends, whatever state it was in.                              *)
LEMMA ExitTyped ==
    ASSUME TypeInv, Exit, UNCHANGED disk, faults' \in 0 .. MaxFaults
    PROVE  TypeInv'
<1>1. 1 \in 1 .. Len(BookIds) + 1
  BY PythonAssumption DEF PythonAssumption
<1> QED BY <1>1, HourTyped DEF TypeInv, TypeOK, AtABook, Exit, EmptyIndex, disk

(* One posting list grows.                                                  *)
LEMMA EntryTyped ==
    ASSUME NEW st \in [Structures -> [Terms -> SUBSET Books]],
           NEW s \in Structures, NEW t \in Terms, NEW b \in Books
    PROVE  [st EXCEPT ![s][t] = @ \cup {b}] \in [Structures -> [Terms -> SUBSET Books]]
<1>1. st[s][t] \cup {b} \in SUBSET Books
  OBVIOUS
<1>2. [st[s] EXCEPT ![t] = @ \cup {b}] \in [Terms -> SUBSET Books]
  BY <1>1
<1> QED BY <1>2

LEMMA FilesTyped ==
    /\ FilesToSave \in Seq(Layouts \X Parts)
    /\ \A l \in Layouts, p \in Parts : \E i \in DOMAIN FilesToSave : FilesToSave[i] = <<l, p>>
<1>1. \A l \in Layouts, p \in Parts : \E i \in 1 .. 6 : FilesToSave[i] = <<l, p>>
  BY DEF FilesToSave, Layouts, Parts
<1>2. FilesToSave \in Seq(Layouts \X Parts)
  BY DEF FilesToSave, Layouts, Parts
<1>3. DOMAIN FilesToSave = 1 .. 6
  BY DEF FilesToSave
<1> QED BY <1>1, <1>2, <1>3

LEMMA InitTyped == Init => TypeInv
<1>1. 1 \in 1 .. Len(BookIds) + 1
  BY PythonAssumption DEF PythonAssumption
<1> QED BY <1>1, HourTyped, PythonAssumption
        DEF Init, TypeInv, TypeOK, AtABook, EmptyIndex, PythonAssumption

LEMMA NextTyped == TypeInv /\ [Next]_vars => TypeInv'
<1> SUFFICES ASSUME TypeInv, [Next]_vars PROVE TypeInv'
  OBVIOUS
<1>a. UNCHANGED place => InList' = InList
  BY SameBook
<1>b. InList => book \in Books
  BY BookTyped
<1>c. InList => place + 1 \in 1 .. Len(BookIds) + 1
  BY PythonAssumption DEF InList, TypeInv, TypeOK, PythonAssumption
<1> USE DEF TypeInv, TypeOK, AtABook
<1>1. CASE StartRun
  BY <1>1, PythonAssumption DEF StartRun, DiskStays, disk, Structures, PythonAssumption
<1>2. CASE Fail
  <2>1. faults' \in 0 .. MaxFaults
    BY <1>2, PythonAssumption DEF Fail, PythonAssumption
  <2> QED BY <1>2, <2>1, ExitTyped DEF Fail, DiskStays
<1>3. CASE Finish
  BY <1>3, ExitTyped DEF Finish, DiskStays
<1>4. CASE SkipIndexed
  BY <1>4, <1>c DEF SkipIndexed, DiskStays, disk
<1>5. CASE FetchFails
  BY <1>5, <1>c DEF FetchFails, DiskStays, disk
<1>6. CASE Fetch
  BY <1>6, <1>a, FilesTyped DEF Fetch, DiskStays, RunGoesOn, disk
<1>7. CASE SaveFile
  <2>1. InList /\ book \in Books
    BY <1>7, <1>b DEF SaveFile
  <2>2. /\ Head(unsaved) \in Layouts \X Parts
        /\ Tail(unsaved) \in Seq(Layouts \X Parts)
    BY <1>7 DEF SaveFile
  <2>3. File(Head(unsaved)[1], book, hour, Head(unsaved)[2]) \in Files
    BY <2>1, <2>2 DEF Files
  <2> QED BY <1>7, <1>a, <2>1, <2>2, <2>3 DEF SaveFile, RunGoesOn
<1>8. CASE MarkDownloaded
  BY <1>8, <1>a, <1>b DEF MarkDownloaded, RunGoesOn
<1>9. CASE SaveRow
  BY <1>9, <1>a, <1>b DEF SaveRow, RunGoesOn
<1>10. CASE AddDocument
  <2>1. book \in Books /\ InList
    BY <1>10, <1>b DEF AddDocument
  <2>2. TermsOf[book] \subseteq Terms
    BY <2>1, PythonAssumption DEF PythonAssumption
  <2>3. index' \in [Terms -> SUBSET Books]
    BY <1>10, <2>1 DEF AddDocument, AddBook
  <2> QED BY <1>10, <1>a, <2>1, <2>2, <2>3 DEF AddDocument, DiskStays, RunGoesOn, disk
<1>11. CASE FlushJson
  BY <1>11, <1>a DEF FlushJson, RunGoesOn, Structures
<1>12. CASE FlushTerm
  <2>1. PICK t \in pending : /\ stored' = [stored EXCEPT ![pc][t] = @ \cup {book}]
                             /\ pending' = pending \ {t}
    BY <1>12 DEF FlushTerm
  <2>2. t \in Terms /\ pc \in Structures /\ book \in Books /\ InList
    BY <1>12, <2>1, <1>b DEF FlushTerm, Structures
  <2>3. stored' \in [Structures -> [Terms -> SUBSET Books]]
    BY <2>1, <2>2, EntryTyped
  <2> QED BY <1>12, <1>a, <2>1, <2>2, <2>3 DEF FlushTerm, RunGoesOn
<1>13. CASE FilesFlushed
  <2>1. book \in Books /\ InList
    BY <1>13, <1>b DEF FilesFlushed
  <2>2. TermsOf[book] \subseteq Terms
    BY <2>1, PythonAssumption DEF PythonAssumption
  <2> QED BY <1>13, <1>a, <2>1, <2>2 DEF FilesFlushed, DiskStays, RunGoesOn, disk
<1>14. CASE DocumentsFlushed
  BY <1>14, <1>a DEF DocumentsFlushed, DiskStays, RunGoesOn, disk
<1>15. CASE MarkIndexed
  BY <1>15, <1>b, <1>c DEF MarkIndexed
<1>16. CASE UNCHANGED vars
  BY <1>16, <1>a DEF vars, disk
<1> QED BY <1>1, <1>2, <1>3, <1>4, <1>5, <1>6, <1>7, <1>8, <1>9, <1>10, <1>11, <1>12,
        <1>13, <1>14, <1>15, <1>16 DEF Next, Proceed

(* Every reachable state is well typed.                                     *)
THEOREM PythonTypeCorrect == Spec => []TypeOK
<1>1. TypeInv => TypeOK
  BY DEF TypeInv
<1> QED BY <1>1, InitTyped, NextTyped, PTL DEF Spec

-----------------------------------------------------------------------------
(* A step that adds nothing to the postings and takes no row away: what the *)
(* disk promises goes on, whatever becomes of the process.                  *)
LEMMA DiskKept ==
    ASSUME PromiseInv, TypeInv, UNCHANGED <<stored, indexed, inMongo>>, rows \subseteq rows',
           index' = index \/ index' = EmptyIndex \/ index' = stored["monolithic"]
    PROVE  PostingsAreTrue' /\ IndexesFollowInOrder' /\ EveryIndexedBookStaysServed'
<1>1. IndexesFollowInOrder' /\ EveryIndexedBookStaysServed'
  BY DEF PromiseInv, IndexesFollowInOrder, EveryIndexedBookStaysServed, Reported
<1>2. \A s \in Structures : TruePostings(stored[s])'
  BY DEF PromiseInv, PostingsAreTrue, TruePostings
<1>3. TruePostings(index)'
  BY DEF PromiseInv, PostingsAreTrue, TruePostings, EmptyIndex, Structures
<1> QED BY <1>1, <1>2, <1>3 DEF PostingsAreTrue

LEMMA ExitKept ==
    ASSUME PromiseInv, TypeInv, Exit, UNCHANGED disk
    PROVE  PromiseInv'
<1>1. PostingsAreTrue' /\ IndexesFollowInOrder' /\ EveryIndexedBookStaysServed'
  BY DiskKept DEF Exit, disk
<1>2. NothingToLose' /\ IndexUnderWay'
  BY DEF Exit, NothingToLose, IndexUnderWay
<1> QED BY <1>1, <1>2 DEF PromiseInv

(* The step only moves the run before anything of the book is indexed.      *)
LEMMA MoveKept ==
    ASSUME PromiseInv, TypeInv, UNCHANGED <<stored, indexed, inMongo, index>>, rows \subseteq rows',
           pc # "off", pc' \in {"next", "save", "row"}
    PROVE  PromiseInv'
<1>1. PostingsAreTrue' /\ IndexesFollowInOrder' /\ EveryIndexedBookStaysServed'
  BY DiskKept
<1>2. NothingToLose' /\ IndexUnderWay'
  BY DEF PromiseInv, NothingToLose, IndexUnderWay
<1> QED BY <1>1, <1>2 DEF PromiseInv

LEMMA InitPromise == Init => PromiseInv
BY DEF Init, PromiseInv, PostingsAreTrue, TruePostings, NothingToLose, IndexUnderWay,
       IndexesFollowInOrder, EveryIndexedBookStaysServed, Reported, EmptyIndex, Structures

LEMMA AddKeeps ==
    ASSUME PromiseInv, TypeInv, AddDocument
    PROVE  PromiseInv'
<1>1. InList /\ book \in Books /\ book \in rows
  BY BookTyped DEF AddDocument, TypeInv, AtABook, PromiseInv, IndexUnderWay
<1>2. book' = book
  BY SameBook DEF AddDocument, RunGoesOn
<1>3. TermsOf[book] \subseteq Terms
  BY <1>1, PythonAssumption DEF PythonAssumption
<1>4. UNCHANGED <<stored, indexed, inMongo, rows>> /\ pc' = "monolithic"
  BY DEF AddDocument, DiskStays, disk
<1>5. \A t \in Terms : index'[t] = IF t \in TermsOf[book] THEN index[t] \cup {book} ELSE index[t]
  BY DEF AddDocument, AddBook
<1>6. IndexesFollowInOrder' /\ EveryIndexedBookStaysServed'
  BY <1>4 DEF PromiseInv, IndexesFollowInOrder, EveryIndexedBookStaysServed, Reported
<1>7. PostingsAreTrue'
  <2>1. ASSUME NEW t \in Terms, NEW b \in index'[t]
        PROVE  b \in rows' /\ t \in TermsOf[b]
    <3>1. CASE b \in index[t]
      BY <1>4, <3>1 DEF PromiseInv, PostingsAreTrue, TruePostings
    <3>2. CASE t \in TermsOf[book] /\ b = book
      BY <1>1, <1>4, <3>2
    <3> QED BY <1>5, <2>1, <3>1, <3>2
  <2>2. \A s \in Structures : TruePostings(stored[s])'
    BY <1>4 DEF PromiseInv, PostingsAreTrue, TruePostings
  <2> QED BY <2>1, <2>2 DEF PostingsAreTrue, TruePostings
<1>8. NothingToLose'
  BY <1>4, <1>5 DEF AddDocument, PromiseInv, NothingToLose
<1>9. IndexUnderWay'
  BY <1>1, <1>2, <1>3, <1>4, <1>5 DEF AddDocument, IndexUnderWay
<1> QED BY <1>6, <1>7, <1>8, <1>9 DEF PromiseInv

LEMMA FlushJsonKeeps ==
    ASSUME PromiseInv, TypeInv, FlushJson
    PROVE  PromiseInv'
<1>1. InList /\ book \in Books /\ book \in rows
  BY BookTyped DEF FlushJson, TypeInv, AtABook, PromiseInv, IndexUnderWay
<1>2. book' = book /\ UNCHANGED <<rows, indexed, inMongo, index, pending, run>>
  BY SameBook DEF FlushJson, RunGoesOn
<1>3. /\ stored'["monolithic"] = index
      /\ stored'["hierarchical"] = stored["hierarchical"]
      /\ stored'["mongo"] = stored["mongo"]
  BY DEF FlushJson, TypeInv, TypeOK, Structures
<1>4. \A t \in Terms : stored["monolithic"][t] \subseteq stored'["monolithic"][t]
  BY <1>3 DEF FlushJson, PromiseInv, NothingToLose
<1>5. TermsOf[book] \subseteq Terms /\ \A b \in Books : TermsOf[b] \subseteq Terms
  BY <1>1, PythonAssumption DEF PythonAssumption
<1>6. PostingsAreTrue'
  BY <1>2, <1>3 DEF PromiseInv, PostingsAreTrue, TruePostings, Structures
<1>7. NothingToLose'
  BY <1>2, <1>3 DEF NothingToLose
<1>8. IndexesFollowInOrder'
  BY <1>3, <1>4 DEF PromiseInv, IndexesFollowInOrder
<1>9. EveryIndexedBookStaysServed'
  BY <1>2, <1>3, <1>4, <1>5 DEF PromiseInv, EveryIndexedBookStaysServed, Reported, Structures,
     TypeInv, TypeOK
<1>10. IndexUnderWay'
  BY <1>1, <1>2, <1>3, <1>5 DEF FlushJson, PromiseInv, IndexUnderWay, In, InUnless
<1> QED BY <1>6, <1>7, <1>8, <1>9, <1>10 DEF PromiseInv

LEMMA FlushTermKeeps ==
    ASSUME PromiseInv, TypeInv, FlushTerm
    PROVE  PromiseInv'
<1>1. InList /\ book \in Books /\ book \in rows /\ pc \in {"hierarchical", "mongo"}
  BY BookTyped DEF FlushTerm, TypeInv, AtABook, PromiseInv, IndexUnderWay
<1>2. book' = book /\ UNCHANGED <<rows, indexed, inMongo, index, pc, run>>
  BY SameBook DEF FlushTerm, RunGoesOn
<1>3. PICK t \in pending : /\ stored' = [stored EXCEPT ![pc][t] = @ \cup {book}]
                           /\ pending' = pending \ {t}
  BY DEF FlushTerm
<1>4. t \in TermsOf[book] /\ t \in Terms /\ pending \subseteq TermsOf[book]
  BY <1>1, <1>3 DEF PromiseInv, IndexUnderWay, TypeInv, TypeOK
<1>5. \A s \in Structures, u \in Terms :
        stored'[s][u] = IF s = pc /\ u = t THEN stored[s][u] \cup {book} ELSE stored[s][u]
  BY <1>1, <1>3, <1>4 DEF TypeInv, TypeOK, Structures
<1>6. TermsOf[book] \subseteq Terms /\ \A b \in Books : TermsOf[b] \subseteq Terms
  BY <1>1, PythonAssumption DEF PythonAssumption
<1>7. PostingsAreTrue'
  <2>1. ASSUME NEW s \in Structures, NEW u \in Terms, NEW b \in stored'[s][u]
        PROVE  b \in rows' /\ u \in TermsOf[b]
    <3>1. CASE b \in stored[s][u]
      BY <1>2, <3>1 DEF PromiseInv, PostingsAreTrue, TruePostings
    <3>2. CASE u = t /\ b = book
      BY <1>1, <1>2, <1>4, <3>2
    <3> QED BY <1>5, <2>1, <3>1, <3>2
  <2>2. TruePostings(index)'
    BY <1>2 DEF PromiseInv, PostingsAreTrue, TruePostings
  <2> QED BY <2>1, <2>2 DEF PostingsAreTrue, TruePostings
<1>8. NothingToLose'
  BY <1>1, <1>2, <1>5 DEF PromiseInv, NothingToLose, Structures
<1>9. IndexesFollowInOrder'
  <2>1. book \in stored["monolithic"][t] /\ (pc = "mongo" => book \in stored["hierarchical"][t])
    BY <1>1, <1>4 DEF PromiseInv, IndexUnderWay, In
  <2>2. CASE pc = "hierarchical"
    BY <1>5, <2>1, <2>2 DEF PromiseInv, IndexesFollowInOrder, Structures
  <2>3. CASE pc = "mongo"
    BY <1>5, <2>1, <2>3 DEF PromiseInv, IndexesFollowInOrder, Structures
  <2> QED BY <1>1, <2>2, <2>3
<1>10. EveryIndexedBookStaysServed'
  <2>1. \A s \in Structures : Reported(s)' = Reported(s) /\ Reported(s) \subseteq Books
    BY <1>2 DEF Reported, Structures, TypeInv, TypeOK
  <2>2. \A s \in Structures, u \in Terms : stored[s][u] \subseteq stored'[s][u]
    BY <1>5
  <2> QED BY <1>6, <2>1, <2>2 DEF PromiseInv, EveryIndexedBookStaysServed
<1>11. IndexUnderWay'
  BY <1>1, <1>2, <1>3, <1>4, <1>5, <1>6 DEF PromiseInv, IndexUnderWay, In, InUnless, Structures
<1> QED BY <1>7, <1>8, <1>9, <1>10, <1>11 DEF PromiseInv

(* The flush of a structure ends: the book is found there.                  *)
LEMMA FlushedKeeps ==
    ASSUME PromiseInv, TypeInv, FilesFlushed \/ DocumentsFlushed
    PROVE  PromiseInv'
<1>1. /\ book' = book /\ UNCHANGED <<stored, rows, indexed, inMongo, index, run>>
      /\ pc # "off"
  BY SameBook DEF FilesFlushed, DocumentsFlushed, RunGoesOn, DiskStays, disk
<1>2. PostingsAreTrue' /\ IndexesFollowInOrder' /\ EveryIndexedBookStaysServed'
  BY <1>1, DiskKept
<1>3. NothingToLose'
  BY <1>1 DEF PromiseInv, NothingToLose
<1>4. IndexUnderWay'
  BY <1>1 DEF FilesFlushed, DocumentsFlushed, PromiseInv, IndexUnderWay, In, InUnless
<1> QED BY <1>2, <1>3, <1>4 DEF PromiseInv

LEMMA MarkKeeps ==
    ASSUME PromiseInv, TypeInv, MarkIndexed
    PROVE  PromiseInv'
<1>1. UNCHANGED <<stored, rows, index>> /\ pc' = "next" /\ indexed' = indexed \cup {book}
  BY DEF MarkIndexed
<1>2. In("monolithic", book) /\ In("hierarchical", book) /\ (run.server => In("mongo", book))
  BY DEF MarkIndexed, PromiseInv, IndexUnderWay
<1>3. inMongo' \subseteq inMongo \cup {book} /\ (book \in inMongo' \ inMongo => run.server)
  BY DEF MarkIndexed
<1>4. EveryIndexedBookStaysServed'
  BY <1>1, <1>2, <1>3 DEF PromiseInv, EveryIndexedBookStaysServed, Reported, In, Structures
<1>5. PostingsAreTrue' /\ NothingToLose' /\ IndexesFollowInOrder' /\ IndexUnderWay'
  BY <1>1 DEF MarkIndexed, PromiseInv, PostingsAreTrue, TruePostings, NothingToLose,
              IndexesFollowInOrder, IndexUnderWay
<1> QED BY <1>4, <1>5 DEF PromiseInv

LEMMA NextPromise == TypeInv /\ PromiseInv /\ [Next]_vars => PromiseInv'
<1> SUFFICES ASSUME TypeInv, PromiseInv, [Next]_vars PROVE PromiseInv'
  OBVIOUS
<1>1. CASE StartRun
  <2>1. PostingsAreTrue' /\ IndexesFollowInOrder' /\ EveryIndexedBookStaysServed'
    BY <1>1, DiskKept DEF StartRun, DiskStays, disk
  <2>2. NothingToLose' /\ IndexUnderWay'
    BY <1>1 DEF StartRun, DiskStays, disk, NothingToLose, IndexUnderWay
  <2> QED BY <2>1, <2>2 DEF PromiseInv
<1>2. CASE Fail \/ Finish
  BY <1>2, ExitKept DEF Fail, Finish, DiskStays
<1>3. CASE SkipIndexed \/ FetchFails \/ Fetch
  BY <1>3, MoveKept DEF SkipIndexed, FetchFails, Fetch, DiskStays, disk
<1>4. CASE SaveFile \/ MarkDownloaded
  BY <1>4, MoveKept DEF SaveFile, MarkDownloaded
<1>5. CASE SaveRow
  <2>1. PostingsAreTrue' /\ IndexesFollowInOrder' /\ EveryIndexedBookStaysServed'
    BY <1>5, DiskKept DEF SaveRow
  <2>2. book' = book
    BY <1>5, SameBook DEF SaveRow, RunGoesOn
  <2>3. NothingToLose' /\ IndexUnderWay'
    BY <1>5, <2>2 DEF SaveRow, PromiseInv, NothingToLose, IndexUnderWay
  <2> QED BY <2>1, <2>3 DEF PromiseInv
<1>6. CASE AddDocument
  BY <1>6, AddKeeps
<1>7. CASE FlushJson \/ FlushTerm
  BY <1>7, FlushJsonKeeps, FlushTermKeeps
<1>8. CASE FilesFlushed \/ DocumentsFlushed
  BY <1>8, FlushedKeeps
<1>9. CASE MarkIndexed
  BY <1>9, MarkKeeps
<1>10. CASE UNCHANGED vars
  <2>1. book' = book
    BY <1>10, SameBook DEF vars
  <2> QED BY <1>10, <2>1 DEF vars, disk, PromiseInv, PostingsAreTrue, TruePostings, NothingToLose,
          IndexesFollowInOrder, EveryIndexedBookStaysServed, Reported, IndexUnderWay, In, InUnless
<1> QED BY <1>1, <1>2, <1>3, <1>4, <1>5, <1>6, <1>7, <1>8, <1>9, <1>10 DEF Next, Proceed

(* The indexes never overtake one another.                                  *)
THEOREM IndexesInOrder == Spec => []IndexesFollowInOrder
<1>1. PromiseInv => IndexesFollowInOrder
  BY DEF PromiseInv
<1> QED BY <1>1, InitTyped, NextTyped, InitPromise, NextPromise, PTL DEF Spec

(* A book marked indexed is found, from then on, in every index its mark    *)
(* speaks for.                                                              *)
THEOREM PythonIndexedStaysServed == Spec => []EveryIndexedBookStaysServed
<1>1. PromiseInv => EveryIndexedBookStaysServed
  BY DEF PromiseInv
<1> QED BY <1>1, InitTyped, NextTyped, InitPromise, NextPromise, PTL DEF Spec

-----------------------------------------------------------------------------
(* The datalakes.                                                           *)

(* Files are only added, so what was whole stays whole.                     *)
LEMMA SavedGrows ==
    ASSUME saved \subseteq saved', NEW l, NEW b, Located(l, b)
    PROVE  Located(l, b)'
BY DEF Located, Complete

(* A step that is not about the datalake, with no book being saved after.   *)
LEMMA NothingSaved ==
    ASSUME SavedInv, UNCHANGED <<saved, downloaded>>, pc' # "save"
    PROVE  SavedInv'
BY DEF SavedInv, SavingUnderWay, MarkedBooksAreInEveryDatalake, Located, Complete

LEMMA InitSaved == Init => SavedInv
BY DEF Init, SavedInv, SavingUnderWay, MarkedBooksAreInEveryDatalake

LEMMA FetchSaves ==
    ASSUME SavedInv, Fetch
    PROVE  SavedInv'
<1>1. unsaved' = FilesToSave /\ UNCHANGED <<saved, downloaded>>
  BY DEF Fetch, DiskStays, disk
<1>2. MarkedBooksAreInEveryDatalake'
  BY <1>1, SavedGrows DEF SavedInv, MarkedBooksAreInEveryDatalake
<1>3. SavingUnderWay'
  BY <1>1, FilesTyped DEF SavingUnderWay
<1> QED BY <1>2, <1>3 DEF SavedInv

LEMMA SaveFileSaves ==
    ASSUME SavedInv, TypeInv, SaveFile
    PROVE  SavedInv'
<1> DEFINE New == File(Head(unsaved)[1], book, hour, Head(unsaved)[2])
<1>1. /\ pc = "save" /\ unsaved # <<>> /\ unsaved \in Seq(Layouts \X Parts)
      /\ saved' = saved \cup {New} /\ unsaved' = Tail(unsaved)
      /\ UNCHANGED <<downloaded, hour>> /\ book' = book
  BY SameBook DEF SaveFile, RunGoesOn, TypeInv, TypeOK
<1>2. MarkedBooksAreInEveryDatalake'
  BY <1>1, SavedGrows DEF SavedInv, MarkedBooksAreInEveryDatalake
<1>3. ASSUME NEW l \in Layouts, NEW p \in Parts
      PROVE  \/ File(l, book, hour, p) \in saved'
             \/ \E i \in DOMAIN unsaved' : unsaved'[i] = <<l, p>>
  <2>1. CASE File(l, book, hour, p) \in saved
    BY <1>1, <2>1
  <2>2. CASE \E i \in DOMAIN unsaved : unsaved[i] = <<l, p>>
    <3>1. PICK i \in 1 .. Len(unsaved) : unsaved[i] = <<l, p>>
      BY <1>1, <2>2
    <3>2. CASE i = 1
      <4>1. Head(unsaved) = <<l, p>>
        BY <1>1, <3>1, <3>2
      <4> QED BY <1>1, <4>1
    <3>3. CASE i # 1
      <4>1. i - 1 \in 1 .. Len(Tail(unsaved)) /\ Tail(unsaved)[i - 1] = unsaved[i]
        BY <1>1, <3>1, <3>3
      <4>2. i - 1 \in DOMAIN unsaved'
        BY <1>1, <4>1
      <4> QED BY <1>1, <3>1, <4>1, <4>2
    <3> QED BY <3>1, <3>2, <3>3
  <2> QED BY <1>1, <2>1, <2>2 DEF SavedInv, SavingUnderWay
<1>4. SavingUnderWay'
  <2>1. \A l \in Layouts, p \in Parts : File(l, book, hour, p)' = File(l, book, hour, p)
    BY <1>1 DEF File, FolderOf
  <2> QED BY <1>1, <1>3, <2>1 DEF SavingUnderWay
<1> QED BY <1>2, <1>4 DEF SavedInv

LEMMA MarkSaves ==
    ASSUME SavedInv, TypeInv, MarkDownloaded
    PROVE  SavedInv'
<1>1. /\ pc = "save" /\ unsaved = <<>> /\ hour \in Hours
      /\ downloaded' = downloaded \cup {book} /\ UNCHANGED saved /\ pc' = "row"
  BY DEF MarkDownloaded, TypeInv, TypeOK
<1>2. \A l \in Layouts, p \in Parts : File(l, book, hour, p) \in saved
  BY <1>1 DEF SavedInv, SavingUnderWay
<1>3. \A l \in Layouts : Located(l, book)
  BY <1>1, <1>2 DEF Located, Complete
<1>4. \A b \in downloaded', l \in Layouts : Located(l, b)
  BY <1>1, <1>3 DEF SavedInv, MarkedBooksAreInEveryDatalake
<1>5. MarkedBooksAreInEveryDatalake'
  BY <1>1, <1>4, SavedGrows DEF MarkedBooksAreInEveryDatalake
<1> QED BY <1>1, <1>5 DEF SavedInv, SavingUnderWay

LEMMA NextSaved == TypeInv /\ SavedInv /\ [Next]_vars => SavedInv'
<1> SUFFICES ASSUME TypeInv, SavedInv, [Next]_vars PROVE SavedInv'
  OBVIOUS
<1>1. CASE Fetch
  BY <1>1, FetchSaves
<1>2. CASE SaveFile
  BY <1>2, SaveFileSaves
<1>3. CASE MarkDownloaded
  BY <1>3, MarkSaves
<1>4. CASE UNCHANGED vars
  <2>1. UNCHANGED <<saved, downloaded, pc, unsaved, hour>> /\ book' = book
    BY <1>4, SameBook DEF vars, disk
  <2> QED BY <2>1 DEF SavedInv, SavingUnderWay, MarkedBooksAreInEveryDatalake, Located, Complete
<1>5. CASE UNCHANGED <<saved, downloaded>> /\ pc' # "save"
  BY <1>5, NothingSaved
<1> QED
  BY <1>1, <1>2, <1>3, <1>4, <1>5
     DEF Next, Proceed, StartRun, Fail, Finish, Exit, SkipIndexed, FetchFails, SaveRow,
         AddDocument, FlushJson, FlushTerm, FilesFlushed, DocumentsFlushed, MarkIndexed,
         DiskStays, disk

(* A book marked downloaded is whole in each of the three datalakes.        *)
THEOREM DownloadedIsEverywhere == Spec => []MarkedBooksAreInEveryDatalake
<1>1. SavedInv => MarkedBooksAreInEveryDatalake
  BY DEF SavedInv
<1> QED BY <1>1, InitTyped, NextTyped, InitSaved, NextSaved, PTL DEF Spec

-----------------------------------------------------------------------------
(* The indexes implement IndexPromise.                                      *)

LEMMA InitPromises == Init => Promise!Init
BY DEF Init, Promise!Init, EmptyIndex, Reported

(* Steps that change no row, no mark and no posting do not show.            *)
LEMMA QuietHidden ==
    ASSUME UNCHANGED <<rows, indexed, inMongo, stored>>
    PROVE  UNCHANGED Promise!vars
BY DEF Promise!vars, Reported

LEMMA RowTeaches ==
    ASSUME TypeInv, SaveRow
    PROVE  Promise!Learn
<1>1. book \in Books
  BY BookTyped DEF SaveRow, TypeInv, AtABook
<1>2. rows' = rows \cup {book} /\ UNCHANGED <<indexed, inMongo, stored>>
  BY DEF SaveRow
<1> QED BY <1>1, <1>2 DEF Promise!Learn, Reported

LEMMA FlushReveals ==
    ASSUME TypeInv', PromiseInv', UNCHANGED <<rows, indexed, inMongo>>,
           \A s \in Structures, t \in Terms : stored[s][t] \subseteq stored'[s][t]
    PROVE  Promise!Reveal
<1>1. \A s \in Structures, t \in Terms : \A b \in stored'[s][t] : b \in rows /\ t \in TermsOf[b]
  BY DEF PromiseInv, PostingsAreTrue, TruePostings
<1>2. stored' \in [Structures -> [Terms -> SUBSET rows]]
  BY <1>1 DEF TypeInv, TypeOK
<1> QED BY <1>1, <1>2 DEF Promise!Reveal, Reported

LEMMA MarkFinishes ==
    ASSUME TypeInv, PromiseInv, MarkIndexed
    PROVE  Promise!Finish
<1> DEFINE S == {s \in Structures : s = "mongo" => run.server}
<1>1. book \in Books /\ book \in rows
  BY BookTyped DEF MarkIndexed, TypeInv, AtABook, PromiseInv, IndexUnderWay
<1>2. In("monolithic", book) /\ In("hierarchical", book) /\ (run.server => In("mongo", book))
  BY DEF MarkIndexed, PromiseInv, IndexUnderWay
<1>3. \A s \in S : Promise!Findable(s, book)
  BY <1>2 DEF Structures, In, Promise!Findable
<1>4. /\ indexed' = indexed \cup {book}
      /\ inMongo' = IF run.server THEN inMongo \cup {book} ELSE inMongo
      /\ UNCHANGED <<rows, stored>>
  BY DEF MarkIndexed
<1> DEFINE done == {d \in Structures \X Books : d[2] \in Reported(d[1])}
<1>5. done' = done \cup (S \X {book})
  <2>1. ASSUME NEW s \in Structures, NEW b \in Books
        PROVE  b \in Reported(s)' <=> b \in Reported(s) \/ (s \in S /\ b = book)
    BY <1>4 DEF Reported
  <2> QED BY <1>1, <2>1
<1>6. S \in SUBSET Structures
  OBVIOUS
<1> QED BY <1>1, <1>3, <1>4, <1>5, <1>6 DEF Promise!Finish

LEMMA NextPromises ==
    ASSUME TypeInv, PromiseInv, [Next]_vars
    PROVE  [Promise!Next]_(Promise!vars)
<1>1. TypeInv' /\ PromiseInv'
  BY NextTyped, NextPromise
<1>2. CASE UNCHANGED <<rows, indexed, inMongo, stored>>
  BY <1>2, QuietHidden
<1>3. CASE SaveRow
  BY <1>3, RowTeaches DEF Promise!Next
<1>4. CASE FlushJson
  <2>1. /\ pc # "off" /\ UNCHANGED <<rows, indexed, inMongo>>
        /\ stored' = [stored EXCEPT !["monolithic"] = index]
    BY <1>4 DEF FlushJson
  <2>2. \A s \in Structures, t \in Terms : stored[s][t] \subseteq stored'[s][t]
    BY <2>1 DEF PromiseInv, NothingToLose, TypeInv, TypeOK
  <2> QED BY <1>1, <2>1, <2>2, FlushReveals DEF Promise!Next
<1>5. CASE FlushTerm
  <2>1. PICK u \in pending : stored' = [stored EXCEPT ![pc][u] = @ \cup {book}]
    BY <1>5 DEF FlushTerm
  <2>2. u \in Terms /\ pc \in Structures /\ UNCHANGED <<rows, indexed, inMongo>>
    BY <1>5, <2>1 DEF FlushTerm, TypeInv, TypeOK, Structures
  <2>3. \A s \in Structures, t \in Terms : stored[s][t] \subseteq stored'[s][t]
    BY <2>1, <2>2 DEF TypeInv, TypeOK
  <2> QED BY <1>1, <2>2, <2>3, FlushReveals DEF Promise!Next
<1>6. CASE MarkIndexed
  BY <1>6, MarkFinishes DEF Promise!Next
<1> QED
  BY <1>2, <1>3, <1>4, <1>5, <1>6
     DEF Next, Proceed, StartRun, Fail, Finish, SkipIndexed, FetchFails, Fetch, SaveFile,
         MarkDownloaded, AddDocument, FilesFlushed, DocumentsFlushed, DiskStays, disk, vars

(* The Python pipeline implements IndexPromise over its three indexes.      *)
THEOREM PythonPromiseKept == Spec => StructuresKeepTheirPromise
<1>1. Init => Promise!Init
  BY InitPromises
<1>2. TypeInv /\ PromiseInv /\ [Next]_vars => [Promise!Next]_(Promise!vars)
  BY NextPromises
<1> QED BY InitTyped, NextTyped, InitPromise, NextPromise, <1>1, <1>2, PTL
        DEF Spec, StructuresKeepTheirPromise, Promise!Spec
=============================================================================
