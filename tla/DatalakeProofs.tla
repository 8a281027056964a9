--------------------------- MODULE DatalakeProofs ---------------------------
(***************************************************************************)
(* Proofs about Datalake, for any books, texts, layouts, hours and any     *)
(* number of faults: the state is well typed, a book once saved stays      *)
(* whole, a listed pair of files comes from one save, what locate answers  *)
(* is whole, and a recovery leaves one body per book (or, where C++ is     *)
(* killed under "time", one more per kill).  LakeInv of Datalake is the     *)
(* inductive invariant, CountInv what the last of these needs besides.      *)
(***************************************************************************)
EXTENDS Datalake, FiniteSetTheorems, TLAPS

(* The disk after content c was put into file n of the save under way.      *)
Wrote(n, c) ==
    /\ file' \in [Folders \X Books \X Names -> Contents]
    /\ \A g \in Folders, d \in Books, m \in Names :
         file'[<<g, d, m>>] = IF g = folder /\ d = book /\ m = n THEN c ELSE file[<<g, d, m>>]

(* The disk after file n of the save under way was moved into place.        *)
Moved(n) ==
    /\ file' \in [Folders \X Books \X Names -> Contents]
    /\ \A g \in Folders, d \in Books, m \in Names :
         file'[<<g, d, m>>] =
           IF g = folder /\ d = book /\ m = n THEN file[<<folder, book, Tmp(n)>>]
           ELSE IF g = folder /\ d = book /\ m = Tmp(n) THEN Absent
           ELSE file[<<g, d, m>>]

LEMMA FoldersForTyped ==
    ASSUME NEW l \in Layouts, NEW b \in Books PROVE FoldersOf(l, b) \subseteq Folders
BY DEF Folders

LEMMA SomeNames ==
    /\ {"header", "body", "header.tmp", "body.tmp"} \subseteq Names
    /\ Absent \in Contents /\ Torn \in Contents /\ Texts \subseteq Contents
    /\ Absent # Torn /\ Absent \notin Texts /\ Torn \notin Texts
    /\ None \notin Texts /\ None \notin Books /\ None \notin Folders
BY DatalakeAssumption DEF DatalakeAssumption, Names, Contents

(* One file is replaced.                                                    *)
LEMMA PutWrites ==
    ASSUME TypeOK, pc = "saving", NEW n \in Names, NEW c \in Contents,
           file' = [file EXCEPT ![<<folder, book, n>>] = c]
    PROVE  Wrote(n, c)
<1>1. folder \in Folders /\ book \in Books
  BY FoldersForTyped DEF TypeOK, Lakes, FoldersFor
<1> QED BY <1>1 DEF Wrote, TypeOK

(* The operation under way, by language and number.                         *)
LEMMA CurrentOperation ==
    ASSUME TypeOK, pc = "saving", step <= Operations
    PROVE  \/ InPlace /\ step = 1 /\ Current = Op("open", "body")
           \/ InPlace /\ step = 2 /\ Current = Op("fill", "body")
           \/ InPlace /\ step = 3 /\ Current = Op("open", "header")
           \/ InPlace /\ step = 4 /\ Current = Op("fill", "header")
           \/ ~InPlace /\ step = 1 /\ Current = Op("open", "header.tmp")
           \/ ~InPlace /\ step = 2 /\ Current = Op("fill", "header.tmp")
           \/ ~InPlace /\ step = 3 /\ Current = Op("move", "header")
           \/ ~InPlace /\ step = 4 /\ Current = Op("open", "body.tmp")
           \/ ~InPlace /\ step = 5 /\ Current = Op("fill", "body.tmp")
           \/ ~InPlace /\ step = 6 /\ Current = Op("move", "body")
<1>1. CASE InPlace
  <2>1. step \in 1 .. 4 /\ SaveOperations = InPlaceSave
    BY <1>1 DEF TypeOK, Operations, SaveOperations
  <2> QED BY <1>1, <2>1 DEF Current, InPlaceSave
<1>2. CASE ~InPlace
  <2>1. step \in 1 .. 6 /\ SaveOperations = MovingSave
    BY <1>2 DEF TypeOK, Operations, SaveOperations
  <2> QED BY <1>2, <2>1 DEF Current, MovingSave
<1> QED BY <1>1, <1>2

LEMMA OpenCases ==
    ASSUME TypeOK, OpenFile
    PROVE  \/ InPlace /\ step = 1 /\ Wrote("body", Torn)
           \/ InPlace /\ step = 3 /\ Wrote("header", Torn)
           \/ ~InPlace /\ step = 1 /\ Wrote("header.tmp", Torn)
           \/ ~InPlace /\ step = 4 /\ Wrote("body.tmp", Torn)
<1>1. \A n \in Names : Current.name = n => Wrote(n, Torn)
  BY PutWrites, SomeNames DEF OpenFile, Operate
<1> QED BY <1>1, CurrentOperation, SomeNames DEF OpenFile, Operate, Op

LEMMA FillCases ==
    ASSUME TypeOK, FillFile
    PROVE  \/ InPlace /\ step = 2 /\ Wrote("body", text)
           \/ InPlace /\ step = 4 /\ Wrote("header", text)
           \/ ~InPlace /\ step = 2 /\ Wrote("header.tmp", text)
           \/ ~InPlace /\ step = 5 /\ Wrote("body.tmp", text)
<1>1. text \in Contents
  BY SomeNames DEF FillFile, Operate, TypeOK
<1>2. \A n \in Names : Current.name = n => Wrote(n, text)
  BY <1>1, PutWrites DEF FillFile, Operate
<1> QED BY <1>2, CurrentOperation, SomeNames DEF FillFile, Operate, Op

LEMMA MoveCases ==
    ASSUME TypeOK, MoveFile
    PROVE  \/ ~InPlace /\ step = 3 /\ Moved("header")
           \/ ~InPlace /\ step = 6 /\ Moved("body")
<1>1. folder \in Folders /\ book \in Books
  BY FoldersForTyped DEF TypeOK, Lakes, FoldersFor, MoveFile, Operate
<1>2. ASSUME NEW n \in {"header", "body"}, Current.name = n
      PROVE  Moved(n)
  <2>1. n \in Names /\ Tmp(n) \in Names /\ Tmp(n) # n
    BY DEF Tmp, Names
  <2>2. file' = [file EXCEPT ![<<folder, book, n>>] = file[<<folder, book, Tmp(n)>>],
                             ![<<folder, book, Tmp(n)>>] = Absent]
    BY <1>2 DEF MoveFile, At
  <2>3. file[<<folder, book, Tmp(n)>>] \in Contents
    BY <1>1, <2>1 DEF TypeOK
  <2> QED BY <1>1, <2>1, <2>2, <2>3, SomeNames DEF Moved, TypeOK
<1> QED BY <1>2, CurrentOperation DEF MoveFile, Operate, Op

LEMMA FailCase ==
    ASSUME TypeOK, WriteFails
    PROVE  Wrote("header.tmp", Absent) \/ Wrote("body.tmp", Absent)
<1>1. \A n \in Names :
        n = (IF Current.do = "move" THEN Tmp(Current.name) ELSE Current.name) => Wrote(n, Absent)
  BY PutWrites, SomeNames DEF WriteFails
<1> QED BY <1>1, CurrentOperation, SomeNames DEF WriteFails, Op, Tmp

(* A book that is still to be saved has no header that vanished.            *)
LEMMA MissingHaveNotVanished ==
    ASSUME LakeInv, pc = "saving" => step <= Operations
    PROVE  \A b \in todo : b \in Books /\ b \notin vanished
<1> SUFFICES ASSUME NEW b \in todo, b \in vanished PROVE FALSE
  BY DEF LakeInv, TypeOK
<1>1. InPlace /\ book = b /\ step = 5
  BY DEF LakeInv, NothingMissingIsThere, VanishedAreListed
<1>2. pc = "saving"
  BY <1>1 DEF LakeInv, TypeOK
<1> QED BY <1>1, <1>2 DEF Operations

LEMMA InterruptCase ==
    ASSUME NEW S \in SUBSET Books, TypeOK, Interrupt(S)
    PROVE  /\ file' \in [Folders \X Books \X Names -> Contents]
           /\ \A g \in Folders, d \in Books :
                /\ d \notin S => file'[<<g, d, "body">>] = file[<<g, d, "body">>]
                /\ file'[<<g, d, "body">>] \in {Absent, file[<<g, d, "body">>]}
                /\ file'[<<g, d, "header">>] = file[<<g, d, "header">>]
<1>1. \A x \in Folders \X Books \X Names : x[1] \in Folders /\ x[2] \in Books
  OBVIOUS
<1>2. file' \in [Folders \X Books \X Names -> Contents]
  BY <1>1, SomeNames DEF At, Interrupt, TypeOK
<1>3. ASSUME NEW g \in Folders, NEW d \in Books
      PROVE  /\ d \notin S => file'[<<g, d, "body">>] = file[<<g, d, "body">>]
             /\ file'[<<g, d, "body">>] \in {Absent, file[<<g, d, "body">>]}
             /\ file'[<<g, d, "header">>] = file[<<g, d, "header">>]
  <2> DEFINE x == <<g, d, "body">>
             y == <<g, d, "header">>
  <2>1. x[1] = g /\ x[2] = d /\ x[3] = "body" /\ x \in DOMAIN file
    BY SomeNames DEF TypeOK
  <2>2. y[1] = g /\ y[2] = d /\ y[3] = "header" /\ y \in DOMAIN file
    BY SomeNames DEF TypeOK
  <2>3. file'[x] = IF d \in S /\ g = LocatedAt(d) THEN Absent ELSE file[x]
    BY <2>1 DEF Interrupt
  <2>4. file'[y] = file[y]
    BY <2>2 DEF Interrupt
  <2> QED BY <2>3, <2>4
<1> QED BY <1>2, <1>3

-----------------------------------------------------------------------------
(* The operations on files keep the invariant.                             *)

LEMMA OpenKeeps == LakeInv /\ OpenFile => LakeInv'
<1> SUFFICES ASSUME LakeInv, OpenFile PROVE LakeInv'
  OBVIOUS
<1> USE SomeNames DEF FoldersFor, InPlace, At, HasPair, HeaderOf
<1>1. /\ UNCHANGED <<lake, clock, written, pc, todo, book, folder, text, saved, vanished, faults>>
      /\ step' = step + 1 /\ pc = "saving" /\ step <= Operations
  BY DEF OpenFile, Operate
<1>2. \A b \in Books : FoldersOf(lake.layout, b) \subseteq Folders
  BY FoldersForTyped DEF LakeInv, TypeOK, Lakes
<1>3. /\ book \in Books /\ book \in todo /\ folder \in FoldersOf(lake.layout, book) /\ text \in Texts
      /\ step \in Nat /\ todo \subseteq Books
  BY <1>1 DEF LakeInv, TypeOK
<1>4. \/ InPlace /\ step = 1 /\ Wrote("body", Torn)
      \/ InPlace /\ step = 3 /\ Wrote("header", Torn)
      \/ ~InPlace /\ step = 1 /\ Wrote("header.tmp", Torn)
      \/ ~InPlace /\ step = 4 /\ Wrote("body.tmp", Torn)
  BY OpenCases DEF LakeInv
<1>5. TypeOK'
  BY <1>1, <1>3, <1>4 DEF Operations, Wrote, LakeInv, TypeOK
<1>6. \A b \in Books : \A f \in FoldersOf(lake.layout, b) :
        /\ file'[<<f, b, "body">>] = IF b = book /\ f = folder /\ InPlace /\ step = 1 THEN Torn ELSE file[<<f, b, "body">>]
        /\ file'[<<f, b, "header">>] = IF b = book /\ f = folder /\ InPlace /\ step = 3 THEN Torn ELSE file[<<f, b, "header">>]
  BY <1>2, <1>4 DEF Wrote, Tmp
<1>7. SaveUnderWay'
  BY <1>1, <1>2, <1>3, <1>4 DEF SaveUnderWay, LakeInv, Operations, Wrote, Tmp
<1>v. \A b \in todo : b \notin vanished
  BY <1>1, MissingHaveNotVanished
<1> USE <1>1, <1>3, <1>6 DEF LakeInv
<1>14. VanishedAreListed'
  <2> SUFFICES ASSUME NEW b \in vanished
               PROVE  InPlace /\ lake.crash = "process" /\ \E f \in FoldersOf(lake.layout, b) : HasPair(f, b)'
    BY DEF VanishedAreListed
  <2>1. b \in Books /\ b # book
    BY <1>v DEF TypeOK
  <2>2. PICK f \in FoldersOf(lake.layout, b) : HasPair(f, b)
    BY DEF VanishedAreListed
  <2>3. HasPair(f, b)'
    BY <2>1, <2>2
  <2>4. InPlace /\ lake.crash = "process"
    BY DEF VanishedAreListed
  <2> QED BY <2>3, <2>4
<1>8. PairsComeFromOneSave'
  <2> SUFFICES ASSUME NEW b \in Books, NEW f \in FoldersOf(lake.layout, b),
                      HasPair(f, b)', InPlace => lake.crash = "process"
               PROVE  /\ At(f, b, "body")' \in Texts
                      /\ At(f, b, "header")' \in {At(f, b, "body")'} \cup IF InPlace THEN {Torn} ELSE {}
    BY DEF PairsComeFromOneSave
  <2>1. CASE b = book /\ f = folder
    BY <2>1, <1>4 DEF PairsComeFromOneSave, SaveUnderWay, HalfASave
  <2>2. CASE ~(b = book /\ f = folder)
    BY <2>2 DEF PairsComeFromOneSave
  <2> QED BY <2>1, <2>2
<1>9. NothingMissingIsThere'
  BY <1>v DEF NothingMissingIsThere
<1>10. OnePair'
  <2> SUFFICES ASSUME NEW b \in Books, NEW f \in FoldersOf(lake.layout, b), NEW g \in FoldersOf(lake.layout, b),
                      HasPair(f, b)', HasPair(g, b)'
               PROVE  f = g
    BY DEF OnePair
  <2>1. b # book => HasPair(f, b) /\ HasPair(g, b)
    OBVIOUS
  <2>2. b = book => f = folder /\ g = folder
    BY DEF NothingMissingIsThere
  <2> QED BY <2>1, <2>2 DEF OnePair
<1>11. SavedTextsAreThere'
  <2>1. \A b \in Books : saved[b] # None => b # book
    BY DEF NothingMissingIsThere
  <2> QED BY <2>1 DEF SavedTextsAreThere
<1>12. HalfASave'
  <2> SUFFICES ASSUME NEW b \in Books, NEW f \in FoldersOf(lake.layout, b)
               PROVE  /\ InPlace /\ lake.crash = "process" /\ At(f, b, "header")' # Absent => At(f, b, "body")' # Absent
                      /\ ~InPlace /\ At(f, b, "body")' # Absent => At(f, b, "header")' # Absent
    BY DEF HalfASave
  <2>1. CASE b = book /\ f = folder
    BY <2>1, <1>4 DEF SaveUnderWay, HalfASave
  <2>2. CASE ~(b = book /\ f = folder)
    BY <2>2 DEF HalfASave
  <2> QED BY <2>1, <2>2
<1>13. RememberedBooksAreWhole'
  <2> SUFFICES ASSUME NEW b \in Books, written[b] # None
               PROVE  /\ InPlace /\ lake.layout = "time" /\ written[b] \in FoldersOf(lake.layout, b)
                      /\ lake.crash = "process" =>
                           /\ b \notin todo
                           /\ At(written[b], b, "body")' \in Texts
                           /\ At(written[b], b, "header")' = HeaderOf(b, At(written[b], b, "body"))'
    BY DEF RememberedBooksAreWhole
  <2>1. /\ InPlace /\ lake.layout = "time" /\ written[b] \in FoldersOf(lake.layout, b)
        /\ lake.crash = "process" => b # book /\ b \notin todo
    BY DEF RememberedBooksAreWhole
  <2> QED BY <2>1 DEF RememberedBooksAreWhole
<1> QED BY <1>5, <1>7, <1>8, <1>9, <1>10, <1>11, <1>12, <1>13, <1>14 DEF LakeInv

LEMMA FillKeeps == LakeInv /\ FillFile => LakeInv'
<1> SUFFICES ASSUME LakeInv, FillFile PROVE LakeInv'
  OBVIOUS
<1> USE SomeNames DEF FoldersFor, InPlace, At, HasPair, HeaderOf
<1>1. /\ UNCHANGED <<lake, clock, written, pc, todo, book, folder, text, saved, vanished, faults>>
      /\ step' = step + 1 /\ pc = "saving" /\ step <= Operations
  BY DEF FillFile, Operate
<1>2. \A b \in Books : FoldersOf(lake.layout, b) \subseteq Folders
  BY FoldersForTyped DEF LakeInv, TypeOK, Lakes
<1>3. /\ book \in Books /\ book \in todo /\ folder \in FoldersOf(lake.layout, book) /\ text \in Texts
      /\ step \in Nat /\ todo \subseteq Books
  BY <1>1 DEF LakeInv, TypeOK
<1>4. \/ InPlace /\ step = 2 /\ Wrote("body", text)
      \/ InPlace /\ step = 4 /\ Wrote("header", text)
      \/ ~InPlace /\ step = 2 /\ Wrote("header.tmp", text)
      \/ ~InPlace /\ step = 5 /\ Wrote("body.tmp", text)
  BY FillCases DEF LakeInv
<1>5. TypeOK'
  BY <1>1, <1>3, <1>4 DEF Operations, Wrote, LakeInv, TypeOK
<1>6. \A b \in Books : \A f \in FoldersOf(lake.layout, b) :
        /\ file'[<<f, b, "body">>] = IF b = book /\ f = folder /\ InPlace /\ step = 2 THEN text ELSE file[<<f, b, "body">>]
        /\ file'[<<f, b, "header">>] = IF b = book /\ f = folder /\ InPlace /\ step = 4 THEN text ELSE file[<<f, b, "header">>]
  BY <1>2, <1>4 DEF Wrote, Tmp
<1>u. book \notin vanished
  BY <1>1, <1>3, MissingHaveNotVanished
<1>7. SaveUnderWay'
  BY <1>1, <1>2, <1>3, <1>4, <1>u DEF SaveUnderWay, LakeInv, Operations, Wrote, Tmp
<1>v. \A b \in todo : b \notin vanished
  BY <1>1, MissingHaveNotVanished
<1> USE <1>1, <1>3, <1>6 DEF LakeInv
<1>14. VanishedAreListed'
  <2> SUFFICES ASSUME NEW b \in vanished
               PROVE  InPlace /\ lake.crash = "process" /\ \E f \in FoldersOf(lake.layout, b) : HasPair(f, b)'
    BY DEF VanishedAreListed
  <2>1. b \in Books /\ b # book
    BY <1>v DEF TypeOK
  <2>2. PICK f \in FoldersOf(lake.layout, b) : HasPair(f, b)
    BY DEF VanishedAreListed
  <2>3. HasPair(f, b)'
    BY <2>1, <2>2
  <2>4. InPlace /\ lake.crash = "process"
    BY DEF VanishedAreListed
  <2> QED BY <2>3, <2>4
<1>8. PairsComeFromOneSave'
  <2> SUFFICES ASSUME NEW b \in Books, NEW f \in FoldersOf(lake.layout, b),
                      HasPair(f, b)', InPlace => lake.crash = "process"
               PROVE  /\ At(f, b, "body")' \in Texts
                      /\ At(f, b, "header")' \in {At(f, b, "body")'} \cup IF InPlace THEN {Torn} ELSE {}
    BY DEF PairsComeFromOneSave
  <2>1. CASE b = book /\ f = folder
    BY <2>1, <1>4 DEF PairsComeFromOneSave, SaveUnderWay, HalfASave
  <2>2. CASE ~(b = book /\ f = folder)
    BY <2>2 DEF PairsComeFromOneSave
  <2> QED BY <2>1, <2>2
<1>9. NothingMissingIsThere'
  BY <1>v DEF NothingMissingIsThere
<1>10. OnePair'
  <2> SUFFICES ASSUME NEW b \in Books, NEW f \in FoldersOf(lake.layout, b), NEW g \in FoldersOf(lake.layout, b),
                      HasPair(f, b)', HasPair(g, b)'
               PROVE  f = g
    BY DEF OnePair
  <2>1. b # book => HasPair(f, b) /\ HasPair(g, b)
    OBVIOUS
  <2>2. b = book => f = folder /\ g = folder
    BY DEF NothingMissingIsThere
  <2> QED BY <2>1, <2>2 DEF OnePair
<1>11. SavedTextsAreThere'
  <2>1. \A b \in Books : saved[b] # None => b # book
    BY DEF NothingMissingIsThere
  <2> QED BY <2>1 DEF SavedTextsAreThere
<1>12. HalfASave'
  <2> SUFFICES ASSUME NEW b \in Books, NEW f \in FoldersOf(lake.layout, b)
               PROVE  /\ InPlace /\ lake.crash = "process" /\ At(f, b, "header")' # Absent => At(f, b, "body")' # Absent
                      /\ ~InPlace /\ At(f, b, "body")' # Absent => At(f, b, "header")' # Absent
    BY DEF HalfASave
  <2>1. CASE b = book /\ f = folder
    BY <2>1, <1>4 DEF SaveUnderWay, HalfASave
  <2>2. CASE ~(b = book /\ f = folder)
    BY <2>2 DEF HalfASave
  <2> QED BY <2>1, <2>2
<1>13. RememberedBooksAreWhole'
  <2> SUFFICES ASSUME NEW b \in Books, written[b] # None
               PROVE  /\ InPlace /\ lake.layout = "time" /\ written[b] \in FoldersOf(lake.layout, b)
                      /\ lake.crash = "process" =>
                           /\ b \notin todo
                           /\ At(written[b], b, "body")' \in Texts
                           /\ At(written[b], b, "header")' = HeaderOf(b, At(written[b], b, "body"))'
    BY DEF RememberedBooksAreWhole
  <2>1. /\ InPlace /\ lake.layout = "time" /\ written[b] \in FoldersOf(lake.layout, b)
        /\ lake.crash = "process" => b # book /\ b \notin todo
    BY DEF RememberedBooksAreWhole
  <2> QED BY <2>1 DEF RememberedBooksAreWhole
<1> QED BY <1>5, <1>7, <1>8, <1>9, <1>10, <1>11, <1>12, <1>13, <1>14 DEF LakeInv

(* The file stays as it was opened, and the save goes on.                   *)
LEMMA VanishKeeps == LakeInv /\ HeaderVanishes => LakeInv'
<1> SUFFICES ASSUME LakeInv, HeaderVanishes PROVE LakeInv'
  OBVIOUS
<1> USE SomeNames DEF FoldersFor, InPlace, At, HasPair, HeaderOf
<1>1. /\ UNCHANGED <<lake, file, clock, written, pc, todo, book, folder, text, saved, faults>>
      /\ vanished' = vanished \cup {book} /\ InPlace /\ lake.crash = "process"
      /\ step' = step + 1 /\ pc = "saving" /\ step <= Operations
  BY DEF HeaderVanishes, Operate
<1>2. step = 4 /\ step' = 5
  BY <1>1, CurrentOperation DEF HeaderVanishes, Operate, LakeInv, Op
<1>3. /\ book \in Books /\ book \in todo /\ folder \in FoldersOf(lake.layout, book) /\ text \in Texts
      /\ todo \subseteq Books
  BY <1>1 DEF LakeInv, TypeOK
<1>4. \A b \in todo : b \notin vanished
  BY <1>1, MissingHaveNotVanished
<1>5. file[<<folder, book, "body">>] = text /\ file[<<folder, book, "header">>] = Torn
  BY <1>1, <1>2 DEF LakeInv, SaveUnderWay
<1>6. TypeOK'
  BY <1>1, <1>2, <1>3 DEF LakeInv, TypeOK, Operations
<1>7. SaveUnderWay'
  BY <1>1, <1>2, <1>5 DEF SaveUnderWay
<1>8. NothingMissingIsThere'
  BY <1>1, <1>2, <1>4 DEF LakeInv, NothingMissingIsThere
<1>9. VanishedAreListed'
  BY <1>1, <1>3, <1>5 DEF LakeInv, VanishedAreListed
<1>10. \A b \in Books : saved[b] # None => b # book
  BY <1>3 DEF LakeInv, NothingMissingIsThere
<1>11. SavedTextsAreThere'
  BY <1>1, <1>10 DEF LakeInv, SavedTextsAreThere
<1>12. RememberedBooksAreWhole'
  BY <1>1, <1>3 DEF LakeInv, RememberedBooksAreWhole
<1>13. PairsComeFromOneSave' /\ OnePair' /\ HalfASave'
  BY <1>1 DEF LakeInv, PairsComeFromOneSave, OnePair, HalfASave
<1> QED BY <1>6, <1>7, <1>8, <1>9, <1>11, <1>12, <1>13 DEF LakeInv

LEMMA MoveKeeps == LakeInv /\ MoveFile => LakeInv'
<1> SUFFICES ASSUME LakeInv, MoveFile PROVE LakeInv'
  OBVIOUS
<1> USE SomeNames DEF FoldersFor, InPlace, At, HasPair, HeaderOf
<1>1. /\ UNCHANGED <<lake, clock, written, pc, todo, book, folder, text, saved, vanished, faults>>
      /\ step' = step + 1 /\ pc = "saving" /\ step <= Operations
  BY DEF MoveFile, Operate
<1>2. \A b \in Books : FoldersOf(lake.layout, b) \subseteq Folders
  BY FoldersForTyped DEF LakeInv, TypeOK, Lakes
<1>3. /\ book \in Books /\ book \in todo /\ folder \in FoldersOf(lake.layout, book) /\ text \in Texts
      /\ step \in Nat /\ todo \subseteq Books
  BY <1>1 DEF LakeInv, TypeOK
<1>4. \/ ~InPlace /\ step = 3 /\ Moved("header")
      \/ ~InPlace /\ step = 6 /\ Moved("body")
  BY MoveCases DEF LakeInv
<1>5. TypeOK'
  BY <1>1, <1>3, <1>4 DEF Operations, Moved, LakeInv, TypeOK
<1>6. \A b \in Books : \A f \in FoldersOf(lake.layout, b) :
        /\ file'[<<f, b, "body">>] = IF b = book /\ f = folder /\ step = 6 THEN file[<<folder, book, "body.tmp">>] ELSE file[<<f, b, "body">>]
        /\ file'[<<f, b, "header">>] = IF b = book /\ f = folder /\ step = 3 THEN file[<<folder, book, "header.tmp">>] ELSE file[<<f, b, "header">>]
  <2>1. CASE step = 3
    BY <1>2, <1>4, <2>1 DEF Moved, Tmp
  <2>2. CASE step = 6
    BY <1>2, <1>4, <2>2 DEF Moved, Tmp
  <2> QED BY <1>4, <2>1, <2>2
<1>7. SaveUnderWay'
  <2>1. CASE step = 3
    <3>1. ~InPlace /\ Moved("header") /\ step' = 4
      BY <2>1, <1>1, <1>4
    <3>2. file'[<<folder, book, "header">>] = text /\ file'[<<folder, book, "body">>] = Absent
      BY <1>1, <1>2, <1>3, <2>1, <3>1 DEF SaveUnderWay, LakeInv, Moved, Tmp
    <3> QED BY <1>1, <3>1, <3>2 DEF SaveUnderWay
  <2>2. CASE step = 6
    <3>1. ~InPlace /\ Moved("body") /\ step' = 7
      BY <2>2, <1>1, <1>4
    <3>2. file'[<<folder, book, "header">>] = text /\ file'[<<folder, book, "body">>] = text
      BY <1>1, <1>2, <1>3, <2>2, <3>1 DEF SaveUnderWay, LakeInv, Moved, Tmp
    <3> QED BY <1>1, <3>1, <3>2 DEF SaveUnderWay
  <2> QED BY <2>1, <2>2, <1>4
<1>v. \A b \in todo : b \notin vanished
  BY <1>1, MissingHaveNotVanished
<1> USE <1>1, <1>3, <1>6 DEF LakeInv
<1>14. VanishedAreListed'
  <2> SUFFICES ASSUME NEW b \in vanished
               PROVE  InPlace /\ lake.crash = "process" /\ \E f \in FoldersOf(lake.layout, b) : HasPair(f, b)'
    BY DEF VanishedAreListed
  <2>1. b \in Books /\ b # book
    BY <1>v DEF TypeOK
  <2>2. PICK f \in FoldersOf(lake.layout, b) : HasPair(f, b)
    BY DEF VanishedAreListed
  <2>3. HasPair(f, b)'
    BY <2>1, <2>2
  <2>4. InPlace /\ lake.crash = "process"
    BY DEF VanishedAreListed
  <2> QED BY <2>3, <2>4
<1>8. PairsComeFromOneSave'
  <2> SUFFICES ASSUME NEW b \in Books, NEW f \in FoldersOf(lake.layout, b),
                      HasPair(f, b)', InPlace => lake.crash = "process"
               PROVE  /\ At(f, b, "body")' \in Texts
                      /\ At(f, b, "header")' \in {At(f, b, "body")'} \cup IF InPlace THEN {Torn} ELSE {}
    BY DEF PairsComeFromOneSave
  <2>1. CASE b = book /\ f = folder
    BY <2>1, <1>4 DEF PairsComeFromOneSave, SaveUnderWay, HalfASave
  <2>2. CASE ~(b = book /\ f = folder)
    BY <2>2 DEF PairsComeFromOneSave
  <2> QED BY <2>1, <2>2
<1>9. NothingMissingIsThere'
  BY <1>v DEF NothingMissingIsThere
<1>10. OnePair'
  <2> SUFFICES ASSUME NEW b \in Books, NEW f \in FoldersOf(lake.layout, b), NEW g \in FoldersOf(lake.layout, b),
                      HasPair(f, b)', HasPair(g, b)'
               PROVE  f = g
    BY DEF OnePair
  <2>1. b # book => HasPair(f, b) /\ HasPair(g, b)
    OBVIOUS
  <2>2. b = book => f = folder /\ g = folder
    BY DEF NothingMissingIsThere
  <2> QED BY <2>1, <2>2 DEF OnePair
<1>11. SavedTextsAreThere'
  <2>1. \A b \in Books : saved[b] # None => b # book
    BY DEF NothingMissingIsThere
  <2> SUFFICES ASSUME NEW b \in Books, saved[b] # None
               PROVE  \E f \in FoldersOf(lake.layout, b) :
                         At(f, b, "header")' = HeaderOf(b, saved[b]) /\ At(f, b, "body")' = saved[b]
    BY DEF SavedTextsAreThere
  <2>2. PICK f \in FoldersOf(lake.layout, b) : At(f, b, "header") = HeaderOf(b, saved[b]) /\ At(f, b, "body") = saved[b]
    BY DEF SavedTextsAreThere
  <2>3. At(f, b, "header")' = At(f, b, "header") /\ At(f, b, "body")' = At(f, b, "body")
    BY <2>1
  <2> QED BY <2>2, <2>3
<1>12. HalfASave'
  <2> SUFFICES ASSUME NEW b \in Books, NEW f \in FoldersOf(lake.layout, b)
               PROVE  /\ InPlace /\ lake.crash = "process" /\ At(f, b, "header")' # Absent => At(f, b, "body")' # Absent
                      /\ ~InPlace /\ At(f, b, "body")' # Absent => At(f, b, "header")' # Absent
    BY DEF HalfASave
  <2>1. CASE b = book /\ f = folder
    BY <2>1, <1>4 DEF SaveUnderWay, HalfASave
  <2>2. CASE ~(b = book /\ f = folder)
    BY <2>2 DEF HalfASave
  <2> QED BY <2>1, <2>2
<1>13. RememberedBooksAreWhole'
  <2> SUFFICES ASSUME NEW b \in Books, written[b] # None
               PROVE  /\ InPlace /\ lake.layout = "time" /\ written[b] \in FoldersOf(lake.layout, b)
                      /\ lake.crash = "process" =>
                           /\ b \notin todo
                           /\ At(written[b], b, "body")' \in Texts
                           /\ At(written[b], b, "header")' = HeaderOf(b, At(written[b], b, "body"))'
    BY DEF RememberedBooksAreWhole
  <2>1. /\ InPlace /\ lake.layout = "time" /\ written[b] \in FoldersOf(lake.layout, b)
        /\ lake.crash = "process" => b # book /\ b \notin todo
    BY DEF RememberedBooksAreWhole
  <2> QED BY <2>1 DEF RememberedBooksAreWhole
<1> QED BY <1>5, <1>7, <1>8, <1>9, <1>10, <1>11, <1>12, <1>13, <1>14 DEF LakeInv

-----------------------------------------------------------------------------
(* The other actions keep the invariant.                                   *)

LEMMA InitSound == Init => LakeInv
<1> SUFFICES ASSUME Init PROVE LakeInv
  OBVIOUS
<1>1. \A b \in Books : FoldersOf(lake.layout, b) \subseteq Folders
  BY FoldersForTyped DEF Init, Lakes
<1>2. TypeOK
  BY SomeNames, DatalakeAssumption DEF Init, TypeOK, DatalakeAssumption
<1>3. \A b \in Books : \A f \in FoldersOf(lake.layout, b), n \in Names : file[<<f, b, n>>] = Absent
  BY <1>1 DEF Init
<1> QED BY <1>2, <1>3, SomeNames
        DEF Init, LakeInv, PairsComeFromOneSave, NothingMissingIsThere, VanishedAreListed, OnePair, SavedTextsAreThere,
            HalfASave, SaveUnderWay, RememberedBooksAreWhole, FoldersFor, At, HasPair

LEMMA StartKeeps == LakeInv /\ StartRecovery => LakeInv'
<1> SUFFICES ASSUME LakeInv, StartRecovery PROVE LakeInv'
  OBVIOUS
<1> USE SomeNames DEF StartRecovery, save, FoldersFor, InPlace, At, HasPair, HeaderOf, LakeInv
<1>1. todo' \subseteq Books /\ \A b \in todo' : \A f \in FoldersOf(lake.layout, b) : ~HasPair(f, b)
  BY DEF Missing, Listed
<1>2. TypeOK'
  BY <1>1 DEF TypeOK, Operations
<1>3. NothingMissingIsThere'
  <2>1. \A b \in todo' : saved[b] = None
    <3> SUFFICES ASSUME NEW b \in todo', saved[b] # None PROVE FALSE
      OBVIOUS
    <3>1. b \in Books /\ saved[b] \in Texts
      BY <1>1 DEF TypeOK
    <3>2. PICK f \in FoldersOf(lake.layout, b) :
            file[<<f, b, "header">>] = HeaderOf(b, saved[b]) /\ file[<<f, b, "body">>] = saved[b]
      BY <3>1 DEF SavedTextsAreThere
    <3> QED BY <1>1, <3>1, <3>2
  <2>2. \A b \in todo' : b \notin vanished
    BY <1>1 DEF VanishedAreListed
  <2> QED BY <1>1, <2>1, <2>2 DEF NothingMissingIsThere
<1>4. RememberedBooksAreWhole'
  BY <1>1 DEF RememberedBooksAreWhole
<1>5. UNCHANGED <<lake, file, saved, vanished, written>> /\ pc' = "loop"
  OBVIOUS
<1>6. PairsComeFromOneSave' /\ OnePair' /\ SavedTextsAreThere' /\ VanishedAreListed'
  BY <1>5 DEF PairsComeFromOneSave, OnePair, SavedTextsAreThere, VanishedAreListed
<1>7. HalfASave' /\ SaveUnderWay'
  BY <1>5 DEF HalfASave, SaveUnderWay
<1> QED BY <1>2, <1>3, <1>4, <1>6, <1>7

LEMMA BeginKeeps == LakeInv /\ BeginSave => LakeInv'
<1> SUFFICES ASSUME LakeInv, NEW b \in todo, NEW t \in Texts, NEW f \in FoldersFor(b),
                    Place(f), SaveIn(b, t, f, 1), UNCHANGED written
             PROVE  LakeInv'
  BY DEF BeginSave
<1> USE SomeNames DEF SaveIn, FoldersFor, InPlace, At, HasPair, HeaderOf, LakeInv
<1>1. b \in Books /\ pc = "loop" /\ book = None /\ folder = None
  BY DEF TypeOK
<1>2. \A g \in FoldersOf(lake.layout, b) : ~HasPair(g, b)
  BY <1>1 DEF NothingMissingIsThere
<1>3. TypeOK'
  <2>1. clock' \in Hours
    BY <1>1 DEF Place, TypeOK, FoldersOf
  <2>2. 1 \in 1 .. Operations' + 1
    BY DEF Operations
  <2> QED BY <1>1, <2>1, <2>2 DEF TypeOK
<1>4. UNCHANGED <<lake, file, todo, saved, vanished, written>> /\ pc' = "saving" /\ book' = b /\ folder' = f /\ step' = 1
  OBVIOUS
<1>5. NothingMissingIsThere'
  <2>1. todo \subseteq Books
    BY DEF TypeOK
  <2>2. \A d \in todo : saved[d] = None /\ \A g \in FoldersOf(lake.layout, d) : ~HasPair(g, d)
    BY <1>1, <2>1 DEF NothingMissingIsThere
  <2>3. \A d \in todo : d \notin vanished
    BY <1>1, MissingHaveNotVanished
  <2> QED BY <1>4, <2>2, <2>3 DEF NothingMissingIsThere
<1>6. SaveUnderWay'
  BY <1>1, <1>2, <1>4 DEF SaveUnderWay, HalfASave
<1>7. PairsComeFromOneSave' /\ OnePair' /\ SavedTextsAreThere'
  <2>1. PairsComeFromOneSave'
    BY <1>4 DEF PairsComeFromOneSave
  <2>2. OnePair'
    BY <1>4 DEF OnePair
  <2>3. SavedTextsAreThere'
    BY <1>4 DEF SavedTextsAreThere
  <2> QED BY <2>1, <2>2, <2>3
<1>8. HalfASave' /\ RememberedBooksAreWhole' /\ VanishedAreListed'
  BY <1>4 DEF HalfASave, RememberedBooksAreWhole, VanishedAreListed
<1> QED BY <1>3, <1>5, <1>6, <1>7, <1>8

LEMMA EndKeeps == LakeInv /\ EndSave => LakeInv'
<1> SUFFICES ASSUME LakeInv, EndSave PROVE LakeInv'
  OBVIOUS
<1> USE SomeNames DEF EndSave, FoldersFor, InPlace, At, HasPair, HeaderOf, LakeInv
<1>1. /\ book \in Books /\ book \in todo /\ folder \in FoldersOf(lake.layout, book) /\ text \in Texts
      /\ todo \subseteq Books /\ step = Operations + 1
  BY DEF TypeOK, Operations
<1>2. file[<<folder, book, "header">>] = HeaderOf(book, text) /\ file[<<folder, book, "body">>] = text
  <2>1. ~InPlace => book \notin vanished
    BY DEF VanishedAreListed
  <2> QED BY <1>1, <2>1 DEF SaveUnderWay, Operations
<1>3. folder \in Folders
  BY <1>1, FoldersForTyped DEF TypeOK, Lakes
<1>4. TypeOK'
  BY <1>1, <1>3 DEF TypeOK, Remember
<1>5. UNCHANGED <<lake, file, vanished>> /\ pc' = "loop" /\ book' = None /\ todo' = todo \ {book}
  OBVIOUS
<1>6. NothingMissingIsThere'
  BY <1>1, <1>5 DEF NothingMissingIsThere, TypeOK
<1>7. SavedTextsAreThere'
  BY <1>1, <1>2, <1>5 DEF SavedTextsAreThere, TypeOK
<1>8. RememberedBooksAreWhole'
  <2> SUFFICES ASSUME NEW b \in Books, written'[b] # None
               PROVE  /\ InPlace /\ lake.layout = "time" /\ written'[b] \in FoldersOf(lake.layout, b)
                      /\ lake.crash = "process" =>
                           /\ b \notin todo'
                           /\ file[<<written'[b], b, "body">>] \in Texts
                           /\ file[<<written'[b], b, "header">>] = HeaderOf(b, file[<<written'[b], b, "body">>])
    BY <1>5 DEF RememberedBooksAreWhole
  <2>1. CASE b = book /\ InPlace /\ lake.layout = "time"
    <3>1. written'[b] = folder
      BY <2>1 DEF Remember, TypeOK
    <3> QED BY <2>1, <3>1, <1>1, <1>2, <1>5
  <2>2. CASE ~(b = book /\ InPlace /\ lake.layout = "time")
    <3>1. written'[b] = written[b]
      BY <2>2 DEF Remember, TypeOK
    <3> QED BY <2>2, <3>1, <1>5 DEF RememberedBooksAreWhole
  <2> QED BY <2>1, <2>2
<1>9. PairsComeFromOneSave' /\ OnePair' /\ HalfASave' /\ SaveUnderWay' /\ VanishedAreListed'
  BY <1>5 DEF PairsComeFromOneSave, OnePair, HalfASave, SaveUnderWay, VanishedAreListed
<1> QED BY <1>4, <1>6, <1>7, <1>8, <1>9

(* The process ends, its memory is lost, and the pairs are what they were.  *)
LEMMA ForgetKeeps ==
    ASSUME LakeInv, Forget, UNCHANGED <<lake, clock, saved, vanished>>, faults' \in 0 .. MaxFaults,
           file' \in [Folders \X Books \X Names -> Contents],
           \A g \in Folders, d \in Books :
             /\ file'[<<g, d, "body">>] = file[<<g, d, "body">>]
             /\ file'[<<g, d, "header">>] = file[<<g, d, "header">>]
    PROVE  LakeInv'
<1> USE SomeNames DEF Forget, FoldersFor, InPlace, At, HasPair, HeaderOf, LakeInv
<1>1. \A b \in Books : FoldersOf(lake.layout, b) \subseteq Folders
  BY FoldersForTyped DEF TypeOK, Lakes
<1>2. TypeOK'
  BY DEF TypeOK
<1>3. \A b \in Books : \A f \in FoldersOf(lake.layout, b) :
        /\ file'[<<f, b, "body">>] = file[<<f, b, "body">>]
        /\ file'[<<f, b, "header">>] = file[<<f, b, "header">>]
  BY <1>1
<1>4. lake' = lake
  OBVIOUS
<1>5. PairsComeFromOneSave'
  BY <1>3, <1>4 DEF PairsComeFromOneSave
<1>6. OnePair'
  BY <1>3, <1>4 DEF OnePair
<1>7. SavedTextsAreThere'
  BY <1>3 DEF SavedTextsAreThere
<1>8. HalfASave'
  <2> SUFFICES ASSUME NEW b \in Books, NEW f \in FoldersOf(lake'.layout, b)
               PROVE  /\ InPlace' /\ lake'.crash = "process" /\ At(f, b, "header")' # Absent => At(f, b, "body")' # Absent
                      /\ ~InPlace' /\ At(f, b, "body")' # Absent => At(f, b, "header")' # Absent
    BY DEF HalfASave
  <2> QED BY <1>3, <1>4 DEF HalfASave
<1>10. VanishedAreListed'
  <2>1. vanished' = vanished /\ vanished \subseteq Books
    BY DEF TypeOK
  <2>2. \A b \in Books : \A f \in FoldersOf(lake.layout, b) : HasPair(f, b) => HasPair(f, b)'
    BY <1>3
  <2> QED BY <1>4, <2>1, <2>2 DEF VanishedAreListed
<1>9. NothingMissingIsThere' /\ SaveUnderWay' /\ RememberedBooksAreWhole'
  BY DEF NothingMissingIsThere, SaveUnderWay, RememberedBooksAreWhole
<1> QED BY <1>2, <1>5, <1>6, <1>7, <1>8, <1>9, <1>10

LEMMA DamageKeeps == LakeInv /\ Damage => LakeInv'
<1> SUFFICES ASSUME NEW S \in SUBSET Books, LakeInv, Interrupt(S) PROVE LakeInv'
  BY DEF Damage
<1> USE SomeNames DEF FoldersFor, InPlace, At, HasPair, HeaderOf, LakeInv
<1>1. \A b \in Books : FoldersOf(lake.layout, b) \subseteq Folders
  BY FoldersForTyped DEF TypeOK, Lakes
<1>2. /\ UNCHANGED <<lake, clock, written, todo, book, folder, text, step, vanished>>
      /\ pc = "done" /\ pc' = "off" /\ lake.crash = "renamed" /\ faults < MaxFaults /\ faults' = faults + 1
      /\ saved' = [b \in Books |-> IF b \in S THEN None ELSE saved[b]]
  BY DEF Interrupt, Fault, save
<1>3. TypeOK'
  <2>1. faults' \in 0 .. MaxFaults
    BY <1>2, DatalakeAssumption DEF TypeOK, DatalakeAssumption
  <2>2. file' \in [Folders \X Books \X Names -> Contents]
    BY InterruptCase
  <2>3. saved' \in [Books -> Texts \cup {None}]
    BY <1>2 DEF TypeOK
  <2> QED BY <1>2, <2>1, <2>2, <2>3 DEF TypeOK
<1>4. \A b \in Books : \A f \in FoldersOf(lake.layout, b) :
        /\ b \notin S => file'[<<f, b, "body">>] = file[<<f, b, "body">>]
        /\ file'[<<f, b, "body">>] \in {Absent, file[<<f, b, "body">>]}
        /\ file'[<<f, b, "header">>] = file[<<f, b, "header">>]
  BY <1>1, InterruptCase
<1>5. PairsComeFromOneSave' /\ OnePair'
  BY <1>2, <1>4 DEF PairsComeFromOneSave, OnePair
<1>6. SavedTextsAreThere'
  BY <1>2, <1>4 DEF SavedTextsAreThere
<1>7. HalfASave'
  BY <1>2, <1>4 DEF HalfASave
<1>8. NothingMissingIsThere'
  BY <1>2, <1>4 DEF NothingMissingIsThere, TypeOK
<1>9. SaveUnderWay' /\ RememberedBooksAreWhole' /\ VanishedAreListed'
  BY <1>2 DEF SaveUnderWay, RememberedBooksAreWhole, VanishedAreListed
<1> QED BY <1>3, <1>5, <1>6, <1>7, <1>8, <1>9

LEMMA NothingKeeps ==
    ASSUME LakeInv, UNCHANGED <<lake, file, clock, written, todo, book, folder, text, step, saved, vanished, faults>>,
           pc' = pc \/ (pc' \in {"off", "loop", "done"} /\ pc # "saving")
    PROVE  LakeInv'
BY DEF LakeInv, TypeOK, PairsComeFromOneSave, NothingMissingIsThere, VanishedAreListed, HeaderOf, OnePair, SavedTextsAreThere,
       HalfASave, SaveUnderWay, RememberedBooksAreWhole, FoldersFor, InPlace, At, HasPair, Operations

LEMMA NextKeeps == LakeInv /\ [Next]_vars => LakeInv'
<1> SUFFICES ASSUME LakeInv, [Next]_vars PROVE LakeInv'
  OBVIOUS
<1>0. faults < MaxFaults => faults + 1 \in 0 .. MaxFaults
  BY DatalakeAssumption DEF LakeInv, TypeOK, DatalakeAssumption
<1>1. CASE StartRecovery
  BY <1>1, StartKeeps
<1>2. CASE BeginSave
  BY <1>2, BeginKeeps
<1>3. CASE OpenFile
  BY <1>3, OpenKeeps
<1>4. CASE FillFile
  BY <1>4, FillKeeps
<1>5. CASE MoveFile
  BY <1>5, MoveKeeps
<1>6. CASE EndSave
  BY <1>6, EndKeeps
<1>7. CASE Finish
  BY <1>7, NothingKeeps DEF Finish, save
<1>8. CASE Close
  BY <1>8, ForgetKeeps DEF Close, LakeInv, TypeOK
<1>9. CASE Kill
  BY <1>9, <1>0, ForgetKeeps DEF Kill, Fault, LakeInv, TypeOK
<1>10. CASE WriteFails
  <2>1. /\ file' \in [Folders \X Books \X Names -> Contents]
        /\ \A g \in Folders, d \in Books :
             /\ file'[<<g, d, "body">>] = file[<<g, d, "body">>]
             /\ file'[<<g, d, "header">>] = file[<<g, d, "header">>]
    BY <1>10, FailCase, SomeNames DEF LakeInv, Wrote
  <2> QED BY <1>10, <1>0, <2>1, ForgetKeeps DEF WriteFails, Fault
<1>11. CASE Damage
  BY <1>11, DamageKeeps
<1>12. CASE HeaderVanishes
  BY <1>12, VanishKeeps
<1>13. CASE UNCHANGED vars
  BY <1>13, NothingKeeps DEF vars, save
<1> QED BY <1>1, <1>2, <1>3, <1>4, <1>5, <1>6, <1>7, <1>8, <1>9, <1>10, <1>11, <1>12, <1>13
        DEF Next, Proceed

-----------------------------------------------------------------------------
(* The theorems.                                                           *)

THEOREM LakeInvariant == Spec => []LakeInv
<1>1. Init => LakeInv
  BY InitSound
<1>2. LakeInv /\ [Next]_vars => LakeInv'
  BY NextKeeps
<1> QED BY <1>1, <1>2, PTL DEF Spec

(* Every reachable state is well typed, and a save under way is one of a    *)
(* book of this process in a folder of its layout.                          *)
THEOREM LakeTypeCorrect == Spec => []TypeOK
<1>1. LakeInv => TypeOK
  BY DEF LakeInv
<1> QED BY <1>1, LakeInvariant, PTL

(* A book whose save returned has exactly one pair of files, whole and of   *)
(* that save, whatever dies afterwards (write/save of the datalakes); only   *)
(* a C++ header that was lost while the save returned is missing from it.   *)
THEOREM SavesAreForGood == Spec => []SavedBooksStayWhole
<1>1. LakeInv => SavedBooksStayWhole
  <2> SUFFICES ASSUME LakeInv, NEW b \in Books, saved[b] # None
               PROVE  \E f \in FoldersFor(b) :
                        /\ At(f, b, "header") = HeaderOf(b, saved[b]) /\ At(f, b, "body") = saved[b]
                        /\ \A g \in FoldersFor(b) \ {f} : ~HasPair(g, b)
    BY DEF SavedBooksStayWhole
  <2>1. PICK f \in FoldersFor(b) : At(f, b, "header") = HeaderOf(b, saved[b]) /\ At(f, b, "body") = saved[b]
    BY DEF LakeInv, SavedTextsAreThere
  <2>2. HasPair(f, b)
    BY <2>1, SomeNames DEF HasPair, HeaderOf, LakeInv, TypeOK
  <2> QED BY <2>1, <2>2 DEF LakeInv, OnePair
<1> QED BY <1>1, LakeInvariant, PTL

(* A listed pair of files is never made of two saves of different texts.    *)
THEOREM PairsAreOfOneSave == Spec => []PairsComeFromOneSave
<1>1. LakeInv => PairsComeFromOneSave
  BY DEF LakeInv
<1> QED BY <1>1, LakeInvariant, PTL

(* What locate answers is a whole book: by the files moved into place, or   *)
(* by the map that C++ fills after both files; but for a C++ header that a  *)
(* full disk took unnoticed.                                                *)
THEOREM LocateIsRight == Spec => []LocatedBooksAreWhole
<1>1. LakeInv => LocatedBooksAreWhole
  <2> SUFFICES ASSUME LakeInv, NEW b \in Books, LocatedAt(b) # None,
                      InPlace => lake.layout = "time" /\ lake.crash = "process"
               PROVE  /\ At(LocatedAt(b), b, "body") \in Texts
                      /\ At(LocatedAt(b), b, "header") = HeaderOf(b, At(LocatedAt(b), b, "body"))
    BY DEF LocatedBooksAreWhole
  <2>1. CASE InPlace
    <3>1. LocatedAt(b) = written[b]
      BY <2>1 DEF LocatedAt
    <3> QED BY <2>1, <3>1 DEF LakeInv, RememberedBooksAreWhole
  <2>2. CASE ~InPlace
    <3>1. b \in Listed /\ LocatedAt(b) = Newest(b)
      BY <2>2 DEF LocatedAt
    <3>2. PICK f \in FoldersFor(b) : HasPair(f, b)
      BY <3>1 DEF Listed
    <3>3. \A g \in FoldersFor(b) : HasPair(g, b) => g.at <= f.at
      <4>1. f.at \in Nat
        BY DatalakeAssumption DEF DatalakeAssumption, FoldersFor, FoldersOf, LakeInv, TypeOK, Lakes
      <4> QED BY <3>2, <4>1 DEF LakeInv, OnePair
    <3>4. Newest(b) \in FoldersFor(b) /\ HasPair(Newest(b), b)
      BY <3>2, <3>3 DEF Newest
    <3> QED BY <2>2, <3>1, <3>4 DEF LakeInv, PairsComeFromOneSave, HeaderOf
  <2> QED BY <2>1, <2>2
<1> QED BY <1>1, LakeInvariant, PTL

-----------------------------------------------------------------------------
(* How many bodies a book has.                                             *)

CountInv == BodiesHaveHeaders /\ BodyWasOpened /\ BodiesArePaidFor

LEMMA AtMostOne ==
    ASSUME NEW S, \A f, g \in S : f = g
    PROVE  IsFiniteSet(S) /\ Cardinality(S) <= 1
<1>1. CASE S = {}
  BY <1>1, FS_EmptySet
<1>2. CASE S # {}
  <2>1. PICK f \in S : S = {f}
    BY <1>2
  <2>2. IsFiniteSet({f}) /\ Cardinality({f}) = 1
    BY FS_Singleton
  <2> QED BY <2>1, <2>2
<1> QED BY <1>1, <1>2

LEMMA InitCounts == Init => CountInv
<1> SUFFICES ASSUME Init PROVE CountInv
  OBVIOUS
<1>1. \A b \in Books : \A f \in FoldersFor(b) : At(f, b, "body") = Absent
  BY FoldersForTyped, SomeNames DEF Init, Lakes, FoldersFor, At
<1>2. BodiesHaveHeaders
  BY <1>1 DEF BodiesHaveHeaders
<1>3. \A b \in Books : BodyFolders(b) = {}
  BY <1>1 DEF BodyFolders
<1>4. faults = 0 /\ pc = "off"
  BY DEF Init
<1> QED BY <1>2, <1>3, <1>4, FS_EmptySet DEF CountInv, BodyWasOpened, BodiesArePaidFor

(* Steps that touch no file and neither begin nor end the work on a body.   *)
LEMMA CountStays ==
    ASSUME LakeInv, CountInv, UNCHANGED <<lake, file>>, faults' = faults,
           \A b \in Books : Earned(b) => Earned(b)',
           pc = "saving" => At(folder, book, "header") # Absent \/ ~InPlace \/ pc' = "saving",
           pc' = "saving" => UNCHANGED <<pc, book, folder, step>> \/ (pc # "saving" /\ step' = 1)
    PROVE  CountInv'
<1>1. \A b \in Books : FoldersFor(b)' = FoldersFor(b) /\ BodyFolders(b)' = BodyFolders(b)
  BY DEF FoldersFor, BodyFolders, At
<1>2. \A f, b, n : At(f, b, n)' = At(f, b, n)
  BY DEF At
<1>3. BodiesHaveHeaders'
  BY <1>1, <1>2 DEF CountInv, BodiesHaveHeaders, InPlace
<1>4. BodyWasOpened'
  BY <1>2 DEF CountInv, BodyWasOpened, InPlace
<1>5. BodiesArePaidFor'
  <2> SUFFICES ASSUME NEW b \in Books, InPlace, lake.crash = "process"
               PROVE  /\ IsFiniteSet(BodyFolders(b))
                      /\ Cardinality(BodyFolders(b)) <= faults + IF Earned(b)' THEN 1 ELSE 0
    BY <1>1 DEF BodiesArePaidFor, InPlace
  <2>1. /\ IsFiniteSet(BodyFolders(b))
        /\ Cardinality(BodyFolders(b)) <= faults + IF Earned(b) THEN 1 ELSE 0
    BY DEF CountInv, BodiesArePaidFor
  <2>2. Cardinality(BodyFolders(b)) \in Nat /\ faults \in Nat
    BY <2>1, FS_CardinalityType DEF LakeInv, TypeOK
  <2> QED BY <2>1, <2>2
<1> QED BY <1>3, <1>4, <1>5 DEF CountInv

(* A file of the save under way is opened or filled in its place.           *)
LEMMA WriteCounts ==
    ASSUME LakeInv, CountInv, InPlace, pc = "saving", step <= Operations, step' = step + 1,
           UNCHANGED <<lake, pc, todo, book, folder, text, faults>>,
           NEW n \in {"body", "header"}, NEW c \in {Torn, text}, Wrote(n, c),
           n = "body" <=> step <= 2
    PROVE  CountInv'
<1> USE SomeNames DEF FoldersFor, InPlace, At, HasPair
<1>1. /\ book \in Books /\ folder \in FoldersOf(lake.layout, book) /\ c \in Contents /\ c # Absent
      /\ step \in 1 .. 4 /\ faults \in Nat
  BY DEF LakeInv, TypeOK, Operations
<1>2. \A b \in Books : FoldersOf(lake.layout, b) \subseteq Folders
  BY FoldersForTyped DEF LakeInv, TypeOK, Lakes
<1>3. \A b \in Books : \A f \in FoldersOf(lake.layout, b) :
        /\ file'[<<f, b, "body">>] = IF b = book /\ f = folder /\ n = "body" THEN c ELSE file[<<f, b, "body">>]
        /\ file'[<<f, b, "header">>] = IF b = book /\ f = folder /\ n = "header" THEN c ELSE file[<<f, b, "header">>]
  BY <1>2 DEF Wrote
<1>4. BodiesHaveHeaders'
  BY <1>1, <1>3 DEF CountInv, BodiesHaveHeaders
<1>5. BodyWasOpened'
  <2>1. file'[<<folder, book, "body">>] = IF n = "body" THEN c ELSE file[<<folder, book, "body">>]
    BY <1>1, <1>3
  <2>2. n # "body" => file[<<folder, book, "body">>] # Absent
    BY <1>1 DEF CountInv, BodyWasOpened
  <2>3. file'[<<folder, book, "body">>] # Absent
    BY <1>1, <2>1, <2>2
  <2> QED BY <2>3 DEF BodyWasOpened
<1>6. BodiesArePaidFor'
  <2> SUFFICES ASSUME NEW b \in Books, lake.crash = "process"
               PROVE  /\ IsFiniteSet(BodyFolders(b)')
                      /\ Cardinality(BodyFolders(b)') <= faults + IF Earned(b)' THEN 1 ELSE 0
    BY DEF BodiesArePaidFor
  <2>1. /\ IsFiniteSet(BodyFolders(b))
        /\ Cardinality(BodyFolders(b)) <= faults + IF Earned(b) THEN 1 ELSE 0
    BY DEF CountInv, BodiesArePaidFor
  <2>2. Cardinality(BodyFolders(b)) \in Nat
    BY <2>1, FS_CardinalityType
  <2>3. CASE b # book
    <3>1. BodyFolders(b)' = BodyFolders(b)
      BY <1>3, <2>3 DEF BodyFolders
    <3>2. Earned(b)' <=> Earned(b)
      BY <1>3, <2>3 DEF Earned, Listed
    <3> QED BY <2>1, <3>1, <3>2
  <2>4. CASE b = book /\ step = 1
    <3>1. BodyFolders(b)' = BodyFolders(b) \cup {folder}
      <4>1. \A f \in FoldersOf(lake.layout, b) :
              file'[<<f, b, "body">>] # Absent <=> f = folder \/ file[<<f, b, "body">>] # Absent
        <5>1. n = "body" /\ c # Absent
          BY <1>1, <2>4
        <5>2. \A f \in FoldersOf(lake.layout, b) :
                file'[<<f, b, "body">>] = IF f = folder THEN c ELSE file[<<f, b, "body">>]
          BY <1>3, <2>4, <5>1
        <5> QED BY <5>1, <5>2
      <4> QED BY <1>1, <2>4, <4>1 DEF BodyFolders
    <3>2. file[<<folder, book, "header">>] = Absent
      BY <1>1, <2>4 DEF LakeInv, SaveUnderWay
    <3>3. ~Earned(b)
      <4>1. b \in todo
        BY <2>4 DEF LakeInv, TypeOK
      <4>2. \A f \in FoldersOf(lake.layout, b) : HasPair(f, b) => f = folder
        BY <4>1 DEF LakeInv, NothingMissingIsThere
      <4>3. b \notin Listed
        BY <2>4, <3>2, <4>2 DEF Listed
      <4> QED BY <2>4, <4>3 DEF Earned
    <3>4. Earned(b)'
      BY <1>1, <2>4 DEF Earned
    <3>5. IsFiniteSet(BodyFolders(b)') /\ Cardinality(BodyFolders(b)') <= Cardinality(BodyFolders(b)) + 1
      <4>1. /\ IsFiniteSet(BodyFolders(b) \cup {folder})
            /\ Cardinality(BodyFolders(b) \cup {folder}) <= Cardinality(BodyFolders(b)) + 1
        <5> DEFINE B == BodyFolders(b)
        <5>1. IsFiniteSet(B) /\ Cardinality(B) \in Nat
          BY <2>1, <2>2
        <5> HIDE DEF B
        <5>2. /\ IsFiniteSet(B \cup {folder})
              /\ Cardinality(B \cup {folder}) = IF folder \in B THEN Cardinality(B) ELSE Cardinality(B) + 1
          BY <5>1, FS_AddElement
        <5>3. IsFiniteSet(B \cup {folder}) /\ Cardinality(B \cup {folder}) <= Cardinality(B) + 1
          BY <5>1, <5>2
        <5> QED BY <5>3 DEF B
      <4> QED BY <3>1, <4>1
    <3>6. Cardinality(BodyFolders(b)') \in Nat
      BY <3>5, FS_CardinalityType
    <3> QED BY <1>1, <2>1, <2>2, <3>3, <3>4, <3>5, <3>6
  <2>5. CASE b = book /\ step # 1
    <3>1. file[<<folder, book, "body">>] # Absent
      BY <1>1, <2>5 DEF CountInv, BodyWasOpened
    <3>2. BodyFolders(b)' = BodyFolders(b)
      BY <1>1, <1>3, <2>5, <3>1 DEF BodyFolders
    <3>3. Earned(b) /\ Earned(b)'
      BY <1>1, <2>5 DEF Earned
    <3> QED BY <2>1, <3>2, <3>3
  <2> QED BY <2>3, <2>4, <2>5
<1> QED BY <1>4, <1>5, <1>6 DEF CountInv

(* A kill: each book may keep one body that its save did not complete.      *)
LEMMA KillCounts ==
    ASSUME LakeInv, CountInv, Kill
    PROVE  CountInv'
<1>1. UNCHANGED <<lake, file>> /\ pc' = "off" /\ faults' = faults + 1 /\ lake.crash = "process"
  BY DEF Kill, Fault, Forget
<1>2. \A b \in Books : BodyFolders(b)' = BodyFolders(b)
  BY <1>1 DEF BodyFolders, FoldersFor, At
<1>3. BodiesHaveHeaders' /\ BodyWasOpened'
  BY <1>1 DEF BodiesHaveHeaders, BodyWasOpened
<1>4. BodiesArePaidFor'
  <2> SUFFICES ASSUME NEW b \in Books, InPlace
               PROVE  /\ IsFiniteSet(BodyFolders(b))
                      /\ Cardinality(BodyFolders(b)) <= (faults + 1) + IF Earned(b)' THEN 1 ELSE 0
    BY <1>1, <1>2 DEF BodiesArePaidFor, InPlace
  <2>1. /\ IsFiniteSet(BodyFolders(b))
        /\ Cardinality(BodyFolders(b)) <= faults + IF Earned(b) THEN 1 ELSE 0
    BY <1>1 DEF CountInv, BodiesArePaidFor
  <2>2. Cardinality(BodyFolders(b)) \in Nat /\ faults \in Nat
    BY <2>1, FS_CardinalityType DEF LakeInv, TypeOK
  <2> QED BY <2>1, <2>2
<1> QED BY <1>3, <1>4 DEF CountInv

(* An imitated crash takes bodies away.                                     *)
LEMMA DamageCounts ==
    ASSUME LakeInv, CountInv, Damage
    PROVE  CountInv'
<1>1. PICK S \in SUBSET Books : Interrupt(S)
  BY DEF Damage
<1>2. lake' = lake /\ lake.crash = "renamed" /\ pc' = "off" /\ pc = "done"
  BY <1>1 DEF Interrupt, Fault
<1>3. \A b \in Books : FoldersFor(b) \subseteq Folders
  BY FoldersForTyped DEF LakeInv, TypeOK, Lakes, FoldersFor
<1>4. \A b \in Books : \A f \in FoldersFor(b) :
        /\ At(f, b, "body")' # Absent => At(f, b, "body") # Absent
        /\ At(f, b, "header")' = At(f, b, "header")
  BY <1>1, <1>3, InterruptCase DEF LakeInv, At
<1> QED BY <1>2, <1>4 DEF CountInv, BodiesHaveHeaders, BodyWasOpened, BodiesArePaidFor, FoldersFor, InPlace

LEMMA NextCounts == LakeInv /\ CountInv /\ [Next]_vars => CountInv'
<1> SUFFICES ASSUME LakeInv, CountInv, [Next]_vars PROVE CountInv'
  OBVIOUS
<1>1. CASE InPlace /\ (OpenFile \/ FillFile)
  <2>1. /\ pc = "saving" /\ step <= Operations /\ step' = step + 1
        /\ UNCHANGED <<lake, pc, todo, book, folder, text, faults>>
    BY <1>1 DEF OpenFile, FillFile, Operate
  <2>2. \E n \in {"body", "header"}, c \in {Torn, text} : Wrote(n, c) /\ (n = "body" <=> step <= 2)
    BY <1>1, OpenCases, FillCases DEF LakeInv
  <2> QED BY <1>1, <2>1, <2>2, WriteCounts
<1>2. CASE StartRecovery \/ BeginSave \/ Finish \/ Close \/ UNCHANGED vars
  <2>1. UNCHANGED <<lake, file, faults>>
    BY <1>2 DEF StartRecovery, BeginSave, SaveIn, Finish, Close, vars
  <2>2. /\ pc' = "saving" => UNCHANGED <<pc, book, folder, step>> \/ (pc # "saving" /\ step' = 1)
        /\ pc = "saving" => UNCHANGED <<pc, book, step>>
    BY <1>2 DEF StartRecovery, BeginSave, SaveIn, Finish, Close, Forget, vars, save
  <2>3. \A b \in Books : Earned(b) => Earned(b)'
    BY <2>1, <2>2 DEF Earned, Listed, HasPair, At, FoldersFor
  <2> QED BY <2>1, <2>2, <2>3, CountStays
<1>3. CASE EndSave
  <2>1. /\ UNCHANGED <<lake, file, faults>> /\ pc' = "loop" /\ pc = "saving" /\ step > Operations
    BY <1>3 DEF EndSave
  <2>2. /\ book \in Books /\ folder \in FoldersFor(book)
        /\ At(folder, book, "header") \in {text, Torn} /\ At(folder, book, "body") = text /\ text # Absent
    BY <2>1, SomeNames DEF LakeInv, TypeOK, SaveUnderWay, HeaderOf, Operations
  <2>3. \A b \in Books : b \in Listed => b \in Listed'
    BY <2>1 DEF Listed, HasPair, At, FoldersFor
  <2>4. book \in Listed
    BY <2>2, SomeNames DEF Listed, HasPair
  <2>5. \A b \in Books : Earned(b) => Earned(b)'
    BY <2>3, <2>4 DEF Earned
  <2> QED BY <2>1, <2>2, <2>5, SomeNames, CountStays
<1>4. CASE Kill
  BY <1>4, KillCounts
<1>5. CASE Damage
  BY <1>5, DamageCounts
<1>6. CASE WriteFails \/ (~InPlace /\ (OpenFile \/ FillFile)) \/ MoveFile
  <2>1. ~InPlace /\ lake' = lake
    BY <1>6, MoveCases DEF WriteFails, Fault, OpenFile, FillFile, MoveFile, Operate, LakeInv
  <2> QED BY <2>1 DEF CountInv, BodiesHaveHeaders, BodyWasOpened, BodiesArePaidFor, InPlace
<1>7. CASE HeaderVanishes
  <2>1. /\ UNCHANGED <<lake, file, faults, pc, book, folder>> /\ pc = "saving"
        /\ InPlace /\ step' = step + 1 /\ step \in Nat
    BY <1>7 DEF HeaderVanishes, Operate, LakeInv, TypeOK
  <2>2. step = 4
    BY <1>7, CurrentOperation DEF HeaderVanishes, Operate, LakeInv, Op
  <2>3. \A b \in Books : (Earned(b)' <=> Earned(b)) /\ BodyFolders(b)' = BodyFolders(b)
    BY <2>1, <2>2 DEF Earned, Listed, HasPair, At, FoldersFor, BodyFolders
  <2>4. BodiesHaveHeaders' /\ BodyWasOpened'
    BY <2>1, <2>2 DEF CountInv, BodiesHaveHeaders, BodyWasOpened, InPlace, FoldersFor, At
  <2>5. BodiesArePaidFor'
    BY <2>1, <2>3 DEF CountInv, BodiesArePaidFor, InPlace
  <2> QED BY <2>4, <2>5 DEF CountInv
<1> QED BY <1>1, <1>2, <1>3, <1>4, <1>5, <1>6, <1>7 DEF Next, Proceed

(* A recovery leaves each book at most one body, in every language, layout  *)
(* and hour; only where C++ processes are killed under the layout "time"    *)
(* may there be more, and then at most one for each kill.                   *)
THEOREM RecoveryIsFrugal == Spec => []RecoveryDuplicatesNothing
<1>1. LakeInv /\ CountInv => RecoveryDuplicatesNothing
  <2> SUFFICES ASSUME LakeInv, CountInv, NEW b \in Books
               PROVE  Cardinality(BodyFolders(b)) <=
                        1 + IF InPlace /\ lake.layout = "time" /\ lake.crash = "process" THEN faults ELSE 0
    BY DEF RecoveryDuplicatesNothing
  <2>f. faults \in Nat
    BY DEF LakeInv, TypeOK
  <2>1. CASE InPlace /\ lake.layout = "time" /\ lake.crash = "process"
    <3>1. /\ IsFiniteSet(BodyFolders(b))
          /\ Cardinality(BodyFolders(b)) <= faults + IF Earned(b) THEN 1 ELSE 0
      BY <2>1 DEF CountInv, BodiesArePaidFor
    <3>2. Cardinality(BodyFolders(b)) \in Nat
      BY <3>1, FS_CardinalityType
    <3> QED BY <2>f, <2>1, <3>1, <3>2
  <2>2. CASE lake.layout # "time"
    <3>1. lake.layout \in {"book", "range"}
      BY <2>2, DatalakeAssumption DEF LakeInv, TypeOK, Lakes, DatalakeAssumption
    <3>2. \A f, g \in BodyFolders(b) : f = g
      BY <3>1 DEF BodyFolders, FoldersFor, FoldersOf
    <3> QED BY <2>2, <3>2, AtMostOne
  <2>3. CASE InPlace => lake.crash = "renamed"
    <3>1. ASSUME NEW f \in BodyFolders(b), NEW g \in BodyFolders(b)
          PROVE  f = g
      <4>1. /\ f \in FoldersFor(b) /\ (HasPair(f, b) \/ (pc = "saving" /\ book = b /\ folder = f))
            /\ g \in FoldersFor(b) /\ (HasPair(g, b) \/ (pc = "saving" /\ book = b /\ folder = g))
        BY <2>3 DEF BodyFolders, HasPair, CountInv, BodiesHaveHeaders, LakeInv, HalfASave
      <4>2. CASE HasPair(f, b) /\ HasPair(g, b)
        BY <4>2 DEF BodyFolders, LakeInv, OnePair
      <4>3. CASE pc = "saving" /\ book = b
        <5>1. b \in todo
          BY <4>3 DEF LakeInv, TypeOK
        <5> QED BY <4>1, <5>1 DEF BodyFolders, LakeInv, NothingMissingIsThere
      <4> QED BY <4>1, <4>2, <4>3
    <3> QED BY <2>3, <3>1, AtMostOne
  <2>4. lake.crash \in {"process", "renamed"}
    BY DEF LakeInv, TypeOK, Lakes
  <2> QED BY <2>1, <2>2, <2>3, <2>4
<1> QED BY <1>1, LakeInvariant, InitSound, NextKeeps, InitCounts, NextCounts, PTL DEF Spec
=============================================================================
