------------------------------ MODULE Datalake ------------------------------
(***************************************************************************)
(* The file datalakes of the three languages: how a book is saved, file    *)
(* operation by file operation, what locate and the listing answer, and    *)
(* the repair that the datalake_recovery benchmarks measure: list what is  *)
(* there and save again what is not.                                       *)
(*                                                                         *)
(* C++ writes body then header in place; Java and Python write each file   *)
(* beside its place and move it there, header first.  Processes really die *)
(* here (crash = "process") between any two operations; the benchmarks     *)
(* imitate that by renaming bodies of saved books (crash = "renamed").     *)
(* Where faults are real, a full disk may take a C++ header unnoticed: it  *)
(* is short enough to wait in the stream's buffer, and the stream is       *)
(* tested before that is written out.  A body is too long for the buffer.  *)
(***************************************************************************)
EXTENDS Integers, Sequences, FiniteSets

CONSTANTS
    Books,          \* the book ids
    Texts,          \* the versions of a book a source may hand out
    Languages,      \* some of "cpp", "java", "python"
    Layouts,        \* some of "book", "range", "time"
    RangeSize,      \* 1000 in the code: books per folder of "range"
    Hours,          \* the hours in which "time" may save a book
    MaxFaults,      \* bound: kills, failed writes, imitated crashes
    Absent, Torn,   \* no such file; a file opened, and not written to its end
    None            \* no book, no folder, no text

Lakes == [language : Languages, layout : Layouts, crash : {"process", "renamed"}]

\* Where a layout puts a book: one folder, or for "time" that of any hour.
FoldersOf(l, b) ==
    CASE l = "book"  -> {[layout |-> "book", at |-> b]}
      [] l = "range" -> {[layout |-> "range", at |-> b \div RangeSize]}
      [] l = "time"  -> {[layout |-> "time", at |-> h] : h \in Hours}

Folders == UNION {FoldersOf(l, b) : l \in Layouts, b \in Books}

Names == {"header", "body", "header.tmp", "body.tmp"}

Tmp(n) == IF n = "header" THEN "header.tmp" ELSE "body.tmp"

Contents == {Absent, Torn} \cup Texts

DatalakeAssumption ==
    /\ Books \subseteq Nat /\ IsFiniteSet(Books)
    /\ Languages \subseteq {"cpp", "java", "python"}
    /\ Layouts \subseteq {"book", "range", "time"}
    /\ RangeSize \in Nat \ {0} /\ Hours \subseteq Nat
    /\ MaxFaults \in Nat
    /\ Absent # Torn /\ {Absent, Torn, None} \cap Texts = {}
    /\ None \notin Books /\ None \notin Folders

ASSUME DatalakeAssumption

VARIABLES
    lake,       \* the language, the layout and the kind of crash
    file,       \* [Folders \X Books \X Names -> Contents]: the disk
    clock,      \* the latest hour a save was started in
    written,    \* C++, layout "time": the map from a book to its folder
    pc,         \* "off", "loop", "saving" or "done"
    todo,       \* the books the recovery has still to save
    book, folder, text, step,   \* the save under way: its next operation
    saved,      \* history: the text of the last save of a book that returned
    vanished,   \* history: the books whose header a full disk took, unnoticed
    faults      \* faults so far

save == <<book, folder, text, step>>
vars == <<lake, file, clock, written, pc, todo, save, saved, vanished, faults>>

InPlace == lake.language = "cpp"

FoldersFor(b) == FoldersOf(lake.layout, b)

-----------------------------------------------------------------------------
(* What is on the disk, as locate and the listing see it.                  *)

At(f, b, n) == file[<<f, b, n>>]

\* Mutant of HasPair: the header alone makes a book.
HasHeader(f, b) == At(f, b, "header") # Absent

\* Both files are there under their final names; a .tmp never counts.
HasPair(f, b) == At(f, b, "body") # Absent /\ At(f, b, "header") # Absent

Listed == {b \in Books : \E f \in FoldersFor(b) : HasPair(f, b)}

\* The folder with the pair; the newest one if there are several.
Newest(b) == CHOOSE f \in FoldersFor(b) :
    /\ HasPair(f, b)
    /\ \A g \in FoldersFor(b) : HasPair(g, b) => g.at <= f.at

\* C++ computes the folder from the id or, for "time", remembers it and
\* does not look at the disk; Java and Python look at the folders.
LocatedAt(b) ==
    IF InPlace /\ lake.layout = "time" THEN written[b]
    ELSE IF b \in Listed THEN Newest(b) ELSE None

\* Mutant of Missing: everything.
Everything == Books

Missing == Books \ Listed

\* The files count_files_with_suffix(dir, "body.txt") counts for a book.
BodyFolders(b) == {f \in FoldersFor(b) : At(f, b, "body") # Absent}

-----------------------------------------------------------------------------
(* One save: the operations on files of the language, in their order.      *)

Op(what, n) == [do |-> what, name |-> n]

InPlaceSave == <<Op("open", "body"), Op("fill", "body"), Op("open", "header"), Op("fill", "header")>>

\* Mutant of MovingSave: the body first, as C++ does.
MovingBodyFirst ==
    <<Op("open", "body.tmp"),   Op("fill", "body.tmp"),   Op("move", "body"),
      Op("open", "header.tmp"), Op("fill", "header.tmp"), Op("move", "header")>>

MovingSave ==
    <<Op("open", "header.tmp"), Op("fill", "header.tmp"), Op("move", "header"),
      Op("open", "body.tmp"),   Op("fill", "body.tmp"),   Op("move", "body")>>

SaveOperations == IF InPlace THEN InPlaceSave ELSE MovingSave

Operations == IF InPlace THEN 4 ELSE 6

Current == SaveOperations[step]

Init ==
    /\ lake \in Lakes
    /\ file = [x \in Folders \X Books \X Names |-> Absent]
    /\ clock \in Hours
    /\ written = [b \in Books |-> None]
    /\ pc = "off" /\ todo = {}
    /\ book = None /\ folder = None /\ text = None /\ step = 0
    /\ saved = [b \in Books |-> None] /\ vanished = {}
    /\ faults = 0

\* A process lists the datalake and works out what to save.
StartRecovery ==
    /\ pc = "off"
    /\ pc' = "loop" /\ todo' = Missing
    /\ UNCHANGED <<lake, file, clock, written, save, saved, vanished, faults>>

\* "time" takes the folder of the present hour, which no process turns back.
Place(f) == /\ lake.layout = "time" => f.at >= clock
            /\ clock' = IF lake.layout = "time" THEN f.at ELSE clock

SaveIn(b, t, f, first) ==
    /\ pc = "loop" /\ pc' = "saving"
    /\ book' = b /\ text' = t /\ folder' = f /\ step' = first
    /\ UNCHANGED <<lake, file, todo, saved, vanished, faults>>

Remember(b, f) == IF InPlace /\ lake.layout = "time" THEN [written EXCEPT ![b] = f] ELSE written

\* Mutant of BeginSave: a header that is there keeps its text.
BeginSaveKeepingHeader ==
    \E b \in todo, t \in Texts : \E f \in FoldersFor(b) :
        /\ Place(f)
        /\ SaveIn(b, t, f, IF ~InPlace /\ HasHeader(f, b) THEN 4 ELSE 1)
        /\ UNCHANGED written

\* Mutant of BeginSave: the range of the next book.
BeginSaveInNextRange ==
    \E b \in todo, t \in Texts : \E f \in FoldersFor(b + 1) \cap Folders :
        Place(f) /\ SaveIn(b, t, f, 1) /\ UNCHANGED written

\* Mutant of BeginSave: C++ remembers the folder before it writes to it.
BeginSaveRemembering ==
    \E b \in todo, t \in Texts : \E f \in FoldersFor(b) :
        Place(f) /\ SaveIn(b, t, f, 1) /\ written' = Remember(b, f)

\* A book is handed to save; the clock is read once, before the first file.
BeginSave ==
    \E b \in todo, t \in Texts : \E f \in FoldersFor(b) :
        Place(f) /\ SaveIn(b, t, f, 1) /\ UNCHANGED written

Operate(op) ==
    /\ pc = "saving" /\ step <= Operations /\ Current.do = op
    /\ step' = step + 1
    /\ UNCHANGED <<lake, clock, written, pc, todo, book, folder, text, saved, faults>>

OpenFile ==
    /\ Operate("open")
    /\ file' = [file EXCEPT ![<<folder, book, Current.name>>] = Torn]
    /\ UNCHANGED vanished

FillFile ==
    /\ Operate("fill")
    /\ file' = [file EXCEPT ![<<folder, book, Current.name>>] = text]
    /\ UNCHANGED vanished

\* write_text_file of C++ returns, and the header is not in its file, or only
\* a part of it.
HeaderVanishes ==
    /\ InPlace /\ lake.crash = "process"
    /\ Operate("fill") /\ Current.name = "header"
    /\ vanished' = vanished \cup {book}
    /\ UNCHANGED file

MoveFile ==
    /\ Operate("move")
    /\ UNCHANGED vanished
    /\ LET n == Current.name IN
       file' = [file EXCEPT ![<<folder, book, n>>] = At(folder, book, Tmp(n)),
                            ![<<folder, book, Tmp(n)>>] = Absent]

EndSave ==
    /\ pc = "saving" /\ step > Operations
    /\ pc' = "loop"
    /\ todo' = todo \ {book}
    /\ saved' = [saved EXCEPT ![book] = text]
    /\ written' = Remember(book, folder)
    /\ book' = None /\ folder' = None /\ text' = None /\ step' = 0
    /\ UNCHANGED <<lake, file, clock, vanished, faults>>

\* Every missing book was saved again.
Finish ==
    /\ pc = "loop" /\ todo = {}
    /\ pc' = "done"
    /\ UNCHANGED <<lake, file, clock, written, todo, save, saved, vanished, faults>>

Forget ==
    /\ pc' = "off" /\ todo' = {}
    /\ book' = None /\ folder' = None /\ text' = None /\ step' = 0
    /\ written' = [b \in Books |-> None]

\* The process ends after its work; the next one is a new instance.
Close ==
    /\ pc = "done"
    /\ Forget
    /\ UNCHANGED <<lake, file, clock, saved, vanished, faults>>

Fault(kind) ==
    /\ lake.crash = kind
    /\ faults < MaxFaults /\ faults' = faults + 1
    /\ UNCHANGED <<lake, clock, vanished>>

\* A process dies; or a C++ write fails in time for its exception.
Kill ==
    /\ pc \in {"loop", "saving"}
    /\ Fault("process") /\ Forget
    /\ UNCHANGED <<file, saved>>

\* Writing or moving fails: the .tmp is deleted and the exception ends the run.
\* (The file being opened or filled is the .tmp itself.)
WriteFails ==
    /\ pc = "saving" /\ step <= Operations /\ ~InPlace
    /\ Fault("process") /\ Forget
    /\ LET n == Current.name
           t == IF Current.do = "move" THEN Tmp(n) ELSE n IN
       file' = [file EXCEPT ![<<folder, book, t>>] = Absent]
    /\ UNCHANGED saved

\* interruptBeforeBodyMove: the bodies of some saved books become .tmp files.
Interrupt(S) ==
    /\ pc = "done"
    /\ Fault("renamed")
    /\ file' = [x \in DOMAIN file |->
           IF x[2] \in S /\ x[1] = LocatedAt(x[2])
             THEN CASE x[3] = "body"     -> Absent
                    [] x[3] = "body.tmp" -> At(x[1], x[2], "body")
                    [] OTHER             -> file[x]
             ELSE file[x]]
    /\ saved' = [b \in Books |-> IF b \in S THEN None ELSE saved[b]]
    /\ pc' = "off"
    /\ UNCHANGED <<written, todo, save>>

Damage == \E S \in SUBSET {b \in Books : LocatedAt(b) # None} : S # {} /\ Interrupt(S)

Proceed == BeginSave \/ OpenFile \/ FillFile \/ MoveFile \/ EndSave \/ Finish

Next ==
    \/ StartRecovery \/ Proceed \/ Close
    \/ Kill \/ WriteFails \/ HeaderVanishes \/ Damage

Spec == Init /\ [][Next]_vars

\* A process that runs executes its next statement; the recovery is run again.
FairSpec == Spec /\ WF_vars(StartRecovery) /\ WF_vars(Proceed)

-----------------------------------------------------------------------------
(* Properties.                                                             *)

\* Types of the variables; a book is saved to a folder of its layout.
TypeOK ==
    /\ lake \in Lakes
    /\ file \in [Folders \X Books \X Names -> Contents]
    /\ clock \in Hours
    /\ written \in [Books -> Folders \cup {None}]
    /\ pc \in {"off", "loop", "saving", "done"}
    /\ todo \in SUBSET Books
    /\ step \in Nat
    /\ saved \in [Books -> Texts \cup {None}]
    /\ vanished \in SUBSET Books
    /\ faults \in 0 .. MaxFaults
    /\ IF pc = "saving"
         THEN /\ book \in todo /\ folder \in FoldersFor(book) /\ text \in Texts
              /\ step \in 1 .. Operations + 1
         ELSE book = None /\ folder = None /\ text = None /\ step = 0

\* What the header of a book holds if its body holds text t.
HeaderOf(b, t) == IF InPlace /\ b \in vanished THEN Torn ELSE t

\* A book whose save returned has one pair of files, whole and both of that
\* save, through every later kill and recovery (AbstractFileDatalake.java:
\* 45-48, and write of the C++ datalakes): all but the C++ header that a full
\* disk took while write_text_file returned (file_io.cpp:22-26).
SavedBooksStayWhole ==
    \A b \in Books : saved[b] # None =>
        \E f \in FoldersFor(b) :
            /\ At(f, b, "header") = HeaderOf(b, saved[b]) /\ At(f, b, "body") = saved[b]
            /\ \A g \in FoldersFor(b) \ {f} : ~HasPair(g, b)

\* A listed pair is never made of two saves, although the first may have been
\* cut after one file and the second brought another text; its body is
\* whole.  Only a C++ header may be torn, and then it is listed all the same.
\* (After an imitated crash C++ writes a body beside a header: not here.)
PairsComeFromOneSave ==
    \A b \in Books : \A f \in FoldersFor(b) :
        (HasPair(f, b) /\ (InPlace => lake.crash = "process")) =>
            /\ At(f, b, "body") \in Texts
            /\ At(f, b, "header") \in {At(f, b, "body")} \cup IF InPlace THEN {Torn} ELSE {}

\* The benchmarks demand no duplicated body after a recovery ("recovery left
\* lost or duplicated books").  So it is with one body per book, except where
\* a C++ process died between body and header under the layout "time": each
\* such death may leave one body more.
RecoveryDuplicatesNothing ==
    \A b \in Books : Cardinality(BodyFolders(b)) <=
        1 + IF InPlace /\ lake.layout = "time" /\ lake.crash = "process" THEN faults ELSE 0

\* What locate answers is a whole book, of one save: in Java and Python
\* because files are moved into place, in C++ under "time" because the map
\* is filled after both files, although perhaps after a header that vanished.
\* No kill and no repeated save makes a located book less than that.  (C++
\* computes the other layouts' paths.)
LocatedBooksAreWhole ==
    \A b \in Books :
        (LocatedAt(b) # None /\ (InPlace => lake.layout = "time" /\ lake.crash = "process")) =>
            /\ At(LocatedAt(b), b, "body") \in Texts
            /\ At(LocatedAt(b), b, "header") = HeaderOf(b, At(LocatedAt(b), b, "body"))

\* However often it is interrupted, recovery brings every body to the disk.
EveryBodyIsSavedInTheEnd ==
    <>[](\A b \in Books : \E f \in FoldersFor(b) : At(f, b, "body") \in Texts)

-----------------------------------------------------------------------------
(* What SavedBooksStayWhole, PairsComeFromOneSave and LocatedBooksAreWhole *)
(* rest on; with TypeOK and PairsComeFromOneSave it is inductive.          *)

\* A book still to be saved has no pair but what its own save has written.
NothingMissingIsThere ==
    \A b \in todo :
        /\ saved[b] = None
        /\ \A f \in FoldersFor(b) : HasPair(f, b) => book = b /\ folder = f
        /\ b \in vanished => book = b /\ step = 5

\* A header vanishes from a pair, which is listed for ever after.
VanishedAreListed ==
    \A b \in vanished : InPlace /\ lake.crash = "process" /\ \E f \in FoldersFor(b) : HasPair(f, b)

OnePair == \A b \in Books : \A f, g \in FoldersFor(b) : HasPair(f, b) /\ HasPair(g, b) => f = g

SavedTextsAreThere ==
    \A b \in Books : saved[b] # None =>
        \E f \in FoldersFor(b) :
            At(f, b, "header") = HeaderOf(b, saved[b]) /\ At(f, b, "body") = saved[b]

\* The order of the operations: a file of one kind never comes alone.
HalfASave ==
    \A b \in Books : \A f \in FoldersFor(b) :
        /\ InPlace /\ lake.crash = "process" /\ At(f, b, "header") # Absent => At(f, b, "body") # Absent
        /\ ~InPlace /\ At(f, b, "body") # Absent => At(f, b, "header") # Absent

\* What the save under way has written so far.
SaveUnderWay ==
    pc = "saving" =>
        /\ InPlace /\ step >= 3 => At(folder, book, "body") = text
        /\ InPlace /\ step = 4 => At(folder, book, "header") = Torn
        /\ InPlace /\ step = 5 => At(folder, book, "header") = HeaderOf(book, text)
        /\ InPlace /\ lake.crash = "process" /\ step <= 3 => At(folder, book, "header") = Absent
        /\ ~InPlace /\ step = 3 => At(folder, book, "header.tmp") = text
        /\ ~InPlace /\ step >= 4 => At(folder, book, "header") = text
        /\ ~InPlace /\ step <= 6 => At(folder, book, "body") = Absent
        /\ ~InPlace /\ step = 6 => At(folder, book, "body.tmp") = text
        /\ ~InPlace /\ step = 7 => At(folder, book, "body") = text

RememberedBooksAreWhole ==
    \A b \in Books :
        /\ written[b] # None => InPlace /\ lake.layout = "time" /\ written[b] \in FoldersFor(b)
        /\ written[b] # None /\ lake.crash = "process" =>
             /\ b \notin todo
             /\ At(written[b], b, "body") \in Texts
             /\ At(written[b], b, "header") = HeaderOf(b, At(written[b], b, "body"))

LakeInv ==
    /\ TypeOK /\ PairsComeFromOneSave
    /\ NothingMissingIsThere /\ VanishedAreListed /\ OnePair /\ SavedTextsAreThere
    /\ HalfASave /\ SaveUnderWay /\ RememberedBooksAreWhole

-----------------------------------------------------------------------------
(* What RecoveryDuplicatesNothing rests on besides.                        *)

\* Without kills a C++ body is alone only while its own save is under way.
BodiesHaveHeaders ==
    InPlace /\ lake.crash = "renamed" =>
        \A b \in Books : \A f \in FoldersFor(b) :
            At(f, b, "body") # Absent =>
                \/ At(f, b, "header") # Absent
                \/ pc = "saving" /\ book = b /\ folder = f

\* From the first operation of a C++ save on, its body is there.
BodyWasOpened ==
    InPlace /\ pc = "saving" /\ step > 1 => At(folder, book, "body") # Absent

\* The one body of b that no kill has to account for.
Earned(b) == b \in Listed \/ (pc = "saving" /\ book = b /\ step > 1)

\* With kills, each body more than that was left by a kill of its own.
BodiesArePaidFor ==
    InPlace /\ lake.crash = "process" =>
        \A b \in Books :
            /\ IsFiniteSet(BodyFolders(b))
            /\ Cardinality(BodyFolders(b)) <= faults + IF Earned(b) THEN 1 ELSE 0
=============================================================================
