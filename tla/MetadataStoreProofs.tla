------------------------ MODULE MetadataStoreProofs ------------------------
(***************************************************************************)
(* Proofs about MetadataStore, for any connections, languages, books, rows *)
(* and refused rows: the state is well typed, the table is what the calls  *)
(* returned (but for the doubtful rows), batches of C++ and Java are all   *)
(* or nothing, transactions left open have their reason, and an answer     *)
(* is read from one state of the table.  StoreInv is inductive.            *)
(***************************************************************************)
EXTENDS MetadataStore, TLAPS

LEMMA RowsFacts ==
    /\ NoRows \in Rows
    /\ \A b \in Books : NoRows[b] = None
    /\ \A r, s \in Rows : /\ Over(r, s) \in Rows
                          /\ \A b \in Books : Over(r, s)[b] = IF s[b] # None THEN s[b] ELSE r[b]
    /\ \A r \in Rows, b \in Books, v \in Values : [r EXCEPT ![b] = v] \in Rows
    /\ \A r \in Rows : PairsOf(r) \subseteq Books \X Values
    /\ \A r \in Rows, b \in Books : r[b] # None => <<b, r[b]>> \in PairsOf(r)
BY StoreAssumption DEF StoreAssumption, NoRows, Rows, Over, PairsOf, BooksOf

LEMMA Start == Init => StoreInv
<1> SUFFICES ASSUME Init PROVE StoreInv
  OBVIOUS
<1>1. TypeOK
  <2>1. <<>> \in Seq(Books)
    OBVIOUS
  <2>2. [c \in Connections |-> NoRows] \in [Connections -> Rows]
    BY RowsFacts
  <2>3. [c \in Connections |-> <<>>] \in [Connections -> Seq(Books)]
    BY <2>1
  <2> QED BY <2>2, <2>3, RowsFacts DEF Init, TypeOK
<1>2. Transactions /\ BatchUnderWay
  BY RowsFacts DEF Init, Transactions, BatchUnderWay
<1>3. OpenTransactionsAreExplained /\ TableIsWhatReturned
  BY DEF Init, OpenTransactionsAreExplained, TableIsWhatReturned
<1>4. AnswersAreOneSnapshot
  BY DEF Init, AnswersAreOneSnapshot, Readers
<1> QED BY <1>1, <1>2, <1>3, <1>4 DEF StoreInv

(***************************************************************************)
(* Types                                                                   *)
(***************************************************************************)
LEMMA TypesOfWrites ==
    ASSUME TypeOK, Transactions, NEW c \in Connections, Write(c) PROVE TypeOK'
<1>1. CASE \E b \in Books, v \in Values : InsertBook(c, b, v) \/ InsertBookInside(c, b, v)
  <2>1. PICK b \in Books, v \in Values : InsertBook(c, b, v) \/ InsertBookInside(c, b, v)
    BY <1>1
  <2>2. CASE InsertBook(c, b, v)
    BY <2>2, RowsFacts DEF TypeOK, InsertBook, locals, asking
  <2>3. CASE InsertBookInside(c, b, v)
    <3>1. [written[c] EXCEPT ![b] = v] \in Rows
      BY RowsFacts DEF TypeOK
    <3>2. written' \in [Connections -> Rows]
      BY <2>3, <3>1 DEF TypeOK, InsertBookInside
    <3>3. /\ expected' \in Rows
          /\ writer' \in Connections \cup {None}
      BY <2>3, RowsFacts DEF TypeOK, InsertBookInside
    <3>5. doubtful' \subseteq Books \X Values
      BY <2>3 DEF TypeOK, InsertBookInside
    <3>4. UNCHANGED <<lang, table, pending, place, tran, batch, left, query, answer>>
      BY <2>3 DEF InsertBookInside, asking
    <3> QED BY <3>2, <3>3, <3>4, <3>5 DEF TypeOK, BooksOf
  <2> QED BY <2>1, <2>2, <2>3
<1>2. CASE \E rows \in Rows : BeginBatch(c, rows)
  BY <1>2, RowsFacts DEF TypeOK, BeginBatch, Go, BooksOf, files, asking, told
<1>3. CASE \E b \in Books : InsertRow(c, b)
  <2> PICK b \in Books : InsertRow(c, b)
    BY <1>3
  <2>1. batch[c][b] \in Values
    BY DEF TypeOK, Rows, BooksOf, InsertRow
  <2> QED BY <2>1, RowsFacts DEF TypeOK, InsertRow, asking, told
<1>4. CASE RollBack(c) \/ KeepRows(c)
  <2>1. CASE RollBack(c)
    BY <2>1, RowsFacts DEF TypeOK, RollBack, Release, asking, told
  <2>2. CASE KeepRows(c)
    BY <2>2, RowsFacts DEF TypeOK, KeepRows, files, asking
  <2> QED BY <1>4, <2>1, <2>2
<1>5. CASE Commit(c) \/ CommitRollsBack(c)
  <2>1. CASE Commit(c)
    BY <2>1, RowsFacts DEF TypeOK, Transactions, Commit, Release, Go, asking
  <2>2. CASE CommitRollsBack(c)
    BY <2>2, RowsFacts DEF TypeOK, Transactions, CommitRollsBack, Release, Go, asking, told
  <2> QED BY <1>5, <2>1, <2>2
<1>6. CASE CommitWaits(c) \/ CommitThrows(c) \/ CommitRaises(c)
  <2>1. CASE CommitWaits(c)
    BY <2>1 DEF TypeOK, CommitWaits, locals, asking, told
  <2>2. CASE CommitThrows(c)
    BY <2>2, RowsFacts DEF TypeOK, Transactions, CommitThrows, Go, asking, told
  <2>3. CASE CommitRaises(c)
    BY <2>3, RowsFacts DEF TypeOK, Transactions, CommitRaises, Go, asking
  <2> QED BY <1>6, <2>1, <2>2, <2>3
<1>7. CASE Clear(c)
  BY <1>7, RowsFacts DEF TypeOK, Clear, locals, asking
<1> QED BY <1>1, <1>2, <1>3, <1>4, <1>5, <1>6, <1>7 DEF Write

LEMMA TypesOfTheRest ==
    ASSUME TypeOK, NEW c \in Connections, Open(c) \/ Close(c) \/ Read(c) PROVE TypeOK'
<1>1. CASE Open(c)
  BY <1>1 DEF TypeOK, Open, Go, files, asking, told
<1>2. CASE Close(c)
  BY <1>2, RowsFacts DEF TypeOK, Close, Release, BooksOf, told
<1>3. CASE \E q \in Queries : Ask(c, q)
  BY <1>3 DEF TypeOK, Ask, Go, files, told
<1>4. CASE ReadRow(c)
  <2>1. PICK b \in Books : answer' = [answer EXCEPT ![c] = Append(@, b)]
    BY <1>4 DEF ReadRow, Found
  <2>2. answer' \in [Connections -> Seq(Books)]
    BY <2>1 DEF TypeOK
  <2> QED BY <1>4, <2>2 DEF TypeOK, ReadRow, files, locals, told
<1>5. CASE EndQuery(c)
  BY <1>5 DEF TypeOK, EndQuery, Go, files, told
<1> QED BY <1>1, <1>2, <1>3, <1>4, <1>5 DEF Read

(***************************************************************************)
(* Transactions, and what a batch has written                              *)
(***************************************************************************)
Step(c) == Open(c) \/ Close(c) \/ Write(c) \/ Read(c)

LEMMA Released ==
    ASSUME TypeOK, NEW c \in Connections, Release(c)
    PROVE  /\ tran'[c] = "none" /\ written'[c] = NoRows
           /\ \A d \in Connections \ {c} : tran'[d] = tran[d] /\ written'[d] = written[d]
           /\ writer' # c /\ writer' \in {writer, None}
BY StoreAssumption DEF StoreAssumption, TypeOK, Release

LEMMA TransactionsStep ==
    ASSUME TypeOK, Transactions, NEW c \in Connections, Step(c) PROVE Transactions'
<1> USE DEF TypeOK, Transactions
<1>1. CASE Open(c) \/ Close(c)
  BY <1>1 DEF Open, Close, Release, Go, files, asking, told
<1>2. CASE Read(c)
  BY <1>2 DEF Read, Ask, ReadRow, EndQuery, Go, files, locals, told
<1>3. CASE \E b \in Books, v \in Values : InsertBook(c, b, v) \/ InsertBookInside(c, b, v)
  <2>1. PICK b \in Books, v \in Values : InsertBook(c, b, v) \/ InsertBookInside(c, b, v)
    BY <1>3
  <2>2. CASE InsertBook(c, b, v)
    BY <2>2 DEF InsertBook, locals, asking
  <2>3. CASE InsertBookInside(c, b, v)
    BY <2>3 DEF InsertBookInside, asking
  <2> QED BY <2>1, <2>2, <2>3
<1>4. CASE \E rows \in Rows : BeginBatch(c, rows)
  BY <1>4 DEF BeginBatch, Go, files, asking, told
<1>5. CASE \E b \in Books : InsertRow(c, b)
  BY <1>5 DEF InsertRow, asking, told
<1>6. CASE RollBack(c) \/ KeepRows(c)
  <2>1. CASE RollBack(c)
    BY <2>1 DEF RollBack, Release, files, asking, told
  <2>2. CASE KeepRows(c)
    BY <2>2 DEF KeepRows, files, asking, told
  <2> QED BY <1>6, <2>1, <2>2
<1>7. CASE Commit(c) \/ CommitRollsBack(c)
  BY <1>7 DEF Commit, CommitRollsBack, Release, Go, asking, told
<1>8. CASE CommitWaits(c) \/ CommitThrows(c) \/ CommitRaises(c)
  BY <1>8 DEF CommitWaits, CommitThrows, CommitRaises, Go, locals, asking, told
<1>9. CASE Clear(c)
  BY <1>9 DEF Clear, locals, asking
<1> QED BY <1>1, <1>2, <1>3, <1>4, <1>5, <1>6, <1>7, <1>8, <1>9 DEF Step, Write

\* What BatchUnderWay says of one connection and one book.
InBatch(d, b) ==
    /\ place[d] \in {"batch", "commit"} =>
          /\ batch[d][b] # None /\ b \notin left[d] => written[d][b] = batch[d][b]
          /\ lang[d] # "python" /\ (batch[d][b] = None \/ b \in left[d]) => written[d][b] = None
    /\ lang[d] = "python" =>
          \/ written[d][b] = None \/ <<b, written[d][b]>> \in doubtful
          \/ place[d] \in {"batch", "commit"} /\ b \notin left[d] /\ written[d][b] = batch[d][b]

LEMMA BatchStep ==
    ASSUME TypeOK, Transactions, BatchUnderWay, NEW c \in Connections, Step(c)
    PROVE  BatchUnderWay'
<1> SUFFICES ASSUME NEW d \in Connections, NEW b \in Books PROVE InBatch(d, b)'
  BY DEF BatchUnderWay, InBatch
<1>0. InBatch(d, b)
  BY DEF BatchUnderWay, InBatch
<1> USE <1>0 DEF TypeOK
<1>1. CASE Open(c) \/ Close(c)
  <2>1. CASE Open(c)
    BY <2>1 DEF InBatch, Open, Go, files, asking, told
  <2>2. CASE Close(c)
    <3>1. CASE d = c
      <4>1. written'[d][b] = None /\ place'[d] \in {"idle", "closed"}
        BY <2>2, <3>1, Released, RowsFacts DEF Close
      <4> QED BY <4>1 DEF InBatch
    <3>2. CASE d # c
      <4>1. /\ place'[d] = place[d] /\ batch'[d] = batch[d] /\ left'[d] = left[d]
            /\ written'[d] = written[d] /\ lang' = lang /\ doubtful' = doubtful
        BY <2>2, <3>2, Released DEF Close, told
      <4> QED BY <4>1 DEF InBatch
    <3> QED BY <3>1, <3>2
  <2> QED BY <1>1, <2>1, <2>2
<1>2. CASE Read(c)
  BY <1>2 DEF InBatch, Read, Ask, ReadRow, EndQuery, Go, files, locals, told
<1>3. CASE \E x \in Books, v \in Values : InsertBook(c, x, v) \/ InsertBookInside(c, x, v)
  <2>1. PICK x \in Books, v \in Values : InsertBook(c, x, v) \/ InsertBookInside(c, x, v)
    BY <1>3
  <2>2. CASE InsertBook(c, x, v)
    BY <2>2 DEF InBatch, InsertBook, locals, asking
  <2>3. CASE InsertBookInside(c, x, v)
    BY <2>3 DEF InBatch, InsertBookInside, asking
  <2> QED BY <2>1, <2>2, <2>3
<1>4. CASE \E rows \in Rows : BeginBatch(c, rows)
  <2> PICK rows \in Rows : BeginBatch(c, rows)
    BY <1>4
  <2>1. CASE d = c
    <3>1. b \in left'[c] <=> rows[b] # None
      BY DEF BeginBatch, BooksOf
    <3>2. lang[c] # "python" => written[c][b] = None
      BY RowsFacts DEF BeginBatch, Transactions
    <3> QED BY <2>1, <3>1, <3>2 DEF InBatch, BeginBatch, Go, files, asking, told
  <2>2. CASE d # c
    BY <2>2 DEF InBatch, BeginBatch, Go, files, asking, told
  <2> QED BY <2>1, <2>2
<1>5. CASE \E x \in Books : InsertRow(c, x)
  <2> PICK x \in Books : InsertRow(c, x)
    BY <1>5
  <2>1. CASE d = c
    <3>1. written'[c][b] = IF b = x THEN batch[c][x] ELSE written[c][b]
      BY DEF InsertRow, Rows
    <3>2. /\ batch'[c] = batch[c] /\ left'[c] = left[c] \ {x}
          /\ place[c] = "batch" /\ place'[c] \in {"batch", "commit"}
          /\ doubtful' = doubtful /\ lang' = lang
      BY DEF InsertRow, asking, told
    <3>3. x \in left[c] /\ batch[c][x] # None
      BY DEF InsertRow, BooksOf
    <3> QED BY <2>1, <3>1, <3>2, <3>3 DEF InBatch
  <2>2. CASE d # c
    BY <2>2 DEF InBatch, InsertRow, asking, told
  <2> QED BY <2>1, <2>2
<1>6. CASE RollBack(c) \/ KeepRows(c)
  <2>1. CASE RollBack(c)
    <3>1. CASE d = c
      <4>1. written'[d][b] = None /\ place'[d] \in {"idle", "closed"}
        BY <2>1, <3>1, Released, RowsFacts DEF RollBack
      <4> QED BY <4>1 DEF InBatch
    <3>2. CASE d # c
      <4>1. /\ place'[d] = place[d] /\ batch'[d] = batch[d] /\ left'[d] = left[d]
            /\ written'[d] = written[d] /\ lang' = lang /\ doubtful' = doubtful
        BY <2>1, <3>2, Released DEF RollBack, told
      <4> QED BY <4>1 DEF InBatch
    <3> QED BY <3>1, <3>2
  <2>2. CASE KeepRows(c)
    BY <2>2, RowsFacts DEF InBatch, KeepRows, files, asking
  <2> QED BY <1>6, <2>1, <2>2
<1>7. CASE Commit(c) \/ CommitRollsBack(c)
  <2>1. CASE Commit(c)
    BY <2>1, RowsFacts DEF InBatch, Commit, Release, Go, asking, told
  <2>2. CASE CommitRollsBack(c)
    BY <2>2, RowsFacts DEF InBatch, CommitRollsBack, Release, Go, asking, told
  <2> QED BY <1>7, <2>1, <2>2
<1>8. CASE CommitWaits(c) \/ CommitThrows(c) \/ CommitRaises(c)
  BY <1>8, RowsFacts DEF InBatch, CommitWaits, CommitThrows, CommitRaises, Go, locals, asking, told
<1>9. CASE Clear(c)
  BY <1>9 DEF InBatch, Clear, locals, asking
<1> QED BY <1>1, <1>2, <1>3, <1>4, <1>5, <1>6, <1>7, <1>8, <1>9 DEF Step, Write

LEMMA OpenTransactionsStep ==
    ASSUME TypeOK, Transactions, OpenTransactionsAreExplained, NEW c \in Connections, Step(c)
    PROVE  OpenTransactionsAreExplained'
<1> USE StoreAssumption DEF StoreAssumption, TypeOK, OpenTransactionsAreExplained
<1>1. CASE Open(c) \/ Close(c)
  <2>1. CASE Open(c)
    BY <2>1 DEF Transactions, Open, Go, files, asking, told
  <2>2. CASE Close(c)
    BY <2>2, Released DEF Close, told
  <2> QED BY <1>1, <2>1, <2>2
<1>2. CASE Read(c)
  BY <1>2 DEF Read, Ask, ReadRow, EndQuery, Go, files, locals, told
<1>3. CASE \E b \in Books, v \in Values : InsertBook(c, b, v) \/ InsertBookInside(c, b, v)
  BY <1>3 DEF InsertBook, InsertBookInside, locals, asking
<1>4. CASE \E rows \in Rows : BeginBatch(c, rows)
  BY <1>4 DEF BeginBatch, Go, files, asking, told
<1>5. CASE \E b \in Books : InsertRow(c, b)
  BY <1>5 DEF Transactions, InsertRow, asking, told
<1>6. CASE RollBack(c) \/ KeepRows(c)
  <2>1. CASE RollBack(c)
    BY <2>1, Released DEF RollBack, asking, told
  <2>2. CASE KeepRows(c)
    BY <2>2 DEF KeepRows, files, asking
  <2> QED BY <1>6, <2>1, <2>2
<1>7. CASE Commit(c) \/ CommitRollsBack(c)
  BY <1>7, Released DEF Commit, CommitRollsBack, Go, asking, told
<1>8. CASE CommitWaits(c) \/ CommitThrows(c) \/ CommitRaises(c)
  BY <1>8 DEF CommitWaits, CommitThrows, CommitRaises, Go, locals, asking, told
<1>9. CASE Clear(c)
  BY <1>9 DEF Clear, locals, asking
<1> QED BY <1>1, <1>2, <1>3, <1>4, <1>5, <1>6, <1>7, <1>8, <1>9 DEF Step, Write

(***************************************************************************)
(* What the callers were told, and what a query reads                      *)
(***************************************************************************)
\* What TableIsWhatReturned says of one book.
Told(b) == \/ table[b] = expected[b]
           \/ <<b, expected[b]>> \in doubtful
           \/ <<b, table[b]>> \in doubtful

\* A batch that is committed has gone in as it was, but for doubtful rows.
LEMMA CommittedBatch ==
    ASSUME TypeOK, Transactions, BatchUnderWay, NEW c \in Connections, Commit(c), NEW b \in Books
    PROVE  /\ lang[c] # "python" => written[c][b] = batch[c][b]
           /\ \/ written[c][b] = batch[c][b]
              \/ batch[c][b] = None /\ <<b, written[c][b]>> \in doubtful
<1>1. place[c] = "commit" /\ left[c] = {}
  BY DEF Commit, Go, Transactions
<1> QED BY <1>1 DEF BatchUnderWay

LEMMA TruthStep ==
    ASSUME TypeOK, Transactions, BatchUnderWay, TableIsWhatReturned, NEW c \in Connections, Step(c)
    PROVE  TableIsWhatReturned'
<1> SUFFICES ASSUME NEW b \in Books PROVE Told(b)'
  BY DEF TableIsWhatReturned, Told
<1>0. Told(b)
  BY DEF TableIsWhatReturned, Told
<1>1. CASE \E x \in Books, v \in Values : InsertBook(c, x, v) \/ InsertBookInside(c, x, v)
  <2>1. PICK x \in Books, v \in Values : InsertBook(c, x, v) \/ InsertBookInside(c, x, v)
    BY <1>1
  <2>2. CASE InsertBook(c, x, v)
    BY <1>0, <2>2 DEF TypeOK, Rows, Told, InsertBook
  <2>3. CASE InsertBookInside(c, x, v)
    BY <1>0, <2>3 DEF TypeOK, Rows, Told, InsertBookInside
  <2> QED BY <2>1, <2>2, <2>3
<1>2. CASE Commit(c)
  <2>1. /\ table'[b] = IF written[c][b] # None THEN written[c][b] ELSE table[b]
        /\ expected'[b] = IF batch[c][b] # None THEN batch[c][b] ELSE expected[b]
        /\ doubtful' = doubtful
    BY <1>2, RowsFacts DEF TypeOK, Commit
  <2> QED BY <1>0, <1>2, <2>1, CommittedBatch DEF Told
<1>3. CASE table' = table /\ expected' = expected /\ doubtful \subseteq doubtful'
  BY <1>0, <1>3 DEF Told
<1>4. CASE Clear(c)
  BY <1>4, RowsFacts DEF Told, Clear
<1>5. Commit(c) \/ (\E x \in Books, v \in Values : InsertBook(c, x, v) \/ InsertBookInside(c, x, v))
        \/ Clear(c)
        \/ (table' = table /\ expected' = expected /\ doubtful \subseteq doubtful')
  BY DEF Step, Open, Close, Write, BeginBatch, InsertRow, RollBack, KeepRows, CommitWaits,
         CommitThrows, CommitRollsBack, CommitRaises, Read, Ask, ReadRow, EndQuery, files, told
<1> QED BY <1>1, <1>2, <1>3, <1>5, <1>4

\* Under a query nothing it reads moves: who writes the table needs the
\* readers gone, and a connection that reads writes nothing.
LEMMA ReadersAreAlone ==
    ASSUME TypeOK, NEW c \in Connections, Step(c), NEW d \in Connections,
           place[d] = "reading", place'[d] = "reading"
    PROVE  /\ table' = table /\ written'[d] = written[d] /\ query'[d] = query[d]
           /\ d # c => answer'[d] = answer[d]
<1> USE DEF TypeOK
<1>1. CASE Open(c) \/ Close(c)
  <2>1. CASE Open(c)
    BY <2>1 DEF Open, Go, files, asking
  <2>2. CASE Close(c)
    BY <2>2, Released DEF Close
  <2> QED BY <1>1, <2>1, <2>2
<1>2. CASE Read(c)
  BY <1>2 DEF Read, Ask, ReadRow, EndQuery, Go, files, locals
<1>3. CASE \E b \in Books, v \in Values : InsertBook(c, b, v) \/ InsertBookInside(c, b, v)
  BY <1>3 DEF InsertBook, InsertBookInside, MayCommit, Readers, locals, asking
<1>4. CASE \E rows \in Rows : BeginBatch(c, rows)
  BY <1>4 DEF BeginBatch, Go, files, asking
<1>5. CASE \E b \in Books : InsertRow(c, b)
  BY <1>5 DEF InsertRow, asking
<1>6. CASE RollBack(c) \/ KeepRows(c)
  BY <1>6, Released DEF RollBack, KeepRows, RowCannotGoIn, files, asking
<1>7. CASE Commit(c) \/ CommitRollsBack(c)
  BY <1>7, Released DEF Commit, CommitRollsBack, MayCommit, Readers, Go, asking
<1>8. CASE CommitWaits(c) \/ CommitThrows(c) \/ CommitRaises(c)
  BY <1>8 DEF CommitWaits, CommitThrows, CommitRaises, Go, locals, asking
<1>9. CASE Clear(c)
  BY <1>9 DEF Clear, MayCommit, Readers, locals, asking
<1> QED BY <1>1, <1>2, <1>3, <1>4, <1>5, <1>6, <1>7, <1>8, <1>9 DEF Step, Write

\* What AnswersAreOneSnapshot says of one connection.
OneSnapshot(d) ==
    /\ \A i \in 1 .. Len(answer[d]) - 1 : answer[d][i] < answer[d][i + 1]
    /\ \A b \in Books : (\E i \in 1 .. Len(answer[d]) : answer[d][i] = b)
                          <=> Matches(query[d], b, Visible(d)) /\ ~After(d, b)

LEMMA NextRow ==
    ASSUME TypeOK, NEW c \in Connections, ReadRow(c), OneSnapshot(c) PROVE OneSnapshot(c)'
<1> DEFINE a == answer[c]
           M(x) == Matches(query[c], x, Visible(c))
<1>1. PICK b \in Found(c) : (\A o \in Found(c) : b <= o) /\ answer' = [answer EXCEPT ![c] = Append(@, b)]
  BY DEF ReadRow
<1>2. /\ b \in Books /\ M(b) /\ (a = <<>> \/ a[Len(a)] < b)
      /\ \A o \in Books : M(o) /\ (a = <<>> \/ a[Len(a)] < o) => b <= o
  BY <1>1 DEF Found, After
<1>3. a \in Seq(Books) /\ Books \subseteq Int
  BY StoreAssumption DEF StoreAssumption, TypeOK
<1>4. answer'[c] = Append(a, b)
  BY <1>1 DEF TypeOK
<1>5. \A x : M(x)' <=> M(x)
  BY DEF ReadRow, Matches, Visible, Over, files, locals
<1>6. /\ Len(Append(a, b)) = Len(a) + 1 /\ Append(a, b)[Len(a) + 1] = b
      /\ \A i \in 1 .. Len(a) : Append(a, b)[i] = a[i]
  BY <1>3
<1>7. \A i \in 1 .. Len(a) : a[i] < a[i + 1] \/ i = Len(a)
  BY <1>3 DEF OneSnapshot
<1>8. \A i \in 1 .. Len(a) : Append(a, b)[i] < Append(a, b)[i + 1]
  <2> SUFFICES ASSUME NEW i \in 1 .. Len(a) PROVE Append(a, b)[i] < Append(a, b)[i + 1]
    OBVIOUS
  <2>1. CASE i = Len(a)
    BY <1>2, <1>3, <1>6, <2>1
  <2>2. CASE i < Len(a)
    <3>1. Len(a) \in Nat /\ i \in Nat /\ i # Len(a) /\ i \in 1 .. Len(a) /\ i + 1 \in 1 .. Len(a)
      BY <1>3, <2>2
    <3>2. Append(a, b)[i] = a[i] /\ Append(a, b)[i + 1] = a[i + 1]
      BY <1>6, <3>1
    <3> HIDE DEF a
    <3>3. a[i] < a[i + 1]
      BY <1>7, <3>1
    <3> QED BY <3>2, <3>3
  <2>3. i < Len(a) \/ i = Len(a)
    BY <1>3
  <2> QED BY <2>1, <2>2, <2>3
<1>9. \A x \in Books : (\E i \in 1 .. Len(a) + 1 : Append(a, b)[i] = x) <=> M(x) /\ ~(b < x)
  <2> SUFFICES ASSUME NEW x \in Books
               PROVE  (\E i \in 1 .. Len(a) + 1 : Append(a, b)[i] = x) <=> M(x) /\ ~(b < x)
    OBVIOUS
  <2>1. (\E i \in 1 .. Len(a) : a[i] = x) <=> M(x) /\ ~(a = <<>> \/ a[Len(a)] < x)
    BY DEF OneSnapshot, After
  <2>2. (\E i \in 1 .. Len(a) + 1 : Append(a, b)[i] = x) <=> x = b \/ \E i \in 1 .. Len(a) : a[i] = x
    BY <1>3, <1>6
  <2>3. a # <<>> => a[Len(a)] \in Int
    <3>1. a # <<>> => Len(a) \in 1 .. Len(a)
      BY <1>3
    <3>2. \A i \in 1 .. Len(a) : a[i] \in Books
      BY <1>3
    <3> QED BY <1>3, <3>1, <3>2
  <2>4. b \in Int /\ x \in Int
    BY <1>2, <1>3
  <2>5. x = b \/ (\E i \in 1 .. Len(a) : a[i] = x) <=> M(x) /\ ~(b < x)
    BY <1>2, <2>1, <2>3, <2>4
  <2> QED BY <2>2, <2>5
<1>10. \A x \in Books : After(c, x)' <=> b < x
  BY <1>3, <1>4, <1>6 DEF After
<1> QED BY <1>4, <1>5, <1>6, <1>8, <1>9, <1>10 DEF OneSnapshot

LEMMA SnapshotStep ==
    ASSUME TypeOK, AnswersAreOneSnapshot, NEW c \in Connections, Step(c)
    PROVE  AnswersAreOneSnapshot'
<1> SUFFICES ASSUME NEW d \in Connections, place'[d] = "reading" PROVE OneSnapshot(d)'
  BY DEF AnswersAreOneSnapshot, OneSnapshot, Readers
<1>1. CASE place[d] = "reading" /\ ~ReadRow(c)
  <2>1. OneSnapshot(d)
    BY <1>1 DEF AnswersAreOneSnapshot, OneSnapshot, Readers
  <2>2. /\ table' = table /\ written'[d] = written[d] /\ query'[d] = query[d]
        /\ d # c => answer'[d] = answer[d]
    BY <1>1, ReadersAreAlone
  <2>3. answer'[d] = answer[d]
    BY <1>1, <2>2 DEF TypeOK, Step, Open, Close, Read, Ask, EndQuery, Go, Write, InsertBook, InsertBookInside, Clear,
         BeginBatch, InsertRow, RollBack, KeepRows, Commit, CommitWaits, CommitThrows, CommitRollsBack,
         CommitRaises, asking
  <2>4. (After(d, 0) => TRUE) /\ \A b : (After(d, b)' <=> After(d, b))
    BY <2>3 DEF After
  <2>5. \A b : Matches(query[d], b, Visible(d))' <=> Matches(query[d], b, Visible(d))
    BY <2>2 DEF Matches, Visible, Over
  <2> QED BY <2>1, <2>3, <2>4, <2>5 DEF OneSnapshot
<1>2. CASE place[d] = "reading" /\ ReadRow(c)
  <2>1. OneSnapshot(d)
    BY <1>2 DEF AnswersAreOneSnapshot, OneSnapshot, Readers
  <2>2. CASE d = c
    BY <1>2, <2>1, <2>2, NextRow
  <2>3. CASE d # c
    BY <1>2, <2>1, <2>3 DEF TypeOK, ReadRow, OneSnapshot, After, Matches, Visible, Over, files, locals
  <2> QED BY <2>2, <2>3
<1>3. CASE place[d] # "reading"
  <2>1. \E q \in Queries : Ask(c, q) /\ d = c
    BY <1>3 DEF TypeOK, Step, Open, Close, Read, Ask, ReadRow, EndQuery, Go, Write, InsertBook,
         InsertBookInside, Clear, BeginBatch, InsertRow, RollBack, KeepRows, Commit, CommitWaits, CommitThrows,
         CommitRollsBack, CommitRaises, locals
  <2>2. answer'[d] = <<>>
    BY <2>1 DEF TypeOK, Ask
  <2> QED BY <2>2 DEF OneSnapshot, After
<1> QED BY <1>1, <1>2, <1>3

LEMMA StoreStep == StoreInv /\ [Next]_vars => StoreInv'
<1> SUFFICES ASSUME StoreInv, [Next]_vars PROVE StoreInv'
  OBVIOUS
<1> USE DEF StoreInv
<1>1. CASE UNCHANGED vars
  BY <1>1 DEF vars, files, locals, asking, told, TypeOK, Transactions, BatchUnderWay,
       OpenTransactionsAreExplained, TableIsWhatReturned, AnswersAreOneSnapshot, Readers, After,
       Matches, Visible
<1>2. CASE \E c \in Connections : Step(c)
  <2> PICK c \in Connections : Step(c)
    BY <1>2
  <2>1. TypeOK'
    BY TypesOfWrites, TypesOfTheRest DEF Step
  <2> QED BY <2>1, TransactionsStep, BatchStep, OpenTransactionsStep, TruthStep, SnapshotStep
<1> QED BY <1>1, <1>2 DEF Next, Step

\* StoreInv holds always: the invariant the theorems below take their parts of.
THEOREM StoreInvariant == Spec => []StoreInv
<1> QED BY Start, StoreStep, PTL DEF Spec

\* The state is well typed.
THEOREM StoreTypeCorrect == Spec => []TypeOK
<1>1. StoreInv => TypeOK
  BY DEF StoreInv
<1> QED BY <1>1, StoreInvariant, PTL

\* Whatever fails and whoever else reads or writes, the table holds the rows
\* of the calls that returned, but for the doubtful ones.
THEOREM StoreTellsTheTruth == Spec => []TableIsWhatReturned
<1>1. StoreInv => TableIsWhatReturned
  BY DEF StoreInv
<1> QED BY <1>1, StoreInvariant, PTL

\* A transaction that is open between two calls has one of the two reasons,
\* and the write lock always belongs to a transaction.
THEOREM StoreExplainsOpenTransactions == Spec => []OpenTransactionsAreExplained
<1>1. StoreInv => OpenTransactionsAreExplained
  BY DEF StoreInv
<1> QED BY <1>1, StoreInvariant, PTL

\* The rows a query has read so far are those of one state of the table.
THEOREM StoreAnswersFromOneSnapshot == Spec => []AnswersAreOneSnapshot
<1>1. StoreInv => AnswersAreOneSnapshot
  BY DEF StoreInv
<1> QED BY <1>1, StoreInvariant, PTL

AllOrNothing ==
    \E c \in Connections :
       \/ lang[c] = "python"
       \/ place[c] = "commit" /\ table' = Over(table, batch[c])
       \/ place[c] = "idle" /\ (table' = NoRows \/ \E b \in Books, v \in Values :
                                                  table' = [table EXCEPT ![b] = v])

LEMMA TableStep == StoreInv /\ [Next]_vars => [table' # table => AllOrNothing]_vars
<1> SUFFICES ASSUME StoreInv, NEW c \in Connections, Step(c), table' # table PROVE AllOrNothing
  BY DEF Next, Step, vars
<1>1. Commit(c) \/ Clear(c) \/ \E b \in Books, v \in Values : InsertBook(c, b, v)
  BY DEF Step, Open, Close, Write, InsertBookInside, BeginBatch, InsertRow, RollBack, KeepRows,
         CommitWaits, CommitThrows, CommitRollsBack, CommitRaises, Read, Ask, ReadRow, EndQuery, files
<1>2. CASE Commit(c)
  <2>1. CASE lang[c] # "python"
    <3>1. \A b \in Books : written[c][b] = batch[c][b]
      BY <1>2, <2>1, CommittedBatch DEF StoreInv
    <3>2. Over(table, written[c]) = Over(table, batch[c])
      BY <3>1 DEF Over
    <3> QED BY <1>2, <3>2 DEF AllOrNothing, Commit, Go
  <2> QED BY <2>1 DEF AllOrNothing
<1>3. CASE \E b \in Books, v \in Values : InsertBook(c, b, v)
  BY <1>3 DEF AllOrNothing, InsertBook
<1>4. CASE Clear(c)
  BY <1>4 DEF AllOrNothing, Clear
<1> QED BY <1>1, <1>2, <1>3, <1>4

\* A batch of C++ or Java goes into the table with every row or with none.
THEOREM StoreBatches == Spec => BatchesAreAllOrNothing
<1>1. Spec => [][table' # table => AllOrNothing]_vars
  BY StoreInvariant, TableStep, PTL DEF Spec
<1> QED BY <1>1 DEF BatchesAreAllOrNothing, AllOrNothing
=============================================================================
