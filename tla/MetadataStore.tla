--------------------------- MODULE MetadataStore ---------------------------
(***************************************************************************)
(* The metadata database: connections of the C++ MetadataStore, of the     *)
(* Java SqliteMetadataRepository and of the Python MetadataRepository to   *)
(* one SQLite file.  In the programs these are a pipeline that inserts, a  *)
(* `search` that looks up titles meanwhile, and the benchmarks with their  *)
(* batches.                                                                *)
(*                                                                         *)
(* SQLite itself is external.  What the code gets from it is modelled: a   *)
(* transaction takes no lock before its first write; one connection writes *)
(* at a time; a COMMIT needs every reader gone, and once it was tried no   *)
(* new reader is let in; a connection that is closed loses what it had not *)
(* committed.  A call that meets a lock may fail.  The C++ one fails at    *)
(* once, the others after a timeout: only they wait with their COMMIT.     *)
(*                                                                         *)
(* "Expected" and "doubtful" belong to no program: they remember what the  *)
(* callers were told.                                                      *)
(***************************************************************************)
EXTENDS Integers, Sequences, FiniteSets

CONSTANTS
    Connections,
    Books,        \* book ids
    Values,       \* what a row says of its book, its title for instance
    None,         \* no row
    RefusedRows,  \* <<book, value>>: rows the table does not accept
    Mixes         \* which connection belongs to which language

ASSUME StoreAssumption ==
    /\ Books \subseteq Int
    /\ None \notin Values
    /\ None \notin Connections
    /\ Mixes \subseteq [Connections -> {"cpp", "java", "python"}]

VARIABLES
    lang,      \* the language of each connection
    table,     \* the rows that are committed
    writer,    \* the connection with the write lock, or None
    pending,   \* it tried to commit: no new reader is let in
    place,     \* what each connection is doing
    tran,      \* its transaction: none, open, or why it was left open
    written,   \* the rows its transaction has written
    batch,     \* the batch under way
    left,      \* the books of the batch that are still to be inserted
    query,     \* the query under way
    answer,    \* the books it has found so far
    expected,  \* the rows as the calls that returned left them
    doubtful   \* rows about which a caller was told the wrong thing

files == <<table, writer, pending>>
locals == <<place, tran, written, batch, left>>
asking == <<query, answer>>
told == <<expected, doubtful>>
vars == <<lang, files, locals, asking, told>>

Rows == [Books -> Values \cup {None}]
NoRows == [b \in Books |-> None]
Queries == {"id"} \X Books \cup {"value"} \X Values

\* INSERT OR REPLACE, ON CONFLICT DO UPDATE: a row replaces the older one.
Over(rows, new) == [b \in Books |-> IF new[b] # None THEN new[b] ELSE rows[b]]

BooksOf(rows) == {b \in Books : rows[b] # None}
PairsOf(rows) == {<<b, rows[b]>> : b \in BooksOf(rows)}

Readers == {c \in Connections : place[c] = "reading"}
MayWrite(c) == writer \in {c, None}
MayCommit(c) == MayWrite(c) /\ Readers \subseteq {c}
MayRead(c) == pending => writer = c

\* The connection has no transaction any more, and no lock.
Release(c) ==
    /\ tran' = [tran EXCEPT ![c] = "none"]
    /\ written' = [written EXCEPT ![c] = NoRows]
    /\ writer' = IF writer = c THEN None ELSE writer
    /\ pending' = (pending /\ writer # c)

Init ==
    /\ lang \in Mixes
    /\ table = NoRows /\ writer = None /\ pending = FALSE
    /\ place = [c \in Connections |-> "closed"]
    /\ tran = [c \in Connections |-> "none"]
    /\ written = [c \in Connections |-> NoRows]
    /\ batch = [c \in Connections |-> NoRows]
    /\ left = [c \in Connections |-> {}]
    /\ query = [c \in Connections |-> None]
    /\ answer = [c \in Connections |-> <<>>]
    /\ expected = NoRows /\ doubtful = {}

Go(c, from, to) == place[c] = from /\ place' = [place EXCEPT ![c] = to]

-----------------------------------------------------------------------------
(* Opening reads the schema, to create what is missing.                     *)
Open(c) ==
    /\ Go(c, "closed", "idle")
    /\ MayRead(c)
    /\ UNCHANGED <<lang, files, tran, written, batch, left, asking, told>>

\* The destructor, or the end of the process wherever it was.
Close(c) ==
    /\ place[c] # "closed"
    /\ place' = [place EXCEPT ![c] = "closed"]
    /\ Release(c)
    /\ batch' = [batch EXCEPT ![c] = NoRows]
    /\ left' = [left EXCEPT ![c] = {}]
    /\ query' = [query EXCEPT ![c] = None]
    /\ answer' = [answer EXCEPT ![c] = <<>>]
    /\ UNCHANGED <<lang, table, told>>

\* Mutant of InsertBook: INSERT OR IGNORE, the row that is there stays.
InsertNewBook(c, b, v) ==
    /\ place[c] = "idle" /\ lang[c] # "python"
    /\ tran[c] = "none"
    /\ MayCommit(c)
    /\ <<b, v>> \notin RefusedRows
    /\ table' = [table EXCEPT ![b] = IF @ = None THEN v ELSE @]
    /\ expected' = [expected EXCEPT ![b] = v]
    /\ UNCHANGED <<lang, writer, pending, locals, asking, doubtful>>

\* insert_book, save: one statement, its own transaction.  Where it cannot
\* have the locks, or the row is refused, it throws and nothing changes.
InsertBook(c, b, v) ==
    /\ place[c] = "idle" /\ lang[c] # "python"
    /\ tran[c] = "none"
    /\ MayCommit(c)
    /\ <<b, v>> \notin RefusedRows
    /\ table' = [table EXCEPT ![b] = v]
    /\ expected' = [expected EXCEPT ![b] = v]
    /\ UNCHANGED <<lang, writer, pending, locals, asking, doubtful>>

\* The same call while an earlier batch's transaction is open: it returns as
\* usual, and its row is in that transaction.
InsertBookInside(c, b, v) ==
    /\ place[c] = "idle" /\ lang[c] # "python"
    /\ tran[c] # "none"
    /\ MayWrite(c)
    /\ <<b, v>> \notin RefusedRows
    /\ written' = [written EXCEPT ![c][b] = v]
    /\ writer' = c
    /\ expected' = [expected EXCEPT ![b] = v]
    /\ doubtful' = doubtful \cup {<<b, v>>}
    /\ UNCHANGED <<lang, table, pending, place, tran, batch, left, asking>>

\* clear() of the Java repository: DELETE FROM books, its own transaction.
Clear(c) ==
    /\ place[c] = "idle" /\ lang[c] = "java"
    /\ tran[c] = "none"
    /\ MayCommit(c)
    /\ table' = NoRows /\ expected' = NoRows
    /\ UNCHANGED <<lang, writer, pending, locals, asking, doubtful>>

\* BEGIN.  In C++ and in Java a connection that is inside a transaction
\* throws here; Python goes on with the one it has.
BeginBatch(c, rows) ==
    /\ Go(c, "idle", "batch")
    /\ tran[c] = "none" \/ lang[c] = "python"
    /\ BooksOf(rows) # {}
    /\ tran' = [tran EXCEPT ![c] = "open"]
    /\ batch' = [batch EXCEPT ![c] = rows]
    /\ left' = [left EXCEPT ![c] = BooksOf(rows)]
    /\ UNCHANGED <<lang, files, written, asking, told>>

\* One step of the prepared statement; after the last row the COMMIT is next.
InsertRow(c, b) ==
    /\ place[c] = "batch" /\ b \in left[c]
    /\ MayWrite(c)
    /\ <<b, batch[c][b]>> \notin RefusedRows
    /\ written' = [written EXCEPT ![c][b] = batch[c][b]]
    /\ writer' = c
    /\ left' = [left EXCEPT ![c] = @ \ {b}]
    /\ place' = [place EXCEPT ![c] = IF left[c] = {b} THEN "commit" ELSE "batch"]
    /\ UNCHANGED <<lang, table, pending, tran, batch, asking, told>>

RowCannotGoIn(c) ==
    /\ place[c] = "batch"
    /\ \/ ~MayWrite(c)
       \/ \E b \in left[c] : <<b, batch[c][b]>> \in RefusedRows

\* Mutant of RollBack: what went in before the failing row is committed.
CommitWhatWentIn(c) ==
    /\ RowCannotGoIn(c) /\ lang[c] # "python"
    /\ MayCommit(c)
    /\ place' = [place EXCEPT ![c] = "idle"]
    /\ table' = Over(table, written[c])
    /\ Release(c)
    /\ batch' = [batch EXCEPT ![c] = NoRows]
    /\ left' = [left EXCEPT ![c] = {}]
    /\ UNCHANGED <<lang, asking, told>>

\* Mutant of RollBack: the rows still to be inserted are kept for the next batch.
RollBackKeepingLeft(c) ==
    /\ RowCannotGoIn(c) /\ lang[c] # "python"
    /\ place' = [place EXCEPT ![c] = "idle"]
    /\ Release(c)
    /\ batch' = [batch EXCEPT ![c] = NoRows]
    /\ UNCHANGED <<lang, table, left, asking, told>>

\* A row fails: insert_books and saveAll roll back and rethrow.
RollBack(c) ==
    /\ RowCannotGoIn(c) /\ lang[c] # "python"
    /\ place' = [place EXCEPT ![c] = "idle"]
    /\ Release(c)
    /\ batch' = [batch EXCEPT ![c] = NoRows]
    /\ left' = [left EXCEPT ![c] = {}]
    /\ UNCHANGED <<lang, table, asking, told>>

\* A row of executemany fails: the rows before it stay in the transaction.
KeepRows(c) ==
    /\ RowCannotGoIn(c) /\ lang[c] = "python"
    /\ place' = [place EXCEPT ![c] = "idle"]
    /\ tran' = [tran EXCEPT ![c] = "rowFailed"]
    /\ batch' = [batch EXCEPT ![c] = NoRows]
    /\ left' = [left EXCEPT ![c] = {}]
    /\ doubtful' = doubtful \cup PairsOf(written[c])
    /\ UNCHANGED <<lang, files, written, asking, expected>>

-----------------------------------------------------------------------------
\* COMMIT.
Commit(c) ==
    /\ Go(c, "commit", "idle")
    /\ MayCommit(c)
    /\ table' = Over(table, written[c])
    /\ expected' = Over(expected, batch[c])
    /\ Release(c)
    /\ batch' = [batch EXCEPT ![c] = NoRows]
    /\ UNCHANGED <<lang, left, asking, doubtful>>

\* A COMMIT that meets readers lets no new ones in.
CommitWaits(c) ==
    /\ place[c] = "commit" /\ lang[c] # "cpp"
    /\ ~MayCommit(c)
    /\ pending' = TRUE
    /\ UNCHANGED <<lang, table, writer, locals, asking, told>>

\* commit_transaction() is behind the try block: its error goes to the
\* caller, and the transaction stays open with its locks.
CommitThrows(c) ==
    /\ Go(c, "commit", "idle") /\ lang[c] = "cpp"
    /\ ~MayCommit(c)
    /\ pending' = TRUE
    /\ tran' = [tran EXCEPT ![c] = "commitRefused"]
    /\ batch' = [batch EXCEPT ![c] = NoRows]
    /\ UNCHANGED <<lang, table, writer, written, left, asking, told>>

\* Java's commit() is inside the try block.
CommitRollsBack(c) ==
    /\ Go(c, "commit", "idle") /\ lang[c] = "java"
    /\ ~MayCommit(c)
    /\ Release(c)
    /\ batch' = [batch EXCEPT ![c] = NoRows]
    /\ UNCHANGED <<lang, table, left, asking, told>>

\* Python's commit() raises, and the transaction stays open.
CommitRaises(c) ==
    /\ Go(c, "commit", "idle") /\ lang[c] = "python"
    /\ ~MayCommit(c)
    /\ pending' = TRUE
    /\ tran' = [tran EXCEPT ![c] = "commitRefused"]
    /\ batch' = [batch EXCEPT ![c] = NoRows]
    /\ doubtful' = doubtful \cup PairsOf(written[c])
    /\ UNCHANGED <<lang, table, writer, written, left, asking, expected>>

-----------------------------------------------------------------------------
Visible(c) == Over(table, written[c])

Matches(q, b, rows) ==
    /\ rows[b] # None
    /\ q = <<"id", b>> \/ q = <<"value", rows[b]>>

\* find_by_id, find_by_author, find_by_title: the first sqlite3_step.
Ask(c, q) ==
    /\ Go(c, "idle", "reading")
    /\ MayRead(c)
    /\ query' = [query EXCEPT ![c] = q]
    /\ answer' = [answer EXCEPT ![c] = <<>>]
    /\ UNCHANGED <<lang, files, tran, written, batch, left, told>>

After(c, b) == answer[c] = <<>> \/ answer[c][Len(answer[c])] < b

Found(c) == {b \in Books : Matches(query[c], b, Visible(c)) /\ After(c, b)}

\* Mutant of ReadRow: the rows come as the index has them, in any order.
ReadAnyRow(c) ==
    /\ place[c] = "reading"
    /\ \E b \in Books :
          /\ Matches(query[c], b, Visible(c))
          /\ \A i \in 1 .. Len(answer[c]) : answer[c][i] # b
          /\ answer' = [answer EXCEPT ![c] = Append(@, b)]
    /\ UNCHANGED <<lang, files, locals, query, told>>

\* read_row() for the row the statement is at, in the order of the ids.
ReadRow(c) ==
    /\ place[c] = "reading"
    /\ \E b \in Found(c) :
          /\ \A o \in Found(c) : b <= o
          /\ answer' = [answer EXCEPT ![c] = Append(@, b)]
    /\ UNCHANGED <<lang, files, locals, query, told>>

\* SQLITE_DONE, and the statement is finalized: the read lock is given back.
EndQuery(c) ==
    /\ Go(c, "reading", "idle")
    /\ Found(c) = {}
    /\ query' = [query EXCEPT ![c] = None]
    /\ answer' = [answer EXCEPT ![c] = <<>>]
    /\ UNCHANGED <<lang, files, tran, written, batch, left, told>>

-----------------------------------------------------------------------------
Write(c) ==
    \/ \E b \in Books, v \in Values : InsertBook(c, b, v) \/ InsertBookInside(c, b, v)
    \/ Clear(c)
    \/ \E rows \in Rows : BeginBatch(c, rows)
    \/ \E b \in Books : InsertRow(c, b)
    \/ RollBack(c) \/ KeepRows(c)
    \/ Commit(c) \/ CommitWaits(c)
    \/ CommitThrows(c) \/ CommitRollsBack(c) \/ CommitRaises(c)

Read(c) == (\E q \in Queries : Ask(c, q)) \/ ReadRow(c) \/ EndQuery(c)

Next == \E c \in Connections : Open(c) \/ Close(c) \/ Write(c) \/ Read(c)

Spec == Init /\ [][Next]_vars

-----------------------------------------------------------------------------
(* The typing of the state.                                                 *)
TypeOK ==
    /\ lang \in Mixes
    /\ table \in Rows /\ expected \in Rows
    /\ writer \in Connections \cup {None} /\ pending \in BOOLEAN
    /\ place \in [Connections -> {"closed", "idle", "batch", "commit", "reading"}]
    /\ tran \in [Connections -> {"none", "open", "commitRefused", "rowFailed"}]
    /\ written \in [Connections -> Rows] /\ batch \in [Connections -> Rows]
    /\ left \in [Connections -> SUBSET Books]
    /\ \A c \in Connections : left[c] \subseteq BooksOf(batch[c])
    /\ query \in [Connections -> Queries \cup {None}]
    /\ answer \in [Connections -> Seq(Books)]
    /\ doubtful \subseteq Books \X Values

(* The table holds, of every book, the row of the last call that returned,  *)
(* and no row of a call that threw (metadata_store.cpp:119-149): whoever    *)
(* else reads or writes, whatever fails, wherever a process ends.  But for  *)
(* two: a row that C++ inserted inside a transaction it had left open after *)
(* a refused COMMIT returned and is not there, and a row of a Python batch  *)
(* that raised may come with the next one.                                  *)
TableIsWhatReturned ==
    \A b \in Books : \/ table[b] = expected[b]
                     \/ <<b, expected[b]>> \in doubtful
                     \/ <<b, table[b]>> \in doubtful

(* metadata_store.hpp:42-46, MetadataRepository.java:14: of a batch of C++  *)
(* or Java the others see every row or none; but for batches, the table     *)
(* changes by one row, or it is emptied.                                    *)
BatchesAreAllOrNothing ==
    [][table' # table => \E c \in Connections :
          \/ lang[c] = "python"
          \/ place[c] = "commit" /\ table' = Over(table, batch[c])
          \/ place[c] = "idle" /\ (table' = NoRows \/ \E b \in Books, v \in Values :
                                                        table' = [table EXCEPT ![b] = v])]_vars

(* Between two calls a connection has no transaction open, so it keeps no   *)
(* one from writing; in C++ but after a COMMIT that was refused, in Python  *)
(* but after any failure.  Nobody has the lock for nothing.                 *)
OpenTransactionsAreExplained ==
    /\ \A c \in Connections : place[c] \in {"idle", "reading"} /\ tran[c] # "none" =>
          \/ lang[c] = "cpp" /\ tran[c] = "commitRefused"
          \/ lang[c] = "python" /\ tran[c] # "open"
    /\ writer # None => tran[writer] # "none"

(* While the rows of a query are read, one call of sqlite3_step after the   *)
(* other, they are those of one state of the table, in ascending order,     *)
(* none of them skipped, whoever writes meanwhile.                          *)
AnswersAreOneSnapshot ==
    \A c \in Readers :
        /\ \A i \in 1 .. Len(answer[c]) - 1 : answer[c][i] < answer[c][i + 1]
        /\ \A b \in Books : (\E i \in 1 .. Len(answer[c]) : answer[c][i] = b)
                              <=> Matches(query[c], b, Visible(c)) /\ ~After(c, b)

-----------------------------------------------------------------------------
(* What the steps may assume, in the order in which they come to need it.   *)
Transactions ==
    \A c \in Connections :
        /\ tran[c] = "none" => written[c] = NoRows
        /\ place[c] \in {"batch", "commit"} => tran[c] = "open"
        /\ place[c] = "closed" => tran[c] = "none"
        /\ place[c] = "commit" => left[c] = {}

\* The transaction of a batch holds what went in of it; in Python also what
\* earlier batches left there, all of it doubtful.
BatchUnderWay ==
    \A c \in Connections : \A b \in Books :
        /\ place[c] \in {"batch", "commit"} =>
              /\ batch[c][b] # None /\ b \notin left[c] => written[c][b] = batch[c][b]
              /\ lang[c] # "python" /\ (batch[c][b] = None \/ b \in left[c]) => written[c][b] = None
        /\ lang[c] = "python" =>
              \/ written[c][b] = None \/ <<b, written[c][b]>> \in doubtful
              \/ place[c] \in {"batch", "commit"} /\ b \notin left[c] /\ written[c][b] = batch[c][b]

StoreInv ==
    /\ TypeOK /\ Transactions /\ BatchUnderWay
    /\ OpenTransactionsAreExplained /\ TableIsWhatReturned /\ AnswersAreOneSnapshot
=============================================================================
