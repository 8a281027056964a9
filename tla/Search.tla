------------------------------- MODULE Search -------------------------------
(***************************************************************************)
(* `search <query>` in the three languages, in a process of its own beside *)
(* pipeline runs that write the same index structure.  The JSON file and   *)
(* the term files belong to the data folder of one language; the MongoDB   *)
(* collection search_engine.inverted_index is shared by the three.         *)
(*                                                                         *)
(* A posting list is a sequence of ids, because not every writer keeps it  *)
(* sorted and not every reader sorts it; a term without file, key or       *)
(* document has the empty list.  Of the pipelines only what touches the    *)
(* structure is here: their runs are Pipeline, JavaPipeline and            *)
(* PythonPipeline.                                                         *)
(***************************************************************************)
EXTENDS Integers, Sequences, FiniteSets, Functions

CONSTANTS
    Books,      \* the book ids
    Terms,      \* the terms of all books
    TermsOf,    \* [Books -> SUBSET Terms]: the distinct tokens of a body
    Settings,   \* [structure, writers]: which structure, and who writes it
    Queries,    \* the sets of terms that are searched
    MaxFaults,  \* bound: runs killed and flushes that failed
    None        \* no book, no term

Languages == {"cpp", "java", "python"}

Lists == UNION {[1 .. n -> Books] : n \in 0 .. Cardinality(Books)}

EmptyIndex == [t \in Terms |-> <<>>]

NothingPending == [t \in Terms |-> {}]

Idle == [pc |-> "off", book |-> None, todo |-> {}, term |-> None]

SearchAssumption ==
    /\ Books \subseteq Nat /\ IsFiniteSet(Books) /\ IsFiniteSet(Terms)
    /\ TermsOf \in [Books -> SUBSET Terms]
    /\ Queries \subseteq (SUBSET Terms) \ {{}}
    /\ MaxFaults \in Nat
    /\ None \notin Books /\ None \notin Terms
    /\ Settings # {}
    /\ Settings \subseteq [structure : {"monolithic", "hierarchical", "mongo"},
                           writers : (SUBSET Languages) \ {{}}]
    /\ \A s \in Settings : s.structure # "mongo" => Cardinality(s.writers) = 1

ASSUME SearchAssumption

VARIABLES
    setting,    \* the structure under consideration and its writers
    store,      \* its posting lists
    hollow,     \* the term files that were truncated and not yet written
    readable,   \* FALSE: the JSON file was truncated and not yet written
    job,        \* per language: where its run is, book, terms to write
    pending,    \* per language: the postings added and not flushed
    rows,       \* per language: the books with a metadata row
    marked,     \* per language: the books marked indexed after being written here
    faults,     \* faults so far
    phase,      \* of the search: "idle", "reading", "choosing", "merging",
                \* "answered", "failed"
    reader,     \* its language
    opened,     \* "monolithic": the JSON as it was when it was opened
    query,      \* the terms searched
    unread,     \* those whose list has not been read
    lists,      \* the lists read
    left,       \* the terms whose list has not been intersected
    result,     \* the intersection so far
    current,    \* the term whose list is being intersected with it
    i, j, out,  \* the two pointers and the ids found in both lists
    titles,     \* the ids found whose row was found too
    served      \* history: matching books marked when the search began

stored  == <<store, hollow, readable>>
writing == <<setting, stored, job, pending, rows, marked, faults>>
pointers == <<i, j, out>>
search  == <<phase, reader, opened, query, unread, lists, left, result, current,
             pointers, titles, served>>
vars    == <<writing, search>>

PerTerm == setting.structure # "monolithic"
Hierarchical == setting.structure = "hierarchical"
Mongo == setting.structure = "mongo"

-----------------------------------------------------------------------------
(* Posting lists.                                                           *)

Ascending(l) == \A m, n \in DOMAIN l : m < n => l[m] < l[n]

\* The sorted list of the ids in S.
IsListOf(l, S) == Ascending(l) /\ Range(l) = S

\* C++ writes a list whole, from the index of its run: the books it marked and
\* the one under way.
OwnBooks(L) == marked[L] \cup ({job[L].book} \ {None})

OwnPostings(L, t) == {b \in OwnBooks(L) : t \in TermsOf[b]}

OwnTerms(L) == {t \in Terms : OwnPostings(L, t) # {}}

\* A truncated file is there too.
StoredTerms == {t \in Terms : store[t] # <<>>} \cup hollow

\* ix is the image of the index of L.
IsImage(ix, L) == \A t \in Terms : IsListOf(ix[t], OwnPostings(L, t))

MovesTo(L, pc) == job' = [job EXCEPT ![L].pc = pc]

Wrote(L, t, pc) ==
    job' = [job EXCEPT ![L] = [@ EXCEPT !.pc = pc, !.todo = job[L].todo \ {t}, !.term = None]]

WriterStays == UNCHANGED <<setting, pending, rows, marked, faults>>

-----------------------------------------------------------------------------
Init ==
    /\ setting \in Settings
    /\ store = EmptyIndex /\ hollow = {} /\ readable = TRUE
    /\ job = [L \in Languages |-> Idle]
    /\ pending = [L \in Languages |-> NothingPending]
    /\ rows = [L \in Languages |-> {}] /\ marked = [L \in Languages |-> {}]
    /\ faults = 0
    /\ phase = "idle" /\ reader = "java" /\ opened = EmptyIndex
    /\ query = {} /\ unread = {} /\ lists = EmptyIndex /\ left = {}
    /\ result = <<>> /\ current = None /\ i = 1 /\ j = 1 /\ out = <<>>
    /\ titles = {} /\ served = {}

-----------------------------------------------------------------------------
(* A run of the C++ pipeline: the check, then write() if it fails.  (A      *)
(* structure that does not exist holds no terms; creating it empty changes  *)
(* no posting list.)                                                        *)

CppTrusts ==
    /\ job["cpp"].pc = "off" /\ readable
    /\ Cardinality(StoredTerms) = Cardinality(OwnTerms("cpp"))
    /\ MovesTo("cpp", "ready")
    /\ WriterStays /\ UNCHANGED stored

CppRewrites ==
    /\ job["cpp"].pc = "off" /\ readable
    /\ Cardinality(StoredTerms) # Cardinality(OwnTerms("cpp"))
    /\ job' = [job EXCEPT !["cpp"] = [@ EXCEPT !.pc = "clear", !.todo = StoredTerms]]
    /\ WriterStays /\ UNCHANGED stored

\* remove_all and delete_many take one file or document after the other; one
\* that another language creates meanwhile may be taken or not.
ClearTerm ==
    /\ job["cpp"].pc = "clear" /\ PerTerm
    /\ \E t \in StoredTerms :
          /\ store' = [store EXCEPT ![t] = <<>>]
          /\ hollow' = hollow \ {t}
          /\ Wrote("cpp", t, "clear")
    /\ WriterStays /\ UNCHANGED readable

Cleared ==
    /\ job["cpp"].pc = "clear" /\ PerTerm
    /\ job["cpp"].todo = {}
    /\ job' = [job EXCEPT !["cpp"] = [@ EXCEPT !.pc = "fill", !.todo = OwnTerms("cpp")]]
    /\ WriterStays /\ UNCHANGED stored

InsertDocument ==
    /\ job["cpp"].pc = "fill" /\ Mongo
    /\ \E t \in job["cpp"].todo, l \in Lists :
          /\ store[t] = <<>>
          /\ IsListOf(l, OwnPostings("cpp", t))
          /\ store' = [store EXCEPT ![t] = l]
          /\ Wrote("cpp", t, "fill")
    /\ WriterStays /\ UNCHANGED <<hollow, readable>>

\* The unique index refuses a term that another language created meanwhile:
\* insert_many throws, and the run ends.
InsertFails ==
    /\ job["cpp"].pc = "fill" /\ Mongo
    /\ \E t \in job["cpp"].todo : store[t] # <<>>
    /\ job' = [job EXCEPT !["cpp"] = Idle]
    /\ WriterStays /\ UNCHANGED stored

Filled ==
    /\ job["cpp"].pc = "fill" /\ PerTerm
    /\ job["cpp"].todo = {}
    /\ MovesTo("cpp", "ready")
    /\ WriterStays /\ UNCHANGED stored

\* The JSON file is truncated, by write() or by update_terms(), and written.
OpenJson ==
    /\ ~PerTerm
    /\ \/ job["cpp"].pc = "clear" /\ MovesTo("cpp", "fill")
       \/ job["cpp"].pc = "add" /\ MovesTo("cpp", "open")
    /\ readable' = FALSE
    /\ WriterStays /\ UNCHANGED <<store, hollow>>

FillJson ==
    /\ ~PerTerm
    /\ \/ job["cpp"].pc = "fill" /\ MovesTo("cpp", "ready")
       \/ job["cpp"].pc = "open" /\ MovesTo("cpp", "mark")
    /\ \E ix \in [Terms -> Lists] : IsImage(ix, "cpp") /\ store' = ix
    /\ readable' = TRUE
    /\ WriterStays /\ UNCHANGED hollow

-----------------------------------------------------------------------------
(* A book is indexed, by a run of any language.                             *)

\* Java and Python only load what is there.
Open(L) ==
    /\ L # "cpp" /\ job[L].pc = "off"
    /\ MovesTo(L, "ready")
    /\ WriterStays /\ UNCHANGED stored

\* The order of the books is that of book_ids.txt, less those that could not
\* be had at the time: any order.  The row is there before the postings.
Begin(L) ==
    /\ job[L].pc = "ready"
    /\ \E b \in Books \ marked[L] :
          /\ rows' = [rows EXCEPT ![L] = @ \cup {b}]
          /\ pending' = [pending EXCEPT ![L] =
                [t \in Terms |-> IF L # "cpp" /\ t \in TermsOf[b] THEN @[t] \cup {b} ELSE @[t]]]
          /\ job' = [job EXCEPT ![L] =
                [pc |-> "add", book |-> b, term |-> None,
                 todo |-> TermsOf[b] \cup {t \in Terms : pending[L][t] # {}}]]
    /\ UNCHANGED <<setting, stored, marked, faults>>

\* write() and update_terms() open, hence truncate, a term file, and fill it.
OpenTermFile ==
    /\ job["cpp"].pc \in {"fill", "add"} /\ Hierarchical
    /\ job["cpp"].term = None
    /\ \E t \in job["cpp"].todo :
          /\ store' = [store EXCEPT ![t] = <<>>]
          /\ hollow' = hollow \cup {t}
          /\ job' = [job EXCEPT !["cpp"].term = t]
    /\ WriterStays /\ UNCHANGED readable

FillTermFile ==
    /\ job["cpp"].term # None
    /\ LET t == job["cpp"].term
       IN  /\ \E l \in Lists : /\ IsListOf(l, OwnPostings("cpp", t))
                               /\ store' = [store EXCEPT ![t] = l]
           /\ hollow' = hollow \ {t}
           /\ Wrote("cpp", t, job["cpp"].pc)
    /\ WriterStays /\ UNCHANGED readable

\* $set of the whole list of a term.
SetDocument ==
    /\ job["cpp"].pc = "add" /\ Mongo
    /\ \E t \in job["cpp"].todo, l \in Lists :
          /\ IsListOf(l, OwnPostings("cpp", t))
          /\ store' = [store EXCEPT ![t] = l]
          /\ Wrote("cpp", t, "add")
    /\ WriterStays /\ UNCHANGED <<hollow, readable>>

\* The term file is read, merged and moved into place.
MergeTermFile(L) ==
    /\ L # "cpp" /\ job[L].pc = "add" /\ Hierarchical
    /\ \E t \in job[L].todo, l \in Lists :
          /\ IsListOf(l, Range(store[t]) \cup pending[L][t])
          /\ store' = [store EXCEPT ![t] = l]
          /\ Wrote(L, t, "add")
    /\ WriterStays /\ UNCHANGED <<hollow, readable>>

\* A bug: $set of what is pending.
SetPending(L) ==
    /\ L # "cpp" /\ job[L].pc = "add" /\ Mongo
    /\ \E t \in job[L].todo, new \in Lists :
          /\ IsListOf(new, pending[L][t])
          /\ store' = [store EXCEPT ![t] = new]
          /\ Wrote(L, t, "add")
    /\ WriterStays /\ UNCHANGED <<hollow, readable>>

\* $addToSet with $each: what is not there is appended.
AddToSet(L) ==
    /\ L # "cpp" /\ job[L].pc = "add" /\ Mongo
    /\ \E t \in job[L].todo, new \in Lists :
          /\ IsListOf(new, pending[L][t] \ Range(store[t]))
          /\ store' = [store EXCEPT ![t] = @ \o new]
          /\ Wrote(L, t, "add")
    /\ WriterStays /\ UNCHANGED <<hollow, readable>>

\* The map, which holds what was loaded and what was added, replaces the file.
ReplaceJson(L) ==
    /\ L # "cpp" /\ job[L].pc = "add" /\ ~PerTerm
    /\ \E ix \in [Terms -> Lists] :
          /\ \A t \in Terms : IsListOf(ix[t], Range(store[t]) \cup pending[L][t])
          /\ store' = ix
    /\ MovesTo(L, "mark")
    /\ WriterStays /\ UNCHANGED <<hollow, readable>>

AllWritten(L) ==
    /\ job[L].pc = "add" /\ PerTerm
    /\ job[L].todo = {}
    /\ MovesTo(L, "mark")
    /\ WriterStays /\ UNCHANGED stored

\* flush() ends by emptying what was pending; then the book is marked.
Mark(L) ==
    /\ job[L].pc = "mark"
    /\ marked' = [marked EXCEPT ![L] = @ \cup {job[L].book}]
    /\ pending' = [pending EXCEPT ![L] = NothingPending]
    /\ job' = [job EXCEPT ![L] = [Idle EXCEPT !.pc = "ready"]]
    /\ UNCHANGED <<setting, stored, rows, faults>>

\* In Java a flush that throws leaves its postings pending, to go out with those
\* of the next book, and the run goes on.
FlushFails ==
    /\ job["java"].pc = "add"
    /\ faults < MaxFaults /\ faults' = faults + 1
    /\ job' = [job EXCEPT !["java"] = [Idle EXCEPT !.pc = "ready"]]
    /\ UNCHANGED <<setting, stored, pending, rows, marked>>

\* The end of a run, or its death.
Leave(L) ==
    /\ job[L].pc # "off"
    /\ \/ job[L].pc = "ready" /\ UNCHANGED faults
       \/ faults < MaxFaults /\ faults' = faults + 1
    /\ job' = [job EXCEPT ![L] = Idle]
    /\ pending' = [pending EXCEPT ![L] = NothingPending]
    /\ UNCHANGED <<setting, stored, rows, marked>>

CppStep ==
    \/ CppTrusts \/ CppRewrites \/ ClearTerm \/ Cleared \/ InsertDocument \/ InsertFails \/ Filled
    \/ OpenJson \/ FillJson \/ OpenTermFile \/ FillTermFile \/ SetDocument

Step(L) ==
    \/ L = "cpp" /\ CppStep
    \/ L = "java" /\ FlushFails
    \/ Open(L) \/ Begin(L) \/ MergeTermFile(L) \/ AddToSet(L) \/ ReplaceJson(L)
    \/ AllWritten(L) \/ Mark(L) \/ Leave(L)

Write == /\ \E L \in setting.writers : Step(L)
         /\ UNCHANGED search

-----------------------------------------------------------------------------
(* The search.  Java reads any structure, Python the JSON file only, C++    *)
(* any; who has no data folder with the structure can read the collection.  *)

Readers == IF Mongo THEN {"cpp", "java"}
           ELSE IF PerTerm THEN setting.writers \ {"python"}
           ELSE setting.writers

SearchGoesOn == UNCHANGED <<reader, query, served>>

\* A truncated JSON file does not parse.  C++ first asks whether the structure
\* exists; a file, a folder or a collection without terms may be there or not.
Opening(L) ==
    IF ~readable THEN {"failed"}
    ELSE IF L = "cpp" /\ StoredTerms = {} THEN {"reading", "failed"}
    ELSE {"reading"}

\* The process starts, opens its index and splits the query into terms.
Ask ==
    /\ phase = "idle"
    /\ reader' \in Readers
    /\ query' \in Queries
    /\ unread' = query'
    /\ opened' = IF PerTerm THEN EmptyIndex ELSE store
    /\ phase' \in Opening(reader')
    /\ served' = {b \in UNION {marked[L] : L \in setting.writers} : query' \subseteq TermsOf[b]}
    /\ UNCHANGED <<lists, left, result, current, pointers, titles>>

Found(t) == IF PerTerm THEN store[t] ELSE opened[t]

\* postings(term): Java and Python collect the ids in a sorted set.
IsPostings(l, t) == IF reader = "cpp" THEN l = Found(t) ELSE IsListOf(l, Range(Found(t)))

ReadPostings ==
    /\ phase = "reading"
    /\ \E t \in unread, l \in Lists :
          /\ IsPostings(l, t)
          /\ lists' = [lists EXCEPT ![t] = l]
          /\ unread' = unread \ {t}
          /\ phase' = IF reader # "cpp" /\ l = <<>> THEN "answered" ELSE "reading"
    /\ SearchGoesOn /\ UNCHANGED <<opened, left, result, current, pointers, titles>>

Shortest(t, S) == t \in S /\ \A u \in S : Len(lists[t]) <= Len(lists[u])

\* The lists are taken by length; the first is the result so far.
TakeFirst ==
    /\ phase = "reading" /\ unread = {}
    /\ \E t \in query :
          /\ Shortest(t, query)
          /\ result' = lists[t]
          /\ left' = query \ {t}
    /\ phase' = "choosing"
    /\ SearchGoesOn /\ UNCHANGED <<opened, unread, lists, current, pointers, titles>>

\* A bug: pointers that start before the first id.
TakeNextFromZero ==
    /\ phase = "choosing"
    /\ result # <<>>
    /\ \E t \in left : Shortest(t, left) /\ current' = t /\ left' = left \ {t}
    /\ i' = 0 /\ j' = 0 /\ out' = <<>>
    /\ phase' = "merging"
    /\ SearchGoesOn /\ UNCHANGED <<opened, unread, lists, result, titles>>

TakeNext ==
    /\ phase = "choosing"
    /\ result # <<>>
    /\ \E t \in left :
          /\ Shortest(t, left)
          /\ current' = t
          /\ left' = left \ {t}
    /\ i' = 1 /\ j' = 1 /\ out' = <<>>
    /\ phase' = "merging"
    /\ SearchGoesOn /\ UNCHANGED <<opened, unread, lists, result, titles>>

\* A bug: <= for =.
KeepLower ==
    /\ phase = "merging"
    /\ i <= Len(result) /\ j <= Len(lists[current])
    /\ result[i] <= lists[current][j]
    /\ out' = Append(out, result[i])
    /\ i' = i + 1 /\ j' = j + 1
    /\ SearchGoesOn /\ UNCHANGED <<phase, opened, unread, lists, left, result, current, titles>>

\* Two pointers over two lists; C++ has std::set_intersection do it.
KeepBoth ==
    /\ phase = "merging"
    /\ i <= Len(result) /\ j <= Len(lists[current])
    /\ result[i] = lists[current][j]
    /\ out' = Append(out, result[i])
    /\ i' = i + 1 /\ j' = j + 1
    /\ SearchGoesOn /\ UNCHANGED <<phase, opened, unread, lists, left, result, current, titles>>

\* A bug: the pointer of the higher id moves.
SkipHigher ==
    /\ phase = "merging"
    /\ i <= Len(result) /\ j <= Len(lists[current])
    /\ \/ result[i] > lists[current][j] /\ i' = i + 1 /\ j' = j
       \/ result[i] < lists[current][j] /\ i' = i /\ j' = j + 1
    /\ SearchGoesOn /\ UNCHANGED <<phase, opened, unread, lists, left, result, current, out, titles>>

SkipLower ==
    /\ phase = "merging"
    /\ i <= Len(result) /\ j <= Len(lists[current])
    /\ \/ result[i] < lists[current][j] /\ i' = i + 1 /\ j' = j
       \/ result[i] > lists[current][j] /\ i' = i /\ j' = j + 1
    /\ SearchGoesOn /\ UNCHANGED <<phase, opened, unread, lists, left, result, current, out, titles>>

Merged ==
    /\ phase = "merging"
    /\ i > Len(result) \/ j > Len(lists[current])
    /\ result' = out
    /\ phase' = "choosing"
    /\ SearchGoesOn /\ UNCHANGED <<opened, unread, lists, left, current, pointers, titles>>

\* findById of each id, for its title.  (Python prints the ids alone: its titles
\* are those it could have looked up.)
Answer ==
    /\ phase = "choosing"
    /\ left = {} \/ result = <<>>
    /\ titles' = Range(result) \cap rows[reader]
    /\ phase' = "answered"
    /\ SearchGoesOn /\ UNCHANGED <<opened, unread, lists, left, result, current, pointers>>

EndSearch ==
    /\ phase \in {"answered", "failed"}
    /\ phase' = "idle" /\ opened' = EmptyIndex
    /\ query' = {} /\ unread' = {} /\ lists' = EmptyIndex /\ left' = {}
    /\ result' = <<>> /\ current' = None /\ i' = 1 /\ j' = 1 /\ out' = <<>>
    /\ titles' = {} /\ served' = {}
    /\ UNCHANGED reader

SearchStep ==
    \/ ReadPostings \/ TakeFirst \/ TakeNext
    \/ KeepBoth \/ SkipLower \/ Merged \/ Answer

Read == (Ask \/ SearchStep \/ EndSearch) /\ UNCHANGED writing

Next == Write \/ Read

Spec == Init /\ [][Next]_vars

-----------------------------------------------------------------------------
JobType == [pc : {"off", "clear", "fill", "ready", "add", "open", "mark"},
            book : Books \cup {None}, todo : SUBSET Terms, term : Terms \cup {None}]

TypeOK ==
    /\ setting \in Settings
    /\ store \in [Terms -> Seq(Books)] /\ hollow \in SUBSET Terms /\ readable \in BOOLEAN
    /\ job \in [Languages -> JobType]
    /\ pending \in [Languages -> [Terms -> SUBSET Books]]
    /\ rows \in [Languages -> SUBSET Books] /\ marked \in [Languages -> SUBSET Books]
    /\ faults \in 0 .. MaxFaults
    /\ phase \in {"idle", "reading", "choosing", "merging", "answered", "failed"}
    /\ reader \in Languages /\ opened \in [Terms -> Seq(Books)]
    /\ query \in SUBSET Terms /\ unread \in SUBSET query /\ left \in SUBSET query
    /\ lists \in [Terms -> Seq(Books)] /\ result \in Seq(Books)
    /\ current \in Terms \cup {None}
    /\ i \in Nat \ {0} /\ j \in Nat \ {0} /\ out \in Seq(Books)
    /\ titles \in SUBSET Books /\ served \in SUBSET Books

(* Whatever the pipelines of the three languages write, tear or delete      *)
(* while it reads, in whatever order the lists are stored, search names     *)
(* only books that have every term of the query.                            *)
AnswersAreTrue ==
    phase = "answered" => \A b \in Range(result) : query \subseteq TermsOf[b]

(* In a structure that only the reader's own language writes, each of them  *)
(* has its title ("the opposite would give results with no title or         *)
(* author", Indexer.java:70-71).                                            *)
AnswersHaveTitles ==
    phase = "answered" /\ setting.writers = {reader} => Range(result) \subseteq titles

(* Java and Python write no list over: side by side in one collection, each *)
(* keeps what the other wrote, and a Java or Python search finds every book *)
(* that matches and was marked before it began.                             *)
IndexedBooksAreFound ==
    /\ phase = "answered"
    /\ "cpp" \notin setting.writers
    /\ reader # "cpp"
    => served \subseteq Range(result)

\* The ids that are in each of the lists read.
InAllLists == {b \in Books : \A t \in query \ unread : b \in Range(lists[t])}

\* The lists are read sorted: by whoever sorts them, or from who stores them so.
ListsAreSorted == reader # "cpp" \/ ~Mongo \/ setting.writers = {"cpp"}

(* The answer is the intersection of the lists read, sorted and without     *)
(* repetitions, however early the intersections stop.                       *)
AnswersAreTheIntersection ==
    phase = "answered" /\ ListsAreSorted => IsListOf(result, InAllLists)

(* shared/SPEC.md:102-103: the answer is the intersection of the posting    *)
(* lists of all terms, as a sorted list.                                    *)
SearchIsAnAnd == phase = "answered" => IsListOf(result, InAllLists)
=============================================================================
