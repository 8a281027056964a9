---------------------------- MODULE SearchProofs ----------------------------
(***************************************************************************)
(* Proofs about Search, for any books, terms, queries, structures and      *)
(* number of faults.  Four invariants, each on top of the first:           *)
(*   Typed      the types, and what the place of a run or a search implies *)
(*   TruthInv   every list written, read or half intersected is true       *)
(*   ExactInv   the loop invariant of the intersection, for sorted lists   *)
(*   ServedInv  what was marked can be read, and was read                  *)
(***************************************************************************)
EXTENDS Search, TLAPS

(* TypeOK in two halves, with what the book of a run is.                    *)
BookUnderWay ==
    \A L \in Languages : job[L].pc \in {"add", "open", "mark"} => job[L].book \in Books

WriterTyped ==
    /\ setting \in Settings
    /\ store \in [Terms -> Seq(Books)] /\ hollow \in SUBSET Terms /\ readable \in BOOLEAN
    /\ job \in [Languages -> JobType]
    /\ pending \in [Languages -> [Terms -> SUBSET Books]]
    /\ rows \in [Languages -> SUBSET Books] /\ marked \in [Languages -> SUBSET Books]
    /\ faults \in 0 .. MaxFaults
    /\ BookUnderWay

SearchTyped ==
    /\ phase \in {"idle", "reading", "choosing", "merging", "answered", "failed"}
    /\ reader \in Languages /\ opened \in [Terms -> Seq(Books)]
    /\ query \in SUBSET Terms /\ unread \in SUBSET query /\ left \in SUBSET query
    /\ lists \in [Terms -> Seq(Books)] /\ result \in Seq(Books)
    /\ current \in Terms \cup {None}
    /\ i \in Nat \ {0} /\ j \in Nat \ {0} /\ out \in Seq(Books)
    /\ titles \in SUBSET Books /\ served \in SUBSET Books
    /\ phase = "merging" => current \in Terms
    /\ phase \in {"idle", "failed"} => left = {}

Typed == WriterTyped /\ SearchTyped

LEMMA TypedIsTyped == Typed => TypeOK
BY DEF Typed, WriterTyped, SearchTyped, TypeOK

LEMMA ListsAreSequences == Lists \subseteq Seq(Books)
BY DEF Lists

LEMMA SettingTyped ==
    ASSUME setting \in Settings
    PROVE  /\ setting.writers \subseteq Languages
           /\ setting.structure \in {"monolithic", "hierarchical", "mongo"}
BY SearchAssumption DEF SearchAssumption

LEMMA EmptyTyped ==
    /\ EmptyIndex \in [Terms -> Seq(Books)]
    /\ NothingPending \in [Terms -> SUBSET Books]
    /\ Idle \in JobType
    /\ [Idle EXCEPT !.pc = "ready"] \in JobType
BY DEF EmptyIndex, NothingPending, Idle, JobType

(* One field of one job.                                                    *)
LEMMA MovesTyped ==
    ASSUME job \in [Languages -> JobType], NEW L \in Languages, NEW pc, MovesTo(L, pc),
           pc \in {"off", "clear", "fill", "ready", "add", "open", "mark"}
    PROVE  /\ job' \in [Languages -> JobType]
           /\ job'[L].pc = pc /\ job'[L].book = job[L].book
           /\ \A K \in Languages \ {L} : job'[K] = job[K]
<1>1. [job[L] EXCEPT !.pc = pc] \in JobType
  BY DEF JobType
<1> QED BY <1>1 DEF MovesTo

LEMMA WroteTyped ==
    ASSUME job \in [Languages -> JobType], NEW L \in Languages, NEW t, NEW pc, Wrote(L, t, pc),
           pc \in {"off", "clear", "fill", "ready", "add", "open", "mark"}
    PROVE  /\ job' \in [Languages -> JobType]
           /\ job'[L].pc = pc /\ job'[L].book = job[L].book /\ job'[L].todo = job[L].todo \ {t}
           /\ \A K \in Languages \ {L} : job'[K] = job[K]
<1>1. job[L] \in JobType /\ job[L].todo \ {t} \in SUBSET Terms
  BY DEF JobType
<1>2. [job[L] EXCEPT !.pc = pc, !.todo = job[L].todo \ {t}, !.term = None] \in JobType
  BY <1>1 DEF JobType
<1>3. job' = [job EXCEPT ![L] = [job[L] EXCEPT !.pc = pc, !.todo = job[L].todo \ {t}, !.term = None]]
  BY DEF Wrote
<1>4. job'[L] = [job[L] EXCEPT !.pc = pc, !.todo = job[L].todo \ {t}, !.term = None]
  BY <1>3
<1>5. job'[L].pc = pc /\ job'[L].book = job[L].book /\ job'[L].todo = job[L].todo \ {t}
  BY <1>1, <1>4 DEF JobType
<1> QED BY <1>2, <1>3, <1>5

LEMMA InitTyped == Init => Typed
BY EmptyTyped, SearchAssumption
   DEF Init, Typed, WriterTyped, SearchTyped, BookUnderWay, Languages, SearchAssumption, Idle

LEMMA CppTyped == ASSUME WriterTyped, CppStep PROVE WriterTyped'
<1>0. "cpp" \in Languages
  BY DEF Languages
<1>a. job["cpp"] \in JobType
  BY <1>0 DEF WriterTyped
<1>b. StoredTerms \subseteq Terms /\ OwnTerms("cpp") \subseteq Terms
  BY DEF StoredTerms, OwnTerms, WriterTyped
<1>c. ASSUME NEW todo \in SUBSET Terms, NEW pc \in {"clear", "fill"},
             job' = [job EXCEPT !["cpp"] = [@ EXCEPT !.pc = pc, !.todo = todo]]
      PROVE  job' \in [Languages -> JobType] /\ BookUnderWay'
  <2>1. [job["cpp"] EXCEPT !.pc = pc, !.todo = todo] \in JobType
    BY <1>a DEF JobType
  <2>2. job'["cpp"].pc = pc /\ job' \in [Languages -> JobType]
    BY <1>0, <1>a, <1>c, <2>1 DEF WriterTyped, JobType
  <2> QED BY <1>c, <2>2 DEF WriterTyped, BookUnderWay
<1>d. ASSUME NEW pc \in {"fill", "ready", "open", "mark"}, MovesTo("cpp", pc),
             pc \in {"open", "mark"} => job["cpp"].pc \in {"add", "open"}
      PROVE  job' \in [Languages -> JobType] /\ BookUnderWay'
  BY <1>0, <1>d, MovesTyped DEF WriterTyped, BookUnderWay
<1>e. ASSUME NEW t, Wrote("cpp", t, job["cpp"].pc)
      PROVE  job' \in [Languages -> JobType] /\ BookUnderWay'
  <2>1. job["cpp"].pc \in {"off", "clear", "fill", "ready", "add", "open", "mark"}
    BY <1>a DEF JobType
  <2>2. job \in [Languages -> JobType]
    BY DEF WriterTyped
  <2>3. /\ job' \in [Languages -> JobType]
        /\ job'["cpp"].pc = job["cpp"].pc /\ job'["cpp"].book = job["cpp"].book
        /\ \A K \in Languages \ {"cpp"} : job'[K] = job[K]
    BY <1>0, <1>e, <2>1, <2>2, WroteTyped
  <2> QED BY <2>3 DEF WriterTyped, BookUnderWay
<1>f. ASSUME NEW t \in Terms, NEW l \in Lists \cup {<<>>}
      PROVE  [store EXCEPT ![t] = l] \in [Terms -> Seq(Books)]
  <2>1. <<>> \in Seq(Books)
    OBVIOUS
  <2>2. l \in Seq(Books)
    BY <1>f, <2>1, ListsAreSequences
  <2> QED BY <2>2 DEF WriterTyped
<1>1. CASE CppTrusts
  <2>1. job' \in [Languages -> JobType] /\ BookUnderWay'
    BY <1>1, <1>d DEF CppTrusts
  <2> QED BY <1>1, <2>1 DEF CppTrusts, WriterTyped, WriterStays, stored
<1>2. CASE CppRewrites
  BY <1>2, <1>b, <1>c DEF CppRewrites, WriterTyped, WriterStays, stored
<1>3. CASE ClearTerm
  BY <1>3, <1>b, <1>e, <1>f DEF ClearTerm, WriterTyped, WriterStays
<1>4. CASE Cleared
  BY <1>4, <1>b, <1>c DEF Cleared, WriterTyped, WriterStays, stored
<1>5. CASE InsertDocument
  <2>1. job["cpp"].todo \subseteq Terms
    BY <1>a DEF JobType
  <2> QED BY <1>5, <1>e, <1>f, <2>1 DEF InsertDocument, WriterTyped, WriterStays
<1>6. CASE InsertFails
  <2>1. job' \in [Languages -> JobType] /\ BookUnderWay'
    BY <1>0, <1>6, EmptyTyped DEF InsertFails, WriterTyped, BookUnderWay, Idle
  <2> QED BY <1>6, <2>1 DEF InsertFails, WriterTyped, WriterStays, stored
<1>7. CASE Filled
  <2>1. job' \in [Languages -> JobType] /\ BookUnderWay'
    BY <1>7, <1>d DEF Filled
  <2> QED BY <1>7, <2>1 DEF Filled, WriterTyped, WriterStays, stored
<1>8. CASE OpenJson
  <2>1. job' \in [Languages -> JobType] /\ BookUnderWay'
    BY <1>8, <1>d DEF OpenJson
  <2> QED BY <1>8, <2>1 DEF OpenJson, WriterTyped, WriterStays
<1>9. CASE FillJson
  <2>1. job' \in [Languages -> JobType] /\ BookUnderWay'
    BY <1>9, <1>d DEF FillJson
  <2> QED BY <1>9, <2>1, ListsAreSequences DEF FillJson, WriterTyped, WriterStays
<1>10. CASE OpenTermFile
  <2>1. job["cpp"].todo \subseteq Terms
    BY <1>a DEF JobType
  <2>2. PICK t \in job["cpp"].todo : /\ store' = [store EXCEPT ![t] = <<>>]
                                     /\ hollow' = hollow \cup {t}
                                     /\ job' = [job EXCEPT !["cpp"].term = t]
    BY <1>10 DEF OpenTermFile
  <2>3. [job["cpp"] EXCEPT !.term = t] \in JobType
    BY <1>a, <2>1 DEF JobType
  <2>4. job'["cpp"].pc = job["cpp"].pc /\ job'["cpp"].book = job["cpp"].book
        /\ job' \in [Languages -> JobType]
    BY <1>0, <1>a, <2>2, <2>3 DEF WriterTyped, JobType
  <2>5. BookUnderWay'
    BY <2>2, <2>4 DEF WriterTyped, BookUnderWay
  <2> QED BY <1>10, <1>f, <2>1, <2>2, <2>4, <2>5 DEF OpenTermFile, WriterTyped, WriterStays
<1>11. CASE FillTermFile
  <2>1. job["cpp"].term \in Terms
    BY <1>11, <1>a DEF FillTermFile, JobType
  <2> QED BY <1>11, <1>e, <1>f, <2>1 DEF FillTermFile, WriterTyped, WriterStays
<1>12. CASE SetDocument
  <2>1. job["cpp"].todo \subseteq Terms
    BY <1>a DEF JobType
  <2> QED BY <1>12, <1>e, <1>f, <2>1 DEF SetDocument, WriterTyped, WriterStays
<1> QED BY <1>1, <1>2, <1>3, <1>4, <1>5, <1>6, <1>7, <1>8, <1>9, <1>10, <1>11, <1>12 DEF CppStep

LEMMA IndexingTyped ==
    ASSUME WriterTyped, NEW L \in Languages,
           \/ Open(L) \/ Begin(L) \/ MergeTermFile(L) \/ AddToSet(L) \/ ReplaceJson(L)
           \/ AllWritten(L) \/ Mark(L) \/ Leave(L)
           \/ L = "java" /\ FlushFails
    PROVE  WriterTyped'
<1>a. /\ job[L] \in JobType /\ job[L].todo \subseteq Terms
      /\ job \in [Languages -> JobType]
  BY DEF WriterTyped, JobType
<1>b. ASSUME NEW pc \in {"ready", "mark"}, MovesTo(L, pc), pc = "mark" => job[L].pc = "add"
      PROVE  job' \in [Languages -> JobType] /\ BookUnderWay'
  BY <1>a, <1>b, MovesTyped DEF WriterTyped, BookUnderWay
<1>c. ASSUME NEW t \in Terms, Wrote(L, t, "add"), job[L].pc = "add"
      PROVE  job' \in [Languages -> JobType] /\ BookUnderWay'
  <2>1. /\ job' \in [Languages -> JobType]
        /\ job'[L].pc = "add" /\ job'[L].book = job[L].book
        /\ \A K \in Languages \ {L} : job'[K] = job[K]
    BY <1>a, <1>c, WroteTyped
  <2> QED BY <1>c, <2>1 DEF WriterTyped, BookUnderWay
<1>d. ASSUME NEW new \in JobType, job' = [job EXCEPT ![L] = new],
             new.pc \in {"add", "open", "mark"} => new.book \in Books
      PROVE  job' \in [Languages -> JobType] /\ BookUnderWay'
  BY <1>a, <1>d DEF WriterTyped, BookUnderWay
<1>1. CASE Open(L)
  <2>1. job' \in [Languages -> JobType] /\ BookUnderWay'
    BY <1>1, <1>b DEF Open
  <2> QED BY <1>1, <2>1 DEF Open, WriterTyped, WriterStays, stored
<1>2. CASE Begin(L)
  <2>1. PICK b \in Books \ marked[L] :
          /\ rows' = [rows EXCEPT ![L] = @ \cup {b}]
          /\ pending' = [pending EXCEPT ![L] =
                [t \in Terms |-> IF L # "cpp" /\ t \in TermsOf[b] THEN @[t] \cup {b} ELSE @[t]]]
          /\ job' = [job EXCEPT ![L] =
                [pc |-> "add", book |-> b, term |-> None,
                 todo |-> TermsOf[b] \cup {t \in Terms : pending[L][t] # {}}]]
    BY <1>2 DEF Begin
  <2>2. TermsOf[b] \subseteq Terms
    BY SearchAssumption DEF SearchAssumption
  <2>3. [pc |-> "add", book |-> b, term |-> None,
         todo |-> TermsOf[b] \cup {t \in Terms : pending[L][t] # {}}] \in JobType
    BY <2>2 DEF JobType
  <2>4. job' \in [Languages -> JobType] /\ BookUnderWay'
    BY <2>1, <2>3, <1>d
  <2>5. rows' \in [Languages -> SUBSET Books]
    BY <2>1 DEF WriterTyped
  <2>6. pending' \in [Languages -> [Terms -> SUBSET Books]]
    <3>1. pending[L] \in [Terms -> SUBSET Books]
      BY DEF WriterTyped
    <3>2. [t \in Terms |-> IF L # "cpp" /\ t \in TermsOf[b] THEN pending[L][t] \cup {b}
                           ELSE pending[L][t]] \in [Terms -> SUBSET Books]
      BY <3>1
    <3> QED BY <2>1, <3>2 DEF WriterTyped
  <2> QED BY <1>2, <2>4, <2>5, <2>6 DEF Begin, WriterTyped, stored
<1>3. CASE MergeTermFile(L)
  <2>1. PICK t \in Terms, l \in Lists : /\ store' = [store EXCEPT ![t] = l]
                                       /\ Wrote(L, t, "add")
    BY <1>3, <1>a DEF MergeTermFile
  <2>2. job' \in [Languages -> JobType] /\ BookUnderWay'
    BY <1>3, <2>1, <1>c DEF MergeTermFile
  <2> QED BY <1>3, <2>1, <2>2, ListsAreSequences DEF MergeTermFile, WriterTyped, WriterStays
<1>4. CASE AddToSet(L)
  <2>1. PICK t \in Terms, new \in Lists : /\ store' = [store EXCEPT ![t] = @ \o new]
                                         /\ Wrote(L, t, "add")
    BY <1>4, <1>a DEF AddToSet
  <2>2. job' \in [Languages -> JobType] /\ BookUnderWay'
    BY <1>4, <2>1, <1>c DEF AddToSet
  <2>3. store[t] \in Seq(Books) /\ new \in Seq(Books)
    BY ListsAreSequences DEF WriterTyped
  <2>4. store[t] \o new \in Seq(Books)
    BY <2>3
  <2>5. store' \in [Terms -> Seq(Books)]
    BY <2>1, <2>4 DEF WriterTyped
  <2> QED BY <1>4, <2>2, <2>5 DEF AddToSet, WriterTyped, WriterStays
<1>5. CASE ReplaceJson(L)
  <2>1. job' \in [Languages -> JobType] /\ BookUnderWay'
    BY <1>5, <1>b DEF ReplaceJson
  <2> QED BY <1>5, <2>1, ListsAreSequences DEF ReplaceJson, WriterTyped, WriterStays
<1>6. CASE AllWritten(L)
  <2>1. job' \in [Languages -> JobType] /\ BookUnderWay'
    BY <1>6, <1>b DEF AllWritten
  <2> QED BY <1>6, <2>1 DEF AllWritten, WriterTyped, WriterStays, stored
<1>7. CASE Mark(L)
  <2>1. job[L].book \in Books
    BY <1>7 DEF Mark, WriterTyped, BookUnderWay
  <2>2. [Idle EXCEPT !.pc = "ready"].pc = "ready"
    BY DEF Idle
  <2>3. job' \in [Languages -> JobType] /\ BookUnderWay'
    BY <1>7, <2>2, <1>d, EmptyTyped DEF Mark
  <2>4. marked' \in [Languages -> SUBSET Books]
    BY <1>7, <2>1 DEF Mark, WriterTyped
  <2>5. pending' \in [Languages -> [Terms -> SUBSET Books]]
    BY <1>7, EmptyTyped DEF Mark, WriterTyped
  <2> QED BY <1>7, <2>3, <2>4, <2>5 DEF Mark, WriterTyped, stored
<1>8. CASE Leave(L)
  <2>1. job' \in [Languages -> JobType] /\ BookUnderWay'
    <3>1. Idle.pc = "off"
      BY DEF Idle
    <3> QED BY <1>8, <3>1, <1>d, EmptyTyped DEF Leave
  <2>2. pending' \in [Languages -> [Terms -> SUBSET Books]]
    BY <1>8, EmptyTyped DEF Leave, WriterTyped
  <2>3. faults' \in 0 .. MaxFaults
    BY <1>8, SearchAssumption DEF Leave, WriterTyped, SearchAssumption
  <2> QED BY <1>8, <2>1, <2>2, <2>3 DEF Leave, WriterTyped, stored
<1>9. CASE L = "java" /\ FlushFails
  <2>1. job' \in [Languages -> JobType] /\ BookUnderWay'
    <3>1. [Idle EXCEPT !.pc = "ready"].pc = "ready"
      BY DEF Idle
    <3> QED BY <1>9, <3>1, <1>d, EmptyTyped DEF FlushFails
  <2>2. faults' \in 0 .. MaxFaults
    BY <1>9, SearchAssumption DEF FlushFails, WriterTyped, SearchAssumption
  <2> QED BY <1>9, <2>1, <2>2 DEF FlushFails, WriterTyped, stored
<1> QED BY <1>1, <1>2, <1>3, <1>4, <1>5, <1>6, <1>7, <1>8, <1>9

LEMMA ReadTyped == ASSUME Typed, Read PROVE Typed'
<1>1. WriterTyped'
  BY DEF Typed, Read, writing, stored, WriterTyped, BookUnderWay
<1> SUFFICES SearchTyped'
  BY <1>1 DEF Typed
<1>a. \A t \in Terms : Found(t) \in Seq(Books)
  BY DEF Found, Typed, WriterTyped, SearchTyped
<1> USE DEF SearchTyped, Typed
<1>2. CASE Ask
  <2>1. Readers \subseteq Languages
    BY SettingTyped DEF Readers, Languages, WriterTyped
  <2>2. reader' \in Languages /\ query' \in SUBSET Terms
    BY <1>2, <2>1, SearchAssumption DEF Ask, SearchAssumption
  <2>3. \A L \in setting.writers : marked[L] \in SUBSET Books
    BY SettingTyped DEF WriterTyped
  <2>4. served' \in SUBSET Books
    BY <1>2, <2>3 DEF Ask
  <2>5. opened' \in [Terms -> Seq(Books)] /\ phase' \in {"reading", "failed"}
    BY <1>2, EmptyTyped DEF Ask, Opening, WriterTyped
  <2>6. phase = "idle" /\ unread' = query'
        /\ UNCHANGED <<lists, left, result, current, i, j, out, titles>>
    BY <1>2 DEF Ask, pointers
  <2>7. left' = {}
    BY <2>6
  <2> QED BY <2>2, <2>4, <2>5, <2>6, <2>7
<1>3. CASE ReadPostings
  <2>1. PICK t \in unread, l \in Lists : /\ lists' = [lists EXCEPT ![t] = l]
                                        /\ unread' = unread \ {t}
    BY <1>3 DEF ReadPostings
  <2>2. lists' \in [Terms -> Seq(Books)]
    BY <2>1, ListsAreSequences
  <2> QED BY <1>3, <2>1, <2>2 DEF ReadPostings, SearchGoesOn, pointers
<1>4. CASE TakeFirst
  BY <1>4 DEF TakeFirst, SearchGoesOn, pointers
<1>5. CASE TakeNext
  BY <1>5 DEF TakeNext, SearchGoesOn
<1>6. CASE KeepBoth
  <2>1. result[i] \in Books
    BY <1>6 DEF KeepBoth
  <2>2. Append(out, result[i]) \in Seq(Books)
    BY <2>1
  <2> QED BY <1>6, <2>2 DEF KeepBoth, SearchGoesOn
<1>7. CASE SkipLower
  BY <1>7 DEF SkipLower, SearchGoesOn
<1>8. CASE Merged
  BY <1>8 DEF Merged, SearchGoesOn, pointers
<1>9. CASE Answer
  <2>1. Range(result) \subseteq Books
    BY DEF Range
  <2> QED BY <1>9, <2>1 DEF Answer, SearchGoesOn, pointers
<1>10. CASE EndSearch
  BY <1>10, EmptyTyped DEF EndSearch
<1> QED BY <1>2, <1>3, <1>4, <1>5, <1>6, <1>7, <1>8, <1>9, <1>10 DEF Read, SearchStep

LEMMA NextTyped == Typed /\ [Next]_vars => Typed'
<1> SUFFICES ASSUME Typed, [Next]_vars PROVE Typed'
  OBVIOUS
<1>1. CASE Write
  <2>1. PICK L \in setting.writers : Step(L)
    BY <1>1 DEF Write
  <2>2. L \in Languages
    BY SettingTyped DEF Typed, WriterTyped
  <2>3. WriterTyped'
    BY <2>1, <2>2, CppTyped, IndexingTyped DEF Step, Typed
  <2> QED BY <1>1, <2>3 DEF Write, search, pointers, Typed, SearchTyped
<1>2. CASE Read
  BY <1>2, ReadTyped
<1>3. CASE UNCHANGED vars
  BY <1>3 DEF vars, writing, stored, search, pointers, Typed, WriterTyped, BookUnderWay, SearchTyped
<1> QED BY <1>1, <1>2, <1>3 DEF Next

(* Every reachable state of searches and pipelines is well typed.           *)
THEOREM SearchTypeCorrect == Spec => []TypeOK
<1>1. Spec => []Typed
  BY InitTyped, NextTyped, PTL DEF Spec
<1> QED BY <1>1, TypedIsTyped, PTL

-----------------------------------------------------------------------------
(* What the steps of the pipelines do to books, postings and lists.         *)

LEMMA RangeOfAppend ==
    ASSUME NEW l \in Seq(Books), NEW b \in Books
    PROVE  Range(Append(l, b)) = Range(l) \cup {b}
<1>1. /\ DOMAIN Append(l, b) = 1 .. Len(l) + 1 /\ DOMAIN l = 1 .. Len(l) /\ Len(l) \in Nat
      /\ Append(l, b)[Len(l) + 1] = b
      /\ \A k \in 1 .. Len(l) : Append(l, b)[k] = l[k]
  OBVIOUS
<1>2. 1 .. Len(l) + 1 = (1 .. Len(l)) \cup {Len(l) + 1}
  BY <1>1
<1> QED BY <1>1, <1>2 DEF Range

LEMMA RangeOfConcat ==
    ASSUME NEW l \in Seq(Books), NEW m \in Seq(Books)
    PROVE  Range(l \o m) = Range(l) \cup Range(m)
<1>1. /\ DOMAIN (l \o m) = 1 .. Len(l) + Len(m)
      /\ DOMAIN l = 1 .. Len(l) /\ DOMAIN m = 1 .. Len(m) /\ Len(l) \in Nat /\ Len(m) \in Nat
      /\ \A k \in 1 .. Len(l) + Len(m) :
            (l \o m)[k] = IF k <= Len(l) THEN l[k] ELSE m[k - Len(l)]
  OBVIOUS
<1>2. Range(l \o m) \subseteq Range(l) \cup Range(m)
  BY <1>1 DEF Range
<1>3. ASSUME NEW k \in DOMAIN l PROVE l[k] \in Range(l \o m)
  BY <1>1 DEF Range
<1>4. ASSUME NEW k \in DOMAIN m PROVE m[k] \in Range(l \o m)
  <2>1. k + Len(l) \in 1 .. Len(l) + Len(m) /\ ~ (k + Len(l) <= Len(l)) /\ k + Len(l) - Len(l) = k
    BY <1>1
  <2>2. (l \o m)[k + Len(l)] = m[k]
    BY <1>1, <2>1
  <2> QED BY <1>1, <2>1, <2>2 DEF Range
<1> QED BY <1>2, <1>3, <1>4 DEF Range

LEMMA EmptyRange == Range(<<>>) = {} /\ Ascending(<<>>)
BY DEF Range, Ascending

(* Only Begin brings a book under way, and only Mark marks one.             *)
LEMMA BooksUnderWay ==
    ASSUME Typed, NEW L \in Languages, Step(L), ~ Begin(L), ~ Mark(L)
    PROVE  /\ UNCHANGED <<setting, rows, marked>>
           /\ \A K \in Languages : job'[K].book = job[K].book \/ job'[K].book = None
           /\ \A K \in Languages, t \in Terms : pending'[K][t] \subseteq pending[K][t]
<1>a. job \in [Languages -> JobType] /\ pending \in [Languages -> [Terms -> SUBSET Books]]
      /\ "cpp" \in Languages
  BY DEF Typed, WriterTyped, Languages
<1>b. ASSUME NEW pc \in {"ready", "fill", "open", "mark"}, MovesTo(L, pc)
      PROVE  \A K \in Languages : job'[K].book = job[K].book
  BY <1>a, <1>b, MovesTyped
<1>c. ASSUME NEW t \in Terms, NEW pc \in {"clear", "fill", "add"}, Wrote(L, t, pc)
      PROVE  \A K \in Languages : job'[K].book = job[K].book
  BY <1>a, <1>c, WroteTyped
<1>d. ASSUME NEW new \in JobType, job' = [job EXCEPT ![L] = new], new.book = None
      PROVE  \A K \in Languages : job'[K].book = job[K].book \/ job'[K].book = None
  BY <1>a, <1>d
<1>e. Idle \in JobType /\ Idle.book = None
      /\ [Idle EXCEPT !.pc = "ready"] \in JobType /\ [Idle EXCEPT !.pc = "ready"].book = None
  BY EmptyTyped DEF Idle
<1>f. \A K \in Languages : job[K] \in JobType /\ job[K].todo \subseteq Terms
  BY <1>a DEF JobType
<1>1. CASE L = "cpp" /\ CppStep
  <2>0. WriterStays
    BY <1>1 DEF CppStep, CppTrusts, CppRewrites, ClearTerm, Cleared, InsertDocument, InsertFails,
                Filled, OpenJson, FillJson, OpenTermFile, FillTermFile, SetDocument
  <2>1. CASE CppTrusts \/ Filled \/ OpenJson \/ FillJson
    BY <1>1, <2>0, <2>1, <1>b DEF CppTrusts, Filled, OpenJson, FillJson, WriterStays
  <2>2. ASSUME CppRewrites \/ Cleared \/ OpenTermFile
        PROVE  \A K \in Languages : job'[K].book = job[K].book
    <3>1. job["cpp"] \in JobType
      BY <1>f, <1>a
    <3>2. ASSUME NEW pc, NEW todo
          PROVE  [job["cpp"] EXCEPT !.pc = pc, !.todo = todo].book = job["cpp"].book
      BY <3>1 DEF JobType
    <3>3. ASSUME NEW t
          PROVE  [job["cpp"] EXCEPT !.term = t].book = job["cpp"].book
      BY <3>1 DEF JobType
    <3>4. CASE CppRewrites
      BY <3>4, <1>a, <3>2 DEF CppRewrites
    <3>5. CASE Cleared
      BY <3>5, <1>a, <3>2 DEF Cleared
    <3>6. CASE OpenTermFile
      BY <3>6, <1>a, <3>3 DEF OpenTermFile
    <3> QED BY <2>2, <3>4, <3>5, <3>6
  <2>3. CASE CppRewrites \/ Cleared \/ OpenTermFile
    BY <2>0, <2>2, <2>3 DEF WriterStays
  <2>4. CASE ClearTerm
    <3>1. StoredTerms \subseteq Terms
      BY DEF StoredTerms, Typed, WriterTyped
    <3> QED BY <1>1, <2>0, <2>4, <3>1, <1>c DEF ClearTerm, WriterStays
  <2>5. CASE InsertDocument
    BY <1>1, <2>0, <2>5, <1>a, <1>f, <1>c DEF InsertDocument, WriterStays
  <2>6. CASE SetDocument
    BY <1>1, <2>0, <2>6, <1>a, <1>f, <1>c DEF SetDocument, WriterStays
  <2>7. CASE FillTermFile
    <3>1. job["cpp"].term \in Terms
      BY <2>7, <1>a DEF FillTermFile, JobType
    <3>2. job["cpp"].pc \in {"off", "clear", "fill", "ready", "add", "open", "mark"}
      BY <1>a DEF JobType
    <3>3. \A K \in Languages : job'[K].book = job[K].book
      BY <1>1, <2>7, <3>2, <1>a, WroteTyped DEF FillTermFile
    <3> QED BY <2>0, <3>3 DEF WriterStays
  <2>8. CASE InsertFails
    BY <1>1, <2>0, <2>8, <1>d, <1>e DEF InsertFails, WriterStays
  <2> QED BY <1>1, <2>1, <2>3, <2>4, <2>5, <2>6, <2>7, <2>8 DEF CppStep
<1>2. CASE L = "java" /\ FlushFails
  BY <1>2, <1>d, <1>e DEF FlushFails
<1>3. CASE Open(L) \/ ReplaceJson(L) \/ AllWritten(L)
  BY <1>3, <1>b DEF Open, ReplaceJson, AllWritten, WriterStays
<1>4. CASE MergeTermFile(L) \/ AddToSet(L)
  BY <1>4, <1>c, <1>f DEF MergeTermFile, AddToSet, WriterStays
<1>5. CASE Leave(L)
  <2>1. \A K \in Languages, t \in Terms : pending'[K][t] \subseteq pending[K][t]
    BY <1>5, <1>a DEF Leave, NothingPending
  <2>2. job' = [job EXCEPT ![L] = Idle] /\ UNCHANGED <<setting, rows, marked>>
    BY <1>5 DEF Leave
  <2> QED BY <2>1, <2>2, <1>d, <1>e
<1> QED BY <1>1, <1>2, <1>3, <1>4, <1>5 DEF Step

(* A list gets what is pending, or what C++ holds; only C++ takes from it,  *)
(* and only $addToSet leaves a sorted list unsorted.                        *)
PendingOrOwn(L, t) == pending[L][t] \cup (IF L = "cpp" THEN OwnPostings("cpp", t) ELSE {})

ListsGrow(L) ==
    \A t \in Terms :
       /\ Range(store'[t]) \subseteq Range(store[t]) \cup PendingOrOwn(L, t)
       /\ L # "cpp" => Range(store[t]) \subseteq Range(store'[t])
       /\ L = "cpp" \/ ~ Mongo => (Ascending(store[t]) => Ascending(store'[t]))

LEMMA StoreSteps ==
    ASSUME Typed, NEW L \in Languages, Step(L)
    PROVE  ListsGrow(L)
<1>a. store \in [Terms -> Seq(Books)] /\ job[L] \in JobType
  BY DEF Typed, WriterTyped
<1>b. UNCHANGED store => ListsGrow(L)
  BY DEF ListsGrow
<1>c. ASSUME NEW t \in Terms, NEW l, store' = [store EXCEPT ![t] = l],
             Range(l) \subseteq Range(store[t]) \cup PendingOrOwn(L, t),
             L # "cpp" => Range(store[t]) \subseteq Range(l),
             L = "cpp" \/ ~ Mongo => Ascending(l)
      PROVE  ListsGrow(L)
  BY <1>a, <1>c DEF ListsGrow
<1>d. job[L].todo \subseteq Terms /\ StoredTerms \subseteq Terms
  BY <1>a DEF JobType, StoredTerms, Typed, WriterTyped
<1>1. CASE L = "cpp" /\ CppStep
  <2>a. ASSUME NEW t \in Terms, NEW l, store' = [store EXCEPT ![t] = l],
               IsListOf(l, OwnPostings("cpp", t))
        PROVE  ListsGrow(L)
    BY <1>1, <2>a, <1>c DEF IsListOf, PendingOrOwn
  <2>b. ASSUME NEW t \in Terms, store' = [store EXCEPT ![t] = <<>>]
        PROVE  ListsGrow(L)
    BY <1>1, <2>b, <1>c, EmptyRange
  <2>1. CASE UNCHANGED store
    BY <2>1, <1>b
  <2>2. CASE ClearTerm
    BY <2>2, <2>b, <1>d DEF ClearTerm
  <2>3. CASE OpenTermFile
    BY <1>1, <2>3, <2>b, <1>d DEF OpenTermFile
  <2>4. CASE InsertDocument
    BY <1>1, <2>4, <2>a, <1>d DEF InsertDocument
  <2>5. CASE SetDocument
    BY <1>1, <2>5, <2>a, <1>d DEF SetDocument
  <2>6. CASE FillTermFile
    <3>1. job["cpp"].term \in Terms
      BY <1>1, <2>6, <1>a DEF FillTermFile, JobType
    <3> QED BY <2>6, <2>a, <3>1 DEF FillTermFile
  <2>7. CASE FillJson
    BY <1>1, <2>7 DEF FillJson, IsImage, IsListOf, ListsGrow, PendingOrOwn
  <2> QED BY <1>1, <2>1, <2>2, <2>3, <2>4, <2>5, <2>6, <2>7
          DEF CppStep, CppTrusts, CppRewrites, Cleared, InsertFails, Filled, OpenJson, stored
<1>2. CASE MergeTermFile(L)
  <2>1. PICK t \in Terms, l \in Lists : /\ IsListOf(l, Range(store[t]) \cup pending[L][t])
                                       /\ store' = [store EXCEPT ![t] = l]
    BY <1>2, <1>d DEF MergeTermFile
  <2> QED BY <2>1, <1>c DEF IsListOf, PendingOrOwn
<1>3. CASE AddToSet(L)
  <2>1. PICK t \in Terms, new \in Lists : /\ IsListOf(new, pending[L][t] \ Range(store[t]))
                                         /\ store' = [store EXCEPT ![t] = @ \o new]
    BY <1>3, <1>d DEF AddToSet
  <2>2. Range(store[t] \o new) = Range(store[t]) \cup Range(new)
    BY <1>a, RangeOfConcat, ListsAreSequences
  <2>3. L # "cpp" /\ Mongo
    BY <1>3 DEF AddToSet
  <2>4. store' = [store EXCEPT ![t] = store[t] \o new]
    BY <2>1
  <2> QED BY <2>1, <2>2, <2>3, <2>4, <1>c DEF IsListOf, PendingOrOwn
<1>4. CASE ReplaceJson(L)
  BY <1>4 DEF ReplaceJson, IsListOf, ListsGrow, PendingOrOwn
<1> QED BY <1>1, <1>2, <1>3, <1>4, <1>b
        DEF Step, Open, Begin, AllWritten, Mark, Leave, FlushFails, WriterStays, stored

-----------------------------------------------------------------------------
(* Every posting anywhere is that of a book with a row and with the term,   *)
(* and the search keeps ids that are in all lists it has intersected.       *)
Known == UNION {rows[L] : L \in setting.writers}

Right(t) == {b \in Known : t \in TermsOf[b]}

RunsAreTrue ==
    \A L \in Languages :
       /\ marked[L] \subseteq rows[L]
       /\ job[L].book = None \/ job[L].book \in rows[L]
       /\ \A t \in Terms : \A b \in pending[L][t] : b \in rows[L] /\ t \in TermsOf[b]

ListsAreTrue ==
    \A t \in Terms : /\ Range(store[t]) \subseteq Right(t)
                     /\ Range(opened[t]) \subseteq Right(t)
                     /\ Range(lists[t]) \subseteq Right(t)

Within(l, S) == \A t \in S : Range(l) \subseteq Range(lists[t])

ResultIsCommon ==
    /\ phase \in {"idle", "reading", "failed"} => result = <<>>
    /\ phase = "idle" => lists = EmptyIndex
    /\ phase # "idle" => query # {}
    /\ phase = "choosing" => left # query /\ Within(result, query \ left)
    /\ phase = "merging" => /\ current \in query \ left
                            /\ query \ (left \cup {current}) # {}
                            /\ Within(result, query \ (left \cup {current}))
                            /\ Range(out) \subseteq Range(result) \cap Range(lists[current])
    /\ phase = "answered" => result = <<>> \/ Within(result, query)
    /\ AnswersHaveTitles

TruthInv == Typed /\ RunsAreTrue /\ ListsAreTrue /\ ResultIsCommon

LEMMA InitTrue == Init => RunsAreTrue /\ ListsAreTrue /\ ResultIsCommon
<1> SUFFICES ASSUME Init PROVE RunsAreTrue /\ ListsAreTrue /\ ResultIsCommon
  OBVIOUS
<1>1. RunsAreTrue
  BY DEF Init, RunsAreTrue, NothingPending, Idle
<1>2. ListsAreTrue
  BY EmptyRange DEF Init, ListsAreTrue, EmptyIndex
<1>3. ResultIsCommon
  BY DEF Init, ResultIsCommon, AnswersHaveTitles
<1> QED BY <1>1, <1>2, <1>3

LEMMA RunsStayTrue ==
    ASSUME Typed, RunsAreTrue, NEW L \in Languages, Step(L)
    PROVE  /\ RunsAreTrue'
           /\ UNCHANGED setting
           /\ \A K \in Languages : rows[K] \subseteq rows'[K]
<1>a. /\ job \in [Languages -> JobType] /\ pending \in [Languages -> [Terms -> SUBSET Books]]
      /\ rows \in [Languages -> SUBSET Books] /\ marked \in [Languages -> SUBSET Books]
  BY DEF Typed, WriterTyped
<1>1. CASE Begin(L)
  <2>1. PICK b \in Books \ marked[L] :
          /\ rows' = [rows EXCEPT ![L] = @ \cup {b}]
          /\ pending' = [pending EXCEPT ![L] =
                [t \in Terms |-> IF L # "cpp" /\ t \in TermsOf[b] THEN @[t] \cup {b} ELSE @[t]]]
          /\ job' = [job EXCEPT ![L] =
                [pc |-> "add", book |-> b, term |-> None,
                 todo |-> TermsOf[b] \cup {t \in Terms : pending[L][t] # {}}]]
    BY <1>1 DEF Begin
  <2>2. UNCHANGED <<setting, marked>>
    BY <1>1 DEF Begin
  <2>3. rows'[L] = rows[L] \cup {b} /\ \A K \in Languages \ {L} : rows'[K] = rows[K]
    BY <2>1, <1>a
  <2>4. job'[L].book = b /\ \A K \in Languages \ {L} : job'[K] = job[K]
    BY <2>1, <1>a
  <2>5. /\ \A t \in Terms : pending'[L][t] \subseteq pending[L][t] \cup {c \in {b} : t \in TermsOf[c]}
        /\ \A K \in Languages \ {L} : pending'[K] = pending[K]
    BY <2>1, <1>a
  <2> QED BY <2>2, <2>3, <2>4, <2>5 DEF RunsAreTrue
<1>2. CASE Mark(L)
  <2>1. job[L].book \in Books /\ None \notin Books
    BY <1>2, SearchAssumption DEF Mark, Typed, WriterTyped, BookUnderWay, SearchAssumption
  <2>2. job[L].book \in rows[L]
    BY <2>1 DEF RunsAreTrue
  <2>3. /\ marked'[L] = marked[L] \cup {job[L].book}
        /\ \A K \in Languages \ {L} : marked'[K] = marked[K]
    BY <1>2, <1>a DEF Mark
  <2>4. job'[L].book = None /\ \A K \in Languages \ {L} : job'[K] = job[K]
    BY <1>2, <1>a DEF Mark, Idle
  <2>5. \A K \in Languages, t \in Terms : pending'[K][t] \subseteq pending[K][t]
    BY <1>2, <1>a DEF Mark, NothingPending
  <2> QED BY <1>2, <2>2, <2>3, <2>4, <2>5 DEF Mark, RunsAreTrue
<1>3. CASE ~ Begin(L) /\ ~ Mark(L)
  BY <1>3, BooksUnderWay DEF RunsAreTrue
<1> QED BY <1>1, <1>2, <1>3

LEMMA ListsStayTrue ==
    ASSUME Typed, RunsAreTrue, ListsAreTrue, Write
    PROVE  RunsAreTrue' /\ ListsAreTrue'
<1>1. PICK L \in setting.writers : Step(L)
  BY DEF Write
<1>2. L \in Languages /\ setting.writers \subseteq Languages
  BY SettingTyped DEF Typed, WriterTyped
<1>3. /\ RunsAreTrue' /\ UNCHANGED setting
      /\ \A K \in Languages : rows[K] \subseteq rows'[K]
  BY <1>1, <1>2, RunsStayTrue
<1>4. \A t \in Terms : Right(t) \subseteq Right(t)'
  BY <1>2, <1>3 DEF Right, Known
<1>5. ASSUME NEW t \in Terms PROVE PendingOrOwn(L, t) \subseteq Right(t)
  <2>1. pending[L][t] \subseteq Right(t)
    BY <1>2, <1>1 DEF RunsAreTrue, Right, Known
  <2>2. OwnPostings(L, t) \subseteq Right(t)
    BY <1>2, <1>1 DEF RunsAreTrue, Right, Known, OwnPostings, OwnBooks
  <2> QED BY <2>1, <2>2 DEF PendingOrOwn
<1>6. \A t \in Terms : Range(store'[t]) \subseteq Range(store[t]) \cup PendingOrOwn(L, t)
  BY <1>1, <1>2, StoreSteps DEF ListsGrow
<1>7. UNCHANGED <<opened, lists>>
  BY DEF Write, search
<1> QED BY <1>3, <1>4, <1>5, <1>6, <1>7 DEF ListsAreTrue

LEMMA ReadingStaysTrue ==
    ASSUME Typed, ListsAreTrue, Read
    PROVE  ListsAreTrue'
<1>a. UNCHANGED <<setting, store, rows>>
  BY DEF Read, writing, stored
<1>b. \A t \in Terms : Right(t)' = Right(t)
  BY <1>a DEF Right, Known
<1>1. CASE UNCHANGED <<opened, lists>>
  BY <1>1, <1>a, <1>b DEF ListsAreTrue
<1>2. CASE Ask
  <2>1. UNCHANGED lists /\ (opened' = store \/ opened' = EmptyIndex)
    BY <1>2 DEF Ask
  <2> QED BY <1>a, <1>b, <2>1, EmptyRange DEF ListsAreTrue, EmptyIndex
<1>3. CASE ReadPostings
  <2>1. PICK t \in unread, l \in Lists : IsPostings(l, t) /\ lists' = [lists EXCEPT ![t] = l]
    BY <1>3 DEF ReadPostings
  <2>2. t \in Terms /\ lists \in [Terms -> Seq(Books)]
    BY DEF Typed, SearchTyped
  <2>3. Range(l) = Range(Found(t))
    BY <2>1 DEF IsPostings, IsListOf
  <2>4. Range(l) \subseteq Right(t)
    BY <2>2, <2>3 DEF Found, ListsAreTrue
  <2>5. UNCHANGED opened
    BY <1>3 DEF ReadPostings
  <2> QED BY <1>a, <1>b, <2>1, <2>2, <2>4, <2>5 DEF ListsAreTrue
<1>4. CASE EndSearch
  BY <1>4, <1>a, <1>b, EmptyRange DEF EndSearch, ListsAreTrue, EmptyIndex
<1> QED BY <1>1, <1>2, <1>3, <1>4
        DEF Read, SearchStep, TakeFirst, TakeNext, KeepBoth, SkipLower, Merged, Answer

LEMMA ReadingKeepsCommon ==
    ASSUME TruthInv, Read
    PROVE  ResultIsCommon'
<1> USE DEF TruthInv
<1>a. Typed' /\ UNCHANGED setting
  BY ReadTyped DEF Read, writing
<1>1. CASE Ask
  <2>1. phase = "idle" /\ phase' \in {"reading", "failed"} /\ UNCHANGED result
    BY <1>1 DEF Ask, Opening
  <2>2. query' # {}
    BY <1>1, SearchAssumption DEF Ask, SearchAssumption
  <2> QED BY <2>1, <2>2 DEF ResultIsCommon, AnswersHaveTitles
<1>2. CASE ReadPostings
  <2>1. /\ phase = "reading" /\ phase' \in {"reading", "answered"}
        /\ UNCHANGED <<result, query, setting, reader>>
    BY <1>2, <1>a DEF ReadPostings, SearchGoesOn
  <2> QED BY <2>1, EmptyRange DEF ResultIsCommon, AnswersHaveTitles
<1>3. CASE TakeFirst
  <2>1. PICK t \in query : result' = lists[t] /\ left' = query \ {t}
    BY <1>3 DEF TakeFirst
  <2>2. phase = "reading" /\ phase' = "choosing" /\ UNCHANGED <<lists, query>>
    BY <1>3 DEF TakeFirst, SearchGoesOn
  <2> QED BY <2>1, <2>2 DEF ResultIsCommon, Within, AnswersHaveTitles
<1>4. CASE TakeNext
  <2>1. PICK t \in left : current' = t /\ left' = left \ {t}
    BY <1>4 DEF TakeNext
  <2>2. /\ phase = "choosing" /\ phase' = "merging" /\ out' = <<>>
        /\ UNCHANGED <<lists, query, result>>
    BY <1>4 DEF TakeNext, SearchGoesOn
  <2>3. t \in query /\ left \subseteq query /\ left' \cup {t} = left
    BY <2>1 DEF Typed, SearchTyped
  <2> QED BY <2>1, <2>2, <2>3, EmptyRange DEF ResultIsCommon, Within, AnswersHaveTitles
<1>5. CASE KeepBoth
  <2>1. /\ phase = "merging" /\ phase' = "merging"
        /\ out' = Append(out, result[i]) /\ result[i] = lists[current][j]
        /\ i \in DOMAIN result /\ j \in DOMAIN lists[current]
        /\ UNCHANGED <<lists, query, result, left, current>>
    BY <1>5 DEF KeepBoth, SearchGoesOn, Typed, SearchTyped
  <2>2. result[i] \in Range(result) /\ result[i] \in Range(lists[current]) /\ result[i] \in Books
    BY <2>1 DEF Range, Typed, SearchTyped
  <2>3. Range(out') = Range(out) \cup {result[i]}
    BY <2>1, <2>2, RangeOfAppend DEF Typed, SearchTyped
  <2> QED BY <2>1, <2>2, <2>3 DEF ResultIsCommon, Within, AnswersHaveTitles
<1>6. CASE SkipLower
  BY <1>6 DEF SkipLower, SearchGoesOn, ResultIsCommon, Within, AnswersHaveTitles
<1>7. CASE Merged
  <2>1. /\ phase = "merging" /\ phase' = "choosing" /\ result' = out
        /\ UNCHANGED <<lists, query, left>>
    BY <1>7 DEF Merged, SearchGoesOn
  <2>2. query \ left = (query \ (left \cup {current})) \cup {current}
    BY <2>1 DEF ResultIsCommon
  <2> QED BY <2>1, <2>2 DEF ResultIsCommon, Within, AnswersHaveTitles
<1>8. CASE Answer
  <2>1. /\ phase = "choosing" /\ phase' = "answered" /\ (left = {} \/ result = <<>>)
        /\ titles' = Range(result) \cap rows[reader]
        /\ UNCHANGED <<lists, query, left, result, reader, setting>>
    BY <1>8, <1>a DEF Answer, SearchGoesOn
  <2>2. result = <<>> \/ Within(result, query)
    BY <2>1 DEF ResultIsCommon
  <2>3. ASSUME setting.writers = {reader} PROVE Range(result) \subseteq rows[reader]
    <3>0. query \ left # {}
      BY <2>1 DEF ResultIsCommon, Typed, SearchTyped
    <3>1. PICK t \in query \ left : Range(result) \subseteq Range(lists[t])
      <4>1. Within(result, query \ left)
        BY <2>1 DEF ResultIsCommon
      <4> QED BY <3>0, <4>1 DEF Within
    <3>2. Range(result) \subseteq Right(t)
      BY <3>1 DEF ListsAreTrue, Typed, SearchTyped
    <3> QED BY <2>3, <3>2 DEF Right, Known
  <2>4. AnswersHaveTitles'
    BY <2>1, <2>3 DEF AnswersHaveTitles
  <2>6. query' # {}
    BY <2>1 DEF ResultIsCommon
  <2>7. result = <<>> \/ Within(result, query) => (result = <<>> \/ Within(result, query))'
    BY <2>1 DEF Within
  <2> QED BY <2>1, <2>2, <2>4, <2>6, <2>7 DEF ResultIsCommon
<1>9. CASE EndSearch
  BY <1>9 DEF EndSearch, ResultIsCommon, AnswersHaveTitles
<1> QED BY <1>1, <1>2, <1>3, <1>4, <1>5, <1>6, <1>7, <1>8, <1>9 DEF Read, SearchStep

LEMMA TruthKept == TruthInv /\ [Next]_vars => TruthInv'
<1> SUFFICES ASSUME TruthInv, [Next]_vars PROVE TruthInv'
  OBVIOUS
<1>1. Typed'
  BY NextTyped DEF TruthInv
<1>2. CASE Write
  <2>1. RunsAreTrue' /\ ListsAreTrue'
    BY <1>2, ListsStayTrue DEF TruthInv
  <2>2. UNCHANGED setting
    BY <1>2, RunsStayTrue, SettingTyped DEF Write, TruthInv, Typed, WriterTyped
  <2>3. ResultIsCommon'
    BY <1>2, <2>2 DEF Write, search, pointers, TruthInv, ResultIsCommon, Within, AnswersHaveTitles
  <2> QED BY <1>1, <2>1, <2>3 DEF TruthInv
<1>3. CASE Read
  <2>1. RunsAreTrue'
    BY <1>3 DEF Read, writing, TruthInv, RunsAreTrue
  <2> QED BY <1>1, <1>3, <2>1, ReadingStaysTrue, ReadingKeepsCommon DEF TruthInv
<1>4. CASE UNCHANGED vars
  <2> USE <1>4 DEF vars, writing, stored, search, pointers, TruthInv
  <2>1. RunsAreTrue'
    BY DEF RunsAreTrue
  <2>2. ListsAreTrue'
    BY DEF ListsAreTrue, Right, Known
  <2>3. ResultIsCommon'
    BY DEF ResultIsCommon, Within, AnswersHaveTitles
  <2> QED BY <1>1, <2>1, <2>2, <2>3
<1> QED BY <1>2, <1>3, <1>4 DEF Next

LEMMA TruthInvariant == Spec => []TruthInv
<1>1. Init => TruthInv
  BY InitTyped, InitTrue DEF TruthInv
<1> QED BY <1>1, TruthKept, PTL DEF Spec

(* Whatever is written, torn or deleted while it reads, a search names only *)
(* books that have every term of the query.                                 *)
THEOREM SearchTellsTheTruth == Spec => []AnswersAreTrue
<1>1. TruthInv => AnswersAreTrue
  <2> SUFFICES ASSUME TruthInv, phase = "answered", NEW b \in Range(result), NEW t \in query
               PROVE  t \in TermsOf[b]
    <3>1. TermsOf \in [Books -> SUBSET Terms]
      BY SearchAssumption DEF SearchAssumption
    <3> QED BY DEF AnswersAreTrue
  <2>1. b \in Range(lists[t])
    BY EmptyRange DEF TruthInv, ResultIsCommon, Within
  <2> QED BY <2>1 DEF TruthInv, ListsAreTrue, Right, Typed, SearchTyped
<1> QED BY <1>1, TruthInvariant, PTL

(* In a structure of one's own each answer has its title, although rows and *)
(* postings are read at different moments.                                  *)
THEOREM TitlesAreThere == Spec => []AnswersHaveTitles
<1>1. TruthInv => AnswersHaveTitles
  BY DEF TruthInv, ResultIsCommon
<1> QED BY <1>1, TruthInvariant, PTL

-----------------------------------------------------------------------------
(* Two pointers over sorted lists find what is in both.                     *)

\* What the pointer k of a has passed and is in b was kept in o.
Passed(a, b, o, k) ==
    \A m \in DOMAIN a : m < k /\ a[m] \in Range(b) => a[m] \in Range(o)

\* What was kept comes from before the pointer.
Kept(o, a, k) == \A m \in DOMAIN o : \E n \in DOMAIN a : n < k /\ o[m] = a[n]

LEMMA BooksAreNumbers == Books \subseteq Nat
BY SearchAssumption DEF SearchAssumption

LEMMA PassOne ==
    ASSUME NEW a \in Seq(Books), NEW b \in Seq(Books), NEW o, NEW p, NEW k \in DOMAIN a,
           Passed(a, b, o, k), Range(o) \subseteq Range(p), a[k] \in Range(b) => a[k] \in Range(p)
    PROVE  Passed(a, b, p, k + 1)
<1> SUFFICES ASSUME NEW m \in DOMAIN a, m < k + 1, a[m] \in Range(b)
             PROVE  a[m] \in Range(p)
  BY DEF Passed
<1>1. m \in Nat /\ k \in Nat
  OBVIOUS
<1>2. CASE m < k
  BY <1>2 DEF Passed
<1>3. CASE m = k
  BY <1>3
<1> QED BY <1>1, <1>2, <1>3

(* The lower of two ids is not further on in the other list.                *)
LEMMA LowerWasPassed ==
    ASSUME NEW a \in Seq(Books), NEW b \in Seq(Books), NEW o,
           NEW k \in DOMAIN a, NEW l \in DOMAIN b,
           Ascending(b), a[k] < b[l], Passed(b, a, o, l), a[k] \in Range(b)
    PROVE  a[k] \in Range(o)
<1>1. PICK m \in DOMAIN b : b[m] = a[k]
  BY DEF Range
<1>2. m \in Nat /\ l \in Nat /\ b[m] \in Nat /\ b[l] \in Nat /\ b[m] < b[l]
  <2>1. m \in Nat /\ l \in Nat /\ b[m] \in Books /\ b[l] \in Books
    OBVIOUS
  <2> QED BY <1>1, <2>1, BooksAreNumbers
<1>3. m < l
  <2>1. ~ (l < m)
    BY <1>2 DEF Ascending
  <2>2. m # l
    BY <1>2
  <2> QED BY <1>2, <2>1, <2>2
<1>4. b[m] \in Range(a)
  BY <1>1 DEF Range
<1> QED BY <1>1, <1>3, <1>4 DEF Passed

LEMMA KeepOne ==
    ASSUME NEW a \in Seq(Books), NEW o \in Seq(Books), NEW k \in DOMAIN a,
           Ascending(a), Ascending(o), Kept(o, a, k)
    PROVE  Ascending(Append(o, a[k])) /\ Kept(Append(o, a[k]), a, k + 1)
<1> DEFINE p == Append(o, a[k])
<1>1. /\ a[k] \in Books /\ DOMAIN o = 1 .. Len(o) /\ Len(o) \in Nat
      /\ DOMAIN p = 1 .. Len(o) + 1 /\ p[Len(o) + 1] = a[k]
      /\ \A m \in 1 .. Len(o) : p[m] = o[m]
  OBVIOUS
<1> HIDE DEF p
<1>2. ASSUME NEW m \in DOMAIN o PROVE p[m] < a[k]
  <2>1. PICK n \in DOMAIN a : n < k /\ o[m] = a[n]
    BY DEF Kept
  <2> QED BY <1>1, <2>1 DEF Ascending
<1>3. Ascending(p)
  <2> SUFFICES ASSUME NEW m \in DOMAIN p, NEW n \in DOMAIN p, m < n PROVE p[m] < p[n]
    BY DEF Ascending
  <2>1. CASE n = Len(o) + 1
    BY <1>1, <1>2, <2>1
  <2>2. CASE n # Len(o) + 1
    <3>1. m \in DOMAIN o /\ n \in DOMAIN o
      BY <1>1, <2>2
    <3> QED BY <1>1, <3>1 DEF Ascending
  <2> QED BY <2>1, <2>2
<1>4. Kept(p, a, k + 1)
  <2> SUFFICES ASSUME NEW m \in DOMAIN p PROVE \E n \in DOMAIN a : n < k + 1 /\ p[m] = a[n]
    BY DEF Kept
  <2>1. CASE m = Len(o) + 1
    <3>1. k \in Nat /\ k < k + 1
      OBVIOUS
    <3> QED BY <1>1, <2>1, <3>1
  <2>2. CASE m # Len(o) + 1
    <3>1. m \in DOMAIN o
      BY <1>1, <2>2
    <3>2. PICK n \in DOMAIN a : n < k /\ o[m] = a[n]
      BY <3>1 DEF Kept
    <3>3. n < k + 1
      BY <3>2
    <3> QED BY <1>1, <3>1, <3>2, <3>3
  <2> QED BY <2>1, <2>2
<1> QED BY <1>3, <1>4 DEF p

LEMMA PassedAll ==
    ASSUME NEW a \in Seq(Books), NEW b \in Seq(Books), NEW o, NEW k \in Nat, NEW l \in Nat,
           Passed(a, b, o, k), Passed(b, a, o, l), k > Len(a) \/ l > Len(b),
           Range(o) \subseteq Range(a) \cap Range(b)
    PROVE  Range(o) = Range(a) \cap Range(b)
<1> SUFFICES ASSUME NEW c \in Range(a), c \in Range(b) PROVE c \in Range(o)
  OBVIOUS
<1>1. PICK m \in DOMAIN a : a[m] = c
  BY DEF Range
<1>2. PICK n \in DOMAIN b : b[n] = c
  BY DEF Range
<1>3. m < k \/ n < l
  OBVIOUS
<1> QED BY <1>1, <1>2, <1>3 DEF Passed

-----------------------------------------------------------------------------
(* The answer is the whole intersection.                                    *)
Common(S) == {b \in Books : \A t \in S : b \in Range(lists[t])}

ListsInOrder ==
    /\ setting.writers = {"cpp"} \/ ~ Mongo =>
          \A t \in Terms : Ascending(store[t]) /\ Ascending(opened[t])
    /\ ListsAreSorted => \A t \in Terms : Ascending(lists[t])

IntersectionIsExact ==
    /\ phase \in {"choosing", "merging"} => unread = {}
    /\ phase = "choosing" => IsListOf(result, Common(query \ left))
    /\ phase = "merging" => /\ IsListOf(result, Common(query \ (left \cup {current})))
                            /\ Ascending(out) /\ Kept(out, result, i)
                            /\ Passed(result, lists[current], out, i)
                            /\ Passed(lists[current], result, out, j)
    /\ phase = "answered" => IsListOf(result, InAllLists)

ExactInv == TruthInv /\ ListsInOrder /\ (ListsAreSorted => IntersectionIsExact)

LEMMA InitExact == Init => ListsInOrder /\ (ListsAreSorted => IntersectionIsExact)
BY EmptyRange DEF Init, ListsInOrder, IntersectionIsExact, EmptyIndex

LEMMA ListsStayInOrder ==
    ASSUME Typed, ListsInOrder, [Next]_vars, phase = "idle" => lists = EmptyIndex
    PROVE  ListsInOrder'
<1>1. CASE Write
  <2>1. PICK L \in setting.writers : Step(L)
    BY <1>1 DEF Write
  <2>2. L \in Languages
    BY <2>1, SettingTyped DEF Typed, WriterTyped
  <2>3. ListsGrow(L)
    BY <2>1, <2>2, StoreSteps
  <2>4. UNCHANGED setting
    BY <2>1, <2>2, BooksUnderWay DEF Begin, Mark
  <2>5. UNCHANGED <<opened, lists, reader>>
    BY <1>1 DEF Write, search
  <2>6. setting.writers = {"cpp"} => L = "cpp"
    OBVIOUS
  <2> QED BY <2>3, <2>4, <2>5, <2>6 DEF ListsInOrder, ListsGrow, ListsAreSorted, Mongo
<1>2. CASE Read
  <2>a. UNCHANGED <<setting, store>>
    BY <1>2 DEF Read, writing, stored
  <2>1. CASE UNCHANGED <<opened, lists, reader>>
    BY <2>1, <2>a DEF ListsInOrder, ListsAreSorted, Mongo
  <2>2. CASE Ask
    <3>1. lists' = EmptyIndex /\ (opened' = store \/ opened' = EmptyIndex)
      BY <2>2 DEF Ask
    <3> QED BY <2>a, <3>1, EmptyRange DEF ListsInOrder, ListsAreSorted, Mongo, EmptyIndex
  <2>3. CASE ReadPostings
    <3>1. PICK t \in unread, l \in Lists : IsPostings(l, t) /\ lists' = [lists EXCEPT ![t] = l]
      BY <2>3 DEF ReadPostings
    <3>2. t \in Terms /\ lists \in [Terms -> Seq(Books)]
      BY DEF Typed, SearchTyped
    <3>3. ListsAreSorted => Ascending(l)
      BY <3>1, <3>2 DEF ListsAreSorted, IsPostings, IsListOf, Found, ListsInOrder
    <3>4. UNCHANGED <<opened, reader>>
      BY <2>3 DEF ReadPostings, SearchGoesOn
    <3> QED BY <2>a, <3>1, <3>2, <3>3, <3>4 DEF ListsInOrder, ListsAreSorted, Mongo
  <2>4. CASE EndSearch
    BY <2>4, <2>a, EmptyRange DEF EndSearch, ListsInOrder, ListsAreSorted, Mongo, EmptyIndex
  <2> QED BY <1>2, <2>1, <2>2, <2>3, <2>4
          DEF Read, SearchStep, SearchGoesOn, TakeFirst, TakeNext, KeepBoth, SkipLower, Merged, Answer
<1>3. CASE UNCHANGED vars
  BY <1>3 DEF vars, writing, stored, search, ListsInOrder, ListsAreSorted, Mongo
<1> QED BY <1>1, <1>2, <1>3 DEF Next

LEMMA SearchStaysExact ==
    ASSUME ExactInv, Read, Typed', ListsInOrder', ListsAreSorted'
    PROVE  IntersectionIsExact'
<1> USE DEF ExactInv, TruthInv
<1>1. CASE Ask \/ EndSearch
  BY <1>1 DEF Ask, Opening, EndSearch, IntersectionIsExact
<1> SUFFICES ASSUME SearchStep, UNCHANGED writing PROVE IntersectionIsExact'
  BY <1>1 DEF Read
<1>a. ListsAreSorted /\ IntersectionIsExact
  BY DEF SearchStep, ReadPostings, TakeFirst, TakeNext, KeepBoth, SkipLower, Merged, Answer,
         SearchGoesOn, writing, ListsAreSorted, Mongo
<1>b. \A t \in Terms : Ascending(lists[t]) /\ lists[t] \in Seq(Books) /\ Range(lists[t]) \subseteq Books
  BY <1>a DEF ListsInOrder, Typed, SearchTyped, Range
<1>c. /\ query \subseteq Terms /\ left \subseteq query /\ unread \subseteq query
      /\ result \in Seq(Books) /\ out \in Seq(Books) /\ i \in Nat /\ j \in Nat
      /\ i # 0 /\ j # 0
  BY DEF Typed, SearchTyped
<1>2. CASE ReadPostings
  <2>1. PICK t \in unread, l \in Lists :
          /\ lists' = [lists EXCEPT ![t] = l] /\ unread' = unread \ {t}
          /\ phase' = IF reader # "cpp" /\ l = <<>> THEN "answered" ELSE "reading"
    BY <1>2 DEF ReadPostings
  <2>2. phase = "reading" /\ UNCHANGED <<result, query>>
    BY <1>2 DEF ReadPostings, SearchGoesOn
  <2>3. CASE phase' = "answered"
    <3>1. lists'[t] = <<>> /\ t \in query' \ unread'
      BY <1>c, <2>1, <2>2, <2>3 DEF Typed, SearchTyped
    <3>2. InAllLists' = {}
      BY <3>1, EmptyRange DEF InAllLists
    <3>3. result' = <<>>
      BY <2>2 DEF ResultIsCommon
    <3> QED BY <2>3, <3>2, <3>3, EmptyRange DEF IntersectionIsExact, IsListOf
  <2>4. CASE phase' = "reading"
    BY <2>4 DEF IntersectionIsExact
  <2> QED BY <2>1, <2>3, <2>4
<1>3. CASE TakeFirst
  <2>1. PICK t \in query : result' = lists[t] /\ left' = query \ {t}
    BY <1>3 DEF TakeFirst
  <2>2. phase' = "choosing" /\ unread' = {} /\ UNCHANGED <<lists, query>>
    BY <1>3 DEF TakeFirst, SearchGoesOn
  <2>3. query' \ left' = {t}
    BY <2>1, <2>2
  <2>4. Common(query \ left)' = Range(lists[t])
    BY <1>b, <1>c, <2>2, <2>3 DEF Common
  <2> QED BY <1>b, <1>c, <2>1, <2>2, <2>4 DEF IntersectionIsExact, IsListOf
<1>4. CASE TakeNext
  <2>1. PICK t \in left : current' = t /\ left' = left \ {t}
    BY <1>4 DEF TakeNext
  <2>2. /\ phase = "choosing" /\ phase' = "merging" /\ i' = 1 /\ j' = 1 /\ out' = <<>>
        /\ UNCHANGED <<lists, query, result, unread>>
    BY <1>4 DEF TakeNext, SearchGoesOn
  <2>3. query' \ (left' \cup {current'}) = query \ left
    BY <2>1, <2>2
  <2>4. Common(query \ (left \cup {current}))' = Common(query \ left)
    BY <2>2, <2>3 DEF Common
  <2>5. Kept(<<>>, result, 1)
    BY DEF Kept
  <2>6. \A a \in Seq(Books) : \A b : Passed(a, b, <<>>, 1)
    BY DEF Passed
  <2>7. current' \in Terms
    BY <1>c, <2>1
  <2> QED BY <1>a, <1>b, <1>c, <2>2, <2>4, <2>5, <2>6, <2>7, EmptyRange DEF IntersectionIsExact
<1>5. CASE KeepBoth
  <2> DEFINE b == lists[current]
  <2>1. /\ phase = "merging" /\ phase' = "merging"
        /\ out' = Append(out, result[i]) /\ result[i] = b[j]
        /\ i \in DOMAIN result /\ j \in DOMAIN b /\ i' = i + 1 /\ j' = j + 1
        /\ UNCHANGED <<lists, query, result, left, current, unread>>
    BY <1>5, <1>c DEF KeepBoth, SearchGoesOn, Typed, SearchTyped
  <2>2. b \in Seq(Books) /\ result[i] \in Books
    BY <1>b, <1>c, <2>1 DEF ResultIsCommon
  <2>3. Range(out') = Range(out) \cup {result[i]}
    BY <1>c, <2>1, <2>2, RangeOfAppend
  <2>4. /\ Ascending(result) /\ Ascending(out) /\ Kept(out, result, i)
        /\ Passed(result, b, out, i) /\ Passed(b, result, out, j)
    BY <1>a, <2>1 DEF IntersectionIsExact, IsListOf
  <2>5. Ascending(out') /\ Kept(out', result, i + 1)
    BY <1>c, <2>1, <2>4, KeepOne
  <2>6. Passed(result, b, out', i + 1) /\ Passed(b, result, out', j + 1)
    BY <1>c, <2>1, <2>2, <2>3, <2>4, PassOne
  <2>7. IsListOf(result, Common(query \ (left \cup {current})))'
    BY <1>a, <2>1 DEF IntersectionIsExact, Common
  <2>8. unread' = {}
    BY <1>a, <2>1 DEF IntersectionIsExact
  <2> QED BY <2>1, <2>5, <2>6, <2>7, <2>8 DEF IntersectionIsExact
<1>6. CASE SkipLower
  <2> DEFINE b == lists[current]
  <2>1. /\ phase = "merging" /\ phase' = "merging"
        /\ i \in DOMAIN result /\ j \in DOMAIN b
        /\ \/ result[i] < b[j] /\ i' = i + 1 /\ j' = j
           \/ b[j] < result[i] /\ i' = i /\ j' = j + 1
        /\ UNCHANGED <<lists, query, result, left, current, unread, out>>
    <3>1. current \in Terms
      BY <1>6 DEF SkipLower, Typed, SearchTyped
    <3>2. /\ i \in DOMAIN result /\ j \in DOMAIN b
      BY <1>6, <1>c, <1>b, <3>1 DEF SkipLower
    <3>3. result[i] \in Nat /\ b[j] \in Nat
      <4>1. result[i] \in Books /\ b[j] \in Books
        BY <1>b, <1>c, <3>1, <3>2
      <4> QED BY <4>1, BooksAreNumbers
    <3> QED BY <1>6, <3>2, <3>3 DEF SkipLower, SearchGoesOn
  <2>2. b \in Seq(Books) /\ Ascending(b)
    BY <1>b, <1>c, <2>1 DEF ResultIsCommon
  <2>4. /\ Ascending(result) /\ Ascending(out) /\ Kept(out, result, i)
        /\ Passed(result, b, out, i) /\ Passed(b, result, out, j)
    BY <1>a, <2>1 DEF IntersectionIsExact, IsListOf
  <2>5. IsListOf(result, Common(query \ (left \cup {current})))'
    BY <1>a, <2>1 DEF IntersectionIsExact, Common
  <2>6. unread' = {}
    BY <1>a, <2>1 DEF IntersectionIsExact
  <2>7. CASE result[i] < b[j] /\ i' = i + 1 /\ j' = j
    <3>1. result[i] \in Range(b) => result[i] \in Range(out)
      BY <1>c, <2>1, <2>2, <2>4, <2>7, LowerWasPassed
    <3>2. Passed(result, b, out, i + 1)
      BY <1>c, <2>1, <2>2, <2>4, <3>1, PassOne
    <3>3. Kept(out, result, i + 1)
      BY <1>c, <2>4 DEF Kept
    <3> QED BY <2>1, <2>4, <2>5, <2>6, <2>7, <3>2, <3>3 DEF IntersectionIsExact
  <2>8. CASE b[j] < result[i] /\ i' = i /\ j' = j + 1
    <3>1. b[j] \in Range(result) => b[j] \in Range(out)
      BY <1>c, <2>1, <2>2, <2>4, <2>8, LowerWasPassed
    <3>2. Passed(b, result, out, j + 1)
      BY <1>c, <2>1, <2>2, <2>4, <3>1, PassOne
    <3> QED BY <2>1, <2>4, <2>5, <2>6, <2>8, <3>2 DEF IntersectionIsExact
  <2> QED BY <2>1, <2>7, <2>8
<1>7. CASE Merged
  <2> DEFINE b == lists[current]
  <2>1. /\ phase = "merging" /\ phase' = "choosing" /\ result' = out
        /\ i > Len(result) \/ j > Len(b)
        /\ UNCHANGED <<lists, query, left, unread>>
    BY <1>7 DEF Merged, SearchGoesOn
  <2>2. /\ b \in Seq(Books) /\ current \in query \ left
        /\ Range(out) \subseteq Range(result) \cap Range(b)
    BY <1>b, <1>c, <2>1 DEF ResultIsCommon
  <2>3. Range(out) = Range(result) \cap Range(b)
    BY <1>a, <1>c, <2>1, <2>2, PassedAll DEF IntersectionIsExact
  <2>4. Range(result) = Common(query \ (left \cup {current})) /\ Ascending(out) /\ unread = {}
    BY <1>a, <2>1 DEF IntersectionIsExact, IsListOf
  <2>5. query \ left = (query \ (left \cup {current})) \cup {current}
    BY <2>2
  <2>6. Range(out) = Common(query \ left)
    BY <2>3, <2>4, <2>5 DEF Common
  <2>7. Common(query \ left)' = Common(query \ left)
    BY <2>1 DEF Common
  <2> QED BY <2>1, <2>4, <2>6, <2>7 DEF IntersectionIsExact, IsListOf
<1>8. CASE Answer
  <2>1. /\ phase = "choosing" /\ phase' = "answered"
        /\ (left = {} \/ result = <<>>)
        /\ UNCHANGED <<lists, query, left, result, unread>>
    BY <1>8 DEF Answer, SearchGoesOn
  <2>2. IsListOf(result, Common(query \ left)) /\ unread = {}
    BY <1>a, <2>1 DEF IntersectionIsExact
  <2>3. InAllLists' = Common(query)
    BY <2>1, <2>2 DEF InAllLists, Common
  <2>4. Common(query) \subseteq Common(query \ left)
    BY DEF Common
  <2>5. CASE left = {}
    BY <2>1, <2>2, <2>3, <2>5 DEF IntersectionIsExact
  <2>6. CASE result = <<>>
    <3>1. Common(query) = {}
      BY <2>2, <2>4, <2>6, EmptyRange DEF IsListOf
    <3> QED BY <2>1, <2>3, <2>6, <3>1, EmptyRange DEF IntersectionIsExact, IsListOf
  <2> QED BY <2>1, <2>5, <2>6
<1> QED BY <1>2, <1>3, <1>4, <1>5, <1>6, <1>7, <1>8 DEF SearchStep

LEMMA ExactKept == ExactInv /\ [Next]_vars => ExactInv'
<1> SUFFICES ASSUME ExactInv, [Next]_vars PROVE ExactInv'
  OBVIOUS
<1>1. TruthInv'
  BY TruthKept DEF ExactInv
<1>2. ListsInOrder'
  BY ListsStayInOrder DEF ExactInv, TruthInv, ResultIsCommon
<1>3. CASE Read
  BY <1>1, <1>2, <1>3, SearchStaysExact DEF ExactInv, TruthInv
<1>4. CASE Write \/ UNCHANGED vars
  <2>1. UNCHANGED search
    BY <1>4 DEF Write, vars
  <2>2. UNCHANGED setting
    BY <1>4, RunsStayTrue, SettingTyped
       DEF Write, vars, writing, ExactInv, TruthInv, Typed, WriterTyped
  <2>3. ListsAreSorted' = ListsAreSorted /\ IntersectionIsExact' = IntersectionIsExact
    BY <2>1, <2>2 DEF search, pointers, ListsAreSorted, Mongo, IntersectionIsExact, IsListOf,
                      InAllLists, Common, Kept, Passed
  <2> QED BY <1>1, <1>2, <2>3 DEF ExactInv
<1> QED BY <1>3, <1>4 DEF Next

(* The answer is the intersection of the lists read, sorted and without     *)
(* repetitions, wherever the lists are read sorted: the two pointers miss   *)
(* nothing, and stopping early loses nothing.                               *)
THEOREM SearchIntersects == Spec => []AnswersAreTheIntersection
<1>1. Init => ExactInv
  BY InitTyped, InitTrue, InitExact DEF ExactInv, TruthInv
<1>2. ExactInv => AnswersAreTheIntersection
  BY DEF ExactInv, IntersectionIsExact, AnswersAreTheIntersection
<1> QED BY <1>1, <1>2, ExactKept, PTL DEF Spec

-----------------------------------------------------------------------------
(* Where C++ does not write, no marked book is missing.                     *)
MarkedAreStored ==
    "cpp" \notin setting.writers => \A L \in setting.writers :
       /\ \A b \in marked[L] : \A t \in TermsOf[b] : b \in Range(store[t])
       /\ job[L].pc = "add" => \A t \in TermsOf[job[L].book] :
             \/ job[L].book \in Range(store[t])
             \/ t \in job[L].todo /\ job[L].book \in pending[L][t]
       /\ job[L].pc = "mark" => \A t \in TermsOf[job[L].book] : job[L].book \in Range(store[t])

ServedAreThere ==
    "cpp" \notin setting.writers /\ reader # "cpp" /\ phase \notin {"idle", "failed"} =>
       \A b \in served, t \in query :
          /\ b \in Range(Found(t))
          /\ t \in unread \/ b \in Range(lists[t])

ServedInv == ExactInv /\ MarkedAreStored /\ ServedAreThere

LEMMA InitServed == Init => MarkedAreStored /\ ServedAreThere
<1> SUFFICES ASSUME Init PROVE MarkedAreStored /\ ServedAreThere
  OBVIOUS
<1>1. setting.writers \subseteq Languages
  BY SettingTyped DEF Init
<1> QED BY <1>1 DEF Init, MarkedAreStored, ServedAreThere, Idle

(* A run of one language leaves those of the others alone.                  *)
LEMMA OthersStay ==
    ASSUME Typed, NEW K \in Languages, K # "cpp", Step(K), NEW L \in Languages, L # K
    PROVE  job'[L] = job[L] /\ pending'[L] = pending[L] /\ marked'[L] = marked[L]
<1>a. /\ job \in [Languages -> JobType] /\ pending \in [Languages -> [Terms -> SUBSET Books]]
      /\ marked \in [Languages -> SUBSET Books]
  BY DEF Typed, WriterTyped
<1>1. \E new : job' = [job EXCEPT ![K] = new]
  BY DEF Step, FlushFails, Open, Begin, MergeTermFile, AddToSet, ReplaceJson, AllWritten, Mark,
         Leave, MovesTo, Wrote
<1>2. (\E new : pending' = [pending EXCEPT ![K] = new]) \/ pending' = pending
  BY DEF Step, FlushFails, Open, Begin, MergeTermFile, AddToSet, ReplaceJson, AllWritten, Mark,
         Leave, WriterStays
<1>3. (\E new : marked' = [marked EXCEPT ![K] = new]) \/ marked' = marked
  BY DEF Step, FlushFails, Open, Begin, MergeTermFile, AddToSet, ReplaceJson, AllWritten, Mark,
         Leave, WriterStays
<1> QED BY <1>a, <1>1, <1>2, <1>3

LEMMA MarkedStayStored ==
    ASSUME Typed, MarkedAreStored, Write
    PROVE  MarkedAreStored'
<1>1. PICK K \in setting.writers : Step(K)
  BY DEF Write
<1>2. K \in Languages /\ setting.writers \subseteq Languages
  BY SettingTyped DEF Typed, WriterTyped
<1>3. UNCHANGED setting
  BY <1>1, <1>2, BooksUnderWay DEF Begin, Mark
<1> SUFFICES ASSUME "cpp" \notin setting.writers, NEW L \in setting.writers
             PROVE  /\ \A b \in marked'[L] : \A t \in TermsOf[b] : b \in Range(store'[t])
                    /\ job'[L].pc = "add" => \A t \in TermsOf[job'[L].book] :
                          \/ job'[L].book \in Range(store'[t])
                          \/ t \in job'[L].todo /\ job'[L].book \in pending'[L][t]
                    /\ job'[L].pc = "mark" =>
                          \A t \in TermsOf[job'[L].book] : job'[L].book \in Range(store'[t])
  BY <1>3 DEF MarkedAreStored
<1>4. \A b \in Books : TermsOf[b] \subseteq Terms
  BY SearchAssumption DEF SearchAssumption
<1>5. \A t \in Terms : Range(store[t]) \subseteq Range(store'[t])
  BY <1>1, <1>2, StoreSteps DEF ListsGrow
<1>6. /\ job \in [Languages -> JobType] /\ pending \in [Languages -> [Terms -> SUBSET Books]]
      /\ marked \in [Languages -> SUBSET Books] /\ store \in [Terms -> Seq(Books)]
      /\ marked[L] \subseteq Books /\ L \in Languages /\ K # "cpp"
      /\ job[L].pc \in {"add", "mark"} => job[L].book \in Books
  BY <1>1, <1>2 DEF Typed, WriterTyped, BookUnderWay
<1>7. /\ \A b \in marked[L] : \A t \in TermsOf[b] : b \in Range(store'[t])
      /\ job[L].pc = "add" => \A t \in TermsOf[job[L].book] :
             \/ job[L].book \in Range(store'[t])
             \/ t \in job[L].todo /\ job[L].book \in pending[L][t]
      /\ job[L].pc = "mark" => \A t \in TermsOf[job[L].book] : job[L].book \in Range(store'[t])
  BY <1>4, <1>5, <1>6 DEF MarkedAreStored
<1>8. CASE L # K
  BY <1>1, <1>2, <1>6, <1>7, <1>8, OthersStay
<1> SUFFICES ASSUME Step(L)
             PROVE  /\ \A b \in marked'[L] : \A t \in TermsOf[b] : b \in Range(store'[t])
                    /\ job'[L].pc = "add" => \A t \in TermsOf[job'[L].book] :
                          \/ job'[L].book \in Range(store'[t])
                          \/ t \in job'[L].todo /\ job'[L].book \in pending'[L][t]
                    /\ job'[L].pc = "mark" =>
                          \A t \in TermsOf[job'[L].book] : job'[L].book \in Range(store'[t])
  BY <1>1, <1>8
<1>9. CASE Begin(L)
  <2>1. PICK b \in Books \ marked[L] :
          /\ pending' = [pending EXCEPT ![L] =
                [t \in Terms |-> IF L # "cpp" /\ t \in TermsOf[b] THEN @[t] \cup {b} ELSE @[t]]]
          /\ job' = [job EXCEPT ![L] =
                [pc |-> "add", book |-> b, term |-> None,
                 todo |-> TermsOf[b] \cup {t \in Terms : pending[L][t] # {}}]]
    BY <1>9 DEF Begin
  <2>2. /\ job'[L].pc = "add" /\ job'[L].book = b /\ TermsOf[b] \subseteq job'[L].todo
        /\ \A t \in TermsOf[b] : b \in pending'[L][t]
    BY <1>4, <1>6, <2>1
  <2>3. marked'[L] = marked[L]
    BY <1>9 DEF Begin
  <2> QED BY <1>7, <2>2, <2>3
<1>10. ASSUME NEW t \in Terms, NEW l, store' = [store EXCEPT ![t] = l],
              pending[L][t] \subseteq Range(l), job[L].pc = "add", Wrote(L, t, "add"),
              UNCHANGED <<marked, pending>>
       PROVE  /\ \A b \in marked'[L] : \A u \in TermsOf[b] : b \in Range(store'[u])
              /\ job'[L].pc = "add" /\ \A u \in TermsOf[job'[L].book] :
                    \/ job'[L].book \in Range(store'[u])
                    \/ u \in job'[L].todo /\ job'[L].book \in pending'[L][u]
  <2>1. job'[L].pc = "add" /\ job'[L].book = job[L].book /\ job'[L].todo = job[L].todo \ {t}
    BY <1>6, <1>10, WroteTyped
  <2>2. store'[t] = l
    BY <1>6, <1>10
  <2> QED BY <1>7, <1>10, <2>1, <2>2
<1>11. CASE MergeTermFile(L)
  <2>1. PICK t \in job[L].todo, l \in Lists : /\ IsListOf(l, Range(store[t]) \cup pending[L][t])
                                             /\ store' = [store EXCEPT ![t] = l]
                                             /\ Wrote(L, t, "add")
    BY <1>11 DEF MergeTermFile
  <2>2. t \in Terms /\ job[L].pc = "add" /\ UNCHANGED <<marked, pending>>
    BY <1>6, <1>11, <2>1 DEF MergeTermFile, WriterStays, JobType
  <2> QED BY <1>10, <2>1, <2>2 DEF IsListOf
<1>12. CASE AddToSet(L)
  <2>1. PICK t \in job[L].todo, new \in Lists : /\ IsListOf(new, pending[L][t] \ Range(store[t]))
                                               /\ store' = [store EXCEPT ![t] = @ \o new]
                                               /\ Wrote(L, t, "add")
    BY <1>12 DEF AddToSet
  <2>2. t \in Terms /\ job[L].pc = "add" /\ UNCHANGED <<marked, pending>>
    BY <1>6, <1>12, <2>1 DEF AddToSet, WriterStays, JobType
  <2>3. Range(store[t] \o new) = Range(store[t]) \cup Range(new)
    BY <1>6, <2>2, RangeOfConcat, ListsAreSequences
  <2>4. pending[L][t] \subseteq Range(store[t] \o new)
    BY <2>1, <2>3 DEF IsListOf
  <2>5. store' = [store EXCEPT ![t] = store[t] \o new]
    BY <2>1
  <2> QED BY <1>10, <2>1, <2>2, <2>4, <2>5
<1>13. CASE ReplaceJson(L)
  <2>1. /\ \A t \in Terms : Range(store'[t]) = Range(store[t]) \cup pending[L][t]
        /\ MovesTo(L, "mark") /\ job[L].pc = "add" /\ UNCHANGED marked
    BY <1>13 DEF ReplaceJson, IsListOf, WriterStays
  <2>2. job'[L].pc = "mark" /\ job'[L].book = job[L].book
    BY <1>6, <2>1, MovesTyped
  <2> QED BY <1>4, <1>6, <1>7, <2>1, <2>2
<1>14. CASE AllWritten(L)
  <2>1. MovesTo(L, "mark") /\ job[L].pc = "add" /\ job[L].todo = {} /\ UNCHANGED <<marked, store>>
    BY <1>14 DEF AllWritten, WriterStays, stored
  <2>2. job'[L].pc = "mark" /\ job'[L].book = job[L].book
    BY <1>6, <2>1, MovesTyped
  <2> QED BY <1>7, <2>1, <2>2
<1>15. CASE Mark(L)
  <2>1. job[L].pc = "mark" /\ marked'[L] = marked[L] \cup {job[L].book} /\ job'[L].pc = "ready"
    BY <1>6, <1>15 DEF Mark, Idle
  <2> QED BY <1>7, <2>1
<1>16. CASE Open(L) \/ Leave(L) \/ (L = "java" /\ FlushFails)
  <2>1. job'[L].pc \in {"off", "ready"}
    BY <1>6, <1>16, MovesTyped DEF Open, Leave, FlushFails, Idle
  <2>2. UNCHANGED marked
    BY <1>16 DEF Open, Leave, FlushFails, WriterStays
  <2> QED BY <1>7, <2>1, <2>2
<1> QED BY <1>6, <1>9, <1>10, <1>11, <1>12, <1>13, <1>14, <1>15, <1>16 DEF Step

LEMMA ServedStayThere ==
    ASSUME Typed, MarkedAreStored, ServedAreThere, [Next]_vars
    PROVE  ServedAreThere'
<1>a. setting.writers \subseteq Languages
  BY SettingTyped DEF Typed, WriterTyped
<1>1. CASE Write
  <2>1. PICK L \in setting.writers : Step(L)
    BY <1>1 DEF Write
  <2>2. ListsGrow(L) /\ UNCHANGED setting
    BY <2>1, <1>a, StoreSteps, BooksUnderWay DEF Begin, Mark
  <2>3. UNCHANGED search
    BY <1>1 DEF Write
  <2>4. "cpp" \notin setting.writers =>
           \A t \in Terms : Range(Found(t)) \subseteq Range(Found(t)')
    BY <2>1, <2>2, <2>3 DEF ListsGrow, Found, PerTerm, search
  <2>5. query \subseteq Terms
    BY DEF Typed, SearchTyped
  <2> QED BY <2>2, <2>3, <2>4, <2>5 DEF ServedAreThere, search
<1>2. CASE Read
  <2>a. UNCHANGED <<setting, store>>
    BY <1>2 DEF Read, writing, stored
  <2>1. CASE Ask
    <3>1. /\ served' = {b \in UNION {marked[L] : L \in setting.writers} : query' \subseteq TermsOf[b]}
          /\ unread' = query' /\ opened' = IF PerTerm THEN EmptyIndex ELSE store
      BY <2>1 DEF Ask
    <3>2. \A t : Found(t)' = store[t]
      BY <2>a, <3>1 DEF Found, PerTerm
    <3> QED BY <2>a, <3>1, <3>2 DEF ServedAreThere, MarkedAreStored
  <2>2. CASE EndSearch
    BY <2>2 DEF EndSearch, ServedAreThere
  <2>3. CASE ReadPostings
    <3>1. PICK t \in unread, l \in Lists : /\ IsPostings(l, t)
                                          /\ lists' = [lists EXCEPT ![t] = l]
                                          /\ unread' = unread \ {t}
      BY <2>3 DEF ReadPostings
    <3>2. phase = "reading" /\ UNCHANGED <<opened, query, served, reader>>
      BY <2>3 DEF ReadPostings, SearchGoesOn
    <3>3. \A u : Found(u)' = Found(u)
      BY <2>a, <3>2 DEF Found, PerTerm
    <3>4. Range(l) = Range(Found(t))
      BY <3>1 DEF IsPostings, IsListOf
    <3>5. /\ lists'[t] = l /\ \A u \in Terms \ {t} : lists'[u] = lists[u]
          /\ query \subseteq Terms /\ unread \subseteq query
      BY <3>1 DEF Typed, SearchTyped
    <3> QED BY <2>a, <3>1, <3>2, <3>3, <3>4, <3>5 DEF ServedAreThere
  <2>4. CASE TakeFirst \/ TakeNext \/ KeepBoth \/ SkipLower \/ Merged \/ Answer
    <3>1. phase \in {"reading", "choosing", "merging"}
          /\ UNCHANGED <<opened, query, served, reader, unread, lists>>
      BY <2>4 DEF TakeFirst, TakeNext, KeepBoth, SkipLower, Merged, Answer, SearchGoesOn
    <3>2. \A u : Found(u)' = Found(u)
      BY <2>a, <3>1 DEF Found, PerTerm
    <3> QED BY <2>a, <3>1, <3>2 DEF ServedAreThere
  <2> QED BY <1>2, <2>1, <2>2, <2>3, <2>4 DEF Read, SearchStep
<1>3. CASE UNCHANGED vars
  BY <1>3 DEF vars, writing, stored, search, ServedAreThere, Found, PerTerm
<1> QED BY <1>1, <1>2, <1>3 DEF Next

LEMMA ServedKept == ServedInv /\ [Next]_vars => ServedInv'
<1> SUFFICES ASSUME ServedInv, [Next]_vars PROVE ServedInv'
  OBVIOUS
<1>1. ExactInv'
  BY ExactKept DEF ServedInv
<1>2. ServedAreThere'
  BY ServedStayThere DEF ServedInv, ExactInv, TruthInv
<1>3. CASE Write
  BY <1>1, <1>2, <1>3, MarkedStayStored DEF ServedInv, ExactInv, TruthInv
<1>4. CASE Read \/ UNCHANGED vars
  <2>1. UNCHANGED writing
    BY <1>4 DEF Read, vars
  <2>2. MarkedAreStored'
    BY <2>1 DEF writing, stored, ServedInv, MarkedAreStored
  <2> QED BY <1>1, <1>2, <2>2 DEF ServedInv
<1> QED BY <1>3, <1>4 DEF Next

(* Side by side with Java and Python pipelines, whatever they are stopped   *)
(* at, a Java or Python search finds every matching book that was marked    *)
(* before it began.                                                         *)
THEOREM MarkedBooksAreFound == Spec => []IndexedBooksAreFound
<1>1. Init => ServedInv
  BY InitTyped, InitTrue, InitExact, InitServed DEF ServedInv, ExactInv, TruthInv
<1>2. ServedInv => IndexedBooksAreFound
  <2> SUFFICES ASSUME ServedInv, phase = "answered", "cpp" \notin setting.writers, reader # "cpp"
               PROVE  served \subseteq Range(result)
    BY DEF IndexedBooksAreFound
  <2>1. Range(result) = InAllLists
    BY DEF ServedInv, ExactInv, ListsAreSorted, IntersectionIsExact, IsListOf
  <2>2. served \subseteq Books
    BY DEF ServedInv, ExactInv, TruthInv, Typed, SearchTyped
  <2>3. \A b \in served : \A t \in query \ unread : b \in Range(lists[t])
    BY DEF ServedInv, ServedAreThere
  <2> QED BY <2>1, <2>2, <2>3 DEF InAllLists
<1> QED BY <1>1, <1>2, ServedKept, PTL DEF Spec
=============================================================================
