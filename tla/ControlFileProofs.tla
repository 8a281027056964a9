-------------------------- MODULE ControlFileProofs --------------------------
(***************************************************************************)
(* Proofs about ControlFile, for every set of ids and any number of        *)
(* interruptions.  The two bounds are not inductive: what a process takes  *)
(* as recorded comes from the file it loaded, so the same bounds are kept  *)
(* of the file (FileTells), where an unfinished line is charged to the     *)
(* interruption that left it until the next mark is glued to it.           *)
(***************************************************************************)
EXTENDS ControlFile, FiniteSetTheorems, FunctionTheorems, TLAPS

LEMMA OneMoreAtMost ==
    ASSUME NEW S, IsFiniteSet(S), NEW x, NEW T, T \subseteq S \cup {x}
    PROVE  IsFiniteSet(T) /\ Cardinality(T) \in Nat /\ Cardinality(T) <= Cardinality(S) + 1
<1> DEFINE U == S \cup {x}
<1>1. /\ IsFiniteSet(U) /\ Cardinality(S) \in Nat
      /\ Cardinality(U) = Cardinality(S) \/ Cardinality(U) = Cardinality(S) + 1
  BY FS_AddElement, FS_CardinalityType
<1> HIDE DEF U
<1>2. T \subseteq U
  BY DEF U
<1>3. IsFiniteSet(T) /\ Cardinality(T) <= Cardinality(U)
  BY <1>1, <1>2, FS_Subset
<1>4. Cardinality(T) \in Nat
  BY <1>3, FS_CardinalityType
<1> QED BY <1>1, <1>3, <1>4

LEMMA NoMore ==
    ASSUME NEW S, IsFiniteSet(S), NEW T, T \subseteq S
    PROVE  /\ IsFiniteSet(T) /\ Cardinality(T) \in Nat /\ Cardinality(S) \in Nat
           /\ Cardinality(T) <= Cardinality(S)
BY FS_Subset, FS_CardinalityType

LEMMA IdsOfLines ==
    ASSUME NEW ls \in Seq(Seq(0 .. 9))
    PROVE  /\ IsFiniteSet(IdsIn(ls))
           /\ IdsIn(ls) \subseteq Seq(0 .. 9)
           /\ \A n \in IdsIn(ls) : Parses(n)
<1> DEFINE Places == {j \in DOMAIN ls : Parses(ls[j])}
<1>1. IsFiniteSet(1 .. Len(ls)) /\ DOMAIN ls = 1 .. Len(ls)
  BY FS_Interval
<1>2. IsFiniteSet(Places)
  BY <1>1, FS_Subset
<1>3. IdsIn(ls) = {ls[i] : i \in Places}
  BY DEF IdsIn
<1>4. \A i \in Places : ls[i] \in Seq(0 .. 9) /\ Parses(ls[i])
  BY <1>1
<1> HIDE DEF Places
<1>5. IsFiniteSet({ls[i] : i \in Places})
  <2> DEFINE T == {ls[i] : i \in Places}
             f == [i \in Places |-> ls[i]]
  <2>1. f \in [Places -> T] /\ \A y \in T : \E i \in Places : f[i] = y
    OBVIOUS
  <2> HIDE DEF T, f
  <2>2. f \in Surjection(Places, T)
    BY <2>1, Fun_IsSurj
  <2>3. IsFiniteSet(T)
    BY <1>2, <2>2, FS_Surjection
  <2> QED BY <2>3 DEF T
<1> QED BY <1>3, <1>4, <1>5

\* A line more, and the ids of the file are those and its own, if it has one.
LEMMA IdsOfOneMore ==
    ASSUME NEW ls \in Seq(Seq(0 .. 9)), NEW line \in Seq(0 .. 9)
    PROVE  /\ Append(ls, line) \in Seq(Seq(0 .. 9))
           /\ IdsIn(ls) \subseteq IdsIn(Append(ls, line))
           /\ IdsIn(Append(ls, line)) \subseteq IdsIn(ls) \cup {line}
           /\ Parses(line) => line \in IdsIn(Append(ls, line))
           /\ ~Parses(line) => IdsIn(Append(ls, line)) = IdsIn(ls)
<1> DEFINE more == Append(ls, line)
<1>1. /\ more \in Seq(Seq(0 .. 9)) /\ DOMAIN ls = 1 .. Len(ls) /\ Len(ls) \in Nat
      /\ DOMAIN more = 1 .. Len(ls) + 1
      /\ more[Len(ls) + 1] = line /\ \A i \in DOMAIN ls : more[i] = ls[i]
  OBVIOUS
<1> HIDE DEF more
<1>2. \A i \in DOMAIN more : i \in DOMAIN ls \/ i = Len(ls) + 1
  BY <1>1
<1>3. Len(ls) + 1 \in DOMAIN more /\ DOMAIN ls \subseteq DOMAIN more
  BY <1>1
<1>4. IdsIn(ls) \subseteq IdsIn(more)
  BY <1>1, <1>3 DEF IdsIn
<1>5. IdsIn(more) \subseteq IdsIn(ls) \cup {line}
  BY <1>1, <1>2 DEF IdsIn
<1>6. Parses(line) => line \in IdsIn(more)
  BY <1>1, <1>3 DEF IdsIn
<1>7. ~Parses(line) => IdsIn(more) \subseteq IdsIn(ls)
  BY <1>1, <1>2 DEF IdsIn
<1> QED BY <1>1, <1>4, <1>5, <1>6, <1>7 DEF more

LEMMA IdParses == \A id \in Ids : Parses(id) /\ id \in Seq(0 .. 9) /\ Len(id) \in Nat
BY ControlFileAssumption DEF ControlFileAssumption, Parses

\* A file cut between two lines has lost the ids of the lines after it.
LEMMA IdsOfPart ==
    ASSUME NEW ls \in Seq(Seq(0 .. 9)), NEW n \in 0 .. Len(ls)
    PROVE  LET rest == {ls[i] : i \in n + 1 .. Len(ls)}
           IN  /\ SubSeq(ls, 1, n) \in Seq(Seq(0 .. 9))
               /\ IdsIn(SubSeq(ls, 1, n)) \subseteq IdsIn(ls)
               /\ IdsIn(ls) \subseteq IdsIn(SubSeq(ls, 1, n)) \cup rest
               /\ rest \subseteq Seq(0 .. 9)
<1> DEFINE part == SubSeq(ls, 1, n)
           rest == {ls[i] : i \in n + 1 .. Len(ls)}
<1>1. /\ part \in Seq(Seq(0 .. 9)) /\ DOMAIN ls = 1 .. Len(ls) /\ DOMAIN part = 1 .. n
      /\ \A i \in 1 .. n : part[i] = ls[i]
  OBVIOUS
<1>2. 1 .. n \subseteq DOMAIN ls
  BY <1>1
<1>3. \A i \in DOMAIN ls : i \in 1 .. n \/ i \in n + 1 .. Len(ls)
  BY <1>1
<1> HIDE DEF part
<1>4. IdsIn(part) \subseteq IdsIn(ls)
  BY <1>1, <1>2 DEF IdsIn
<1>5. IdsIn(ls) \subseteq IdsIn(part) \cup rest
  <2> SUFFICES ASSUME NEW i \in DOMAIN ls, Parses(ls[i]) PROVE ls[i] \in IdsIn(part) \cup rest
    BY DEF IdsIn
  <2>1. CASE i \in 1 .. n
    BY <1>1, <2>1 DEF IdsIn
  <2>2. CASE i \in n + 1 .. Len(ls)
    BY <2>2
  <2> QED BY <1>3, <2>1, <2>2
<1>6. rest \subseteq Seq(0 .. 9)
  BY <1>1
<1> QED BY <1>1, <1>4, <1>5, <1>6 DEF part

LEMMA TypeStart == Init => TypeOK
<1> SUFFICES ASSUME Init PROVE TypeOK
  OBVIOUS
<1>1. <<>> \in Seq(0 .. 9) /\ <<>> \in Seq(Seq(0 .. 9)) /\ MaxTears \in Nat
  BY ControlFileAssumption DEF ControlFileAssumption
<1>2. lines \in Seq(Seq(0 .. 9)) /\ tail \in Seq(0 .. 9) /\ 0 \in 0 .. MaxTears
  BY <1>1 DEF Init
<1>3. loader \in Loaders /\ open \in BOOLEAN /\ keep = Nothing /\ tears = 0 /\ unnoticed = 0
  BY DEF Init
<1>4. recorded = {} /\ marked = {} /\ confirmed = {} /\ cut = {}
  BY DEF Init
<1> HIDE DEF Init
<1>5. unnoticed \in 0 .. tears
  BY <1>3
<1> QED BY <1>2, <1>3, <1>4, <1>5 DEF TypeOK

LEMMA TypeStep == TypeOK /\ [Next]_vars => TypeOK'
<1> SUFFICES ASSUME TypeOK, [Next]_vars PROVE TypeOK'
  OBVIOUS
<1> USE DEF TypeOK
<1>0. <<>> \in Seq(0 .. 9) /\ MaxTears \in Nat /\ Len(lines) \in Nat
  BY ControlFileAssumption DEF ControlFileAssumption
<1>1. CASE LoadCpp
  <2>1. Append(lines, tail) \in Seq(Seq(0 .. 9))
    OBVIOUS
  <2>2. IdsIn(Append(lines, tail)) \subseteq Seq(0 .. 9) /\ \A n \in IdsIn(Append(lines, tail)) : Parses(n)
    BY <2>1, IdsOfLines
  <2> QED BY <1>1, <2>2 DEF LoadCpp
<1>2. CASE LoadTrimming
  BY <1>0, <1>2, IdsOfLines DEF LoadTrimming
<1>3. CASE Close
  BY <1>3 DEF Close
<1>4. ASSUME NEW id \in Ids, Mark(id) PROVE TypeOK'
  <2>1. tail \o id \in Seq(0 .. 9) /\ Parses(id) /\ id \in Seq(0 .. 9)
    BY IdParses
  <2>2. lines' \in Seq(Seq(0 .. 9)) /\ Len(lines') = Len(lines) + 1
    BY <1>4, <2>1 DEF Mark
  <2>3. keep' \in {Nothing} \cup 0 .. Len(lines')
    BY <1>0, <1>4, <2>2 DEF Mark
  <2>4. tail' \in Seq(0 .. 9) /\ recorded' \subseteq Seq(0 .. 9) /\ \A n \in recorded' : Parses(n)
    BY <1>0, <1>4, <2>1 DEF Mark
  <2> QED BY <1>4, <2>2, <2>3, <2>4 DEF Mark
<1>5. ASSUME NEW id \in Ids, NEW n \in 1 .. Len(id), MarkTorn(id, n) PROVE TypeOK'
  <2>1. id \in Seq(0 .. 9) /\ Len(id) \in Nat
    BY IdParses
  <2>2. SubSeq(id, 1, n) \in Seq(0 .. 9)
    BY <2>1
  <2>3. tail' \in Seq(0 .. 9)
    BY <1>5, <2>2 DEF MarkTorn
  <2>4. tears' \in 0 .. MaxTears /\ unnoticed' \in 0 .. tears'
    BY <1>0, <1>5 DEF MarkTorn
  <2> QED BY <1>5, <2>3, <2>4 DEF MarkTorn
<1>9. ASSUME NEW id \in Ids, NEW n \in 0 .. Len(id), MarkShort(id, n) PROVE TypeOK'
  <2>1. id \in Seq(0 .. 9) /\ Len(id) \in Nat /\ Parses(id)
    BY IdParses
  <2>2. SubSeq(id, 1, n) \in Seq(0 .. 9)
    BY <2>1
  <2>3. tail' \in Seq(0 .. 9)
    BY <1>9, <2>2 DEF MarkShort
  <2>4. tears' \in 0 .. MaxTears /\ unnoticed' \in 0 .. tears'
    BY <1>0, <1>9 DEF MarkShort
  <2>5. recorded' \subseteq Seq(0 .. 9) /\ \A m \in recorded' : Parses(m)
    BY <1>9, <2>1 DEF MarkShort
  <2>6. /\ loader' = loader /\ lines' = lines /\ open' = open /\ keep' = keep /\ cut' = cut
        /\ marked' = marked \cup {id} /\ confirmed' = confirmed \cup {id}
    BY <1>9 DEF MarkShort
  <2> QED BY <2>3, <2>4, <2>5, <2>6
<1>6. CASE BystanderReads
  BY <1>0, <1>6 DEF BystanderReads
<1>7. CASE BystanderTrims
  <2>1. keep \in 0 .. Len(lines)
    BY <1>7 DEF BystanderTrims
  <2>2. lines' \in Seq(Seq(0 .. 9)) /\ cut' \subseteq Seq(0 .. 9)
    BY <1>7, <2>1, IdsOfPart DEF BystanderTrims
  <2>3. recorded' \subseteq Seq(0 .. 9) /\ \A n \in recorded' : Parses(n)
    <3>1. IdsIn(lines') \subseteq Seq(0 .. 9) /\ \A n \in IdsIn(lines') : Parses(n)
      BY <2>2, IdsOfLines
    <3> QED BY <1>7, <3>1 DEF BystanderTrims
  <2> QED BY <1>0, <1>7, <2>2, <2>3 DEF BystanderTrims
<1>8. CASE UNCHANGED vars
  BY <1>8 DEF vars
<1> QED BY <1>1, <1>2, <1>3, <1>4, <1>5, <1>6, <1>7, <1>8, <1>9 DEF Next

\* The typing of a control file and of the process that has it open.
THEOREM ControlFileTypeCorrect == Spec => []TypeOK
<1> QED BY TypeStart, TypeStep, PTL DEF Spec

-----------------------------------------------------------------------------
\* The trimming loaders: every id in the file was marked, and only a
\* bystander takes one away.
TrimmedFileTells ==
    loader # "cpp" =>
        /\ open => tail = <<>>
        /\ IdsIn(lines) \subseteq marked
        /\ confirmed \subseteq IdsIn(lines) \cup cut
        /\ open => recorded \subseteq marked /\ confirmed \subseteq recorded \cup cut

LEMMA NoLinesNoIds == IdsIn(<<>>) = {}
BY DEF IdsIn

LEMMA TrimmedStart == Init => TrimmedFileTells
BY NoLinesNoIds DEF Init, TrimmedFileTells

LEMMA TrimmedStep == TypeOK /\ TrimmedFileTells /\ [Next]_vars => TrimmedFileTells'
<1> SUFFICES ASSUME TypeOK, TrimmedFileTells, [Next]_vars, loader' # "cpp"
             PROVE  /\ open' => tail' = <<>>
                    /\ IdsIn(lines') \subseteq marked'
                    /\ confirmed' \subseteq IdsIn(lines') \cup cut'
                    /\ open' => recorded' \subseteq marked' /\ confirmed' \subseteq recorded' \cup cut'
  BY DEF TrimmedFileTells
<1>0. loader' = loader /\ lines \in Seq(Seq(0 .. 9)) /\ tail \in Seq(0 .. 9)
  BY DEF TypeOK, Next, vars, LoadCpp, LoadTrimming, Close, Mark, MarkTorn, MarkShort, BystanderReads, BystanderTrims
<1> USE DEF TrimmedFileTells
<1>1. CASE LoadCpp
  BY <1>0, <1>1 DEF LoadCpp
<1>2. CASE LoadTrimming
  BY <1>0, <1>2 DEF LoadTrimming
<1>3. CASE Close
  BY <1>0, <1>3 DEF Close
<1>4. ASSUME NEW id \in Ids, Mark(id)
      PROVE  /\ open' => tail' = <<>>
             /\ IdsIn(lines') \subseteq marked'
             /\ confirmed' \subseteq IdsIn(lines') \cup cut'
             /\ open' => recorded' \subseteq marked' /\ confirmed' \subseteq recorded' \cup cut'
  <2>1. id \in Seq(0 .. 9) /\ Parses(id)
    BY IdParses
  <2>2. tail \o id = id
    BY <1>0, <1>4, <2>1 DEF Mark
  <2>3. IdsIn(lines) \subseteq IdsIn(lines') /\ IdsIn(lines') \subseteq IdsIn(lines) \cup {id} /\ id \in IdsIn(lines')
    BY <1>0, <1>4, <2>1, <2>2, IdsOfOneMore DEF Mark
  <2> QED BY <1>0, <1>4, <2>3 DEF Mark
<1>5. ASSUME NEW id \in Ids, NEW n \in 1 .. Len(id), MarkTorn(id, n)
      PROVE  /\ open' => tail' = <<>>
             /\ IdsIn(lines') \subseteq marked'
             /\ confirmed' \subseteq IdsIn(lines') \cup cut'
             /\ open' => recorded' \subseteq marked' /\ confirmed' \subseteq recorded' \cup cut'
  BY <1>0, <1>5 DEF MarkTorn
<1>9. ASSUME NEW id \in Ids, NEW n \in 0 .. Len(id), MarkShort(id, n) PROVE FALSE
  BY <1>0, <1>9 DEF MarkShort
<1>6. CASE BystanderReads
  BY <1>0, <1>6 DEF BystanderReads
<1>7. CASE BystanderTrims
  <2>1. keep \in 0 .. Len(lines) /\ lines' = SubSeq(lines, 1, keep)
    BY <1>7 DEF BystanderTrims, TypeOK
  <2>2. IdsIn(lines') \subseteq IdsIn(lines)
    BY <1>0, <2>1, IdsOfPart
  <2>3. IdsIn(lines) \subseteq IdsIn(lines') \cup cut' /\ cut \subseteq cut'
    BY <1>0, <1>7, <2>1, IdsOfPart DEF BystanderTrims
  <2> QED BY <1>0, <1>7, <2>2, <2>3 DEF BystanderTrims
<1>8. CASE UNCHANGED vars
  BY <1>0, <1>8 DEF vars
<1> QED BY <1>1, <1>2, <1>3, <1>4, <1>5, <1>6, <1>7, <1>8, <1>9 DEF Next

\* An unfinished line counts as one spoiled mark.
Charged == IF tail = <<>> THEN 0 ELSE 1

\* The C++ loader: each interruption adds one id at most that was not marked,
\* and takes one at most that was, or two if nobody noticed it.
CppFileTells ==
    loader = "cpp" =>
        /\ keep = Nothing
        /\ IsFiniteSet(confirmed)
        /\ Cardinality(IdsIn(lines) \ marked) + Charged <= tears
        /\ Cardinality((confirmed \ IdsIn(lines)) \ cut) + Charged <= tears + unnoticed
        /\ open => /\ IsFiniteSet(recorded)
                   /\ Cardinality(recorded \ marked) <= tears
                   /\ Cardinality((confirmed \ recorded) \ cut) <= tears + unnoticed

LEMMA CppStart == Init => CppFileTells
<1> SUFFICES ASSUME Init PROVE CppFileTells
  OBVIOUS
<1>1. IsFiniteSet({}) /\ Cardinality({}) = 0
  BY FS_EmptySet
<1>2. IdsIn(lines) \ marked = {} /\ (confirmed \ IdsIn(lines)) \ cut = {}
  BY NoLinesNoIds DEF Init
<1>3. /\ keep = Nothing /\ confirmed = {} /\ tears = 0 /\ unnoticed = 0 /\ Charged = 0 /\ ~open
  BY DEF Init, Charged
<1> HIDE DEF Init
<1> QED BY <1>1, <1>2, <1>3 DEF CppFileTells

LEMMA CppStep == TypeOK /\ CppFileTells /\ [Next]_vars => CppFileTells'
<1> SUFFICES ASSUME TypeOK, CppFileTells, [Next]_vars, loader' = "cpp"
             PROVE  /\ keep' = Nothing
                    /\ IsFiniteSet(confirmed')
                    /\ Cardinality(IdsIn(lines') \ marked') + Charged' <= tears'
                    /\ Cardinality((confirmed' \ IdsIn(lines')) \ cut') + Charged' <= tears' + unnoticed'
                    /\ open' => /\ IsFiniteSet(recorded')
                                /\ Cardinality(recorded' \ marked') <= tears'
                                /\ Cardinality((confirmed' \ recorded') \ cut') <= tears' + unnoticed'
  BY DEF CppFileTells
<1> DEFINE invented == IdsIn(lines) \ marked
           lost == (confirmed \ IdsIn(lines)) \ cut
<1>0. loader' = loader /\ lines \in Seq(Seq(0 .. 9)) /\ tail \in Seq(0 .. 9) /\ tears \in Nat
      /\ unnoticed \in Nat /\ Charged \in {0, 1}
  BY DEF TypeOK, Charged, Next, vars, LoadCpp, LoadTrimming, Close, Mark, MarkTorn, MarkShort, BystanderReads, BystanderTrims
<1>a. /\ keep = Nothing /\ IsFiniteSet(confirmed)
      /\ Cardinality(invented) + Charged <= tears
      /\ Cardinality(lost) + Charged <= tears + unnoticed
      /\ open => /\ IsFiniteSet(recorded) /\ Cardinality(recorded \ marked) <= tears
                 /\ Cardinality((confirmed \ recorded) \ cut) <= tears + unnoticed
  BY <1>0 DEF CppFileTells
<1>b. /\ IsFiniteSet(invented) /\ Cardinality(invented) \in Nat
      /\ IsFiniteSet(lost) /\ Cardinality(lost) \in Nat
  BY <1>0, <1>a, IdsOfLines, NoMore, FS_EmptySet
<1>c. open => Cardinality(recorded \ marked) \in Nat /\ IsFiniteSet(recorded \ marked)
  BY <1>a, NoMore
<1>1. CASE LoadCpp
  <2> DEFINE all == Append(lines, tail)
  <2>0. all \in Seq(Seq(0 .. 9)) /\ recorded' = IdsIn(all)
    BY <1>0, <1>1 DEF LoadCpp
  <2> HIDE DEF all
  <2>1. IsFiniteSet(recorded')
    BY <2>0, IdsOfLines
  <2>2. recorded' \subseteq IdsIn(lines) \cup {tail} /\ IdsIn(lines) \subseteq recorded'
    BY <1>0, <1>1, IdsOfOneMore DEF LoadCpp
  <2>3. tail = <<>> => recorded' = IdsIn(lines)
    BY <1>0, <1>1, IdsOfOneMore DEF LoadCpp, Parses
  <2>4. Cardinality(recorded' \ marked) <= tears
    <3>1. CASE tail = <<>>
      <4>1. recorded' \ marked = invented /\ Charged = 0
        BY <2>3, <3>1 DEF Charged
      <4> HIDE DEF invented
      <4> QED BY <1>a, <1>b, <4>1
    <3>2. CASE tail # <<>>
      <4>1. recorded' \ marked \subseteq invented \cup {tail} /\ Charged = 1
        BY <2>2, <3>2 DEF Charged
      <4> HIDE DEF invented
      <4>2. /\ Cardinality(recorded' \ marked) <= Cardinality(invented) + 1
            /\ Cardinality(recorded' \ marked) \in Nat
        BY <1>b, <4>1, OneMoreAtMost
      <4> QED BY <1>0, <1>a, <1>b, <4>1, <4>2
    <3> QED BY <3>1, <3>2
  <2>5. Cardinality((confirmed \ recorded') \ cut) <= tears + unnoticed
    <3>1. (confirmed \ recorded') \ cut \subseteq lost
      BY <2>2
    <3> HIDE DEF lost
    <3>2. /\ Cardinality((confirmed \ recorded') \ cut) <= Cardinality(lost)
          /\ Cardinality((confirmed \ recorded') \ cut) \in Nat
      BY <1>b, <3>1, NoMore
    <3> QED BY <1>0, <1>a, <1>b, <3>2
  <2> QED BY <1>a, <1>1, <2>1, <2>4, <2>5 DEF LoadCpp, Charged
<1>2. CASE LoadTrimming \/ BystanderReads \/ BystanderTrims
  BY <1>0, <1>a, <1>2 DEF LoadTrimming, BystanderReads, BystanderTrims
<1>3. CASE Close
  BY <1>a, <1>3 DEF Close, Charged
<1>4. ASSUME NEW id \in Ids, Mark(id)
      PROVE  /\ keep' = Nothing
             /\ IsFiniteSet(confirmed')
             /\ Cardinality(IdsIn(lines') \ marked') + Charged' <= tears'
             /\ Cardinality((confirmed' \ IdsIn(lines')) \ cut') + Charged' <= tears' + unnoticed'
             /\ open' => /\ IsFiniteSet(recorded')
                         /\ Cardinality(recorded' \ marked') <= tears'
                         /\ Cardinality((confirmed' \ recorded') \ cut') <= tears' + unnoticed'
  <2>1. id \in Seq(0 .. 9) /\ Parses(id) /\ tail \o id \in Seq(0 .. 9)
    BY <1>0, IdParses
  <2>2. /\ IdsIn(lines) \subseteq IdsIn(lines') /\ IdsIn(lines') \subseteq IdsIn(lines) \cup {tail \o id}
        /\ Parses(tail \o id) => tail \o id \in IdsIn(lines')
    BY <1>0, <1>4, <2>1, IdsOfOneMore DEF Mark
  <2>3. /\ keep' = keep /\ cut' = cut /\ tears' = tears /\ unnoticed' = unnoticed /\ Charged' = 0 /\ open
        /\ marked' = marked \cup {id} /\ confirmed' = confirmed \cup {id} /\ recorded' = recorded \cup {id}
    BY <1>4 DEF Mark, Charged
  <2>4. IsFiniteSet(confirmed') /\ IsFiniteSet(recorded')
    BY <1>a, <2>3, FS_AddElement
  <2>5. Cardinality(IdsIn(lines') \ marked') <= tears
    <3>1. CASE tail = <<>>
      <4>1. tail \o id = id
        BY <2>1, <3>1
      <4>2. IdsIn(lines') \ marked' \subseteq invented
        BY <2>2, <2>3, <4>1
      <4> HIDE DEF invented
      <4>3. Cardinality(IdsIn(lines') \ marked') <= Cardinality(invented) /\ Cardinality(IdsIn(lines') \ marked') \in Nat
        BY <1>b, <4>2, NoMore
      <4> QED BY <1>0, <1>a, <1>b, <4>3
    <3>2. CASE tail # <<>>
      <4>1. IdsIn(lines') \ marked' \subseteq invented \cup {tail \o id} /\ Charged = 1
        BY <2>2, <2>3, <3>2 DEF Charged
      <4> HIDE DEF invented
      <4>2. Cardinality(IdsIn(lines') \ marked') <= Cardinality(invented) + 1 /\ Cardinality(IdsIn(lines') \ marked') \in Nat
        BY <1>b, <4>1, OneMoreAtMost
      <4> QED BY <1>0, <1>a, <1>b, <4>1, <4>2
    <3> QED BY <3>1, <3>2
  <2>6. Cardinality((confirmed' \ IdsIn(lines')) \ cut') <= tears + unnoticed
    <3>1. CASE tail = <<>>
      <4>1. tail \o id = id
        BY <2>1, <3>1
      <4>2. (confirmed' \ IdsIn(lines')) \ cut' \subseteq lost
        BY <2>1, <2>2, <2>3, <4>1
      <4> HIDE DEF lost
      <4>3. /\ Cardinality((confirmed' \ IdsIn(lines')) \ cut') <= Cardinality(lost)
            /\ Cardinality((confirmed' \ IdsIn(lines')) \ cut') \in Nat
        BY <1>b, <4>2, NoMore
      <4> QED BY <1>0, <1>a, <1>b, <4>3
    <3>2. CASE tail # <<>>
      <4>1. (confirmed' \ IdsIn(lines')) \ cut' \subseteq lost \cup {id} /\ Charged = 1
        BY <2>2, <2>3, <3>2 DEF Charged
      <4> HIDE DEF lost
      <4>2. /\ Cardinality((confirmed' \ IdsIn(lines')) \ cut') <= Cardinality(lost) + 1
            /\ Cardinality((confirmed' \ IdsIn(lines')) \ cut') \in Nat
        BY <1>b, <4>1, OneMoreAtMost
      <4> QED BY <1>0, <1>a, <1>b, <4>1, <4>2
    <3> QED BY <3>1, <3>2
  <2>7. recorded' \ marked' \subseteq recorded \ marked
    BY <2>3
  <2>8. (confirmed' \ recorded') \ cut' \subseteq (confirmed \ recorded) \ cut
    BY <2>3
  <2>9. /\ IsFiniteSet((confirmed \ recorded) \ cut) /\ IsFiniteSet(recorded \ marked)
        /\ Cardinality((confirmed \ recorded) \ cut) \in Nat
    BY <1>a, <2>3, NoMore
  <2>10. /\ Cardinality(recorded' \ marked') <= Cardinality(recorded \ marked)
         /\ Cardinality(recorded' \ marked') \in Nat
    BY <2>7, <2>9, NoMore
  <2>11. /\ Cardinality((confirmed' \ recorded') \ cut') <= Cardinality((confirmed \ recorded) \ cut)
         /\ Cardinality((confirmed' \ recorded') \ cut') \in Nat
    BY <2>8, <2>9, NoMore
  <2>12. /\ Cardinality(recorded' \ marked') <= tears /\ Cardinality((confirmed' \ recorded') \ cut') <= tears + unnoticed
    BY <1>0, <1>a, <1>c, <2>3, <2>9, <2>10, <2>11
  <2>13. Cardinality(IdsIn(lines') \ marked') \in Nat /\ Cardinality((confirmed' \ IdsIn(lines')) \ cut') \in Nat
    <3>1. IsFiniteSet(IdsIn(lines'))
      BY <1>0, <1>4, <2>1, IdsOfOneMore, IdsOfLines DEF Mark
    <3> QED BY <2>4, <3>1, NoMore
  <2> QED BY <1>a, <2>3, <2>4, <2>5, <2>6, <2>12, <2>13
<1>5. ASSUME NEW id \in Ids, NEW n \in 1 .. Len(id), MarkTorn(id, n)
      PROVE  /\ keep' = Nothing
             /\ IsFiniteSet(confirmed')
             /\ Cardinality(IdsIn(lines') \ marked') + Charged' <= tears'
             /\ Cardinality((confirmed' \ IdsIn(lines')) \ cut') + Charged' <= tears' + unnoticed'
             /\ open' => /\ IsFiniteSet(recorded')
                         /\ Cardinality(recorded' \ marked') <= tears'
                         /\ Cardinality((confirmed' \ recorded') \ cut') <= tears' + unnoticed'
  <2>1. /\ keep' = keep /\ cut' = cut /\ tears' = tears + 1 /\ unnoticed' = unnoticed /\ ~open' /\ lines' = lines
        /\ confirmed' = confirmed /\ marked' = marked \cup {id}
    BY <1>5 DEF MarkTorn
  <2>2. Charged' \in {0, 1}
    BY DEF Charged
  <2>3. IdsIn(lines') \ marked' \subseteq invented /\ (confirmed' \ IdsIn(lines')) \ cut' = lost
    BY <2>1
  <2> HIDE DEF invented, lost
  <2>4. Cardinality(IdsIn(lines') \ marked') <= Cardinality(invented) /\ Cardinality(IdsIn(lines') \ marked') \in Nat
    BY <1>b, <2>3, NoMore
  <2>5. Cardinality(IdsIn(lines') \ marked') + Charged' <= tears'
    <3> DEFINE m == Cardinality(IdsIn(lines') \ marked')
               c == Charged'
    <3>1. m \in Nat /\ m <= Cardinality(invented) /\ c \in {0, 1}
      BY <2>2, <2>4
    <3> HIDE DEF m, c
    <3>2. m + c <= tears + 1
      BY <1>0, <1>a, <1>b, <3>1, SMTT(30)
    <3> QED BY <2>1, <3>2 DEF m, c
  <2>6. Cardinality(lost) + Charged' <= tears' + unnoticed'
    <3> DEFINE c == Charged'
    <3>1. c \in {0, 1}
      BY <2>2
    <3> HIDE DEF c
    <3>2. Cardinality(lost) + c <= tears + 1 + unnoticed
      BY <1>0, <1>a, <1>b, <3>1, SMTT(30)
    <3> QED BY <2>1, <3>2 DEF c
  <2> QED BY <1>a, <2>1, <2>3, <2>5, <2>6
<1>6. ASSUME NEW id \in Ids, NEW n \in 0 .. Len(id), MarkShort(id, n)
      PROVE  /\ keep' = Nothing
             /\ IsFiniteSet(confirmed')
             /\ Cardinality(IdsIn(lines') \ marked') + Charged' <= tears'
             /\ Cardinality((confirmed' \ IdsIn(lines')) \ cut') + Charged' <= tears' + unnoticed'
             /\ open' => /\ IsFiniteSet(recorded')
                         /\ Cardinality(recorded' \ marked') <= tears'
                         /\ Cardinality((confirmed' \ recorded') \ cut') <= tears' + unnoticed'
  <2>1. /\ keep' = keep /\ cut' = cut /\ tears' = tears + 1 /\ unnoticed' = unnoticed + 1
        /\ open /\ lines' = lines
        /\ confirmed' = confirmed \cup {id} /\ marked' = marked \cup {id}
        /\ recorded' = recorded \cup {id}
    BY <1>6 DEF MarkShort
  <2>2. Charged' \in {0, 1}
    BY DEF Charged
  <2>3. /\ IdsIn(lines') \ marked' \subseteq invented
        /\ (confirmed' \ IdsIn(lines')) \ cut' \subseteq lost \cup {id}
        /\ recorded' \ marked' \subseteq recorded \ marked
        /\ (confirmed' \ recorded') \ cut' \subseteq (confirmed \ recorded) \ cut
    BY <2>1
  <2>4. IsFiniteSet(confirmed') /\ IsFiniteSet(recorded')
    BY <1>a, <2>1, FS_AddElement
  <2>5. /\ IsFiniteSet(recorded \ marked) /\ IsFiniteSet((confirmed \ recorded) \ cut)
    BY <1>a, <2>1, NoMore
  <2> HIDE DEF invented, lost
  <2> DEFINE i == Cardinality(IdsIn(lines') \ marked')
             l == Cardinality((confirmed' \ IdsIn(lines')) \ cut')
             ri == Cardinality(recorded' \ marked')
             rl == Cardinality((confirmed' \ recorded') \ cut')
             c == Charged'
  <2>6. i \in Nat /\ i <= Cardinality(invented)
    BY <1>b, <2>3, NoMore
  <2>7. l \in Nat /\ l <= Cardinality(lost) + 1
    BY <1>b, <2>3, OneMoreAtMost
  <2>8. ri \in Nat /\ Cardinality(recorded \ marked) \in Nat /\ ri <= Cardinality(recorded \ marked)
    BY <2>3, <2>5, NoMore
  <2>9. /\ rl \in Nat /\ Cardinality((confirmed \ recorded) \ cut) \in Nat
        /\ rl <= Cardinality((confirmed \ recorded) \ cut)
    BY <2>3, <2>5, NoMore
  <2>10. c \in {0, 1}
    BY <2>2
  <2> HIDE DEF i, l, ri, rl, c
  <2>11. i + c <= tears + 1 /\ l + c <= tears + 1 + (unnoticed + 1)
    BY <1>0, <1>a, <1>b, <2>6, <2>7, <2>10
  <2>12. ri <= tears + 1 /\ rl <= tears + 1 + (unnoticed + 1)
    BY <1>0, <1>a, <2>1, <2>8, <2>9
  <2>13. i + c <= tears' /\ l + c <= tears' + unnoticed' /\ ri <= tears' /\ rl <= tears' + unnoticed'
    BY <2>1, <2>11, <2>12
  <2> QED BY <1>a, <2>1, <2>4, <2>13 DEF i, l, ri, rl, c
<1>7. CASE UNCHANGED vars
  BY <1>0, <1>a, <1>7 DEF vars, Charged
<1> QED BY <1>1, <1>2, <1>3, <1>4, <1>5, <1>6, <1>7 DEF Next

FileInv == TypeOK /\ TrimmedFileTells /\ CppFileTells

LEMMA FileInvariant == Spec => []FileInv
<1>1. Init => FileInv
  BY TypeStart, TrimmedStart, CppStart DEF FileInv
<1>2. FileInv /\ [Next]_vars => FileInv'
  BY TypeStep, TrimmedStep, CppStep DEF FileInv
<1> QED BY <1>1, <1>2, PTL DEF Spec

\* However many appends are cut short, and whatever a bystander cuts: the
\* trimming loaders take no id as recorded that was not marked, and the C++
\* one at most one per interruption.
THEOREM MarksAreNotInvented == Spec => []FewMarksAreInvented
<1>1. FileInv => FewMarksAreInvented
  <2> SUFFICES ASSUME FileInv, open PROVE Cardinality(recorded \ marked) <= IF loader = "cpp" THEN tears ELSE 0
    BY DEF FewMarksAreInvented
  <2>1. CASE loader = "cpp"
    BY <2>1 DEF FileInv, CppFileTells
  <2>2. CASE loader # "cpp"
    <3>1. recorded \ marked = {}
      BY <2>2 DEF FileInv, TrimmedFileTells
    <3> QED BY <2>2, <3>1, FS_EmptySet
  <2> QED BY <2>1, <2>2
<1> QED BY <1>1, FileInvariant, PTL

\* A mark that returned is lost to a bystander, or, in C++ only, to an append
\* cut short: one for each, and a second for each that nobody noticed.
THEOREM MarksAreNotLost == Spec => []FewMarksAreLost
<1>1. FileInv => FewMarksAreLost
  <2> SUFFICES ASSUME FileInv, open PROVE Cardinality((confirmed \ recorded) \ cut)
                                                <= IF loader = "cpp" THEN tears + unnoticed ELSE 0
    BY DEF FewMarksAreLost
  <2>1. CASE loader = "cpp"
    BY <2>1 DEF FileInv, CppFileTells
  <2>2. CASE loader # "cpp"
    <3>1. (confirmed \ recorded) \ cut = {}
      BY <2>2 DEF FileInv, TrimmedFileTells
    <3> QED BY <2>2, <3>1, FS_EmptySet
  <2> QED BY <2>1, <2>2
<1> QED BY <1>1, FileInvariant, PTL
=============================================================================
