--------------------------- MODULE BookTextProofs ---------------------------
(***************************************************************************)
(* Proofs about BookText, for every text, however much of it arrives:      *)
(*   - a book is split as its whole text would have been, or not at all.   *)
(*     What arrived is a beginning of the text; up to its last symbol,     *)
(*     which may be half of a "\r\n", it normalizes to a beginning of the  *)
(*     normalized text, and a splitter that finds its markers in a         *)
(*     beginning finds the same in the whole (CutText to SplitCut);        *)
(*   - the type invariant;                                                 *)
(*   - the tokenizer closes the words of the body and no others: between   *)
(*     two rounds it has the terms of the words before a run of token      *)
(*     characters and is building that run (Scanned).                      *)
(*   - the three splitters agree on a regular text: each finds the two     *)
(*     lines that LinesFor names (LinesAgree, PatternsAgree); as an odd    *)
(*     blank stands between two inner characters, what they take off both  *)
(*     ends is the same too (TrimsAgree), and so are the fields            *)
(*     (FieldsAgree);                                                      *)
(*   - a field's value is a piece of one line of the header, or of the     *)
(*     line after an empty label (ValueIs); Java's, found in the header    *)
(*     with its line ends normalized, is found in the header itself,       *)
(*     because normalizing keeps symbols in order (Place).                 *)
(* The recursive function in NormalizeNewlines is dealt with by induction  *)
(* over a set of lengths (SetInduction).                                   *)
(***************************************************************************)
EXTENDS BookText, WellFoundedInduction, TLAPS

LEMMA AsSequence ==
    ASSUME NEW S, NEW n \in Nat, NEW f \in [1 .. n -> S]
    PROVE  f \in Seq(S)
OBVIOUS

LEMMA AppendIs ==
    ASSUME NEW S, NEW q \in Seq(S), NEW x \in S
    PROVE  /\ Append(q, x) \in Seq(S) /\ Len(q) \in Nat /\ Len(Append(q, x)) = Len(q) + 1
           /\ Append(q, x)[Len(q) + 1] = x
           /\ \A k \in 1 .. Len(q) : Append(q, x)[k] = q[k]
OBVIOUS

LEMMA Minimum ==
    ASSUME NEW S, S \subseteq Nat, S # {}
    PROVE  Least(S) \in S /\ \A j \in S : Least(S) <= j
<1>1. PICK x \in S : \A y \in S : <<y, x>> \notin OpToRel(<, Nat)
  BY NatLessThanWellFounded, WFMin
<1>2. \A y \in S : ~(y < x)
  BY <1>1 DEF OpToRel
<1>3. x \in S /\ \A j \in S : x <= j
  BY <1>2
<1> QED BY <1>3 DEF Least

LEMMA SetInduction ==
    ASSUME NEW T, 0 \in T, \A n \in Nat : n \in T => n + 1 \in T
    PROVE  Nat \subseteq T
<1> SUFFICES ASSUME Nat \ T # {} PROVE FALSE
  OBVIOUS
<1> DEFINE x == Least(Nat \ T)
<1>1. x \in Nat /\ x \notin T /\ \A j \in Nat \ T : x <= j
  BY Minimum
<1> HIDE DEF x
<1>2. x # 0 /\ x - 1 \in Nat /\ x - 1 \in T
  BY <1>1
<1> QED BY <1>1, <1>2

LEMMA Maximum ==
    ASSUME NEW n \in Nat, NEW S, S \subseteq 0 .. n, S # {}
    PROVE  Greatest(S) \in S /\ \A j \in S : j <= Greatest(S)
<1> DEFINE T == {n - j : j \in S}
           x == n - Least(T)
<1>1. T \subseteq Nat /\ T # {}
  <2>1. \A j \in S : j \in 0 .. n
    OBVIOUS
  <2>2. \A j \in 0 .. n : n - j \in Nat
    OBVIOUS
  <2>3. \A y \in T : y \in Nat
    BY <2>1, <2>2
  <2>4. PICK j \in S : TRUE
    OBVIOUS
  <2>5. n - j \in T
    BY <2>4
  <2> QED BY <2>3, <2>5
<1>2. Least(T) \in T /\ \A j \in T : Least(T) <= j
  BY <1>1, Minimum
<1>3. \A j \in S : n - j \in T /\ j \in Int
  OBVIOUS
<1> HIDE DEF T
<1>4. PICK m \in S : Least(T) = n - m
  BY <1>2 DEF T
<1>5. m = x
  BY <1>3, <1>4
<1>6. x \in S /\ \A j \in S : j <= x
  BY <1>2, <1>3, <1>4, <1>5
<1> QED BY <1>6 DEF Greatest

Crlf(s, i) == s[i] = CR /\ i < Len(s) /\ s[i + 1] = NL
Grown(s, f, i) ==
    IF i = 0 THEN <<>> ELSE IF Crlf(s, i) THEN f[i - 1] ELSE Append(f[i - 1], s[i])
UpTo(s) == CHOOSE f : f = [i \in 0 .. Len(s) |-> Grown(s, f, i)]

LEMMA NormalizeIsUpTo == \A s : NormalizeNewlines(s) = UpTo(s)[Len(s)]
BY DEF NormalizeNewlines, UpTo, Grown, Crlf

\* The recursive definition has a solution, and it is typed.
LEMMA UpToEquation ==
    ASSUME NEW A, NEW s \in Seq(A)
    PROVE  /\ UpTo(s) \in [0 .. Len(s) -> Seq(A)]
           /\ \A i \in 0 .. Len(s) : UpTo(s)[i] = Grown(s, UpTo(s), i)
<1> DEFINE N == Len(s)
           Solved(n, f) == f \in [0 .. n -> Seq(A)] /\ \A i \in 0 .. n : f[i] = Grown(s, f, i)
           T == {n \in Nat : n <= N => \E f : Solved(n, f)}
<1>0. N \in Nat /\ \A i \in 1 .. N : s[i] \in A
  OBVIOUS
<1>a. <<>> \in Seq(A) /\ \A t \in Seq(A), x \in A : Append(t, x) \in Seq(A)
  OBVIOUS
<1>1. 0 \in T
  <2>1. Solved(0, [i \in 0 .. 0 |-> <<>>])
    BY <1>a DEF Grown
  <2> QED BY <2>1
<1>2. \A n \in Nat : n \in T => n + 1 \in T
  <2> SUFFICES ASSUME NEW n \in Nat, n <= N => \E f : Solved(n, f), n + 1 <= N
               PROVE  \E g : Solved(n + 1, g)
    <3> HIDE DEF Solved
    <3> QED OBVIOUS
  <2>1. PICK f : Solved(n, f)
    BY <1>0
  <2> DEFINE g == [i \in 0 .. n + 1 |-> IF i = n + 1 THEN Grown(s, f, n + 1) ELSE f[i]]
  <2>2. f[n] \in Seq(A)
    BY <2>1
  <2>3. Grown(s, f, n + 1) \in Seq(A)
    <3>1. n + 1 # 0 /\ n + 1 - 1 = n /\ s[n + 1] \in A
      BY <1>0
    <3> QED BY <1>a, <2>2, <3>1 DEF Grown
  <2>4. g \in [0 .. n + 1 -> Seq(A)]
    BY <2>1, <2>3
  <2>5. g[n + 1] = Grown(s, f, n + 1) /\ \A i \in 0 .. n : g[i] = f[i]
    OBVIOUS
  <2>6. \A i \in 0 .. n + 1 : Grown(s, g, i) = Grown(s, f, i)
    BY <2>5 DEF Grown
  <2>7. \A i \in 0 .. n + 1 : g[i] = Grown(s, g, i)
    <3> SUFFICES ASSUME NEW i \in 0 .. n + 1 PROVE g[i] = Grown(s, f, i)
      BY <2>6
    <3>1. i = n + 1 \/ i \in 0 .. n
      OBVIOUS
    <3> HIDE DEF g
    <3> QED BY <2>1, <2>5, <3>1
  <2> QED BY <2>4, <2>7
<1>3. N \in T
  <2> HIDE DEF T
  <2> QED BY <1>0, <1>1, <1>2, SetInduction
<1>4. PICK f : Solved(N, f)
  BY <1>0, <1>3
<1>5. f = [i \in 0 .. N |-> Grown(s, f, i)]
  BY <1>4
<1>6. UpTo(s) = [i \in 0 .. N |-> Grown(s, UpTo(s), i)]
  BY <1>5 DEF UpTo
<1> HIDE DEF Solved, T
<1> DEFINE R == {n \in Nat : n <= N => UpTo(s)[n] \in Seq(A)}
           U == UpTo(s)
<1>7. DOMAIN U = 0 .. N /\ \A i \in 0 .. N : U[i] = Grown(s, U, i)
  BY <1>6
<1> HIDE DEF U
<1>8. 0 \in R
  <2>1. 0 \in 0 .. N
    BY <1>0
  <2>2. U[0] = <<>>
    BY <1>7, <2>1 DEF Grown
  <2> QED BY <1>a, <2>2 DEF U
<1>9. \A n \in Nat : n \in R => n + 1 \in R
  <2> SUFFICES ASSUME NEW n \in Nat, n \in R, n + 1 <= N PROVE U[n + 1] \in Seq(A)
    BY DEF U
  <2>1. U[n + 1] = Grown(s, U, n + 1) /\ n + 1 - 1 = n /\ n + 1 # 0 /\ s[n + 1] \in A
    BY <1>0, <1>7
  <2>2. U[n] \in Seq(A)
    BY <1>0 DEF U
  <2> QED BY <1>a, <2>1, <2>2 DEF Grown
<1>10. \A n \in 0 .. N : U[n] \in Seq(A)
  <2>1. Nat \subseteq R
    <3> HIDE DEF R
    <3> QED BY <1>8, <1>9, SetInduction
  <2> QED BY <1>0, <2>1 DEF U
<1>11. U = [i \in 0 .. N |-> U[i]]
  BY <1>6 DEF U
<1> QED BY <1>7, <1>10, <1>11 DEF U

LEMMA NormalizedType ==
    ASSUME NEW A, NEW s \in Seq(A) PROVE NormalizeNewlines(s) \in Seq(A)
BY UpToEquation, NormalizeIsUpTo

\* One step of the loop, without the function that Grown hides it in.
LEMMA OneMore ==
    ASSUME NEW A, NEW s \in Seq(A), NEW i \in 1 .. Len(s)
    PROVE  /\ UpTo(s)[i - 1] \in Seq(A)
           /\ Crlf(s, i) => UpTo(s)[i] = UpTo(s)[i - 1]
           /\ ~Crlf(s, i) => UpTo(s)[i] = Append(UpTo(s)[i - 1], s[i])
<1>1. i \in 0 .. Len(s) /\ i - 1 \in 0 .. Len(s) /\ i # 0
  OBVIOUS
<1>2. UpTo(s)[i] = Grown(s, UpTo(s), i) /\ UpTo(s)[i - 1] \in Seq(A)
  BY <1>1, UpToEquation
<1> QED BY <1>1, <1>2 DEF Grown

Begins(p, q) == Len(p) <= Len(q) /\ \A k \in 1 .. Len(p) : p[k] = q[k]

\* What was normalized stays as it is.
LEMMA Growing ==
    ASSUME NEW A, NEW s \in Seq(A), NEW i \in 0 .. Len(s)
    PROVE  Begins(UpTo(s)[i], NormalizeNewlines(s))
<1> DEFINE U == UpTo(s)
           T == {d \in Nat : i + d <= Len(s) => Begins(U[i], U[i + d])}
<1>0. Len(s) \in Nat /\ i \in Nat /\ \A k \in 0 .. Len(s) : U[k] \in Seq(A)
  BY UpToEquation
<1>1. 0 \in T
  <2>1. i + 0 = i /\ U[i] \in Seq(A)
    BY <1>0
  <2> QED BY <2>1 DEF Begins
<1>2. \A d \in Nat : d \in T => d + 1 \in T
  <2> SUFFICES ASSUME NEW d \in Nat, d \in T, i + (d + 1) <= Len(s) PROVE Begins(U[i], U[i + (d + 1)])
    OBVIOUS
  <2> DEFINE m == i + (d + 1)
  <2>1. m \in 1 .. Len(s) /\ m - 1 = i + d /\ i + d \in 0 .. Len(s)
    BY <1>0
  <2>2. Begins(U[i], U[m - 1])
    BY <2>1
  <2>3. U[m] = U[m - 1] \/ U[m] = Append(U[m - 1], s[m])
    BY <2>1, OneMore
  <2>4. U[m - 1] \in Seq(A) /\ U[i] \in Seq(A)
    BY <1>0, <2>1
  <2>5. s[m] \in A
    BY <2>1
  <2>6. /\ Len(Append(U[m - 1], s[m])) = Len(U[m - 1]) + 1
        /\ \A k \in 1 .. Len(U[m - 1]) : Append(U[m - 1], s[m])[k] = U[m - 1][k]
    BY <2>4, <2>5
  <2>7. Len(U[m - 1]) \in Nat /\ Len(U[i]) \in Nat
    BY <2>4
  <2> HIDE DEF m, U
  <2>8. \A k \in 1 .. Len(U[i]) : U[i][k] = U[m][k]
    <3> SUFFICES ASSUME NEW k \in 1 .. Len(U[i]) PROVE U[i][k] = U[m][k]
      OBVIOUS
    <3>1. U[i][k] = U[m - 1][k] /\ k \in 1 .. Len(U[m - 1])
      BY <2>2, <2>7 DEF Begins
    <3>2. U[m][k] = U[m - 1][k]
      BY <2>3, <2>6, <3>1
    <3> QED BY <3>1, <3>2
  <2>9. Len(U[i]) <= Len(U[m])
    BY <2>2, <2>3, <2>6, <2>7 DEF Begins
  <2> QED BY <2>8, <2>9 DEF Begins, m
<1>3. Len(s) - i \in T
  <2>1. Nat \subseteq T
    <3> HIDE DEF T
    <3> QED BY <1>1, <1>2, SetInduction
  <2>2. Len(s) - i \in Nat
    BY <1>0
  <2> HIDE DEF T
  <2> QED BY <2>1, <2>2
<1>4. i + (Len(s) - i) = Len(s)
  BY <1>0
<1> QED BY <1>0, <1>3, <1>4, NormalizeIsUpTo

\* The same loop on a part of the text: it differs at most in its last round.
LEMMA PartUpTo ==
    ASSUME NEW A, NEW s \in Seq(A), NEW n \in 1 .. Len(s)
    PROVE  LET t == SubSeq(s, 1, n)
           IN  /\ t \in Seq(A) /\ Len(t) = n
               /\ UpTo(t)[n - 1] = UpTo(s)[n - 1]
               /\ NormalizeNewlines(t) = Append(UpTo(s)[n - 1], s[n]) \/ NormalizeNewlines(t) = UpTo(s)[n]
               /\ ~Crlf(s, n) => NormalizeNewlines(t) = UpTo(s)[n]
<1> DEFINE t == SubSeq(s, 1, n)
           T == {d \in Nat : d < n => UpTo(t)[d] = UpTo(s)[d]}
<1>1. /\ t \in Seq(A) /\ Len(t) = n /\ n \in Nat /\ Len(s) \in Nat
      /\ \A k \in 1 .. n : t[k] = s[k]
  OBVIOUS
<1> HIDE DEF t
<1>2. \A k \in 1 .. n - 1 : Crlf(t, k) <=> Crlf(s, k)
  BY <1>1 DEF Crlf
<1>3. 0 \in T
  BY <1>1, UpToEquation DEF Grown
<1>4. \A d \in Nat : d \in T => d + 1 \in T
  <2> SUFFICES ASSUME NEW d \in Nat, d \in T, d + 1 < n PROVE UpTo(t)[d + 1] = UpTo(s)[d + 1]
    OBVIOUS
  <2>1. /\ d + 1 \in 1 .. Len(t) /\ d + 1 \in 1 .. Len(s) /\ d + 1 - 1 = d
        /\ d + 1 \in 1 .. n - 1 /\ d < n
    BY <1>1
  <2>2. UpTo(t)[d] = UpTo(s)[d] /\ t[d + 1] = s[d + 1] /\ (Crlf(t, d + 1) <=> Crlf(s, d + 1))
    BY <1>1, <1>2, <2>1
  <2>3. /\ Crlf(t, d + 1) => UpTo(t)[d + 1] = UpTo(t)[d]
        /\ ~Crlf(t, d + 1) => UpTo(t)[d + 1] = Append(UpTo(t)[d], t[d + 1])
    BY <1>1, <2>1, OneMore
  <2>4. /\ Crlf(s, d + 1) => UpTo(s)[d + 1] = UpTo(s)[d]
        /\ ~Crlf(s, d + 1) => UpTo(s)[d + 1] = Append(UpTo(s)[d], s[d + 1])
    BY <1>1, <2>1, OneMore
  <2> QED BY <2>2, <2>3, <2>4
<1>5. UpTo(t)[n - 1] = UpTo(s)[n - 1]
  <2>1. Nat \subseteq T
    <3> HIDE DEF T
    <3> QED BY <1>3, <1>4, SetInduction
  <2>2. n - 1 \in Nat /\ n - 1 < n
    BY <1>1
  <2> QED BY <2>1, <2>2
<1>6. ~Crlf(t, n)
  BY <1>1 DEF Crlf
<1>7. NormalizeNewlines(t) = Append(UpTo(s)[n - 1], s[n])
  <2>1. n \in 1 .. Len(t) /\ t[n] = s[n]
    BY <1>1
  <2>2. UpTo(t)[n] = Append(UpTo(t)[n - 1], t[n])
    BY <1>1, <1>6, <2>1, OneMore
  <2> QED BY <1>1, <1>5, <2>1, <2>2, NormalizeIsUpTo
<1>8. ~Crlf(s, n) => UpTo(s)[n] = Append(UpTo(s)[n - 1], s[n])
  BY OneMore
<1> QED BY <1>1, <1>5, <1>7, <1>8 DEF t

\* What arrived, once it is normalized, is how the whole text begins; only its
\* last symbol may be the "\r" of a pair that was cut in two.
CutOf(u, v) ==
    /\ Len(u) <= Len(v)
    /\ \A k \in 1 .. Len(u) : u[k] = v[k] \/ (k = Len(u) /\ u[k] = CR /\ v[k] = NL)

LEMMA CutText ==
    ASSUME NEW A, NEW s \in Seq(A), NEW n \in 0 .. Len(s), NL # CR
    PROVE  CutOf(NormalizeNewlines(SubSeq(s, 1, n)), NormalizeNewlines(s))
<1> DEFINE t == SubSeq(s, 1, n)
           u == NormalizeNewlines(t)
           v == NormalizeNewlines(s)
           U == UpTo(s)
<1>0. /\ Len(s) \in Nat /\ n \in Nat /\ u \in Seq(A) /\ v \in Seq(A)
      /\ \A k \in 0 .. Len(s) : U[k] \in Seq(A)
  <2>1. t \in Seq(A)
    OBVIOUS
  <2>2. UpTo(s) \in [0 .. Len(s) -> Seq(A)]
    BY UpToEquation
  <2>3. u \in Seq(A) /\ v \in Seq(A)
    BY <2>1, NormalizedType
  <2> QED BY <2>2, <2>3
<1>1. CASE n = 0
  <2>1. t = <<>> /\ Len(t) = 0 /\ t \in Seq(A)
    BY <1>1
  <2>2. u = <<>>
    BY <2>1, UpToEquation, NormalizeIsUpTo DEF Grown
  <2> QED BY <1>0, <2>2 DEF CutOf
<1>2. CASE n # 0 /\ ~Crlf(s, n)
  <2>1. u = U[n]
    BY <1>0, <1>2, PartUpTo
  <2>2. Begins(u, v)
    BY <1>0, <2>1, Growing
  <2> QED BY <2>2 DEF CutOf, Begins
<1>3. CASE n # 0 /\ Crlf(s, n)
  <2>1. n \in 1 .. Len(s) /\ n + 1 \in 1 .. Len(s) /\ s[n] = CR /\ s[n + 1] = NL /\ n + 1 - 1 = n
    BY <1>0, <1>3 DEF Crlf
  <2>2. u = Append(U[n - 1], CR) \/ u = U[n]
    BY <2>1, PartUpTo
  <2>3. U[n] = U[n - 1]
    BY <1>3, <2>1, OneMore
  <2>4. ~Crlf(s, n + 1)
    BY <2>1 DEF Crlf
  <2>5. U[n + 1] = Append(U[n], NL)
    <3>1. U[n + 1] = Append(U[n + 1 - 1], s[n + 1])
      BY <2>1, <2>4, OneMore
    <3> QED BY <2>1, <3>1
  <2>6. Begins(U[n + 1], v) /\ Begins(U[n], v)
    BY <1>0, <2>1, Growing
  <2>7. CASE u = U[n]
    BY <2>6, <2>7 DEF CutOf, Begins
  <2>8. CASE u = Append(U[n], CR)
    <3> DEFINE q == U[n]
    <3>1. q \in Seq(A) /\ CR \in A /\ NL \in A
      BY <1>0, <2>1
    <3>2. /\ Len(u) = Len(q) + 1 /\ u[Len(q) + 1] = CR /\ \A k \in 1 .. Len(q) : u[k] = q[k]
          /\ Len(U[n + 1]) = Len(q) + 1 /\ U[n + 1][Len(q) + 1] = NL /\ Len(q) \in Nat
      <4>1. u = Append(q, CR) /\ U[n + 1] = Append(q, NL)
        BY <2>5, <2>8
      <4> HIDE DEF q, u, U
      <4> QED BY <3>1, <4>1, AppendIs
    <3> HIDE DEF q, u, v
    <3>3. Len(q) + 1 <= Len(v) /\ v[Len(q) + 1] = NL /\ \A k \in 1 .. Len(q) : q[k] = v[k]
      <4>1. Begins(U[n + 1], v) /\ Begins(q, v)
        BY <2>6 DEF q
      <4> HIDE DEF U
      <4>2. Len(q) + 1 \in 1 .. Len(U[n + 1])
        BY <3>2
      <4> QED BY <3>2, <4>1, <4>2 DEF Begins
    <3>4. Len(u) <= Len(v)
      BY <3>2, <3>3
    <3>5. \A k \in 1 .. Len(u) : k \in 1 .. Len(q) \/ k = Len(u)
      BY <3>2
    <3>6. u[Len(u)] = CR /\ v[Len(u)] = NL
      BY <3>2, <3>3
    <3>7. \A k \in 1 .. Len(u) : u[k] = v[k] \/ (k = Len(u) /\ u[k] = CR /\ v[k] = NL)
      BY <3>2, <3>3, <3>5, <3>6
    <3>8. CutOf(u, v)
      BY <3>4, <3>7 DEF CutOf
    <3> QED BY <3>8 DEF u, v
  <2> QED BY <2>2, <2>3, <2>7, <2>8
<1> QED BY <1>1, <1>2, <1>3

(***************************************************************************)
(* The splitters on a text that was cut                                    *)
(***************************************************************************)
\* A symbol that is no line end stands in the cut text where it stands in
\* the whole one.
LEMMA PlacesOfCut ==
    ASSUME NEW A, NEW u \in Seq(A), NEW v \in Seq(A), CutOf(u, v),
           NEW from \in Nat \ {0}, NEW set, NL \notin set, CR \notin set, Where(u, from, set) # {}
    PROVE  /\ Where(v, from, set) # {}
           /\ Least(Where(u, from, set)) = Least(Where(v, from, set))
           /\ Least(Where(u, from, set)) \in Where(u, from, set)
           /\ \A j \in Where(u, from, set) : Least(Where(u, from, set)) <= j
<1> DEFINE U == Where(u, from, set)
           V == Where(v, from, set)
<1>1. U \subseteq Nat /\ V \subseteq Nat
  BY DEF Where
<1>2. U \subseteq V
  BY DEF Where, CutOf
<1>3. \A i \in V : i <= Len(u) => i \in U
  BY DEF Where, CutOf
<1>4. \A i \in U : i <= Len(u)
  BY DEF Where
<1>5. Least(U) \in U /\ \A j \in U : Least(U) <= j
  BY <1>1, Minimum
<1>6. Least(V) \in V /\ \A j \in V : Least(V) <= j
  BY <1>1, <1>2, Minimum
<1> HIDE DEF U, V
<1>7. Least(V) \in U
  <2>1. Least(V) <= Least(U) /\ Least(U) <= Len(u) /\ Least(V) \in Nat /\ Least(U) \in Nat
    BY <1>1, <1>2, <1>4, <1>5, <1>6
  <2>2. Len(u) \in Nat
    OBVIOUS
  <2> QED BY <1>3, <1>6, <2>1, <2>2
<1>8. Least(U) = Least(V)
  <2>1. Least(U) <= Least(V) /\ Least(V) <= Least(U)
    BY <1>2, <1>5, <1>6, <1>7
  <2>2. Least(U) \in Nat /\ Least(V) \in Nat
    BY <1>1, <1>5, <1>6
  <2> HIDE DEF Least
  <2> QED BY <2>1, <2>2
<1> QED BY <1>2, <1>5, <1>8 DEF U, V

\* The same for any symbol that stands before the last one of the cut text.
LEMMA PlacesBeforeCut ==
    ASSUME NEW A, NEW u \in Seq(A), NEW v \in Seq(A), CutOf(u, v),
           NEW from \in Nat \ {0}, NEW set, Where(u, from, set) # {},
           Least(Where(u, from, set)) < Len(u)
    PROVE  /\ Where(v, from, set) # {}
           /\ Least(Where(u, from, set)) = Least(Where(v, from, set))
<1> DEFINE U == Where(u, from, set)
           V == Where(v, from, set)
<1>1. U \subseteq Nat /\ V \subseteq Nat /\ Len(u) \in Nat
  BY DEF Where
<1>2. \A i \in U : i < Len(u) => i \in V
  BY DEF Where, CutOf
<1>3. \A i \in V : i < Len(u) => i \in U
  BY DEF Where, CutOf
<1>4. Least(U) \in U /\ \A j \in U : Least(U) <= j
  BY <1>1, Minimum
<1>5. Least(U) \in V
  BY <1>2, <1>4
<1>6. Least(V) \in V /\ \A j \in V : Least(V) <= j
  BY <1>1, <1>5, Minimum
<1> HIDE DEF U, V, Least
<1>7. Least(V) <= Least(U) /\ Least(V) \in Nat /\ Least(U) \in Nat
  BY <1>1, <1>4, <1>5, <1>6
<1>8. Least(V) < Len(u)
  <2>1. Least(U) < Len(u)
    BY DEF U
  <2> QED BY <1>1, <1>7, <2>1
<1>9. Least(U) <= Least(V)
  BY <1>3, <1>4, <1>6, <1>8
<1> QED BY <1>5, <1>7, <1>9 DEF U, V

LEMMA FirstPlace ==
    ASSUME NEW A, NEW u \in Seq(A), NEW from \in Nat \ {0}, NEW set, Where(u, from, set) # {}
    PROVE  /\ Least(Where(u, from, set)) \in from .. Len(u)
           /\ u[Least(Where(u, from, set))] \in set
           /\ \A j \in Where(u, from, set) : Least(Where(u, from, set)) <= j
<1>1. Where(u, from, set) \subseteq Nat
  BY DEF Where
<1>2. /\ Least(Where(u, from, set)) \in Where(u, from, set)
      /\ \A j \in Where(u, from, set) : Least(Where(u, from, set)) <= j
  BY <1>1, Minimum
<1> QED BY <1>2 DEF Where

LEMMA SamePart ==
    ASSUME NEW A, NEW u \in Seq(A), NEW v \in Seq(A), NEW a \in Nat \ {0}, NEW b \in Int,
           b <= Len(u), b <= Len(v), \A k \in 1 .. b : u[k] = v[k]
    PROVE  SubSeq(u, a, b) = SubSeq(v, a, b)
<1>1. CASE b < a
  BY <1>1
<1>2. CASE a <= b
  <2>1. /\ SubSeq(u, a, b) \in Seq(A) /\ SubSeq(v, a, b) \in Seq(A)
        /\ Len(SubSeq(u, a, b)) = b - a + 1 /\ Len(SubSeq(v, a, b)) = b - a + 1
    BY <1>2
  <2>2. \A k \in 1 .. b - a + 1 : SubSeq(u, a, b)[k] = u[a + k - 1] /\ SubSeq(v, a, b)[k] = v[a + k - 1]
    BY <1>2
  <2>3. \A k \in 1 .. b - a + 1 : a + k - 1 \in 1 .. b
    OBVIOUS
  <2>4. \A k \in 1 .. b - a + 1 : SubSeq(u, a, b)[k] = SubSeq(v, a, b)[k]
    BY <2>2, <2>3
  <2> QED BY <2>1, <2>4
<1> QED BY <1>1, <1>2

\* Up to an END marker that is there, header and body are what they are in
\* the whole text.
LEMMA SameBook ==
    ASSUME NEW A, NEW u \in Seq(A), NEW v \in Seq(A), CutOf(u, v),
           NEW end \in 1 .. Len(u), NEW start \in 1 .. end, NEW begin \in Nat \ {0}, NEW l
    PROVE  HeaderAndBody(l, u, start, begin, end) = HeaderAndBody(l, v, start, begin, end)
<1>1. /\ Len(u) \in Nat /\ Len(v) \in Nat /\ Len(u) <= Len(v)
      /\ \A k \in 1 .. end - 1 : u[k] = v[k]
  BY DEF CutOf
<1>2. SubSeq(u, 1, start - 1) = SubSeq(v, 1, start - 1)
  BY <1>1, SamePart
<1>3. SubSeq(u, begin, end - 1) = SubSeq(v, begin, end - 1)
  BY <1>1, SamePart
<1> QED BY <1>2, <1>3 DEF HeaderAndBody

MarkersApart ==
    /\ NL # CR
    /\ {NL, CR} \cap (StartMarkers \cup EndMarkers) = {}

\* Where the first START and the first END after its line are found in the
\* cut text, they are the ones of the whole text.
LEMMA SameMarkers ==
    ASSUME NEW A, NEW u \in Seq(A), NEW v \in Seq(A), CutOf(u, v), MarkersApart,
           Where(u, 1, StartMarkers) # {},
           Where(u, AfterLine(u, Least(Where(u, 1, StartMarkers))), EndMarkers) # {}
    PROVE  LET start == Least(Where(u, 1, StartMarkers))
               begin == AfterLine(u, start)
               end == Least(Where(u, begin, EndMarkers))
           IN  /\ Where(v, 1, StartMarkers) # {} /\ start = Least(Where(v, 1, StartMarkers))
               /\ begin = AfterLine(v, start)
               /\ Where(v, begin, EndMarkers) # {} /\ end = Least(Where(v, begin, EndMarkers))
               /\ begin \in Nat \ {0} /\ start \in 1 .. end /\ end \in 1 .. Len(u)
<1> DEFINE start == Least(Where(u, 1, StartMarkers))
           begin == AfterLine(u, start)
           newlines == Where(u, start, {NL})
           end == Least(Where(u, begin, EndMarkers))
<1>1. start \in 1 .. Len(u) /\ Where(v, 1, StartMarkers) # {} /\ start = Least(Where(v, 1, StartMarkers))
  BY FirstPlace, PlacesOfCut DEF MarkersApart
<1> HIDE DEF start
<1>2. newlines # {}
  <2> SUFFICES ASSUME newlines = {} PROVE FALSE
    OBVIOUS
  <2>1. begin = Len(u) + 1
    BY DEF AfterLine
  <2>2. Where(u, Len(u) + 1, EndMarkers) = {}
    BY DEF Where
  <2> QED BY <2>1, <2>2 DEF start
<1>3. begin = Least(newlines) + 1 /\ Least(newlines) \in start .. Len(u)
  <2>1. start \in Nat \ {0}
    BY <1>1
  <2>2. Least(Where(u, start, {NL})) \in start .. Len(u)
    BY <1>2, <2>1, FirstPlace
  <2>3. begin = Least(newlines) + 1
    BY <1>2 DEF AfterLine
  <2> QED BY <2>2, <2>3
<1> HIDE DEF newlines
<1>4. begin \in Nat \ {0}
  BY <1>1, <1>3
<1>5. /\ end \in begin .. Len(u)
      /\ Where(v, begin, EndMarkers) # {} /\ end = Least(Where(v, begin, EndMarkers))
  <2> HIDE DEF begin
  <2>1. Where(u, begin, EndMarkers) # {}
    BY DEF begin, start
  <2> QED BY <1>4, <2>1, FirstPlace, PlacesOfCut DEF MarkersApart
<1> HIDE DEF end
<1>6. Least(newlines) < Len(u)
  BY <1>1, <1>3, <1>4, <1>5
<1>7. Where(v, start, {NL}) # {} /\ Least(newlines) = Least(Where(v, start, {NL}))
  <2>1. start \in Nat \ {0}
    BY <1>1
  <2>2. Where(u, start, {NL}) # {} /\ Least(Where(u, start, {NL})) < Len(u)
    BY <1>2, <1>6 DEF newlines
  <2>3. /\ Where(v, start, {NL}) # {}
        /\ Least(Where(u, start, {NL})) = Least(Where(v, start, {NL}))
    <3> DEFINE set == {NL}
               from == start
    <3> HIDE DEF set, from
    <3>1. Where(u, from, set) # {} /\ Least(Where(u, from, set)) < Len(u) /\ from \in Nat \ {0}
      BY <2>1, <2>2 DEF set, from
    <3>2. /\ Where(v, from, set) # {}
          /\ Least(Where(u, from, set)) = Least(Where(v, from, set))
      BY <3>1, PlacesBeforeCut
    <3> QED BY <3>2 DEF set, from
  <2> QED BY <2>3 DEF newlines
<1>8. begin = AfterLine(v, start)
  BY <1>3, <1>7 DEF AfterLine
<1>9. start \in 1 .. end /\ end \in 1 .. Len(u)
  BY <1>1, <1>3, <1>4, <1>5
<1> QED BY <1>1, <1>4, <1>5, <1>8, <1>9 DEF start, end

LEMMA CppCut ==
    ASSUME NEW A, NEW s \in Seq(A), NEW n \in 0 .. Len(s), MarkersApart,
           SplitCpp(SubSeq(s, 1, n)) # None
    PROVE  SplitCpp(SubSeq(s, 1, n)) = SplitCpp(s)
<1> DEFINE u == NormalizeNewlines(SubSeq(s, 1, n))
           v == NormalizeNewlines(s)
<1>1. CutOf(u, v)
  BY CutText DEF MarkersApart
<1>2. u \in Seq(A) /\ v \in Seq(A)
  <2>1. SubSeq(s, 1, n) \in Seq(A)
    OBVIOUS
  <2> QED BY <2>1, NormalizedType
<1>3. /\ Where(u, 1, StartMarkers) # {}
      /\ Where(u, AfterLine(u, Least(Where(u, 1, StartMarkers))), EndMarkers) # {}
  BY DEF SplitCpp
<1> HIDE DEF u, v
<1> DEFINE start == Least(Where(u, 1, StartMarkers))
           begin == AfterLine(u, start)
           end == Least(Where(u, begin, EndMarkers))
<1>4. /\ Where(v, 1, StartMarkers) # {} /\ start = Least(Where(v, 1, StartMarkers))
      /\ begin = AfterLine(v, start)
      /\ Where(v, begin, EndMarkers) # {} /\ end = Least(Where(v, begin, EndMarkers))
      /\ begin \in Nat \ {0} /\ start \in 1 .. end /\ end \in 1 .. Len(u)
  BY <1>1, <1>2, <1>3, SameMarkers
<1>5. SplitCpp(SubSeq(s, 1, n)) = HeaderAndBody("cpp", u, start, begin, end)
  BY <1>3 DEF SplitCpp, u
<1> HIDE DEF start, begin, end
<1>6. HeaderAndBody("cpp", u, start, begin, end) = HeaderAndBody("cpp", v, start, begin, end)
  BY <1>1, <1>2, <1>4, SameBook
<1>7. SplitCpp(s) = HeaderAndBody("cpp", v, start, begin, end)
  BY <1>4 DEF SplitCpp, v
<1> QED BY <1>5, <1>6, <1>7

\* Java: the END marker is searched from where the START line was matched to.
LEMMA JavaCut ==
    ASSUME NEW A, NEW s \in Seq(A), NEW n \in 0 .. Len(s), MarkersApart,
           SplitJava(SubSeq(s, 1, n)) # None
    PROVE  SplitJava(SubSeq(s, 1, n)) = SplitJava(s)
<1> DEFINE u == NormalizeNewlines(SubSeq(s, 1, n))
           v == NormalizeNewlines(s)
           start == Least(Where(u, 1, StartMarkers))
           breaks == LineEnds("java")
           lines == {NL}
           matched == IF Where(u, start, breaks) = {} THEN Len(u) + 1 ELSE Least(Where(u, start, breaks))
           end == Least(Where(u, matched, EndMarkers))
           newline == Least(Where(u, matched, lines))
<1>1. CutOf(u, v)
  BY CutText DEF MarkersApart
<1>2. u \in Seq(A) /\ v \in Seq(A) /\ Len(u) \in Nat
  <2>1. SubSeq(s, 1, n) \in Seq(A)
    OBVIOUS
  <2>2. u \in Seq(A) /\ v \in Seq(A)
    BY <2>1, NormalizedType
  <2> QED BY <2>2
<1>3. /\ Where(u, 1, StartMarkers) # {} /\ Where(u, matched, EndMarkers) # {}
      /\ Where(u, matched, lines) # {} /\ ~(end < newline)
  BY DEF SplitJava
<1>4. SplitJava(SubSeq(s, 1, n)) = HeaderAndBody("java", u, start, newline, end)
  BY <1>3 DEF SplitJava
<1> HIDE DEF u, v
<1>5. start \in 1 .. Len(u) /\ Where(v, 1, StartMarkers) # {} /\ start = Least(Where(v, 1, StartMarkers))
  BY <1>1, <1>2, <1>3, FirstPlace, PlacesOfCut DEF MarkersApart
<1> HIDE DEF start
<1>6. Where(u, start, breaks) # {}
  <2> SUFFICES ASSUME Where(u, start, breaks) = {} PROVE FALSE
    OBVIOUS
  <2>1. Where(u, Len(u) + 1, EndMarkers) = {}
    BY <1>2 DEF Where
  <2> QED BY <1>3, <2>1
<1> HIDE DEF breaks, lines
<1>7. matched = Least(Where(u, start, breaks)) /\ matched \in start .. Len(u) /\ matched \in Nat \ {0}
  <2>1. start \in Nat \ {0}
    BY <1>5
  <2>2. Least(Where(u, start, breaks)) \in start .. Len(u)
    BY <1>2, <1>6, <2>1, FirstPlace
  <2> QED BY <1>2, <1>5, <1>6, <2>2
<1> HIDE DEF matched
<1>8. /\ end \in matched .. Len(u) /\ u[end] \in EndMarkers
      /\ Where(v, matched, EndMarkers) # {} /\ end = Least(Where(v, matched, EndMarkers))
  <2>1. NL \notin EndMarkers /\ CR \notin EndMarkers
    BY DEF MarkersApart
  <2>2. end \in matched .. Len(u) /\ u[end] \in EndMarkers
    BY <1>2, <1>3, <1>7, FirstPlace
  <2>3. Where(v, matched, EndMarkers) # {} /\ end = Least(Where(v, matched, EndMarkers))
    BY <1>1, <1>2, <1>3, <1>7, <2>1, PlacesOfCut
  <2> QED BY <2>2, <2>3
<1>9. newline \in matched .. Len(u) /\ u[newline] \in lines
  BY <1>2, <1>3, <1>7, FirstPlace
<1> HIDE DEF end, newline
<1>10. newline < end
  <2>1. newline # end
    BY <1>8, <1>9 DEF MarkersApart, lines
  <2> QED BY <1>2, <1>3, <1>7, <1>8, <1>9, <2>1
<1>11. newline < Len(u) /\ matched < Len(u)
  <2>1. matched <= newline /\ matched \in Int
    BY <1>2, <1>5, <1>7, <1>9
  <2> QED BY <1>2, <1>5, <1>7, <1>8, <1>9, <1>10, <2>1
<1>12. Where(v, start, breaks) # {} /\ matched = Least(Where(v, start, breaks))
  <2>1. start \in Nat \ {0}
    BY <1>5
  <2> QED BY <1>1, <1>2, <1>6, <1>7, <1>11, <2>1, PlacesBeforeCut
<1>13. Where(v, matched, lines) # {} /\ newline = Least(Where(v, matched, lines))
  <2>1. matched \in Nat \ {0} /\ Where(u, matched, lines) # {} /\ Least(Where(u, matched, lines)) < Len(u)
    BY <1>3, <1>7, <1>11 DEF newline
  <2> QED BY <1>1, <1>2, <2>1, PlacesBeforeCut DEF newline
<1>14. SplitJava(s) = HeaderAndBody("java", v, start, newline, end)
  <2>1. ~(end < newline)
    BY <1>3
  <2>2. matched = IF Where(v, start, breaks) = {} THEN Len(v) + 1 ELSE Least(Where(v, start, breaks))
    BY <1>12
  <2> QED BY <1>5, <1>8, <1>13, <2>1, <2>2 DEF SplitJava, v, breaks, lines
<1>15. newline \in Nat \ {0} /\ start \in 1 .. end /\ end \in 1 .. Len(u)
  BY <1>2, <1>5, <1>7, <1>8, <1>9
<1>16. HeaderAndBody("java", u, start, newline, end) = HeaderAndBody("java", v, start, newline, end)
  BY <1>1, <1>2, <1>15, SameBook
<1> QED BY <1>4, <1>14, <1>16

LEMMA LineStarts ==
    ASSUME NEW A, NEW u \in Seq(A), NEW v \in Seq(A), CutOf(u, v), NEW i \in 1 .. Len(u)
    PROVE  LineStart(u, i) = LineStart(v, i) /\ LineStart(u, i) \in 1 .. i
<1> DEFINE before == {j \in 1 .. i - 1 : u[j] = NL}
<1>1. before = {j \in 1 .. i - 1 : v[j] = NL}
  BY DEF CutOf
<1>2. before # {} => Greatest(before) \in before
  <2>1. before \subseteq 0 .. i /\ i \in Nat
    OBVIOUS
  <2> QED BY <2>1, Maximum
<1>3. LineStart(u, i) = IF before = {} THEN 1 ELSE Greatest(before) + 1
  BY DEF LineStart
<1>4. LineStart(v, i) = IF before = {} THEN 1 ELSE Greatest(before) + 1
  BY <1>1 DEF LineStart
<1>5. \A j \in before : j \in Int /\ 1 <= j /\ j <= i - 1
  OBVIOUS
<1> HIDE DEF before
<1> QED BY <1>2, <1>3, <1>4, <1>5

LEMMA LinesCut ==
    ASSUME NEW A, NEW u \in Seq(A), NEW v \in Seq(A), CutOf(u, v), MarkersApart, SplitPython(u) # None
    PROVE  SplitPython(u) = SplitPython(v)
<1> DEFINE start == Least(Where(u, 1, StartMarkers))
           begin == AfterLine(u, start)
           end == Least(Where(u, begin, EndMarkers))
<1>1. Where(u, 1, StartMarkers) # {} /\ Where(u, begin, EndMarkers) # {}
  BY DEF SplitPython
<1>2. /\ Where(v, 1, StartMarkers) # {} /\ start = Least(Where(v, 1, StartMarkers))
      /\ begin = AfterLine(v, start)
      /\ Where(v, begin, EndMarkers) # {} /\ end = Least(Where(v, begin, EndMarkers))
      /\ begin \in Nat \ {0} /\ start \in 1 .. end /\ end \in 1 .. Len(u)
  BY <1>1, SameMarkers
<1>3. SplitPython(u) = HeaderAndBody("python", u, LineStart(u, start), begin, LineStart(u, end))
  BY <1>1 DEF SplitPython
<1>4. SplitPython(v) = HeaderAndBody("python", v, LineStart(v, start), begin, LineStart(v, end))
  BY <1>2 DEF SplitPython
<1> HIDE DEF start, begin, end
<1>5. start \in 1 .. Len(u) /\ Len(u) \in Nat
  BY <1>2
<1>6. /\ LineStart(u, start) = LineStart(v, start) /\ LineStart(u, start) \in 1 .. start
      /\ LineStart(u, end) = LineStart(v, end) /\ LineStart(u, end) \in 1 .. end
  BY <1>2, <1>5, LineStarts
<1> DEFINE a == LineStart(u, start)
           b == LineStart(u, end)
<1>7. /\ Len(v) \in Nat /\ Len(u) <= Len(v) /\ \A k \in 1 .. Len(u) - 1 : u[k] = v[k]
  BY DEF CutOf
<1>8. /\ a \in Nat /\ a - 1 <= Len(u) - 1 /\ b \in Nat /\ b - 1 <= Len(u) - 1
  BY <1>2, <1>5, <1>6
<1> HIDE DEF a, b
<1>9. SubSeq(u, 1, a - 1) = SubSeq(v, 1, a - 1)
  BY <1>5, <1>7, <1>8, SamePart
<1>10. SubSeq(u, begin, b - 1) = SubSeq(v, begin, b - 1)
  <2>1. /\ b - 1 \in Int /\ b - 1 <= Len(u) /\ b - 1 <= Len(v)
        /\ \A k \in 1 .. b - 1 : u[k] = v[k]
    BY <1>5, <1>7, <1>8
  <2>2. begin \in Nat \ {0}
    BY <1>2
  <2> QED BY <2>1, <2>2, SamePart
<1>11. HeaderAndBody("python", u, a, begin, b) = HeaderAndBody("python", v, a, begin, b)
  BY <1>9, <1>10 DEF HeaderAndBody
<1> QED BY <1>3, <1>4, <1>6, <1>11 DEF a, b

LEMMA PythonCut ==
    ASSUME NEW s \in Seq(Symbols), NEW n \in 0 .. Len(s), MarkersApart, NEW src,
           SplitPython(PythonNewlines(src, SubSeq(s, 1, n))) # None
    PROVE  SplitPython(PythonNewlines(src, SubSeq(s, 1, n))) = SplitPython(PythonNewlines(src, s))
<1> DEFINE u == NormalizeNewlines(SubSeq(s, 1, n))
           v == NormalizeNewlines(s)
           x == PythonNewlines(src, SubSeq(s, 1, n))
           y == PythonNewlines(src, s)
<1>1. CutOf(u, v)
  BY CutText DEF MarkersApart
<1>2. u \in Seq(Symbols) /\ v \in Seq(Symbols)
  <2>1. SubSeq(s, 1, n) \in Seq(Symbols)
    OBVIOUS
  <2> QED BY <2>1, NormalizedType
<1>3. /\ x = [i \in 1 .. Len(u) |-> IF src = "offline" /\ u[i] = CR THEN NL ELSE u[i]]
      /\ y = [i \in 1 .. Len(v) |-> IF src = "offline" /\ v[i] = CR THEN NL ELSE v[i]]
  BY DEF PythonNewlines
<1>4. NL \in Symbols /\ Len(u) \in Nat /\ Len(v) \in Nat
  BY <1>2 DEF Symbols, Blanks
<1> HIDE DEF u, v, x, y
<1>5. x \in Seq(Symbols) /\ Len(x) = Len(u) /\ y \in Seq(Symbols) /\ Len(y) = Len(v)
  <2>1. \A i \in 1 .. Len(u) : u[i] \in Symbols
    BY <1>2
  <2>2. \A i \in 1 .. Len(v) : v[i] \in Symbols
    BY <1>2
  <2>3. x \in [1 .. Len(u) -> Symbols] /\ y \in [1 .. Len(v) -> Symbols]
    BY <1>3, <1>4, <2>1, <2>2
  <2>4. x \in Seq(Symbols) /\ y \in Seq(Symbols)
    BY <1>4, <2>3, AsSequence
  <2>5. DOMAIN x = 1 .. Len(u) /\ DOMAIN y = 1 .. Len(v)
    BY <1>3
  <2> QED BY <1>4, <2>4, <2>5
<1>6. CutOf(x, y)
  <2>1. Len(x) <= Len(y)
    BY <1>1, <1>5 DEF CutOf
  <2>2. \A k \in 1 .. Len(x) : x[k] = y[k] \/ (k = Len(x) /\ x[k] = CR /\ y[k] = NL)
    <3> SUFFICES ASSUME NEW k \in 1 .. Len(u) PROVE x[k] = y[k] \/ (k = Len(u) /\ x[k] = CR /\ y[k] = NL)
      BY <1>5
    <3>1. k \in 1 .. Len(v) /\ (u[k] = v[k] \/ (k = Len(u) /\ u[k] = CR /\ v[k] = NL))
      BY <1>1, <1>4 DEF CutOf
    <3>2. /\ x[k] = IF src = "offline" /\ u[k] = CR THEN NL ELSE u[k]
          /\ y[k] = IF src = "offline" /\ v[k] = CR THEN NL ELSE v[k]
      BY <1>3, <3>1
    <3> QED BY <3>1, <3>2
  <2> QED BY <2>1, <2>2 DEF CutOf
<1> QED BY <1>5, <1>6, LinesCut DEF x, y

(***************************************************************************)
(* The book                                                                *)
(***************************************************************************)
\* What arrived is a part of the text, from its beginning.
PartArrived ==
    /\ lang \in Languages /\ text \in Seq(Symbols)
    /\ \E n \in 0 .. Len(text) : received = SubSeq(text, 1, n)

LEMMA SplitCut ==
    ASSUME PartArrived, Split(lang, source, received) # None
    PROVE  Split(lang, source, received) = Split(lang, source, text)
<1> PICK n \in 0 .. Len(text) : received = SubSeq(text, 1, n)
  BY DEF PartArrived
<1>1. MarkersApart
  BY BookTextAssumption DEF BookTextAssumption, MarkersApart
<1>2. lang \in {"cpp", "java", "python"} /\ text \in Seq(Symbols)
  BY BookTextAssumption DEF BookTextAssumption, PartArrived
<1>3. CASE lang = "cpp"
  BY <1>1, <1>2, <1>3, CppCut DEF Split
<1>4. CASE lang = "java"
  BY <1>1, <1>2, <1>4, JavaCut DEF Split
<1>5. CASE lang = "python"
  BY <1>1, <1>2, <1>5, PythonCut DEF Split
<1> QED BY <1>2, <1>3, <1>4, <1>5

LEMMA BookStart == Init => PartArrived /\ NoBookIsCutShort
<1> SUFFICES ASSUME Init PROVE PartArrived /\ NoBookIsCutShort
  OBVIOUS
<1>1. text \in Seq(Symbols)
  BY BookTextAssumption DEF BookTextAssumption, Init
<1>2. SubSeq(text, 1, 0) = <<>> /\ 0 \in 0 .. Len(text)
  BY <1>1
<1> QED BY <1>1, <1>2 DEF Init, PartArrived, NoBookIsCutShort

LEMMA BookStep ==
    PartArrived /\ NoBookIsCutShort /\ [Next]_vars => PartArrived' /\ NoBookIsCutShort'
<1> SUFFICES ASSUME PartArrived, NoBookIsCutShort, [Next]_vars
             PROVE  PartArrived' /\ NoBookIsCutShort'
  OBVIOUS
<1>0. SubSeq(text, 1, 0) = <<>> /\ 0 \in 0 .. Len(text)
  BY DEF PartArrived
<1>1. CASE Receive
  <2>1. PICK n \in Len(received) + 1 .. Len(text) : received' = SubSeq(text, 1, n)
    BY <1>1 DEF Receive
  <2>2. Len(received) \in Nat /\ Len(text) \in Nat
    BY DEF PartArrived
  <2>3. n \in 0 .. Len(text)
    BY <2>2
  <2> QED BY <1>1, <2>1, <2>3 DEF Receive, PartArrived, NoBookIsCutShort
<1>2. CASE FetchFails
  BY <1>0, <1>2 DEF FetchFails, PartArrived, NoBookIsCutShort
<1>3. CASE FetchSucceeds \/ ExtractMetadata \/ NextCharacter \/ LastFlush \/ UNCHANGED vars
  BY <1>3 DEF FetchSucceeds, ExtractMetadata, NextCharacter, LastFlush, vars, PartArrived, NoBookIsCutShort
<1>4. CASE SplitBook
  BY <1>4, SplitCut DEF SplitBook, PartArrived, NoBookIsCutShort
<1> QED BY <1>1, <1>2, <1>3, <1>4 DEF Next

\* Whatever part of a text arrives, and in whatever language: a book is split
\* as its whole text would have been, or not at all.
THEOREM BookIsNeverCutShort == Spec => []NoBookIsCutShort
<1> QED BY BookStart, BookStep, PTL DEF Spec

(***************************************************************************)
(* Types                                                                   *)
(***************************************************************************)
LEMMA PartType ==
    ASSUME NEW A, NEW s \in Seq(A), NEW a \in Nat \ {0}, NEW b \in Int, b <= Len(s)
    PROVE  SubSeq(s, a, b) \in Seq(A)
<1>1. CASE b < a
  <2>1. SubSeq(s, a, b) = <<>>
    BY <1>1
  <2> QED BY <2>1
<1>2. CASE a <= b
  BY <1>2
<1> QED BY <1>1, <1>2

Visible(s, set) == {i \in 1 .. Len(s) : s[i] \notin set}

\* Trimming leaves the part from the first to the last visible symbol.
LEMMA TrimIs ==
    ASSUME NEW A, NEW s \in Seq(A), NEW set
    PROVE  /\ Visible(s, set) = {} => Trim(s, set) = <<>>
           /\ Visible(s, set) # {} =>
                /\ Least(Visible(s, set)) \in Visible(s, set) /\ Greatest(Visible(s, set)) \in Visible(s, set)
                /\ \A i \in Visible(s, set) : Least(Visible(s, set)) <= i /\ i <= Greatest(Visible(s, set))
                /\ Trim(s, set) = SubSeq(s, Least(Visible(s, set)), Greatest(Visible(s, set)))
<1>1. Trim(s, set) = IF Visible(s, set) = {} THEN <<>> ELSE SubSeq(s, Least(Visible(s, set)), Greatest(Visible(s, set)))
  BY DEF Trim, Visible
<1>2. Len(s) \in Nat /\ Visible(s, set) \subseteq 0 .. Len(s) /\ Visible(s, set) \subseteq Nat
  BY DEF Visible
<1> QED BY <1>1, <1>2, Minimum, Maximum

LEMMA PartIs ==
    ASSUME NEW A, NEW s \in Seq(A), NEW a \in Nat \ {0}, NEW b \in Int, b <= Len(s), a <= b + 1
    PROVE  /\ SubSeq(s, a, b) \in Seq(A) /\ Len(SubSeq(s, a, b)) = b - a + 1
           /\ \A k \in 1 .. b - a + 1 : SubSeq(s, a, b)[k] = s[a + k - 1]
<1>1. CASE a <= b
  <2>1. b - a + 1 \in Nat /\ Len(s) \in Nat
    BY <1>1
  <2>2. SubSeq(s, a, b) = [k \in 1 .. b - a + 1 |-> s[a + k - 1]]
    BY <1>1
  <2>3. \A k \in 1 .. b - a + 1 : a + k - 1 \in 1 .. Len(s)
    BY <2>1
  <2>4. \A k \in 1 .. b - a + 1 : s[a + k - 1] \in A
    BY <2>3
  <2> DEFINE x == SubSeq(s, a, b)
             n == b - a + 1
  <2>5. x = [k \in 1 .. n |-> s[a + k - 1]] /\ n \in Nat
    BY <2>1, <2>2
  <2> HIDE DEF x, n
  <2>6. x \in Seq(A)
    BY <1>1, PartType DEF x
  <2>7. DOMAIN x = 1 .. n /\ DOMAIN x = 1 .. Len(x) /\ Len(x) \in Nat
    BY <2>5, <2>6
  <2>8. Len(x) = n
    BY <2>5, <2>7
  <2>9. \A k \in 1 .. n : x[k] = s[a + k - 1]
    BY <2>5
  <2> QED BY <2>6, <2>8, <2>9 DEF x, n
<1>2. CASE a = b + 1
  <2>1. SubSeq(s, a, b) = <<>>
    BY <1>2
  <2> QED BY <1>2, <2>1
<1> QED BY <1>1, <1>2

\* A trimmed text is empty or ends with a visible symbol, and its symbols are
\* symbols of the text.
Trimmed(h, set) == h = <<>> \/ h[Len(h)] \notin set

LEMMA TrimType ==
    ASSUME NEW A, NEW s \in Seq(A), NEW set
    PROVE  /\ Trim(s, set) \in Seq(A) /\ Trimmed(Trim(s, set), set)
           /\ \A k \in 1 .. Len(Trim(s, set)) : \E i \in 1 .. Len(s) : Trim(s, set)[k] = s[i]
<1>1. CASE Visible(s, set) = {}
  <2>1. Trim(s, set) = <<>>
    BY <1>1, TrimIs
  <2> QED BY <2>1 DEF Trimmed
<1>2. CASE Visible(s, set) # {}
  <2> DEFINE f == Least(Visible(s, set))
             g == Greatest(Visible(s, set))
             t == SubSeq(s, f, g)
             m == g - f + 1
  <2>1. /\ f \in Visible(s, set) /\ g \in Visible(s, set) /\ Trim(s, set) = t
        /\ \A i \in Visible(s, set) : f <= i /\ i <= g
    BY <1>2, TrimIs
  <2> HIDE DEF f, g
  <2>2. f \in 1 .. Len(s) /\ g \in 1 .. Len(s) /\ f <= g /\ s[g] \notin set /\ Len(s) \in Nat
    BY <2>1 DEF Visible
  <2>3. f \in Nat \ {0} /\ g \in Int /\ g <= Len(s) /\ f <= g + 1 /\ m \in Nat
        /\ m \in 1 .. m /\ f + m - 1 = g
        /\ \A k \in 1 .. m : f + k - 1 \in 1 .. Len(s)
    BY <2>2
  <2>4. t \in Seq(A) /\ Len(t) = m /\ \A k \in 1 .. m : t[k] = s[f + k - 1]
    BY <2>3, PartIs
  <2> HIDE DEF m, t
  <2>5. t[Len(t)] = s[g]
    BY <2>3, <2>4
  <2>6. \A k \in 1 .. Len(t) : \E i \in 1 .. Len(s) : t[k] = s[i]
    BY <2>3, <2>4
  <2> QED BY <2>1, <2>2, <2>4, <2>5, <2>6 DEF Trimmed
<1> QED BY <1>1, <1>2

TypedBook(l) == {b \in [header : Seq(Symbols), body : Seq(Symbols)] : Trimmed(b.header, Trimmable(l))}

LEMMA BookType ==
    ASSUME NEW s \in Seq(Symbols), NEW start \in 1 .. Len(s), NEW begin \in Nat \ {0},
           NEW end \in 1 .. Len(s), NEW l
    PROVE  HeaderAndBody(l, s, start, begin, end) \in TypedBook(l)
<1>1. start - 1 \in Int /\ start - 1 <= Len(s) /\ end - 1 \in Int /\ end - 1 <= Len(s)
  OBVIOUS
<1>2. SubSeq(s, 1, start - 1) \in Seq(Symbols) /\ SubSeq(s, begin, end - 1) \in Seq(Symbols)
  BY <1>1, PartType
<1>3. /\ Trim(SubSeq(s, 1, start - 1), Trimmable(l)) \in Seq(Symbols)
      /\ Trim(SubSeq(s, begin, end - 1), Trimmable(l)) \in Seq(Symbols)
      /\ Trimmed(Trim(SubSeq(s, 1, start - 1), Trimmable(l)), Trimmable(l))
  BY <1>2, TrimType
<1> QED BY <1>3 DEF HeaderAndBody, TypedBook

LEMMA AfterLineType ==
    ASSUME NEW A, NEW s \in Seq(A), NEW i \in Nat \ {0} PROVE AfterLine(s, i) \in Nat \ {0}
<1>1. CASE Where(s, i, {NL}) = {}
  BY <1>1 DEF AfterLine
<1>2. CASE Where(s, i, {NL}) # {}
  <2> DEFINE set == {NL}
             first == Least(Where(s, i, set))
  <2>1. Where(s, i, set) # {} /\ AfterLine(s, i) = first + 1
    <3>1. AfterLine(s, i) = IF Where(s, i, {NL}) = {} THEN Len(s) + 1 ELSE Least(Where(s, i, {NL})) + 1
      BY DEF AfterLine
    <3> QED BY <1>2, <3>1
  <2> HIDE DEF set
  <2>2. first \in i .. Len(s)
    BY <2>1, FirstPlace
  <2> HIDE DEF first
  <2> QED BY <2>1, <2>2
<1> QED BY <1>1, <1>2

LEMMA FirstMarker ==
    ASSUME NEW A, NEW s \in Seq(A), NEW set, Where(s, 1, set) # {}
    PROVE  Least(Where(s, 1, set)) \in 1 .. Len(s)
<1>1. 1 \in Nat \ {0}
  OBVIOUS
<1> QED BY <1>1, FirstPlace

LEMMA SplitType ==
    ASSUME NEW l \in {"cpp", "java", "python"}, NEW src, NEW s \in Seq(Symbols)
    PROVE  Split(l, src, s) \in TypedBook(l) \cup {None}
<1> DEFINE n == NormalizeNewlines(s)
<1>1. n \in Seq(Symbols) /\ Len(n) \in Nat
  <2>1. n \in Seq(Symbols)
    BY NormalizedType
  <2> QED BY <2>1
<1> HIDE DEF n
<1>2. SplitCpp(s) \in TypedBook("cpp") \cup {None}
  <2> SUFFICES ASSUME SplitCpp(s) # None PROVE SplitCpp(s) \in TypedBook("cpp")
    OBVIOUS
  <2> DEFINE start == Least(Where(n, 1, StartMarkers))
             begin == AfterLine(n, start)
             end == Least(Where(n, begin, EndMarkers))
  <2>1. /\ Where(n, 1, StartMarkers) # {} /\ Where(n, begin, EndMarkers) # {}
        /\ SplitCpp(s) = HeaderAndBody("cpp", n, start, begin, end)
    BY DEF SplitCpp, n
  <2>2. start \in 1 .. Len(n)
    BY <1>1, <2>1, FirstMarker
  <2> HIDE DEF start
  <2>3. begin \in Nat \ {0}
    BY <1>1, <2>2, AfterLineType
  <2> HIDE DEF begin
  <2>4. end \in 1 .. Len(n)
    BY <1>1, <2>1, <2>3, FirstPlace
  <2> QED BY <1>1, <2>1, <2>2, <2>3, <2>4, BookType
<1>3. SplitJava(s) \in TypedBook("java") \cup {None}
  <2> SUFFICES ASSUME SplitJava(s) # None PROVE SplitJava(s) \in TypedBook("java")
    OBVIOUS
  <2> DEFINE start == Least(Where(n, 1, StartMarkers))
             breaks == Where(n, start, LineEnds("java"))
             matched == IF breaks = {} THEN Len(n) + 1 ELSE Least(breaks)
             end == Least(Where(n, matched, EndMarkers))
             newline == Least(Where(n, matched, {NL}))
  <2>1. /\ Where(n, 1, StartMarkers) # {} /\ Where(n, matched, EndMarkers) # {}
        /\ Where(n, matched, {NL}) # {}
        /\ SplitJava(s) = HeaderAndBody("java", n, start, newline, end)
    BY DEF SplitJava, n
  <2>2. start \in 1 .. Len(n)
    BY <1>1, <2>1, FirstMarker
  <2> HIDE DEF start
  <2>3. matched \in Nat \ {0}
    <3>1. start \in Nat \ {0}
      BY <1>1, <2>2
    <3>2. breaks # {} => Least(breaks) \in start .. Len(n)
      BY <1>1, <3>1, FirstPlace
    <3> HIDE DEF breaks
    <3> QED BY <1>1, <3>1, <3>2
  <2> HIDE DEF matched
  <2>4. end \in 1 .. Len(n)
    BY <1>1, <2>1, <2>3, FirstPlace
  <2>5. newline \in Nat \ {0}
    <3>1. newline \in matched .. Len(n)
      BY <1>1, <2>1, <2>3, FirstPlace
    <3> HIDE DEF newline
    <3> QED BY <1>1, <2>3, <3>1
  <2> QED BY <1>1, <2>1, <2>2, <2>4, <2>5, BookType
<1>4. SplitPython(PythonNewlines(src, s)) \in TypedBook("python") \cup {None}
  <2> DEFINE x == PythonNewlines(src, s)
             start == Least(Where(x, 1, StartMarkers))
             begin == AfterLine(x, start)
             end == Least(Where(x, begin, EndMarkers))
  <2> SUFFICES ASSUME SplitPython(x) # None PROVE SplitPython(x) \in TypedBook("python")
    OBVIOUS
  <2>1. x \in Seq(Symbols) /\ Len(x) \in Nat
    <3>1. x = [i \in 1 .. Len(n) |-> IF src = "offline" /\ n[i] = CR THEN NL ELSE n[i]]
      BY DEF PythonNewlines, n
    <3>2. NL \in Symbols /\ \A i \in 1 .. Len(n) : n[i] \in Symbols
      BY <1>1 DEF Symbols, Blanks
    <3>3. x \in [1 .. Len(n) -> Symbols]
      BY <3>1, <3>2
    <3>4. x \in Seq(Symbols)
      BY <1>1, <3>3
    <3> QED BY <3>4
  <2> HIDE DEF x
  <2>2. /\ Where(x, 1, StartMarkers) # {} /\ Where(x, begin, EndMarkers) # {}
        /\ SplitPython(x) = HeaderAndBody("python", x, LineStart(x, start), begin, LineStart(x, end))
    BY DEF SplitPython
  <2>3. start \in 1 .. Len(x)
    BY <2>1, <2>2, FirstMarker
  <2> HIDE DEF start
  <2>4. begin \in Nat \ {0}
    BY <2>1, <2>3, AfterLineType
  <2> HIDE DEF begin
  <2>5. end \in 1 .. Len(x)
    BY <2>1, <2>2, <2>4, FirstPlace
  <2> HIDE DEF end
  <2>6. CutOf(x, x)
    BY <2>1 DEF CutOf
  <2>7. LineStart(x, start) \in 1 .. start /\ LineStart(x, end) \in 1 .. end
    BY <2>1, <2>3, <2>5, <2>6, LineStarts
  <2>8. LineStart(x, start) \in 1 .. Len(x) /\ LineStart(x, end) \in 1 .. Len(x)
    BY <2>1, <2>3, <2>5, <2>7
  <2> QED BY <2>1, <2>2, <2>4, <2>8, BookType
<1> QED BY <1>2, <1>3, <1>4 DEF Split

\* Where the value of a match begins, before anything is taken off it.
LEMMA ValueBegins ==
    ASSUME NEW l, NEW h \in Seq(Symbols), NEW p \in 1 .. Len(h), ValueStarts(l, h, p) # {}
    PROVE  LET first == Greatest(ValueStarts(l, h, p))
           IN  /\ first \in ValueStarts(l, h, p) /\ \A q \in ValueStarts(l, h, p) : q <= first
               /\ first \in p + 1 .. Len(h) /\ first \in 1 .. Len(h) /\ h[first] \notin LineEnds(l)
               /\ \A i \in p + 1 .. first - 1 : h[i] \in Spaces(l)
<1> DEFINE starts == ValueStarts(l, h, p)
           first == Greatest(starts)
<1>1. starts \subseteq 0 .. Len(h) /\ Len(h) \in Nat
  BY DEF ValueStarts
<1>2. first \in starts /\ \A q \in starts : q <= first
  <2> HIDE DEF starts
  <2> QED BY <1>1, Maximum DEF starts
<1> HIDE DEF first
<1>3. /\ first \in p + 1 .. Len(h) /\ h[first] \notin LineEnds(l)
      /\ \A i \in p + 1 .. first - 1 : h[i] \in Spaces(l)
  BY <1>2 DEF ValueStarts
<1>4. first \in 1 .. Len(h)
  BY <1>3
<1> QED BY <1>2, <1>3, <1>4 DEF first

\* And where it ends.
ValueEnd(l, h, label, first) ==
    LET stops == Where(h, first + 1, ValueStops(l, label))
    IN  IF stops = {} THEN Len(h) ELSE Least(stops) - 1

LEMMA ValueEnds ==
    ASSUME NEW l, NEW h \in Seq(Symbols), NEW label, NEW first \in 1 .. Len(h), h[first] \notin LineEnds(l)
    PROVE  LET b == ValueEnd(l, h, label, first)
           IN  /\ b \in first .. Len(h) /\ b \in Int /\ b <= Len(h)
               /\ b = Len(h) \/ (b + 1 \in 1 .. Len(h) /\ h[b + 1] \in ValueStops(l, label))
               /\ \A q \in first + 1 .. b : h[q] \notin ValueStops(l, label)
               /\ \A i \in first .. b : h[i] \notin LineEnds(l)
<1> DEFINE N == Len(h)
           set == ValueStops(l, label)
           stops == Where(h, first + 1, set)
           b == ValueEnd(l, h, label, first)
           x == Least(stops)
<1>0. N \in Nat /\ first \in 1 .. N /\ first + 1 \in Nat \ {0} /\ b = IF stops = {} THEN N ELSE x - 1
  BY DEF ValueEnd
<1> HIDE DEF b, N
<1>1. /\ b \in first .. N /\ b \in Int /\ b <= N
      /\ b = N \/ (b + 1 \in 1 .. N /\ h[b + 1] \in set)
      /\ \A q \in first + 1 .. b : h[q] \notin set
  <2>1. CASE stops = {}
    <3>1. \A q \in first + 1 .. N : h[q] \notin set
      BY <2>1 DEF Where, N
    <3> QED BY <1>0, <2>1, <3>1
  <2>2. CASE stops # {}
    <3> HIDE DEF set
    <3>1. x \in first + 1 .. N /\ h[x] \in set /\ \A j \in stops : x <= j
      BY <1>0, <2>2, FirstPlace DEF N
    <3> HIDE DEF x
    <3>2. b = x - 1 /\ b \in first .. N /\ b \in Int /\ b <= N /\ b + 1 = x /\ x \in 1 .. N
      BY <1>0, <2>2, <3>1
    <3>3. \A q \in first + 1 .. b : q \in first + 1 .. N /\ ~(x <= q)
      BY <1>0, <3>1, <3>2
    <3>4. \A q \in first + 1 .. b : h[q] \notin set
      BY <3>1, <3>3 DEF Where, N
    <3> QED BY <3>1, <3>2, <3>4
  <2> QED BY <2>1, <2>2
<1>2. \A i \in first .. b : i = first \/ i \in first + 1 .. b
  BY <1>0, <1>1
<1>3. \A i \in first .. b : h[i] \notin LineEnds(l)
  BY <1>1, <1>2 DEF ValueStops
<1> QED BY <1>1, <1>3 DEF b, N

LEMMA ValueType ==
    ASSUME NEW l, NEW header \in Seq(Symbols), NEW label, NEW p \in 1 .. Len(header), ValueStarts(l, header, p) # {}
    PROVE  ValueAfter(l, header, label, p) \in Seq(Symbols)
<1> DEFINE first == Greatest(ValueStarts(l, header, p))
           b == ValueEnd(l, header, label, first)
           t == SubSeq(header, first, b)
<1>1. first \in 1 .. Len(header) /\ header[first] \notin LineEnds(l)
  BY ValueBegins
<1>2. ValueAfter(l, header, label, p) = Trim(t, Strippable(l))
  BY DEF ValueAfter, ValueEnd
<1> HIDE DEF first
<1>3. b \in Int /\ b <= Len(header)
  BY <1>1, ValueEnds
<1> HIDE DEF b
<1>4. t \in Seq(Symbols)
  BY <1>1, <1>3, PartType
<1> HIDE DEF t
<1> QED BY <1>2, <1>4, TrimType

LEMMA FieldsType ==
    ASSUME NEW l, NEW header \in Seq(Symbols)
    PROVE  FieldsOf(l, header) \in [Labels -> Seq(Symbols) \cup {None}]
<1>1. ASSUME NEW h \in Seq(Symbols), NEW label PROVE Field(l, h, label) \in Seq(Symbols) \cup {None}
  <2> DEFINE places == {p \in 1 .. Len(h) : Labelled(l, h, label, p)}
             first == Least(places)
  <2> SUFFICES ASSUME Field(l, h, label) # None PROVE Field(l, h, label) \in Seq(Symbols)
    OBVIOUS
  <2>1. places # {} /\ Field(l, h, label) = ValueAfter(l, h, label, first)
    BY DEF Field
  <2>2. places \subseteq Nat /\ \A p \in places : p \in 1 .. Len(h) /\ ValueStarts(l, h, p) # {}
    BY DEF Labelled
  <2> HIDE DEF places
  <2>3. first \in places
    BY <2>1, <2>2, Minimum
  <2>4. first \in 1 .. Len(h) /\ ValueStarts(l, h, first) # {}
    BY <2>2, <2>3
  <2> HIDE DEF first
  <2> QED BY <2>1, <2>4, ValueType
<1> DEFINE h == IF l = "java" THEN NormalizeNewlines(header) ELSE header
<1>2. h \in Seq(Symbols)
  BY NormalizedType
<1>3. FieldsOf(l, header) = [label \in Labels |-> Field(l, h, label)]
  BY DEF FieldsOf
<1> HIDE DEF h
<1> QED BY <1>1, <1>2, <1>3

\* Before the tokenizer begins, its variables have their first values.
Fresh ==
    place \notin {"tokenizing", "tokenized"} => pos = 1 /\ current = <<>> /\ terms = {}

LEMMA ClosedType ==
    ASSUME NEW token \in Seq(TokenChars), NEW done \in SUBSET Seq(TokenChars)
    PROVE  Closed(token, done) \in SUBSET Seq(TokenChars)
BY DEF Closed

LEMMA FoldType ==
    ASSUME NEW c, IsTokenChar(c) PROVE Fold(c) \in TokenChars
BY BookTextAssumption DEF BookTextAssumption, IsTokenChar, Fold

LEMMA TypeStart == Init => TypeOK /\ Fresh
<1> SUFFICES ASSUME Init PROVE TypeOK /\ Fresh
  OBVIOUS
<1>1. <<>> \in Seq(Symbols) /\ <<>> \in Seq(TokenChars)
  OBVIOUS
<1> QED BY <1>1 DEF Init, TypeOK, Fresh

LEMMA TypeStep == TypeOK /\ Fresh /\ [Next]_vars => TypeOK' /\ Fresh'
<1> SUFFICES ASSUME TypeOK, Fresh, [Next]_vars PROVE TypeOK' /\ Fresh'
  OBVIOUS
<1> USE DEF TypeOK, Fresh
<1>0. text \in Seq(Symbols) /\ lang \in {"cpp", "java", "python"} /\ <<>> \in Seq(Symbols)
      /\ <<>> \in Seq(TokenChars)
  BY BookTextAssumption DEF BookTextAssumption
<1>1. CASE Receive
  <2>1. PICK n \in Len(received) + 1 .. Len(text) : received' = SubSeq(text, 1, n)
    BY <1>1 DEF Receive
  <2>2. 1 \in Nat \ {0} /\ n \in Int /\ n <= Len(text)
    BY <1>0, <2>1
  <2>3. received' \in Seq(Symbols)
    BY <1>0, <2>1, <2>2, PartType
  <2> QED BY <1>1, <2>3 DEF Receive
<1>2. CASE FetchFails
  BY <1>0, <1>2 DEF FetchFails
<1>3. CASE FetchSucceeds
  BY <1>3 DEF FetchSucceeds
<1>4. CASE SplitBook
  <2>1. book' \in TypedBook(lang) \cup {None}
    BY <1>0, <1>4, SplitType DEF SplitBook
  <2>2. book' # None => 1 <= Len(book'.body) + 1
    <3> SUFFICES ASSUME book' # None PROVE 1 <= Len(book'.body) + 1
      OBVIOUS
    <3>1. book'.body \in Seq(Symbols)
      BY <2>1 DEF TypedBook
    <3>2. Len(book'.body) \in Nat
      BY <3>1
    <3> QED BY <3>2
  <2> QED BY <1>4, <2>1, <2>2 DEF SplitBook, TypedBook
<1>5. CASE ExtractMetadata
  <2>1. book # None /\ book.header \in Seq(Symbols)
    BY <1>5 DEF ExtractMetadata
  <2>2. fields' \in [Labels -> Seq(Symbols) \cup {None}]
    BY <1>5, <2>1, FieldsType DEF ExtractMetadata
  <2> QED BY <1>5, <2>2 DEF ExtractMetadata
<1>6. CASE NextCharacter
  <2>1. book # None /\ book.body \in Seq(Symbols)
    BY <1>6 DEF NextCharacter
  <2>2. Len(book.body) \in Nat
    BY <2>1
  <2>3. pos' \in Nat \ {0} /\ pos' <= Len(book.body) + 1 /\ book' = book
    BY <1>6, <2>2 DEF NextCharacter
  <2>4. current' \in Seq(TokenChars) /\ terms' \subseteq Seq(TokenChars)
    <3> DEFINE c == book.body[pos]
    <3>1. CASE IsTokenChar(c)
      <4>1. Fold(c) \in TokenChars
        BY <3>1, FoldType
      <4>2. current' = Append(current, Fold(c)) /\ terms' = terms
        BY <1>6, <3>1 DEF NextCharacter
      <4> QED BY <4>1, <4>2
    <3>2. CASE ~IsTokenChar(c)
      BY <1>0, <1>6, <3>2, ClosedType DEF NextCharacter
    <3> QED BY <3>1, <3>2
  <2> QED BY <1>6, <2>3, <2>4 DEF NextCharacter
<1>7. CASE LastFlush
  <2>1. terms' \subseteq Seq(TokenChars) /\ current' \in Seq(TokenChars)
    BY <1>0, <1>7, ClosedType DEF LastFlush
  <2> QED BY <1>7, <2>1 DEF LastFlush
<1>8. CASE UNCHANGED vars
  BY <1>8 DEF vars
<1> QED BY <1>1, <1>2, <1>3, <1>4, <1>5, <1>6, <1>7, <1>8 DEF Next

\* The type invariant of the text of a book, from its source to its terms.
THEOREM TextTypeCorrect == Spec => []TypeOK
<1> QED BY TypeStart, TypeStep, PTL DEF Spec

(***************************************************************************)
(* The tokenizer                                                           *)
(***************************************************************************)
\* The words that end before position n, and their terms.
WordsBefore(s, n) == {w \in WordsIn(s) : w[2] < n}
TermsBefore(s, n) == {Folded(s, w[1], w[2]) : w \in WordsBefore(s, n)}

\* A run of token characters that no other precedes.
RunFrom(s, from, n) ==
    /\ from \in 1 .. n
    /\ \A k \in from .. n - 1 : IsTokenChar(s[k])
    /\ from = 1 \/ ~IsTokenChar(s[from - 1])

\* Between two rounds the tokenizer has the terms of the words before a run,
\* and is building that run.
Scanned ==
    place = "tokenizing" => \E from \in 1 .. pos :
        /\ RunFrom(book.body, from, pos)
        /\ current = Folded(book.body, from, pos - 1)
        /\ terms = TermsBefore(book.body, from)

LEMMA FoldedRun ==
    ASSUME NEW s, NEW n \in Nat, NEW from \in 1 .. n, \A k \in from .. n - 1 : IsTokenChar(s[k])
    PROVE  /\ Folded(s, from, n - 1) \in Seq(TokenChars)
           /\ Len(Folded(s, from, n - 1)) = n - from
<1> DEFINE f == Folded(s, from, n - 1)
           m == n - from
<1>1. m \in Nat /\ (n - 1) - from + 1 = m
  OBVIOUS
<1>2. f = [k \in 1 .. m |-> Fold(s[from + k - 1])]
  BY <1>1 DEF Folded
<1>3. \A k \in 1 .. m : from + k - 1 \in from .. n - 1
  OBVIOUS
<1> HIDE DEF m
<1>4. \A k \in 1 .. m : Fold(s[from + k - 1]) \in TokenChars
  BY <1>3, FoldType
<1> HIDE DEF f
<1>5. f \in [1 .. m -> TokenChars]
  BY <1>2, <1>4
<1>6. f \in Seq(TokenChars) /\ Len(f) = m
  BY <1>1, <1>5
<1> QED BY <1>6 DEF f, m

LEMMA LongerRun ==
    ASSUME NEW s, NEW n \in Nat, NEW from \in 1 .. n, \A k \in from .. n : IsTokenChar(s[k])
    PROVE  Folded(s, from, n) = Append(Folded(s, from, n - 1), Fold(s[n]))
<1> DEFINE f == Folded(s, from, n - 1)
           g == Folded(s, from, n)
           m == n - from
<1>1. m \in Nat /\ n - from + 1 = m + 1 /\ n + 1 \in Nat /\ from \in 1 .. n + 1
  OBVIOUS
<1>2. f \in Seq(TokenChars) /\ Len(f) = m
  BY FoldedRun
<1>3. \A k \in from .. (n + 1) - 1 : IsTokenChar(s[k])
  OBVIOUS
<1>4. g \in Seq(TokenChars) /\ Len(g) = m + 1
  <2>1. Folded(s, from, (n + 1) - 1) \in Seq(TokenChars) /\ Len(Folded(s, from, (n + 1) - 1)) = (n + 1) - from
    BY <1>1, <1>3, FoldedRun
  <2>2. (n + 1) - 1 = n /\ (n + 1) - from = m + 1
    OBVIOUS
  <2> HIDE DEF m
  <2> QED BY <2>1, <2>2
<1>5. \A k \in 1 .. m : g[k] = f[k]
  BY DEF Folded
<1>6. g[m + 1] = Fold(s[n])
  <2>1. m + 1 \in 1 .. n - from + 1 /\ from + (m + 1) - 1 = n
    OBVIOUS
  <2> QED BY <2>1 DEF Folded
<1>7. Fold(s[n]) \in TokenChars
  BY FoldType
<1> HIDE DEF f, g, m
<1>8. Append(f, Fold(s[n])) \in Seq(TokenChars) /\ Len(Append(f, Fold(s[n]))) = m + 1
  BY <1>2, <1>7
<1>9. \A k \in 1 .. m + 1 : g[k] = Append(f, Fold(s[n]))[k]
  BY <1>1, <1>2, <1>5, <1>6, <1>7
<1>10. g = Append(f, Fold(s[n]))
  BY <1>4, <1>8, <1>9
<1> QED BY <1>10 DEF f, g

\* A word that ends in a run is the run.
LEMMA WordOfRun ==
    ASSUME NEW s \in Seq(Symbols), NEW n \in 1 .. Len(s) + 1, NEW from, RunFrom(s, from, n),
           n = Len(s) + 1 \/ ~IsTokenChar(s[n]),
           NEW i \in 1 .. Len(s), NEW j \in 1 .. Len(s)
    PROVE  /\ IsWord(s, i, j) /\ from <= j /\ j < n + 1 => i = from /\ j = n - 1
           /\ i = from /\ j = n - 1 /\ i < j => IsWord(s, i, j)
<1>1. Len(s) \in Nat /\ from \in 1 .. n /\ from \in Nat
  BY DEF RunFrom
<1>2. ASSUME IsWord(s, i, j), from <= j, j < n + 1 PROVE i = from /\ j = n - 1
  <2>1. j # n
    BY <1>1, <1>2 DEF IsWord
  <2>2. j \in from .. n - 1
    BY <1>1, <1>2, <2>1
  <2>3. j = n - 1
    <3>1. ~(j + 1 \in from .. n - 1)
      BY <1>1, <1>2, <2>2 DEF IsWord, RunFrom
    <3> QED BY <1>1, <2>2, <3>1
  <2>4. ~(i < from)
    <3> SUFFICES ASSUME i < from PROVE FALSE
      OBVIOUS
    <3>1. from # 1 /\ from - 1 \in i .. j
      BY <1>1, <2>2
    <3> QED BY <1>2, <3>1 DEF IsWord, RunFrom
  <2>5. ~(i > from)
    <3> SUFFICES ASSUME i > from PROVE FALSE
      OBVIOUS
    <3>1. i # 1 /\ i <= j
      BY <1>1, <1>2 DEF IsWord
    <3>2. i - 1 \in from .. n - 1
      BY <1>1, <2>3, <3>1
    <3> QED BY <1>2, <3>1, <3>2 DEF IsWord, RunFrom
  <2> QED BY <1>1, <2>3, <2>4, <2>5
<1>3. ASSUME i = from, j = n - 1, i < j PROVE IsWord(s, i, j)
  <2>1. j = Len(s) \/ j + 1 = n
    BY <1>1, <1>3
  <2> QED BY <1>1, <1>3, <2>1 DEF IsWord, RunFrom
<1> QED BY <1>2, <1>3

LEMMA CloseRun ==
    ASSUME NEW s \in Seq(Symbols), NEW n \in 1 .. Len(s) + 1, NEW from, RunFrom(s, from, n),
           n = Len(s) + 1 \/ ~IsTokenChar(s[n])
    PROVE  Closed(Folded(s, from, n - 1), TermsBefore(s, from)) = TermsBefore(s, n + 1)
<1> DEFINE token == Folded(s, from, n - 1)
           kept == from < n - 1 /\ token \notin Stopwords
           run == <<from, n - 1>>
<1>1. Len(s) \in Nat /\ n \in Nat /\ from \in 1 .. n
  BY DEF RunFrom
<1>2. Len(token) = n - from
  BY <1>1, FoldedRun DEF RunFrom
<1>3. Closed(token, TermsBefore(s, from)) =
        IF kept THEN TermsBefore(s, from) \cup {token} ELSE TermsBefore(s, from)
  <2>1. Len(token) >= 2 <=> from < n - 1
    BY <1>1, <1>2
  <2> HIDE DEF token
  <2> QED BY <2>1 DEF Closed
<1>4. ASSUME NEW w \in WordsBefore(s, n + 1) PROVE w \in WordsBefore(s, from) \/ (kept /\ w = run)
  <2>1. /\ w \in (1 .. Len(s)) \X (1 .. Len(s)) /\ IsWord(s, w[1], w[2]) /\ w[1] < w[2]
        /\ Folded(s, w[1], w[2]) \notin Stopwords /\ w[2] < n + 1 /\ w \in WordsIn(s)
    BY DEF WordsBefore, WordsIn
  <2>2. w = <<w[1], w[2]>> /\ w[1] \in 1 .. Len(s) /\ w[2] \in 1 .. Len(s)
    BY <2>1
  <2>3. CASE w[2] < from
    BY <2>1, <2>3 DEF WordsBefore
  <2>4. CASE from <= w[2]
    <3> DEFINE i == w[1]
               j == w[2]
    <3>0. i \in 1 .. Len(s) /\ j \in 1 .. Len(s) /\ IsWord(s, i, j) /\ from <= j /\ j < n + 1
      BY <2>1, <2>2, <2>4
    <3> HIDE DEF i, j
    <3>1. i = from /\ j = n - 1
      BY <3>0, WordOfRun
    <3> USE DEF i, j
    <3> QED BY <2>1, <2>2, <3>1
  <2> QED BY <1>1, <2>2, <2>3, <2>4
<1>5. WordsBefore(s, from) \subseteq WordsBefore(s, n + 1)
  BY <1>1 DEF WordsBefore, WordsIn
<1>6. kept => run \in WordsBefore(s, n + 1)
  <2> SUFFICES ASSUME kept PROVE run \in WordsBefore(s, n + 1)
    OBVIOUS
  <2>1. from \in 1 .. Len(s) /\ n - 1 \in 1 .. Len(s)
    BY <1>1
  <2>2. IsWord(s, from, n - 1)
    BY <2>1, WordOfRun
  <2>3. run \in (1 .. Len(s)) \X (1 .. Len(s)) /\ run[1] = from /\ run[2] = n - 1
    BY <2>1
  <2> QED BY <1>1, <2>2, <2>3 DEF WordsBefore, WordsIn
<1>7. Folded(s, run[1], run[2]) = token
  OBVIOUS
<1> HIDE DEF kept, run, token
<1>8. CASE kept
  <2>1. WordsBefore(s, n + 1) = WordsBefore(s, from) \cup {run}
    BY <1>4, <1>5, <1>6, <1>8
  <2>2. TermsBefore(s, n + 1) = TermsBefore(s, from) \cup {token}
    BY <1>7, <2>1 DEF TermsBefore
  <2> QED BY <1>3, <1>8, <2>2 DEF token
<1>9. CASE ~kept
  <2>1. WordsBefore(s, n + 1) = WordsBefore(s, from)
    BY <1>4, <1>5, <1>9
  <2> QED BY <1>3, <1>9, <2>1 DEF TermsBefore, token
<1> QED BY <1>8, <1>9

TokensInv == TypeOK /\ Fresh /\ Scanned /\ TermsAreTheWords

LEMMA TokensStart == Init => TokensInv
BY TypeStart DEF Init, TokensInv, Scanned, TermsAreTheWords

LEMMA TokensStep == TokensInv /\ [Next]_vars => TokensInv'
<1> SUFFICES ASSUME TokensInv, [Next]_vars PROVE Scanned' /\ TermsAreTheWords'
  BY TypeStep DEF TokensInv
<1> DEFINE body == book.body
<1>0. place = "tokenizing" => body \in Seq(Symbols) /\ Len(body) \in Nat /\ pos \in 1 .. Len(body) + 1
  <2> SUFFICES ASSUME place = "tokenizing" PROVE body \in Seq(Symbols) /\ Len(body) \in Nat /\ pos \in 1 .. Len(body) + 1
    OBVIOUS
  <2>1. body \in Seq(Symbols) /\ pos \in Nat \ {0} /\ pos <= Len(body) + 1
    BY DEF TokensInv, TypeOK
  <2>2. Len(body) \in Nat
    BY <2>1
  <2> QED BY <2>1, <2>2
<1>1. CASE Receive \/ FetchFails \/ FetchSucceeds \/ SplitBook
  BY <1>1 DEF Receive, FetchFails, FetchSucceeds, SplitBook, Scanned, TermsAreTheWords
<1>2. CASE ExtractMetadata
  <2>1. pos' = 1 /\ current' = <<>> /\ terms' = {} /\ place' = "tokenizing"
    BY <1>2 DEF ExtractMetadata, TokensInv, Fresh
  <2>2. RunFrom(book'.body, 1, pos')
    BY <2>1 DEF RunFrom
  <2>3. Folded(book'.body, 1, pos' - 1) = <<>>
    BY <2>1 DEF Folded
  <2>4. TermsBefore(book'.body, 1) = {}
    BY DEF TermsBefore, WordsBefore, WordsIn
  <2> QED BY <2>1, <2>2, <2>3, <2>4 DEF Scanned, TermsAreTheWords
<1>3. CASE NextCharacter
  <2>1. place = "tokenizing" /\ place' = place /\ book' = book /\ pos' = pos + 1 /\ pos <= Len(body)
    BY <1>3 DEF NextCharacter
  <2>2. body \in Seq(Symbols) /\ Len(body) \in Nat /\ pos \in 1 .. Len(body)
    BY <1>0, <2>1
  <2>3. PICK from \in 1 .. pos : /\ RunFrom(body, from, pos)
                                 /\ current = Folded(body, from, pos - 1)
                                 /\ terms = TermsBefore(body, from)
    BY <2>1 DEF TokensInv, Scanned
  <2>4. CASE IsTokenChar(body[pos])
    <3>1. current' = Append(current, Fold(body[pos])) /\ terms' = terms
      BY <1>3, <2>4 DEF NextCharacter
    <3>2. RunFrom(body, from, pos + 1)
      BY <2>2, <2>3, <2>4 DEF RunFrom
    <3>3. \A k \in from .. pos : IsTokenChar(body[k])
      BY <2>2, <3>2 DEF RunFrom
    <3>4. current' = Folded(body, from, pos' - 1)
      <4>1. pos' - 1 = pos /\ pos \in Nat
        BY <2>1, <2>2
      <4>2. Folded(body, from, pos) = Append(Folded(body, from, pos - 1), Fold(body[pos]))
        BY <2>3, <3>3, <4>1, LongerRun
      <4> QED BY <2>3, <3>1, <4>1, <4>2
    <3>5. from \in 1 .. pos'
      BY <2>1, <2>2, <2>3
    <3> QED BY <2>1, <2>3, <3>1, <3>2, <3>4, <3>5 DEF Scanned, TermsAreTheWords
  <2>5. CASE ~IsTokenChar(body[pos])
    <3>1. current' = <<>> /\ terms' = Closed(current, terms)
      BY <1>3, <2>5 DEF NextCharacter
    <3>2. pos \in 1 .. Len(body) + 1 /\ pos \in Nat
      BY <2>2
    <3>3. terms' = TermsBefore(body, pos + 1)
      BY <2>2, <2>3, <2>5, <3>1, <3>2, CloseRun
    <3>4. RunFrom(body, pos + 1, pos + 1)
      <4>1. (pos + 1) - 1 = pos
        BY <3>2
      <4> QED BY <2>5, <3>2, <4>1 DEF RunFrom
    <3>5. Folded(body, pos + 1, (pos + 1) - 1) = <<>>
      BY <3>2 DEF Folded
    <3>6. pos + 1 \in 1 .. pos'
      BY <2>1, <3>2
    <3> QED BY <2>1, <3>1, <3>3, <3>4, <3>5, <3>6 DEF Scanned, TermsAreTheWords
  <2> QED BY <2>4, <2>5
<1>4. CASE LastFlush
  <2>1. place = "tokenizing" /\ place' = "tokenized" /\ book' = book /\ pos = Len(body) + 1
        /\ terms' = Closed(current, terms)
    BY <1>4 DEF LastFlush
  <2>2. body \in Seq(Symbols) /\ Len(body) \in Nat /\ pos \in 1 .. Len(body) + 1
    BY <1>0, <2>1
  <2>3. PICK from \in 1 .. pos : /\ RunFrom(body, from, pos)
                                 /\ current = Folded(body, from, pos - 1)
                                 /\ terms = TermsBefore(body, from)
    BY <2>1 DEF TokensInv, Scanned
  <2>4. terms' = TermsBefore(body, pos + 1)
    BY <2>1, <2>2, <2>3, CloseRun
  <2>5. WordsBefore(body, pos + 1) = WordsIn(body)
    BY <2>1, <2>2 DEF WordsBefore, WordsIn
  <2> QED BY <2>1, <2>4, <2>5 DEF Scanned, TermsAreTheWords, TermsBefore
<1>5. CASE UNCHANGED vars
  BY <1>5 DEF vars, TokensInv, Scanned, TermsAreTheWords
<1> QED BY <1>1, <1>2, <1>3, <1>4, <1>5 DEF Next

\* Character by character the tokenizer closes the words of the body and no
\* others, the last one too, whatever the body.
THEOREM TokenizerFindsTheWords == Spec => []TermsAreTheWords
<1>1. TokensInv => TermsAreTheWords
  BY DEF TokensInv
<1> QED BY <1>1, TokensStart, TokensStep, PTL DEF Spec

(***************************************************************************)
(* The three splitters on a regular text                                   *)
(***************************************************************************)
LEMMA LeastIs ==
    ASSUME NEW S, S \subseteq Nat, NEW m \in S, \A j \in S : m <= j
    PROVE  Least(S) = m
<1>1. Least(S) \in S /\ \A j \in S : Least(S) <= j
  BY Minimum
<1>2. Least(S) <= m /\ m <= Least(S) /\ Least(S) \in Nat /\ m \in Nat
  BY <1>1
<1> HIDE DEF Least
<1> QED BY <1>2

LEMMA GreatestIs ==
    ASSUME NEW n \in Nat, NEW S, S \subseteq 0 .. n, NEW m \in S, \A j \in S : j <= m
    PROVE  Greatest(S) = m
<1>1. Greatest(S) \in S /\ \A j \in S : j <= Greatest(S)
  BY Maximum
<1>2. Greatest(S) <= m /\ m <= Greatest(S)
  BY <1>1
<1>3. Greatest(S) \in 0 .. n /\ m \in 0 .. n
  BY <1>1
<1> DEFINE g == Greatest(S)
<1>4. g \in Int /\ m \in Int /\ g <= m /\ m <= g
  <2>1. \A i \in 0 .. n : i \in Int
    OBVIOUS
  <2> QED BY <1>2, <1>3, <2>1
<1> HIDE DEF g
<1>5. g = m
  BY <1>4
<1> QED BY <1>5 DEF g

\* A blank at the beginning makes no difference.
LEMMA TrimSkips ==
    ASSUME NEW A, NEW set, NEW s \in Seq(A), NEW a \in Nat \ {0}, NEW b \in Int, a <= b, b <= Len(s), s[a] \in set
    PROVE  Trim(SubSeq(s, a, b), set) = Trim(SubSeq(s, a + 1, b), set)
<1> DEFINE x == SubSeq(s, a, b)
           y == SubSeq(s, a + 1, b)
           n == b - a
<1>1. /\ x \in Seq(A) /\ Len(x) = n + 1 /\ y \in Seq(A) /\ Len(y) = n /\ n \in Nat
      /\ \A k \in 1 .. n + 1 : x[k] = s[a + k - 1]
      /\ \A k \in 1 .. n : y[k] = s[a + 1 + k - 1]
  BY PartIs
<1>2. x[1] \in set /\ \A k \in 1 .. n : x[k + 1] = y[k]
  <2>1. \A k \in 1 .. n : k + 1 \in 1 .. n + 1 /\ a + (k + 1) - 1 = a + 1 + k - 1
    BY <1>1
  <2>2. 1 \in 1 .. n + 1 /\ a + 1 - 1 = a
    BY <1>1
  <2> QED BY <1>1, <2>1, <2>2
<1> HIDE DEF x, y, n
<1> DEFINE X == Visible(x, set)
           Y == Visible(y, set)
<1>3. /\ X \subseteq 1 .. n + 1 /\ Y \subseteq 1 .. n
      /\ \A i \in Y : i + 1 \in X
      /\ \A i \in X : i - 1 \in Y
  <2>1. \A i \in 1 .. n + 1 : i = 1 \/ i - 1 \in 1 .. n
    BY <1>1
  <2>2. \A i \in X : i # 1 /\ i \in 1 .. n + 1
    BY <1>1, <1>2 DEF Visible
  <2>3. \A i \in X : i - 1 \in Y
    <3> SUFFICES ASSUME NEW i \in X PROVE i - 1 \in Y
      OBVIOUS
    <3>1. i - 1 \in 1 .. n /\ i \in Int
      BY <2>1, <2>2
    <3>2. x[(i - 1) + 1] = y[i - 1] /\ (i - 1) + 1 = i
      BY <1>2, <3>1
    <3> QED BY <1>1, <3>1, <3>2 DEF Visible
  <2>4. \A i \in Y : i + 1 \in X
    BY <1>1, <1>2 DEF Visible
  <2> QED BY <1>1, <2>3, <2>4 DEF Visible
<1>4. CASE Y = {}
  <2>1. X = {}
    BY <1>3, <1>4
  <2> QED BY <1>1, <1>4, <2>1, TrimIs DEF x, y
<1>5. CASE Y # {}
  <2> DEFINE f == Least(Y)
             g == Greatest(Y)
  <2>1. /\ f \in Y /\ g \in Y /\ Trim(y, set) = SubSeq(y, f, g)
        /\ \A i \in Y : f <= i /\ i <= g
    BY <1>1, <1>5, TrimIs
  <2> HIDE DEF f, g, X, Y
  <2>2. /\ f \in 1 .. n /\ g \in 1 .. n /\ f <= g /\ f + 1 \in X /\ g + 1 \in X
        /\ \A i \in X : f <= i - 1 /\ i - 1 <= g
    BY <1>3, <2>1
  <2>3. \A i \in X : f + 1 <= i /\ i <= g + 1
    BY <1>1, <1>3, <2>2
  <2>4. X \subseteq 0 .. n + 1 /\ X \subseteq Nat /\ n + 1 \in Nat
    BY <1>1, <1>3
  <2>5. Least(X) = f + 1 /\ Greatest(X) = g + 1
    BY <2>2, <2>3, <2>4, LeastIs, GreatestIs
  <2>6. Trim(x, set) = SubSeq(x, f + 1, g + 1)
    BY <1>1, <2>2, <2>5, TrimIs DEF X
  <2>7. SubSeq(x, f + 1, g + 1) = SubSeq(y, f, g)
    <3> DEFINE F == f + 1
               G == g + 1
               u == SubSeq(x, F, G)
               v == SubSeq(y, f, g)
               m == g - f + 1
    <3>0. /\ F \in Nat \ {0} /\ G \in Int /\ G <= Len(x) /\ F <= G + 1 /\ G - F + 1 = m
          /\ f \in Nat \ {0} /\ g \in Int /\ g <= Len(y) /\ f <= g + 1 /\ m \in Nat
      <4>1. n \in Nat /\ f \in 1 .. n /\ g \in 1 .. n /\ f <= g /\ Len(x) = n + 1 /\ Len(y) = n
        BY <1>1, <2>2
      <4> HIDE DEF u, v
      <4> QED BY <4>1
    <3>1. \A k \in 1 .. m : f + k - 1 \in 1 .. n /\ F + k - 1 = (f + k - 1) + 1
      <4>1. n \in Nat /\ f \in 1 .. n /\ g \in 1 .. n /\ f <= g
        BY <1>1, <2>2
      <4> QED BY <4>1
    <3> HIDE DEF F, G
    <3>2. /\ u \in Seq(A) /\ Len(u) = G - F + 1
          /\ \A k \in 1 .. G - F + 1 : u[k] = x[F + k - 1]
      BY <1>1, <3>0, PartIs
    <3>3. v \in Seq(A) /\ Len(v) = m /\ \A k \in 1 .. m : v[k] = y[f + k - 1]
      BY <1>1, <3>0, PartIs
    <3> HIDE DEF u, v, m
    <3>4. \A k \in 1 .. m : x[F + k - 1] = y[f + k - 1]
      BY <1>2, <3>1
    <3>5. Len(u) = m /\ \A k \in 1 .. m : u[k] = v[k]
      BY <3>0, <3>2, <3>3, <3>4
    <3>6. u = v
      BY <3>2, <3>3, <3>5
    <3> QED BY <3>6 DEF u, v, F, G
  <2> QED BY <2>1, <2>6, <2>7 DEF x, y
<1> QED BY <1>4, <1>5

\* A text whose markers begin their lines, which end with "\n" only.
RegularLines(s) ==
    \A i \in 1 .. Len(s) :
        s[i] \notin {CR} \cup LineSeparators /\ (s[i] \in StartMarkers \cup EndMarkers => i = 1 \/ s[i - 1] = NL)

LEMMA OwnLine ==
    ASSUME NEW A, NEW s \in Seq(A), RegularLines(s), NEW i \in 1 .. Len(s),
           s[i] \in StartMarkers \cup EndMarkers
    PROVE  LineStart(s, i) = i
<1> DEFINE before == {j \in 1 .. i - 1 : s[j] = NL}
<1>1. LineStart(s, i) = IF before = {} THEN 1 ELSE Greatest(before) + 1
  BY DEF LineStart
<1>2. i = 1 \/ i - 1 \in before
  BY DEF RegularLines
<1>3. CASE i = 1
  BY <1>1, <1>3
<1>4. CASE i - 1 \in before
  <2> DEFINE m == i - 1
  <2>1. m \in Nat /\ m \in before /\ before \subseteq 0 .. m /\ \A j \in before : j <= m
    BY <1>4
  <2> HIDE DEF m, before
  <2>2. Greatest(before) = m
    BY <2>1, GreatestIs
  <2>3. LineStart(s, i) = m + 1
    BY <1>1, <2>1, <2>2
  <2> QED BY <2>3 DEF m
<1> QED BY <1>2, <1>3, <1>4

\* What split_book does with a normalized text, with the blanks of a language.
LinesFor(l, s) ==
    LET starts == Where(s, 1, StartMarkers)
        begin == AfterLine(s, Least(starts))
        ends == Where(s, begin, EndMarkers)
    IN  IF starts = {} \/ ends = {} THEN None
        ELSE HeaderAndBody(l, s, Least(starts), begin, Least(ends))

LEMMA LinesAgree ==
    ASSUME NEW A, NEW s \in Seq(A), RegularLines(s)
    PROVE  SplitPython(s) = LinesFor("python", s)
<1> DEFINE start == Least(Where(s, 1, StartMarkers))
           begin == AfterLine(s, start)
           end == Least(Where(s, begin, EndMarkers))
<1>1. CASE Where(s, 1, StartMarkers) = {} \/ Where(s, begin, EndMarkers) = {}
  BY <1>1 DEF SplitPython, LinesFor
<1>2. CASE Where(s, 1, StartMarkers) # {} /\ Where(s, begin, EndMarkers) # {}
  <2>1. SplitPython(s) = HeaderAndBody("python", s, LineStart(s, start), begin, LineStart(s, end))
    BY <1>2 DEF SplitPython
  <2>2. LinesFor("python", s) = HeaderAndBody("python", s, start, begin, end)
    BY <1>2 DEF LinesFor
  <2>3. start \in 1 .. Len(s) /\ s[start] \in StartMarkers
    <3>1. 1 \in Nat \ {0}
      OBVIOUS
    <3> QED BY <1>2, <3>1, FirstPlace
  <2> HIDE DEF start
  <2>4. begin \in Nat \ {0}
    BY <2>3, AfterLineType
  <2> HIDE DEF begin
  <2>5. end \in 1 .. Len(s) /\ s[end] \in EndMarkers
    <3>1. end \in begin .. Len(s) /\ s[end] \in EndMarkers
      BY <1>2, <2>4, FirstPlace
    <3> HIDE DEF end
    <3> QED BY <2>4, <3>1
  <2> HIDE DEF end
  <2>6. LineStart(s, start) = start /\ LineStart(s, end) = end
    BY <2>3, <2>5, OwnLine
  <2> QED BY <2>1, <2>2, <2>6
<1> QED BY <1>1, <1>2

\* What the patterns of BookSplitter.split do with it.
JavaLines(s) ==
    LET starts == Where(s, 1, StartMarkers)
        lineEnds == Where(s, Least(starts), LineEnds("java"))
        matched == IF lineEnds = {} THEN Len(s) + 1 ELSE Least(lineEnds)
        ends == Where(s, matched, EndMarkers)
        newlines == Where(s, matched, {NL})
    IN  IF starts = {} \/ ends = {} \/ newlines = {} \/ Least(ends) < Least(newlines) THEN None
        ELSE HeaderAndBody("java", s, Least(starts), Least(newlines), Least(ends))

LEMMA PatternsAgree ==
    ASSUME NEW A, NEW s \in Seq(A), RegularLines(s), MarkersApart
    PROVE  JavaLines(s) = LinesFor("java", s)
<1> DEFINE start == Least(Where(s, 1, StartMarkers))
           newlines == Where(s, start, {NL})
           L == Least(newlines)
<1>1. CASE Where(s, 1, StartMarkers) = {}
  BY <1>1 DEF JavaLines, LinesFor
<1>2. CASE Where(s, 1, StartMarkers) # {}
  <2>1. start \in 1 .. Len(s) /\ Len(s) \in Nat /\ start \in Nat \ {0}
    <3>1. start \in 1 .. Len(s)
      BY <1>2, FirstMarker
    <3> HIDE DEF start
    <3> QED BY <3>1
  <2>2. Where(s, start, LineEnds("java")) = newlines
    <3>1. \A i \in start .. Len(s) : i \in 1 .. Len(s)
      BY <2>1
    <3> HIDE DEF start
    <3> QED BY <3>1 DEF Where, RegularLines, LineEnds
  <2>3. CASE newlines = {}
    <3>1. AfterLine(s, start) = Len(s) + 1
      BY <2>3 DEF AfterLine
    <3>2. Where(s, Len(s) + 1, EndMarkers) = {}
      BY <2>1 DEF Where
    <3>3. LinesFor("java", s) = None
      BY <3>1, <3>2 DEF LinesFor
    <3>4. JavaLines(s) = None
      BY <2>2, <2>3, <3>2 DEF JavaLines
    <3> QED BY <3>3, <3>4
  <2>4. CASE newlines # {}
    <3>1. L \in start .. Len(s) /\ s[L] = NL /\ L \in Nat \ {0}
      <4> DEFINE set == {NL}
      <4>1. Where(s, start, set) # {} /\ start \in Nat \ {0}
        BY <2>1, <2>4
      <4> HIDE DEF set, start
      <4>2. Least(Where(s, start, set)) \in start .. Len(s) /\ s[Least(Where(s, start, set))] \in set
        BY <4>1, FirstPlace
      <4> DEFINE x == Least(Where(s, start, set))
      <4> HIDE DEF x
      <4>3. x \in start .. Len(s) /\ s[x] \in set /\ x \in Nat \ {0}
        BY <2>1, <4>2 DEF x
      <4> QED BY <4>3 DEF set, x
    <3>2. AfterLine(s, start) = L + 1
      BY <2>4 DEF AfterLine
    <3> DEFINE ends == Where(s, L + 1, EndMarkers)
               end == Least(ends)
    <3>3. LinesFor("java", s) = IF ends = {} THEN None ELSE HeaderAndBody("java", s, start, L + 1, end)
      BY <1>2, <3>2 DEF LinesFor
    <3>4. Where(s, L, EndMarkers) = ends
      <4>1. L \in Nat /\ \A i \in L .. Len(s) : i = L \/ i \in L + 1 .. Len(s)
        <5> HIDE DEF L, start
        <5> QED BY <2>1, <3>1
      <4>2. s[L] \notin EndMarkers
        BY <3>1 DEF MarkersApart
      <4> HIDE DEF L
      <4> QED BY <4>1, <4>2 DEF Where
    <3>5. Where(s, L, {NL}) # {} /\ Least(Where(s, L, {NL})) = L
      <4>1. L \in Nat /\ L \in Where(s, L, {NL}) /\ \A j \in Where(s, L, {NL}) : L <= j
        BY <2>1, <3>1 DEF Where
      <4>2. Where(s, L, {NL}) \subseteq Nat
        <5>1. L \in Nat
          BY <4>1
        <5> HIDE DEF L
        <5> QED BY <5>1 DEF Where
      <4> HIDE DEF L
      <4> QED BY <4>1, <4>2, LeastIs
    <3>6. JavaLines(s) = IF ends = {} \/ end < L THEN None ELSE HeaderAndBody("java", s, start, L, end)
      BY <1>2, <2>2, <2>4, <3>4, <3>5 DEF JavaLines
    <3>7. CASE ends = {}
      BY <3>3, <3>6, <3>7
    <3>8. CASE ends # {}
      <4>1. end \in L + 1 .. Len(s)
        <5>1. L + 1 \in Nat \ {0}
          BY <2>1, <3>1
        <5> HIDE DEF L
        <5> QED BY <3>8, <5>1, FirstPlace
      <4> HIDE DEF end, ends, L, start
      <4>2. /\ L \in Nat \ {0} /\ end - 1 \in Int /\ L <= end - 1 /\ end - 1 <= Len(s) /\ s[L] \in Trimmable("java")
            /\ ~(end < L)
        BY <2>1, <3>1, <4>1 DEF Trimmable, Blanks
      <4>3. Trim(SubSeq(s, L, end - 1), Trimmable("java")) = Trim(SubSeq(s, L + 1, end - 1), Trimmable("java"))
        BY <4>2, TrimSkips
      <4> QED BY <3>3, <3>6, <3>8, <4>2, <4>3 DEF HeaderAndBody
    <3> QED BY <3>7, <3>8
  <2> QED BY <2>3, <2>4
<1> QED BY <1>1, <1>2

\* What is blank to some only stands between two inner characters.
OddWrapped(s) ==
    \A i \in 1 .. Len(s) :
        s[i] \in OddBlanks => i \in 2 .. Len(s) - 1 /\ s[i - 1] \in Inner /\ s[i + 1] \in Inner

LEMMA PartWrapped ==
    ASSUME NEW s \in Seq(Symbols), OddWrapped(s), NEW a \in Nat \ {0}, NEW b \in Int, b <= Len(s), a <= b + 1,
           a \in 2 .. Len(s) => s[a - 1] \notin Inner \/ s[a] \notin OddBlanks,
           b \in 1 .. Len(s) - 1 => s[b + 1] \notin Inner
    PROVE  OddWrapped(SubSeq(s, a, b))
<1> DEFINE x == SubSeq(s, a, b)
           m == b - a + 1
<1>1. x \in Seq(Symbols) /\ Len(x) = m /\ \A k \in 1 .. m : x[k] = s[a + k - 1]
  BY PartIs
<1>0. Len(s) \in Nat /\ m \in Nat
  OBVIOUS
<1> SUFFICES ASSUME NEW k \in 1 .. Len(x), x[k] \in OddBlanks
             PROVE  k \in 2 .. Len(x) - 1 /\ x[k - 1] \in Inner /\ x[k + 1] \in Inner
  BY DEF OddWrapped
<1> DEFINE i == a + k - 1
<1>2. k \in 1 .. m /\ i \in a .. b /\ i \in 1 .. Len(s) /\ i - 1 = a + (k - 1) - 1 /\ i + 1 = a + (k + 1) - 1
  <2>1. k \in 1 .. m
    BY <1>1
  <2> HIDE DEF x
  <2> QED BY <1>0, <2>1
<1>3. i \in 2 .. Len(s) - 1 /\ s[i] \in OddBlanks /\ s[i - 1] \in Inner /\ s[i + 1] \in Inner
  <2>1. s[i] \in OddBlanks
    BY <1>1, <1>2
  <2> HIDE DEF i
  <2> QED BY <1>2, <2>1 DEF OddWrapped
<1>4. i # a
  <2> SUFFICES ASSUME i = a PROVE FALSE
    OBVIOUS
  <2> HIDE DEF i
  <2> QED BY <1>0, <1>3
<1>5. i # b
  <2> SUFFICES ASSUME i = b PROVE FALSE
    OBVIOUS
  <2> HIDE DEF i
  <2>1. b \in 1 .. Len(s) - 1
    BY <1>0, <1>3
  <2> QED BY <1>3, <2>1
<1>6. k \in 2 .. m - 1 /\ k - 1 \in 1 .. m /\ k + 1 \in 1 .. m
  <2> HIDE DEF x
  <2> QED BY <1>0, <1>2, <1>4, <1>5
<1>7. x[k - 1] = s[i - 1] /\ x[k + 1] = s[i + 1]
  <2>1. \A j \in 1 .. m : x[j] = s[a + j - 1]
    BY <1>1
  <2> HIDE DEF x, m, i
  <2>2. x[k - 1] = s[a + (k - 1) - 1] /\ x[k + 1] = s[a + (k + 1) - 1]
    BY <1>6, <2>1
  <2> QED BY <1>2, <2>2
<1> HIDE DEF x, m, i
<1> QED BY <1>1, <1>3, <1>6, <1>7

\* So both ends are visible to all three, and they take off the same.
LEMMA TrimsAgree ==
    ASSUME NEW s \in Seq(Symbols), OddWrapped(s), NEW set, Blanks \subseteq set, set \subseteq Blanks \cup OddBlanks
    PROVE  Trim(s, set) = Trim(s, Blanks)
<1> DEFINE V == Visible(s, set)
           W == Visible(s, Blanks)
           f == Least(V)
           g == Greatest(V)
<1>0. Len(s) \in Nat
  OBVIOUS
<1>1. V \subseteq W /\ W \subseteq 1 .. Len(s)
  BY DEF Visible
<1>2. ASSUME NEW i \in W PROVE i \in V \/ (i - 1 \in V /\ i + 1 \in V)
  <2> SUFFICES ASSUME i \notin V PROVE i - 1 \in V /\ i + 1 \in V
    OBVIOUS
  <2>1. i \in 1 .. Len(s) /\ s[i] \notin Blanks /\ s[i] \in set
    BY DEF Visible
  <2>2. i \in 2 .. Len(s) - 1 /\ s[i - 1] \in Inner /\ s[i + 1] \in Inner
    BY <2>1 DEF OddWrapped
  <2>3. s[i - 1] \notin set /\ s[i + 1] \notin set
    BY <2>2 DEF Inner
  <2>4. i - 1 \in 1 .. Len(s) /\ i + 1 \in 1 .. Len(s)
    BY <1>0, <2>2
  <2> QED BY <2>3, <2>4 DEF Visible
<1>3. Trim(s, Blanks) = IF W = {} THEN <<>> ELSE SubSeq(s, Least(W), Greatest(W))
  BY DEF Trim, Visible
<1>4. /\ V = {} => Trim(s, set) = <<>>
      /\ V # {} => /\ f \in V /\ g \in V /\ Trim(s, set) = SubSeq(s, f, g)
                   /\ \A i \in V : f <= i /\ i <= g
  BY TrimIs
<1> HIDE DEF V, W
<1>5. CASE V = {}
  <2>1. W = {}
    BY <1>2, <1>5
  <2> QED BY <1>3, <1>4, <1>5, <2>1
<1>6. CASE V # {}
  <2> HIDE DEF f, g
  <2>0. f \in V /\ g \in V
    BY <1>4, <1>6
  <2>1. f \in W /\ g \in W /\ f \in 1 .. Len(s) /\ g \in 1 .. Len(s) /\ W # {} /\ W \subseteq Nat /\ W \subseteq 0 .. Len(s)
    BY <1>0, <1>1, <2>0
  <2>2. ASSUME NEW i \in W PROVE f <= i /\ i <= g
    <3>1. i \in Int /\ f \in Int /\ g \in Int
      BY <1>1, <2>1
    <3>2. CASE i \in V
      BY <1>4, <1>6, <3>2
    <3>3. CASE i - 1 \in V /\ i + 1 \in V
      <4>1. f <= i - 1 /\ i + 1 <= g
        BY <1>4, <1>6, <3>3
      <4> QED BY <3>1, <4>1
    <3> QED BY <1>2, <3>2, <3>3
  <2>3. Least(W) = f /\ Greatest(W) = g
    BY <1>0, <2>1, <2>2, LeastIs, GreatestIs
  <2> QED BY <1>3, <1>4, <1>6, <2>1, <2>3
<1> QED BY <1>5, <1>6

LEMMA BlankSets ==
    ASSUME NEW l \in {"cpp", "java", "python"}
    PROVE  /\ Blanks \subseteq Trimmable(l) /\ Trimmable(l) \subseteq Blanks \cup OddBlanks
           /\ Blanks \subseteq Strippable(l) /\ Strippable(l) \subseteq Blanks \cup OddBlanks
           /\ Blanks \subseteq Spaces(l) /\ Spaces(l) \subseteq Strippable(l)
           /\ NL \in Blanks /\ CR \in Blanks
BY DEF Trimmable, Strippable, Spaces, OddBlanks, Blanks

\* The line after the START marker begins after a "\n".
LEMMA LineBegins ==
    ASSUME NEW A, NEW s \in Seq(A), NEW i \in 1 .. Len(s)
    PROVE  AfterLine(s, i) \in 2 .. Len(s) => s[AfterLine(s, i) - 1] = NL
<1> DEFINE set == {NL}
           newlines == Where(s, i, set)
           x == Least(newlines)
<1>1. AfterLine(s, i) = IF newlines = {} THEN Len(s) + 1 ELSE x + 1
  BY DEF AfterLine
<1>2. CASE newlines = {}
  <2>1. AfterLine(s, i) = Len(s) + 1 /\ Len(s) \in Nat
    BY <1>1, <1>2
  <2> QED BY <2>1
<1>3. CASE newlines # {}
  <2>1. i \in Nat \ {0}
    OBVIOUS
  <2> HIDE DEF set
  <2>2. x \in i .. Len(s) /\ s[x] \in set
    BY <1>3, <2>1, FirstPlace
  <2> HIDE DEF x
  <2>3. AfterLine(s, i) = x + 1 /\ (x + 1) - 1 = x
    BY <1>1, <1>3, <2>1, <2>2
  <2> QED BY <2>2, <2>3 DEF set
<1> QED BY <1>2, <1>3

LEMMA BlanksAgree ==
    ASSUME NEW s \in Seq(Symbols), OddWrapped(s), NEW l \in {"cpp", "java", "python"}
    PROVE  LinesFor(l, s) = LinesFor("cpp", s)
<1> DEFINE start == Least(Where(s, 1, StartMarkers))
           begin == AfterLine(s, start)
           end == Least(Where(s, begin, EndMarkers))
<1>1. CASE Where(s, 1, StartMarkers) = {} \/ Where(s, begin, EndMarkers) = {}
  BY <1>1 DEF LinesFor
<1>2. CASE Where(s, 1, StartMarkers) # {} /\ Where(s, begin, EndMarkers) # {}
  <2>1. \A k : LinesFor(k, s) = HeaderAndBody(k, s, start, begin, end)
    BY <1>2 DEF LinesFor
  <2>2. start \in 1 .. Len(s) /\ s[start] \in StartMarkers
    <3>1. 1 \in Nat \ {0}
      OBVIOUS
    <3> QED BY <1>2, <3>1, FirstPlace
  <2> HIDE DEF start
  <2>3. begin \in Nat \ {0} /\ (begin \in 2 .. Len(s) => s[begin - 1] = NL)
    BY <2>2, AfterLineType, LineBegins
  <2> HIDE DEF begin
  <2>4. end \in begin .. Len(s) /\ s[end] \in EndMarkers
    BY <1>2, <2>3, FirstPlace
  <2> HIDE DEF end
  <2> DEFINE x == SubSeq(s, 1, start - 1)
             y == SubSeq(s, begin, end - 1)
  <2>5. x \in Seq(Symbols) /\ OddWrapped(x)
    <3> DEFINE b == start - 1
    <3>1. /\ 1 \in Nat \ {0} /\ b \in Int /\ b <= Len(s) /\ 1 <= b + 1 /\ ~(1 \in 2 .. Len(s)) /\ b + 1 = start
      BY <2>2
    <3>2. s[b + 1] \notin Inner
      BY <2>2, <3>1 DEF Inner
    <3> HIDE DEF b
    <3>3. SubSeq(s, 1, b) \in Seq(Symbols) /\ OddWrapped(SubSeq(s, 1, b))
      BY <3>1, <3>2, PartWrapped, PartType
    <3> QED BY <3>3 DEF b
  <2>6. y \in Seq(Symbols) /\ OddWrapped(y)
    <3> DEFINE b == end - 1
    <3>1. b \in Int /\ b <= Len(s) /\ begin <= b + 1 /\ b + 1 = end
      BY <2>3, <2>4
    <3>2. s[b + 1] \notin Inner /\ (begin \in 2 .. Len(s) => s[begin - 1] \notin Inner)
      BY <2>3, <2>4, <3>1 DEF Inner, Blanks
    <3> HIDE DEF b
    <3>3. SubSeq(s, begin, b) \in Seq(Symbols) /\ OddWrapped(SubSeq(s, begin, b))
      BY <2>3, <3>1, <3>2, PartWrapped, PartType
    <3> QED BY <3>3 DEF b
  <2> HIDE DEF x, y
  <2>7. /\ Trim(x, Trimmable(l)) = Trim(x, Blanks) /\ Trim(y, Trimmable(l)) = Trim(y, Blanks)
        /\ Trim(x, Trimmable("cpp")) = Trim(x, Blanks) /\ Trim(y, Trimmable("cpp")) = Trim(y, Blanks)
    BY <2>5, <2>6, BlankSets, TrimsAgree
  <2> QED BY <2>1, <2>7 DEF HeaderAndBody, x, y
<1> QED BY <1>1, <1>2

\* One looks for positions, one for patterns, one for lines: of a regular text
\* they make the same.
LEMMA SplittersAgree ==
    ASSUME NEW raw \in Seq(Symbols), Regular(raw), MarkersApart, NEW src,
           NEW l \in {"cpp", "java", "python"}
    PROVE  Split(l, src, raw) = LinesFor("cpp", NormalizeNewlines(raw))
<1> DEFINE s == NormalizeNewlines(raw)
<1>1. s \in Seq(Symbols)
  BY NormalizedType
<1>2. RegularLines(s) /\ OddWrapped(s)
  BY DEF Regular, RegularLines, OddWrapped
<1>3. SplitCpp(raw) = LinesFor("cpp", s) /\ SplitJava(raw) = JavaLines(s)
  BY DEF SplitCpp, LinesFor, SplitJava, JavaLines
<1>4. PythonNewlines(src, raw) = s
  <2>1. PythonNewlines(src, raw) = [i \in 1 .. Len(s) |-> IF src = "offline" /\ s[i] = CR THEN NL ELSE s[i]]
    BY DEF PythonNewlines
  <2> HIDE DEF s
  <2>2. s = [i \in 1 .. Len(s) |-> s[i]]
    BY <1>1
  <2>3. \A i \in 1 .. Len(s) : s[i] # CR
    BY <1>2 DEF RegularLines
  <2> QED BY <2>1, <2>2, <2>3
<1> HIDE DEF s
<1>5. JavaLines(s) = LinesFor("java", s) /\ SplitPython(s) = LinesFor("python", s)
  BY <1>1, <1>2, LinesAgree, PatternsAgree
<1>6. LinesFor("java", s) = LinesFor("cpp", s) /\ LinesFor("python", s) = LinesFor("cpp", s)
  BY <1>1, <1>2, BlanksAgree
<1> QED BY <1>3, <1>4, <1>5, <1>6 DEF Split, s

OnlyNewlines(s) == \A i \in 1 .. Len(s) : s[i] \notin {CR} \cup LineSeparators

\* What was taken off the ends leaves the blanks in the middle wrapped.
LEMMA TrimWrapped ==
    ASSUME NEW t \in Seq(Symbols), OddWrapped(t) PROVE OddWrapped(Trim(t, Blanks))
<1> DEFINE V == Visible(t, Blanks)
           f == Least(V)
           g == Greatest(V)
<1>1. CASE V = {}
  <2>1. Trim(t, Blanks) = <<>> /\ Len(<<>>) = 0
    BY <1>1, TrimIs
  <2> QED BY <2>1 DEF OddWrapped
<1>2. CASE V # {}
  <2>1. /\ f \in V /\ g \in V /\ Trim(t, Blanks) = SubSeq(t, f, g)
        /\ \A i \in V : f <= i /\ i <= g
    BY <1>2, TrimIs
  <2>2. \A i \in 1 .. Len(t) : t[i] \in Inner => i \in V
    BY DEF Visible, Inner
  <2>3. V \subseteq 1 .. Len(t) /\ Len(t) \in Nat
    BY DEF Visible
  <2> HIDE DEF V, f, g
  <2>4. f \in 1 .. Len(t) /\ g \in 1 .. Len(t) /\ f <= g
    BY <2>1, <2>3
  <2>5. f \in 2 .. Len(t) => t[f - 1] \notin Inner
    <3> SUFFICES ASSUME f \in 2 .. Len(t), t[f - 1] \in Inner PROVE FALSE
      OBVIOUS
    <3>1. f - 1 \in 1 .. Len(t) /\ ~(f <= f - 1)
      BY <2>3
    <3> QED BY <2>1, <2>2, <3>1
  <2>6. g \in 1 .. Len(t) - 1 => t[g + 1] \notin Inner
    <3> SUFFICES ASSUME g \in 1 .. Len(t) - 1, t[g + 1] \in Inner PROVE FALSE
      OBVIOUS
    <3>1. g + 1 \in 1 .. Len(t) /\ ~(g + 1 <= g)
      BY <2>3
    <3> QED BY <2>1, <2>2, <3>1
  <2>7. f \in Nat \ {0} /\ g \in Int /\ g <= Len(t) /\ f <= g + 1
    BY <2>3, <2>4
  <2>8. OddWrapped(SubSeq(t, f, g))
    BY <2>5, <2>6, <2>7, PartWrapped
  <2> QED BY <2>1, <2>8
<1> QED BY <1>1, <1>2

\* The header of a regular text is regular.
LEMMA HeaderIsRegular ==
    ASSUME NEW s \in Seq(Symbols), OnlyNewlines(s), OddWrapped(s), LinesFor("cpp", s) # None
    PROVE  OnlyNewlines(LinesFor("cpp", s).header) /\ OddWrapped(LinesFor("cpp", s).header)
<1> DEFINE start == Least(Where(s, 1, StartMarkers))
           begin == AfterLine(s, start)
           end == Least(Where(s, begin, EndMarkers))
           t == SubSeq(s, 1, start - 1)
<1>1. /\ Where(s, 1, StartMarkers) # {}
      /\ LinesFor("cpp", s) = HeaderAndBody("cpp", s, start, begin, end)
  BY DEF LinesFor
<1>2. LinesFor("cpp", s).header = Trim(t, Blanks)
  BY <1>1 DEF HeaderAndBody, Trimmable, Spaces
<1>3. start \in 1 .. Len(s) /\ s[start] \in StartMarkers
  <2>1. 1 \in Nat \ {0}
    OBVIOUS
  <2> QED BY <1>1, <2>1, FirstPlace
<1> HIDE DEF start
<1> DEFINE b == start - 1
<1>4. 1 \in Nat \ {0} /\ b \in Int /\ b <= Len(s) /\ 1 <= b + 1 /\ b - 1 + 1 = b /\ b + 1 = start
      /\ ~(1 \in 2 .. Len(s))
      /\ \A k \in 1 .. b : 1 + k - 1 \in 1 .. Len(s)
  BY <1>3
<1>5. t = SubSeq(s, 1, b)
  OBVIOUS
<1> HIDE DEF b, t
<1>6. t \in Seq(Symbols) /\ Len(t) = b /\ \A k \in 1 .. b : t[k] = s[1 + k - 1]
  BY <1>4, <1>5, PartIs
<1>7. OnlyNewlines(t)
  BY <1>4, <1>6 DEF OnlyNewlines
<1>8. \A k \in 1 .. Len(Trim(t, Blanks)) : \E i \in 1 .. Len(t) : Trim(t, Blanks)[k] = t[i]
  BY <1>6, TrimType
<1>9. s[b + 1] \notin Inner
  BY <1>3, <1>4 DEF Inner
<1>10. OddWrapped(t)
  BY <1>4, <1>5, <1>9, PartWrapped
<1>11. OddWrapped(Trim(t, Blanks))
  BY <1>6, <1>10, TrimWrapped
<1> QED BY <1>2, <1>7, <1>8, <1>11 DEF OnlyNewlines

LEMMA OneMoreSymbol ==
    ASSUME NEW A, NEW s \in Seq(A), NEW n \in 1 .. Len(s)
    PROVE  SubSeq(s, 1, n) = Append(SubSeq(s, 1, n - 1), s[n])
<1> DEFINE m == n - 1
           x == SubSeq(s, 1, n)
           y == SubSeq(s, 1, m)
           z == Append(y, s[n])
<1>1. /\ n \in Nat /\ n <= Len(s) /\ 1 <= n + 1 /\ n - 1 + 1 = n /\ 1 \in Nat \ {0} /\ n \in Int
      /\ m \in Int /\ m <= Len(s) /\ 1 <= m + 1 /\ m - 1 + 1 = m /\ m \in Nat /\ n = m + 1
      /\ \A k \in 1 .. n : 1 + k - 1 = k
      /\ \A k \in 1 .. n : k = n \/ k \in 1 .. m
      /\ s[n] \in A
  OBVIOUS
<1> HIDE DEF m
<1>2. x \in Seq(A) /\ Len(x) = n /\ \A k \in 1 .. n : x[k] = s[k]
  BY <1>1, PartIs
<1>3. y \in Seq(A) /\ Len(y) = m /\ \A k \in 1 .. m : y[k] = s[k]
  BY <1>1, PartIs
<1> HIDE DEF x, y
<1>4. z \in Seq(A) /\ Len(z) = n /\ z[n] = s[n] /\ \A k \in 1 .. m : z[k] = y[k]
  BY <1>1, <1>3
<1> HIDE DEF z
<1>5. \A k \in 1 .. n : x[k] = z[k]
  BY <1>1, <1>2, <1>3, <1>4
<1>6. x = z
  BY <1>2, <1>4, <1>5
<1> QED BY <1>6 DEF x, y, z, m

LEMMA WholePart ==
    ASSUME NEW A, NEW s \in Seq(A) PROVE SubSeq(s, 1, Len(s)) = s
<1> DEFINE n == Len(s)
           x == SubSeq(s, 1, n)
<1>1. /\ n \in Int /\ n <= Len(s) /\ 1 <= n + 1 /\ n - 1 + 1 = n /\ 1 \in Nat \ {0}
      /\ \A k \in 1 .. n : 1 + k - 1 = k
  OBVIOUS
<1>2. x \in Seq(A) /\ Len(x) = n /\ \A k \in 1 .. n : x[k] = s[k]
  BY <1>1, PartIs
<1> HIDE DEF x
<1>3. x = s
  BY <1>2
<1> QED BY <1>3 DEF x

LEMMA NormalAlready ==
    ASSUME NEW s \in Seq(Symbols), OnlyNewlines(s) PROVE NormalizeNewlines(s) = s
<1> DEFINE N == Len(s)
           U == UpTo(s)
           T == {n \in Nat : n <= N => U[n] = SubSeq(s, 1, n)}
<1>0. N \in Nat
  OBVIOUS
<1>1. 0 \in T
  <2>1. U[0] = <<>>
    BY <1>0, UpToEquation DEF Grown
  <2>2. SubSeq(s, 1, 0) = <<>>
    OBVIOUS
  <2> HIDE DEF U
  <2> QED BY <2>1, <2>2
<1>2. \A n \in Nat : n \in T => n + 1 \in T
  <2> SUFFICES ASSUME NEW n \in Nat, n \in T, n + 1 <= N PROVE U[n + 1] = SubSeq(s, 1, n + 1)
    OBVIOUS
  <2> DEFINE m == n + 1
  <2>1. m \in 1 .. Len(s) /\ m - 1 = n /\ U[n] = SubSeq(s, 1, n)
    BY <1>0
  <2> HIDE DEF m
  <2>2. ~Crlf(s, m)
    BY <2>1 DEF Crlf, OnlyNewlines
  <2>3. U[m] = Append(U[m - 1], s[m])
    BY <2>1, <2>2, OneMore
  <2>4. SubSeq(s, 1, m) = Append(SubSeq(s, 1, m - 1), s[m])
    BY <2>1, OneMoreSymbol
  <2>5. U[m] = SubSeq(s, 1, m)
    BY <2>1, <2>3, <2>4
  <2> QED BY <2>5 DEF m
<1>3. U[N] = SubSeq(s, 1, N)
  <2>1. Nat \subseteq T
    <3> HIDE DEF T
    <3> QED BY <1>1, <1>2, SetInduction
  <2> HIDE DEF N, U
  <2> QED BY <1>0, <2>1
<1> QED BY <1>3, NormalizeIsUpTo, WholePart

(***************************************************************************)
(* The fields                                                              *)
(***************************************************************************)
\* What a match has after its label at p: from f to g one piece of one line,
\* nothing but blanks before it.
ValueAt(l, h, p, f, g) ==
    /\ f \in p + 1 .. Len(h) /\ g \in f .. Len(h)
    /\ \A i \in p + 1 .. f - 1 : h[i] \in Strippable(l)
    /\ \A i \in f .. g : h[i] \notin LineEnds(l)

HasPiece(l, h, p, value) == \E f, g \in 1 .. Len(h) : ValueAt(l, h, p, f, g) /\ value = SubSeq(h, f, g)

LEMMA ValueIs ==
    ASSUME NEW l \in {"cpp", "java", "python"}, NEW h \in Seq(Symbols), NEW label, NEW p \in 1 .. Len(h),
           ValueStarts(l, h, p) # {}
    PROVE  LET value == ValueAfter(l, h, label, p)
               first == Greatest(ValueStarts(l, h, p))
               b == ValueEnd(l, h, label, first)
           IN  /\ value = <<>> => \A i \in first .. b : h[i] \in Strippable(l)
               /\ value # <<>> => HasPiece(l, h, p, value)
<1> DEFINE first == Greatest(ValueStarts(l, h, p))
           b == ValueEnd(l, h, label, first)
           t == SubSeq(h, first, b)
           set == Strippable(l)
           V == Visible(t, set)
           value == ValueAfter(l, h, label, p)
           n == b - first + 1
<1>0. Len(h) \in Nat /\ p \in Nat
  OBVIOUS
<1>1. /\ first \in p + 1 .. Len(h) /\ first \in 1 .. Len(h) /\ h[first] \notin LineEnds(l)
      /\ \A i \in p + 1 .. first - 1 : h[i] \in Spaces(l)
  BY ValueBegins
<1>2. value = Trim(t, set)
  BY DEF ValueAfter, ValueEnd
<1> HIDE DEF first
<1>3. /\ b \in first .. Len(h) /\ b \in Int /\ b <= Len(h)
      /\ \A i \in first .. b : h[i] \notin LineEnds(l)
  BY <1>1, ValueEnds
<1> HIDE DEF b
<1>4. t \in Seq(Symbols) /\ Len(t) = n /\ n \in Nat /\ \A k \in 1 .. n : t[k] = h[first + k - 1]
  <2>1. first \in Nat \ {0} /\ first <= b + 1 /\ n \in Nat /\ n = b - first + 1
    BY <1>0, <1>1, <1>3
  <2> HIDE DEF n
  <2> QED BY <1>3, <2>1, PartIs
<1>5. \A i \in p + 1 .. first - 1 : h[i] \in set
  BY <1>1, BlankSets
<1>6. n = b - first + 1
  OBVIOUS
<1> HIDE DEF set, t, n
<1>7. /\ V = {} => Trim(t, set) = <<>>
      /\ V # {} => /\ Least(V) \in V /\ Greatest(V) \in V
                   /\ \A i \in V : Least(V) <= i /\ i <= Greatest(V)
                   /\ Trim(t, set) = SubSeq(t, Least(V), Greatest(V))
  BY <1>4, TrimIs
<1>8. \A k \in 1 .. n : k \in V \/ t[k] \in set
  BY <1>4 DEF Visible
<1>9. V \subseteq 1 .. n
  BY <1>4 DEF Visible
<1> HIDE DEF V
<1>10. CASE V = {}
  <2>1. value = <<>>
    BY <1>2, <1>7, <1>10
  <2>2. \A i \in first .. b : i - first + 1 \in 1 .. n /\ first + (i - first + 1) - 1 = i
    BY <1>0, <1>1, <1>3, <1>6
  <2>3. ASSUME NEW i \in first .. b PROVE h[i] \in set
    <3> DEFINE k == i - first + 1
    <3>1. k \in 1 .. n /\ first + k - 1 = i
      BY <2>2
    <3> HIDE DEF k
    <3> QED BY <1>4, <1>8, <1>10, <3>1
  <2> QED BY <2>1, <2>3 DEF first, b, set
<1>11. CASE V # {}
  <2> DEFINE c == Least(V)
             d == Greatest(V)
             f == first + c - 1
             g == first + d - 1
             u == SubSeq(t, c, d)
             v == SubSeq(h, f, g)
             m == d - c + 1
  <2>1. c \in V /\ d \in V /\ value = u /\ \A i \in V : c <= i /\ i <= d
    BY <1>2, <1>7, <1>11
  <2> HIDE DEF c, d
  <2>2. c \in 1 .. n /\ d \in 1 .. n /\ c <= d
    BY <1>9, <2>1
  <2>3. /\ f \in first .. b /\ g \in f .. b /\ f \in Nat \ {0} /\ g \in Int /\ g <= Len(h) /\ f <= g + 1
        /\ g - f + 1 = m /\ m \in Nat \ {0}
        /\ c \in Nat \ {0} /\ d \in Int /\ d <= Len(t) /\ c <= d + 1
        /\ \A k \in 1 .. m : c + k - 1 \in 1 .. n /\ first + (c + k - 1) - 1 = f + k - 1
    BY <1>0, <1>1, <1>3, <1>4, <1>6, <2>2
  <2> HIDE DEF u, v
  <2>4. u \in Seq(Symbols) /\ Len(u) = m /\ \A k \in 1 .. m : u[k] = t[c + k - 1]
    BY <1>4, <2>3, PartIs DEF u
  <2>5. v \in Seq(Symbols) /\ Len(v) = m /\ \A k \in 1 .. m : v[k] = h[f + k - 1]
    <3> HIDE DEF f, g, m
    <3>1. v \in Seq(Symbols) /\ Len(v) = g - f + 1 /\ \A k \in 1 .. g - f + 1 : v[k] = h[f + k - 1]
      BY <2>3, PartIs DEF v
    <3> QED BY <2>3, <3>1
  <2>6. \A k \in 1 .. m : u[k] = v[k]
    <3> SUFFICES ASSUME NEW k \in 1 .. m PROVE u[k] = v[k]
      OBVIOUS
    <3> DEFINE x == c + k - 1
    <3>1. x \in 1 .. n /\ first + x - 1 = f + k - 1 /\ u[k] = t[x] /\ v[k] = h[f + k - 1]
      BY <2>3, <2>4, <2>5
    <3> HIDE DEF x, f, m
    <3> QED BY <1>4, <3>1
  <2> HIDE DEF m
  <2>7. u = v
    BY <2>4, <2>5, <2>6
  <2>8. \A i \in p + 1 .. f - 1 : h[i] \in set
    <3> SUFFICES ASSUME NEW i \in p + 1 .. f - 1 PROVE h[i] \in set
      OBVIOUS
    <3>1. CASE i \in p + 1 .. first - 1
      BY <1>5, <3>1
    <3>2. CASE i \notin p + 1 .. first - 1
      <4> DEFINE k == i - first + 1
      <4>1. k \in 1 .. n /\ first + k - 1 = i /\ ~(c <= k)
        BY <1>0, <1>1, <1>6, <2>2, <3>2
      <4> HIDE DEF k, c
      <4> QED BY <1>4, <1>8, <2>1, <4>1
    <3> QED BY <3>1, <3>2
  <2>9. f \in p + 1 .. Len(h) /\ g \in f .. Len(h) /\ f \in 1 .. Len(h) /\ g \in 1 .. Len(h)
        /\ \A i \in f .. g : i \in first .. b
    BY <1>0, <1>1, <1>3, <2>3
  <2> HIDE DEF f, g
  <2>10. ValueAt(l, h, p, f, g)
    BY <1>3, <2>8, <2>9 DEF ValueAt, set
  <2>11. value = SubSeq(h, f, g)
    BY <2>1, <2>7 DEF v
  <2>12. value # <<>>
    <3> HIDE DEF value
    <3> QED BY <2>1, <2>3, <2>4
  <2> HIDE DEF value
  <2>13. HasPiece(l, h, p, value)
    BY <2>9, <2>10, <2>11 DEF HasPiece
  <2> QED BY <2>12, <2>13 DEF value
<1> QED BY <1>10, <1>11

\* C++ and Python skip the blanks that they take off, so there is something
\* left of a match in a header that does not end with them.
LEMMA ValueIsThere ==
    ASSUME NEW l \in {"cpp", "python"}, NEW h \in Seq(Symbols), Trimmed(h, Spaces(l)), NEW p \in 1 .. Len(h) - 1
    PROVE  /\ ValueStarts(l, h, p) # {}
           /\ \A label : ValueAfter(l, h, label, p) # <<>>
<1> DEFINE N == Len(h)
           visible == {q \in p + 1 .. N : h[q] \notin Spaces(l)}
           q == Least(visible)
           starts == ValueStarts(l, h, p)
           first == Greatest(starts)
<1>0. N \in Nat /\ p \in Nat /\ p + 1 <= N /\ p \in 1 .. N
  OBVIOUS
<1>1. N \in visible
  <2>1. h # <<>> /\ h[N] \notin Spaces(l)
    BY <1>0 DEF Trimmed
  <2> QED BY <1>0, <2>1
<1>2. q \in visible /\ \A i \in visible : q <= i
  <2>1. visible \subseteq Nat
    BY <1>0
  <2> HIDE DEF visible
  <2> QED BY <1>1, <2>1, Minimum
<1> HIDE DEF q
<1>3. q \in p + 1 .. N /\ h[q] \notin Spaces(l) /\ \A i \in p + 1 .. q - 1 : h[i] \in Spaces(l)
  <2>1. q \in p + 1 .. N /\ h[q] \notin Spaces(l)
    BY <1>2
  <2>2. \A i \in p + 1 .. q - 1 : i \in p + 1 .. N /\ ~(q <= i)
    BY <1>0, <2>1
  <2> QED BY <1>2, <2>1, <2>2
<1> HIDE DEF visible
<1>4. LineEnds(l) \subseteq Spaces(l) /\ Strippable(l) = Spaces(l)
  BY DEF LineEnds, Spaces, Strippable, Blanks
<1>5. q \in starts
  BY <1>3, <1>4 DEF ValueStarts
<1>6. /\ first \in starts /\ first \in p + 1 .. N /\ first \in 1 .. N /\ q <= first /\ h[first] \notin LineEnds(l)
      /\ \A i \in p + 1 .. first - 1 : h[i] \in Spaces(l)
  <2>1. starts # {}
    BY <1>5
  <2> QED BY <1>0, <1>5, <2>1, ValueBegins
<1> HIDE DEF first
<1>7. first = q
  <2> SUFFICES ASSUME first # q PROVE FALSE
    OBVIOUS
  <2>1. q \in p + 1 .. first - 1
    BY <1>0, <1>3, <1>6
  <2> QED BY <1>3, <1>6, <2>1
<1>8. ASSUME NEW label, ValueAfter(l, h, label, p) = <<>> PROVE FALSE
  <2> DEFINE b == ValueEnd(l, h, label, first)
  <2>1. l \in {"cpp", "java", "python"} /\ starts # {}
    BY <1>5
  <2>2. \A i \in first .. b : h[i] \in Strippable(l)
    BY <1>0, <1>8, <2>1, ValueIs DEF first
  <2>3. b \in first .. N
    BY <1>6, ValueEnds
  <2> HIDE DEF b
  <2>4. first \in first .. b
    BY <1>0, <1>6, <2>3
  <2> QED BY <1>3, <1>4, <1>7, <2>2, <2>4
<1> QED BY <1>5, <1>8

\* The first match, and what it has.
LEMMA FieldIs ==
    ASSUME NEW l \in {"cpp", "java", "python"}, NEW h \in Seq(Symbols),
           l # "java" => Trimmed(h, Spaces(l)), NEW label
    PROVE  LET places == {p \in 1 .. Len(h) : Labelled(l, h, label, p)}
               m == Least(places)
               value == ValueAfter(l, h, label, m)
           IN  /\ places = {} => Field(l, h, label) = None
               /\ places # {} =>
                    /\ m \in places /\ \A o \in places : m <= o
                    /\ m \in 1 .. Len(h) /\ ValueStarts(l, h, m) # {}
                    /\ value = <<>> => l = "java" /\ Field(l, h, label) = None
                    /\ value # <<>> => Field(l, h, label) = value
<1> DEFINE places == {p \in 1 .. Len(h) : Labelled(l, h, label, p)}
           m == Least(places)
           value == ValueAfter(l, h, label, m)
<1>1. Field(l, h, label) = IF places = {} \/ (l # "cpp" /\ value = <<>>) THEN None ELSE value
  BY DEF Field
<1>2. places \subseteq Nat /\ \A p \in places : p \in 1 .. Len(h) /\ ValueStarts(l, h, p) # {}
  BY DEF Labelled
<1> HIDE DEF places
<1>3. CASE places # {}
  <2>1. m \in places /\ \A o \in places : m <= o
    BY <1>2, <1>3, Minimum
  <2> HIDE DEF m
  <2>2. m \in 1 .. Len(h) /\ ValueStarts(l, h, m) # {}
    BY <1>2, <2>1
  <2>3. m \in 1 .. Len(h) - 1
    <3>1. PICK q \in m + 1 .. Len(h) : TRUE
      BY <2>2 DEF ValueStarts
    <3> QED BY <2>2, <3>1
  <2>4. value = <<>> => l = "java"
    <3> SUFFICES ASSUME l # "java" PROVE value # <<>>
      OBVIOUS
    <3>1. l \in {"cpp", "python"} /\ Trimmed(h, Spaces(l))
      OBVIOUS
    <3> QED BY <2>3, <3>1, ValueIsThere
  <2> HIDE DEF value
  <2>5. /\ value = <<>> => l = "java" /\ Field(l, h, label) = None
        /\ value # <<>> => Field(l, h, label) = value
    BY <1>1, <1>3, <2>4
  <2> QED BY <1>3, <2>1, <2>2, <2>5 DEF places, m, value
<1> QED BY <1>1, <1>3 DEF places

\* In a regular header `\s*` takes blanks that are blank to all, a value begins
\* and ends with an inner character, and the same ends a line for all.
LEMMA FieldsAgree ==
    ASSUME NEW l \in {"cpp", "java", "python"}, NEW h \in Seq(Symbols), Trimmed(h, Blanks),
           OnlyNewlines(h), OddWrapped(h)
    PROVE  FieldsOf(l, h) = [label \in Labels |-> Field("cpp", h, label)]
<1>0. Len(h) \in Nat
  OBVIOUS
<1>1. \A i \in 1 .. Len(h) : h[i] \in LineEnds(l) <=> h[i] \in LineEnds("cpp")
  BY DEF LineEnds, OnlyNewlines
<1>2. ASSUME NEW label \in Labels, NEW p \in 1 .. Len(h), h[p] = label, NEW q \in p + 1 .. Len(h),
             \A i \in p + 1 .. q - 1 : h[i] \in Spaces(l)
      PROVE  h[q] \notin OddBlanks /\ \A i \in p + 1 .. q - 1 : h[i] \in Blanks
  <2>1. ASSUME NEW i \in p + 1 .. q PROVE h[i] \notin OddBlanks
    <3> SUFFICES ASSUME h[i] \in OddBlanks PROVE FALSE
      OBVIOUS
    <3>1. i \in 1 .. Len(h) /\ (i - 1 = p \/ i - 1 \in p + 1 .. q - 1)
      BY <1>0
    <3>2. h[i - 1] \in Inner
      BY <3>1 DEF OddWrapped
    <3>3. h[i - 1] \in Labels \/ h[i - 1] \in Spaces(l)
      BY <1>2, <3>1
    <3>4. Spaces(l) \subseteq Blanks \cup OddBlanks
      BY BlankSets
    <3> QED BY <3>2, <3>3, <3>4 DEF Inner
  <2>2. q \in p + 1 .. q /\ \A i \in p + 1 .. q - 1 : i \in p + 1 .. q
    BY <1>0
  <2> QED BY <1>2, <2>1, <2>2, BlankSets
<1>3. ASSUME NEW label \in Labels, NEW p \in 1 .. Len(h), h[p] = label
      PROVE  ValueStarts(l, h, p) = ValueStarts("cpp", h, p)
  <2>1. Blanks \subseteq Spaces(l) /\ Spaces("cpp") = Blanks
    BY BlankSets DEF Spaces
  <2>2. \A q \in p + 1 .. Len(h) : q \in 1 .. Len(h)
    BY <1>0
  <2>3. ASSUME NEW q \in ValueStarts(l, h, p) PROVE q \in ValueStarts("cpp", h, p)
    <3>1. /\ q \in p + 1 .. Len(h) /\ h[q] \notin LineEnds(l)
          /\ \A i \in p + 1 .. q - 1 : h[i] \in Spaces(l)
      BY DEF ValueStarts
    <3>2. \A i \in p + 1 .. q - 1 : h[i] \in Blanks
      BY <1>2, <1>3, <3>1
    <3>3. h[q] \notin LineEnds("cpp")
      BY <1>1, <2>2, <3>1
    <3> QED BY <2>1, <3>1, <3>2, <3>3 DEF ValueStarts
  <2>4. ASSUME NEW q \in ValueStarts("cpp", h, p) PROVE q \in ValueStarts(l, h, p)
    <3>1. /\ q \in p + 1 .. Len(h) /\ h[q] \notin LineEnds("cpp")
          /\ \A i \in p + 1 .. q - 1 : h[i] \in Blanks
      BY <2>1 DEF ValueStarts
    <3>2. h[q] \notin LineEnds(l)
      BY <1>1, <2>2, <3>1
    <3> QED BY <2>1, <3>1, <3>2 DEF ValueStarts
  <2> QED BY <2>3, <2>4
<1>4. ASSUME NEW label \in Labels, NEW p \in 1 .. Len(h)
      PROVE  Labelled(l, h, label, p) <=> Labelled("cpp", h, label, p)
  <2>1. p = 1 \/ p - 1 \in 1 .. Len(h)
    BY <1>0
  <2> QED BY <1>1, <1>3, <2>1 DEF Labelled
<1>5. ASSUME NEW label \in Labels, NEW p \in 1 .. Len(h), h[p] = label, ValueStarts("cpp", h, p) # {}
      PROVE  ValueAfter(l, h, label, p) = ValueAfter("cpp", h, label, p)
  <2> DEFINE first == Greatest(ValueStarts("cpp", h, p))
             b == ValueEnd("cpp", h, label, first)
             t == SubSeq(h, first, b)
  <2>1. ValueStarts(l, h, p) = ValueStarts("cpp", h, p)
    BY <1>3, <1>5
  <2>2. /\ first \in p + 1 .. Len(h) /\ first \in 1 .. Len(h) /\ h[first] \notin LineEnds("cpp")
        /\ \A i \in p + 1 .. first - 1 : h[i] \in Spaces(l)
    <3>1. /\ first \in p + 1 .. Len(h) /\ first \in 1 .. Len(h) /\ h[first] \notin LineEnds("cpp")
          /\ \A i \in p + 1 .. first - 1 : h[i] \in Spaces("cpp")
      BY <1>5, ValueBegins
    <3>2. Spaces("cpp") \subseteq Spaces(l)
      BY BlankSets DEF Spaces
    <3> QED BY <3>1, <3>2
  <2>3. /\ ValueAfter(l, h, label, p) = Trim(SubSeq(h, first, ValueEnd(l, h, label, first)), Strippable(l))
        /\ ValueAfter("cpp", h, label, p) = Trim(t, Strippable("cpp"))
    BY <2>1 DEF ValueAfter, ValueEnd
  <2> HIDE DEF first
  <2>4. ValueEnd(l, h, label, first) = b
    <3>1. \A i \in first + 1 .. Len(h) : i \in 1 .. Len(h)
      BY <1>0, <2>2
    <3>2. Where(h, first + 1, ValueStops(l, label)) = Where(h, first + 1, ValueStops("cpp", label))
      BY <1>1, <3>1 DEF Where, ValueStops
    <3> QED BY <3>2 DEF ValueEnd
  <2>5. /\ b \in first .. Len(h) /\ b \in Int /\ b <= Len(h)
        /\ b = Len(h) \/ (b + 1 \in 1 .. Len(h) /\ h[b + 1] \in ValueStops("cpp", label))
    BY <2>2, ValueEnds
  <2> HIDE DEF b
  <2>6. h[first] \notin OddBlanks
    BY <1>2, <1>5, <2>2
  <2>7. b \in 1 .. Len(h) - 1 => h[b + 1] \notin Inner
    <3>1. b \in 1 .. Len(h) - 1 => h[b + 1] \in ValueStops("cpp", label)
      BY <1>0, <2>5
    <3>2. ValueStops("cpp", label) \subseteq Blanks \cup {Bracket}
      BY DEF ValueStops, LineEnds, Blanks
    <3> QED BY <3>1, <3>2 DEF Inner
  <2>8. first \in Nat \ {0} /\ first <= b + 1
    BY <1>0, <2>2, <2>5
  <2>9. t \in Seq(Symbols) /\ OddWrapped(t)
    BY <2>5, <2>6, <2>7, <2>8, PartWrapped, PartType
  <2> HIDE DEF t
  <2>10. Trim(t, Strippable(l)) = Trim(t, Blanks) /\ Trim(t, Strippable("cpp")) = Trim(t, Blanks)
    BY <2>9, BlankSets, TrimsAgree
  <2> QED BY <2>3, <2>4, <2>10 DEF t
<1>6. ASSUME NEW label \in Labels PROVE Field(l, h, label) = Field("cpp", h, label)
  <2> DEFINE Places(k) == {p \in 1 .. Len(h) : Labelled(k, h, label, p)}
             m == Least(Places("cpp"))
             value == ValueAfter("cpp", h, label, m)
  <2>1. Places(l) = Places("cpp")
    BY <1>4
  <2>2. Trimmed(h, Spaces("cpp"))
    BY DEF Spaces
  <2>3. /\ Places("cpp") = {} => Field("cpp", h, label) = None
        /\ Places("cpp") # {} =>
             /\ m \in Places("cpp") /\ m \in 1 .. Len(h) /\ ValueStarts("cpp", h, m) # {}
             /\ value # <<>> /\ Field("cpp", h, label) = value
    BY <2>2, FieldIs
  <2>4. Field(l, h, label) =
          IF Places(l) = {} \/ (l # "cpp" /\ ValueAfter(l, h, label, Least(Places(l))) = <<>>) THEN None
          ELSE ValueAfter(l, h, label, Least(Places(l)))
    BY DEF Field
  <2>5. m \in Places("cpp") => h[m] = label
    BY DEF Labelled
  <2> HIDE DEF Places
  <2>6. CASE Places("cpp") = {}
    BY <2>1, <2>3, <2>4, <2>6
  <2>7. CASE Places("cpp") # {}
    <3>1. ValueAfter(l, h, label, m) = value
      <4> HIDE DEF m
      <4> QED BY <1>5, <2>3, <2>5, <2>7
    <3> HIDE DEF value
    <3> QED BY <2>1, <2>3, <2>4, <2>7, <3>1
  <2> QED BY <2>6, <2>7
<1>7. FieldsOf(l, h) = [label \in Labels |-> Field(l, IF l = "java" THEN NormalizeNewlines(h) ELSE h, label)]
  BY DEF FieldsOf
<1>8. (IF l = "java" THEN NormalizeNewlines(h) ELSE h) = h
  BY NormalAlready
<1> QED BY <1>6, <1>7, <1>8

(***************************************************************************)
(* The book is what the splitter made of what arrived                      *)
(***************************************************************************)
BookIsSplit ==
    /\ place \in {"discarded", "saved", "tokenizing", "tokenized"} => book = Split(lang, source, received)
    /\ book # None => book \in TypedBook(lang)
    /\ fields # None => place \in {"tokenizing", "tokenized"} /\ fields = FieldsOf(lang, book.header)

SplitInv == TypeOK /\ Fresh /\ BookIsSplit

LEMMA SplitStart == Init => SplitInv
BY TypeStart DEF Init, SplitInv, BookIsSplit

LEMMA SplitStep == SplitInv /\ [Next]_vars => SplitInv'
<1> SUFFICES ASSUME SplitInv, [Next]_vars PROVE BookIsSplit'
  BY TypeStep DEF SplitInv
<1>1. CASE Receive \/ FetchFails
  BY <1>1 DEF Receive, FetchFails, SplitInv, TypeOK, BookIsSplit
<1>2. CASE FetchSucceeds
  BY <1>2 DEF FetchSucceeds, SplitInv, TypeOK, BookIsSplit
<1>3. CASE SplitBook
  <2>1. lang \in {"cpp", "java", "python"} /\ received \in Seq(Symbols)
    BY BookTextAssumption DEF BookTextAssumption, SplitInv, TypeOK
  <2>2. Split(lang, source, received) \in TypedBook(lang) \cup {None}
    BY <2>1, SplitType
  <2> QED BY <1>3, <2>2 DEF SplitBook, SplitInv, BookIsSplit
<1>4. CASE ExtractMetadata
  BY <1>4 DEF ExtractMetadata, SplitInv, BookIsSplit
<1>5. CASE NextCharacter \/ LastFlush
  BY <1>5 DEF NextCharacter, LastFlush, SplitInv, BookIsSplit
<1>6. CASE UNCHANGED vars
  BY <1>6 DEF vars, SplitInv, BookIsSplit
<1> QED BY <1>1, <1>2, <1>3, <1>4, <1>5, <1>6 DEF Next

LEMMA SplitAgrees == SplitInv => LanguagesAgree
<1> SUFFICES ASSUME SplitInv, Regular(received)
             PROVE  /\ place \in {"saved", "discarded"} => \A l \in Languages : Split(l, source, received) = book
                    /\ fields # None => \A l \in Languages : FieldsOf(l, book.header) = fields
  BY DEF LanguagesAgree
<1> DEFINE s == NormalizeNewlines(received)
<1>1. /\ lang \in Languages /\ received \in Seq(Symbols) /\ MarkersApart
      /\ \A l \in Languages : l \in {"cpp", "java", "python"}
  BY BookTextAssumption DEF BookTextAssumption, SplitInv, TypeOK, MarkersApart
<1>2. \A l \in Languages : Split(l, source, received) = LinesFor("cpp", s)
  BY <1>1, SplittersAgree
<1>3. place \in {"saved", "discarded"} => \A l \in Languages : Split(l, source, received) = book
  BY <1>1, <1>2 DEF SplitInv, BookIsSplit
<1>4. ASSUME fields # None PROVE \A l \in Languages : FieldsOf(l, book.header) = fields
  <2>1. book # None /\ book = LinesFor("cpp", s) /\ fields = FieldsOf(lang, book.header)
    BY <1>1, <1>2, <1>4 DEF SplitInv, BookIsSplit, TypeOK
  <2>2. book.header \in Seq(Symbols) /\ Trimmed(book.header, Blanks)
    <3>1. book.header \in Seq(Symbols) /\ Trimmed(book.header, Trimmable(lang))
      BY <2>1 DEF SplitInv, BookIsSplit, TypedBook
    <3>2. Blanks \subseteq Trimmable(lang)
      BY <1>1, BlankSets
    <3> QED BY <3>1, <3>2 DEF Trimmed
  <2>3. s \in Seq(Symbols) /\ OnlyNewlines(s) /\ OddWrapped(s)
    BY <1>1, NormalizedType DEF Regular, OnlyNewlines, OddWrapped
  <2> HIDE DEF s
  <2>4. OnlyNewlines(book.header) /\ OddWrapped(book.header)
    BY <2>1, <2>3, HeaderIsRegular
  <2>5. \A l \in Languages : FieldsOf(l, book.header) = [label \in Labels |-> Field("cpp", book.header, label)]
    BY <1>1, <2>2, <2>4, FieldsAgree
  <2> QED BY <1>1, <2>1, <2>5
<1> QED BY <1>3, <1>4

\* Of a regular text, whole or in part, the three programs make the same book
\* or none, and find the same fields in its header.
THEOREM LanguagesAlwaysAgree == Spec => []LanguagesAgree
<1> QED BY SplitStart, SplitStep, SplitAgrees, PTL DEF Spec

(***************************************************************************)
(* A field and its line                                                    *)
(***************************************************************************)
\* LabelLines and FieldsComeFromTheirLine, for one header and one label.
LinesOf(l, h, label) ==
    {p \in 1 .. Len(h) : h[p] = label /\ (p = 1 \/ h[p - 1] \in LineEnds(l))}

NoValueFor(l, h, label, p) ==
    \A q \in p + 1 .. Len(h) :
        (\A i \in p + 1 .. q : h[i] \notin ValueStops(l, label)) => h[q] \in Strippable(l)

FromItsLine(l, h, label, value) ==
    \/ /\ value = None
       /\ \A p \in LinesOf(l, h, label) :
             IF l = "java" THEN NoValueFor(l, h, label, p) \/ \E o \in LinesOf(l, h, label) : o < p
             ELSE p = Len(h)
    \/ /\ value \notin {None, <<>>}
       /\ \E p \in LinesOf(l, h, label), q \in 1 .. Len(h) :
             /\ p < q /\ q + Len(value) - 1 <= Len(h)
             /\ SubSeq(h, q, q + Len(value) - 1) = value
             /\ \A i \in p + 1 .. q - 1 : h[i] \in Strippable(l)
             /\ \A i \in q .. q + Len(value) - 1 : h[i] \notin LineEnds(l)
             /\ \A o \in LinesOf(l, h, label) : p <= o \/ (l = "java" /\ NoValueFor(l, h, label, o))

\* A label line without a match: the header ends there, or, in Java alone, the
\* line does.
LEMMA NoMatch ==
    ASSUME NEW l \in {"cpp", "java", "python"}, NEW h \in Seq(Symbols), l # "java" => Trimmed(h, Spaces(l)),
           NEW label, NEW o \in LinesOf(l, h, label), ~Labelled(l, h, label, o)
    PROVE  IF l = "java" THEN NoValueFor(l, h, label, o) ELSE o = Len(h)
<1>0. Len(h) \in Nat /\ o \in 1 .. Len(h)
  BY DEF LinesOf
<1>1. ValueStarts(l, h, o) = {}
  BY DEF LinesOf, Labelled
<1>2. CASE l = "java"
  <2> SUFFICES ASSUME NEW q \in o + 1 .. Len(h), \A i \in o + 1 .. q : h[i] \notin ValueStops(l, label)
               PROVE  FALSE
    BY <1>2 DEF NoValueFor
  <2> DEFINE f == o + 1
  <2>1. f \in o + 1 .. Len(h) /\ f \in o + 1 .. q /\ \A i \in o + 1 .. f - 1 : FALSE
    BY <1>0
  <2> HIDE DEF f
  <2>2. h[f] \notin LineEnds(l)
    BY <2>1 DEF ValueStops
  <2>3. f \in ValueStarts(l, h, o)
    BY <2>1, <2>2 DEF ValueStarts
  <2> QED BY <1>1, <2>3
<1>3. CASE l # "java"
  <2> SUFFICES ASSUME o # Len(h) PROVE FALSE
    BY <1>3
  <2>1. o \in 1 .. Len(h) - 1 /\ l \in {"cpp", "python"} /\ Trimmed(h, Spaces(l))
    BY <1>0, <1>3
  <2> QED BY <1>1, <2>1, ValueIsThere
<1> QED BY <1>2, <1>3

\* A match of blanks alone.
LEMMA NothingLeft ==
    ASSUME NEW l \in {"cpp", "java", "python"}, NEW h \in Seq(Symbols), NEW label, NEW p \in 1 .. Len(h),
           ValueStarts(l, h, p) # {}, ValueAfter(l, h, label, p) = <<>>
    PROVE  NoValueFor(l, h, label, p)
<1> DEFINE first == Greatest(ValueStarts(l, h, p))
           b == ValueEnd(l, h, label, first)
<1>0. Len(h) \in Nat /\ p \in Nat
  OBVIOUS
<1>1. /\ first \in p + 1 .. Len(h) /\ first \in 1 .. Len(h) /\ h[first] \notin LineEnds(l)
      /\ \A i \in p + 1 .. first - 1 : h[i] \in Spaces(l)
  BY ValueBegins
<1>2. \A i \in first .. b : h[i] \in Strippable(l)
  BY ValueIs
<1> HIDE DEF first
<1>3. b \in first .. Len(h) /\ (b = Len(h) \/ (b + 1 \in 1 .. Len(h) /\ h[b + 1] \in ValueStops(l, label)))
  BY <1>1, ValueEnds
<1> HIDE DEF b
<1>4. SUFFICES ASSUME NEW q \in p + 1 .. Len(h), \A i \in p + 1 .. q : h[i] \notin ValueStops(l, label)
               PROVE  h[q] \in Strippable(l)
  BY DEF NoValueFor
<1>5. CASE q < first
  <2>1. q \in p + 1 .. first - 1
    BY <1>0, <1>1, <1>5
  <2> QED BY <1>1, <2>1, BlankSets
<1>6. CASE first <= q /\ q <= b
  <2>1. q \in first .. b
    BY <1>0, <1>1, <1>3, <1>6
  <2> QED BY <1>2, <2>1
<1>7. CASE b < q
  <2>1. b # Len(h) /\ b + 1 \in p + 1 .. q
    BY <1>0, <1>1, <1>3, <1>7
  <2> QED BY <1>3, <1>4, <2>1
<1>8. q < first \/ (first <= q /\ q <= b) \/ b < q
  BY <1>0, <1>1, <1>3
<1> QED BY <1>5, <1>6, <1>7, <1>8

LEMMA FieldOnItsLine ==
    ASSUME NEW l \in {"cpp", "java", "python"}, NEW h \in Seq(Symbols), l # "java" => Trimmed(h, Spaces(l)),
           NEW label
    PROVE  FromItsLine(l, h, label, Field(l, h, label))
<1> DEFINE places == {p \in 1 .. Len(h) : Labelled(l, h, label, p)}
           m == Least(places)
           value == ValueAfter(l, h, label, m)
           field == Field(l, h, label)
<1>0. Len(h) \in Nat
  OBVIOUS
<1>1. \A o \in LinesOf(l, h, label) : o \in places \/ (IF l = "java" THEN NoValueFor(l, h, label, o) ELSE o = Len(h))
  <2> SUFFICES ASSUME NEW o \in LinesOf(l, h, label), o \notin places
               PROVE  IF l = "java" THEN NoValueFor(l, h, label, o) ELSE o = Len(h)
    OBVIOUS
  <2>1. ~Labelled(l, h, label, o)
    BY DEF LinesOf
  <2> QED BY <2>1, NoMatch
<1>2. places \subseteq LinesOf(l, h, label)
  BY DEF LinesOf, Labelled
<1>3. /\ places = {} => field = None
      /\ places # {} =>
           /\ m \in places /\ \A o \in places : m <= o
           /\ m \in 1 .. Len(h) /\ ValueStarts(l, h, m) # {}
           /\ value = <<>> => l = "java" /\ field = None
           /\ value # <<>> => field = value
  BY FieldIs
<1>4. \A o \in LinesOf(l, h, label) : o \in 1 .. Len(h)
  BY DEF LinesOf
<1> HIDE DEF places, m, field
<1>5. CASE places = {}
  <2>1. field = None
    BY <1>3, <1>5
  <2>2. \A o \in LinesOf(l, h, label) : IF l = "java" THEN NoValueFor(l, h, label, o) ELSE o = Len(h)
    BY <1>1, <1>5
  <2> QED BY <2>1, <2>2 DEF FromItsLine, field
<1>6. CASE places # {} /\ value = <<>>
  <2>1. m \in LinesOf(l, h, label) /\ l = "java" /\ field = None /\ \A o \in places : m <= o
    BY <1>2, <1>3, <1>6
  <2>2. NoValueFor(l, h, label, m)
    BY <1>3, <1>6, NothingLeft
  <2>3. ASSUME NEW o \in LinesOf(l, h, label)
        PROVE  NoValueFor(l, h, label, o) \/ \E x \in LinesOf(l, h, label) : x < o
    <3>1. CASE o = m
      BY <2>2, <3>1
    <3>2. CASE o # m /\ o \in places
      <4>1. m < o
        BY <1>4, <2>1, <3>2
      <4> QED BY <2>1, <4>1
    <3>3. CASE o \notin places
      BY <1>1, <2>1, <3>3
    <3> QED BY <3>1, <3>2, <3>3
  <2> QED BY <2>1, <2>3 DEF FromItsLine, field
<1>7. CASE places # {} /\ value # <<>>
  <2>0. HasPiece(l, h, m, value)
    <3>1. m \in 1 .. Len(h) /\ ValueStarts(l, h, m) # {} /\ ValueAfter(l, h, label, m) # <<>>
      BY <1>3, <1>7
    <3> QED BY <3>1, ValueIs
  <2>1. PICK f, g \in 1 .. Len(h) : ValueAt(l, h, m, f, g) /\ value = SubSeq(h, f, g)
    <3> HIDE DEF value
    <3> QED BY <2>0 DEF HasPiece
  <2>2. m \in LinesOf(l, h, label) /\ m \in 1 .. Len(h) /\ field = value
    BY <1>2, <1>3, <1>7
  <2> HIDE DEF value
  <2>3. /\ f \in Nat \ {0} /\ g \in Int /\ g <= Len(h) /\ f <= g + 1 /\ m < f /\ f + (g - f + 1) - 1 = g
        /\ g - f + 1 \in Nat \ {0}
    BY <1>0, <2>1, <2>2 DEF ValueAt
  <2>4. Len(value) = g - f + 1 /\ value \in Seq(Symbols)
    BY <2>1, <2>3, PartIs
  <2>5. f + Len(value) - 1 = g
    BY <2>3, <2>4
  <2>6. field \notin {None, <<>>}
    BY <1>7, <2>2, <2>4, BookTextAssumption DEF BookTextAssumption
  <2>7. ASSUME NEW o \in LinesOf(l, h, label) PROVE m <= o \/ (l = "java" /\ NoValueFor(l, h, label, o))
    <3>1. CASE o \in places
      BY <1>3, <1>7, <3>1
    <3>2. CASE o \notin places /\ l = "java"
      BY <1>1, <3>2
    <3>3. CASE o \notin places /\ l # "java"
      <4>1. o = Len(h)
        BY <1>1, <3>3
      <4> QED BY <1>0, <2>2, <4>1
    <3> QED BY <3>1, <3>2, <3>3
  <2>8. /\ m < f /\ f + Len(field) - 1 <= Len(h)
        /\ SubSeq(h, f, f + Len(field) - 1) = field
        /\ \A i \in m + 1 .. f - 1 : h[i] \in Strippable(l)
        /\ \A i \in f .. f + Len(field) - 1 : h[i] \notin LineEnds(l)
    BY <2>1, <2>2, <2>3, <2>5 DEF ValueAt
  <2> QED BY <2>1, <2>2, <2>6, <2>7, <2>8 DEF FromItsLine, field
<1> QED BY <1>5, <1>6, <1>7

\* Where a symbol of h stands in the normalized h.
Place(h, i) == Len(UpTo(h)[i])

LEMMA PlaceOne ==
    ASSUME NEW h \in Seq(Symbols), NEW i \in 1 .. Len(h)
    PROVE  /\ Place(h, i - 1) \in Nat /\ Place(h, i) \in Nat
           /\ Crlf(h, i) => Place(h, i) = Place(h, i - 1)
           /\ ~Crlf(h, i) => /\ Place(h, i) = Place(h, i - 1) + 1
                             /\ Place(h, i) \in 1 .. Len(NormalizeNewlines(h))
                             /\ NormalizeNewlines(h)[Place(h, i)] = h[i]
<1> DEFINE u == UpTo(h)[i - 1]
           v == UpTo(h)[i]
           n == NormalizeNewlines(h)
<1>1. u \in Seq(Symbols) /\ (Crlf(h, i) => v = u) /\ (~Crlf(h, i) => v = Append(u, h[i])) /\ h[i] \in Symbols
  BY OneMore
<1>2. Begins(v, n)
  BY Growing
<1>3. n \in Seq(Symbols)
  BY NormalizedType
<1> HIDE DEF u, v, n
<1>4. Len(u) \in Nat /\ Len(n) \in Nat /\ (Crlf(h, i) => Len(v) = Len(u))
  BY <1>1, <1>3
<1>5. ASSUME ~Crlf(h, i) PROVE Len(v) = Len(u) + 1 /\ v[Len(v)] = h[i] /\ Len(v) \in 1 .. Len(v)
  <2>1. v = Append(u, h[i])
    BY <1>1, <1>5
  <2>2. Len(v) = Len(u) + 1 /\ v[Len(u) + 1] = h[i]
    BY <1>1, <2>1
  <2> QED BY <1>4, <2>2
<1>6. ASSUME ~Crlf(h, i) PROVE Len(v) \in 1 .. Len(n) /\ n[Len(v)] = h[i]
  BY <1>2, <1>4, <1>5, <1>6 DEF Begins
<1>7. Len(v) \in Nat
  BY <1>4, <1>5
<1> QED BY <1>4, <1>5, <1>6, <1>7 DEF Place, u, v, n

LEMMA PlacesGrow ==
    ASSUME NEW h \in Seq(Symbols), NEW i \in 0 .. Len(h), NEW j \in i .. Len(h)
    PROVE  Place(h, i) \in Nat /\ Place(h, j) \in Nat /\ Place(h, i) <= Place(h, j)
<1> DEFINE T == {d \in Nat : i + d <= Len(h) => Place(h, i) <= Place(h, i + d)}
<1>0. /\ Len(h) \in Nat /\ i \in Nat /\ \A k \in 0 .. Len(h) : Place(h, k) \in Nat
  <2>1. \A k \in 0 .. Len(h) : UpTo(h)[k] \in Seq(Symbols)
    BY UpToEquation
  <2> QED BY <2>1 DEF Place
<1>1. 0 \in T
  BY <1>0
<1>2. \A d \in Nat : d \in T => d + 1 \in T
  <2> SUFFICES ASSUME NEW d \in Nat, d \in T, i + (d + 1) <= Len(h)
               PROVE  Place(h, i) <= Place(h, i + (d + 1))
    OBVIOUS
  <2> DEFINE m == i + (d + 1)
  <2>1. m \in 1 .. Len(h) /\ m - 1 = i + d /\ Place(h, i) <= Place(h, i + d)
    BY <1>0
  <2> HIDE DEF m
  <2>2. Place(h, m) = Place(h, m - 1) \/ Place(h, m) = Place(h, m - 1) + 1
    BY <2>1, PlaceOne
  <2>3. Place(h, i) \in Nat /\ Place(h, m) \in Nat /\ Place(h, m - 1) \in Nat
    BY <1>0, <2>1
  <2>4. Place(h, i) <= Place(h, m)
    BY <2>1, <2>2, <2>3
  <2> QED BY <2>4 DEF m
<1>3. j - i \in T
  <2>1. Nat \subseteq T
    <3> HIDE DEF T
    <3> QED BY <1>1, <1>2, SetInduction
  <2>2. j - i \in Nat
    BY <1>0
  <2> HIDE DEF T
  <2> QED BY <2>1, <2>2
<1>4. i + (j - i) = j /\ j \in 0 .. Len(h) /\ j <= Len(h)
  BY <1>0
<1>5. Place(h, i) <= Place(h, j)
  BY <1>3, <1>4
<1> QED BY <1>0, <1>4, <1>5

\* Only the "\r" of a "\r\n" shares its place.
LEMMA PlacesApart ==
    ASSUME NEW h \in Seq(Symbols), NEW i \in 0 .. Len(h), NEW j \in i + 1 .. Len(h), ~Crlf(h, j)
    PROVE  Place(h, i) < Place(h, j)
<1>1. Len(h) \in Nat /\ j \in 1 .. Len(h) /\ j - 1 \in i .. Len(h)
  OBVIOUS
<1>2. Place(h, j) = Place(h, j - 1) + 1
  BY <1>1, PlaceOne
<1> DEFINE k == j - 1
<1>3. k \in i .. Len(h) /\ Place(h, j) = Place(h, k) + 1
  BY <1>1, <1>2
<1> HIDE DEF k
<1>4. Place(h, i) \in Nat /\ Place(h, k) \in Nat /\ Place(h, i) <= Place(h, k)
  BY <1>3, PlacesGrow
<1> QED BY <1>3, <1>4

LEMMA LastPlace ==
    ASSUME NEW h \in Seq(Symbols)
    PROVE  Place(h, 0) = 0 /\ Place(h, Len(h)) = Len(NormalizeNewlines(h))
<1>1. UpTo(h)[0] = <<>>
  BY UpToEquation DEF Grown
<1> QED BY <1>1, NormalizeIsUpTo DEF Place

\* Every symbol of the normalized h comes from one of h.
LEMMA PlaceTaken ==
    ASSUME NEW h \in Seq(Symbols), NEW k \in 1 .. Len(NormalizeNewlines(h))
    PROVE  \E i \in 1 .. Len(h) : ~Crlf(h, i) /\ Place(h, i) = k
<1> DEFINE N == Len(h)
           T == {n \in Nat : n <= N => \A x \in 1 .. Place(h, n) : \E i \in 1 .. N : ~Crlf(h, i) /\ Place(h, i) = x}
<1>0. N \in Nat
  OBVIOUS
<1>1. 0 \in T
  <2>1. \A x \in 1 .. Place(h, 0) : FALSE
    BY LastPlace
  <2> QED BY <2>1
<1>2. \A n \in Nat : n \in T => n + 1 \in T
  <2> SUFFICES ASSUME NEW n \in Nat, n \in T, n + 1 <= N, NEW x \in 1 .. Place(h, n + 1)
               PROVE  \E i \in 1 .. N : ~Crlf(h, i) /\ Place(h, i) = x
    OBVIOUS
  <2> DEFINE m == n + 1
  <2>1. m \in 1 .. Len(h) /\ m - 1 = n /\ \A y \in 1 .. Place(h, n) : \E i \in 1 .. N : ~Crlf(h, i) /\ Place(h, i) = y
    BY <1>0
  <2>2. x \in 1 .. Place(h, m)
    OBVIOUS
  <2> HIDE DEF m
  <2>3. /\ Place(h, m - 1) \in Nat /\ Place(h, m) \in Nat
        /\ Crlf(h, m) => Place(h, m) = Place(h, m - 1)
        /\ ~Crlf(h, m) => Place(h, m) = Place(h, m - 1) + 1
    BY <2>1, PlaceOne
  <2>4. x \in 1 .. Place(h, n) \/ (~Crlf(h, m) /\ Place(h, m) = x)
    BY <2>1, <2>2, <2>3
  <2> QED BY <2>1, <2>4
<1>3. N \in T
  <2>1. Nat \subseteq T
    <3> HIDE DEF T
    <3> QED BY <1>1, <1>2, SetInduction
  <2> HIDE DEF T, N
  <2> QED BY <1>0, <2>1
<1> QED BY <1>0, <1>3, LastPlace

LabelsVisible == {NL, CR} \cap Labels = {} /\ NL # CR

\* A label that begins a line begins the same line once h is normalized.
LEMMA LinesStay ==
    ASSUME NEW h \in Seq(Symbols), NEW label \in Labels, LabelsVisible,
           NEW i \in 1 .. Len(h), h[i] = label
    PROVE  /\ ~Crlf(h, i)
           /\ i \in LinesOf("java", h, label) <=>
                Place(h, i) \in LinesOf("java", NormalizeNewlines(h), label)
<1> DEFINE n == NormalizeNewlines(h)
           k == Place(h, i)
           before == i - 1
<1>1. ~Crlf(h, i)
  BY DEF Crlf, LabelsVisible
<1>2. k \in 1 .. Len(n) /\ n[k] = label /\ k = Place(h, before) + 1 /\ Place(h, before) \in Nat
  BY <1>1, PlaceOne
<1>3. Len(h) \in Nat /\ Len(n) \in Nat
  <2>1. n \in Seq(Symbols)
    BY NormalizedType
  <2> QED BY <2>1
<1>4. CASE i = 1
  <2>1. k = 1
    <3>1. before = 0
      BY <1>4
    <3>2. Place(h, before) = 0
      BY <3>1, LastPlace
    <3> HIDE DEF k, before
    <3> QED BY <1>2, <3>2
  <2>2. i \in LinesOf("java", h, label)
    BY <1>4 DEF LinesOf
  <2>3. k \in LinesOf("java", n, label)
    BY <1>2, <2>1 DEF LinesOf
  <2> QED BY <1>1, <2>2, <2>3
<1>5. CASE i # 1
  <2>1. before \in 1 .. Len(h) /\ before + 1 = i
    BY <1>5
  <2>2. ~Crlf(h, before)
    BY <2>1 DEF Crlf, LabelsVisible
  <2> HIDE DEF n, k, before
  <2>3. Place(h, before) \in 1 .. Len(n) /\ n[Place(h, before)] = h[before]
    BY <2>1, <2>2, PlaceOne DEF n
  <2>4. k # 1 /\ k - 1 = Place(h, before)
    BY <1>2, <1>3, <2>3
  <2>5. i \in LinesOf("java", h, label) <=> h[before] \in LineEnds("java")
    BY <1>5 DEF LinesOf, before
  <2>6. k \in LinesOf("java", n, label) <=> n[k - 1] \in LineEnds("java")
    BY <1>2, <2>4 DEF LinesOf
  <2> QED BY <1>1, <2>3, <2>4, <2>5, <2>6 DEF n, k
<1> QED BY <1>4, <1>5

\* One piece of one line stands in h as it stands in the normalized h.
LEMMA PieceStays ==
    ASSUME NEW h \in Seq(Symbols), NEW i \in 1 .. Len(h), ~Crlf(h, i), LabelsVisible,
           NEW g \in Place(h, i) .. Len(NormalizeNewlines(h)),
           \A x \in Place(h, i) .. g : NormalizeNewlines(h)[x] \notin {NL, CR}
    PROVE  \A d \in 0 .. g - Place(h, i) :
              i + d \in 1 .. Len(h) /\ h[i + d] = NormalizeNewlines(h)[Place(h, i) + d]
<1> DEFINE n == NormalizeNewlines(h)
           f == Place(h, i)
           Same(d) == i + d \in 1 .. Len(h) /\ Place(h, i + d) = f + d /\ h[i + d] = n[f + d]
           T == {d \in Nat : d <= g - f => Same(d)}
<1>0. /\ Len(h) \in Nat /\ i \in Nat /\ Place(h, i) \in 1 .. Len(n) /\ n[f] = h[i]
      /\ Len(n) \in Nat /\ f \in Nat \ {0}
  <2>1. n \in Seq(Symbols)
    BY NormalizedType
  <2>2. Place(h, i) \in 1 .. Len(n) /\ n[f] = h[i]
    BY PlaceOne
  <2>3. Len(n) \in Nat
    BY <2>1
  <2> HIDE DEF n
  <2> QED BY <2>2, <2>3
<1>1. 0 \in T
  <2>1. i + 0 = i /\ f + 0 = f
    BY <1>0
  <2> HIDE DEF f, n
  <2> QED BY <1>0, <2>1 DEF f
<1>2. \A d \in Nat : d \in T => d + 1 \in T
  <2> SUFFICES ASSUME NEW d \in Nat, d \in T, d + 1 <= g - f PROVE Same(d + 1)
    OBVIOUS
  <2> DEFINE a == i + d
             b == i + (d + 1)
  <2>0. g \in f .. Len(n)
    OBVIOUS
  <2>1. Same(d)
    <3>1. d <= g - f
      <4> HIDE DEF f, n
      <4> QED BY <1>0, <2>0
    <3> QED BY <3>1
  <2>2. a \in 1 .. Len(h) /\ Place(h, a) = f + d
    BY <2>1
  <2>3. f + d < Len(n) /\ f + (d + 1) \in f .. g
    <3> DEFINE N == Len(n)
    <3>1. N \in Nat /\ f \in Nat
      BY <1>0
    <3>2. g \in f .. N
      BY <2>0
    <3>3. d + 1 <= g - f
      OBVIOUS
    <3> HIDE DEF f, N
    <3>4. f + d < N /\ f + (d + 1) \in f .. g
      BY <3>1, <3>2, <3>3
    <3> QED BY <3>4 DEF N
  <2>4. a # Len(h)
    <3> SUFFICES ASSUME a = Len(h) PROVE FALSE
      OBVIOUS
    <3>1. Place(h, a) = Len(n)
      BY LastPlace
    <3> HIDE DEF a, f, n
    <3> QED BY <1>0, <2>2, <2>3, <3>1
  <2>5. b \in 1 .. Len(h) /\ b - 1 = a
    BY <1>0, <2>2, <2>4
  <2> HIDE DEF a, b
  <2>6. ~Crlf(h, b)
    <3> SUFFICES ASSUME Crlf(h, b) PROVE FALSE
      OBVIOUS
    <3> DEFINE c == b + 1
    <3>1. c \in 1 .. Len(h) /\ c - 1 = b /\ h[c] = NL /\ ~Crlf(h, c)
      BY <1>0, <2>5 DEF Crlf, LabelsVisible
    <3> HIDE DEF c
    <3>2. Place(h, b) = f + d
      BY <2>2, <2>5, PlaceOne
    <3>3. Place(h, c) = Place(h, b) + 1 /\ n[Place(h, c)] = NL
      BY <3>1, PlaceOne
    <3>4. n[f + (d + 1)] = NL
      <4> HIDE DEF f, n
      <4>1. f + (d + 1) = (f + d) + 1
        BY <1>0
      <4> QED BY <3>2, <3>3, <4>1
    <3> QED BY <2>3, <3>4
  <2>7. Place(h, b) = (f + d) + 1 /\ n[Place(h, b)] = h[b]
    BY <2>2, <2>5, <2>6, PlaceOne
  <2>8. (f + d) + 1 = f + (d + 1)
    <3> HIDE DEF f
    <3> QED BY <1>0
  <2> QED BY <2>5, <2>7, <2>8 DEF b
<1>3. Nat \subseteq T
  <2> HIDE DEF T
  <2> QED BY <1>1, <1>2, SetInduction
<1>4. \A d \in 0 .. g - f : d \in Nat /\ d <= g - f
  <2> HIDE DEF f
  <2> QED BY <1>0
<1> QED BY <1>3, <1>4

\* A line without a value has none before h is normalized.
LEMMA NoValueStays ==
    ASSUME NEW h \in Seq(Symbols), NEW label, NEW o \in 1 .. Len(h), ~Crlf(h, o),
           NoValueFor("java", NormalizeNewlines(h), label, Place(h, o))
    PROVE  NoValueFor("java", h, label, o)
<1> DEFINE n == NormalizeNewlines(h)
           stops == ValueStops("java", label)
           O == Place(h, o)
<1>0. Len(h) \in Nat /\ Len(n) \in Nat /\ O \in 1 .. Len(n)
  <2>1. n \in Seq(Symbols)
    BY NormalizedType
  <2>2. O \in 1 .. Len(n)
    BY PlaceOne
  <2> HIDE DEF n
  <2> QED BY <2>1, <2>2
<1>1. SUFFICES ASSUME NEW q \in o + 1 .. Len(h), \A i \in o + 1 .. q : h[i] \notin stops
               PROVE  h[q] \in Strippable("java")
  BY DEF NoValueFor
<1> DEFINE Q == Place(h, q)
<1>2. \A i \in o + 1 .. q : i \in 1 .. Len(h) /\ ~Crlf(h, i)
  <2>1. CR \in stops
    BY DEF ValueStops, LineEnds
  <2>2. \A i \in o + 1 .. q : i \in 1 .. Len(h) /\ h[i] # CR
    BY <1>0, <1>1, <2>1
  <2> QED BY <2>2 DEF Crlf
<1>3. q \in o + 1 .. q /\ q \in 1 .. Len(h) /\ o \in 0 .. Len(h)
  BY <1>0
<1>4. Q \in 1 .. Len(n) /\ n[Q] = h[q] /\ O < Q
  BY <1>2, <1>3, PlaceOne, PlacesApart
<1> HIDE DEF stops, Q, O
<1>5. ASSUME NEW X \in O + 1 .. Q PROVE n[X] \notin stops
  <2>1. X \in 1 .. Len(n)
    BY <1>0, <1>4
  <2>2. PICK x \in 1 .. Len(h) : ~Crlf(h, x) /\ Place(h, x) = X
    BY <2>1, PlaceTaken
  <2>3. n[X] = h[x]
    BY <2>2, PlaceOne
  <2>4. o < x
    <3> SUFFICES ASSUME ~(o < x) PROVE FALSE
      OBVIOUS
    <3>1. x \in 0 .. Len(h) /\ o \in x .. Len(h)
      BY <1>0
    <3>2. X <= O
      BY <2>2, <3>1, PlacesGrow DEF O
    <3> QED BY <1>0, <1>4, <3>2
  <2>5. x <= q
    <3> SUFFICES ASSUME ~(x <= q) PROVE FALSE
      OBVIOUS
    <3>1. q \in 0 .. Len(h) /\ x \in q + 1 .. Len(h)
      BY <1>0, <1>3
    <3>2. Q < X
      BY <2>2, <3>1, PlacesApart DEF Q
    <3> QED BY <1>0, <1>4, <3>2
  <2>6. x \in o + 1 .. q
    BY <1>3, <2>4, <2>5
  <2> QED BY <1>1, <2>3, <2>6
<1>6. n[Q] \in Strippable("java")
  <2>1. Q \in O + 1 .. Len(n)
    BY <1>0, <1>4
  <2> HIDE DEF n
  <2>2. NoValueFor("java", n, label, O)
    BY DEF n, O
  <2> QED BY <1>5, <2>1, <2>2 DEF NoValueFor, stops
<1> QED BY <1>4, <1>6

\* What comes from its line in the normalized h does so in h.
LEMMA LineInHeader ==
    ASSUME NEW h \in Seq(Symbols), NEW label \in Labels, LabelsVisible, NEW value \in Seq(Symbols) \cup {None},
           FromItsLine("java", NormalizeNewlines(h), label, value)
    PROVE  FromItsLine("java", h, label, value)
<1> DEFINE n == NormalizeNewlines(h)
           Lines == LinesOf("java", h, label)
           Normal == LinesOf("java", n, label)
<1>0. n \in Seq(Symbols) /\ Len(h) \in Nat /\ Len(n) \in Nat
  <2>1. n \in Seq(Symbols)
    BY NormalizedType
  <2> QED BY <2>1
<1>1. \A o \in Lines : o \in 1 .. Len(h) /\ h[o] = label /\ ~Crlf(h, o) /\ Place(h, o) \in Normal
  <2> SUFFICES ASSUME NEW o \in Lines
               PROVE  o \in 1 .. Len(h) /\ h[o] = label /\ ~Crlf(h, o) /\ Place(h, o) \in Normal
    OBVIOUS
  <2>1. o \in 1 .. Len(h) /\ h[o] = label
    BY DEF LinesOf
  <2> QED BY <2>1, LinesStay
<1>2. CASE /\ value = None
           /\ \A p \in Normal : NoValueFor("java", n, label, p) \/ \E o \in Normal : o < p
  <2> SUFFICES ASSUME NEW p \in Lines PROVE NoValueFor("java", h, label, p) \/ \E o \in Lines : o < p
    BY <1>2 DEF FromItsLine
  <2> DEFINE P == Place(h, p)
  <2>1. p \in 1 .. Len(h) /\ ~Crlf(h, p) /\ P \in Normal
    BY <1>1
  <2>2. CASE NoValueFor("java", n, label, P)
    BY <2>1, <2>2, NoValueStays
  <2>3. CASE \E o \in Normal : o < P
    <3>1. PICK O \in Normal : O < P
      BY <2>3
    <3>2. O \in 1 .. Len(n) /\ n[O] = label
      BY DEF LinesOf
    <3>3. PICK o \in 1 .. Len(h) : ~Crlf(h, o) /\ Place(h, o) = O
      BY <3>2, PlaceTaken
    <3>4. h[o] = label
      BY <3>2, <3>3, PlaceOne
    <3>5. o \in Lines
      BY <3>1, <3>3, <3>4, LinesStay
    <3>6. o < p
      <4> SUFFICES ASSUME ~(o < p) PROVE FALSE
        OBVIOUS
      <4>1. p \in 0 .. Len(h) /\ o \in p .. Len(h)
        BY <1>0, <2>1
      <4>2. P <= O
        BY <3>3, <4>1, PlacesGrow
      <4>3. P \in Nat
        BY <4>1, PlacesGrow
      <4> QED BY <1>0, <3>1, <3>2, <4>2, <4>3
    <3> QED BY <3>5, <3>6
  <2> QED BY <1>2, <2>1, <2>2, <2>3
<1>3. CASE /\ value \notin {None, <<>>}
           /\ \E p \in Normal, q \in 1 .. Len(n) :
                 /\ p < q /\ q + Len(value) - 1 <= Len(n)
                 /\ SubSeq(n, q, q + Len(value) - 1) = value
                 /\ \A i \in p + 1 .. q - 1 : n[i] \in Strippable("java")
                 /\ \A i \in q .. q + Len(value) - 1 : n[i] \notin LineEnds("java")
                 /\ \A o \in Normal : p <= o \/ NoValueFor("java", n, label, o)
  <2>1. PICK P \in Normal, Q \in 1 .. Len(n) :
                 /\ P < Q /\ Q + Len(value) - 1 <= Len(n)
                 /\ SubSeq(n, Q, Q + Len(value) - 1) = value
                 /\ \A i \in P + 1 .. Q - 1 : n[i] \in Strippable("java")
                 /\ \A i \in Q .. Q + Len(value) - 1 : n[i] \notin LineEnds("java")
                 /\ \A o \in Normal : P <= o \/ NoValueFor("java", n, label, o)
    BY <1>3
  <2>2. P \in 1 .. Len(n) /\ n[P] = label
    BY DEF LinesOf
  <2>3. PICK p \in 1 .. Len(h) : ~Crlf(h, p) /\ Place(h, p) = P
    BY <2>2, PlaceTaken
  <2>4. PICK q \in 1 .. Len(h) : ~Crlf(h, q) /\ Place(h, q) = Q
    BY PlaceTaken
  <2>5. h[p] = label /\ h[q] = n[Q]
    BY <2>2, <2>3, <2>4, PlaceOne
  <2>6. p \in Lines
    BY <2>1, <2>3, <2>5, LinesStay
  <2>7. p < q
    <3> SUFFICES ASSUME ~(p < q) PROVE FALSE
      OBVIOUS
    <3>1. q \in 0 .. Len(h) /\ p \in q .. Len(h)
      BY <1>0
    <3>2. Place(h, q) <= Place(h, p)
      BY <3>1, PlacesGrow
    <3> QED BY <1>0, <2>1, <2>2, <2>3, <2>4, <3>2
  <2>8. \A o \in Lines : p <= o \/ NoValueFor("java", h, label, o)
    <3> SUFFICES ASSUME NEW o \in Lines, ~(p <= o) PROVE NoValueFor("java", h, label, o)
      OBVIOUS
    <3>1. o \in 1 .. Len(h) /\ o \in 0 .. Len(h) /\ p \in o + 1 .. Len(h) /\ ~Crlf(h, o)
      BY <1>0, <1>1
    <3>2. Place(h, o) < P
      BY <2>3, <3>1, PlacesApart
    <3>3. Place(h, o) \in Nat /\ P \in Nat
      BY <2>2, <3>1, PlaceOne
    <3>4. ~(P <= Place(h, o))
      BY <3>2, <3>3
    <3>5. Place(h, o) \in Normal
      BY <1>1
    <3>6. NoValueFor("java", n, label, Place(h, o))
      BY <2>1, <3>4, <3>5
    <3> QED BY <3>1, <3>6, NoValueStays
  <2>9. \A i \in p + 1 .. q - 1 : h[i] \in Strippable("java")
    <3> SUFFICES ASSUME NEW i \in p + 1 .. q - 1 PROVE h[i] \in Strippable("java")
      OBVIOUS
    <3>1. i \in 1 .. Len(h) /\ p \in 0 .. Len(h) /\ i \in p + 1 .. Len(h) /\ i \in 0 .. Len(h) /\ q \in i + 1 .. Len(h)
      BY <1>0
    <3>2. CASE Crlf(h, i)
      BY <3>2 DEF Crlf, Strippable, Blanks
    <3>3. CASE ~Crlf(h, i)
      <4>1. Place(h, i) \in 1 .. Len(n) /\ n[Place(h, i)] = h[i]
        BY <3>1, <3>3, PlaceOne
      <4>2. P < Place(h, i) /\ Place(h, i) < Q
        BY <2>3, <2>4, <3>1, <3>3, PlacesApart
      <4>3. Place(h, i) \in P + 1 .. Q - 1
        BY <1>0, <2>2, <4>1, <4>2
      <4> QED BY <2>1, <4>1, <4>3
    <3> QED BY <3>2, <3>3
  <2> DEFINE m == Len(value)
             g == Q + m - 1
  <2>10. m \in Nat \ {0} /\ value \in Seq(Symbols)
    <3>1. value \in Seq(Symbols) /\ value # <<>>
      BY <1>3
    <3> QED BY <3>1
  <2>11. /\ g \in Q .. Len(n) /\ SubSeq(n, Q, g) = value /\ \A i \in Q .. g : n[i] \notin LineEnds("java")
         /\ m = g - Q + 1 /\ g \in Int /\ Q \in Nat \ {0}
    <3>1. SubSeq(n, Q, g) = value /\ g <= Len(n) /\ \A i \in Q .. g : n[i] \notin LineEnds("java")
      BY <2>1
    <3> HIDE DEF m, n
    <3>2. g \in Q .. Len(n) /\ m = g - Q + 1 /\ g \in Int /\ Q \in Nat \ {0}
      BY <1>0, <2>10, <3>1
    <3> QED BY <3>1, <3>2
  <2> HIDE DEF n, g, m
  <2>12. \A d \in 0 .. g - Q : q + d \in 1 .. Len(h) /\ h[q + d] = n[Q + d]
    <3>1. /\ g \in Place(h, q) .. Len(NormalizeNewlines(h))
          /\ \A x \in Place(h, q) .. g : NormalizeNewlines(h)[x] \notin {NL, CR}
      BY <2>4, <2>11 DEF n, LineEnds
    <3> QED BY <2>4, <3>1, PieceStays DEF n
  <2> DEFINE e == q + m - 1
             w == SubSeq(h, q, e)
  <2>13. /\ e \in Int /\ q \in Nat \ {0} /\ q <= e + 1 /\ e - q + 1 = m /\ e - q \in 0 .. g - Q
         /\ e = q + (e - q)
    BY <2>10, <2>11
  <2> HIDE DEF e
  <2>14. e \in 1 .. Len(h) /\ e <= Len(h)
    <3>1. e \in 1 .. Len(h)
      BY <2>12, <2>13
    <3> QED BY <1>0, <3>1
  <2>15. \A k \in 1 .. m : h[q + k - 1] = n[Q + k - 1]
    <3> SUFFICES ASSUME NEW k \in 1 .. m PROVE h[q + k - 1] = n[Q + k - 1]
      OBVIOUS
    <3>1. k - 1 \in 0 .. g - Q /\ q + (k - 1) = q + k - 1 /\ Q + (k - 1) = Q + k - 1
      BY <2>11, <2>13
    <3>2. h[q + (k - 1)] = n[Q + (k - 1)]
      BY <2>12, <3>1
    <3> QED BY <3>1, <3>2
  <2>16. w = value
    <3>1. w \in Seq(Symbols) /\ Len(w) = m /\ \A k \in 1 .. m : w[k] = h[q + k - 1]
      BY <2>13, <2>14, PartIs
    <3> DEFINE v == SubSeq(n, Q, g)
    <3>2. g <= Len(n) /\ Q <= g + 1
      BY <1>0, <2>11
    <3>3. v \in Seq(Symbols) /\ Len(v) = m /\ \A k \in 1 .. m : v[k] = n[Q + k - 1]
      <4>1. n \in Seq(Symbols) /\ Q \in Nat \ {0} /\ g \in Int /\ g <= Len(n) /\ Q <= g + 1
        BY <1>0, <2>11, <3>2
      <4>2. v \in Seq(Symbols) /\ Len(v) = g - Q + 1 /\ \A k \in 1 .. g - Q + 1 : v[k] = n[Q + k - 1]
        BY <4>1, PartIs
      <4>3. m = g - Q + 1
        BY <2>11
      <4> HIDE DEF v
      <4> QED BY <4>2, <4>3
    <3>4. v = value
      BY <2>11
    <3> HIDE DEF v, w
    <3>5. \A k \in 1 .. m : w[k] = v[k]
      BY <2>15, <3>1, <3>3
    <3>6. w = v
      BY <3>1, <3>3, <3>5
    <3> QED BY <3>4, <3>6
  <2>17. \A i \in q .. e : h[i] \notin LineEnds("java")
    <3> SUFFICES ASSUME NEW i \in q .. e PROVE h[i] \notin LineEnds("java")
      OBVIOUS
    <3>1. i - q \in 0 .. g - Q /\ q + (i - q) = i /\ Q + (i - q) \in Q .. g
      BY <2>11, <2>13
    <3>2. h[q + (i - q)] = n[Q + (i - q)]
      BY <2>12, <3>1
    <3>3. n[Q + (i - q)] \notin LineEnds("java")
      BY <2>11, <3>1
    <3> QED BY <3>1, <3>2, <3>3
  <2>18. value \notin {None, <<>>}
    BY <1>3
  <2>19. /\ p < q /\ q + Len(value) - 1 <= Len(h)
         /\ SubSeq(h, q, q + Len(value) - 1) = value
         /\ \A i \in p + 1 .. q - 1 : h[i] \in Strippable("java")
         /\ \A i \in q .. q + Len(value) - 1 : h[i] \notin LineEnds("java")
         /\ \A o \in Lines : p <= o \/ NoValueFor("java", h, label, o)
    BY <2>7, <2>8, <2>9, <2>14, <2>16, <2>17 DEF e, m
  <2> QED BY <2>6, <2>18, <2>19 DEF FromItsLine
<1> QED BY <1>2, <1>3 DEF FromItsLine

LEMMA FieldsAreFound == SplitInv => FieldsComeFromTheirLine
<1>0. /\ \A header, label : LabelLines(header, label) = LinesOf(lang, header, label)
      /\ \A header, label, p : NoValueOnItsLine(header, label, p) <=> NoValueFor(lang, header, label, p)
  BY DEF LinesOf, LabelLines, NoValueFor, NoValueOnItsLine
<1> SUFFICES ASSUME SplitInv, fields # None, NEW label \in Labels
             PROVE  FromItsLine(lang, book.header, label, fields[label])
  BY <1>0 DEF FieldsComeFromTheirLine, FromItsLine
<1> DEFINE h == book.header
           n == NormalizeNewlines(h)
<1>1. book # None /\ fields = FieldsOf(lang, h)
  BY DEF SplitInv, BookIsSplit, TypeOK
<1>2. h \in Seq(Symbols) /\ Trimmed(h, Trimmable(lang))
  BY <1>1 DEF SplitInv, BookIsSplit, TypedBook
<1>3. LabelsVisible /\ lang \in {"cpp", "java", "python"}
  BY BookTextAssumption DEF BookTextAssumption, LabelsVisible, Blanks, SplitInv, TypeOK
<1>4. fields[label] = Field(lang, IF lang = "java" THEN n ELSE h, label)
  BY <1>1 DEF FieldsOf
<1> HIDE DEF h, n
<1>5. CASE lang # "java"
  <2>1. Trimmed(h, Spaces(lang))
    BY <1>2, <1>5 DEF Trimmable
  <2> QED BY <1>2, <1>3, <1>4, <1>5, <2>1, FieldOnItsLine DEF h
<1>6. CASE lang = "java"
  <2>1. n \in Seq(Symbols)
    BY <1>2, NormalizedType DEF n
  <2>2. FromItsLine("java", n, label, fields[label])
    BY <1>4, <1>6, <2>1, FieldOnItsLine
  <2>3. fields[label] \in Seq(Symbols) \cup {None}
    <3>1. fields \in [Labels -> Seq(Symbols) \cup {None}]
      BY DEF SplitInv, TypeOK
    <3> QED BY <3>1
  <2>4. FromItsLine("java", h, label, fields[label])
    BY <1>2, <1>3, <2>2, <2>3, LineInHeader DEF n
  <2> QED BY <1>6, <2>4 DEF h
<1> QED BY <1>5, <1>6

\* Whatever the header, and in whatever language: a field that was found is
\* one piece of one line, its own or the next that is not empty; one that was
\* not has no label but at the end of the header, or, in Java, no more than
\* blanks on its first line.
THEOREM FieldsAlwaysComeFromTheirLine == Spec => []FieldsComeFromTheirLine
<1> QED BY SplitStart, SplitStep, FieldsAreFound, PTL DEF Spec
=============================================================================
