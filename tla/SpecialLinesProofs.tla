-------------------------- MODULE SpecialLinesProofs --------------------------
(***************************************************************************)
(* Theorems about SpecialLines, for any files, texts and bounds.           *)
(*                                                                         *)
(* A special line follows its line of text by itself (Right).  What makes  *)
(* a message jump to it is more: the lists are sorted, so that the binary  *)
(* search finds the line, and what is in the pending copy and not in the   *)
(* list the editor moves was added after the last edit (Copies).           *)
(*                                                                         *)
(* What the recursive functions of the model return rests on Iterates and  *)
(* Turns: there is such a function, and what holds at first and is kept by *)
(* a turn holds after all of them.                                         *)
(*                                                                         *)
(* That the breakpoints gdb has are those that are drawn is counted: what  *)
(* each operation adds to the special lines of a file and line, and what   *)
(* it adds to the breakpoints there.                                       *)
(***************************************************************************)
EXTENDS SpecialLines, NumberFacts, SequenceTheorems, FiniteSetTheorems

-----------------------------------------------------------------------------
(* Sequences. *)

(* A sequence with an item put in: its length and its items.               *)
LEMMA InsertedAt ==
  ASSUME NEW S, NEW s \in Seq(S), NEW n \in 1 .. Len(s) + 1, NEW x \in S
  PROVE  /\ InsertAt(s, n, x) \in Seq(S)
         /\ Len(InsertAt(s, n, x)) = Len(s) + 1
         /\ \A k \in 1 .. Len(s) + 1 :
              InsertAt(s, n, x)[k] = IF k < n THEN s[k] ELSE IF k = n THEN x ELSE s[k - 1]
<1> DEFINE a == SubSeq(s, 1, n - 1)
           b == SubSeq(s, n, Len(s))
           d == a \o <<x>>
<1>0. Len(s) \in Nat /\ \A k \in 1 .. Len(s) : s[k] \in S
      BY ElementOfSeq, LenProperties
<1>1. /\ a \in Seq(S) /\ Len(a) = n - 1
      /\ \A k \in 1 .. n - 1 : a[k] = s[k]
      BY <1>0
<1>2. /\ b \in Seq(S) /\ Len(b) = Len(s) - n + 1
      /\ \A k \in 1 .. Len(s) - n + 1 : b[k] = s[n + k - 1]
      BY <1>0
<1>3. /\ d \in Seq(S) /\ Len(d) = n
      /\ \A k \in 1 .. n : d[k] = IF k < n THEN s[k] ELSE x
      BY <1>1
<1> HIDE DEF a, b, d
<1>4. /\ d \o b \in Seq(S)
      /\ Len(d \o b) = Len(d) + Len(b)
      /\ \A k \in 1 .. Len(d) + Len(b) : (d \o b)[k] = IF k <= Len(d) THEN d[k] ELSE b[k - Len(d)]
      BY <1>2, <1>3
<1>5. InsertAt(s, n, x) = d \o b
      BY DEF InsertAt, a, b, d
<1> HIDE DEF InsertAt
<1>6. Len(InsertAt(s, n, x)) = Len(s) + 1
      BY <1>0, <1>2, <1>3, <1>4, <1>5
<1>7. \A k \in 1 .. Len(s) + 1 :
        InsertAt(s, n, x)[k] = IF k < n THEN s[k] ELSE IF k = n THEN x ELSE s[k - 1]
  <2> TAKE k \in 1 .. Len(s) + 1
  <2>1. CASE k < n
        BY <2>1, <1>0, <1>2, <1>3, <1>4, <1>5
  <2>2. CASE k = n
        BY <2>2, <1>0, <1>2, <1>3, <1>4, <1>5
  <2>3. CASE k > n
        BY <2>3, <1>0, <1>2, <1>3, <1>4, <1>5
  <2> QED BY <2>1, <2>2, <2>3, <1>0
<1> QED BY <1>4, <1>5, <1>6, <1>7

(* A sequence with an item taken out.                                      *)
LEMMA RemovedAt ==
  ASSUME NEW S, NEW s \in Seq(S), NEW n \in 1 .. Len(s)
  PROVE  /\ RemoveAt(s, n) \in Seq(S)
         /\ Len(RemoveAt(s, n)) = Len(s) - 1
         /\ \A k \in 1 .. Len(s) - 1 :
              RemoveAt(s, n)[k] = IF k < n THEN s[k] ELSE s[k + 1]
<1> DEFINE a == SubSeq(s, 1, n - 1)
           b == SubSeq(s, n + 1, Len(s))
<1>0. Len(s) \in Nat /\ \A k \in 1 .. Len(s) : s[k] \in S
      BY ElementOfSeq, LenProperties
<1>1. /\ a \in Seq(S) /\ Len(a) = n - 1
      /\ \A k \in 1 .. n - 1 : a[k] = s[k]
      BY <1>0
<1>2. /\ b \in Seq(S) /\ Len(b) = Len(s) - n
      /\ \A k \in 1 .. Len(s) - n : b[k] = s[n + k]
      BY <1>0
<1> HIDE DEF a, b
<1>3. /\ a \o b \in Seq(S)
      /\ Len(a \o b) = Len(a) + Len(b)
      /\ \A k \in 1 .. Len(a) + Len(b) :
           (a \o b)[k] = IF k <= Len(a) THEN a[k] ELSE b[k - Len(a)]
  <2>1. a \in Seq(S) /\ b \in Seq(S)
        BY <1>1, <1>2
  <2> QED BY <2>1, ConcatProperties
<1>4. RemoveAt(s, n) = a \o b
      BY DEF RemoveAt, a, b
<1>5. Len(RemoveAt(s, n)) = Len(s) - 1
      BY <1>0, <1>1, <1>2, <1>3, <1>4
<1>6. \A k \in 1 .. Len(s) - 1 :
        RemoveAt(s, n)[k] = IF k < n THEN s[k] ELSE s[k + 1]
  <2> TAKE k \in 1 .. Len(s) - 1
  <2>1. CASE k < n
        BY <2>1, <1>0, <1>1, <1>2, <1>3, <1>4
  <2>2. CASE k >= n
    <3>1. /\ ~(k < n) /\ k \in 1 .. Len(a) + Len(b) /\ ~(k <= Len(a))
          /\ k - Len(a) = k - n + 1 /\ k - n + 1 \in 1 .. Len(s) - n
          BY <2>2, <1>0, <1>1, <1>2
    <3>2. (a \o b)[k] = b[k - n + 1]
          BY <3>1, <1>3
    <3>3. b[k - n + 1] = s[k + 1]
          BY <3>1, <1>2
    <3> QED BY <3>1, <3>2, <3>3, <1>4
  <2> QED BY <2>1, <2>2, <1>0
<1> QED BY <1>3, <1>4, <1>5, <1>6

(* The special lines of a list, in whatever order.                         *)
Elems(l) == IF l = NoList THEN {} ELSE {l[k] : k \in DOMAIN l}

LEMMA ElemsOf ==
  ASSUME NEW l \in SpList
  PROVE  /\ l # NoList /\ DOMAIN l = 1 .. Len(l) /\ Len(l) \in Nat
         /\ Elems(l) = {l[k] : k \in 1 .. Len(l)} /\ Elems(l) \subseteq SpLine
         /\ \A k \in 1 .. Len(l) : l[k] \in SpLine /\ l[k].oline \in Int
<1>1. l # NoList
      BY NoListAssumption
<1>2. DOMAIN l = 1 .. Len(l) /\ Len(l) \in Nat /\ \A k \in 1 .. Len(l) : l[k] \in SpLine
      BY LenProperties, ElementOfSeq DEF SpList
<1>3. \A e \in SpLine : e.oline \in Int
      BY DEF SpLine
<1> QED BY <1>1, <1>2, <1>3 DEF Elems

LEMMA NoElems ==
  ASSUME NEW l \in SpList, Elems(l) = {}
  PROVE  l = <<>>
<1>1. Len(l) \in Nat /\ {l[k] : k \in 1 .. Len(l)} = {}
      BY ElemsOf
<1>2. Len(l) = 0
  <2>1. CASE Len(l) > 0
    <3>1. 1 \in 1 .. Len(l)
          BY <1>1, <2>1
    <3> QED BY <1>1, <3>1
  <2> QED BY <1>1, <2>1
<1> QED BY <1>2, EmptySeq DEF SpList

-----------------------------------------------------------------------------
(* TSpCollection. *)

(* The range that is left of the search after each turn.                   *)
Range2 == Int \X Int
Halved(l, key, range) ==
  LET lo == range[1]
      hi == range[2]
      mid == (lo + hi) \div 2
  IN  IF lo > hi THEN <<lo, hi>>
      ELSE IF l[mid].oline < key THEN <<mid + 1, hi>> ELSE <<lo, mid - 1>>

LEMMA HalvedRange ==
  ASSUME NEW l, NEW key, NEW r \in Range2
  PROVE  Halved(l, key, r) \in Range2
<1>1. \A lo, hi \in Int : (lo + hi) \div 2 \in Int
      OBVIOUS
<1>2. r[1] \in Int /\ r[2] \in Int
      BY DEF Range2
<1> DEFINE mid == (r[1] + r[2]) \div 2
<1>3. mid \in Int
      BY <1>1, <1>2
<1> HIDE DEF mid
<1>4. mid + 1 \in Int /\ mid - 1 \in Int
      BY <1>3
<1> QED BY <1>2, <1>4 DEF Halved, Range2, mid

SearchedBy(range, l, key) ==
  range = [turn \in 0 .. Len(l) |->
             IF turn = 0 THEN <<1, Len(l)>>
             ELSE LET lo == range[turn - 1][1]
                      hi == range[turn - 1][2]
                      mid == (lo + hi) \div 2
                  IN  IF lo > hi THEN <<lo, hi>>
                      ELSE IF l[mid].oline < key THEN <<mid + 1, hi>> ELSE <<lo, mid - 1>>]

LEMMA SearchTurns ==
  ASSUME NEW l \in SpList, NEW key
  PROVE  \E range :
           /\ range[0] = <<1, Len(l)>>
           /\ \A k \in 1 .. Len(l) : range[k] = Halved(l, key, range[k - 1])
           /\ search(l, key) = range[Len(l)][1]
<1> DEFINE N == Len(l)
           G == [p \in (1 .. N) \X Range2 |-> Halved(l, key, p[2])]
<1>1. N \in Nat
      BY ElemsOf
<1>2. <<1, N>> \in Range2
      BY <1>1 DEF Range2
<1>3. G \in [(1 .. N) \X Range2 -> Range2]
      BY HalvedRange
<1>4. PICK f \in [0 .. N -> Range2] : f[0] = <<1, N>>
                                      /\ \A k \in 1 .. N : f[k] = G[<<k, f[k - 1]>>]
  <2> DEFINE b == <<1, N>>
  <2> HIDE DEF N, G, b
  <2>1. b \in Range2
        BY <1>2 DEF b
  <2>2. \E f : Iterated(f, N, Range2, b, G)
        BY <1>1, <1>3, <2>1, Iterates
  <2> QED BY <2>2 DEF Iterated, b
<1>5. ASSUME NEW k \in 1 .. N
      PROVE  f[k] = Halved(l, key, f[k - 1])
  <2>1. k - 1 \in 0 .. N
        BY <1>1
  <2>2. f[k - 1] \in Range2
        BY <2>1, <1>4
  <2>3. <<k, f[k - 1]>> \in (1 .. N) \X Range2
        BY <2>2
  <2>4. G[<<k, f[k - 1]>>] = Halved(l, key, f[k - 1])
        BY <2>3
  <2> QED BY <2>4, <1>4
<1>6. SearchedBy(f, l, key)
  <2> DEFINE Body(turn) ==
               IF turn = 0 THEN <<1, Len(l)>>
               ELSE LET lo == f[turn - 1][1]
                        hi == f[turn - 1][2]
                        mid == (lo + hi) \div 2
                    IN  IF lo > hi THEN <<lo, hi>>
                        ELSE IF l[mid].oline < key THEN <<mid + 1, hi>> ELSE <<lo, mid - 1>>
  <2>1. \A turn \in 0 .. N : f[turn] = Body(turn)
    <3>1. \A turn \in 1 .. N : f[turn] = Body(turn)
          BY <1>5 DEF Halved
    <3>2. f[0] = Body(0)
          BY <1>4
    <3> HIDE DEF Body
    <3>3. \A turn \in 0 .. N : turn = 0 \/ turn \in 1 .. N
          BY <1>1
    <3> QED BY <3>1, <3>2, <3>3
  <2>2. f = [turn \in 0 .. N |-> f[turn]]
        BY <1>4
  <2>3. f = [turn \in 0 .. N |-> Body(turn)]
    <3> HIDE DEF Body
    <3> QED BY <2>1, <2>2
  <2> QED BY <2>3 DEF SearchedBy
<1> DEFINE w == CHOOSE range : SearchedBy(range, l, key)
<1>7. SearchedBy(w, l, key)
      BY <1>6
<1>8. search(l, key) = w[N][1]
      BY DEF search, SearchedBy
<1> HIDE DEF w
<1>9. w[0] = <<1, N>> /\ \A k \in 1 .. N : w[k] = Halved(l, key, w[k - 1])
  <2>1. 0 \in 0 .. N /\ \A k \in 1 .. N : k \in 0 .. N /\ k # 0
        BY <1>1
  <2> DEFINE Body(turn) == IF turn = 0 THEN <<1, N>> ELSE Halved(l, key, w[turn - 1])
  <2>2. w = [turn \in 0 .. N |-> Body(turn)]
        BY <1>7 DEF SearchedBy, Halved
  <2>3. w[0] = Body(0) /\ \A k \in 1 .. N : w[k] = Body(k)
    <3> HIDE DEF Body, N
    <3> QED BY <2>1, <2>2
  <2>4. Body(0) = <<1, N>>
        OBVIOUS
  <2>5. \A k \in 1 .. N : Body(k) = Halved(l, key, w[k - 1])
        BY <2>1
  <2> HIDE DEF Body, N
  <2> QED BY <2>3, <2>4, <2>5
<1> QED BY <1>8, <1>9

(* The lines in front of the range come before the key, those behind it    *)
(* do not; and there is one line less to look at with each turn.           *)
Narrowed(l, key, k, lo, hi) ==
  /\ lo \in 1 .. Len(l) + 1 /\ hi \in 0 .. Len(l) /\ lo <= hi + 1
  /\ lo = hi + 1 \/ hi - lo + 1 <= Len(l) - k
  /\ Sorted(l) => /\ \A i \in 1 .. Len(l) : i < lo => l[i].oline < key
                  /\ \A i \in 1 .. Len(l) : i > hi => l[i].oline >= key

LEMMA HalvedNarrows ==
  ASSUME NEW l \in SpList, NEW key \in Int, NEW k \in 1 .. Len(l), NEW r,
         Narrowed(l, key, k - 1, r[1], r[2])
  PROVE  Narrowed(l, key, k, Halved(l, key, r)[1], Halved(l, key, r)[2])
<1> DEFINE lo == r[1]
           hi == r[2]
           mid == (lo + hi) \div 2
           N == Len(l)
<1>1. /\ N \in Nat /\ DOMAIN l = 1 .. N /\ \A i \in 1 .. N : l[i].oline \in Int
      BY ElemsOf
<1>2. /\ lo \in 1 .. N + 1 /\ hi \in 0 .. N /\ lo <= hi + 1
      /\ lo = hi + 1 \/ hi - lo + 1 <= N - (k - 1)
      /\ Sorted(l) => /\ \A i \in 1 .. N : i < lo => l[i].oline < key
                      /\ \A i \in 1 .. N : i > hi => l[i].oline >= key
      BY DEF Narrowed
<1>3. Halved(l, key, r) = IF lo > hi THEN <<lo, hi>>
                          ELSE IF l[mid].oline < key THEN <<mid + 1, hi>> ELSE <<lo, mid - 1>>
      BY DEF Halved
<1>4. k \in Int /\ lo \in Int /\ hi \in Int
      BY <1>1, <1>2
<1> HIDE DEF lo, hi, N
<1>5. CASE lo > hi
  <2>1. Halved(l, key, r) = <<lo, hi>> /\ lo = hi + 1
        BY <1>2, <1>3, <1>4, <1>5
  <2> QED BY <1>2, <2>1 DEF Narrowed, N
<1>6. CASE ~(lo > hi)
  <2>1. /\ mid \in lo .. hi /\ mid \in 1 .. N
        /\ hi - lo + 1 <= N - (k - 1)
    <3>1. \A a, b \in Int : a <= b => (a + b) \div 2 \in a .. b
          OBVIOUS
    <3>2. lo <= hi /\ hi - lo + 1 <= N - (k - 1)
          BY <1>1, <1>2, <1>4, <1>6
    <3>3. mid \in lo .. hi
          BY <1>4, <3>1, <3>2
    <3> HIDE DEF mid
    <3> QED BY <1>1, <1>2, <1>4, <3>2, <3>3
  <2> HIDE DEF mid
  <2>2. CASE l[mid].oline < key
    <3>1. Halved(l, key, r) = <<mid + 1, hi>>
          BY <1>3, <1>6, <2>2
    <3>2. /\ mid + 1 \in 1 .. N + 1 /\ mid + 1 <= hi + 1
          /\ hi - (mid + 1) + 1 <= N - k
          BY <1>1, <1>2, <1>4, <2>1
    <3>3. ASSUME Sorted(l), NEW i \in 1 .. N, i < mid + 1
          PROVE  l[i].oline < key
      <4>1. i < mid => l[i].oline <= l[mid].oline
            BY <1>1, <2>1, <3>3 DEF Sorted
      <4>2. i < mid \/ i = mid
            BY <2>1, <3>3
      <4>3. l[i].oline \in Int /\ l[mid].oline \in Int
            BY <1>1, <2>1
      <4> QED BY <2>2, <4>1, <4>2, <4>3
    <3> QED BY <1>2, <3>1, <3>2, <3>3 DEF Narrowed, N
  <2>3. CASE ~(l[mid].oline < key)
    <3>1. Halved(l, key, r) = <<lo, mid - 1>>
          BY <1>3, <1>6, <2>3
    <3>2. /\ mid - 1 \in 0 .. N /\ lo <= (mid - 1) + 1
          /\ (mid - 1) - lo + 1 <= N - k
          BY <1>1, <1>2, <1>4, <2>1
    <3>3. ASSUME Sorted(l), NEW i \in 1 .. N, i > mid - 1
          PROVE  l[i].oline >= key
      <4>1. mid < i => l[mid].oline <= l[i].oline
            BY <1>1, <2>1, <3>3 DEF Sorted
      <4>2. mid < i \/ i = mid
            BY <2>1, <3>3
      <4>3. l[i].oline \in Int /\ l[mid].oline \in Int
            BY <1>1, <2>1
      <4> QED BY <2>3, <4>1, <4>2, <4>3
    <3> QED BY <1>2, <3>1, <3>2, <3>3 DEF Narrowed, N
  <2> QED BY <2>2, <2>3
<1> QED BY <1>5, <1>6

(* search() ends behind the lines that come before the key, in a list that *)
(* is sorted; in any list it is a place for a new line.                    *)
LEMMA SearchPlace ==
  ASSUME NEW l \in SpList, NEW key \in Int
  PROVE  /\ search(l, key) \in 1 .. Len(l) + 1
         /\ Sorted(l) => \A i \in 1 .. Len(l) : i < search(l, key) <=> l[i].oline < key
<1> DEFINE N == Len(l)
<1>1. N \in Nat /\ \A i \in 1 .. N : l[i].oline \in Int
      BY ElemsOf
<1>2. PICK r : /\ r[0] = <<1, N>>
               /\ \A k \in 1 .. N : r[k] = Halved(l, key, r[k - 1])
               /\ search(l, key) = r[N][1]
      BY SearchTurns
<1> DEFINE T == {k \in 0 .. N : Narrowed(l, key, k, r[k][1], r[k][2])}
<1>3. 0 \in T
  <2>1. r[0][1] = 1 /\ r[0][2] = N
        BY <1>2
  <2>2. Narrowed(l, key, 0, 1, N)
        BY <1>1 DEF Narrowed
  <2> QED BY <1>1, <2>1, <2>2
<1>4. ASSUME NEW j \in 0 .. N - 1, j \in T
      PROVE  j + 1 \in T
  <2> DEFINE k == j + 1
  <2>1. k \in 1 .. N /\ k - 1 = j /\ k \in 0 .. N
        BY <1>1
  <2> HIDE DEF k
  <2>2. Narrowed(l, key, k - 1, r[k - 1][1], r[k - 1][2])
        BY <1>4, <2>1
  <2>3. Narrowed(l, key, k, r[k][1], r[k][2])
        BY <1>2, <2>1, <2>2, HalvedNarrows
  <2>4. k \in T
        BY <2>1, <2>3
  <2> QED BY <2>4 DEF k
<1>5. N \in T
  <2> HIDE DEF T, N
  <2>1. \A k \in 0 .. N : k \in T
        BY <1>1, <1>3, <1>4, Turns
  <2> QED BY <1>1, <2>1
<1> DEFINE lo == r[N][1]
           hi == r[N][2]
<1>6. Narrowed(l, key, N, lo, hi)
      BY <1>5
<1> HIDE DEF lo, hi
<1>7. /\ lo \in 1 .. N + 1 /\ hi \in 0 .. N /\ lo = hi + 1
      BY <1>1, <1>6 DEF Narrowed
<1>8. ASSUME Sorted(l), NEW i \in 1 .. N
      PROVE  i < lo <=> l[i].oline < key
  <2>1. (i < lo => l[i].oline < key) /\ (i > hi => l[i].oline >= key)
        BY <1>6, <1>8 DEF Narrowed
  <2>2. i < lo \/ i > hi
        BY <1>7
  <2> QED BY <1>1, <1>7, <2>1, <2>2
<1> QED BY <1>2, <1>7, <1>8 DEF lo

(* insert() puts the line in, and keeps the list sorted.                   *)
LEMMA Inserted ==
  ASSUME NEW l \in SpList, NEW line \in Int, NEW id \in {Error, Break},
         NEW what \in Lines \cup {Unknown}
  PROVE  LET e == [oline |-> line, nline |-> line, id |-> id, what |-> what]
             new == insert(l, line, id, what)
         IN  /\ new \in SpList /\ Elems(new) = Elems(l) \cup {e}
             /\ Sorted(l) => Sorted(new)
<1> DEFINE e == [oline |-> line, nline |-> line, id |-> id, what |-> what]
           new == insert(l, line, id, what)
           N == Len(l)
           p == search(l, line)
<1>1. N \in Nat /\ \A i \in 1 .. N : l[i] \in SpLine /\ l[i].oline \in Int
      BY ElemsOf
<1>2. p \in 1 .. N + 1
      BY SearchPlace
<1>3. e \in SpLine /\ e.oline = line
      BY DEF SpLine
<1> HIDE DEF e
<1>4. new = InsertAt(l, p, e)
      BY DEF insert, e
<1> HIDE DEF new, p
<1>5. /\ new \in SpList /\ Len(new) = N + 1
      /\ \A k \in 1 .. N + 1 : new[k] = IF k < p THEN l[k] ELSE IF k = p THEN e ELSE l[k - 1]
  <2>1. l \in Seq(SpLine) /\ p \in 1 .. Len(l) + 1 /\ e \in SpLine
        BY <1>2, <1>3 DEF SpList
  <2>2. new \in SpList /\ Len(new) = N + 1
        BY <1>4, <2>1, InsertedAt DEF SpList
  <2>3. ASSUME NEW k \in 1 .. N + 1
        PROVE  InsertAt(l, p, e)[k] = IF k < p THEN l[k] ELSE IF k = p THEN e ELSE l[k - 1]
        BY <2>1, InsertedAt
  <2> QED BY <1>4, <2>2, <2>3
<1>6. Elems(new) = Elems(l) \cup {e}
  <2>1. Elems(new) = {new[k] : k \in 1 .. N + 1} /\ Elems(l) = {l[k] : k \in 1 .. N}
        BY <1>5, ElemsOf
  <2>2. ASSUME NEW k \in 1 .. N + 1
        PROVE  new[k] \in {l[j] : j \in 1 .. N} \cup {e}
    <3>1. k < p => k \in 1 .. N
          BY <1>1, <1>2
    <3>2. k > p => k - 1 \in 1 .. N
          BY <1>1, <1>2
    <3>3. k < p \/ k = p \/ k > p
          BY <1>2
    <3> QED BY <1>2, <1>5, <3>1, <3>2, <3>3
  <2>3. ASSUME NEW k \in 1 .. N
        PROVE  l[k] \in {new[j] : j \in 1 .. N + 1}
    <3>1. CASE k < p
      <4>1. k \in 1 .. N + 1
            BY <1>1
      <4> QED BY <1>5, <3>1, <4>1
    <3>2. CASE ~(k < p)
      <4> DEFINE j == k + 1
      <4>1. j \in 1 .. N + 1 /\ ~(j < p) /\ j # p /\ j - 1 = k
            BY <1>1, <1>2, <3>2
      <4> HIDE DEF j
      <4> QED BY <1>5, <4>1
    <3> QED BY <3>1, <3>2
  <2>4. e \in {new[j] : j \in 1 .. N + 1}
    <3>1. new[p] = e
          BY <1>2, <1>5
    <3> QED BY <1>2, <3>1
  <2> QED BY <2>1, <2>2, <2>3, <2>4
<1>7. ASSUME Sorted(l) PROVE Sorted(new)
  <2>1. \A i \in 1 .. N : i < p <=> l[i].oline < line
        BY <1>7, SearchPlace DEF p
  <2>2. DOMAIN l = 1 .. N /\ DOMAIN new = 1 .. N + 1
        BY <1>5, ElemsOf
  <2>3. \A i, j \in 1 .. N : i < j => l[i].oline <= l[j].oline
        BY <1>7, <2>2 DEF Sorted
  <2>4. ASSUME NEW i \in 1 .. N + 1, NEW j \in 1 .. N + 1, i < j
        PROVE  new[i].oline <= new[j].oline
    <3>1. new[i] = (IF i < p THEN l[i] ELSE IF i = p THEN e ELSE l[i - 1])
          /\ new[j] = (IF j < p THEN l[j] ELSE IF j = p THEN e ELSE l[j - 1])
          BY <1>5
    <3>2. CASE j < p
      <4>1. i < p /\ i \in 1 .. N /\ j \in 1 .. N
            BY <1>1, <1>2, <2>4, <3>2
      <4> QED BY <2>3, <2>4, <3>1, <3>2, <4>1
    <3>3. CASE j = p
      <4>1. i < p /\ i \in 1 .. N
            BY <1>1, <1>2, <2>4, <3>3
      <4>2. new[i].oline < line /\ new[i].oline \in Int /\ new[j].oline = line
            BY <1>1, <1>3, <2>1, <3>1, <3>3, <4>1
      <4> QED BY <4>2
    <3>4. CASE j > p
      <4> DEFINE k == j - 1
      <4>1. k \in 1 .. N /\ ~(k < p) /\ ~(j < p) /\ j # p
            BY <1>1, <1>2, <3>4
      <4>2. new[j] = l[k]
            BY <3>1, <4>1
      <4> HIDE DEF k
      <4>3. l[k].oline >= line /\ l[k].oline \in Int
            BY <1>1, <2>1, <4>1
      <4>4. CASE i < p
        <5>1. i \in 1 .. N
              BY <1>1, <1>2, <4>4
        <5>2. l[i].oline < line /\ l[i].oline \in Int /\ new[i] = l[i]
              BY <1>1, <2>1, <3>1, <4>4, <5>1
        <5> QED BY <4>2, <4>3, <5>2
      <4>5. CASE i = p
        <5>1. new[i].oline = line
              BY <1>3, <1>2, <3>1, <4>5
        <5> QED BY <4>2, <4>3, <5>1
      <4>6. CASE i > p
        <5> DEFINE h == i - 1
        <5>1. h \in 1 .. N /\ h < k /\ ~(i < p) /\ i # p
              BY <1>1, <1>2, <2>4, <4>6 DEF k
        <5>2. new[i] = l[h]
              BY <3>1, <5>1
        <5> HIDE DEF h
        <5> QED BY <2>3, <4>1, <4>2, <5>1, <5>2
      <4> QED BY <4>4, <4>5, <4>6, <1>2
    <3> QED BY <3>2, <3>3, <3>4, <1>2
  <2> QED BY <2>2, <2>4 DEF Sorted
<1> QED BY <1>5, <1>6, <1>7 DEF e, new


(* A list without one of its lines.                                        *)
LEMMA Taken ==
  ASSUME NEW l \in SpList, NEW p \in 1 .. Len(l)
  PROVE  LET new == RemoveAt(l, p)
         IN  /\ new \in SpList /\ Elems(new) \subseteq Elems(l)
             /\ \A e \in Elems(l) : e # l[p] => e \in Elems(new)
             /\ Sorted(l) => Sorted(new)
<1> DEFINE new == RemoveAt(l, p)
           N == Len(l)
           M == N - 1
<1>1. N \in Nat /\ DOMAIN l = 1 .. N /\ Elems(l) = {l[k] : k \in 1 .. N}
      BY ElemsOf
<1>2. /\ new \in SpList /\ Len(new) = M
      /\ \A k \in 1 .. M : new[k] = IF k < p THEN l[k] ELSE l[k + 1]
      BY RemovedAt DEF SpList
<1>3. M \in Nat /\ \A k \in 1 .. M : k \in 1 .. N /\ k + 1 \in 1 .. N
      BY <1>1
<1> HIDE DEF new, M
<1>4. DOMAIN new = 1 .. M /\ Elems(new) = {new[k] : k \in 1 .. M}
      BY <1>2, ElemsOf
<1>5. ASSUME NEW k \in 1 .. M
      PROVE  new[k] \in Elems(l)
      BY <1>1, <1>2, <1>3
<1>6. ASSUME NEW k \in 1 .. N, k # p
      PROVE  l[k] \in Elems(new)
  <2>1. CASE k < p
    <3>1. k \in 1 .. M
          BY <1>1, <2>1 DEF M
    <3> QED BY <1>2, <1>4, <2>1, <3>1
  <2>2. CASE ~(k < p)
    <3> DEFINE j == k - 1
    <3>1. j \in 1 .. M /\ ~(j < p) /\ j + 1 = k
          BY <1>1, <1>6, <2>2 DEF M
    <3> HIDE DEF j
    <3> QED BY <1>2, <1>4, <3>1
  <2> QED BY <2>1, <2>2
<1>7. ASSUME Sorted(l), NEW i \in 1 .. M, NEW j \in 1 .. M, i < j
      PROVE  new[i].oline <= new[j].oline
  <2> DEFINE a == IF i < p THEN i ELSE i + 1
             b == IF j < p THEN j ELSE j + 1
  <2>1. a \in 1 .. N /\ b \in 1 .. N /\ a < b
        BY <1>3, <1>7
  <2>2. new[i] = l[a] /\ new[j] = l[b]
        BY <1>2
  <2> HIDE DEF a, b
  <2> QED BY <1>1, <1>7, <2>1, <2>2 DEF Sorted
<1>8. Sorted(l) => Sorted(new)
      BY <1>4, <1>7 DEF Sorted
<1> QED BY <1>1, <1>2, <1>4, <1>5, <1>6, <1>8 DEF new

(* What an id leaves of a list.                                            *)
KeptBy(upTo, l, id) ==
  upTo = [k \in 0 .. Len(l) |->
            IF k = 0 THEN <<>>
            ELSE IF l[k].id = id THEN upTo[k - 1] ELSE Append(upTo[k - 1], l[k])]

LEMMA KeptTurns ==
  ASSUME NEW l \in SpList, NEW id
  PROVE  \E upTo :
           /\ upTo \in [0 .. Len(l) -> SpList]
           /\ upTo[0] = <<>>
           /\ \A k \in 1 .. Len(l) :
                upTo[k] = IF l[k].id = id THEN upTo[k - 1] ELSE Append(upTo[k - 1], l[k])
           /\ Kept(l, id) = upTo[Len(l)]
<1> DEFINE N == Len(l)
           Turn(k, s) == IF l[k].id = id THEN s ELSE Append(s, l[k])
           G == [p \in (1 .. N) \X SpList |-> Turn(p[1], p[2])]
<1>1. N \in Nat /\ \A k \in 1 .. N : l[k] \in SpLine
      BY ElemsOf
<1>2. \A k \in 1 .. N, s \in SpList : Turn(k, s) \in SpList
      BY <1>1 DEF SpList
<1>3. G \in [(1 .. N) \X SpList -> SpList]
  <2> HIDE DEF Turn
  <2> QED BY <1>2
<1>4. <<>> \in SpList
      BY DEF SpList
<1>5. PICK f : f \in [0 .. N -> SpList] /\ f[0] = <<>>
               /\ \A k \in 1 .. N : f[k] = G[<<k, f[k - 1]>>]
  <2> DEFINE b == <<>>
  <2> HIDE DEF N, G, b
  <2>1. b \in SpList
        BY <1>4 DEF b
  <2>2. \E f : Iterated(f, N, SpList, b, G)
        BY <1>1, <1>3, <2>1, Iterates
  <2> QED BY <2>2 DEF Iterated, b
<1>6. ASSUME NEW k \in 1 .. N
      PROVE  f[k] = Turn(k, f[k - 1])
  <2>1. k - 1 \in 0 .. N
        BY <1>1
  <2>2. f[k - 1] \in SpList
        BY <2>1, <1>5
  <2>3. <<k, f[k - 1]>> \in (1 .. N) \X SpList
        BY <2>2
  <2> HIDE DEF Turn
  <2>4. G[<<k, f[k - 1]>>] = Turn(k, f[k - 1])
        BY <2>3
  <2> QED BY <2>4, <1>5
<1>7. KeptBy(f, l, id)
  <2> DEFINE Body(k) == IF k = 0 THEN <<>>
                        ELSE IF l[k].id = id THEN f[k - 1] ELSE Append(f[k - 1], l[k])
  <2>1. \A k \in 0 .. N : f[k] = Body(k)
    <3>1. \A k \in 1 .. N : f[k] = Body(k)
          BY <1>6
    <3>2. f[0] = Body(0)
          BY <1>5
    <3> HIDE DEF Body
    <3>3. \A k \in 0 .. N : k = 0 \/ k \in 1 .. N
          BY <1>1
    <3> QED BY <3>1, <3>2, <3>3
  <2>2. f = [k \in 0 .. N |-> f[k]]
        BY <1>5
  <2>3. f = [k \in 0 .. N |-> Body(k)]
    <3> HIDE DEF Body
    <3> QED BY <2>1, <2>2
  <2> QED BY <2>3 DEF KeptBy
<1> DEFINE w == CHOOSE upTo : KeptBy(upTo, l, id)
<1>8. KeptBy(w, l, id)
      BY <1>7
<1>9. Kept(l, id) = w[N]
      BY DEF Kept, KeptBy
<1> HIDE DEF w
<1>10. w[0] = <<>> /\ \A k \in 1 .. N : w[k] = Turn(k, w[k - 1])
  <2>1. 0 \in 0 .. N /\ \A k \in 1 .. N : k \in 0 .. N /\ k # 0
        BY <1>1
  <2>2. w[0] = <<>>
        BY <1>8, <2>1 DEF KeptBy
  <2>3. ASSUME NEW k \in 1 .. N
        PROVE  w[k] = Turn(k, w[k - 1])
        BY <1>8, <2>1 DEF KeptBy
  <2> QED BY <2>2, <2>3
<1>11. \A k \in 0 .. N : w[k] \in SpList
  <2> DEFINE T == {k \in 0 .. N : w[k] \in SpList}
  <2>1. 0 \in T
        BY <1>1, <1>4, <1>10
  <2>2. ASSUME NEW j \in 0 .. N - 1, j \in T
        PROVE  j + 1 \in T
    <3> DEFINE k == j + 1
    <3>1. k \in 1 .. N /\ k - 1 = j /\ k \in 0 .. N
          BY <1>1
    <3> HIDE DEF k, Turn
    <3> QED BY <1>2, <1>10, <2>2, <3>1 DEF k
  <2> HIDE DEF T, N
  <2>3. \A k \in 0 .. N : k \in T
        BY <1>1, <2>1, <2>2, Turns
  <2> QED BY <2>3 DEF T
<1>12. DOMAIN w = 0 .. N /\ w = [k \in 0 .. N |-> w[k]]
  <2>1. DOMAIN w = 0 .. N
        BY <1>8 DEF KeptBy
  <2>2. w = [k \in 0 .. N |->
            IF k = 0 THEN <<>>
            ELSE IF l[k].id = id THEN w[k - 1] ELSE Append(w[k - 1], l[k])]
        BY <1>8 DEF KeptBy
  <2> QED BY <2>1, <2>2
<1>13. w \in [0 .. N -> SpList]
      BY <1>11, <1>12
<1> QED BY <1>9, <1>10, <1>13


LEMMA KeptOf ==
  ASSUME NEW l \in SpList, NEW id
  PROVE  /\ Kept(l, id) \in SpList
         /\ Elems(Kept(l, id)) = {e \in Elems(l) : e.id # id}
         /\ Sorted(l) => Sorted(Kept(l, id))
<1> DEFINE N == Len(l)
<1>1. N \in Nat /\ DOMAIN l = 1 .. N /\ \A k \in 1 .. N : l[k] \in SpLine /\ l[k].oline \in Int
      BY ElemsOf
<1>2. PICK w : /\ w \in [0 .. N -> SpList]
               /\ w[0] = <<>>
               /\ \A k \in 1 .. N :
                    w[k] = IF l[k].id = id THEN w[k - 1] ELSE Append(w[k - 1], l[k])
               /\ Kept(l, id) = w[N]
      BY KeptTurns
<1> DEFINE Of(k) == {l[j] : j \in {i \in 1 .. k : l[i].id # id}}
           T == {k \in 0 .. N :
                   /\ Elems(w[k]) = Of(k)
                   /\ Sorted(l) =>
                        /\ Sorted(w[k])
                        /\ \A i \in DOMAIN w[k], j \in 1 .. N : j > k => w[k][i].oline <= l[j].oline}
<1>3. 0 \in T
  <2>1. <<>> \in SpList /\ DOMAIN <<>> = {}
        BY DEF SpList
  <2>2. Elems(<<>>) = {} /\ Sorted(<<>>)
        BY <2>1, NoListAssumption DEF Elems, Sorted
  <2>3. Of(0) = {}
        OBVIOUS
  <2>4. 0 \in 0 .. N
        BY <1>1
  <2> HIDE DEF Of
  <2> QED BY <1>2, <2>1, <2>2, <2>3, <2>4
<1>4. ASSUME NEW j \in 0 .. N - 1, j \in T
      PROVE  j + 1 \in T
  <2> DEFINE k == j + 1
             s == w[j]
             n == w[k]
  <2>1. k \in 1 .. N /\ k - 1 = j /\ k \in 0 .. N /\ j \in 0 .. N
        BY <1>1
  <2>2. Of(k) = IF l[k].id = id THEN Of(j) ELSE Of(j) \cup {l[k]}
    <3>1. \A i \in 1 .. k : i \in 1 .. j \/ i = k
          OBVIOUS
    <3>2. \A i \in 1 .. j : i \in 1 .. k
          OBVIOUS
    <3>3. k \in 1 .. k
          BY <2>1
    <3> HIDE DEF k
    <3>4. Of(j) \subseteq Of(k)
          BY <3>2
    <3>5. Of(k) \subseteq Of(j) \cup {l[k]}
          BY <3>1
    <3>6. l[k].id # id => l[k] \in Of(k)
          BY <3>3
    <3>7. l[k].id = id => Of(k) \subseteq Of(j)
          BY <3>1
    <3> HIDE DEF Of
    <3> QED BY <3>4, <3>5, <3>6, <3>7
  <2>3. /\ Elems(s) = Of(j)
        /\ Sorted(l) =>
             /\ Sorted(s)
             /\ \A i \in DOMAIN s, h \in 1 .. N : h > j => s[i].oline <= l[h].oline
        BY <1>4
  <2>4. s \in SpList /\ n \in SpList
        BY <1>2, <2>1
  <2>5. n = IF l[k].id = id THEN s ELSE Append(s, l[k])
        BY <1>2, <2>1
  <2> HIDE DEF Of, s, n, k
  <2>6. \A h \in 1 .. N : h > k => h > j /\ k < h
        BY <1>1, <2>1
  <2>7. CASE l[k].id = id
    <3>1. n = s /\ Of(k) = Of(j)
          BY <2>2, <2>5, <2>7
    <3>2. k \in T
          BY <2>1, <2>3, <2>6, <3>1 DEF s, n
    <3> QED BY <3>2 DEF k
  <2>8. CASE l[k].id # id
    <3>1. n = Append(s, l[k]) /\ Of(k) = Of(j) \cup {l[k]}
          BY <2>2, <2>5, <2>8
    <3> DEFINE M == Len(s)
    <3>2. M \in Nat /\ DOMAIN s = 1 .. M /\ Elems(s) = {s[i] : i \in 1 .. M}
          BY <2>4, ElemsOf
    <3>3. /\ Len(n) = M + 1 /\ n[M + 1] = l[k]
          /\ \A i \in 1 .. M : n[i] = s[i]
      <4>1. s \in Seq(SpLine) /\ l[k] \in SpLine
            BY <1>1, <2>1, <2>4 DEF SpList
      <4> QED BY <3>1, <4>1
    <3>4. DOMAIN n = 1 .. M + 1 /\ Elems(n) = {n[i] : i \in 1 .. M + 1}
          BY <2>4, <3>3, ElemsOf
    <3>5. \A i \in 1 .. M + 1 : i \in 1 .. M \/ i = M + 1
          BY <3>2
    <3>6. \A i \in 1 .. M : i \in 1 .. M + 1 /\ i < M + 1
          BY <3>2
    <3>7. M + 1 \in 1 .. M + 1
          BY <3>2
    <3>8. \A i \in 1 .. M + 1 : ~(M + 1 < i)
          BY <3>2
    <3> DEFINE M1 == M + 1
    <3> HIDE DEF M, M1
    <3>9. Elems(n) = Elems(s) \cup {l[k]}
      <4>1. \A i \in 1 .. M1 : n[i] \in Elems(s) \cup {l[k]}
            BY <3>2, <3>3, <3>5 DEF M1
      <4>2. \A i \in 1 .. M : s[i] \in Elems(n)
            BY <3>3, <3>4, <3>6 DEF M1
      <4>3. l[k] \in Elems(n)
            BY <3>3, <3>4, <3>7 DEF M1
      <4> QED BY <3>2, <3>4, <4>1, <4>2, <4>3 DEF M1
    <3>10. ASSUME Sorted(l), NEW i \in DOMAIN n, NEW h \in 1 .. N, h > k
           PROVE  n[i].oline <= l[h].oline
      <4>1. i \in DOMAIN s \/ i = M1
            BY <3>2, <3>4, <3>5 DEF M1
      <4>2. CASE i \in DOMAIN s
            BY <2>3, <2>6, <3>2, <3>3, <3>10, <4>2
      <4>3. CASE i = M1
            BY <1>1, <2>1, <2>6, <3>3, <3>10, <4>3 DEF Sorted, M1
      <4> QED BY <4>1, <4>2, <4>3
    <3>11. ASSUME Sorted(l) PROVE Sorted(n)
      <4>1. SUFFICES ASSUME NEW i \in 1 .. M1, NEW h \in 1 .. M1, i < h
                     PROVE  n[i].oline <= n[h].oline
            BY <3>4 DEF Sorted, M1
      <4>2. i \in 1 .. M
            BY <3>5, <3>8, <4>1 DEF M1
      <4>3. CASE h \in 1 .. M
            BY <2>3, <3>2, <3>3, <3>11, <4>1, <4>2, <4>3 DEF Sorted
      <4>4. CASE h = M1
        <5>1. k > j
              BY <2>1
        <5> QED BY <2>1, <2>3, <3>2, <3>3, <3>11, <4>2, <4>4, <5>1 DEF M1
      <4> QED BY <3>5, <4>3, <4>4 DEF M1
    <3>12. k \in T
          BY <2>1, <2>3, <3>1, <3>9, <3>10, <3>11 DEF n
    <3> QED BY <3>12 DEF k
  <2> QED BY <2>7, <2>8
<1>5. N \in T
  <2> HIDE DEF T, N
  <2>1. \A k \in 0 .. N : k \in T
        BY <1>1, <1>3, <1>4, Turns
  <2> QED BY <1>1, <2>1
<1>6. Elems(w[N]) = Of(N) /\ (Sorted(l) => Sorted(w[N]))
      BY <1>5
<1>7. Of(N) = {e \in Elems(l) : e.id # id}
      BY ElemsOf
<1>8. w[N] \in SpList
      BY <1>1, <1>2
<1> HIDE DEF Of
<1> QED BY <1>2, <1>6, <1>7, <1>8


(* A search that finds a line: a line set on the key, and in a sorted list *)
(* there is none when it finds none.                                       *)
LEMMA Finds ==
  ASSUME NEW l \in SpList, NEW key \in Int
  PROVE  /\ found(l, key) => /\ search(l, key) \in 1 .. Len(l)
                             /\ l[search(l, key)].oline = key
                             /\ l[search(l, key)] \in Elems(l)
         /\ Sorted(l) /\ ~found(l, key) => \A e \in Elems(l) : e.oline # key
<1> DEFINE N == Len(l)
           p == search(l, key)
<1>1. N \in Nat /\ DOMAIN l = 1 .. N /\ Elems(l) = {l[k] : k \in 1 .. N}
      /\ \A i \in 1 .. N : l[i].oline \in Int
      BY ElemsOf
<1>2. p \in 1 .. N + 1 /\ (Sorted(l) => \A i \in 1 .. N : i < p <=> l[i].oline < key)
      BY SearchPlace
<1>3. found(l, key) <=> p <= N /\ l[p].oline = key
      BY DEF found
<1> HIDE DEF p, N
<1>4. ASSUME found(l, key)
      PROVE  p \in 1 .. N /\ l[p].oline = key /\ l[p] \in Elems(l)
  <2>1. p \in 1 .. N
        BY <1>1, <1>2, <1>3, <1>4
  <2> QED BY <1>1, <1>3, <1>4, <2>1
<1>5. ASSUME Sorted(l), ~found(l, key), NEW i \in 1 .. N
      PROVE  l[i].oline # key
  <2>1. SUFFICES ASSUME l[i].oline = key PROVE FALSE
        OBVIOUS
  <2>2. ~(i < p)
        BY <1>1, <1>2, <1>5, <2>1
  <2>3. p \in 1 .. N /\ p <= i
        BY <1>1, <1>2, <2>2
  <2>4. l[p].oline <= l[i].oline
    <3>1. p = i \/ p < i
          BY <2>3
    <3>2. CASE p < i
          BY <1>1, <1>5, <2>3, <3>2 DEF Sorted
    <3> QED BY <1>1, <3>1, <3>2
  <2>5. ~(l[p].oline < key)
        BY <1>2, <1>5, <2>3
  <2> QED BY <1>1, <1>3, <1>5, <2>1, <2>3, <2>4, <2>5
<1> QED BY <1>1, <1>4, <1>5 DEF p, N

-----------------------------------------------------------------------------
(* The manager. *)

Node == {node \in [special : SpList \cup {NoList}, new : SpList \cup {NoList}] :
           node.special # NoList \/ node.new # NoList}
Nodes == UNION {[F -> Node] : F \in SUBSET Files}

(* A special line is where its line of text is, or nowhere. *)
Right(T, e) ==
  e.what # Unknown =>
    IF \E k \in DOMAIN T : T[k] = e.what
    THEN e.nline + 1 \in DOMAIN T /\ T[e.nline + 1] = e.what
    ELSE e.nline = -1

(* A node of a file with text T: what is pending and not in the list of    *)
(* the editor has not moved.                                               *)
Sound(node, T) ==
  /\ \A e \in Elems(node.special) \cup Elems(node.new) : Right(T, e)
  /\ node.special # NoList => Sorted(node.special)
  /\ node.new # NoList =>
       /\ Sorted(node.new)
       /\ Elems(node.special) \subseteq Elems(node.new)
       /\ \A e \in Elems(node.new) \ Elems(node.special) : e.nline = e.oline

AllSound(n, stray, T) == \A f \in DOMAIN n \ stray : Sound(n[f], T[f])

(* The error a message is about. *)
Known(n, m) ==
  \E e \in Elems(ToModify(n, m.file)) : e.id = Error /\ e.oline = m.line /\ e.what = m.what

LEMMA NodesAre ==
  ASSUME NEW n \in Nodes
  PROVE  /\ DOMAIN n \subseteq Files
         /\ n = [f \in DOMAIN n |-> n[f]]
         /\ \A f \in DOMAIN n : n[f] \in Node
BY DEF Nodes

LEMMA NodesFrom ==
  ASSUME NEW F \in SUBSET Files, NEW n, n = [f \in F |-> n[f]], \A f \in F : n[f] \in Node
  PROVE  n \in Nodes
<1>1. n \in [F -> Node]
      OBVIOUS
<1> QED BY <1>1 DEF Nodes

LEMMA NodeIs ==
  ASSUME NEW node \in Node
  PROVE  /\ node = [special |-> node.special, new |-> node.new]
         /\ node.special = NoList \/ node.special \in SpList
         /\ node.new = NoList \/ node.new \in SpList
         /\ node.special # NoList \/ node.new # NoList
BY DEF Node

LEMMA NodeOf ==
  ASSUME NEW a \in SpList \cup {NoList}, NEW b \in SpList \cup {NoList}, a # NoList \/ b # NoList
  PROVE  [special |-> a, new |-> b] \in Node
BY DEF Node

(* The list that is changed has the lines of the editor's list, and more   *)
(* that have not moved.                                                    *)
LEMMA ToModifyIs ==
  ASSUME NEW n \in Nodes, NEW f \in Files
  PROVE  /\ ToModify(n, f) \in SpList
         /\ f \notin DOMAIN n => ToModify(n, f) = <<>> /\ Elems(ToModify(n, f)) = {}
         /\ f \in DOMAIN n =>
              \A T : Sound(n[f], T) =>
                /\ \A e \in Elems(ToModify(n, f)) : Right(T, e)
                /\ Sorted(ToModify(n, f))
                /\ Elems(n[f].special) \subseteq Elems(ToModify(n, f))
                /\ \A e \in Elems(ToModify(n, f)) \ Elems(n[f].special) : e.nline = e.oline
<1>1. <<>> \in SpList /\ Elems(<<>>) = {}
  <2>1. <<>> \in SpList /\ DOMAIN <<>> = {}
        BY DEF SpList
  <2> QED BY <2>1, NoListAssumption DEF Elems
<1>2. CASE f \notin DOMAIN n
  <2>1. ToModify(n, f) = <<>>
        BY <1>2 DEF ToModify, Has
  <2> QED BY <1>1, <1>2, <2>1
<1>3. CASE f \in DOMAIN n
  <2> DEFINE node == n[f]
  <2>1. node \in Node
        BY <1>3, NodesAre
  <2>2. ToModify(n, f) = IF node.new = NoList THEN node.special ELSE node.new
        BY <1>3 DEF ToModify, Has
  <2> HIDE DEF node
  <2>3. ToModify(n, f) \in SpList
        BY <2>1, <2>2, NodeIs
  <2>4. \A T : Sound(node, T) =>
                 /\ \A e \in Elems(ToModify(n, f)) : Right(T, e)
                 /\ Sorted(ToModify(n, f))
                 /\ Elems(node.special) \subseteq Elems(ToModify(n, f))
                 /\ \A e \in Elems(ToModify(n, f)) \ Elems(node.special) : e.nline = e.oline
        BY <2>1, <2>2, NodeIs DEF Sound
  <2> QED BY <1>3, <2>3, <2>4 DEF node
<1> QED BY <1>2, <1>3


(* A node that the editor gets at once, and one that is pending.           *)
LEMMA Given ==
  ASSUME NEW l \in SpList, NEW T, \A e \in Elems(l) : Right(T, e), Sorted(l)
  PROVE  Sound([special |-> l, new |-> NoList], T)
BY DEF Sound, Elems

LEMMA StillPending ==
  ASSUME NEW a, NEW l \in SpList, NEW T,
         \A e \in Elems(l) : Right(T, e), Sorted(l),
         a # NoList => Sorted(a), Elems(a) \subseteq Elems(l),
         \A e \in Elems(l) \ Elems(a) : e.nline = e.oline
  PROVE  Sound([special |-> a, new |-> l], T)
BY DEF Sound

(* SpLinesAdd(): the new line is known, and the others as before.          *)
Added(n, n2, f, e) ==
  /\ n2 \in Nodes
  /\ DOMAIN n2 = DOMAIN n \cup {f}
  /\ \A g \in DOMAIN n \ {f} : n2[g] = n[g]
  /\ \A g \in Files : Elems(ToModify(n, g)) \subseteq Elems(ToModify(n2, g))
  /\ e \in Elems(ToModify(n2, f))
  /\ ToModify(n2, f) = insert(ToModify(n, f), e.oline, e.id, e.what)
  /\ \A g \in Files \ {f} : ToModify(n2, g) = ToModify(n, g)
  /\ \A T : (f \in DOMAIN n => Sound(n[f], T)) /\ Right(T, e) => Sound(n2[f], T)

LEMMA Adds ==
  ASSUME NEW n \in Nodes, NEW f \in Files, NEW line \in Int, NEW id \in {Error, Break},
         NEW what \in Lines \cup {Unknown}, NEW now,
         NEW n2, n2 = SpLinesAdd(n, f, line, id, what, now),
         NEW e, e = [oline |-> line, nline |-> line, id |-> id, what |-> what]
  PROVE  Added(n, n2, f, e)
<1> DEFINE old == IF Has(n, f) THEN n[f].special ELSE NoList
           l == ToModify(n, f)
           new == insert(l, line, id, what)
           node == IF now THEN [special |-> new, new |-> NoList]
                   ELSE [special |-> old, new |-> new]
           D == DOMAIN n
<1>1. l \in SpList /\ (f \notin D => Elems(l) = {} /\ l = <<>>)
      BY ToModifyIs
<1>2. /\ new \in SpList /\ Elems(new) = Elems(l) \cup {e}
      /\ Sorted(l) => Sorted(new)
      BY <1>1, Inserted
<1>3. old \in SpList \cup {NoList}
      BY NodesAre, NodeIs DEF Has
<1>4. new # NoList
      BY <1>2, NoListAssumption
<1> HIDE DEF new
<1>5. node \in Node
      BY <1>2, <1>3, <1>4, NodeOf
<1>6. n2 = With(n, f, node)
  <2> DEFINE added == With(n, f, [special |-> old, new |-> new])
  <2>1. n2 = IF now THEN ApplyOneSpLines(added, f) ELSE added
        BY DEF SpLinesAdd, new
  <2>2. ApplyOneSpLines(added, f) = With(n, f, [special |-> new, new |-> NoList])
        BY <1>4 DEF ApplyOneSpLines, With
  <2> QED BY <2>1, <2>2
<1> HIDE DEF node, old, l
<1>7. /\ n2 = [g \in D \cup {f} |-> IF g = f THEN node ELSE n[g]]
      /\ D \subseteq Files /\ \A g \in D : n[g] \in Node
      BY <1>6, NodesAre DEF With
<1>8. /\ DOMAIN n2 = D \cup {f} /\ n2[f] = node /\ \A g \in D \ {f} : n2[g] = n[g]
      BY <1>7
<1>9. n2 \in Nodes
  <2>1. D \cup {f} \in SUBSET Files /\ \A g \in D \cup {f} : n2[g] \in Node
        BY <1>5, <1>7
  <2>2. n2 = [g \in D \cup {f} |-> n2[g]]
        BY <1>7
  <2> QED BY <2>1, <2>2, NodesFrom
<1>10. ToModify(n2, f) = new
      BY <1>4, <1>8 DEF ToModify, Has, node
<1>11. ASSUME NEW g \in Files \ {f} PROVE ToModify(n2, g) = ToModify(n, g)
      BY <1>8 DEF ToModify, Has
<1>12. ASSUME NEW T, f \in DOMAIN n => Sound(n[f], T), Right(T, e)
       PROVE  Sound(node, T)
  <2>1. /\ \A d \in Elems(l) : Right(T, d)
        /\ Sorted(l)
        /\ Elems(old) \subseteq Elems(l)
        /\ \A d \in Elems(l) \ Elems(old) : d.nline = d.oline
        /\ old # NoList => Sorted(old)
    <3>1. CASE f \in D
          BY <1>12, <3>1, ToModifyIs DEF Has, Sound, l, old
    <3>2. CASE f \notin D
      <4>1. old = NoList /\ Elems(old) = {}
            BY <3>2 DEF old, Has, Elems
      <4>2. Sorted(<<>>)
            BY DEF Sorted
      <4> QED BY <1>1, <3>2, <4>1, <4>2
    <3> QED BY <3>1, <3>2
  <2>2. /\ \A d \in Elems(new) : Right(T, d)
        /\ Sorted(new)
        /\ Elems(old) \subseteq Elems(new)
        /\ \A d \in Elems(new) \ Elems(old) : d.nline = d.oline
    <3>1. e.nline = e.oline
          OBVIOUS
    <3> QED BY <1>2, <1>12, <2>1, <3>1
  <2> QED BY <1>2, <2>1, <2>2, Given, StillPending DEF node
<1>13. ToModify(n2, f) = insert(ToModify(n, f), e.oline, e.id, e.what)
       BY <1>10 DEF new, l
<1>14. /\ \A g \in Files : Elems(ToModify(n, g)) \subseteq Elems(ToModify(n2, g))
       /\ e \in Elems(ToModify(n2, f))
       BY <1>2, <1>10, <1>11 DEF l
<1> QED BY <1>8, <1>9, <1>11, <1>12, <1>13, <1>14 DEF Added


(* SpLinesDeleteForId(): the lines with another id stay known.             *)
LEMMA Deletes ==
  ASSUME NEW n \in Nodes, NEW id, NEW n2, n2 = DeleteForId(n, id)
  PROVE  /\ n2 \in Nodes
         /\ DOMAIN n2 \subseteq DOMAIN n
         /\ \A g \in Files : ToModify(n2, g) = Kept(ToModify(n, g), id)
         /\ \A g \in Files : Elems(ToModify(n2, g)) = {e \in Elems(ToModify(n, g)) : e.id # id}
         /\ \A g \in DOMAIN n2 : \A T : Sound(n[g], T) => Sound(n2[g], T)
<1> DEFINE left(g) == Kept(ToModify(n, g), id)
           F == {g \in DOMAIN n : left(g) # <<>>}
           node(g) == IF left(g) = ToModify(n, g) THEN [n[g] EXCEPT !.new = left(g)]
                      ELSE [special |-> left(g), new |-> NoList]
<1>1. DOMAIN n \subseteq Files /\ \A g \in DOMAIN n : n[g] \in Node
      BY NodesAre
<1>2. \A g \in Files : /\ left(g) \in SpList /\ left(g) # NoList
                       /\ Elems(left(g)) = {e \in Elems(ToModify(n, g)) : e.id # id}
                       /\ Sorted(ToModify(n, g)) => Sorted(left(g))
      BY KeptOf, ToModifyIs, NoListAssumption
<1>3. n2 = [g \in F |-> node(g)]
      BY DEF DeleteForId
<1> HIDE DEF left
<1>4. ASSUME NEW g \in F
      PROVE  /\ g \in Files /\ g \in DOMAIN n
             /\ node(g) = [special |-> IF left(g) = ToModify(n, g) THEN n[g].special ELSE left(g),
                           new |-> IF left(g) = ToModify(n, g) THEN left(g) ELSE NoList]
             /\ node(g) \in Node
  <2>1. g \in Files /\ g \in DOMAIN n /\ n[g] \in Node
        BY <1>1
  <2>2. n[g] = [special |-> n[g].special, new |-> n[g].new]
        BY <2>1, NodeIs
  <2>3. node(g) = [special |-> IF left(g) = ToModify(n, g) THEN n[g].special ELSE left(g),
                   new |-> IF left(g) = ToModify(n, g) THEN left(g) ELSE NoList]
        BY <2>2
  <2>4. n[g].special \in SpList \cup {NoList}
        BY <2>1, NodeIs
  <2>5. node(g) \in Node
        BY <1>2, <2>1, <2>3, <2>4, NodeOf
  <2> QED BY <2>1, <2>3, <2>5
<1> HIDE DEF node
<1>5. DOMAIN n2 = F /\ \A g \in F : n2[g] = node(g)
      BY <1>3
<1>6. n2 \in Nodes
  <2>1. F \in SUBSET Files /\ \A g \in F : n2[g] \in Node
        BY <1>1, <1>4, <1>5
  <2>2. n2 = [g \in F |-> n2[g]]
        BY <1>3, <1>5
  <2> QED BY <2>1, <2>2, NodesFrom
<1>7. ASSUME NEW g \in Files
      PROVE  ToModify(n2, g) = left(g)
  <2>1. CASE g \in F
        BY <1>2, <1>4, <1>5, <2>1 DEF ToModify, Has
  <2>2. CASE g \notin F
    <3>1. ToModify(n2, g) = <<>>
          BY <1>5, <1>6, <2>2, ToModifyIs
    <3>2. CASE g \notin DOMAIN n
      <4>1. Elems(left(g)) = {}
            BY <1>2, <3>2, ToModifyIs
      <4> QED BY <1>2, <3>1, <4>1, NoElems
    <3>3. CASE g \in DOMAIN n
          BY <2>2, <3>1, <3>3
    <3> QED BY <3>2, <3>3
  <2> QED BY <2>1, <2>2
<1>8. ASSUME NEW g \in DOMAIN n2, NEW T, Sound(n[g], T)
      PROVE  Sound(n2[g], T)
  <2>1. g \in F /\ g \in Files /\ g \in DOMAIN n
        BY <1>4, <1>5
  <2>2. /\ \A e \in Elems(ToModify(n, g)) : Right(T, e)
        /\ Sorted(ToModify(n, g))
        /\ Elems(n[g].special) \subseteq Elems(ToModify(n, g))
        /\ \A e \in Elems(ToModify(n, g)) \ Elems(n[g].special) : e.nline = e.oline
        BY <1>8, <2>1, ToModifyIs
  <2>3. /\ \A e \in Elems(left(g)) : Right(T, e)
        /\ Sorted(left(g)) /\ left(g) \in SpList
        BY <1>2, <2>1, <2>2
  <2>4. CASE left(g) = ToModify(n, g)
    <3>1. n2[g] = [special |-> n[g].special, new |-> left(g)]
          BY <1>4, <1>5, <2>1, <2>4
    <3>2. n[g].special # NoList => Sorted(n[g].special)
          BY <1>8 DEF Sound
    <3> QED BY <2>2, <2>3, <2>4, <3>1, <3>2, StillPending
  <2>5. CASE left(g) # ToModify(n, g)
    <3>1. n2[g] = [special |-> left(g), new |-> NoList]
          BY <1>4, <1>5, <2>1, <2>5
    <3> QED BY <2>3, <3>1, Given
  <2> QED BY <2>4, <2>5
<1>9. \A g \in Files : Elems(ToModify(n2, g)) = {e \in Elems(ToModify(n, g)) : e.id # id}
      BY <1>2, <1>7
<1> QED BY <1>5, <1>6, <1>7, <1>8, <1>9 DEF left

(* ... and for a line of a file.                                           *)
LineTaken(l, id, oLine) ==
  LET on == {i \in DOMAIN l : l[i].id = id /\ l[i].oline = oLine}
  IN  IF on = {} THEN l ELSE RemoveAt(l, Min(on))

LEMMA DeletesLine ==
  ASSUME NEW n \in Nodes, NEW id, NEW f \in Files, NEW oLine,
         NEW n2, n2 = DeleteLineForId(n, id, f, oLine)
  PROVE  /\ n2 \in Nodes
         /\ DOMAIN n2 \subseteq DOMAIN n
         /\ ToModify(n2, f) = LineTaken(ToModify(n, f), id, oLine)
         /\ \A g \in Files \ {f} : ToModify(n2, g) = ToModify(n, g)
         /\ \A g \in Files : \A e : e \in Elems(ToModify(n, g)) /\ e.id # id
                                  => e \in Elems(ToModify(n2, g))
         /\ \A g \in DOMAIN n2 : \A T : Sound(n[g], T) => Sound(n2[g], T)
<1> DEFINE l == ToModify(n, f)
           on == {i \in DOMAIN l : l[i].id = id /\ l[i].oline = oLine}
           left == RemoveAt(l, Min(on))
           copied == [n EXCEPT ![f].new = l]
           node == IF on = {} THEN [n[f] EXCEPT !.new = l]
                   ELSE [special |-> left, new |-> NoList]
           gone == on # {} /\ left = <<>>
           D == DOMAIN n
<1>1. D \subseteq Files /\ n = [g \in D |-> n[g]] /\ \A g \in D : n[g] \in Node
      BY NodesAre
<1>0. LineTaken(l, id, oLine) = IF on = {} THEN l ELSE left
      BY DEF LineTaken
<1>2. CASE f \notin D
  <2>1. n2 = n
        BY <1>2 DEF DeleteLineForId, Has
  <2>2. l = <<>>
        BY <1>2 DEF ToModify, Has
  <2>3. LineTaken(l, id, oLine) = l
        BY <1>0, <2>2
  <2> QED BY <2>1, <2>3
<1>3. CASE f \in D
  <2>1. l \in SpList /\ l # NoList
        BY ToModifyIs, NoListAssumption
  <2>2. DOMAIN l = 1 .. Len(l) /\ Len(l) \in Nat
        BY <2>1, ElemsOf
  <2>3. n[f] \in Node /\ n[f] = [special |-> n[f].special, new |-> n[f].new]
        /\ n[f].special \in SpList \cup {NoList}
        BY <1>1, <1>3, NodeIs
  <2>4. ASSUME on # {}
        PROVE  /\ left \in SpList /\ left # NoList /\ Elems(left) \subseteq Elems(l)
               /\ \A e \in Elems(l) : e.id # id => e \in Elems(left)
               /\ Sorted(l) => Sorted(left)
    <3>1. on \subseteq Nat
          BY <2>2
    <3>2. Min(on) \in on
          BY <2>4, <3>1, MinIsLeast
    <3>3. Min(on) \in 1 .. Len(l) /\ l[Min(on)].id = id
          BY <2>2, <3>2
    <3> HIDE DEF l, on
    <3> QED BY <2>1, <3>3, Taken, NoListAssumption
  <2>5. n2 = IF on = {} THEN copied
             ELSE IF left = <<>> THEN Without(n, f)
             ELSE ApplyOneSpLines([n EXCEPT ![f].new = left], f)
        BY <1>3 DEF DeleteLineForId, Has
  <2> HIDE DEF l, on, left
  <2>6. ~gone => n2 = [n EXCEPT ![f] = node]
    <3>1. CASE on = {}
      <4>1. n2 = copied
            BY <2>5, <3>1
      <4> QED BY <3>1, <4>1
    <3>2. CASE on # {} /\ left # <<>>
      <4>1. [n EXCEPT ![f].new = left][f].new = left
            BY <1>1, <1>3, <2>3
      <4>2. n2 = [[n EXCEPT ![f].new = left] EXCEPT ![f] = [special |-> left, new |-> NoList]]
            BY <2>4, <2>5, <3>2, <4>1 DEF ApplyOneSpLines
      <4> QED BY <3>2, <4>2
    <3> QED BY <3>1, <3>2
  <2>7. node = [special |-> IF on = {} THEN n[f].special ELSE left,
                new |-> IF on = {} THEN l ELSE NoList]
        BY <2>3
  <2>8. node \in Node
        BY <2>1, <2>3, <2>4, <2>7, NodeOf
  <2> HIDE DEF node
  <2>9. CASE gone
    <3>1. n2 = [g \in D \ {f} |-> n[g]]
          BY <2>5, <2>9 DEF Without
    <3>2. DOMAIN n2 = D \ {f} /\ \A g \in D \ {f} : n2[g] = n[g]
          BY <3>1
    <3>3. n2 \in Nodes
      <4>1. n2 = [g \in D \ {f} |-> n2[g]]
            BY <3>1
      <4> QED BY <1>1, <3>2, <4>1, NodesFrom
    <3>4. \A g \in Files \ {f} : ToModify(n2, g) = ToModify(n, g)
          BY <3>2 DEF ToModify, Has
    <3>5. Elems(left) = {}
          BY <2>9, NoListAssumption DEF Elems
    <3>6. \A e \in Elems(l) : e.id = id
          BY <2>4, <2>9, <3>5
    <3>7. ToModify(n2, f) = LineTaken(l, id, oLine)
      <4>1. ToModify(n2, f) = <<>>
            BY <3>2 DEF ToModify, Has
      <4> QED BY <1>0, <2>9, <4>1
    <3> QED BY <3>2, <3>3, <3>4, <3>6, <3>7 DEF l
  <2>10. CASE ~gone
    <3>1. n2 = [g \in D |-> IF g = f THEN node ELSE n[g]]
          BY <1>1, <2>6, <2>10
    <3>2. DOMAIN n2 = D /\ n2[f] = node /\ \A g \in D \ {f} : n2[g] = n[g]
          BY <1>3, <3>1
    <3>3. n2 \in Nodes
      <4>1. n2 = [g \in D |-> n2[g]]
            BY <3>1
      <4>2. \A g \in D : n2[g] \in Node
            BY <1>1, <2>8, <3>2
      <4> QED BY <1>1, <4>1, <4>2, NodesFrom
    <3>4. \A g \in Files \ {f} : ToModify(n2, g) = ToModify(n, g)
          BY <3>2 DEF ToModify, Has
    <3>5. ToModify(n2, f) = IF on = {} THEN l ELSE left
      <4>1. ToModify(n2, f) = IF node.new = NoList THEN node.special ELSE node.new
            BY <1>3, <3>2 DEF ToModify, Has
      <4> QED BY <2>1, <2>4, <2>7, <4>1
    <3>6. \A e \in Elems(l) : e.id # id => e \in Elems(ToModify(n2, f))
          BY <2>4, <3>5
    <3>7. ASSUME NEW T, Sound(n[f], T)
          PROVE  Sound(node, T)
      <4>1. /\ \A e \in Elems(l) : Right(T, e)
            /\ Sorted(l)
            /\ Elems(n[f].special) \subseteq Elems(l)
            /\ \A e \in Elems(l) \ Elems(n[f].special) : e.nline = e.oline
            BY <1>3, <3>7, ToModifyIs DEF l
      <4>2. n[f].special # NoList => Sorted(n[f].special)
            BY <3>7 DEF Sound
      <4>3. CASE on = {}
            BY <2>1, <2>7, <4>1, <4>2, <4>3, StillPending
      <4>4. CASE on # {}
            BY <2>4, <2>7, <4>1, <4>4, Given
      <4> QED BY <4>3, <4>4
    <3>8. ToModify(n2, f) = LineTaken(l, id, oLine)
          BY <1>0, <3>5
    <3> QED BY <3>2, <3>3, <3>4, <3>6, <3>7, <3>8 DEF l
  <2> QED BY <2>9, <2>10
<1> QED BY <1>2, <1>3

(* SpLinesUpdate(): each file has the same lines, now in the editor.       *)
LEMMA Updates ==
  ASSUME NEW n \in Nodes
  PROVE  /\ SpLinesUpdated(n) \in Nodes
         /\ DOMAIN SpLinesUpdated(n) = DOMAIN n
         /\ \A g \in Files : ToModify(SpLinesUpdated(n), g) = ToModify(n, g)
         /\ \A g \in DOMAIN n : \A T : Sound(n[g], T) => Sound(SpLinesUpdated(n)[g], T)
<1> DEFINE n2 == SpLinesUpdated(n)
           node(g) == IF n[g].new = NoList THEN n[g] ELSE [special |-> n[g].new, new |-> NoList]
           D == DOMAIN n
<1>1. D \subseteq Files /\ n = [g \in D |-> n[g]] /\ \A g \in D : n[g] \in Node
      BY NodesAre
<1>2. \A g \in D : ApplyOneSpLines(n, g)[g] = node(g)
      BY <1>1 DEF ApplyOneSpLines
<1>3. n2 = [g \in D |-> ApplyOneSpLines(n, g)[g]]
      BY DEF SpLinesUpdated
<1> HIDE DEF n2
<1>4. DOMAIN n2 = D /\ \A g \in D : n2[g] = node(g)
      BY <1>2, <1>3
<1>5. \A g \in D : node(g) \in Node
      BY <1>1, NodeIs, NodeOf
<1>6. n2 \in Nodes
  <2>1. n2 = [g \in D |-> n2[g]] /\ \A g \in D : n2[g] \in Node
        BY <1>3, <1>4, <1>5
  <2> QED BY <1>1, <2>1, NodesFrom
<1>7. \A g \in Files : ToModify(n2, g) = ToModify(n, g)
  <2>1. \A g \in D : n2[g].new = NoList
                     /\ n2[g].special = IF n[g].new = NoList THEN n[g].special ELSE n[g].new
        BY <1>4
  <2> QED BY <1>4, <2>1 DEF ToModify, Has
<1>8. ASSUME NEW g \in D, NEW T, Sound(n[g], T)
      PROVE  Sound(n2[g], T)
  <2>1. CASE n[g].new = NoList
        BY <1>4, <1>8, <2>1
  <2>2. CASE n[g].new # NoList
    <3>1. n[g].new \in SpList
          BY <1>1, <2>2, NodeIs
    <3>2. (\A e \in Elems(n[g].new) : Right(T, e)) /\ Sorted(n[g].new)
          BY <1>8, <2>2 DEF Sound
    <3> QED BY <1>4, <2>2, <3>1, <3>2, Given
  <2> QED BY <2>1, <2>2
<1> QED BY <1>4, <1>6, <1>7, <1>8 DEF n2


(* The editor of a file moves the lines it has.                            *)
MovedTo(n, f, move) ==
  IF f \in DOMAIN n /\ n[f].special # NoList
  THEN [n EXCEPT ![f] = [special |-> [i \in DOMAIN n[f].special |->
                                        [n[f].special[i] EXCEPT !.nline = move[n[f].special[i].nline]]],
                         new |-> n[f].new]]
  ELSE n

FollowTo(n, n2, f, move) ==
  \A T, T2 :
    /\ Sound(n[f], T)
    /\ \A e \in Elems(n[f].special) :
         Right(T, e) => Right(T2, [e EXCEPT !.nline = move[e.nline]])
    => Sound(n2[f], T2)

(* The lines are set where they were.                                      *)
SameKeys(l, l2) ==
  /\ DOMAIN l2 = DOMAIN l
  /\ \A i \in DOMAIN l : l2[i].id = l[i].id /\ l2[i].oline = l[i].oline

LEMMA Moves ==
  ASSUME NEW n \in Nodes, NEW f \in Files, NEW move \in [Int -> Int],
         NEW n2, n2 = MovedTo(n, f, move)
  PROVE  /\ n2 \in Nodes
         /\ DOMAIN n2 = DOMAIN n
         /\ \A g \in DOMAIN n \ {f} : n2[g] = n[g]
         /\ \A m : m.file \in Files /\ Known(n, m) => Known(n2, m)
         /\ \A g \in Files : SameKeys(ToModify(n, g), ToModify(n2, g))
         /\ f \in DOMAIN n /\ n[f].new = NoList => FollowTo(n, n2, f, move)
<1> DEFINE l == n[f].special
           to(e) == [e EXCEPT !.nline = move[e.nline]]
           l2 == [i \in DOMAIN l |-> to(l[i])]
           D == DOMAIN n
<1>1. D \subseteq Files /\ n = [g \in D |-> n[g]] /\ \A g \in D : n[g] \in Node
      BY NodesAre
<1>2. CASE ~(f \in D /\ l # NoList)
  <2>1. n2 = n
        BY <1>2 DEF MovedTo
  <2>2. f \in D => n[f].new # NoList
        BY <1>1, <1>2, NodeIs
  <2>3. \A l1 : SameKeys(l1, l1)
        BY DEF SameKeys
  <2> QED BY <2>1, <2>2, <2>3
<1>3. CASE f \in D /\ l # NoList
  <2> DEFINE N == Len(l)
  <2>1. n[f] \in Node /\ l \in SpList /\ n[f].new \in SpList \cup {NoList}
        BY <1>1, <1>3, NodeIs
  <2>2. /\ DOMAIN l = 1 .. N /\ N \in Nat /\ Elems(l) = {l[i] : i \in 1 .. N}
        /\ \A i \in 1 .. N : l[i] \in SpLine
        BY <2>1, ElemsOf
  <2>3. \A e \in SpLine : /\ to(e) \in SpLine /\ to(e).oline = e.oline
                          /\ to(e).id = e.id /\ to(e).what = e.what
    <3>1. \A e \in SpLine : move[e.nline] \in Int
          BY DEF SpLine
    <3> QED BY <3>1 DEF SpLine
  <2>4. n2 = [n EXCEPT ![f] = [special |-> l2, new |-> n[f].new]]
        BY <1>3 DEF MovedTo
  <2> HIDE DEF l, to
  <2>5. l2 = [i \in 1 .. N |-> to(l[i])]
        BY <2>2
  <2>6. l2 \in Seq(SpLine) /\ Len(l2) = N /\ DOMAIN l2 = 1 .. N /\ \A i \in 1 .. N : l2[i] = to(l[i])
    <3>1. \A i \in 1 .. N : to(l[i]) \in SpLine
          BY <2>2, <2>3
    <3> DEFINE M == N
    <3>2. M \in Nat /\ l2 = [i \in 1 .. M |-> to(l[i])] /\ \A i \in 1 .. M : to(l[i]) \in SpLine
          BY <2>2, <2>5, <3>1
    <3> HIDE DEF M, l2
    <3>3. l2 \in [1 .. M -> SpLine]
          BY <3>2
    <3>4. l2 \in Seq(SpLine) /\ Len(l2) = M
          BY <3>2, <3>3
    <3> QED BY <3>2, <3>4 DEF M
  <2> HIDE DEF l2, N
  <2>7. l2 \in SpList /\ l2 # NoList /\ Elems(l2) = {l2[i] : i \in 1 .. N}
        BY <2>6, ElemsOf DEF SpList
  <2> DEFINE node == [special |-> l2, new |-> n[f].new]
  <2>8. node \in Node
        BY <2>1, <2>7, NodeOf
  <2>9. n2 = [g \in D |-> IF g = f THEN node ELSE n[g]]
        BY <1>1, <2>4
  <2>10. node.special = l2 /\ node.new = n[f].new
        OBVIOUS
  <2> HIDE DEF node
  <2>11. DOMAIN n2 = D /\ n2[f] = node /\ \A g \in D \ {f} : n2[g] = n[g]
        BY <1>3, <2>9
  <2>12. n2 \in Nodes
    <3>1. n2 = [g \in D |-> n2[g]] /\ \A g \in D : n2[g] \in Node
          BY <1>1, <2>8, <2>9, <2>11
    <3> QED BY <1>1, <3>1, NodesFrom
  <2>13. ASSUME NEW m, Known(n, m) PROVE Known(n2, m)
    <3>1. CASE m.file # f
      <4>1. ToModify(n2, m.file) = ToModify(n, m.file)
            BY <2>11, <3>1 DEF ToModify, Has
      <4> QED BY <2>13, <4>1 DEF Known
    <3>2. CASE m.file = f /\ n[f].new # NoList
      <4>1. ToModify(n2, f) = n[f].new /\ ToModify(n, f) = n[f].new
            BY <1>3, <2>10, <2>11, <3>2 DEF ToModify, Has
      <4> QED BY <2>13, <3>2, <4>1 DEF Known
    <3>3. CASE m.file = f /\ n[f].new = NoList
      <4>1. ToModify(n2, f) = l2 /\ ToModify(n, f) = l
            BY <1>3, <2>10, <2>11, <3>3 DEF ToModify, Has, l
      <4>2. PICK e \in Elems(l) : e.id = Error /\ e.oline = m.line /\ e.what = m.what
            BY <2>13, <3>3, <4>1 DEF Known
      <4>3. PICK i \in 1 .. N : e = l[i]
            BY <2>2, <4>2
      <4>4. l2[i] \in Elems(l2) /\ l2[i] = to(e) /\ e \in SpLine
            BY <2>2, <2>6, <2>7, <4>3
      <4>5. l2[i].id = Error /\ l2[i].oline = m.line /\ l2[i].what = m.what
            BY <2>3, <4>2, <4>4
      <4> QED BY <3>3, <4>1, <4>4, <4>5 DEF Known
    <3> QED BY <3>1, <3>2, <3>3
  <2>14. ASSUME NEW T, NEW T2, n[f].new = NoList, Sound(n[f], T),
                \A e \in Elems(n[f].special) : Right(T, e) => Right(T2, to(e))
         PROVE  Sound(node, T2)
    <3>1. node = [special |-> l2, new |-> NoList]
          BY <2>14 DEF node
    <3>2. (\A e \in Elems(l) : Right(T, e)) /\ Sorted(l)
          BY <1>3, <2>14 DEF Sound, l
    <3>3. \A e \in Elems(l2) : Right(T2, e)
      <4>1. \A i \in 1 .. N : l[i] \in Elems(l) /\ l2[i] = to(l[i])
            BY <2>2, <2>6
      <4>2. \A i \in 1 .. N : Right(T2, l2[i])
            BY <2>14, <3>2, <4>1 DEF l
      <4> QED BY <2>7, <4>2
    <3>4. Sorted(l2)
      <4>1. \A i \in 1 .. N : l2[i].oline = l[i].oline
            BY <2>2, <2>3, <2>6
      <4> QED BY <2>2, <2>6, <3>2, <4>1 DEF Sorted
    <3> QED BY <2>7, <3>1, <3>3, <3>4, Given
  <2>15. n[f].new = NoList => FollowTo(n, n2, f, move)
         BY <2>11, <2>14 DEF FollowTo, to
  <2>16. ASSUME NEW g \in Files
         PROVE  SameKeys(ToModify(n, g), ToModify(n2, g))
    <3>1. \A l1 : SameKeys(l1, l1)
          BY DEF SameKeys
    <3>2. CASE g # f \/ n[f].new # NoList
      <4>1. ToModify(n2, g) = ToModify(n, g)
            BY <1>3, <2>10, <2>11, <3>2 DEF ToModify, Has
      <4> QED BY <3>1, <4>1
    <3>3. CASE g = f /\ n[f].new = NoList
      <4>1. ToModify(n2, f) = l2 /\ ToModify(n, f) = l
            BY <1>3, <2>10, <2>11, <3>3 DEF ToModify, Has, l
      <4>2. SameKeys(l, l2)
            BY <2>2, <2>3, <2>6 DEF SameKeys
      <4> QED BY <3>3, <4>1, <4>2
    <3> QED BY <3>2, <3>3
  <2> QED BY <2>11, <2>12, <2>13, <2>15, <2>16
<1> QED BY <1>2, <1>3 DEF l


-----------------------------------------------------------------------------
(* The breakpoints. *)

Breakpoint == [file : Files, line : Int, enabled : BOOLEAN, what : Lines \cup {Unknown}]
Breakpoints(M) == {B \in Seq(Breakpoint) : Len(B) = M}

LEMMA BreakpointIs ==
  ASSUME NEW b \in Breakpoint
  PROVE  /\ b.file \in Files /\ b.line \in Int /\ b.what \in Lines \cup {Unknown}
         /\ b.enabled \in BOOLEAN
         /\ \A line \in Int : [b EXCEPT !.line = line] \in Breakpoint
         /\ \A on \in BOOLEAN : [b EXCEPT !.enabled = on] \in Breakpoint
BY DEF Breakpoint

LEMMA BreakpointOf ==
  ASSUME NEW f \in Files, NEW line \in Int, NEW on \in BOOLEAN, NEW what \in Lines \cup {Unknown}
  PROVE  [file |-> f, line |-> line, enabled |-> on, what |-> what] \in Breakpoint
BY DEF Breakpoint

LEMMA BreakpointsAre ==
  ASSUME NEW M, NEW B \in Breakpoints(M)
  PROVE  /\ DOMAIN B = 1 .. M /\ M \in Nat /\ Len(B) = M /\ B \in Seq(Breakpoint)
         /\ \A i \in 1 .. M : B[i] \in Breakpoint
         /\ \A i \in 1 .. M, b \in Breakpoint : [B EXCEPT ![i] = b] \in Breakpoints(M)
<1>1. B \in Seq(Breakpoint) /\ Len(B) = M
      BY DEF Breakpoints
<1>2. DOMAIN B = 1 .. M /\ M \in Nat /\ \A i \in 1 .. M : B[i] \in Breakpoint
      BY <1>1, LenProperties, ElementOfSeq
<1>3. ASSUME NEW i \in 1 .. M, NEW b \in Breakpoint
      PROVE  [B EXCEPT ![i] = b] \in Breakpoints(M)
      BY <1>1, <1>3 DEF Breakpoints
<1> QED BY <1>1, <1>2, <1>3

(* A breakpoint that moves.                                                *)
LEMMA MovesOne ==
  ASSUME NEW M, NEW B \in Breakpoints(M), NEW f, NEW sp \in SpLine
  PROVE  MovedOne(B, f, sp) \in Breakpoints(M)
<1>1. CASE Hit(B, f, sp) = {}
      BY <1>1 DEF MovedOne
<1>2. CASE Hit(B, f, sp) # {}
  <2> DEFINE i == Min(Hit(B, f, sp))
  <2>1. Hit(B, f, sp) \subseteq 1 .. M
        BY BreakpointsAre DEF Hit, SearchBkpt
  <2>2. i \in 1 .. M
    <3>1. Hit(B, f, sp) \subseteq Nat
          BY <2>1, BreakpointsAre
    <3>2. i \in Hit(B, f, sp)
          BY <1>2, <3>1, MinIsLeast
    <3> QED BY <2>1, <3>2
  <2>3. sp.nline \in Int
        BY DEF SpLine
  <2> DEFINE b == [B[i] EXCEPT !.line = sp.nline]
  <2>4. MovedOne(B, f, sp) = [B EXCEPT ![i] = b]
        BY <1>2 DEF MovedOne
  <2> HIDE DEF i
  <2>5. b \in Breakpoint
        BY <2>2, <2>3, BreakpointsAre, BreakpointIs
  <2> HIDE DEF b
  <2>6. [B EXCEPT ![i] = b] \in Breakpoints(M)
        BY <2>2, <2>5, BreakpointsAre
  <2> QED BY <2>4, <2>6
<1> QED BY <1>1, <1>2

(* The breakpoints after each line of the list.                            *)
MovedBy(after, f, l, B) ==
  after = [k \in 0 .. Len(l) |-> IF k = 0 THEN B ELSE MovedOne(after[k - 1], f, l[k])]

MoveTurns(after, M, f) ==
  LET l == nodes[f].special
  IN  /\ after[0] = bkpts /\ MovedBkpts(f).bkpts = after[Len(l)]
      /\ \A k \in 0 .. Len(l) : after[k] \in Breakpoints(M)
      /\ \A k \in 1 .. Len(l) : after[k] = MovedOne(after[k - 1], f, l[k])
      /\ \A k \in 1 .. Len(l) :
           MovedBkpts(f).special[k] = IF Hit(after[k - 1], f, l[k]) = {} THEN l[k]
                                      ELSE [l[k] EXCEPT !.oline = l[k].nline]

LEMMA MovesAll ==
  ASSUME NEW M, bkpts \in Breakpoints(M), NEW f, nodes[f].special \in SpList
  PROVE  LET l == nodes[f].special
             moved == MovedBkpts(f)
         IN  /\ moved.bkpts \in Breakpoints(M)
             /\ moved.special \in Seq(SpLine) /\ Len(moved.special) = Len(l)
             /\ \A k \in 1 .. Len(l) :
                  /\ moved.special[k].nline = l[k].nline
                  /\ moved.special[k].id = l[k].id
                  /\ moved.special[k].what = l[k].what
                  /\ l[k].id = Error => moved.special[k].oline = l[k].oline
             /\ \E after : MoveTurns(after, M, f)
<1> DEFINE l == nodes[f].special
           N == Len(l)
           S == Breakpoints(M)
           G == [p \in (1 .. N) \X S |-> MovedOne(p[2], f, l[p[1]])]
<1>1. N \in Nat /\ \A k \in 1 .. N : l[k] \in SpLine
      BY ElemsOf
<1>2. G \in [(1 .. N) \X S -> S]
      BY <1>1, MovesOne
<1>3. PICK g : g \in [0 .. N -> S] /\ g[0] = bkpts
               /\ \A k \in 1 .. N : g[k] = G[<<k, g[k - 1]>>]
  <2> HIDE DEF N, G, S
  <2>1. bkpts \in S
        BY DEF S
  <2>2. \E g : Iterated(g, N, S, bkpts, G)
        BY <1>1, <1>2, <2>1, Iterates
  <2> QED BY <2>2 DEF Iterated
<1>4. ASSUME NEW k \in 1 .. N
      PROVE  g[k] = MovedOne(g[k - 1], f, l[k])
  <2>1. k - 1 \in 0 .. N
        BY <1>1
  <2>2. g[k - 1] \in S
        BY <2>1, <1>3
  <2>3. <<k, g[k - 1]>> \in (1 .. N) \X S
        BY <2>2
  <2>4. G[<<k, g[k - 1]>>] = MovedOne(g[k - 1], f, l[k])
        BY <2>3
  <2> QED BY <2>4, <1>3
<1>5. MovedBy(g, f, l, bkpts)
  <2> DEFINE Body(k) == IF k = 0 THEN bkpts ELSE MovedOne(g[k - 1], f, l[k])
  <2>1. \A k \in 0 .. N : g[k] = Body(k)
    <3>1. \A k \in 1 .. N : g[k] = Body(k)
          BY <1>4
    <3>2. g[0] = Body(0)
          BY <1>3
    <3> HIDE DEF Body
    <3>3. \A k \in 0 .. N : k = 0 \/ k \in 1 .. N
          BY <1>1
    <3> QED BY <3>1, <3>2, <3>3
  <2>2. g = [k \in 0 .. N |-> g[k]]
        BY <1>3
  <2>3. g = [k \in 0 .. N |-> Body(k)]
    <3> HIDE DEF Body
    <3> QED BY <2>1, <2>2
  <2> QED BY <2>3 DEF MovedBy
<1> DEFINE w == CHOOSE after : MovedBy(after, f, l, bkpts)
           to(k) == IF Hit(w[k - 1], f, l[k]) = {} THEN l[k]
                    ELSE [l[k] EXCEPT !.oline = l[k].nline]
           special == [k \in 1 .. N |-> to(k)]
<1>6. MovedBy(w, f, l, bkpts)
      BY <1>5
<1>7. MovedBkpts(f) = [special |-> special, bkpts |-> w[N]]
      BY DEF MovedBkpts, MovedBy
<1> HIDE DEF w
<1>8. w[0] = bkpts /\ \A k \in 1 .. N : w[k] = MovedOne(w[k - 1], f, l[k])
  <2>1. 0 \in 0 .. N /\ \A k \in 1 .. N : k \in 0 .. N /\ k # 0
        BY <1>1
  <2>2. w[0] = bkpts
        BY <1>6, <2>1 DEF MovedBy
  <2>3. ASSUME NEW k \in 1 .. N
        PROVE  w[k] = MovedOne(w[k - 1], f, l[k])
        BY <1>6, <2>1 DEF MovedBy
  <2> QED BY <2>2, <2>3
<1>9. \A k \in 0 .. N : w[k] \in S
  <2> DEFINE T == {k \in 0 .. N : w[k] \in S}
  <2>1. 0 \in T
        BY <1>1, <1>8
  <2>2. ASSUME NEW j \in 0 .. N - 1, j \in T
        PROVE  j + 1 \in T
    <3> DEFINE k == j + 1
    <3>1. k \in 1 .. N /\ k - 1 = j /\ k \in 0 .. N
          BY <1>1
    <3>2. w[j] \in S
          BY <2>2
    <3> HIDE DEF k, l, N
    <3>3. w[k] \in S
          BY <1>1, <1>8, <3>1, <3>2, MovesOne
    <3> QED BY <3>1, <3>3 DEF k
  <2> HIDE DEF T, N
  <2>3. \A k \in 0 .. N : k \in T
        BY <1>1, <2>1, <2>2, Turns
  <2> QED BY <2>3 DEF T
<1>10. ASSUME NEW k \in 1 .. N
       PROVE  /\ to(k) \in SpLine /\ to(k).nline = l[k].nline
              /\ to(k).id = l[k].id /\ to(k).what = l[k].what
              /\ l[k].id = Error => to(k).oline = l[k].oline
  <2> DEFINE e == l[k]
  <2>1. e \in SpLine
        BY <1>1
  <2> HIDE DEF e, l
  <2>2. /\ [e EXCEPT !.oline = e.nline] \in SpLine
        /\ [e EXCEPT !.oline = e.nline].nline = e.nline
        /\ [e EXCEPT !.oline = e.nline].id = e.id
        /\ [e EXCEPT !.oline = e.nline].what = e.what
        BY <2>1 DEF SpLine
  <2>3. e.id = Error => Hit(w[k - 1], f, e) = {}
        BY DEF Hit, Error, Break
  <2>4. to(k) = e \/ (Hit(w[k - 1], f, e) # {} /\ to(k) = [e EXCEPT !.oline = e.nline])
        BY DEF e
  <2> HIDE DEF to
  <2>5. /\ to(k) \in SpLine /\ to(k).nline = e.nline
        /\ to(k).id = e.id /\ to(k).what = e.what
        /\ e.id = Error => to(k).oline = e.oline
        BY <2>1, <2>2, <2>3, <2>4
  <2> QED BY <2>5 DEF e
<1> HIDE DEF to
<1>11. special \in Seq(SpLine) /\ Len(special) = N /\ \A k \in 1 .. N : special[k] = to(k)
  <2> HIDE DEF N, l
  <2>1. special \in [1 .. N -> SpLine]
        BY <1>10
  <2> QED BY <1>1, <2>1
<1> HIDE DEF special, N
<1>12. MovedBkpts(f).special = special /\ MovedBkpts(f).bkpts = w[N]
       BY <1>7
<1>13. w[N] \in S
       BY <1>1, <1>9
<1>14. MoveTurns(w, M, f)
  <2>1. \A k \in 1 .. N : MovedBkpts(f).special[k] = to(k)
        BY <1>11, <1>12
  <2> QED BY <1>8, <1>9, <1>12, <2>1 DEF MoveTurns, N, to
<1> QED BY <1>10, <1>11, <1>12, <1>13, <1>14 DEF N


(* What keeps the nodes as they should be, and the messages' errors.       *)
Keeps(n, n2, stray, T) ==
  /\ n2 \in Nodes
  /\ AllSound(n, stray, T) => AllSound(n2, stray, T)
  /\ \A m : m.file \in Files /\ Known(n, m) => Known(n2, m)

LEMMA KeepsOn ==
  ASSUME NEW n, NEW n2, NEW n3, NEW stray, NEW T, Keeps(n, n2, stray, T), Keeps(n2, n3, stray, T)
  PROVE  Keeps(n, n3, stray, T)
BY DEF Keeps

LEMMA AddKeeps ==
  ASSUME NEW n \in Nodes, NEW f \in Files, NEW line \in Int, NEW id \in {Error, Break},
         NEW what \in Lines \cup {Unknown}, NEW now, NEW stray, NEW T,
         \/ f \in stray
         \/ what = Unknown
         \/ line + 1 \in DOMAIN T[f] /\ T[f][line + 1] = what
  PROVE  Keeps(n, SpLinesAdd(n, f, line, id, what, now), stray, T)
<1> DEFINE n2 == SpLinesAdd(n, f, line, id, what, now)
           e == [oline |-> line, nline |-> line, id |-> id, what |-> what]
<1>0. /\ n2 = SpLinesAdd(n, f, line, id, what, now)
      /\ e = [oline |-> line, nline |-> line, id |-> id, what |-> what]
      OBVIOUS
<1> HIDE DEF n2, e
<1>1. /\ n2 \in Nodes
      /\ DOMAIN n2 = DOMAIN n \cup {f}
      /\ \A g \in DOMAIN n \ {f} : n2[g] = n[g]
      /\ \A g \in Files : Elems(ToModify(n, g)) \subseteq Elems(ToModify(n2, g))
      /\ \A U : (f \in DOMAIN n => Sound(n[f], U)) /\ Right(U, e) => Sound(n2[f], U)
  <2>1. Added(n, n2, f, e)
        BY <1>0, Adds
  <2> QED BY <2>1 DEF Added
<1>2. f \in stray \/ Right(T[f], e)
      BY DEF Right, e
<1>3. AllSound(n, stray, T) => AllSound(n2, stray, T)
      BY <1>1, <1>2 DEF AllSound
<1>4. \A m : m.file \in Files /\ Known(n, m) => Known(n2, m)
      BY <1>1 DEF Known
<1> QED BY <1>1, <1>3, <1>4 DEF Keeps, n2

LEMMA DeleteKeeps ==
  ASSUME NEW n \in Nodes, NEW stray, NEW T
  PROVE  Keeps(n, DeleteForId(n, Break), stray, T)
<1> DEFINE n2 == DeleteForId(n, Break)
<1> HIDE DEF n2
<1>1. /\ n2 \in Nodes
      /\ DOMAIN n2 \subseteq DOMAIN n
      /\ \A g \in Files : Elems(ToModify(n2, g)) = {e \in Elems(ToModify(n, g)) : e.id # Break}
      /\ \A g \in DOMAIN n2 : \A U : Sound(n[g], U) => Sound(n2[g], U)
      BY Deletes DEF n2
<1>2. AllSound(n, stray, T) => AllSound(n2, stray, T)
      BY <1>1 DEF AllSound
<1>3. \A m : m.file \in Files /\ Known(n, m) => Known(n2, m)
  <2>1. Error # Break
        BY DEF Error, Break
  <2> QED BY <1>1, <2>1 DEF Known
<1> QED BY <1>1, <1>2, <1>3 DEF Keeps, n2

LEMMA DeleteLineKeeps ==
  ASSUME NEW n \in Nodes, NEW f \in Files, NEW oLine, NEW stray, NEW T
  PROVE  Keeps(n, DeleteLineForId(n, Break, f, oLine), stray, T)
<1> DEFINE n2 == DeleteLineForId(n, Break, f, oLine)
<1> HIDE DEF n2
<1>1. /\ n2 \in Nodes
      /\ DOMAIN n2 \subseteq DOMAIN n
      /\ \A g \in Files : \A e : e \in Elems(ToModify(n, g)) /\ e.id # Break
                               => e \in Elems(ToModify(n2, g))
      /\ \A g \in DOMAIN n2 : \A U : Sound(n[g], U) => Sound(n2[g], U)
      BY DeletesLine DEF n2
<1>2. AllSound(n, stray, T) => AllSound(n2, stray, T)
      BY <1>1 DEF AllSound
<1>3. \A m : m.file \in Files /\ Known(n, m) => Known(n2, m)
  <2>1. Error # Break
        BY DEF Error, Break
  <2> QED BY <1>1, <2>1 DEF Known
<1> QED BY <1>1, <1>2, <1>3 DEF Keeps, n2

LEMMA UpdateKeeps ==
  ASSUME NEW n \in Nodes, NEW stray, NEW T
  PROVE  Keeps(n, SpLinesUpdated(n), stray, T)
<1> DEFINE n2 == SpLinesUpdated(n)
<1> HIDE DEF n2
<1>1. /\ n2 \in Nodes
      /\ DOMAIN n2 = DOMAIN n
      /\ \A g \in Files : ToModify(n2, g) = ToModify(n, g)
      /\ \A g \in DOMAIN n : \A U : Sound(n[g], U) => Sound(n2[g], U)
      BY Updates DEF n2
<1>2. AllSound(n, stray, T) => AllSound(n2, stray, T)
      BY <1>1 DEF AllSound
<1>3. \A m : m.file \in Files /\ Known(n, m) => Known(n2, m)
      BY <1>1 DEF Known
<1> QED BY <1>1, <1>2, <1>3 DEF Keeps, n2

(* apply(): the nodes after each breakpoint.                               *)
AppliedOne(n, b, refused) ==
  IF b.enabled /\ b # refused THEN SpLinesAdd(n, b.file, b.line, Break, b.what, FALSE) ELSE n

AppliedBy(after, n, refused) ==
  after = [k \in 0 .. Len(bkpts) |-> IF k = 0 THEN n ELSE AppliedOne(after[k - 1], bkpts[k], refused)]

LEMMA AppliesOne ==
  ASSUME NEW n \in Nodes, NEW b \in Breakpoint, NEW refused, NEW stray,
         b.enabled /\ b # refused => b.file \in stray \/ OnItsLine(b)
  PROVE  Keeps(n, AppliedOne(n, b, refused), stray, text)
<1>1. b.file \in Files /\ b.line \in Int /\ b.what \in Lines \cup {Unknown}
      BY BreakpointIs
<1>2. CASE b.enabled /\ b # refused
  <2>1. AppliedOne(n, b, refused) = SpLinesAdd(n, b.file, b.line, Break, b.what, FALSE)
        BY <1>2 DEF AppliedOne
  <2>2. \/ b.file \in stray
        \/ b.line + 1 \in DOMAIN text[b.file] /\ text[b.file][b.line + 1] = b.what
        BY <1>2 DEF OnItsLine
  <2> QED BY <1>1, <2>1, <2>2, AddKeeps
<1>3. CASE ~(b.enabled /\ b # refused)
  <2>1. AppliedOne(n, b, refused) = n
        BY <1>3 DEF AppliedOne
  <2> QED BY <2>1 DEF Keeps
<1> QED BY <1>2, <1>3

ApplyTurns(after, refused) ==
  /\ after[0] = DeleteForId(nodes, Break)
  /\ \A k \in 0 .. Len(bkpts) : after[k] \in Nodes
  /\ \A k \in 1 .. Len(bkpts) : after[k] = AppliedOne(after[k - 1], bkpts[k], refused)
  /\ nodes' = SpLinesUpdated(after[Len(bkpts)]) \/ nodes' = after[Len(bkpts)]

LEMMA AppliesAll ==
  ASSUME nodes \in Nodes, NEW M, bkpts \in Breakpoints(M), NEW refused,
         apply(refused)
  PROVE  /\ Keeps(nodes, nodes', astray', text)
         /\ \E after : ApplyTurns(after, refused)
<1> DEFINE N == Len(bkpts)
           n0 == DeleteForId(nodes, Break)
           G == [p \in (1 .. N) \X Nodes |->
                   IF AppliedOne(p[2], bkpts[p[1]], refused) \in Nodes
                   THEN AppliedOne(p[2], bkpts[p[1]], refused) ELSE p[2]]
           A == astray'
<1>1. N \in Nat /\ DOMAIN bkpts = 1 .. N /\ \A k \in 1 .. N : bkpts[k] \in Breakpoint
      BY BreakpointsAre
<1>2. \A k \in 1 .. N : bkpts[k].enabled /\ bkpts[k] # refused
                          => bkpts[k].file \in A \/ OnItsLine(bkpts[k])
      BY <1>1 DEF apply
<1> HIDE DEF A
<1>3. Keeps(nodes, n0, A, text)
      BY DeleteKeeps
<1> HIDE DEF n0
<1>4. n0 \in Nodes
      BY <1>3 DEF Keeps
<1>5. ASSUME NEW k \in 1 .. N, NEW n \in Nodes
      PROVE  /\ Keeps(n, AppliedOne(n, bkpts[k], refused), A, text)
             /\ G[<<k, n>>] = AppliedOne(n, bkpts[k], refused)
  <2>1. Keeps(n, AppliedOne(n, bkpts[k], refused), A, text)
        BY <1>1, <1>2, AppliesOne
  <2>2. AppliedOne(n, bkpts[k], refused) \in Nodes
        BY <2>1 DEF Keeps
  <2>3. <<k, n>> \in (1 .. N) \X Nodes
        OBVIOUS
  <2> HIDE DEF N
  <2> QED BY <2>1, <2>2, <2>3
<1>6. G \in [(1 .. N) \X Nodes -> Nodes]
      OBVIOUS
<1>7. PICK g : g \in [0 .. N -> Nodes] /\ g[0] = n0
               /\ \A k \in 1 .. N : g[k] = G[<<k, g[k - 1]>>]
  <2> HIDE DEF N, G
  <2>1. \E g : Iterated(g, N, Nodes, n0, G)
        BY <1>1, <1>4, <1>6, Iterates
  <2> QED BY <2>1 DEF Iterated
<1> HIDE DEF G
<1>8. ASSUME NEW k \in 1 .. N
      PROVE  g[k] = AppliedOne(g[k - 1], bkpts[k], refused)
  <2>1. k - 1 \in 0 .. N
        BY <1>1
  <2>2. g[k - 1] \in Nodes
        BY <2>1, <1>7
  <2> QED BY <1>5, <1>7, <2>2
<1>9. AppliedBy(g, n0, refused)
  <2> DEFINE Body(k) == IF k = 0 THEN n0 ELSE AppliedOne(g[k - 1], bkpts[k], refused)
  <2>1. \A k \in 0 .. N : g[k] = Body(k)
    <3>1. \A k \in 1 .. N : g[k] = Body(k)
          BY <1>8
    <3>2. g[0] = Body(0)
          BY <1>7
    <3> HIDE DEF Body
    <3>3. \A k \in 0 .. N : k = 0 \/ k \in 1 .. N
          BY <1>1
    <3> QED BY <3>1, <3>2, <3>3
  <2>2. g = [k \in 0 .. N |-> g[k]]
        BY <1>7
  <2>3. g = [k \in 0 .. N |-> Body(k)]
    <3> HIDE DEF Body
    <3> QED BY <2>1, <2>2
  <2> QED BY <2>3 DEF AppliedBy
<1> DEFINE w == CHOOSE after : AppliedBy(after, n0, refused)
<1>10. AppliedBy(w, n0, refused)
       BY <1>9
<1>11. nodes' = SpLinesUpdated(w[N]) \/ nodes' = w[N]
       BY DEF apply, AppliedBy, AppliedOne, n0
<1> HIDE DEF w
<1>12. w[0] = n0 /\ \A k \in 1 .. N : w[k] = AppliedOne(w[k - 1], bkpts[k], refused)
  <2>1. 0 \in 0 .. N /\ \A k \in 1 .. N : k \in 0 .. N /\ k # 0
        BY <1>1
  <2>2. w[0] = n0
        BY <1>10, <2>1 DEF AppliedBy
  <2>3. ASSUME NEW k \in 1 .. N
        PROVE  w[k] = AppliedOne(w[k - 1], bkpts[k], refused)
        BY <1>10, <2>1 DEF AppliedBy
  <2> QED BY <2>2, <2>3
<1>13. \A k \in 0 .. N : Keeps(nodes, w[k], A, text)
  <2> DEFINE T == {k \in 0 .. N : Keeps(nodes, w[k], A, text)}
  <2>1. 0 \in T
        BY <1>1, <1>3, <1>12
  <2>2. ASSUME NEW j \in 0 .. N - 1, j \in T
        PROVE  j + 1 \in T
    <3> DEFINE k == j + 1
    <3>1. k \in 1 .. N /\ k - 1 = j /\ k \in 0 .. N
          BY <1>1
    <3>2. Keeps(nodes, w[j], A, text) /\ w[j] \in Nodes
          BY <2>2 DEF Keeps
    <3> HIDE DEF k, N
    <3>3. Keeps(w[j], w[k], A, text)
          BY <1>5, <1>12, <3>1, <3>2
    <3>4. Keeps(nodes, w[k], A, text)
          BY <3>2, <3>3, KeepsOn
    <3> QED BY <3>1, <3>4 DEF k
  <2> HIDE DEF T, N
  <2>3. \A k \in 0 .. N : k \in T
        BY <1>1, <2>1, <2>2, Turns
  <2> QED BY <2>3 DEF T
<1>14. ApplyTurns(w, refused)
  <2>1. \A k \in 0 .. N : w[k] \in Nodes
        BY <1>13 DEF Keeps
  <2> QED BY <1>11, <1>12, <2>1 DEF ApplyTurns, n0
<1>15. Keeps(nodes, w[N], A, text)
       BY <1>1, <1>13
<1> HIDE DEF N
<1>16. Keeps(w[N], SpLinesUpdated(w[N]), A, text)
  <2>1. w[N] \in Nodes
        BY <1>15 DEF Keeps
  <2> QED BY <2>1, UpdateKeeps
<1>17. Keeps(nodes, nodes', A, text)
       BY <1>11, <1>15, <1>16, KeepsOn
<1> QED BY <1>14, <1>17 DEF A


-----------------------------------------------------------------------------
(* The inductive invariant. *)

Message == [file : Files, line : Int, what : Lines \cup {Unknown}]
Distinct(T) == \A i, j \in DOMAIN T : T[i] = T[j] => i = j

(* No line of text is there twice. *)
Texts ==
  /\ text \in [Files -> Seq(Lines)] /\ disk \in [Files -> Seq(Lines)] /\ open \subseteq Files
  /\ \A f \in Files : Distinct(text[f]) /\ Distinct(disk[f])

Followed == nodes \in Nodes /\ AllSound(nodes, astray, text)

(* Each message with a line has its error, in the list or in the copy. *)
Heard == msgs \in Seq(Message) /\ \A i \in Jumps : Known(nodes, msgs[i])

Rest ==
  /\ bkpts \in Seq(Breakpoint)
  /\ focused \in Nat \ {0} /\ haveJumpLines \in Nat
  /\ fate \in {"runs", "hangs", "crashes"} /\ astray \subseteq Files

IInv == Texts /\ Followed /\ Heard /\ Rest

LEMMA MessagesAre ==
  ASSUME NEW m, m \in Seq(Message)
  PROVE  /\ DOMAIN m = 1 .. Len(m) /\ Len(m) \in Nat
         /\ \A i \in 1 .. Len(m) : /\ m[i] \in Message /\ m[i].file \in Files
                                   /\ m[i].line \in Int /\ m[i].what \in Lines \cup {Unknown}
<1>1. DOMAIN m = 1 .. Len(m) /\ Len(m) \in Nat /\ \A i \in 1 .. Len(m) : m[i] \in Message
      BY LenProperties, ElementOfSeq
<1>2. \A b \in Message : b.file \in Files /\ b.line \in Int /\ b.what \in Lines \cup {Unknown}
      BY DEF Message
<1> QED BY <1>1, <1>2

LEMMA TextIs ==
  ASSUME Texts, NEW f \in Files
  PROVE  /\ text[f] \in Seq(Lines) /\ Len(text[f]) \in Nat /\ DOMAIN text[f] = 1 .. Len(text[f])
         /\ \A k \in 1 .. Len(text[f]) : text[f][k] \in Lines
         /\ disk[f] \in Seq(Lines) /\ Len(disk[f]) \in Nat /\ DOMAIN disk[f] = 1 .. Len(disk[f])
         /\ \A i, j \in 1 .. Len(text[f]) : text[f][i] = text[f][j] => i = j
<1>1. text[f] \in Seq(Lines) /\ disk[f] \in Seq(Lines) /\ Distinct(text[f])
      BY DEF Texts
<1>2. /\ Len(text[f]) \in Nat /\ DOMAIN text[f] = 1 .. Len(text[f])
      /\ Len(disk[f]) \in Nat /\ DOMAIN disk[f] = 1 .. Len(disk[f])
      /\ \A k \in 1 .. Len(text[f]) : text[f][k] \in Lines
      BY <1>1, LenProperties, ElementOfSeq
<1> QED BY <1>1, <1>2 DEF Distinct

(* The messages stay, and what is known to them.                           *)
LEMMA StillHeard ==
  ASSUME Heard, msgs' = msgs,
         \A m : m.file \in Files /\ Known(nodes, m) => Known(nodes', m)
  PROVE  Heard'
<1>1. Jumps' = Jumps /\ \A i \in Jumps : i \in 1 .. Len(msgs) /\ msgs[i].file \in Files
      BY MessagesAre DEF Heard, Jumps
<1>2. \A i \in Jumps : Known(nodes', msgs[i])
      BY <1>1 DEF Heard
<1> QED BY <1>1, <1>2 DEF Heard

(* A line that comes: the special lines from there on move, and each stays *)
(* on its line of text.                                                    *)
LEMMA RightInserted ==
  ASSUME NEW T \in Seq(Lines), NEW k \in 0 .. Len(T), NEW t \in Lines,
         \A i \in 1 .. Len(T) : T[i] # t,
         NEW e, e.nline \in Int, e.what # t, Right(T, e),
         NEW d, d.what = e.what, d.nline = IF e.nline >= k THEN e.nline + 1 ELSE e.nline
  PROVE  Right(InsertAt(T, k + 1, t), d)
<1> DEFINE N == Len(T)
           p == k + 1
           U == InsertAt(T, p, t)
<1>1. N \in Nat /\ DOMAIN T = 1 .. N
      BY LenProperties
<1>2. p \in 1 .. N + 1 /\ k \in Nat /\ p = k + 1
      BY <1>1
<1> HIDE DEF p
<1>3. /\ U \in Seq(Lines) /\ Len(U) = N + 1
      /\ \A i \in 1 .. N + 1 : U[i] = IF i < p THEN T[i] ELSE IF i = p THEN t ELSE T[i - 1]
      BY <1>2, InsertedAt
<1>4. DOMAIN U = 1 .. N + 1
      BY <1>3, LenProperties
<1> HIDE DEF U, N
<1>5. SUFFICES ASSUME e.what # Unknown
               PROVE  IF \E i \in DOMAIN U : U[i] = d.what
                      THEN d.nline + 1 \in DOMAIN U /\ U[d.nline + 1] = d.what
                      ELSE d.nline = -1
      BY DEF Right, U, p
<1>6. CASE \E i \in DOMAIN T : T[i] = e.what
  <2>1. e.nline + 1 \in 1 .. N /\ T[e.nline + 1] = e.what
        BY <1>1, <1>5, <1>6 DEF Right
  <2> DEFINE q == d.nline + 1
  <2>2. q \in 1 .. N + 1 /\ (q < p => q = e.nline + 1) /\ q # p /\ (q > p => q - 1 = e.nline + 1)
        BY <1>1, <1>2, <2>1
  <2>3. U[q] = e.what
        BY <1>1, <1>2, <1>3, <2>1, <2>2
  <2> QED BY <1>4, <2>2, <2>3
<1>7. CASE ~\E i \in DOMAIN T : T[i] = e.what
  <2>1. e.nline = -1
        BY <1>5, <1>7 DEF Right
  <2>2. d.nline = -1
        BY <1>2, <2>1
  <2>3. ASSUME NEW i \in 1 .. N + 1 PROVE U[i] # d.what
    <3>1. (i < p => i \in 1 .. N) /\ (i > p => i - 1 \in 1 .. N)
          BY <1>1, <1>2
    <3>2. i < p \/ i = p \/ i > p
          BY <1>2
    <3> QED BY <1>1, <1>2, <1>3, <1>7, <3>1, <3>2
  <2> QED BY <1>4, <2>2, <2>3
<1> QED BY <1>6, <1>7

(* A line that goes: the special lines on it are nowhere.                  *)
LEMMA RightDeleted ==
  ASSUME NEW T \in Seq(Lines), NEW k \in 0 .. Len(T) - 1,
         \A i, j \in 1 .. Len(T) : T[i] = T[j] => i = j,
         NEW e, e.nline \in Int, Right(T, e),
         NEW d, d.what = e.what,
         d.nline = IF e.nline > k THEN e.nline - 1 ELSE IF e.nline = k THEN -1 ELSE e.nline
  PROVE  Right(RemoveAt(T, k + 1), d)
<1> DEFINE N == Len(T)
           M == N - 1
           p == k + 1
           U == RemoveAt(T, p)
<1>1. N \in Nat /\ DOMAIN T = 1 .. N
      BY LenProperties
<1>2. p \in 1 .. N /\ k \in Nat /\ p = k + 1 /\ M \in Nat /\ N = M + 1
      BY <1>1
<1> HIDE DEF p
<1>3. /\ U \in Seq(Lines) /\ Len(U) = M
      /\ \A i \in 1 .. M : U[i] = IF i < p THEN T[i] ELSE T[i + 1]
  <2>1. U \in Seq(Lines) /\ Len(U) = M
        BY <1>2, RemovedAt
  <2>2. ASSUME NEW i \in 1 .. Len(T) - 1
        PROVE  RemoveAt(T, p)[i] = IF i < p THEN T[i] ELSE T[i + 1]
        BY <1>2, RemovedAt
  <2> QED BY <2>1, <2>2
<1>4. DOMAIN U = 1 .. M
      BY <1>3, LenProperties
<1> HIDE DEF U, N, M
<1>5. SUFFICES ASSUME e.what # Unknown
               PROVE  IF \E i \in DOMAIN U : U[i] = d.what
                      THEN d.nline + 1 \in DOMAIN U /\ U[d.nline + 1] = d.what
                      ELSE d.nline = -1
      BY DEF Right, U, p
<1>6. CASE \E i \in DOMAIN T : T[i] = e.what
  <2>1. e.nline + 1 \in 1 .. N /\ T[e.nline + 1] = e.what
        BY <1>1, <1>5, <1>6 DEF Right
  <2>2. CASE e.nline = k
    <3>1. d.nline = -1 /\ T[p] = e.what
          BY <1>2, <2>1, <2>2
    <3>2. ASSUME NEW i \in 1 .. M PROVE U[i] # d.what
      <4>1. i \in 1 .. N /\ i + 1 \in 1 .. N /\ (~(i < p) => i + 1 # p) /\ (i < p => i # p)
            BY <1>2
      <4> QED BY <1>2, <1>3, <3>1, <4>1 DEF N
    <3> QED BY <1>4, <3>1, <3>2
  <2>3. CASE e.nline # k
    <3> DEFINE q == d.nline + 1
    <3>1. /\ q \in 1 .. M /\ (q < p => q = e.nline + 1)
          /\ (~(q < p) => q + 1 = e.nline + 1)
          BY <1>1, <1>2, <2>1, <2>3
    <3>2. U[q] = e.what
          BY <1>1, <1>2, <1>3, <2>1, <3>1
    <3> QED BY <1>4, <3>1, <3>2
  <2> QED BY <2>2, <2>3
<1>7. CASE ~\E i \in DOMAIN T : T[i] = e.what
  <2>1. e.nline = -1
        BY <1>5, <1>7 DEF Right
  <2>2. d.nline = -1
        BY <1>2, <2>1
  <2>3. ASSUME NEW i \in 1 .. M PROVE U[i] # d.what
    <3>1. i \in 1 .. N /\ i + 1 \in 1 .. N
          BY <1>2
    <3> QED BY <1>1, <1>2, <1>3, <1>7, <3>1
  <2> QED BY <1>4, <2>2, <2>3
<1> QED BY <1>6, <1>7


LEMMA SpLineIs ==
  ASSUME NEW l \in SpList \cup {NoList}, NEW e \in Elems(l)
  PROVE  e \in SpLine /\ e.nline \in Int /\ e.oline \in Int
<1>1. l # NoList /\ l \in SpList
      BY DEF Elems
<1>2. e \in SpLine
      BY <1>1, ElemsOf
<1> QED BY <1>2 DEF SpLine

(* What an edit of f does to the rest.                                     *)
LEMMA EditedKeeps ==
  ASSUME IInv, NEW f \in Files, NEW move \in [Int -> Int],
         nodes' = MovedTo(nodes, f, move), Edited(f),
         text' \in [Files -> Seq(Lines)], Distinct(text'[f]),
         \A g \in Files \ {f} : text'[g] = text[g],
         Has(nodes, f) => \A e \in Elems(nodes[f].special) :
           Right(text[f], e) => Right(text'[f], [e EXCEPT !.nline = move[e.nline]])
  PROVE  IInv'
<1>1. nodes \in Nodes /\ AllSound(nodes, astray, text)
      BY DEF IInv, Followed
<1>2. /\ nodes' \in Nodes
      /\ DOMAIN nodes' = DOMAIN nodes
      /\ \A g \in DOMAIN nodes \ {f} : nodes'[g] = nodes[g]
      /\ \A m : m.file \in Files /\ Known(nodes, m) => Known(nodes', m)
      BY <1>1, Moves
<1>3. ASSUME f \in DOMAIN nodes \ astray, nodes[f].new = NoList
      PROVE  Sound(nodes'[f], text'[f])
  <2>1. Sound(nodes[f], text[f])
        BY <1>1, <1>3 DEF AllSound
  <2>2. \A e \in Elems(nodes[f].special) :
           Right(text[f], e) => Right(text'[f], [e EXCEPT !.nline = move[e.nline]])
        BY <1>3 DEF Has
  <2>3. FollowTo(nodes, nodes', f, move)
        BY <1>1, <1>3, Moves
  <2> QED BY <2>1, <2>2, <2>3 DEF FollowTo
<1>4. /\ astray' = IF Pending(f) THEN astray \cup {f} ELSE astray
      /\ fate' = fate /\ UNCHANGED <<disk, open, msgs, focused, haveJumpLines, bkpts>>
      BY DEF Edited, Stays, window
<1>5. AllSound(nodes', astray', text')
  <2> SUFFICES ASSUME NEW g \in DOMAIN nodes' \ astray' PROVE Sound(nodes'[g], text'[g])
        BY DEF AllSound
  <2>1. CASE g = f
    <3>1. f \in DOMAIN nodes \ astray /\ ~Pending(f)
          BY <1>2, <1>4, <2>1
    <3>2. nodes[f].new = NoList
          BY <3>1 DEF Pending, Has
    <3> QED BY <1>3, <2>1, <3>1, <3>2
  <2>2. CASE g # f
    <3>1. g \in DOMAIN nodes \ astray /\ g \in Files
          BY <1>1, <1>2, <1>4, NodesAre
    <3>2. Sound(nodes[g], text[g])
          BY <1>1, <3>1 DEF AllSound
    <3> QED BY <1>2, <2>2, <3>1, <3>2
  <2> QED BY <2>1, <2>2
<1>6. Texts'
  <2>1. \A g \in Files : Distinct(text'[g])
        BY DEF IInv, Texts
  <2> QED BY <1>4, <2>1 DEF IInv, Texts
<1>7. Heard'
      BY <1>2, <1>4, StillHeard DEF IInv
<1>8. Rest'
      BY <1>4 DEF IInv, Rest
<1> QED BY <1>2, <1>5, <1>6, <1>7, <1>8 DEF IInv, Followed

(* The edits, as moves.                                                    *)
LEMMA InsertMoves ==
  ASSUME IInv, NEW f \in Files, NEW k \in 0 .. Len(text[f]), insertLine(f, k),
         NEW move, move = [l \in Int |-> IF l >= k THEN l + 1 ELSE l]
  PROVE  nodes' = MovedTo(nodes, f, move)
<1>1. nodes \in Nodes
      BY DEF IInv, Followed
<1>2. CASE f \in DOMAIN nodes /\ nodes[f].special # NoList
  <2> DEFINE l == nodes[f].special
  <2>1. nodes[f] = [special |-> l, new |-> nodes[f].new] /\ l \in SpList
        BY <1>1, <1>2, NodesAre, NodeIs
  <2>2. \A i \in DOMAIN l : l[i].nline \in Int
    <3>1. \A i \in DOMAIN l : l[i] \in SpLine
          BY <2>1, ElemsOf
    <3> QED BY <3>1 DEF SpLine
  <2>3. nodes' = [nodes EXCEPT ![f] = [nodes[f] EXCEPT !.special =
                    [i \in DOMAIN l |-> [l[i] EXCEPT !.nline =
                       IF l[i].nline >= k THEN l[i].nline + 1 ELSE l[i].nline]]]]
        BY <1>2 DEF insertLine, Moved, Has
  <2>4. \A i \in DOMAIN l : move[l[i].nline] = IF l[i].nline >= k THEN l[i].nline + 1 ELSE l[i].nline
        BY <2>2
  <2>5. [i \in DOMAIN l |-> [l[i] EXCEPT !.nline = IF l[i].nline >= k THEN l[i].nline + 1 ELSE l[i].nline]]
          = [i \in DOMAIN l |-> [l[i] EXCEPT !.nline = move[l[i].nline]]]
        BY <2>4
  <2>6. \A s : [nodes[f] EXCEPT !.special = s] = [special |-> s, new |-> nodes[f].new]
        BY <2>1
  <2> HIDE DEF l
  <2>7. nodes' = [nodes EXCEPT ![f] = [special |-> [i \in DOMAIN l |->
                    [l[i] EXCEPT !.nline = move[l[i].nline]]], new |-> nodes[f].new]]
        BY <2>3, <2>5, <2>6
  <2> QED BY <1>2, <2>7 DEF MovedTo, l
<1>3. CASE ~(f \in DOMAIN nodes /\ nodes[f].special # NoList)
      BY <1>3 DEF insertLine, Moved, Has, MovedTo
<1> QED BY <1>2, <1>3

LEMMA InsertKeeps ==
  ASSUME IInv, NEW f \in Files, NEW k \in 0 .. Len(text[f]), insertLine(f, k)
  PROVE  IInv'
<1> DEFINE move == [l \in Int |-> IF l >= k THEN l + 1 ELSE l]
           T == text[f]
           p == k + 1
<1>1. /\ T \in Seq(Lines) /\ Len(T) \in Nat /\ DOMAIN T = 1 .. Len(T)
      /\ \A i, j \in 1 .. Len(T) : T[i] = T[j] => i = j
      /\ text \in [Files -> Seq(Lines)]
      BY TextIs DEF IInv, Texts
<1>2. PICK t \in Unused(f) : text' = [text EXCEPT ![f] = InsertAt(text[f], k + 1, t)]
      BY DEF insertLine
<1>3. /\ t \in Lines
      /\ \A i \in 1 .. Len(T) : T[i] # t
      /\ f \in DOMAIN nodes => \A e \in Elems(nodes[f].special) : e.what # t
  <2>1. t \in Lines /\ t \notin Range(text[f])
        BY DEF Unused
  <2>2. \A i \in 1 .. Len(T) : T[i] # t
        BY <1>1, <2>1 DEF Range
  <2>3. ASSUME f \in DOMAIN nodes, NEW e \in Elems(nodes[f].special)
        PROVE  e.what # t
    <3> DEFINE l == nodes[f].special
    <3>1. l # NoList
          BY <2>3 DEF Elems
    <3>2. t \notin {l[i].what : i \in DOMAIN l}
          BY <2>3, <3>1 DEF Unused, Has
    <3>3. PICK i \in DOMAIN l : e = l[i]
          BY <2>3, <3>1 DEF Elems
    <3> QED BY <3>2, <3>3
  <2> QED BY <2>1, <2>2, <2>3
<1>4. move \in [Int -> Int] /\ k \in Int
  <2>1. k \in Int
        BY <1>1
  <2>2. \A l \in Int : (IF l >= k THEN l + 1 ELSE l) \in Int
        OBVIOUS
  <2> QED BY <2>1, <2>2
<1>5. nodes' = MovedTo(nodes, f, move)
      BY InsertMoves
<1>6. Edited(f)
      BY DEF insertLine
<1>7. text'[f] = InsertAt(T, k + 1, t) /\ \A g \in Files \ {f} : text'[g] = text[g]
      BY <1>1, <1>2
<1>8. /\ InsertAt(T, k + 1, t) \in Seq(Lines)
      /\ Distinct(InsertAt(T, k + 1, t))
  <2> DEFINE U == InsertAt(T, p, t)
             N == Len(T)
  <2>1. p \in 1 .. N + 1
        BY <1>1
  <2> HIDE DEF p, T
  <2>2. /\ U \in Seq(Lines) /\ Len(U) = N + 1
        /\ \A i \in 1 .. N + 1 : U[i] = IF i < p THEN T[i] ELSE IF i = p THEN t ELSE T[i - 1]
    <3> HIDE DEF U, N
    <3>1. T \in Seq(Lines) /\ t \in Lines /\ p \in 1 .. Len(T) + 1
          BY <1>1, <1>3, <2>1 DEF N
    <3>2. U \in Seq(Lines) /\ Len(U) = N + 1
          BY <3>1, InsertedAt DEF U, N
    <3>3. ASSUME NEW i \in 1 .. N + 1
          PROVE  U[i] = IF i < p THEN T[i] ELSE IF i = p THEN t ELSE T[i - 1]
          BY <3>1, InsertedAt DEF U, N
    <3> QED BY <3>2, <3>3
  <2>3. DOMAIN U = 1 .. N + 1
        BY <2>2, LenProperties
  <2> HIDE DEF U, N
  <2>4. ASSUME NEW i \in 1 .. N + 1, NEW j \in 1 .. N + 1, U[i] = U[j]
        PROVE  i = j
    <3>1. \A h \in 1 .. N + 1 : (h < p => h \in 1 .. N) /\ (h > p => h - 1 \in 1 .. N)
          BY <1>1, <2>1 DEF N
    <3>2. \A h \in 1 .. N + 1 : h < p \/ h = p \/ h > p
          BY <2>1
    <3>3. i = p <=> j = p
          BY <1>3, <2>1, <2>2, <2>4, <3>1, <3>2 DEF N
    <3>4. CASE i < p /\ j < p
          BY <1>1, <2>2, <2>4, <3>1, <3>4 DEF N
    <3>5. CASE i > p /\ j > p
      <4>1. U[i] = T[i - 1] /\ U[j] = T[j - 1] /\ i - 1 \in 1 .. N /\ j - 1 \in 1 .. N
            BY <2>1, <2>2, <3>1, <3>5
      <4>2. i - 1 = j - 1
            BY <1>1, <2>4, <4>1 DEF N
      <4> QED BY <4>2
    <3>6. CASE i < p /\ j > p
      <4>1. U[i] = T[i] /\ U[j] = T[j - 1] /\ i \in 1 .. N /\ j - 1 \in 1 .. N
            BY <2>1, <2>2, <3>1, <3>6
      <4>2. i = j - 1
            BY <1>1, <2>4, <4>1 DEF N
      <4> QED BY <2>1, <3>6, <4>2
    <3>7. CASE i > p /\ j < p
      <4>1. U[j] = T[j] /\ U[i] = T[i - 1] /\ j \in 1 .. N /\ i - 1 \in 1 .. N
            BY <2>1, <2>2, <3>1, <3>7
      <4>2. j = i - 1
            BY <1>1, <2>4, <4>1 DEF N
      <4> QED BY <2>1, <3>7, <4>2
    <3> QED BY <3>2, <3>3, <3>4, <3>5, <3>6, <3>7
  <2>5. Distinct(U)
        BY <2>3, <2>4 DEF Distinct
  <2> QED BY <2>2, <2>5 DEF U, p, T
<1>9. text' \in [Files -> Seq(Lines)]
      BY <1>1, <1>2, <1>8
<1>10. ASSUME Has(nodes, f), NEW e \in Elems(nodes[f].special), Right(T, e)
       PROVE  Right(text'[f], [e EXCEPT !.nline = move[e.nline]])
  <2> DEFINE d == [e EXCEPT !.nline = move[e.nline]]
  <2>1. e \in SpLine /\ e.nline \in Int
    <3>1. nodes[f].special \in SpList \cup {NoList}
          BY <1>10, NodesAre, NodeIs DEF Has, IInv, Followed
    <3> QED BY <3>1, SpLineIs
  <2>2. d.what = e.what /\ d.nline = move[e.nline]
        BY <2>1 DEF SpLine
  <2>3. move[e.nline] = IF e.nline >= k THEN e.nline + 1 ELSE e.nline
        BY <2>1
  <2>4. e.what # t
        BY <1>3, <1>10 DEF Has
  <2> HIDE DEF d, move
  <2>5. Right(InsertAt(T, k + 1, t), d)
        BY <1>1, <1>3, <1>10, <2>1, <2>2, <2>3, <2>4, RightInserted
  <2> QED BY <1>7, <2>5 DEF d
<1> HIDE DEF move
<1> QED BY <1>4, <1>5, <1>6, <1>7, <1>8, <1>9, <1>10, EditedKeeps


LEMMA DeleteMoves ==
  ASSUME IInv, NEW f \in Files, NEW k \in 0 .. Len(text[f]) - 1, deleteLine(f, k),
         NEW move, move = [l \in Int |-> IF l > k THEN l - 1 ELSE IF l = k THEN -1 ELSE l]
  PROVE  nodes' = MovedTo(nodes, f, move)
<1>1. nodes \in Nodes
      BY DEF IInv, Followed
<1>2. CASE f \in DOMAIN nodes /\ nodes[f].special # NoList
  <2> DEFINE l == nodes[f].special
  <2>1. nodes[f] = [special |-> l, new |-> nodes[f].new] /\ l \in SpList
        BY <1>1, <1>2, NodesAre, NodeIs
  <2>2. \A i \in DOMAIN l : l[i].nline \in Int
    <3>1. \A i \in DOMAIN l : l[i] \in SpLine
          BY <2>1, ElemsOf
    <3> QED BY <3>1 DEF SpLine
  <2>3. nodes' = [nodes EXCEPT ![f] = [nodes[f] EXCEPT !.special =
                    [i \in DOMAIN l |-> [l[i] EXCEPT !.nline =
                       IF l[i].nline > k THEN l[i].nline - 1
                       ELSE IF l[i].nline = k THEN -1 ELSE l[i].nline]]]]
        BY <1>2 DEF deleteLine, Moved, Has
  <2>4. \A i \in DOMAIN l : move[l[i].nline] = IF l[i].nline > k THEN l[i].nline - 1
                                              ELSE IF l[i].nline = k THEN -1 ELSE l[i].nline
        BY <2>2
  <2>5. [i \in DOMAIN l |-> [l[i] EXCEPT !.nline =
                               IF l[i].nline > k THEN l[i].nline - 1
                               ELSE IF l[i].nline = k THEN -1 ELSE l[i].nline]]
          = [i \in DOMAIN l |-> [l[i] EXCEPT !.nline = move[l[i].nline]]]
        BY <2>4
  <2>6. \A s : [nodes[f] EXCEPT !.special = s] = [special |-> s, new |-> nodes[f].new]
        BY <2>1
  <2> HIDE DEF l
  <2>7. nodes' = [nodes EXCEPT ![f] = [special |-> [i \in DOMAIN l |->
                    [l[i] EXCEPT !.nline = move[l[i].nline]]], new |-> nodes[f].new]]
        BY <2>3, <2>5, <2>6
  <2> QED BY <1>2, <2>7 DEF MovedTo, l
<1>3. CASE ~(f \in DOMAIN nodes /\ nodes[f].special # NoList)
      BY <1>3 DEF deleteLine, Moved, Has, MovedTo
<1> QED BY <1>2, <1>3

LEMMA DeleteLineOfTextKeeps ==
  ASSUME IInv, NEW f \in Files, NEW k \in 0 .. Len(text[f]) - 1, deleteLine(f, k)
  PROVE  IInv'
<1> DEFINE move == [l \in Int |-> IF l > k THEN l - 1 ELSE IF l = k THEN -1 ELSE l]
           T == text[f]
           p == k + 1
<1>1. /\ T \in Seq(Lines) /\ Len(T) \in Nat /\ DOMAIN T = 1 .. Len(T)
      /\ \A i, j \in 1 .. Len(T) : T[i] = T[j] => i = j
      /\ text \in [Files -> Seq(Lines)]
      BY TextIs DEF IInv, Texts
<1>2. text' = [text EXCEPT ![f] = RemoveAt(T, k + 1)]
      BY DEF deleteLine
<1>3. move \in [Int -> Int] /\ k \in Int
  <2>1. k \in Int
        BY <1>1
  <2>2. \A l \in Int : (IF l > k THEN l - 1 ELSE IF l = k THEN -1 ELSE l) \in Int
        BY <2>1
  <2> QED BY <2>1, <2>2
<1>4. nodes' = MovedTo(nodes, f, move)
      BY DeleteMoves
<1>5. Edited(f)
      BY DEF deleteLine
<1>6. text'[f] = RemoveAt(T, k + 1) /\ \A g \in Files \ {f} : text'[g] = text[g]
      BY <1>1, <1>2
<1>7. /\ RemoveAt(T, k + 1) \in Seq(Lines)
      /\ Distinct(RemoveAt(T, k + 1))
  <2> DEFINE U == RemoveAt(T, p)
             N == Len(T)
             M == N - 1
  <2>1. p \in 1 .. N /\ N \in Nat
        BY <1>1
  <2> HIDE DEF p, T
  <2>2. /\ U \in Seq(Lines) /\ Len(U) = N - 1
        /\ \A i \in 1 .. N - 1 : U[i] = IF i < p THEN T[i] ELSE T[i + 1]
    <3>1. T \in Seq(Lines)
          BY <1>1
    <3> QED BY <2>1, <3>1, RemovedAt
  <2>3. DOMAIN U = 1 .. M
        BY <2>2, LenProperties
  <2> HIDE DEF U, N
  <2>4. ASSUME NEW i \in 1 .. M, NEW j \in 1 .. M, U[i] = U[j]
        PROVE  i = j
    <3> DEFINE a == IF i < p THEN i ELSE i + 1
               b == IF j < p THEN j ELSE j + 1
    <3>1. a \in 1 .. N /\ b \in 1 .. N /\ (a = b => i = j)
          BY <2>1
    <3>2. U[i] = T[a] /\ U[j] = T[b]
          BY <2>2
    <3> HIDE DEF a, b
    <3> QED BY <1>1, <2>4, <3>1, <3>2 DEF N
  <2>5. Distinct(U)
        BY <2>3, <2>4 DEF Distinct
  <2> QED BY <2>2, <2>5 DEF U, p, T
<1>8. text' \in [Files -> Seq(Lines)]
      BY <1>1, <1>2, <1>7
<1>9. ASSUME Has(nodes, f), NEW e \in Elems(nodes[f].special), Right(T, e)
      PROVE  Right(text'[f], [e EXCEPT !.nline = move[e.nline]])
  <2> DEFINE d == [e EXCEPT !.nline = move[e.nline]]
  <2>1. e \in SpLine /\ e.nline \in Int
    <3>1. nodes[f].special \in SpList \cup {NoList}
          BY <1>9, NodesAre, NodeIs DEF Has, IInv, Followed
    <3> QED BY <3>1, SpLineIs
  <2>2. d.what = e.what /\ d.nline = move[e.nline]
        BY <2>1 DEF SpLine
  <2>3. move[e.nline] = IF e.nline > k THEN e.nline - 1 ELSE IF e.nline = k THEN -1 ELSE e.nline
        BY <2>1
  <2> HIDE DEF d, move
  <2>4. Right(RemoveAt(T, k + 1), d)
        BY <1>1, <1>9, <2>1, <2>2, <2>3, RightDeleted
  <2> QED BY <1>6, <2>4 DEF d
<1> HIDE DEF move
<1> QED BY <1>3, <1>4, <1>5, <1>6, <1>7, <1>8, <1>9, EditedKeeps

(* A file that is saved, closed or opened.                                 *)
LEMMA SaveKeeps ==
  ASSUME IInv, NEW f \in Files, saveFile(f)
  PROVE  IInv'
<1>1. /\ disk' = [disk EXCEPT ![f] = text[f]] /\ fate' = fate
      /\ UNCHANGED <<text, open, nodes, msgs, focused, haveJumpLines, bkpts, astray>>
      BY DEF saveFile, Stays, window
<1>2. Texts'
  <2>1. disk' \in [Files -> Seq(Lines)] /\ \A g \in Files : disk'[g] = IF g = f THEN text[f] ELSE disk[g]
        BY <1>1 DEF IInv, Texts
  <2> QED BY <1>1, <2>1 DEF IInv, Texts
<1>3. Heard'
      BY <1>1, StillHeard DEF IInv
<1> QED BY <1>1, <1>2, <1>3 DEF IInv, Followed, Rest

LEMMA CloseKeeps ==
  ASSUME IInv, NEW f \in Files, NEW discard, closeFile(f, discard)
  PROVE  IInv'
<1>1. /\ open' = open \ {f}
      /\ text' = IF discard THEN [text EXCEPT ![f] = disk[f]] ELSE text
      /\ disk' = IF discard THEN disk ELSE [disk EXCEPT ![f] = text[f]]
      /\ astray' = IF discard /\ text[f] # disk[f] THEN astray \cup {f} ELSE astray
      /\ fate' = fate
      /\ UNCHANGED <<nodes, msgs, focused, haveJumpLines, bkpts>>
      BY DEF closeFile, Stays, window
<1>2. Texts'
  <2>1. /\ text \in [Files -> Seq(Lines)] /\ disk \in [Files -> Seq(Lines)]
        /\ \A g \in Files : Distinct(text[g]) /\ Distinct(disk[g])
        BY DEF IInv, Texts
  <2>2. /\ text' \in [Files -> Seq(Lines)]
        /\ \A g \in Files : text'[g] = text[g] \/ text'[g] = disk[g]
        BY <1>1, <2>1
  <2>3. /\ disk' \in [Files -> Seq(Lines)]
        /\ \A g \in Files : disk'[g] = text[g] \/ disk'[g] = disk[g]
        BY <1>1, <2>1
  <2>4. \A g \in Files : Distinct(text'[g]) /\ Distinct(disk'[g])
        BY <2>1, <2>2, <2>3
  <2> QED BY <1>1, <2>2, <2>3, <2>4 DEF IInv, Texts
<1>3. AllSound(nodes', astray', text')
  <2> SUFFICES ASSUME NEW g \in DOMAIN nodes \ astray' PROVE Sound(nodes[g], text'[g])
        BY <1>1 DEF AllSound
  <2>1. g \in Files /\ g \notin astray
        BY <1>1, NodesAre DEF IInv, Followed
  <2>2. text'[g] = text[g]
        BY <1>1, <2>1 DEF IInv, Texts
  <2> QED BY <2>1, <2>2 DEF IInv, Followed, AllSound
<1>4. Heard'
      BY <1>1, StillHeard DEF IInv
<1> QED BY <1>1, <1>2, <1>3, <1>4 DEF IInv, Followed, Rest

(* A window that opens, and a message that is gone to: what is known of    *)
(* the files stays.                                                        *)
LEMMA OpenKeeps ==
  ASSUME IInv, NEW f \in Files, open' = open \/ open' = open \cup {f},
         UNCHANGED <<text, disk, nodes, msgs, haveJumpLines, bkpts, astray>>,
         focused' \in Nat \ {0}, fate' \in {"runs", "hangs", "crashes"}
  PROVE  IInv'
<1>1. Heard'
      BY StillHeard DEF IInv
<1>2. Texts'
      BY DEF IInv, Texts
<1> QED BY <1>1, <1>2 DEF IInv, Followed, Rest

(* A message that comes.                                                   *)
LEMMA HeardOneMore ==
  ASSUME Heard, NEW m \in Message, msgs' = Append(msgs, m),
         \A d : d.file \in Files /\ Known(nodes, d) => Known(nodes', d),
         m.line >= 0 => Known(nodes', m)
  PROVE  Heard' /\ Len(msgs') \in Nat \ {0}
<1> DEFINE N == Len(msgs)
<1>1. msgs \in Seq(Message) /\ DOMAIN msgs = 1 .. N /\ N \in Nat
      BY MessagesAre DEF Heard
<1>2. /\ msgs' \in Seq(Message) /\ Len(msgs') = N + 1
      /\ \A i \in 1 .. N + 1 : msgs'[i] = IF i = N + 1 THEN m ELSE msgs[i]
      BY <1>1
<1>3. DOMAIN msgs' = 1 .. N + 1
      BY <1>2, MessagesAre
<1>4. ASSUME NEW i \in Jumps' PROVE Known(nodes, msgs[i])' 
  <2>1. i \in 1 .. N + 1 /\ msgs'[i].line >= 0
        BY <1>3 DEF Jumps
  <2>2. CASE i = N + 1
    <3>1. msgs'[i] = m
          BY <1>2, <2>1, <2>2
    <3> QED BY <2>1, <3>1
  <2>3. CASE i # N + 1
    <3>1. i \in 1 .. N /\ msgs'[i] = msgs[i]
          BY <1>1, <1>2, <2>1, <2>3
    <3>2. i \in Jumps /\ msgs[i].file \in Files
          BY <1>1, <2>1, <3>1, MessagesAre DEF Jumps
    <3>3. Known(nodes, msgs[i])
          BY <3>2 DEF Heard
    <3>4. Known(nodes', msgs[i])
          BY <3>2, <3>3
    <3> QED BY <3>1, <3>4
  <2> QED BY <2>2, <2>3
<1>5. Len(msgs') \in Nat \ {0}
      BY <1>1, <1>2
<1> QED BY <1>2, <1>4, <1>5 DEF Heard


(* The message window. *)
LEMMA InitMessagesKeeps ==
  ASSUME IInv, EdMessageWindowInit
  PROVE  IInv'
<1>1. /\ nodes' = DeleteForId(nodes, Error)
      /\ msgs' = <<>> /\ focused' = 1 /\ haveJumpLines' = 0 /\ fate' = fate
      /\ UNCHANGED <<text, disk, open, bkpts, astray>>
      BY DEF EdMessageWindowInit, Stays, texts
<1>2. nodes \in Nodes /\ AllSound(nodes, astray, text)
      BY DEF IInv, Followed
<1>3. /\ nodes' \in Nodes
      /\ DOMAIN nodes' \subseteq DOMAIN nodes
      /\ \A g \in DOMAIN nodes' : \A T : Sound(nodes[g], T) => Sound(nodes'[g], T)
      BY <1>1, <1>2, Deletes
<1>4. Followed'
      BY <1>1, <1>2, <1>3 DEF Followed, AllSound
<1>5. Heard'
  <2>1. msgs' \in Seq(Message) /\ DOMAIN msgs' = {}
        BY <1>1
  <2> QED BY <2>1 DEF Heard, Jumps
<1>6. Texts'
      BY <1>1 DEF IInv, Texts
<1>7. Rest'
      BY <1>1 DEF IInv, Rest
<1> QED BY <1>4, <1>5, <1>6, <1>7 DEF IInv

(* What an error is about: the line of the text with its number.           *)
LEMMA MeantIs ==
  ASSUME IInv, NEW f \in Files, NEW line \in 0 .. Len(disk[f]) - 1
  PROVE  /\ line \in Nat /\ line \in Int
         /\ Meant(f, line) \in Lines \cup {Unknown}
         /\ \/ Meant(f, line) = Unknown
            \/ line + 1 \in DOMAIN text[f] /\ text[f][line + 1] = Meant(f, line)
<1>1. line \in Nat /\ line \in Int
      BY TextIs DEF IInv
<1>2. CASE text[f] = disk[f] /\ line < Len(text[f])
  <2>1. Meant(f, line) = text[f][line + 1]
        BY <1>2 DEF Meant
  <2>2. line + 1 \in 1 .. Len(text[f]) /\ DOMAIN text[f] = 1 .. Len(text[f])
        BY <1>1, <1>2, TextIs DEF IInv
  <2>3. text[f][line + 1] \in Lines
        BY <2>2, TextIs DEF IInv
  <2> QED BY <1>1, <2>1, <2>2, <2>3
<1>3. CASE ~(text[f] = disk[f] /\ line < Len(text[f]))
  <2>1. Meant(f, line) = Unknown
        BY <1>3 DEF Meant
  <2> QED BY <1>1, <2>1
<1> QED BY <1>2, <1>3

LEMMA ShowFileKeeps ==
  ASSUME IInv, NEW f \in Files, NEW line \in 0 .. Len(disk[f]) - 1, NEW now,
         EdShowMessageFile(f, line, now)
  PROVE  IInv'
<1> DEFINE what == Meant(f, line)
           m == [file |-> f, line |-> line, what |-> what]
           e == [oline |-> line, nline |-> line, id |-> Error, what |-> what]
<1>1. line \in Int /\ line >= 0 /\ line \in Nat
      BY MeantIs
<1>2. /\ msgs' = Append(msgs, m)
      /\ nodes' = SpLinesAdd(nodes, f, line, Error, what, now)
      /\ haveJumpLines' = haveJumpLines + 1 /\ focused' \in {focused, Len(msgs')}
      /\ fate' = fate
      /\ UNCHANGED <<text, disk, open, bkpts, astray>>
      BY DEF EdShowMessageFile, Stays, texts
<1>3. /\ what \in Lines \cup {Unknown}
      /\ \/ what = Unknown
         \/ line + 1 \in DOMAIN text[f] /\ text[f][line + 1] = what
      BY MeantIs
<1> HIDE DEF what
<1>4. nodes \in Nodes /\ AllSound(nodes, astray, text)
      BY DEF IInv, Followed
<1>5. Keeps(nodes, nodes', astray, text)
      BY <1>1, <1>2, <1>3, <1>4, AddKeeps
<1>6. Known(nodes', m)
  <2>1. Added(nodes, nodes', f, e)
        BY <1>1, <1>2, <1>3, <1>4, Adds
  <2>2. e \in Elems(ToModify(nodes', f)) /\ e.id = Error /\ e.oline = line /\ e.what = what
        BY <2>1 DEF Added
  <2>3. m.file = f /\ m.line = line /\ m.what = what
        OBVIOUS
  <2> HIDE DEF e, m
  <2> QED BY <2>2, <2>3 DEF Known
<1>7. m \in Message
      BY <1>1, <1>3 DEF Message
<1> HIDE DEF m
<1>8. Heard' /\ Len(msgs') \in Nat \ {0}
      BY <1>2, <1>5, <1>6, <1>7, HeardOneMore DEF Keeps, IInv
<1>9. Followed'
      BY <1>2, <1>4, <1>5 DEF Followed, Keeps
<1>10. Texts'
       BY <1>2 DEF IInv, Texts
<1>11. Rest'
       BY <1>2, <1>8 DEF IInv, Rest
<1> QED BY <1>8, <1>9, <1>10, <1>11 DEF IInv

LEMMA ShowKeeps ==
  ASSUME IInv, EdShowMessage
  PROVE  IInv'
<1>1. PICK f \in Files : msgs' = Append(msgs, [file |-> f, line |-> -1, what |-> Unknown])
      BY DEF EdShowMessage
<1>2. /\ focused' \in {focused, Len(msgs')} /\ fate' = fate
      /\ UNCHANGED <<text, disk, open, nodes, haveJumpLines, bkpts, astray>>
      BY DEF EdShowMessage, Stays, texts
<1> DEFINE m == [file |-> f, line |-> -1, what |-> Unknown]
<1>3. m \in Message /\ ~(m.line >= 0)
      BY DEF Message
<1> HIDE DEF m
<1>4. Heard' /\ Len(msgs') \in Nat \ {0}
  <2>1. msgs' = Append(msgs, m)
        BY <1>1 DEF m
  <2> QED BY <1>2, <1>3, <2>1, HeardOneMore DEF IInv
<1>5. Texts' /\ Followed'
      BY <1>2 DEF IInv, Texts, Followed
<1>6. Rest'
      BY <1>2, <1>4 DEF IInv, Rest
<1> QED BY <1>4, <1>5, <1>6 DEF IInv

LEMMA UpdateAllKeeps ==
  ASSUME IInv, SpLinesUpdate
  PROVE  IInv'
<1>1. /\ nodes' = SpLinesUpdated(nodes) /\ fate' = fate
      /\ UNCHANGED <<text, disk, open, msgs, focused, haveJumpLines, bkpts, astray>>
      BY DEF SpLinesUpdate, Stays, texts, window
<1>2. Keeps(nodes, nodes', astray, text)
      BY <1>1, UpdateKeeps DEF IInv, Followed
<1>3. Followed' /\ Texts' /\ Rest'
      BY <1>1, <1>2 DEF IInv, Followed, Texts, Rest, Keeps
<1>4. Heard'
      BY <1>1, <1>2, StillHeard DEF IInv, Keeps
<1> QED BY <1>3, <1>4 DEF IInv

LEMMA DeleteMessageKeeps ==
  ASSUME IInv, deleteMessage
  PROVE  IInv'
<1> DEFINE N == Len(msgs)
           M == N - 1
<1>1. /\ focused \in DOMAIN msgs
      /\ msgs' = RemoveAt(msgs, focused)
      /\ focused' = Max({1, Min({focused, N - 1})})
      /\ fate' = fate
      /\ UNCHANGED <<text, disk, open, nodes, haveJumpLines, bkpts, astray>>
      BY DEF deleteMessage, Stays, texts
<1>2. msgs \in Seq(Message) /\ DOMAIN msgs = 1 .. N /\ N \in Nat
      BY MessagesAre DEF IInv, Heard
<1>3. /\ msgs' \in Seq(Message) /\ Len(msgs') = N - 1
      /\ \A k \in 1 .. N - 1 : msgs'[k] = IF k < focused THEN msgs[k] ELSE msgs[k + 1]
  <2>1. msgs \in Seq(Message) /\ focused \in 1 .. Len(msgs) /\ msgs' = RemoveAt(msgs, focused)
        BY <1>1, <1>2
  <2>2. msgs' \in Seq(Message) /\ Len(msgs') = N - 1
        BY <2>1, RemovedAt
  <2>3. ASSUME NEW k \in 1 .. N - 1
        PROVE  msgs'[k] = IF k < focused THEN msgs[k] ELSE msgs[k + 1]
        BY <2>1, RemovedAt
  <2> QED BY <2>2, <2>3
<1>4. DOMAIN msgs' = 1 .. M
      BY <1>3, MessagesAre
<1>5. focused \in 1 .. N
      BY <1>1, <1>2
<1> HIDE DEF N
<1>6. Heard'
  <2>1. ASSUME NEW i \in Jumps' PROVE Known(nodes, msgs[i])'
    <3> DEFINE j == IF i < focused THEN i ELSE i + 1
    <3>1. i \in 1 .. M /\ msgs'[i].line >= 0
          BY <1>4 DEF Jumps
    <3>2. j \in 1 .. N
          BY <1>2, <1>5, <3>1
    <3>3. msgs'[i] = msgs[j]
          BY <1>3, <3>1
    <3> HIDE DEF j
    <3>4. j \in Jumps
          BY <1>2, <3>1, <3>2, <3>3 DEF Jumps
    <3>5. Known(nodes, msgs[j])
          BY <3>4 DEF IInv, Heard
    <3>6. Known(nodes', msgs[j])
          BY <1>1, <3>5
    <3> QED BY <3>3, <3>6
  <2> QED BY <1>3, <2>1 DEF Heard
<1>7. focused' \in Nat \ {0}
  <2> DEFINE a == Min({focused, M})
  <2>1. {focused, M} \subseteq Nat /\ {focused, M} # {} /\ {focused, M} \subseteq 0 .. N
        BY <1>2, <1>5
  <2>2. a \in {focused, M}
        BY <2>1, MinIsLeast
  <2>3. a \in 0 .. N /\ 1 \in 0 .. N
        BY <1>2, <1>5, <2>1, <2>2
  <2>4. focused' = Max({1, a})
        BY <1>1
  <2> HIDE DEF a
  <2>5. {1, a} \subseteq 0 .. N /\ {1, a} # {}
        BY <2>3
  <2>6. Max({1, a}) \in {1, a} /\ \A y \in {1, a} : y <= Max({1, a})
        BY <1>2, <2>5, MaxIsGreatest
  <2>7. Max({1, a}) \in 0 .. N /\ 1 <= Max({1, a})
        BY <2>5, <2>6
  <2> QED BY <2>4, <2>7
<1>8. Followed' /\ Texts'
      BY <1>1 DEF IInv, Followed, Texts
<1>9. Rest'
      BY <1>1, <1>7 DEF IInv, Rest
<1> QED BY <1>6, <1>8, <1>9 DEF IInv

LEMMA SelectItemKeeps ==
  ASSUME IInv, NEW i \in Jumps, selectItem(i)
  PROVE  IInv'
<1>1. i \in 1 .. Len(msgs) /\ Len(msgs) \in Nat /\ msgs[i].file \in Files
      BY MessagesAre DEF Jumps, IInv, Heard
<1>2. /\ focused' = i
      /\ open' = open \/ open' = open \cup {msgs[i].file}
      /\ UNCHANGED <<text, disk, nodes, msgs, haveJumpLines, bkpts, astray, fate>>
      BY DEF selectItem
<1>3. focused' \in Nat \ {0} /\ fate' \in {"runs", "hangs", "crashes"}
      BY <1>1, <1>2 DEF IInv, Rest
<1> QED BY <1>1, <1>2, <1>3, OpenKeeps

(* Whatever message of those with a line selectNext() ends on.             *)
LEMMA SelectKeeps ==
  ASSUME IInv, NEW one, Jumps # {} => one \in Jumps, select(one)
  PROVE  IInv'
<1>1. CASE Jumps # {} /\ selectItem(one)
      BY <1>1, SelectItemKeeps
<1>2. CASE Jumps = {} /\ fate' = "hangs" /\ UNCHANGED <<texts, nodes, window, bkpts, astray>>
  <2>1. UNCHANGED <<text, disk, open, nodes, msgs, focused, haveJumpLines, bkpts, astray>>
        BY <1>2 DEF texts, window
  <2>2. Heard'
        BY <2>1, StillHeard DEF IInv
  <2> QED BY <1>2, <2>1, <2>2 DEF IInv, Texts, Followed, Rest
<1> QED BY <1>1, <1>2 DEF select

LEMMA OneOfJumps ==
  ASSUME IInv, NEW T, T \subseteq Jumps, T # {}
  PROVE  Min(T) \in T /\ Max(T) \in T
<1>1. Len(msgs) \in Nat /\ T \subseteq 0 .. Len(msgs)
      BY MessagesAre DEF Jumps, IInv, Heard
<1>2. T \subseteq Nat
      BY <1>1
<1> QED BY <1>1, <1>2, MinIsLeast, MaxIsGreatest

LEMMA NextIsJump ==
  ASSUME IInv, Jumps # {}
  PROVE  NextOne \in Jumps /\ PrevOne \in Jumps
<1>1. \A i \in Jumps : i \in Int
  <2>1. \A i \in Jumps : i \in 1 .. Len(msgs)
        BY MessagesAre DEF Jumps, IInv, Heard
  <2> QED BY <2>1
<1>2. focused \in Int
      BY DEF IInv, Rest
<1>3. NextOne \in Jumps
  <2> DEFINE behind == {i \in Jumps : i > focused}
             rest == {i \in Jumps : i <= focused}
  <2>1. behind = {} => rest = Jumps
        BY <1>1, <1>2
  <2>2. NextOne = IF behind # {} THEN Min(behind)
                  ELSE IF opsEnd = "wrap" THEN Min(Jumps) ELSE Max(rest)
        BY DEF NextOne
  <2>3. behind \subseteq Jumps /\ rest \subseteq Jumps
        OBVIOUS
  <2> HIDE DEF behind, rest
  <2>4. behind # {} => Min(behind) \in behind
        BY <2>3, OneOfJumps
  <2>5. Min(Jumps) \in Jumps /\ Max(Jumps) \in Jumps
        BY OneOfJumps
  <2> QED BY <2>1, <2>2, <2>3, <2>4, <2>5
<1>4. PrevOne \in Jumps
  <2> DEFINE before == {i \in Jumps : i < focused}
             rest == {i \in Jumps : i >= focused}
  <2>1. before = {} => rest = Jumps
        BY <1>1, <1>2
  <2>2. PrevOne = IF before # {} THEN Max(before)
                  ELSE IF opsEnd = "wrap" THEN Max(Jumps) ELSE Min(rest)
        BY DEF PrevOne
  <2>3. before \subseteq Jumps /\ rest \subseteq Jumps
        OBVIOUS
  <2> HIDE DEF before, rest
  <2>4. before # {} => Max(before) \in before
        BY <2>3, OneOfJumps
  <2>5. Min(Jumps) \in Jumps /\ Max(Jumps) \in Jumps
        BY OneOfJumps
  <2> QED BY <2>1, <2>2, <2>3, <2>4, <2>5
<1> QED BY <1>3, <1>4

LEMMA JumpToFirstKeeps ==
  ASSUME IInv, EdJumpToFirstError
  PROVE  IInv'
<1> DEFINE one == IF Jumps \ {1} = {} THEN 1 ELSE Min(Jumps \ {1})
<1>1. CASE select(one)
  <2>1. Jumps # {} => one \in Jumps
    <3>1. Jumps \ {1} # {} => Min(Jumps \ {1}) \in Jumps \ {1}
          BY OneOfJumps
    <3>2. Jumps # {} /\ Jumps \ {1} = {} => 1 \in Jumps
          OBVIOUS
    <3> QED BY <3>1, <3>2
  <2> HIDE DEF one
  <2> QED BY <1>1, <2>1, SelectKeeps
<1>2. CASE /\ haveJumpLines = 0 /\ msgs # <<>> /\ focused' = 1
           /\ Stays /\ UNCHANGED <<texts, nodes, msgs, haveJumpLines, bkpts, astray>>
  <2>1. UNCHANGED <<text, disk, open, nodes, msgs, haveJumpLines, bkpts, astray>>
        BY <1>2 DEF texts
  <2>2. Heard'
        BY <2>1, StillHeard DEF IInv
  <2> QED BY <1>2, <2>1, <2>2 DEF IInv, Texts, Followed, Rest, Stays
<1> QED BY <1>1, <1>2 DEF EdJumpToFirstError


(* The breakpoints. *)
LEMMA BreakpointsKeep ==
  ASSUME IInv, Keeps(nodes, nodes', astray', text),
         astray \subseteq astray', astray' \subseteq Files,
         UNCHANGED <<text, disk, open, msgs, focused, haveJumpLines>>,
         bkpts' \in Seq(Breakpoint), fate' \in {"runs", "hangs", "crashes"}
  PROVE  IInv'
<1>1. AllSound(nodes, astray', text)
      BY DEF IInv, Followed, AllSound
<1>2. Followed'
      BY <1>1 DEF Followed, Keeps
<1>3. Heard'
      BY StillHeard DEF IInv, Keeps
<1>4. Texts'
      BY DEF IInv, Texts
<1>5. Rest'
      BY DEF IInv, Rest
<1> QED BY <1>2, <1>3, <1>4, <1>5 DEF IInv

LEMMA StateIs ==
  ASSUME IInv
  PROVE  /\ nodes \in Nodes /\ bkpts \in Seq(Breakpoint) /\ bkpts \in Breakpoints(Len(bkpts))
         /\ Len(bkpts) \in Nat /\ DOMAIN bkpts = 1 .. Len(bkpts)
         /\ \A i \in 1 .. Len(bkpts) : bkpts[i] \in Breakpoint /\ bkpts[i].file \in Files
         /\ fate \in {"runs", "hangs", "crashes"} /\ astray \subseteq Files
<1>1. /\ nodes \in Nodes /\ bkpts \in Seq(Breakpoint)
      /\ fate \in {"runs", "hangs", "crashes"} /\ astray \subseteq Files
      BY DEF IInv, Followed, Rest
<1>2. bkpts \in Breakpoints(Len(bkpts))
      BY <1>1 DEF Breakpoints
<1> QED BY <1>1, <1>2, BreakpointsAre, BreakpointIs

LEMMA SameKeeps ==
  ASSUME NEW n \in Nodes, NEW stray, NEW T
  PROVE  Keeps(n, n, stray, T)
BY DEF Keeps

LEMMA TextLine ==
  ASSUME IInv, NEW f \in Files, NEW k \in 0 .. Len(text[f]) - 1
  PROVE  /\ k \in Int /\ k + 1 \in DOMAIN text[f]
         /\ text[f][k + 1] \in Lines /\ text[f][k + 1] \in Lines \cup {Unknown}
<1>1. k \in Int /\ k + 1 \in 1 .. Len(text[f])
      BY TextIs DEF IInv
<1> QED BY <1>1, TextIs DEF IInv

LEMMA ToggleKeeps ==
  ASSUME IInv, NEW f \in Files, NEW k \in 0 .. Len(text[f]) - 1, DebugToggleBreakpoint(f, k)
  PROVE  IInv'
<1> DEFINE on == On(nodes, f, Break, k)
           ol == nodes[f].special[Min(on)].oline
           first == Min(SearchBkpt(bkpts, f, ol))
           what == text[f][k + 1]
<1>1. /\ UNCHANGED <<text, disk, open, msgs, focused, haveJumpLines, astray>>
      BY DEF DebugToggleBreakpoint, texts, window
<1>2. CASE fate' = "crashes" /\ UNCHANGED <<nodes, bkpts>>
  <2>1. Keeps(nodes, nodes', astray', text)
        BY <1>2, StateIs, SameKeeps
  <2> QED BY <1>1, <1>2, <2>1, StateIs, BreakpointsKeep
<1>3. CASE /\ bkpts' = Append(bkpts, Bkpt(f, k, what))
           /\ nodes' = SpLinesAdd(nodes, f, k, Break, what, TRUE)
           /\ Stays
  <2>1. what \in Lines \cup {Unknown} /\ k \in Int /\ k + 1 \in DOMAIN text[f]
        BY TextLine
  <2>2. Keeps(nodes, nodes', astray', text)
        BY <1>3, <2>1, StateIs, AddKeeps
  <2>3. Bkpt(f, k, what) \in Breakpoint
    <3> HIDE DEF what
    <3> QED BY <2>1, BreakpointOf DEF Bkpt
  <2>4. bkpts' \in Seq(Breakpoint)
        BY <1>3, <2>3, StateIs
  <2> QED BY <1>1, <1>3, <2>2, <2>4, StateIs, BreakpointsKeep DEF Stays
<1>4. CASE /\ SearchBkpt(bkpts, f, ol) # {}
           /\ bkpts' = RemoveAt(bkpts, first)
           /\ nodes' = DeleteLineForId(nodes, Break, f, ol)
           /\ Stays
  <2> HIDE DEF ol
  <2>1. SearchBkpt(bkpts, f, ol) \subseteq 1 .. Len(bkpts) /\ SearchBkpt(bkpts, f, ol) \subseteq Nat
        BY StateIs DEF SearchBkpt
  <2>2. first \in SearchBkpt(bkpts, f, ol)
        BY <1>4, <2>1, MinIsLeast
  <2>3. first \in 1 .. Len(bkpts)
        BY <2>1, <2>2
  <2> HIDE DEF first
  <2>4. bkpts' \in Seq(Breakpoint)
        BY <1>4, <2>3, StateIs, RemovedAt
  <2>5. Keeps(nodes, nodes', astray', text)
        BY <1>4, StateIs, DeleteLineKeeps
  <2> QED BY <1>1, <1>4, <2>4, <2>5, StateIs, BreakpointsKeep DEF Stays
<1> QED BY <1>2, <1>3, <1>4 DEF DebugToggleBreakpoint

LEMMA FromGDBKeeps ==
  ASSUME NEW n \in Nodes, NEW b \in Breakpoint, NEW stray, NEW T
  PROVE  Keeps(n, DeleteFromGDBandSpLines(n, b), stray, T)
<1>1. b.file \in Files
      BY BreakpointIs
<1>2. CASE b.enabled
  <2>1. DeleteFromGDBandSpLines(n, b) = DeleteLineForId(n, Break, b.file, b.line)
        BY <1>2 DEF DeleteFromGDBandSpLines
  <2> QED BY <1>1, <2>1, DeleteLineKeeps
<1>3. CASE ~b.enabled
  <2>1. DeleteFromGDBandSpLines(n, b) = n
        BY <1>3 DEF DeleteFromGDBandSpLines
  <2> QED BY <2>1, SameKeeps
<1> QED BY <1>2, <1>3

LEMMA ApplyBktKeeps ==
  ASSUME IInv, NEW B \in Breakpoints(Len(bkpts)), NEW n, Keeps(nodes, n, astray, text),
         NEW i \in 1 .. Len(bkpts), NEW b \in Breakpoint, NEW gdb,
         ApplyBkt(B, n, i, b, gdb), fate' = fate
  PROVE  IInv'
<1> DEFINE drawn == IF gdb = "accepts" THEN b ELSE B[i]
<1>1. /\ bkpts' = [B EXCEPT ![i] = drawn]
      /\ nodes' = IF drawn.enabled /\ gdb # "refuses"
                  THEN SpLinesAdd(n, drawn.file, drawn.line, Break, drawn.what, TRUE) ELSE n
      /\ astray' = IF drawn.enabled /\ ~(OnItsLine(drawn) /\ gdb # "refuses")
                   THEN astray \cup {drawn.file} ELSE astray
      /\ UNCHANGED <<text, disk, open, msgs, focused, haveJumpLines>>
      BY DEF ApplyBkt, texts, window
<1>2. drawn \in Breakpoint
      BY BreakpointsAre
<1> HIDE DEF drawn
<1>3. drawn.file \in Files /\ drawn.line \in Int /\ drawn.what \in Lines \cup {Unknown}
      BY <1>2, BreakpointIs
<1>4. bkpts' \in Seq(Breakpoint)
  <2>1. [B EXCEPT ![i] = drawn] \in Breakpoints(Len(bkpts))
        BY <1>2, BreakpointsAre
  <2> QED BY <1>1, <2>1, BreakpointsAre
<1>5. n \in Nodes
      BY DEF Keeps
<1>6. astray \subseteq astray' /\ astray' \subseteq Files
      BY <1>1, <1>3, StateIs
<1>7. Keeps(nodes, n, astray', text)
      (* The files that are astray now need not be sound. *)
  <2>1. AllSound(nodes, astray, text)
        BY DEF IInv, Followed
  <2>2. AllSound(n, astray, text)
        BY <2>1 DEF Keeps
  <2>3. AllSound(n, astray', text)
        BY <1>6, <2>2 DEF AllSound
  <2> QED BY <2>3 DEF Keeps
<1>8. Keeps(n, nodes', astray', text)
  <2>1. CASE drawn.enabled /\ gdb # "refuses"
    <3>1. nodes' = SpLinesAdd(n, drawn.file, drawn.line, Break, drawn.what, TRUE)
          BY <1>1, <2>1
    <3>2. \/ drawn.file \in astray'
          \/ drawn.line + 1 \in DOMAIN text[drawn.file]
             /\ text[drawn.file][drawn.line + 1] = drawn.what
          BY <1>1, <2>1 DEF OnItsLine
    <3> QED BY <1>3, <1>5, <3>1, <3>2, AddKeeps
  <2>2. CASE ~(drawn.enabled /\ gdb # "refuses")
    <3>1. nodes' = n
          BY <1>1, <2>2
    <3> QED BY <1>5, <3>1, SameKeeps
  <2> QED BY <2>1, <2>2
<1>9. Keeps(nodes, nodes', astray', text)
      BY <1>7, <1>8, KeepsOn
<1> QED BY <1>1, <1>4, <1>6, <1>9, StateIs, BreakpointsKeep


LEMMA EnabledAs ==
  ASSUME IInv, NEW i \in 1 .. Len(bkpts), NEW on \in BOOLEAN,
         NEW B, B = [bkpts EXCEPT ![i].enabled = on]
  PROVE  B \in Breakpoints(Len(bkpts)) /\ B \in Seq(Breakpoint) /\ B[i] \in Breakpoint
<1> DEFINE b == [bkpts[i] EXCEPT !.enabled = on]
<1>1. b \in Breakpoint
      BY StateIs, BreakpointIs
<1>2. B = [bkpts EXCEPT ![i] = b]
      OBVIOUS
<1> HIDE DEF b
<1>3. [bkpts EXCEPT ![i] = b] \in Breakpoints(Len(bkpts))
      BY <1>1, StateIs, BreakpointsAre
<1>4. B \in Breakpoints(Len(bkpts))
      BY <1>2, <1>3, Zenon
<1> QED BY <1>4, BreakpointsAre

LEMMA DisableKeeps ==
  ASSUME IInv, NEW i \in 1 .. Len(bkpts), Disable(i)
  PROVE  IInv'
<1>1. /\ bkpts' = [bkpts EXCEPT ![i].enabled = FALSE]
      /\ nodes' = DeleteFromGDBandSpLines(nodes, bkpts[i]) /\ fate' = fate
      /\ UNCHANGED <<text, disk, open, msgs, focused, haveJumpLines, astray>>
      BY DEF Disable, Stays, texts, window
<1>2. bkpts' \in Seq(Breakpoint)
      BY <1>1, EnabledAs
<1>3. Keeps(nodes, nodes', astray', text)
      BY <1>1, StateIs, FromGDBKeeps
<1> QED BY <1>1, <1>2, <1>3, StateIs, BreakpointsKeep

LEMMA EnableKeeps ==
  ASSUME IInv, NEW i \in 1 .. Len(bkpts), NEW gdb, Enable(i, gdb)
  PROVE  IInv'
<1> DEFINE B == [bkpts EXCEPT ![i].enabled = TRUE]
<1>1. ApplyBkt(B, nodes, i, B[i], gdb) /\ fate' = fate
      BY DEF Enable, Stays
<1>2. B \in Breakpoints(Len(bkpts)) /\ B[i] \in Breakpoint
      BY EnabledAs
<1> HIDE DEF B
<1>3. Keeps(nodes, nodes, astray, text)
      BY StateIs, SameKeeps
<1> QED BY <1>1, <1>2, <1>3, ApplyBktKeeps

LEMMA DeleteKeepsAll ==
  ASSUME IInv, NEW i \in 1 .. Len(bkpts), Delete(i)
  PROVE  IInv'
<1>1. /\ bkpts' = RemoveAt(bkpts, i)
      /\ nodes' = DeleteFromGDBandSpLines(nodes, bkpts[i]) /\ fate' = fate
      /\ UNCHANGED <<text, disk, open, msgs, focused, haveJumpLines, astray>>
      BY DEF Delete, Stays, texts, window
<1>2. bkpts' \in Seq(Breakpoint)
      BY <1>1, StateIs, RemovedAt
<1>3. Keeps(nodes, nodes', astray', text)
      BY <1>1, StateIs, FromGDBKeeps
<1> QED BY <1>1, <1>2, <1>3, StateIs, BreakpointsKeep

LEMMA SetOn ==
  ASSUME NEW f \in Files, NEW line \in Int, NEW what \in Lines \cup {Unknown}, NEW on \in BOOLEAN,
         NEW b, b = [Bkpt(f, line, what) EXCEPT !.enabled = on]
  PROVE  b \in Breakpoint
<1>1. b = [file |-> f, line |-> line, enabled |-> on, what |-> what]
      BY DEF Bkpt
<1>2. [file |-> f, line |-> line, enabled |-> on, what |-> what] \in Breakpoint
      BY BreakpointOf
<1> QED BY <1>1, <1>2, Zenon

LEMMA ModifyKeeps ==
  ASSUME IInv, NEW i \in 1 .. Len(bkpts), NEW line \in 0 .. Len(text[bkpts[i].file]) - 1,
         NEW enabled \in BOOLEAN, NEW gdb, Modify(i, line, enabled, gdb)
  PROVE  IInv'
<1> DEFINE f == bkpts[i].file
           what == text[f][line + 1]
           b == [Bkpt(f, line, what) EXCEPT !.enabled = enabled]
           n == DeleteFromGDBandSpLines(nodes, bkpts[i])
<1>1. ApplyBkt(bkpts, n, i, b, gdb) /\ fate' = fate
      BY DEF Modify, Stays
<1>2. f \in Files /\ bkpts[i] \in Breakpoint
      BY StateIs
<1>3. what \in Lines \cup {Unknown} /\ line \in Int
      BY <1>2, TextLine
<1> HIDE DEF what
<1>4. b \in Breakpoint
      BY <1>2, <1>3, SetOn
<1>5. Keeps(nodes, n, astray, text)
      BY <1>2, StateIs, FromGDBKeeps
<1> HIDE DEF b, n
<1> QED BY <1>1, <1>4, <1>5, StateIs, ApplyBktKeeps

LEMMA AddBreakpointKeeps ==
  ASSUME IInv, NEW f \in Files, NEW line \in 0 .. Len(text[f]) - 1, NEW enabled \in BOOLEAN,
         Add(f, line, enabled)
  PROVE  IInv'
<1> DEFINE what == text[f][line + 1]
           b == [Bkpt(f, line, what) EXCEPT !.enabled = enabled]
<1>1. /\ bkpts' = Append(bkpts, b)
      /\ nodes' = IF enabled THEN SpLinesAdd(nodes, f, line, Break, b.what, TRUE) ELSE nodes
      /\ fate' = fate
      /\ UNCHANGED <<text, disk, open, msgs, focused, haveJumpLines, astray>>
      BY DEF Add, Stays, texts, window
<1>2. what \in Lines \cup {Unknown} /\ line \in Int /\ line + 1 \in DOMAIN text[f]
      BY TextLine
<1>3. b \in Breakpoint /\ b.what = what
  <2> HIDE DEF what
  <2>1. b \in Breakpoint
        BY <1>2, SetOn
  <2>2. b.what = what
        BY DEF Bkpt
  <2> QED BY <2>1, <2>2
<1> HIDE DEF b
<1>4. bkpts' \in Seq(Breakpoint)
      BY <1>1, <1>3, StateIs
<1>5. Keeps(nodes, nodes', astray', text)
  <2>1. CASE enabled
    <3>1. nodes' = SpLinesAdd(nodes, f, line, Break, what, TRUE)
          BY <1>1, <1>3, <2>1
    <3> QED BY <1>2, <3>1, StateIs, AddKeeps
  <2>2. CASE ~enabled
    <3>1. nodes' = nodes
          BY <1>1, <2>2
    <3> QED BY <3>1, StateIs, SameKeeps
  <2> QED BY <2>1, <2>2
<1> QED BY <1>1, <1>4, <1>5, StateIs, BreakpointsKeep

LEMMA MoveKeeps ==
  ASSUME IInv, DebugMoveBreakPts
  PROVE  IInv'
<1>1. fate = "runs" /\ UNCHANGED <<text, disk, open, msgs, focused, haveJumpLines>>
      BY DEF DebugMoveBreakPts, texts, window, Runs
<1>2. CASE fate' = "crashes" /\ UNCHANGED <<nodes, bkpts, astray>>
  <2>1. Keeps(nodes, nodes', astray', text)
        BY <1>2, StateIs, SameKeeps
  <2> QED BY <1>1, <1>2, <2>1, StateIs, BreakpointsKeep
<1>3. ASSUME \A f \in DOMAIN nodes : nodes[f].special # NoList,
             fate' = fate,
             nodes' = [f \in DOMAIN nodes |-> [nodes[f] EXCEPT !.special = MovedBkpts(f).special]],
             bkpts' = [i \in DOMAIN bkpts |->
                         IF bkpts[i].file \in DOMAIN nodes
                         THEN MovedBkpts(bkpts[i].file).bkpts[i] ELSE bkpts[i]],
             astray' = astray \cup {f \in DOMAIN nodes :
                         Pending(f) \/ ~Sorted(nodes'[f].special) \/ Masked(f)}
      PROVE  IInv'
  <2> DEFINE F == DOMAIN nodes
             M == Len(bkpts)
             to(f) == MovedBkpts(f).special
             node(f) == [special |-> to(f), new |-> nodes[f].new]
  <2>1. /\ F \subseteq Files /\ \A f \in F : /\ nodes[f] \in Node /\ nodes[f].special \in SpList
                                              /\ nodes[f].new \in SpList \cup {NoList}
        BY <1>3, StateIs, NodesAre, NodeIs
  <2>2. ASSUME NEW f \in F
        PROVE  /\ MovedBkpts(f).bkpts \in Breakpoints(M)
               /\ to(f) \in SpList /\ Len(to(f)) = Len(nodes[f].special)
               /\ \A k \in 1 .. Len(nodes[f].special) :
                    /\ to(f)[k].nline = nodes[f].special[k].nline
                    /\ to(f)[k].id = nodes[f].special[k].id
                    /\ to(f)[k].what = nodes[f].special[k].what
                    /\ nodes[f].special[k].id = Error => to(f)[k].oline = nodes[f].special[k].oline
        BY <2>1, StateIs, MovesAll DEF SpList
  <2> HIDE DEF to
  <2>3. \A f \in F : [nodes[f] EXCEPT !.special = to(f)] = node(f)
    <3> TAKE f \in F
    <3>1. nodes[f] = [special |-> nodes[f].special, new |-> nodes[f].new]
          BY <2>1, NodeIs
    <3> QED BY <3>1
  <2>4. nodes' = [f \in F |-> node(f)]
    <3>1. nodes' = [f \in F |-> [nodes[f] EXCEPT !.special = to(f)]]
          BY <1>3 DEF to
    <3> QED BY <2>3, <3>1
  <2>5. DOMAIN nodes' = F /\ \A f \in F : nodes'[f] = node(f)
        BY <2>4
  <2>6. \A f \in F : node(f) \in Node
        BY <2>1, <2>2, NodeOf, NoListAssumption
  <2>7. \A f \in F : node(f).special = to(f) /\ node(f).new = nodes[f].new
        OBVIOUS
  <2> HIDE DEF node, F
  <2>8. nodes' \in Nodes
    <3>1. nodes' = [f \in F |-> nodes'[f]] /\ \A f \in F : nodes'[f] \in Node
          BY <2>4, <2>5, <2>6
    <3> QED BY <2>1, <3>1, NodesFrom
  <2>9. bkpts' \in Seq(Breakpoint)
    <3>1. ASSUME NEW i \in 1 .. M PROVE bkpts'[i] \in Breakpoint
      <4>1. i \in DOMAIN bkpts /\ bkpts[i] \in Breakpoint
            BY StateIs
      <4>2. CASE bkpts[i].file \in F
        <5>1. bkpts'[i] = MovedBkpts(bkpts[i].file).bkpts[i]
              BY <1>3, <4>1, <4>2 DEF F
        <5>2. MovedBkpts(bkpts[i].file).bkpts \in Breakpoints(M)
              BY <2>2, <4>2
        <5> QED BY <5>1, <5>2, BreakpointsAre
      <4>3. CASE bkpts[i].file \notin F
            BY <1>3, <4>1, <4>3 DEF F
      <4> QED BY <4>2, <4>3
    <3>2. bkpts' = [i \in 1 .. M |-> bkpts'[i]] /\ M \in Nat
          BY <1>3, StateIs
    <3> HIDE DEF M
    <3>3. bkpts' \in [1 .. M -> Breakpoint]
          BY <3>1, <3>2
    <3> QED BY <3>2, <3>3
  <2>10. AllSound(nodes', astray', text)
    <3> SUFFICES ASSUME NEW f \in F \ astray' PROVE Sound(node(f), text[f])
          BY <2>5 DEF AllSound
    <3> DEFINE l == nodes[f].special
               N == Len(l)
    <3>1. f \notin astray /\ ~Pending(f) /\ Sorted(nodes'[f].special)
          BY <1>3 DEF F
    <3>2. nodes[f].new = NoList /\ Sorted(to(f))
          BY <2>5, <2>7, <3>1 DEF Pending, Has, F
    <3>3. node(f) = [special |-> to(f), new |-> NoList]
          BY <3>2 DEF node
    <3>4. Sound(nodes[f], text[f])
          BY <3>1 DEF IInv, Followed, AllSound, F
    <3>5. \A e \in Elems(l) : Right(text[f], e)
          BY <3>4 DEF Sound
    <3>6. /\ Elems(l) = {l[k] : k \in 1 .. N} /\ Elems(to(f)) = {to(f)[k] : k \in 1 .. N}
          BY <2>1, <2>2, ElemsOf
    <3>7. ASSUME NEW k \in 1 .. N PROVE Right(text[f], to(f)[k])
      <4>1. Right(text[f], l[k])
            BY <3>5, <3>6
      <4>2. to(f)[k].nline = l[k].nline /\ to(f)[k].what = l[k].what
            BY <2>2
      <4> QED BY <4>1, <4>2 DEF Right
    <3>8. \A e \in Elems(to(f)) : Right(text[f], e)
          BY <3>6, <3>7
    <3> QED BY <2>2, <3>2, <3>3, <3>8, Given
  <2>11. ASSUME NEW m, m.file \in Files, Known(nodes, m)
         PROVE  Known(nodes', m)
    <3> DEFINE f == m.file
               l == nodes[f].special
               N == Len(l)
    <3>1. PICK e \in Elems(ToModify(nodes, f)) : e.id = Error /\ e.oline = m.line /\ e.what = m.what
          BY <2>11 DEF Known
    <3>2. f \in F
          BY <3>1, StateIs, <2>11, ToModifyIs DEF F
    <3>3. CASE nodes[f].new # NoList
      <4>1. ToModify(nodes, f) = nodes[f].new /\ ToModify(nodes', f) = nodes[f].new
            BY <2>5, <2>7, <3>2, <3>3 DEF ToModify, Has, F
      <4> QED BY <3>1, <4>1 DEF Known
    <3>4. CASE nodes[f].new = NoList
      <4>1. ToModify(nodes, f) = l /\ ToModify(nodes', f) = to(f)
            BY <2>5, <2>7, <3>2, <3>4 DEF ToModify, Has, F
      <4>2. Elems(l) = {l[k] : k \in 1 .. N} /\ Elems(to(f)) = {to(f)[k] : k \in 1 .. N}
            BY <2>1, <2>2, <3>2, ElemsOf
      <4>3. PICK k \in 1 .. N : e = l[k]
            BY <3>1, <4>1, <4>2
      <4>4. to(f)[k].id = Error /\ to(f)[k].oline = m.line /\ to(f)[k].what = m.what
            BY <2>2, <3>1, <3>2, <4>3
      <4>5. to(f)[k] \in Elems(to(f))
            BY <4>2
      <4> QED BY <4>1, <4>4, <4>5 DEF Known
    <3> QED BY <3>3, <3>4
  <2>12. Keeps(nodes, nodes', astray', text)
         BY <2>8, <2>10, <2>11 DEF Keeps
  <2>13. astray \subseteq astray' /\ astray' \subseteq Files
    <3>1. astray' \subseteq astray \cup F
          BY <1>3 DEF F
    <3> QED BY <1>3, <2>1, <3>1, StateIs
  <2> QED BY <1>1, <1>3, <2>9, <2>12, <2>13, StateIs, BreakpointsKeep
<1> QED BY <1>2, <1>3 DEF DebugMoveBreakPts

LEMMA ApplyKeeps ==
  ASSUME IInv, NEW refused, apply(refused)
  PROVE  IInv'
<1> DEFINE M == Len(bkpts)
           taken(b) == b.enabled /\ b # refused
<1>1. /\ bkpts' = [i \in DOMAIN bkpts |-> [bkpts[i] EXCEPT !.enabled = taken(bkpts[i])]]
      /\ astray' = astray \cup {bkpts[i].file : i \in {j \in DOMAIN bkpts :
                      taken(bkpts[j]) /\ ~OnItsLine(bkpts[j])}}
      /\ fate' = fate
      /\ UNCHANGED <<text, disk, open, msgs, focused, haveJumpLines>>
      BY DEF apply, Stays, texts, window
<1>2. Keeps(nodes, nodes', astray', text)
      BY StateIs, AppliesAll
<1>3. astray \subseteq astray' /\ astray' \subseteq Files
      BY <1>1, StateIs
<1>4. bkpts' \in Seq(Breakpoint)
  <2>1. ASSUME NEW i \in 1 .. M
        PROVE  [bkpts[i] EXCEPT !.enabled = taken(bkpts[i])] \in Breakpoint
    <3> DEFINE on == taken(bkpts[i])
    <3>1. on \in BOOLEAN
          OBVIOUS
    <3>2. bkpts[i] \in Breakpoint
          BY StateIs
    <3> HIDE DEF on
    <3> QED BY <3>1, <3>2, BreakpointIs DEF on
  <2>2. bkpts' = [i \in 1 .. M |-> [bkpts[i] EXCEPT !.enabled = taken(bkpts[i])]] /\ M \in Nat
        BY <1>1, StateIs
  <2> HIDE DEF M, taken
  <2>3. bkpts' \in [1 .. M -> Breakpoint]
        BY <2>1, <2>2
  <2> QED BY <2>2, <2>3
<1> QED BY <1>1, <1>2, <1>3, <1>4, StateIs, BreakpointsKeep


-----------------------------------------------------------------------------
(* Theorems. *)

LEMMA InitKeeps ==
  ASSUME Init
  PROVE  IInv
<1>1. /\ text \in [Files -> {t \in [1 .. FirstLines -> Lines] : IsInjective(t)}]
      /\ disk = text /\ open = {} /\ nodes = [f \in {} |-> NoList]
      /\ msgs = <<>> /\ focused = 1 /\ haveJumpLines = 0
      /\ bkpts = <<>> /\ astray = {} /\ fate = "runs"
      BY DEF Init
<1>2. Texts
  <2>1. ASSUME NEW f \in Files
        PROVE  text[f] \in Seq(Lines) /\ Distinct(text[f])
    <3>1. text[f] \in [1 .. FirstLines -> Lines] /\ IsInjective(text[f])
          BY <1>1
    <3>2. text[f] \in Seq(Lines)
          BY <3>1, FirstLinesAssumption
    <3>3. Distinct(text[f])
          BY <3>1 DEF IsInjective, Distinct
    <3> QED BY <3>2, <3>3
  <2> QED BY <1>1, <2>1 DEF Texts
<1>3. Followed
  <2>1. DOMAIN nodes = {} /\ nodes = [f \in {} |-> nodes[f]]
        BY <1>1
  <2>2. nodes \in Nodes
        BY <2>1, NodesFrom
  <2> QED BY <2>1, <2>2 DEF Followed, AllSound
<1>4. Heard
      BY <1>1 DEF Heard, Jumps
<1>5. Rest
      BY <1>1 DEF Rest
<1> QED BY <1>2, <1>3, <1>4, <1>5 DEF IInv

LEMMA StutterKeeps ==
  ASSUME IInv, UNCHANGED vars
  PROVE  IInv'
<1>1. UNCHANGED <<text, disk, open, nodes, msgs, focused, haveJumpLines, bkpts, astray, fate>>
      BY DEF vars
<1>2. Heard'
      BY <1>1, StillHeard DEF IInv
<1> QED BY <1>1, <1>2 DEF IInv, Texts, Followed, Rest

LEMMA NextKeeps ==
  ASSUME IInv, Next
  PROVE  IInv'
<1>1. ASSUME NEW f \in Files, NEW k \in 0 .. Len(text[f]), insertLine(f, k)
      PROVE  IInv'
      BY <1>1, InsertKeeps
<1>2. ASSUME NEW f \in Files, NEW k \in 0 .. Len(text[f]) - 1,
             \/ deleteLine(f, k) \/ DebugToggleBreakpoint(f, k)
             \/ \E enabled \in BOOLEAN : Add(f, k, enabled)
      PROVE  IInv'
      BY <1>2, DeleteLineOfTextKeeps, ToggleKeeps, AddBreakpointKeeps
<1>3. ASSUME NEW f \in Files, saveFile(f)
      PROVE  IInv'
      BY <1>3, SaveKeeps
<1>4. ASSUME NEW f \in Files, openEditor(f)
      PROVE  IInv'
  <2>1. /\ open' = open \cup {f} /\ fate' = fate
        /\ UNCHANGED <<text, disk, nodes, msgs, focused, haveJumpLines, bkpts, astray>>
        BY <1>4 DEF openEditor, Stays, window
  <2>2. focused' \in Nat \ {0} /\ fate' \in {"runs", "hangs", "crashes"}
        BY <2>1 DEF IInv, Rest
  <2> QED BY <2>1, <2>2, OpenKeeps
<1>5. ASSUME NEW f \in Files, NEW discard \in BOOLEAN, closeFile(f, discard)
      PROVE  IInv'
      BY <1>5, CloseKeeps
<1>6. ASSUME NEW f \in Files, NEW k \in 0 .. Len(disk[f]) - 1, NEW now \in BOOLEAN,
             EdShowMessageFile(f, k, now)
      PROVE  IInv'
      BY <1>6, ShowFileKeeps
<1>7. ASSUME EdMessageWindowInit \/ EdShowMessage \/ SpLinesUpdate \/ deleteMessage
      PROVE  IInv'
      BY <1>7, InitMessagesKeeps, ShowKeeps, UpdateAllKeeps, DeleteMessageKeeps
<1>8. ASSUME NEW i \in Jumps, selectItem(i)
      PROVE  IInv'
      BY <1>8, SelectItemKeeps
<1>9. ASSUME selectNext \/ selectPrev \/ EdJumpToFirstError
      PROVE  IInv'
  <2>1. CASE selectNext
    <3>1. select(NextOne)
          BY <2>1 DEF selectNext
    <3>2. Jumps # {} => NextOne \in Jumps
          BY NextIsJump
    <3> QED BY <3>1, <3>2, SelectKeeps
  <2>2. CASE selectPrev
    <3>1. select(PrevOne)
          BY <2>2 DEF selectPrev
    <3>2. Jumps # {} => PrevOne \in Jumps
          BY NextIsJump
    <3> QED BY <3>1, <3>2, SelectKeeps
  <2> QED BY <1>9, <2>1, <2>2, JumpToFirstKeeps
<1>10. ASSUME NEW i \in DOMAIN bkpts, Disable(i) \/ Delete(i)
       PROVE  IInv'
       BY <1>10, StateIs, DisableKeeps, DeleteKeepsAll
<1>11. ASSUME NEW i \in DOMAIN bkpts, NEW gdb, Enable(i, gdb)
       PROVE  IInv'
       BY <1>11, StateIs, EnableKeeps
<1>12. ASSUME NEW i \in DOMAIN bkpts, NEW gdb,
              NEW line \in 0 .. Len(text[bkpts[i].file]) - 1, NEW enabled \in BOOLEAN,
              Modify(i, line, enabled, gdb)
       PROVE  IInv'
       BY <1>12, StateIs, ModifyKeeps
<1>13. ASSUME DebugMoveBreakPts
       PROVE  IInv'
       BY <1>13, MoveKeeps
<1>14. ASSUME NEW refused, apply(refused)
       PROVE  IInv'
       BY <1>14, ApplyKeeps
<1> QED BY <1>1, <1>2, <1>3, <1>4, <1>5, <1>6, <1>7, <1>8, <1>9, <1>10, <1>11, <1>12,
           <1>13, <1>14 DEF Next

LEMMA Invariant == Spec => []IInv
<1>1. Init => IInv
      BY InitKeeps
<1>2. IInv /\ [Next]_vars => IInv'
      BY NextKeeps, StutterKeeps
<1> QED BY <1>1, <1>2, PTL DEF Spec

(* The lists, the focus and the fate stay what they are meant to be,       *)
(* whatever the bounds: selectNext() never leaves the messages that have a *)
(* line, MoveBreakpoint() never makes a list of something else.            *)
THEOREM SpecialLinesTyped == Spec => []TypeOK
<1>1. IInv => TypeOK
  <2> SUFFICES ASSUME IInv PROVE TypeOK
        OBVIOUS
  <2>1. /\ text \in [Files -> Seq(Lines)] /\ disk \in [Files -> Seq(Lines)] /\ open \subseteq Files
        BY DEF IInv, Texts
  <2>2. /\ DOMAIN nodes \subseteq Files
        /\ \A f \in DOMAIN nodes :
             /\ nodes[f].special = NoList \/ nodes[f].special \in SpList
             /\ nodes[f].new = NoList \/ nodes[f].new \in SpList
             /\ nodes[f].special # NoList \/ nodes[f].new # NoList
        BY StateIs, NodesAre, NodeIs
  <2>3. /\ focused \in Nat \ {0} /\ haveJumpLines \in Nat
        /\ fate \in {"runs", "hangs", "crashes"} /\ astray \subseteq Files
        BY DEF IInv, Rest
  <2> QED BY <2>1, <2>2, <2>3 DEF TypeOK
<1> QED BY Invariant, <1>1, PTL

(* Where a line of text is, for a special line that is right.              *)
LEMMA PlaceOf ==
  ASSUME IInv, NEW f \in Files, NEW e, e.nline \in Int, e.what # Unknown, Right(text[f], e)
  PROVE  IF Place(f, e.what) = {} THEN e.nline = -1 ELSE Place(f, e.what) = {e.nline}
<1> DEFINE T == text[f]
           at == {j \in DOMAIN T : T[j] = e.what}
<1>1. /\ DOMAIN T = 1 .. Len(T) /\ Len(T) \in Nat
      /\ \A i, j \in 1 .. Len(T) : T[i] = T[j] => i = j
      BY TextIs DEF IInv
<1>2. Place(f, e.what) = {k - 1 : k \in at}
      BY DEF Place
<1>3. CASE at = {}
  <2>1. Place(f, e.what) = {}
        BY <1>2, <1>3
  <2>2. e.nline = -1
        BY <1>3 DEF Right
  <2> QED BY <2>1, <2>2
<1>4. CASE at # {}
  <2> DEFINE p == e.nline + 1
  <2>1. p \in DOMAIN T /\ T[p] = e.what
        BY <1>4 DEF Right
  <2>2. at = {p}
    <3> HIDE DEF p
    <3> QED BY <1>1, <2>1
  <2>3. Place(f, e.what) = {p - 1}
    <3> HIDE DEF p, at
    <3> QED BY <1>2, <2>2
  <2>4. p - 1 = e.nline
        OBVIOUS
  <2> QED BY <2>3, <2>4
<1> QED BY <1>3, <1>4

(* A special line is on the line of text it was set on: the editor moves   *)
(* nline with the text, and the manager's insertions, deletions and copies *)
(* never mix up which line is where.                                       *)
THEOREM LinesFollowText == Spec => []FollowsText
<1>1. IInv => FollowsText
  <2> SUFFICES ASSUME IInv, NEW f \in DOMAIN nodes \ astray, nodes[f].special # NoList,
                      NEW i \in DOMAIN nodes[f].special, nodes[f].special[i].what # Unknown
               PROVE  IF Place(f, nodes[f].special[i].what) = {}
                      THEN nodes[f].special[i].nline = -1
                      ELSE Place(f, nodes[f].special[i].what) = {nodes[f].special[i].nline}
        BY DEF FollowsText
  <2> DEFINE e == nodes[f].special[i]
  <2>1. f \in Files /\ nodes[f].special \in SpList
        BY StateIs, NodesAre, NodeIs
  <2>2. e \in Elems(nodes[f].special)
        BY DEF Elems
  <2>3. e.nline \in Int
        BY <2>1, <2>2, SpLineIs
  <2>4. Right(text[f], e)
        BY <2>2 DEF IInv, Followed, AllSound, Sound
  <2> HIDE DEF e
  <2>5. e.what # Unknown
        BY DEF e
  <2>6. IF Place(f, e.what) = {} THEN e.nline = -1 ELSE Place(f, e.what) = {e.nline}
        BY <2>1, <2>3, <2>4, <2>5, PlaceOf
  <2> QED BY <2>6 DEF e
<1> QED BY Invariant, <1>1, PTL

(* Selecting a message goes to the line of text it is about.  Its error is *)
(* in the list that is changed: when the editor has it, the list is sorted *)
(* and the binary search finds a line with that number; when it is only    *)
(* pending, no edit has come since, and its number is still right.         *)
THEOREM MessagesJump == Spec => []JumpsToLine
<1>1. IInv => JumpsToLine
  <2> SUFFICES ASSUME IInv, NEW i \in Jumps,
                      msgs[i].file \notin astray, msgs[i].what # Unknown,
                      LET l == ToModify(nodes, msgs[i].file)
                      IN  \A j \in DOMAIN l : l[j].oline = msgs[i].line => l[j].what = msgs[i].what
               PROVE  IF Place(msgs[i].file, msgs[i].what) = {} THEN GotoLine(msgs[i]) = -1
                      ELSE Place(msgs[i].file, msgs[i].what) = {GotoLine(msgs[i])}
        BY DEF JumpsToLine
  <2> DEFINE m == msgs[i]
             f == m.file
             l == ToModify(nodes, f)
             special == nodes[f].special
             T == text[f]
  <2>1. f \in Files /\ m.line \in Int /\ m.line >= 0
        BY MessagesAre DEF Jumps, IInv, Heard
  <2>2. nodes \in Nodes /\ l \in SpList
        BY <2>1, StateIs, ToModifyIs
  <2>3. PICK e \in Elems(l) : e.oline = m.line /\ e.what = m.what
        BY DEF IInv, Heard, Known
  <2>4. f \in DOMAIN nodes
        BY <2>1, <2>2, <2>3, ToModifyIs
  <2>5. Sound(nodes[f], T)
        BY <2>4 DEF IInv, Followed, AllSound
  <2>6. special \in SpList \cup {NoList}
        BY <2>2, <2>4, NodesAre, NodeIs
  <2>7. \A d \in Elems(l) : d.oline = m.line => d.what = m.what
    <3>1. Elems(l) = {l[j] : j \in 1 .. Len(l)} /\ DOMAIN l = 1 .. Len(l)
          BY <2>2, ElemsOf
    <3> QED BY <3>1
  <2>8. m.what # Unknown /\ (special # NoList => Sorted(special))
        BY <2>5 DEF Sound
  <2>9. /\ \A d \in Elems(l) : Right(T, d)
        /\ Elems(special) \subseteq Elems(l)
        /\ \A d \in Elems(l) \ Elems(special) : d.nline = d.oline
        BY <2>1, <2>2, <2>4, <2>5, ToModifyIs
  <2>10. GotoLine(m) = IF special # NoList /\ found(special, m.line)
                       THEN special[search(special, m.line)].nline ELSE m.line
         BY <2>4 DEF GotoLine, SpLineGetNewValueOf, Has
  <2>11. \E d \in Elems(l) : d.what = m.what /\ d.nline = GotoLine(m)
    <3>1. CASE special # NoList /\ found(special, m.line)
      <4> DEFINE d == special[search(special, m.line)]
      <4>1. d.oline = m.line /\ d \in Elems(special)
            BY <2>1, <2>6, <3>1, Finds
      <4>2. d \in Elems(l) /\ d.what = m.what
            BY <2>7, <2>9, <4>1
      <4>3. d.nline = GotoLine(m)
            BY <2>10, <3>1
      <4> HIDE DEF d
      <4> QED BY <4>2, <4>3
    <3>2. CASE ~(special # NoList /\ found(special, m.line))
      <4>1. e \notin Elems(special)
        <5>1. CASE special = NoList
              BY <5>1 DEF Elems
        <5>2. CASE special # NoList
          <6>1. Sorted(special) /\ ~found(special, m.line) /\ special \in SpList
                BY <2>6, <2>8, <3>2, <5>2
          <6>2. \A d \in Elems(special) : d.oline # m.line
                BY <2>1, <6>1, Finds
          <6> QED BY <2>3, <6>2
        <5> QED BY <5>1, <5>2
      <4>2. e.nline = m.line
            BY <2>3, <2>9, <4>1
      <4>3. GotoLine(m) = m.line
            BY <2>10, <3>2
      <4> QED BY <2>3, <4>2, <4>3
    <3> QED BY <3>1, <3>2
  <2>12. PICK d \in Elems(l) : d.what = m.what /\ d.nline = GotoLine(m)
         BY <2>11
  <2>13. d.nline \in Int
         BY <2>2, <2>12, SpLineIs
  <2>14. IF Place(f, d.what) = {} THEN d.nline = -1 ELSE Place(f, d.what) = {d.nline}
         BY <2>1, <2>8, <2>9, <2>12, <2>13, PlaceOf
  <2> QED BY <2>12, <2>14
<1> QED BY Invariant, <1>1, PTL

-----------------------------------------------------------------------------
(* Counting the items of a sequence that are in a set.                     *)

Where(s, Q) == {i \in DOMAIN s : s[i] \in Q}
Count(s, Q) == Cardinality(Where(s, Q))
One(p) == IF p THEN 1 ELSE 0

LEMMA Counts ==
  ASSUME NEW S, NEW s \in Seq(S), NEW Q
  PROVE  /\ IsFiniteSet(Where(s, Q)) /\ Count(s, Q) \in Nat
         /\ Where(s, Q) \subseteq 1 .. Len(s)
         /\ Count(s, Q) = 0 <=> Where(s, Q) = {}
<1>1. DOMAIN s = 1 .. Len(s) /\ Len(s) \in Nat
      BY LenProperties
<1>2. Where(s, Q) \subseteq 1 .. Len(s)
      BY <1>1 DEF Where
<1>3. IsFiniteSet(1 .. Len(s))
      BY <1>1, FS_Interval
<1>4. IsFiniteSet(Where(s, Q))
      BY <1>2, <1>3, FS_Subset
<1> QED BY <1>2, <1>4, FS_CardinalityType, FS_EmptySet DEF Count

(* Sets that agree but for one item.                                       *)
LEMMA OneDiffers ==
  ASSUME NEW A, NEW B, NEW x, IsFiniteSet(A), A \ {x} = B \ {x}
  PROVE  /\ IsFiniteSet(B)
         /\ Cardinality(A) \in Nat /\ Cardinality(B) \in Nat
         /\ Cardinality(B) = Cardinality(A) - One(x \in A) + One(x \in B)
<1> DEFINE C == A \ {x}
<1>1. IsFiniteSet(C) /\ Cardinality(C) = IF x \in A THEN Cardinality(A) - 1 ELSE Cardinality(A)
      BY FS_RemoveElement
<1>2. Cardinality(A) \in Nat
      BY FS_CardinalityType
<1>3. x \notin C /\ C = B \ {x}
      OBVIOUS
<1> HIDE DEF C
<1>4. Cardinality(C) \in Nat
      BY <1>1, FS_CardinalityType
<1>5. IsFiniteSet(C \cup {x}) /\ Cardinality(C \cup {x}) = Cardinality(C) + 1
      BY <1>1, <1>3, FS_AddElement
<1>6. CASE x \in B
  <2>1. B = C \cup {x}
        BY <1>3, <1>6
  <2> QED BY <1>1, <1>2, <1>4, <1>5, <1>6, <2>1 DEF One
<1>7. CASE x \notin B
  <2>1. B = C
        BY <1>3, <1>7
  <2> QED BY <1>1, <1>2, <1>4, <1>7, <2>1 DEF One
<1> QED BY <1>6, <1>7

(* A sequence with an item more at n.                                      *)
LEMMA CountShifted ==
  ASSUME NEW S, NEW s \in Seq(S), NEW new \in Seq(S), NEW n \in 1 .. Len(s) + 1, NEW Q,
         Len(new) = Len(s) + 1,
         \A k \in 1 .. Len(s) : new[IF k < n THEN k ELSE k + 1] = s[k]
  PROVE  Count(new, Q) = Count(s, Q) + One(new[n] \in Q)
<1> DEFINE N == Len(s)
           W == Where(s, Q)
           V == Where(new, Q)
           U == V \ {n}
           f == [i \in W |-> IF i < n THEN i ELSE i + 1]
<1>1. N \in Nat /\ DOMAIN s = 1 .. N /\ DOMAIN new = 1 .. N + 1
      BY LenProperties
<1>2. W \subseteq 1 .. N /\ IsFiniteSet(W) /\ IsFiniteSet(V)
      BY Counts
<1>3. \A i \in W : f[i] = IF i < n THEN i ELSE i + 1
      OBVIOUS
<1>4. f \in [W -> U]
  <2>1. ASSUME NEW i \in W PROVE (IF i < n THEN i ELSE i + 1) \in U
    <3> DEFINE j == IF i < n THEN i ELSE i + 1
    <3>1. i \in 1 .. N /\ s[i] \in Q
          BY <1>2 DEF Where
    <3>2. j \in 1 .. N + 1 /\ j # n
          BY <1>1, <3>1
    <3>3. new[j] \in Q
          BY <3>1
    <3> HIDE DEF j
    <3>4. j \in U
          BY <1>1, <3>2, <3>3 DEF Where
    <3> QED BY <3>4 DEF j
  <2> HIDE DEF W, U
  <2> QED BY <2>1
<1>5. \A i, j \in W : f[i] = f[j] => i = j
  <2> HIDE DEF f, W
  <2>1. \A i \in W : i \in Int
        BY <1>2
  <2> QED BY <1>3, <2>1
<1>6. ASSUME NEW u \in U PROVE \E i \in W : f[i] = u
  <2> DEFINE i == IF u < n THEN u ELSE u - 1
  <2>1. u \in 1 .. N + 1 /\ u # n /\ new[u] \in Q
        BY <1>1 DEF Where
  <2>2. i \in 1 .. N /\ (IF i < n THEN i ELSE i + 1) = u
        BY <1>1, <2>1
  <2> HIDE DEF i
  <2>3. s[i] = new[u]
        BY <2>2
  <2>4. i \in W
        BY <1>1, <2>1, <2>2, <2>3 DEF Where
  <2> QED BY <1>3, <2>2, <2>4
<1> HIDE DEF f, W, U, V
<1>7. f \in Bijection(W, U)
  <2>1. f \in Injection(W, U)
        BY <1>4, <1>5 DEF Injection, IsInjective
  <2>2. f \in Surjection(W, U)
        BY <1>4, <1>6 DEF Surjection
  <2> QED BY <2>1, <2>2 DEF Bijection
<1>8. IsFiniteSet(U) /\ Cardinality(U) = Cardinality(W)
  <2>1. ExistsBijection(W, U)
        BY <1>7 DEF ExistsBijection
  <2> QED BY <1>2, <2>1, FS_Bijection
<1>9. Cardinality(U) = Cardinality(V) - One(n \in V)
  <2>1. Cardinality(V) \in Nat
        BY <1>2, FS_CardinalityType
  <2>2. Cardinality(V \ {n}) = IF n \in V THEN Cardinality(V) - 1 ELSE Cardinality(V)
        BY <1>2, FS_RemoveElement
  <2> QED BY <2>1, <2>2 DEF U, One
<1>10. n \in V <=> new[n] \in Q
       BY <1>1 DEF V, Where
<1>11. Cardinality(V) \in Nat
       BY <1>2, FS_CardinalityType
<1> QED BY <1>8, <1>9, <1>10, <1>11 DEF Count, W, V, One

LEMMA CountInserted ==
  ASSUME NEW S, NEW s \in Seq(S), NEW n \in 1 .. Len(s) + 1, NEW x \in S, NEW Q
  PROVE  Count(InsertAt(s, n, x), Q) = Count(s, Q) + One(x \in Q)
<1> DEFINE new == InsertAt(s, n, x)
           N == Len(s)
<1>1. N \in Nat
      BY LenProperties
<1>2. /\ new \in Seq(S) /\ Len(new) = N + 1
      /\ \A k \in 1 .. N + 1 : new[k] = IF k < n THEN s[k] ELSE IF k = n THEN x ELSE s[k - 1]
      BY InsertedAt
<1> HIDE DEF new
<1>3. ASSUME NEW k \in 1 .. N PROVE new[IF k < n THEN k ELSE k + 1] = s[k]
  <2>1. CASE k < n
    <3>1. k \in 1 .. N + 1
          BY <1>1
    <3> QED BY <1>2, <2>1, <3>1
  <2>2. CASE ~(k < n)
    <3> DEFINE j == k + 1
    <3>1. j \in 1 .. N + 1 /\ ~(j < n) /\ j # n /\ j - 1 = k
          BY <1>1, <2>2
    <3> HIDE DEF j
    <3>2. new[j] = s[k]
          BY <1>2, <3>1
    <3> QED BY <2>2, <3>2 DEF j
  <2> QED BY <2>1, <2>2
<1>4. new[n] = x
      BY <1>2
<1>5. Count(new, Q) = Count(s, Q) + One(new[n] \in Q)
  <2>1. new \in Seq(S) /\ Len(new) = Len(s) + 1
        BY <1>2
  <2>2. \A k \in 1 .. Len(s) : new[IF k < n THEN k ELSE k + 1] = s[k]
        BY <1>3
  <2> HIDE DEF N
  <2> QED BY <2>1, <2>2, CountShifted
<1> QED BY <1>4, <1>5 DEF new

LEMMA CountAppended ==
  ASSUME NEW S, NEW s \in Seq(S), NEW x \in S, NEW Q
  PROVE  Count(Append(s, x), Q) = Count(s, Q) + One(x \in Q)
<1> DEFINE new == Append(s, x)
           N == Len(s)
           n == N + 1
<1>1. N \in Nat /\ n \in 1 .. N + 1
      BY LenProperties
<1>2. /\ new \in Seq(S) /\ Len(new) = N + 1 /\ new[n] = x
      /\ \A k \in 1 .. N : new[k] = s[k] /\ k < n
      BY <1>1
<1> HIDE DEF new, n
<1>3. \A k \in 1 .. N : new[IF k < n THEN k ELSE k + 1] = s[k]
      BY <1>2
<1>4. Count(new, Q) = Count(s, Q) + One(new[n] \in Q)
      BY <1>1, <1>2, <1>3, CountShifted
<1> QED BY <1>2, <1>4 DEF new

LEMMA CountRemoved ==
  ASSUME NEW S, NEW s \in Seq(S), NEW n \in 1 .. Len(s), NEW Q
  PROVE  Count(s, Q) = Count(RemoveAt(s, n), Q) + One(s[n] \in Q)
<1> DEFINE new == RemoveAt(s, n)
           N == Len(s)
           M == N - 1
<1>1. N \in Nat /\ M \in Nat /\ N = M + 1
      BY LenProperties
<1>2. /\ new \in Seq(S) /\ Len(new) = M
      /\ \A k \in 1 .. M : new[k] = IF k < n THEN s[k] ELSE s[k + 1]
      BY RemovedAt
<1> HIDE DEF new, M
<1>3. n \in 1 .. Len(new) + 1 /\ Len(s) = Len(new) + 1
      BY <1>1, <1>2
<1>4. \A k \in 1 .. Len(new) : s[IF k < n THEN k ELSE k + 1] = new[k]
      BY <1>2
<1>5. Count(s, Q) = Count(new, Q) + One(s[n] \in Q)
      BY <1>2, <1>3, <1>4, CountShifted
<1> QED BY <1>5 DEF new

(* Sequences with the same items, as far as Q can tell.                    *)
LEMMA CountSame ==
  ASSUME NEW s, NEW t, NEW Q, DOMAIN s = DOMAIN t, \A i \in DOMAIN s : s[i] \in Q <=> t[i] \in Q
  PROVE  Count(s, Q) = Count(t, Q)
<1>1. Where(s, Q) = Where(t, Q)
      BY DEF Where
<1> QED BY <1>1 DEF Count

LEMMA CountReplaced ==
  ASSUME NEW S, NEW s \in Seq(S), NEW i \in 1 .. Len(s), NEW x \in S, NEW Q
  PROVE  Count([s EXCEPT ![i] = x], Q) = Count(s, Q) - One(s[i] \in Q) + One(x \in Q)
<1> DEFINE t == [s EXCEPT ![i] = x]
<1>1. DOMAIN s = 1 .. Len(s)
      BY LenProperties
<1>2. DOMAIN t = DOMAIN s /\ t[i] = x /\ \A j \in DOMAIN s : j # i => t[j] = s[j]
      BY <1>1
<1> HIDE DEF t
<1>3. IsFiniteSet(Where(s, Q)) /\ Count(s, Q) \in Nat
      BY Counts
<1>4. Where(s, Q) \ {i} = Where(t, Q) \ {i}
      BY <1>2 DEF Where
<1>5. (i \in Where(s, Q) <=> s[i] \in Q) /\ (i \in Where(t, Q) <=> x \in Q)
      BY <1>1, <1>2 DEF Where
<1>6. Cardinality(Where(t, Q)) = Cardinality(Where(s, Q)) - One(i \in Where(s, Q)) + One(i \in Where(t, Q))
      BY <1>3, <1>4, OneDiffers
<1>7. One(i \in Where(s, Q)) = One(s[i] \in Q) /\ One(i \in Where(t, Q)) = One(x \in Q)
      BY <1>5 DEF One
<1> QED BY <1>6, <1>7 DEF Count, t


-----------------------------------------------------------------------------
(* What the manager does to the breakpoints' lines of a file, by the line  *)
(* they were set on.                                                       *)

BreakAt(line) == {e \in SpLine : e.id = Break /\ e.oline = line}
Lined(n, f, line) == Count(ToModify(n, f), BreakAt(line))

LEMMA BreakAtIs ==
  ASSUME NEW e \in SpLine, NEW line
  PROVE  e \in BreakAt(line) <=> e.id = Break /\ e.oline = line
BY DEF BreakAt

(* insert() adds the one line.                                             *)
LEMMA CountInsert ==
  ASSUME NEW l \in SpList, NEW line \in Int, NEW id \in {Error, Break},
         NEW what \in Lines \cup {Unknown}, NEW ln \in Int
  PROVE  Count(insert(l, line, id, what), BreakAt(ln))
           = Count(l, BreakAt(ln)) + One(id = Break /\ ln = line)
<1> DEFINE e == [oline |-> line, nline |-> line, id |-> id, what |-> what]
           p == search(l, line)
<1>1. l \in Seq(SpLine) /\ p \in 1 .. Len(l) + 1
      BY SearchPlace DEF SpList
<1>2. e \in SpLine /\ e.id = id /\ e.oline = line
      BY DEF SpLine
<1>3. insert(l, line, id, what) = InsertAt(l, p, e)
      BY DEF insert
<1> HIDE DEF e, p
<1>4. Count(InsertAt(l, p, e), BreakAt(ln)) = Count(l, BreakAt(ln)) + One(e \in BreakAt(ln))
      BY <1>1, <1>2, CountInserted
<1>5. e \in BreakAt(ln) <=> id = Break /\ ln = line
      BY <1>2, BreakAtIs
<1> QED BY <1>3, <1>4, <1>5 DEF One

(* What an id leaves has the lines with other ids, as many as before.      *)
LEMMA CountKept ==
  ASSUME NEW l \in SpList, NEW id, NEW Q, \A e \in Q : e.id # id
  PROVE  Count(Kept(l, id), Q) = Count(l, Q)
<1> DEFINE N == Len(l)
           Of(k) == {j \in 1 .. k : l[j] \in Q}
<1>1. N \in Nat /\ DOMAIN l = 1 .. N /\ \A k \in 1 .. N : l[k] \in SpLine
      BY ElemsOf
<1>2. PICK w : /\ w \in [0 .. N -> SpList]
               /\ w[0] = <<>>
               /\ \A k \in 1 .. N :
                    w[k] = IF l[k].id = id THEN w[k - 1] ELSE Append(w[k - 1], l[k])
               /\ Kept(l, id) = w[N]
      BY KeptTurns
<1> DEFINE T == {k \in 0 .. N : IsFiniteSet(Of(k)) /\ Count(w[k], Q) = Cardinality(Of(k))}
<1>3. 0 \in T
  <2>1. Of(0) = {} /\ Where(<<>>, Q) = {} /\ 0 \in 0 .. N
        BY <1>1 DEF Where
  <2> HIDE DEF Of
  <2> QED BY <1>2, <2>1, FS_EmptySet DEF Count
<1>4. ASSUME NEW j \in 0 .. N - 1, j \in T
      PROVE  j + 1 \in T
  <2> DEFINE k == j + 1
  <2>1. k \in 1 .. N /\ k - 1 = j /\ k \in 0 .. N /\ j \in 0 .. N
        BY <1>1
  <2>2. Of(j) \ {k} = Of(k) \ {k} /\ ~(k \in Of(j)) /\ (k \in Of(k) <=> l[k] \in Q)
        BY <2>1
  <2>3. IsFiniteSet(Of(j)) /\ Count(w[j], Q) = Cardinality(Of(j))
        BY <1>4
  <2>4. w[k] = IF l[k].id = id THEN w[j] ELSE Append(w[j], l[k])
        BY <1>2, <2>1
  <2> HIDE DEF Of, k
  <2>5. /\ IsFiniteSet(Of(k)) /\ Cardinality(Of(j)) \in Nat
        /\ Cardinality(Of(k)) = Cardinality(Of(j)) - One(k \in Of(j)) + One(k \in Of(k))
        BY <2>2, <2>3, OneDiffers
  <2>6. CASE l[k].id = id
    <3>1. l[k] \notin Q
          BY <2>6
    <3>2. Count(w[k], Q) = Cardinality(Of(k))
          BY <2>2, <2>3, <2>4, <2>5, <2>6, <3>1 DEF One
    <3> QED BY <2>1, <2>5, <3>2 DEF k
  <2>7. CASE l[k].id # id
    <3>1. w[j] \in Seq(SpLine) /\ l[k] \in SpLine
          BY <1>1, <1>2, <2>1 DEF SpList
    <3>2. Count(w[k], Q) = Count(w[j], Q) + One(l[k] \in Q)
          BY <2>4, <2>7, <3>1, CountAppended
    <3>3. Count(w[k], Q) = Cardinality(Of(k))
          BY <2>2, <2>3, <2>5, <3>2 DEF One
    <3> QED BY <2>1, <2>5, <3>3 DEF k
  <2> QED BY <2>6, <2>7
<1>5. N \in T
  <2> HIDE DEF T, N
  <2>1. \A k \in 0 .. N : k \in T
        BY <1>1, <1>3, <1>4, Turns
  <2> QED BY <1>1, <2>1
<1>6. Of(N) = Where(l, Q)
      BY <1>1 DEF Where
<1> QED BY <1>2, <1>5, <1>6 DEF Count

LEMMA CountNone ==
  ASSUME NEW l \in SpList, NEW Q, \A e \in Elems(l) : e \notin Q
  PROVE  Count(l, Q) = 0
<1>1. l \in Seq(SpLine) /\ DOMAIN l = 1 .. Len(l) /\ \A k \in 1 .. Len(l) : l[k] \in Elems(l)
      BY ElemsOf DEF SpList
<1>2. Where(l, Q) = {}
      BY <1>1 DEF Where
<1> QED BY <1>1, <1>2, Counts

(* The first breakpoint of a line goes, when there is one.                 *)
LEMMA CountTaken ==
  ASSUME NEW l \in SpList, NEW line \in Int, NEW ln \in Int
  PROVE  Count(l, BreakAt(ln)) = Count(LineTaken(l, Break, line), BreakAt(ln))
           + One(ln = line /\ Count(l, BreakAt(line)) > 0)
<1> DEFINE on == {i \in DOMAIN l : l[i].id = Break /\ l[i].oline = line}
           n == Min(on)
<1>1. l \in Seq(SpLine) /\ DOMAIN l = 1 .. Len(l) /\ Len(l) \in Nat
      /\ \A i \in 1 .. Len(l) : l[i] \in SpLine
      BY ElemsOf DEF SpList
<1>2. on = Where(l, BreakAt(line))
      BY <1>1 DEF Where, BreakAt
<1>3. Count(l, BreakAt(line)) > 0 <=> on # {}
      BY <1>1, <1>2, Counts
<1>4. LineTaken(l, Break, line) = IF on = {} THEN l ELSE RemoveAt(l, n)
      BY DEF LineTaken
<1>5. Count(l, BreakAt(ln)) \in Nat
      BY <1>1, Counts
<1>6. CASE on = {}
      BY <1>3, <1>4, <1>5, <1>6 DEF One
<1>7. CASE on # {}
  <2>1. on \subseteq Nat
        BY <1>1
  <2>2. n \in on
        BY <1>7, <2>1, MinIsLeast
  <2>3. n \in 1 .. Len(l) /\ l[n].id = Break /\ l[n].oline = line
        BY <1>1, <2>2
  <2> HIDE DEF n, on
  <2>4. Count(l, BreakAt(ln)) = Count(RemoveAt(l, n), BreakAt(ln)) + One(l[n] \in BreakAt(ln))
        BY <1>1, <2>3, CountRemoved
  <2>5. l[n] \in BreakAt(ln) <=> ln = line
        BY <1>1, <2>3, BreakAtIs
  <2> QED BY <1>3, <1>4, <1>7, <2>4, <2>5 DEF One
<1> QED BY <1>6, <1>7


-----------------------------------------------------------------------------
(* What an operation adds: to the lines, and to gdb's breakpoints.         *)

EnabledAt(f, line) == {b \in Breakpoint : b.enabled /\ b.file = f /\ b.line = line}
If(p, d) == IF p THEN d ELSE 0
Off(p) == IF p THEN -1 ELSE 0

LinesGain(n, n2, stray, f, line, d) ==
  \A g \in Files \ stray, ln \in Int : Lined(n2, g, ln) = Lined(n, g, ln) + If(g = f /\ ln = line, d)
BkptsGain(B, B2, f, line, d) ==
  \A g \in Files, ln \in Int :
    Count(B2, EnabledAt(g, ln)) = Count(B, EnabledAt(g, ln)) + If(g = f /\ ln = line, d)

DrawnIn(n, B, stray) ==
  \A f \in Files \ stray, line \in Int : Lined(n, f, line) = Count(B, EnabledAt(f, line))

LEMMA EnabledIs ==
  ASSUME NEW b \in Breakpoint, NEW f, NEW line
  PROVE  b \in EnabledAt(f, line) <=> b.enabled /\ b.file = f /\ b.line = line
BY DEF EnabledAt

LEMMA GainKeeps ==
  ASSUME NEW n, NEW n2, NEW B, NEW B2, NEW stray, NEW f, NEW line, NEW d,
         DrawnIn(n, B, stray), LinesGain(n, n2, stray, f, line, d), BkptsGain(B, B2, f, line, d)
  PROVE  DrawnIn(n2, B2, stray)
<1> SUFFICES ASSUME NEW g \in Files \ stray, NEW ln \in Int
             PROVE  Lined(n2, g, ln) = Count(B2, EnabledAt(g, ln))
    BY DEF DrawnIn
<1>1. Lined(n, g, ln) = Count(B, EnabledAt(g, ln))
      BY DEF DrawnIn
<1>2. Lined(n2, g, ln) = Lined(n, g, ln) + If(g = f /\ ln = line, d)
      BY DEF LinesGain
<1>3. Count(B2, EnabledAt(g, ln)) = Count(B, EnabledAt(g, ln)) + If(g = f /\ ln = line, d)
      BY DEF BkptsGain
<1> QED BY <1>1, <1>2, <1>3

LEMMA LinedIs ==
  ASSUME NEW n \in Nodes, NEW f \in Files, NEW line
  PROVE  Lined(n, f, line) \in Nat
<1>1. ToModify(n, f) \in Seq(SpLine)
      BY ToModifyIs DEF SpList
<1> QED BY <1>1, Counts DEF Lined

LEMMA NoGain ==
  ASSUME NEW n \in Nodes, NEW stray, NEW f, NEW line
  PROVE  LinesGain(n, n, stray, f, line, 0)
<1>1. ASSUME NEW g \in Files, NEW ln
      PROVE  Lined(n, g, ln) = Lined(n, g, ln) + If(g = f /\ ln = line, 0)
  <2>1. Lined(n, g, ln) \in Nat
        BY LinedIs
  <2> QED BY <2>1 DEF If
<1> QED BY <1>1 DEF LinesGain

(* SpLinesAdd()                                                            *)
LEMMA AddGains ==
  ASSUME NEW n \in Nodes, NEW f \in Files, NEW line \in Int, NEW id \in {Error, Break},
         NEW what \in Lines \cup {Unknown}, NEW now, NEW stray
  PROVE  LinesGain(n, SpLinesAdd(n, f, line, id, what, now), stray, f, line, One(id = Break))
<1> DEFINE n2 == SpLinesAdd(n, f, line, id, what, now)
           e == [oline |-> line, nline |-> line, id |-> id, what |-> what]
<1>0. /\ n2 = SpLinesAdd(n, f, line, id, what, now)
      /\ e = [oline |-> line, nline |-> line, id |-> id, what |-> what]
      /\ e.oline = line /\ e.id = id /\ e.what = what
      OBVIOUS
<1> HIDE DEF n2, e
<1>1. Added(n, n2, f, e)
      BY <1>0, Adds
<1>2. /\ ToModify(n2, f) = insert(ToModify(n, f), line, id, what)
      /\ \A g \in Files \ {f} : ToModify(n2, g) = ToModify(n, g)
      BY <1>0, <1>1 DEF Added
<1>3. ASSUME NEW g \in Files \ stray, NEW ln \in Int
      PROVE  Lined(n2, g, ln) = Lined(n, g, ln) + If(g = f /\ ln = line, One(id = Break))
  <2>1. Lined(n, g, ln) \in Nat
        BY LinedIs
  <2>2. CASE g = f
    <3>1. ToModify(n, f) \in SpList
          BY ToModifyIs
    <3>2. Lined(n2, g, ln) = Lined(n, g, ln) + One(id = Break /\ ln = line)
          BY <1>2, <2>2, <3>1, CountInsert DEF Lined
    <3> QED BY <2>2, <3>2 DEF One, If
  <2>3. CASE g # f
    <3>1. Lined(n2, g, ln) = Lined(n, g, ln)
          BY <1>2, <2>3 DEF Lined
    <3> QED BY <2>1, <2>3, <3>1 DEF If
  <2> QED BY <2>2, <2>3
<1> QED BY <1>3 DEF LinesGain, n2

LEMMA AddBreakGains ==
  ASSUME NEW n \in Nodes, NEW b \in Breakpoint, NEW now, NEW stray
  PROVE  LinesGain(n, SpLinesAdd(n, b.file, b.line, Break, b.what, now), stray, b.file, b.line, 1)
<1>1. /\ b.file \in Files /\ b.line \in Int /\ b.what \in Lines \cup {Unknown}
      /\ Break \in {Error, Break}
      BY BreakpointIs
<1>2. LinesGain(n, SpLinesAdd(n, b.file, b.line, Break, b.what, now), stray, b.file, b.line,
                One(Break = Break))
      BY <1>1, AddGains
<1>3. One(Break = Break) = 1
      BY DEF One
<1> QED BY <1>2, <1>3

(* SpLinesDeleteForId(), for a line that has the breakpoint.               *)
LEMMA DeleteLineGains ==
  ASSUME NEW n \in Nodes, NEW f \in Files, NEW line \in Int, NEW stray,
         f \notin stray => Lined(n, f, line) > 0
  PROVE  LinesGain(n, DeleteLineForId(n, Break, f, line), stray, f, line, -1)
<1> DEFINE n2 == DeleteLineForId(n, Break, f, line)
<1> HIDE DEF n2
<1>1. /\ ToModify(n2, f) = LineTaken(ToModify(n, f), Break, line)
      /\ \A g \in Files \ {f} : ToModify(n2, g) = ToModify(n, g)
      /\ n2 \in Nodes
      BY DeletesLine DEF n2
<1>2. ASSUME NEW g \in Files \ stray, NEW ln \in Int
      PROVE  Lined(n2, g, ln) = Lined(n, g, ln) + If(g = f /\ ln = line, -1)
  <2>1. Lined(n, g, ln) \in Nat /\ Lined(n2, g, ln) \in Nat
        BY <1>1, LinedIs
  <2>2. CASE g = f
    <3>1. ToModify(n, f) \in SpList
          BY ToModifyIs
    <3>2. Lined(n, f, ln) = Lined(n2, f, ln) + One(ln = line /\ Lined(n, f, line) > 0)
          BY <1>1, <3>1, CountTaken DEF Lined
    <3>3. Lined(n, f, line) > 0
          BY <2>2
    <3> QED BY <2>1, <2>2, <3>2, <3>3 DEF One, If
  <2>3. CASE g # f
    <3>1. Lined(n2, g, ln) = Lined(n, g, ln)
          BY <1>1, <2>3 DEF Lined
    <3> QED BY <2>1, <2>3, <3>1 DEF If
  <2> QED BY <2>2, <2>3
<1> QED BY <1>2 DEF LinesGain, n2

(* The list of breakpoints.                                                *)
LEMMA Bkpted ==
  ASSUME NEW B \in Seq(Breakpoint), NEW f, NEW line
  PROVE  Count(B, EnabledAt(f, line)) \in Nat
BY Counts

LEMMA AppendGains ==
  ASSUME NEW B \in Seq(Breakpoint), NEW b \in Breakpoint
  PROVE  BkptsGain(B, Append(B, b), b.file, b.line, One(b.enabled))
<1> SUFFICES ASSUME NEW g \in Files, NEW ln \in Int
             PROVE  Count(Append(B, b), EnabledAt(g, ln))
                      = Count(B, EnabledAt(g, ln)) + If(g = b.file /\ ln = b.line, One(b.enabled))
    BY DEF BkptsGain
<1>1. Count(Append(B, b), EnabledAt(g, ln)) = Count(B, EnabledAt(g, ln)) + One(b \in EnabledAt(g, ln))
      BY CountAppended
<1>2. One(b \in EnabledAt(g, ln)) = If(g = b.file /\ ln = b.line, One(b.enabled))
      BY EnabledIs DEF One, If
<1> QED BY <1>1, <1>2

LEMMA RemoveGains ==
  ASSUME NEW B \in Seq(Breakpoint), NEW i \in 1 .. Len(B)
  PROVE  BkptsGain(B, RemoveAt(B, i), B[i].file, B[i].line, Off(B[i].enabled))
<1> DEFINE b == B[i]
           C == RemoveAt(B, i)
<1>1. b \in Breakpoint /\ C \in Seq(Breakpoint)
      BY ElementOfSeq, RemovedAt
<1>2. ASSUME NEW g \in Files, NEW ln \in Int
      PROVE  Count(C, EnabledAt(g, ln))
               = Count(B, EnabledAt(g, ln)) + If(g = b.file /\ ln = b.line, Off(b.enabled))
  <2>1. Count(B, EnabledAt(g, ln)) = Count(C, EnabledAt(g, ln)) + One(b \in EnabledAt(g, ln))
        BY CountRemoved
  <2> HIDE DEF b, C
  <2>2. Off(b \in EnabledAt(g, ln)) = If(g = b.file /\ ln = b.line, Off(b.enabled))
        BY <1>1, EnabledIs DEF Off, If
  <2>3. Count(C, EnabledAt(g, ln)) \in Nat
        BY <1>1, Bkpted
  <2>4. Count(C, EnabledAt(g, ln)) = Count(B, EnabledAt(g, ln)) + Off(b \in EnabledAt(g, ln))
        BY <2>1, <2>3 DEF One, Off
  <2> QED BY <2>2, <2>4
<1> QED BY <1>2 DEF BkptsGain

LEMMA CountChanged ==
  ASSUME NEW B \in Seq(Breakpoint), NEW i \in 1 .. Len(B), NEW b \in Breakpoint, NEW f, NEW line
  PROVE  Count([B EXCEPT ![i] = b], EnabledAt(f, line))
           = Count(B, EnabledAt(f, line))
               - One(B[i] \in EnabledAt(f, line)) + One(b \in EnabledAt(f, line))
BY CountReplaced

LEMMA DisableGains ==
  ASSUME NEW B \in Seq(Breakpoint), NEW i \in 1 .. Len(B), NEW b \in Breakpoint, ~b.enabled
  PROVE  BkptsGain(B, [B EXCEPT ![i] = b], B[i].file, B[i].line, Off(B[i].enabled))
<1> DEFINE a == B[i]
           C == [B EXCEPT ![i] = b]
<1>1. a \in Breakpoint
      BY ElementOfSeq
<1>2. ASSUME NEW g \in Files, NEW ln \in Int
      PROVE  Count(C, EnabledAt(g, ln))
               = Count(B, EnabledAt(g, ln)) + If(g = a.file /\ ln = a.line, Off(a.enabled))
  <2>1. Count(C, EnabledAt(g, ln))
          = Count(B, EnabledAt(g, ln)) - One(a \in EnabledAt(g, ln)) + One(b \in EnabledAt(g, ln))
        BY CountChanged
  <2> HIDE DEF a, C
  <2>2. Off(a \in EnabledAt(g, ln)) = If(g = a.file /\ ln = a.line, Off(a.enabled))
        BY <1>1, EnabledIs DEF Off, If
  <2>3. One(b \in EnabledAt(g, ln)) = 0
        BY EnabledIs DEF One
  <2>4. Count(B, EnabledAt(g, ln)) \in Nat
        BY Bkpted
  <2>5. Count(C, EnabledAt(g, ln)) = Count(B, EnabledAt(g, ln)) + Off(a \in EnabledAt(g, ln))
        BY <2>1, <2>3, <2>4 DEF One, Off
  <2> QED BY <2>2, <2>5
<1> QED BY <1>2 DEF BkptsGain

LEMMA EnableGains ==
  ASSUME NEW B \in Seq(Breakpoint), NEW i \in 1 .. Len(B), NEW b \in Breakpoint, ~B[i].enabled
  PROVE  BkptsGain(B, [B EXCEPT ![i] = b], b.file, b.line, One(b.enabled))
<1> DEFINE a == B[i]
           C == [B EXCEPT ![i] = b]
<1>1. a \in Breakpoint
      BY ElementOfSeq
<1>2. ASSUME NEW g \in Files, NEW ln \in Int
      PROVE  Count(C, EnabledAt(g, ln))
               = Count(B, EnabledAt(g, ln)) + If(g = b.file /\ ln = b.line, One(b.enabled))
  <2>1. Count(C, EnabledAt(g, ln))
          = Count(B, EnabledAt(g, ln)) - One(a \in EnabledAt(g, ln)) + One(b \in EnabledAt(g, ln))
        BY CountChanged
  <2>2. One(a \in EnabledAt(g, ln)) = 0
        BY <1>1, EnabledIs DEF One
  <2> HIDE DEF a, C
  <2>3. One(b \in EnabledAt(g, ln)) = If(g = b.file /\ ln = b.line, One(b.enabled))
        BY EnabledIs DEF One, If
  <2>4. Count(B, EnabledAt(g, ln)) \in Nat
        BY Bkpted
  <2> QED BY <2>1, <2>2, <2>3, <2>4
<1> QED BY <1>2 DEF BkptsGain


-----------------------------------------------------------------------------
(* The actions, but for those that see to all breakpoints.                 *)

Drawn == DrawnIn(nodes, bkpts, astray)

LEMMA StraySame ==
  ASSUME NEW n, NEW B, NEW stray, NEW stray2, DrawnIn(n, B, stray), stray \subseteq stray2
  PROVE  DrawnIn(n, B, stray2)
BY DEF DrawnIn

LEMMA SameDrawn ==
  ASSUME Drawn, UNCHANGED <<nodes, bkpts>>, astray \subseteq astray'
  PROVE  Drawn'
BY StraySame DEF Drawn

(* Lines with the same counts.                                             *)
LEMMA LinedSame ==
  ASSUME Drawn, UNCHANGED bkpts, astray \subseteq astray',
         \A f \in Files, line \in Int : Lined(nodes', f, line) = Lined(nodes, f, line)
  PROVE  Drawn'
BY DEF Drawn, DrawnIn

LEMMA HasEnabled ==
  ASSUME NEW B \in Seq(Breakpoint), NEW i \in 1 .. Len(B), B[i].enabled
  PROVE  Count(B, EnabledAt(B[i].file, B[i].line)) > 0
<1> DEFINE Q == EnabledAt(B[i].file, B[i].line)
<1>1. i \in DOMAIN B /\ B[i] \in Breakpoint
      BY ElementOfSeq, LenProperties
<1>2. B[i] \in Q
      BY <1>1, EnabledIs
<1> HIDE DEF Q
<1>3. i \in Where(B, Q)
      BY <1>1, <1>2 DEF Where
<1>4. Count(B, Q) \in Nat /\ (Count(B, Q) = 0 <=> Where(B, Q) = {})
      BY Counts
<1> QED BY <1>3, <1>4 DEF Q

LEMMA FromGDBGains ==
  ASSUME NEW n \in Nodes, NEW B \in Seq(Breakpoint), NEW stray, DrawnIn(n, B, stray),
         NEW i \in 1 .. Len(B)
  PROVE  LinesGain(n, DeleteFromGDBandSpLines(n, B[i]), stray, B[i].file, B[i].line,
                   Off(B[i].enabled))
<1> DEFINE b == B[i]
<1>1. b \in Breakpoint /\ b.file \in Files /\ b.line \in Int
      BY ElementOfSeq, BreakpointIs
<1>2. CASE b.enabled
  <2>1. Count(B, EnabledAt(b.file, b.line)) > 0
        BY <1>2, HasEnabled
  <2> HIDE DEF b
  <2>2. b.file \notin stray => Lined(n, b.file, b.line) > 0
        BY <1>1, <2>1 DEF DrawnIn
  <2>3. LinesGain(n, DeleteLineForId(n, Break, b.file, b.line), stray, b.file, b.line, -1)
        BY <1>1, <2>2, DeleteLineGains
  <2>4. DeleteFromGDBandSpLines(n, b) = DeleteLineForId(n, Break, b.file, b.line)
        BY <1>2 DEF DeleteFromGDBandSpLines
  <2>5. Off(b.enabled) = -1
        BY <1>2 DEF Off
  <2>6. LinesGain(n, DeleteFromGDBandSpLines(n, b), stray, b.file, b.line, Off(b.enabled))
        BY <2>3, <2>4, <2>5
  <2> QED BY <2>6 DEF b
<1>3. CASE ~b.enabled
  <2> HIDE DEF b
  <2>1. DeleteFromGDBandSpLines(n, b) = n
        BY <1>3 DEF DeleteFromGDBandSpLines
  <2>2. Off(b.enabled) = 0
        BY <1>3 DEF Off
  <2>3. LinesGain(n, DeleteFromGDBandSpLines(n, b), stray, b.file, b.line, Off(b.enabled))
        BY <2>1, <2>2, NoGain
  <2> QED BY <2>3 DEF b
<1> QED BY <1>2, <1>3

(* The editor moves the lines, not where they were set.                    *)
LEMMA EditDrawn ==
  ASSUME IInv, Drawn, NEW f \in Files, NEW move \in [Int -> Int],
         nodes' = MovedTo(nodes, f, move), Edited(f)
  PROVE  Drawn'
<1>1. nodes \in Nodes
      BY StateIs
<1>2. nodes' \in Nodes /\ \A g \in Files : SameKeys(ToModify(nodes, g), ToModify(nodes', g))
      BY <1>1, Moves
<1>3. ASSUME NEW g \in Files, NEW line \in Int
      PROVE  Lined(nodes', g, line) = Lined(nodes, g, line)
  <2> DEFINE l == ToModify(nodes, g)
             l2 == ToModify(nodes', g)
  <2>1. l \in SpList /\ l2 \in SpList /\ SameKeys(l, l2)
        BY <1>1, <1>2, ToModifyIs
  <2> HIDE DEF l, l2
  <2>2. DOMAIN l2 = DOMAIN l /\ \A i \in DOMAIN l : l[i] \in SpLine /\ l2[i] \in SpLine
                              /\ l2[i].id = l[i].id /\ l2[i].oline = l[i].oline
        BY <2>1, ElemsOf DEF SameKeys
  <2>3. \A i \in DOMAIN l : l[i] \in BreakAt(line) <=> l2[i] \in BreakAt(line)
        BY <2>2, BreakAtIs
  <2>4. Count(l, BreakAt(line)) = Count(l2, BreakAt(line))
        BY <2>2, <2>3, CountSame
  <2> QED BY <2>4 DEF Lined, l, l2
<1>4. astray \subseteq astray' /\ UNCHANGED bkpts
      BY DEF Edited
<1> QED BY <1>3, <1>4, LinedSame

LEMMA TextDrawn ==
  ASSUME IInv, Drawn, NEW f \in Files,
         \/ \E k \in 0 .. Len(text[f]) : insertLine(f, k)
         \/ \E k \in 0 .. Len(text[f]) - 1 : deleteLine(f, k)
  PROVE  Drawn'
<1>1. Len(text[f]) \in Nat
      BY TextIs DEF IInv
<1>2. ASSUME NEW k \in 0 .. Len(text[f]), insertLine(f, k)
      PROVE  Drawn'
  <2> DEFINE move == [l \in Int |-> IF l >= k THEN l + 1 ELSE l]
  <2>1. nodes' = MovedTo(nodes, f, move)
        BY <1>2, InsertMoves
  <2>2. move \in [Int -> Int]
    <3>1. \A l \in Int : (IF l >= k THEN l + 1 ELSE l) \in Int
          OBVIOUS
    <3> QED BY <3>1
  <2>3. Edited(f)
        BY <1>2 DEF insertLine
  <2> HIDE DEF move
  <2> QED BY <2>1, <2>2, <2>3, EditDrawn
<1>3. ASSUME NEW k \in 0 .. Len(text[f]) - 1, deleteLine(f, k)
      PROVE  Drawn'
  <2> DEFINE move == [l \in Int |-> IF l > k THEN l - 1 ELSE IF l = k THEN -1 ELSE l]
  <2>1. nodes' = MovedTo(nodes, f, move)
        BY <1>3, DeleteMoves
  <2>2. move \in [Int -> Int]
    <3>1. \A l \in Int : (IF l > k THEN l - 1 ELSE IF l = k THEN -1 ELSE l) \in Int
          BY <1>1
    <3> QED BY <3>1
  <2>3. Edited(f)
        BY <1>3 DEF deleteLine
  <2> HIDE DEF move
  <2> QED BY <2>1, <2>2, <2>3, EditDrawn
<1> QED BY <1>2, <1>3

(* The messages' lines are no breakpoints.                                 *)
LEMMA MessagesDrawn ==
  ASSUME IInv, Drawn,
         \/ EdMessageWindowInit \/ SpLinesUpdate
         \/ \E f \in Files : \E k \in 0 .. Len(disk[f]) - 1, now \in BOOLEAN :
              EdShowMessageFile(f, k, now)
  PROVE  Drawn'
<1>0. nodes \in Nodes /\ Error # Break
      BY StateIs DEF Error, Break
<1>1. CASE EdMessageWindowInit
  <2>1. nodes' = DeleteForId(nodes, Error) /\ UNCHANGED <<bkpts, astray>>
        BY <1>1 DEF EdMessageWindowInit
  <2>2. ASSUME NEW g \in Files, NEW line \in Int
        PROVE  Lined(nodes', g, line) = Lined(nodes, g, line)
    <3>1. ToModify(nodes', g) = Kept(ToModify(nodes, g), Error)
          BY <1>0, <2>1, Deletes
    <3>2. ToModify(nodes, g) \in SpList
          BY <1>0, ToModifyIs
    <3>3. \A e \in BreakAt(line) : e.id # Error
          BY <1>0 DEF BreakAt
    <3>4. Count(Kept(ToModify(nodes, g), Error), BreakAt(line)) = Count(ToModify(nodes, g), BreakAt(line))
          BY <3>2, <3>3, CountKept
    <3> QED BY <3>1, <3>4 DEF Lined
  <2> QED BY <2>1, <2>2, LinedSame
<1>2. CASE SpLinesUpdate
  <2>1. nodes' = SpLinesUpdated(nodes) /\ UNCHANGED <<bkpts, astray>>
        BY <1>2 DEF SpLinesUpdate
  <2>2. \A g \in Files, line \in Int : Lined(nodes', g, line) = Lined(nodes, g, line)
        BY <1>0, <2>1, Updates DEF Lined
  <2> QED BY <2>1, <2>2, LinedSame
<1>3. ASSUME NEW f \in Files, NEW k \in 0 .. Len(disk[f]) - 1, NEW now \in BOOLEAN,
             EdShowMessageFile(f, k, now)
      PROVE  Drawn'
  <2> DEFINE what == Meant(f, k)
  <2>1. nodes' = SpLinesAdd(nodes, f, k, Error, what, now) /\ UNCHANGED <<bkpts, astray>>
        BY <1>3 DEF EdShowMessageFile
  <2>2. k \in Int /\ what \in Lines \cup {Unknown}
        BY MeantIs
  <2> HIDE DEF what
  <2>3. LinesGain(nodes, nodes', {}, f, k, 0)
    <3>1. LinesGain(nodes, SpLinesAdd(nodes, f, k, Error, what, now), {}, f, k, One(Error = Break))
          BY <1>0, <2>2, AddGains
    <3>2. One(Error = Break) = 0
          BY <1>0 DEF One
    <3> QED BY <2>1, <3>1, <3>2
  <2>4. \A g \in Files, line \in Int : Lined(nodes', g, line) = Lined(nodes, g, line)
        BY <1>0, <2>3, LinedIs DEF LinesGain, If
  <2> QED BY <2>1, <2>4, LinedSame
<1> QED BY <1>1, <1>2, <1>3

(* What leaves the lines and the breakpoints alone.                        *)
LEMMA OthersDrawn ==
  ASSUME Drawn,
         \/ \E f \in Files : \/ saveFile(f) \/ openEditor(f)
                             \/ \E discard \in BOOLEAN : closeFile(f, discard)
         \/ EdShowMessage \/ deleteMessage
         \/ \E i \in Jumps : selectItem(i)
         \/ selectNext \/ selectPrev \/ EdJumpToFirstError
         \/ UNCHANGED vars
  PROVE  Drawn'
<1>1. UNCHANGED <<nodes, bkpts>> /\ astray \subseteq astray'
  <2>1. ASSUME NEW f \in Files, \/ saveFile(f) \/ openEditor(f)
                                \/ \E discard \in BOOLEAN : closeFile(f, discard)
        PROVE  UNCHANGED <<nodes, bkpts>> /\ astray \subseteq astray'
        BY <2>1 DEF saveFile, openEditor, closeFile
  <2>2. ASSUME EdShowMessage \/ deleteMessage \/ UNCHANGED vars
        PROVE  UNCHANGED <<nodes, bkpts>> /\ astray \subseteq astray'
        BY <2>2 DEF EdShowMessage, deleteMessage, vars
  <2>3. \A i : selectItem(i) => UNCHANGED <<nodes, bkpts, astray>>
        BY DEF selectItem
  <2>4. \A one : select(one) => UNCHANGED <<nodes, bkpts, astray>>
        BY <2>3 DEF select
  <2>5. selectNext \/ selectPrev \/ EdJumpToFirstError => UNCHANGED <<nodes, bkpts, astray>>
        BY <2>4 DEF selectNext, selectPrev, EdJumpToFirstError
  <2> QED BY <2>1, <2>2, <2>3, <2>5
<1> QED BY <1>1, SameDrawn


(* A breakpoint that comes, goes or is disabled.                           *)
LEMMA ComesDrawn ==
  ASSUME IInv, Drawn, NEW b \in Breakpoint, UNCHANGED astray, bkpts' = Append(bkpts, b),
         nodes' = IF b.enabled THEN SpLinesAdd(nodes, b.file, b.line, Break, b.what, TRUE)
                  ELSE nodes
  PROVE  Drawn'
<1>1. /\ b.file \in Files /\ b.line \in Int /\ b.what \in Lines \cup {Unknown}
      /\ nodes \in Nodes /\ bkpts \in Seq(Breakpoint) /\ Break \in {Error, Break}
      BY BreakpointIs, StateIs
<1>2. BkptsGain(bkpts, bkpts', b.file, b.line, One(b.enabled))
      BY <1>1, AppendGains
<1>3. LinesGain(nodes, nodes', astray, b.file, b.line, One(b.enabled))
  <2>1. CASE b.enabled
    <3>1. nodes' = SpLinesAdd(nodes, b.file, b.line, Break, b.what, TRUE)
          BY <2>1
    <3>2. LinesGain(nodes, nodes', astray, b.file, b.line, 1)
      <4>1. LinesGain(nodes, SpLinesAdd(nodes, b.file, b.line, Break, b.what, TRUE), astray,
                      b.file, b.line, 1)
            BY <1>1, AddBreakGains
      <4> QED BY <3>1, <4>1
    <3>3. One(b.enabled) = 1
          BY <2>1 DEF One
    <3> QED BY <3>2, <3>3
  <2>2. CASE ~b.enabled
    <3>1. nodes' = nodes
          BY <2>2
    <3>2. One(b.enabled) = 0
          BY <2>2 DEF One
    <3> QED BY <1>1, <3>1, <3>2, NoGain
  <2> QED BY <2>1, <2>2
<1>4. DrawnIn(nodes', bkpts', astray)
      BY <1>2, <1>3, GainKeeps DEF Drawn
<1> QED BY <1>4 DEF Drawn

LEMMA DeleteDrawn ==
  ASSUME IInv, Drawn, NEW i \in 1 .. Len(bkpts), UNCHANGED astray,
         bkpts' = RemoveAt(bkpts, i), nodes' = DeleteFromGDBandSpLines(nodes, bkpts[i])
  PROVE  Drawn'
<1>1. nodes \in Nodes /\ bkpts \in Seq(Breakpoint) /\ DrawnIn(nodes, bkpts, astray)
      BY StateIs DEF Drawn
<1>2. BkptsGain(bkpts, bkpts', bkpts[i].file, bkpts[i].line, Off(bkpts[i].enabled))
      BY <1>1, RemoveGains
<1>3. LinesGain(nodes, nodes', astray, bkpts[i].file, bkpts[i].line, Off(bkpts[i].enabled))
      BY <1>1, FromGDBGains
<1>4. DrawnIn(nodes', bkpts', astray)
      BY <1>1, <1>2, <1>3, GainKeeps
<1> QED BY <1>4 DEF Drawn

LEMMA DisableDrawn ==
  ASSUME IInv, Drawn, NEW i \in 1 .. Len(bkpts), Disable(i)
  PROVE  Drawn'
<1> DEFINE b == [bkpts[i] EXCEPT !.enabled = FALSE]
<1>1. nodes \in Nodes /\ bkpts \in Seq(Breakpoint) /\ DrawnIn(nodes, bkpts, astray)
      BY StateIs DEF Drawn
<1>2. b \in Breakpoint /\ ~b.enabled
  <2>1. bkpts[i] \in Breakpoint
        BY StateIs
  <2>2. b \in Breakpoint
        BY <2>1, BreakpointIs
  <2>3. b.enabled = FALSE
        BY <2>1 DEF Breakpoint
  <2> QED BY <2>2, <2>3
<1>3. /\ bkpts' = [bkpts EXCEPT ![i] = b] /\ UNCHANGED astray
      /\ nodes' = DeleteFromGDBandSpLines(nodes, bkpts[i])
      BY DEF Disable
<1> HIDE DEF b
<1>4. BkptsGain(bkpts, bkpts', bkpts[i].file, bkpts[i].line, Off(bkpts[i].enabled))
      BY <1>1, <1>2, <1>3, DisableGains
<1>5. LinesGain(nodes, nodes', astray, bkpts[i].file, bkpts[i].line, Off(bkpts[i].enabled))
      BY <1>1, <1>3, FromGDBGains
<1>6. DrawnIn(nodes', bkpts', astray)
      BY <1>1, <1>4, <1>5, GainKeeps
<1> QED BY <1>3, <1>6 DEF Drawn

LEMMA ToggleDrawn ==
  ASSUME IInv, Drawn, NEW f \in Files, NEW k \in 0 .. Len(text[f]) - 1, DebugToggleBreakpoint(f, k)
  PROVE  Drawn'
<1> DEFINE on == On(nodes, f, Break, k)
           ol == nodes[f].special[Min(on)].oline
           first == Min(SearchBkpt(bkpts, f, ol))
           what == text[f][k + 1]
<1>1. UNCHANGED astray
      BY DEF DebugToggleBreakpoint
<1>2. CASE UNCHANGED <<nodes, bkpts>>
      BY <1>1, <1>2, SameDrawn
<1>3. CASE /\ bkpts' = Append(bkpts, Bkpt(f, k, what))
           /\ nodes' = SpLinesAdd(nodes, f, k, Break, what, TRUE)
  <2> DEFINE b == Bkpt(f, k, what)
  <2>1. what \in Lines \cup {Unknown} /\ k \in Int
        BY TextLine
  <2> HIDE DEF what
  <2>2. b \in Breakpoint /\ b.enabled /\ b.file = f /\ b.line = k /\ b.what = what
    <3>1. b \in Breakpoint
          BY <2>1, BreakpointOf DEF Bkpt
    <3>2. b.enabled /\ b.file = f /\ b.line = k /\ b.what = what
          BY DEF Bkpt
    <3> QED BY <3>1, <3>2
  <2>3. bkpts' = Append(bkpts, b)
        BY <1>3
  <2> HIDE DEF b
  <2>4. nodes' = IF b.enabled THEN SpLinesAdd(nodes, b.file, b.line, Break, b.what, TRUE) ELSE nodes
        BY <1>3, <2>2
  <2> QED BY <1>1, <2>2, <2>3, <2>4, ComesDrawn
<1>4. CASE /\ SearchBkpt(bkpts, f, ol) # {} /\ bkpts[first].enabled
           /\ bkpts' = RemoveAt(bkpts, first)
           /\ nodes' = DeleteLineForId(nodes, Break, f, ol)
  <2> HIDE DEF ol
  <2>1. SearchBkpt(bkpts, f, ol) \subseteq 1 .. Len(bkpts) /\ SearchBkpt(bkpts, f, ol) \subseteq Nat
        BY StateIs DEF SearchBkpt
  <2>2. first \in SearchBkpt(bkpts, f, ol)
        BY <1>4, <2>1, MinIsLeast
  <2>3. first \in 1 .. Len(bkpts) /\ bkpts[first].file = f /\ bkpts[first].line = ol
        BY <2>1, <2>2 DEF SearchBkpt
  <2> HIDE DEF first
  <2>4. nodes' = DeleteFromGDBandSpLines(nodes, bkpts[first])
        BY <1>4, <2>3 DEF DeleteFromGDBandSpLines
  <2> QED BY <1>1, <1>4, <2>3, <2>4, DeleteDrawn
<1> QED BY <1>2, <1>3, <1>4 DEF DebugToggleBreakpoint

LEMMA AddBreakpointDrawn ==
  ASSUME IInv, Drawn, NEW f \in Files, NEW line \in 0 .. Len(text[f]) - 1, NEW enabled \in BOOLEAN,
         Add(f, line, enabled)
  PROVE  Drawn'
<1> DEFINE what == text[f][line + 1]
           b == [Bkpt(f, line, what) EXCEPT !.enabled = enabled]
<1>1. /\ bkpts' = Append(bkpts, b)
      /\ nodes' = IF enabled THEN SpLinesAdd(nodes, f, line, Break, b.what, TRUE) ELSE nodes
      /\ UNCHANGED astray
      BY DEF Add
<1>2. what \in Lines \cup {Unknown} /\ line \in Int
      BY TextLine
<1>3. b \in Breakpoint /\ b.file = f /\ b.line = line /\ b.enabled = enabled
  <2> HIDE DEF what
  <2>1. b \in Breakpoint
        BY <1>2, SetOn
  <2>2. b.file = f /\ b.line = line
        BY DEF Bkpt
  <2>3. b.enabled = enabled
        BY DEF Bkpt
  <2> QED BY <2>1, <2>2, <2>3
<1> HIDE DEF b
<1>4. nodes' = IF b.enabled THEN SpLinesAdd(nodes, b.file, b.line, Break, b.what, TRUE) ELSE nodes
  <2>1. SpLinesAdd(nodes, b.file, b.line, Break, b.what, TRUE) = SpLinesAdd(nodes, f, line, Break, b.what, TRUE)
        BY <1>3
  <2> QED BY <1>1, <1>3, <2>1, Zenon
<1> QED BY <1>1, <1>3, <1>4, ComesDrawn

(* ApplyBkt(): the breakpoint that was taken out of gdb and of the screen, *)
(* in D, is set as it is now.                                              *)
LEMMA ApplyBktDrawn ==
  ASSUME IInv, NEW B \in Seq(Breakpoint), NEW D \in Seq(Breakpoint), NEW n \in Nodes,
         NEW i \in 1 .. Len(B), NEW b \in Breakpoint, NEW gdb,
         DrawnIn(n, D, astray), DOMAIN D = DOMAIN B, ~D[i].enabled,
         \A j \in DOMAIN B \ {i} : D[j] = B[j],
         ApplyBkt(B, n, i, b, gdb)
  PROVE  Drawn'
<1> DEFINE drawn == IF gdb = "accepts" THEN b ELSE B[i]
<1>1. /\ bkpts' = [B EXCEPT ![i] = drawn]
      /\ nodes' = IF drawn.enabled /\ gdb # "refuses"
                  THEN SpLinesAdd(n, drawn.file, drawn.line, Break, drawn.what, TRUE) ELSE n
      /\ astray' = IF drawn.enabled /\ ~(OnItsLine(drawn) /\ gdb # "refuses")
                   THEN astray \cup {drawn.file} ELSE astray
      BY DEF ApplyBkt
<1>2. drawn \in Breakpoint
      BY ElementOfSeq
<1> HIDE DEF drawn
<1>3. /\ drawn.file \in Files /\ drawn.line \in Int /\ drawn.what \in Lines \cup {Unknown}
      /\ Break \in {Error, Break}
      BY <1>2, BreakpointIs
<1>4. i \in 1 .. Len(D) /\ DOMAIN B = 1 .. Len(B) /\ DOMAIN D = 1 .. Len(D)
      BY LenProperties
<1>5. bkpts' = [D EXCEPT ![i] = drawn]
  <2>1. \A j \in DOMAIN B : [B EXCEPT ![i] = drawn][j] = [D EXCEPT ![i] = drawn][j]
        OBVIOUS
  <2> QED BY <1>1, <2>1
<1>6. BkptsGain(D, bkpts', drawn.file, drawn.line, One(drawn.enabled))
      BY <1>2, <1>4, <1>5, EnableGains
<1>7. DrawnIn(n, D, astray') /\ astray \subseteq astray'
  <2>1. astray \subseteq astray'
        BY <1>1
  <2> QED BY <2>1, StraySame
<1>8. LinesGain(n, nodes', astray', drawn.file, drawn.line, One(drawn.enabled))
  <2>1. CASE drawn.enabled /\ gdb # "refuses"
    <3>1. nodes' = SpLinesAdd(n, drawn.file, drawn.line, Break, drawn.what, TRUE)
          BY <1>1, <2>1
    <3>2. LinesGain(n, nodes', astray', drawn.file, drawn.line, 1)
      <4>1. LinesGain(n, SpLinesAdd(n, drawn.file, drawn.line, Break, drawn.what, TRUE), astray',
                      drawn.file, drawn.line, 1)
            BY <1>2, AddBreakGains
      <4> QED BY <3>1, <4>1
    <3>3. One(drawn.enabled) = 1
          BY <2>1 DEF One
    <3> QED BY <3>2, <3>3
  <2>2. CASE drawn.enabled /\ gdb = "refuses"
    <3>1. nodes' = n /\ drawn.file \in astray'
          BY <1>1, <2>2
    <3>2. \A g \in Files \ astray', ln \in Int :
            Lined(nodes', g, ln) = Lined(n, g, ln) + If(g = drawn.file /\ ln = drawn.line, One(drawn.enabled))
          BY <3>1, LinedIs DEF If
    <3> QED BY <3>2 DEF LinesGain
  <2>3. CASE ~drawn.enabled
    <3>1. nodes' = n
          BY <1>1, <2>3
    <3>2. One(drawn.enabled) = 0
          BY <2>3 DEF One
    <3> QED BY <3>1, <3>2, NoGain
  <2> QED BY <2>1, <2>2, <2>3
<1>9. DrawnIn(nodes', bkpts', astray')
      BY <1>6, <1>7, <1>8, GainKeeps
<1> QED BY <1>9 DEF Drawn

LEMMA EnableDrawn ==
  ASSUME IInv, Drawn, NEW i \in 1 .. Len(bkpts), NEW gdb, Enable(i, gdb)
  PROVE  Drawn'
<1> DEFINE B == [bkpts EXCEPT ![i].enabled = TRUE]
<1>1. ApplyBkt(B, nodes, i, B[i], gdb) /\ ~bkpts[i].enabled
      BY DEF Enable
<1>2. B \in Seq(Breakpoint) /\ B[i] \in Breakpoint /\ B \in Breakpoints(Len(bkpts))
      BY EnabledAs
<1>3. DOMAIN bkpts = DOMAIN B /\ \A j \in DOMAIN B \ {i} : bkpts[j] = B[j]
      OBVIOUS
<1> HIDE DEF B
<1>4. i \in 1 .. Len(B)
      BY <1>2 DEF Breakpoints
<1>5. nodes \in Nodes /\ bkpts \in Seq(Breakpoint) /\ DrawnIn(nodes, bkpts, astray)
      BY StateIs DEF Drawn
<1> QED BY <1>1, <1>2, <1>3, <1>4, <1>5, ApplyBktDrawn

LEMMA ModifyDrawn ==
  ASSUME IInv, Drawn, NEW i \in 1 .. Len(bkpts), NEW line \in 0 .. Len(text[bkpts[i].file]) - 1,
         NEW enabled \in BOOLEAN, NEW gdb, Modify(i, line, enabled, gdb)
  PROVE  Drawn'
<1> DEFINE f == bkpts[i].file
           what == text[f][line + 1]
           b == [Bkpt(f, line, what) EXCEPT !.enabled = enabled]
           n == DeleteFromGDBandSpLines(nodes, bkpts[i])
           off == [bkpts[i] EXCEPT !.enabled = FALSE]
           D == [bkpts EXCEPT ![i] = off]
<1>1. ApplyBkt(bkpts, n, i, b, gdb)
      BY DEF Modify
<1>2. f \in Files /\ bkpts[i] \in Breakpoint /\ nodes \in Nodes /\ bkpts \in Seq(Breakpoint)
      /\ DrawnIn(nodes, bkpts, astray)
      BY StateIs DEF Drawn
<1>3. b \in Breakpoint
  <2>1. what \in Lines \cup {Unknown} /\ line \in Int
        BY <1>2, TextLine
  <2> HIDE DEF what
  <2> QED BY <1>2, <2>1, SetOn
<1>4. off \in Breakpoint /\ ~off.enabled
  <2>1. off \in Breakpoint
        BY <1>2, BreakpointIs
  <2>2. off.enabled = FALSE
        BY <1>2 DEF Breakpoint
  <2> QED BY <2>1, <2>2
<1> HIDE DEF b, off
<1>5. LinesGain(nodes, n, astray, bkpts[i].file, bkpts[i].line, Off(bkpts[i].enabled))
      BY <1>2, FromGDBGains
<1>6. BkptsGain(bkpts, D, bkpts[i].file, bkpts[i].line, Off(bkpts[i].enabled))
      BY <1>2, <1>4, DisableGains
<1>7. DrawnIn(n, D, astray)
      BY <1>2, <1>5, <1>6, GainKeeps
<1>8. D \in Seq(Breakpoint)
  <2>1. D \in Breakpoints(Len(bkpts))
        BY <1>4, StateIs, BreakpointsAre
  <2> QED BY <2>1 DEF Breakpoints
<1>9. DOMAIN D = DOMAIN bkpts /\ D[i] = off /\ \A j \in DOMAIN bkpts \ {i} : D[j] = bkpts[j]
      BY StateIs
<1>10. n \in Nodes
  <2>1. Keeps(nodes, n, astray, text)
        BY <1>2, FromGDBKeeps
  <2> QED BY <2>1 DEF Keeps
<1> HIDE DEF D, n
<1> QED BY <1>1, <1>2, <1>3, <1>4, <1>7, <1>8, <1>9, <1>10, ApplyBktDrawn


-----------------------------------------------------------------------------
(* apply(): all breakpoints' lines go, and those that gdb took come back.  *)

LEMMA AppliedGains ==
  ASSUME NEW n \in Nodes, NEW b \in Breakpoint, NEW refused
  PROVE  LinesGain(n, AppliedOne(n, b, refused), {}, b.file, b.line, One(b.enabled /\ b # refused))
<1>1. /\ b.file \in Files /\ b.line \in Int /\ b.what \in Lines \cup {Unknown}
      /\ Break \in {Error, Break}
      BY BreakpointIs
<1>2. CASE b.enabled /\ b # refused
  <2>1. AppliedOne(n, b, refused) = SpLinesAdd(n, b.file, b.line, Break, b.what, FALSE)
        BY <1>2 DEF AppliedOne
  <2>2. LinesGain(n, AppliedOne(n, b, refused), {}, b.file, b.line, 1)
    <3>1. LinesGain(n, SpLinesAdd(n, b.file, b.line, Break, b.what, FALSE), {}, b.file, b.line, 1)
          BY AddBreakGains
    <3> QED BY <2>1, <3>1
  <2>3. One(b.enabled /\ b # refused) = 1
        BY <1>2 DEF One
  <2> QED BY <2>2, <2>3
<1>3. CASE ~(b.enabled /\ b # refused)
  <2>1. AppliedOne(n, b, refused) = n
        BY <1>3 DEF AppliedOne
  <2>2. One(b.enabled /\ b # refused) = 0
        BY <1>3 DEF One
  <2> QED BY <2>1, <2>2, NoGain
<1> QED BY <1>2, <1>3

LEMMA ApplyDrawn ==
  ASSUME IInv, NEW refused, apply(refused)
  PROVE  Drawn'
<1> DEFINE N == Len(bkpts)
           taken(b) == b.enabled /\ b # refused
           At(k, g, ln) == {j \in 1 .. k : bkpts'[j] \in EnabledAt(g, ln)}
<1>1. /\ nodes \in Nodes /\ bkpts \in Breakpoints(N) /\ N \in Nat
      /\ DOMAIN bkpts = 1 .. N /\ \A k \in 1 .. N : bkpts[k] \in Breakpoint
      BY StateIs
<1>2. DOMAIN bkpts' = 1 .. N /\ \A k \in 1 .. N : bkpts'[k] = [bkpts[k] EXCEPT !.enabled = taken(bkpts[k])]
      BY <1>1 DEF apply
<1>3. PICK w : ApplyTurns(w, refused)
      BY <1>1, AppliesAll
<1>4. /\ w[0] = DeleteForId(nodes, Break)
      /\ \A k \in 0 .. N : w[k] \in Nodes
      /\ \A k \in 1 .. N : w[k] = AppliedOne(w[k - 1], bkpts[k], refused)
      /\ nodes' = SpLinesUpdated(w[N]) \/ nodes' = w[N]
      BY <1>3 DEF ApplyTurns
<1>5. ASSUME NEW k \in 1 .. N, NEW g, NEW ln
      PROVE  bkpts'[k] \in EnabledAt(g, ln)
               <=> taken(bkpts[k]) /\ g = bkpts[k].file /\ ln = bkpts[k].line
  <2> DEFINE b == bkpts[k]
             on == taken(b)
             b2 == [b EXCEPT !.enabled = on]
  <2>1. b \in Breakpoint /\ on \in BOOLEAN
        BY <1>1
  <2>2. bkpts'[k] = b2
        BY <1>2
  <2> HIDE DEF b, on
  <2>3. b2 \in Breakpoint
        BY <2>1, BreakpointIs
  <2>4. b2.file = b.file /\ b2.line = b.line
        BY <2>1 DEF Breakpoint
  <2>5. b2.enabled = on
        BY <2>1 DEF Breakpoint
  <2>6. b2 \in EnabledAt(g, ln) <=> b2.enabled /\ b2.file = g /\ b2.line = ln
        BY <2>3, EnabledIs
  <2> HIDE DEF b2
  <2>7. b2 \in EnabledAt(g, ln) <=> on /\ b.file = g /\ b.line = ln
        BY <2>4, <2>5, <2>6
  <2> QED BY <2>2, <2>7 DEF on, b
<1> HIDE DEF taken
<1> DEFINE Agree(k, g, ln) == IsFiniteSet(At(k, g, ln)) /\ Lined(w[k], g, ln) = Cardinality(At(k, g, ln))
           T == {k \in 0 .. N : \A g \in Files, ln \in Int : Agree(k, g, ln)}
<1>6. 0 \in T
  <2>1. ASSUME NEW g \in Files, NEW ln \in Int
        PROVE  Agree(0, g, ln)
    <3>1. At(0, g, ln) = {}
          OBVIOUS
    <3>2. Elems(ToModify(w[0], g)) = {e \in Elems(ToModify(nodes, g)) : e.id # Break}
          BY <1>1, <1>4, Deletes
    <3>3. ToModify(w[0], g) \in SpList
          BY <1>1, <1>4, ToModifyIs
    <3>4. \A e \in Elems(ToModify(w[0], g)) : e \notin BreakAt(ln)
          BY <3>2 DEF BreakAt
    <3>5. Lined(w[0], g, ln) = 0
          BY <3>3, <3>4, CountNone DEF Lined
    <3> HIDE DEF At
    <3> QED BY <3>1, <3>5, FS_EmptySet
  <2> HIDE DEF Agree
  <2> QED BY <1>1, <2>1
<1>7. ASSUME NEW j \in 0 .. N - 1, j \in T
      PROVE  j + 1 \in T
  <2> DEFINE k == j + 1
             b == bkpts[k]
  <2>1. k \in 1 .. N /\ k - 1 = j /\ k \in 0 .. N /\ j \in 0 .. N
        BY <1>1
  <2>2. ASSUME NEW g \in Files, NEW ln \in Int
        PROVE  Agree(k, g, ln)
    <3>1. At(j, g, ln) \ {k} = At(k, g, ln) \ {k} /\ ~(k \in At(j, g, ln))
          BY <2>1
    <3>2. k \in At(k, g, ln) <=> taken(b) /\ g = b.file /\ ln = b.line
      <4>1. k \in At(k, g, ln) <=> bkpts'[k] \in EnabledAt(g, ln)
            BY <2>1
      <4> QED BY <1>5, <2>1, <4>1
    <3>3. IsFiniteSet(At(j, g, ln)) /\ Lined(w[j], g, ln) = Cardinality(At(j, g, ln))
          BY <1>7
    <3>4. w[k] = AppliedOne(w[j], b, refused) /\ w[j] \in Nodes /\ b \in Breakpoint
          BY <1>1, <1>4, <2>1
    <3> HIDE DEF At, k, b
    <3>5. /\ IsFiniteSet(At(k, g, ln)) /\ Cardinality(At(j, g, ln)) \in Nat
          /\ Cardinality(At(k, g, ln)) = Cardinality(At(j, g, ln)) - One(k \in At(j, g, ln)) + One(k \in At(k, g, ln))
          BY <3>1, <3>3, OneDiffers
    <3>6. LinesGain(w[j], w[k], {}, b.file, b.line, One(taken(b)))
          BY <3>4, AppliedGains DEF taken
    <3>7. Lined(w[k], g, ln) = Lined(w[j], g, ln) + If(g = b.file /\ ln = b.line, One(taken(b)))
          BY <3>6 DEF LinesGain
    <3>8. One(k \in At(k, g, ln)) = If(g = b.file /\ ln = b.line, One(taken(b)))
          BY <3>2 DEF One, If
    <3>9. One(k \in At(j, g, ln)) = 0
          BY <3>1 DEF One
    <3> QED BY <3>3, <3>5, <3>7, <3>8, <3>9
  <2> HIDE DEF Agree, k
  <2>3. k \in T
        BY <2>1, <2>2
  <2> QED BY <2>3 DEF k
<1>8. N \in T
  <2> HIDE DEF T, N
  <2>1. \A k \in 0 .. N : k \in T
        BY <1>1, <1>6, <1>7, Turns
  <2> QED BY <1>1, <2>1
<1>9. ASSUME NEW g \in Files, NEW ln \in Int
      PROVE  Lined(nodes', g, ln) = Count(bkpts', EnabledAt(g, ln))
  <2>1. At(N, g, ln) = Where(bkpts', EnabledAt(g, ln))
        BY <1>2 DEF Where
  <2>2. Lined(w[N], g, ln) = Cardinality(At(N, g, ln))
        BY <1>8
  <2>3. w[N] \in Nodes
        BY <1>1, <1>4
  <2> HIDE DEF At, N
  <2>4. ToModify(nodes', g) = ToModify(w[N], g)
        BY <1>4, <2>3, Updates
  <2> QED BY <2>1, <2>2, <2>4 DEF Lined, Count
<1> QED BY <1>9 DEF Drawn, DrawnIn


-----------------------------------------------------------------------------
(* DebugMoveBreakPts(): each enabled breakpoint goes to where its line is, *)
(* and the line says so.                                                   *)

LEMMA MovesHit ==
  ASSUME NEW M, NEW B \in Breakpoints(M), NEW f, NEW sp \in SpLine, Hit(B, f, sp) # {},
         NEW i, i = Min(Hit(B, f, sp)), NEW b, b = [B[i] EXCEPT !.line = sp.nline]
  PROVE  /\ i \in 1 .. M /\ B[i].file = f /\ B[i].line = sp.oline /\ sp.id = Break
         /\ MovedOne(B, f, sp) = [B EXCEPT ![i] = b] /\ b \in Breakpoint
         /\ b.file = f /\ b.line = sp.nline /\ (b.enabled <=> B[i].enabled)
<1>1. Hit(B, f, sp) = SearchBkpt(B, f, sp.oline) /\ sp.id = Break
      BY DEF Hit
<1>2. Hit(B, f, sp) \subseteq 1 .. M /\ M \in Nat /\ DOMAIN B = 1 .. M
      BY <1>1, BreakpointsAre DEF SearchBkpt
<1>3. i \in Hit(B, f, sp)
  <2>1. Hit(B, f, sp) \subseteq Nat
        BY <1>2
  <2> QED BY <2>1, MinIsLeast
<1>4. i \in 1 .. M /\ B[i].file = f /\ B[i].line = sp.oline
      BY <1>1, <1>2, <1>3 DEF SearchBkpt
<1>5. MovedOne(B, f, sp) = [B EXCEPT ![i] = b]
      BY DEF MovedOne
<1> DEFINE a == B[i]
<1>6. a \in Breakpoint /\ sp.nline \in Int
      BY <1>4, BreakpointsAre DEF SpLine
<1> HIDE DEF a
<1>7. b = [a EXCEPT !.line = sp.nline]
      BY DEF a
<1>8. b \in Breakpoint
      BY <1>6, <1>7, BreakpointIs
<1>9. b.file = a.file /\ b.line = sp.nline /\ b.enabled = a.enabled
      BY <1>6, <1>7 DEF Breakpoint
<1> QED BY <1>1, <1>4, <1>5, <1>8, <1>9 DEF a

(* None changes its file, or is enabled or disabled.                       *)
SameBkpts(B, B2, M) ==
  \A i \in 1 .. M : B2[i].file = B[i].file /\ (B2[i].enabled <=> B[i].enabled)

LEMMA MovedSame ==
  ASSUME NEW M, NEW B \in Breakpoints(M), NEW f, NEW sp \in SpLine
  PROVE  SameBkpts(B, MovedOne(B, f, sp), M)
<1>1. CASE Hit(B, f, sp) = {}
      BY <1>1 DEF MovedOne, SameBkpts
<1>2. CASE Hit(B, f, sp) # {}
  <2> DEFINE i == Min(Hit(B, f, sp))
             b == [B[i] EXCEPT !.line = sp.nline]
             B2 == MovedOne(B, f, sp)
  <2>0. i = Min(Hit(B, f, sp)) /\ b = [B[i] EXCEPT !.line = sp.nline]
        OBVIOUS
  <2> HIDE DEF i, b
  <2>1. /\ i \in 1 .. M /\ B[i].file = f /\ B2 = [B EXCEPT ![i] = b]
        /\ b.file = f /\ (b.enabled <=> B[i].enabled)
        BY <1>2, <2>0, MovesHit
  <2>2. DOMAIN B = 1 .. M
        BY BreakpointsAre
  <2> HIDE DEF B2
  <2>3. B2[i] = b /\ \A j \in 1 .. M : j # i => B2[j] = B[j]
        BY <2>1, <2>2
  <2>4. SameBkpts(B, B2, M)
        BY <2>1, <2>3 DEF SameBkpts
  <2> QED BY <2>4 DEF B2
<1> QED BY <1>1, <1>2

LEMMA MovedAllSame ==
  ASSUME NEW M, bkpts \in Breakpoints(M), NEW f, nodes[f].special \in SpList,
         NEW w, MoveTurns(w, M, f)
  PROVE  \A k \in 0 .. Len(nodes[f].special) : SameBkpts(bkpts, w[k], M)
<1> DEFINE l == nodes[f].special
           N == Len(l)
           T == {k \in 0 .. N : SameBkpts(bkpts, w[k], M)}
<1>1. N \in Nat /\ \A k \in 1 .. N : l[k] \in SpLine
      BY ElemsOf
<1>2. /\ w[0] = bkpts /\ \A k \in 0 .. N : w[k] \in Breakpoints(M)
      /\ \A k \in 1 .. N : w[k] = MovedOne(w[k - 1], f, l[k])
      BY DEF MoveTurns
<1>3. 0 \in T
      BY <1>1, <1>2 DEF SameBkpts
<1>4. ASSUME NEW j \in 0 .. N - 1, j \in T
      PROVE  j + 1 \in T
  <2> DEFINE k == j + 1
  <2>1. k \in 1 .. N /\ k - 1 = j /\ k \in 0 .. N /\ j \in 0 .. N
        BY <1>1
  <2>2. SameBkpts(bkpts, w[j], M)
        BY <1>4
  <2> HIDE DEF k, l, N
  <2>3. SameBkpts(w[j], w[k], M)
        BY <1>1, <1>2, <2>1, MovedSame
  <2>4. SameBkpts(bkpts, w[k], M)
        BY <2>2, <2>3 DEF SameBkpts
  <2> QED BY <2>1, <2>4 DEF k
<1> HIDE DEF T, N
<1>5. \A k \in 0 .. N : k \in T
      BY <1>1, <1>3, <1>4, Turns
<1> QED BY <1>5 DEF T, N

(* As many special lines were set on each line as breakpoints are there.   *)
LEMMA MoveCounts ==
  ASSUME NEW M, bkpts \in Breakpoints(M), NEW f \in Files, nodes[f].special \in SpList,
         NEW w, MoveTurns(w, M, f), ~Masked(f),
         \A line \in Int :
           Count(nodes[f].special, BreakAt(line)) = Count(bkpts, EnabledAt(f, line)),
         MovedBkpts(f).special \in Seq(SpLine),
         Len(MovedBkpts(f).special) = Len(nodes[f].special)
  PROVE  \A line \in Int :
           Count(MovedBkpts(f).special, BreakAt(line))
             = Count(MovedBkpts(f).bkpts, EnabledAt(f, line))
<1> DEFINE l == nodes[f].special
           l2 == MovedBkpts(f).special
           N == Len(l)
           At(k, j) == IF j <= k THEN l[j].nline ELSE l[j].oline
           Of(k, line) == {j \in 1 .. N : l[j].id = Break /\ At(k, j) = line}
           Agree(k, line) == /\ IsFiniteSet(Of(k, line))
                             /\ Count(w[k], EnabledAt(f, line)) = Cardinality(Of(k, line))
           Still(k) == \A i \in 1 .. M :
                         w[k][i].file = f /\ ~w[k][i].enabled => w[k][i].line = bkpts[i].line
           T == {k \in 0 .. N : Still(k) /\ \A line \in Int : Agree(k, line)}
<1>1. /\ N \in Nat /\ DOMAIN l = 1 .. N
      /\ \A k \in 1 .. N : l[k] \in SpLine /\ l[k].nline \in Int /\ l[k].oline \in Int
  <2>1. N \in Nat /\ DOMAIN l = 1 .. N /\ \A k \in 1 .. N : l[k] \in SpLine
        BY ElemsOf
  <2> QED BY <2>1 DEF SpLine
<1>2. /\ w[0] = bkpts /\ MovedBkpts(f).bkpts = w[N]
      /\ \A k \in 0 .. N : w[k] \in Breakpoints(M)
      /\ \A k \in 1 .. N : w[k] = MovedOne(w[k - 1], f, l[k])
      /\ \A k \in 1 .. N : l2[k] = IF Hit(w[k - 1], f, l[k]) = {} THEN l[k]
                                   ELSE [l[k] EXCEPT !.oline = l[k].nline]
      BY DEF MoveTurns
<1>3. \A k \in 0 .. N : SameBkpts(bkpts, w[k], M)
      BY MovedAllSame
<1>4. M \in Nat /\ DOMAIN bkpts = 1 .. M /\ \A i \in 1 .. M : bkpts[i] \in Breakpoint
      BY BreakpointsAre
<1>5. IsFiniteSet(1 .. N)
      BY <1>1, FS_Interval
<1>6. \A i \in 1 .. M, j \in 1 .. N :
        bkpts[i].file = f /\ l[j].id = Break /\ l[j].oline = bkpts[i].line => bkpts[i].enabled
      BY <1>1, <1>4 DEF Masked
<1> HIDE DEF l, l2
<1>7. 0 \in T
  <2>1. ASSUME NEW line \in Int PROVE Agree(0, line)
    <3>1. Of(0, line) = Where(l, BreakAt(line))
      <4>1. \A j \in 1 .. N : At(0, j) = l[j].oline
            BY <1>1
      <4> HIDE DEF At
      <4> QED BY <1>1, <4>1 DEF Where, BreakAt
    <3>2. Of(0, line) \subseteq 1 .. N
          OBVIOUS
    <3> HIDE DEF Of
    <3>3. IsFiniteSet(Of(0, line))
          BY <1>5, <3>2, FS_Subset
    <3>4. Count(l, BreakAt(line)) = Count(bkpts, EnabledAt(f, line))
          BY DEF l
    <3> QED BY <1>2, <3>1, <3>3, <3>4 DEF Count
  <2>2. Still(0)
        BY <1>2
  <2> HIDE DEF Agree, Still
  <2> QED BY <1>1, <2>1, <2>2
(* A breakpoint is on each line that is left, and it is enabled. *)
<1>8. ASSUME NEW j \in 0 .. N - 1, j \in T, NEW k, k = j + 1, l[k].id = Break
      PROVE  /\ Hit(w[j], f, l[k]) # {}
             /\ w[j][Min(Hit(w[j], f, l[k]))].enabled
  <2> DEFINE sp == l[k]
             B == w[j]
             Q == EnabledAt(f, sp.oline)
  <2>1. k \in 1 .. N /\ k - 1 = j /\ j \in 0 .. N /\ ~(k <= j)
        BY <1>1, <1>8
  <2>2. sp \in SpLine /\ sp.oline \in Int /\ B \in Breakpoints(M) /\ B \in Seq(Breakpoint)
        BY <1>1, <1>2, <2>1 DEF Breakpoints
  <2>3. k \in Of(j, sp.oline)
        BY <1>8, <2>1
  <2>4. IsFiniteSet(Of(j, sp.oline)) /\ Count(B, Q) = Cardinality(Of(j, sp.oline))
        BY <1>8, <2>2
  <2> HIDE DEF sp, B, Of, Q
  <2>5. Count(B, Q) # 0
        BY <2>3, <2>4, FS_EmptySet
  <2>6. PICK i \in DOMAIN B : B[i] \in Q
    <3>1. Where(B, Q) # {}
          BY <2>2, <2>5, Counts
    <3> QED BY <3>1 DEF Where
  <2>7. DOMAIN B = 1 .. M /\ \A h \in 1 .. M : B[h] \in Breakpoint
        BY <2>2, BreakpointsAre
  <2>8. B[i].file = f /\ B[i].line = sp.oline
        BY <2>6, <2>7, EnabledIs DEF Q
  <2>9. Hit(B, f, sp) # {}
        BY <1>8, <2>6, <2>8 DEF Hit, SearchBkpt, sp
  <2> DEFINE h == Min(Hit(B, f, sp))
             b == [B[h] EXCEPT !.line = sp.nline]
  <2>0. h = Min(Hit(B, f, sp)) /\ b = [B[h] EXCEPT !.line = sp.nline]
        OBVIOUS
  <2> HIDE DEF h, b
  <2>10. h \in 1 .. M /\ B[h].file = f /\ B[h].line = sp.oline
         BY <2>0, <2>2, <2>9, MovesHit
  <2>11. B[h].enabled
    <3> SUFFICES ASSUME ~B[h].enabled PROVE FALSE
        OBVIOUS
    <3>1. B[h].line = bkpts[h].line
          BY <1>8, <2>10 DEF B
    <3>2. bkpts[h].file = f /\ ~bkpts[h].enabled
          BY <1>3, <2>1, <2>10 DEF SameBkpts, B
    <3> QED BY <1>6, <1>8, <2>1, <2>10, <3>1, <3>2 DEF sp
  <2> QED BY <2>9, <2>11 DEF h, sp, B
<1>9. ASSUME NEW j \in 0 .. N - 1, j \in T
      PROVE  j + 1 \in T
  <2> DEFINE k == j + 1
             sp == l[k]
             B == w[j]
             B2 == w[k]
             h == Min(Hit(B, f, sp))
             b == [B[h] EXCEPT !.line = sp.nline]
  <2>1. k \in 1 .. N /\ k - 1 = j /\ k \in 0 .. N /\ j \in 0 .. N /\ ~(k <= j) /\ k <= k
        BY <1>1
  <2>2. \A i \in 1 .. N : i # k => (i <= j <=> i <= k)
        BY <1>1
  <2>3. sp \in SpLine /\ B \in Breakpoints(M) /\ B2 = MovedOne(B, f, sp)
        BY <1>1, <1>2, <2>1
  <2>4. h = Min(Hit(B, f, sp)) /\ b = [B[h] EXCEPT !.line = sp.nline]
        OBVIOUS
  <2>5. ASSUME sp.id = Break
        PROVE  Hit(B, f, sp) # {} /\ B[h].enabled
        BY <1>8, <1>9, <2>5
  <2>6. Still(j) /\ \A line \in Int : Agree(j, line)
        BY <1>9
  <2>7. sp.nline \in Int /\ sp.oline \in Int
        BY <1>1, <2>1
  <2> HIDE DEF h, b
  <2>8. ASSUME NEW line \in Int
        PROVE  /\ Of(j, line) \ {k} = Of(k, line) \ {k}
               /\ k \in Of(j, line) <=> sp.id = Break /\ sp.oline = line
               /\ k \in Of(k, line) <=> sp.id = Break /\ sp.nline = line
    <3>1. \A i \in 1 .. N : i # k => At(j, i) = At(k, i)
          BY <2>2
    <3>2. At(j, k) = sp.oline /\ At(k, k) = sp.nline
          BY <2>1
    <3> HIDE DEF At, k
    <3> QED BY <2>1, <3>1, <3>2
  <2> HIDE DEF sp, B, B2, Of, k
  <2>9. ASSUME NEW line \in Int
        PROVE  /\ IsFiniteSet(Of(k, line)) /\ Cardinality(Of(j, line)) \in Nat
               /\ Cardinality(Of(k, line)) = Count(B, EnabledAt(f, line))
                    - One(sp.id = Break /\ sp.oline = line) + One(sp.id = Break /\ sp.nline = line)
               /\ Count(B, EnabledAt(f, line)) \in Nat
    <3>1. IsFiniteSet(Of(j, line)) /\ Count(B, EnabledAt(f, line)) = Cardinality(Of(j, line))
          BY <2>6 DEF B
    <3>2. /\ IsFiniteSet(Of(k, line)) /\ Cardinality(Of(j, line)) \in Nat
          /\ Cardinality(Of(k, line)) = Cardinality(Of(j, line)) - One(k \in Of(j, line)) + One(k \in Of(k, line))
          BY <2>8, <3>1, OneDiffers
    <3>3. /\ One(k \in Of(j, line)) = One(sp.id = Break /\ sp.oline = line)
          /\ One(k \in Of(k, line)) = One(sp.id = Break /\ sp.nline = line)
          BY <2>8 DEF One
    <3> QED BY <3>1, <3>2, <3>3
  <2>10. CASE sp.id # Break
    <3>1. B2 = B
          BY <2>3, <2>10 DEF MovedOne, Hit
    <3>2. \A line \in Int : Count(B2, EnabledAt(f, line)) = Cardinality(Of(k, line))
          BY <2>9, <2>10, <3>1 DEF One
    <3>3. Still(k)
          BY <2>6, <3>1 DEF B, B2
    <3> QED BY <2>1, <2>9, <3>2, <3>3 DEF B2, k
  <2>11. CASE sp.id = Break
    <3>1. /\ h \in 1 .. M /\ B[h].file = f /\ B[h].line = sp.oline /\ B[h].enabled
          /\ B2 = [B EXCEPT ![h] = b] /\ b \in Breakpoint
          /\ b.file = f /\ b.line = sp.nline /\ b.enabled
          BY <2>3, <2>4, <2>5, <2>11, MovesHit
    <3>2. B \in Seq(Breakpoint) /\ Len(B) = M /\ DOMAIN B = 1 .. M /\ B[h] \in Breakpoint
          BY <2>3, <3>1, BreakpointsAre
    <3>3. ASSUME NEW line \in Int
          PROVE  Count(B2, EnabledAt(f, line)) = Cardinality(Of(k, line))
      <4>1. Count(B2, EnabledAt(f, line)) = Count(B, EnabledAt(f, line))
              - One(B[h] \in EnabledAt(f, line)) + One(b \in EnabledAt(f, line))
        <5>1. /\ B \in Seq(Breakpoint) /\ h \in 1 .. Len(B) /\ b \in Breakpoint
              BY <3>1, <3>2
        <5>2. Count([B EXCEPT ![h] = b], EnabledAt(f, line))
                = Count(B, EnabledAt(f, line))
                    - One(B[h] \in EnabledAt(f, line)) + One(b \in EnabledAt(f, line))
              BY <5>1, CountChanged
        <5> QED BY <3>1, <5>2
      <4>2. /\ B[h] \in EnabledAt(f, line) <=> sp.oline = line
            /\ b \in EnabledAt(f, line) <=> sp.nline = line
            BY <3>1, <3>2, EnabledIs
      <4> QED BY <2>9, <2>11, <4>1, <4>2 DEF One
    <3>4. Still(k)
      <4>1. B2[h] = b /\ \A i \in 1 .. M : i # h => B2[i] = B[i]
            BY <3>1, <3>2
      <4> QED BY <2>6, <3>1, <4>1 DEF B, B2
    <3> QED BY <2>1, <2>9, <3>3, <3>4 DEF B2, k
  <2> QED BY <2>10, <2>11
<1>10. \A k \in 0 .. N : k \in T
  <2> HIDE DEF T, N
  <2> QED BY <1>1, <1>7, <1>9, Turns
<1>11. ASSUME NEW line \in Int
       PROVE  Where(l2, BreakAt(line)) = Of(N, line)
  <2>1. DOMAIN l2 = 1 .. N /\ \A k \in 1 .. N : l2[k] \in SpLine
    <3>1. l2 \in Seq(SpLine) /\ Len(l2) = N
          BY DEF l2, l
    <3> QED BY <3>1, LenProperties, ElementOfSeq
  <2>2. ASSUME NEW k \in 1 .. N
        PROVE  l2[k] \in BreakAt(line) <=> l[k].id = Break /\ l[k].nline = line
    <3> DEFINE sp == l[k]
               j == k - 1
    <3>1. j \in 0 .. N - 1 /\ j \in 0 .. N /\ k = j + 1
          BY <1>1
    <3>2. sp \in SpLine /\ j \in T
          BY <1>1, <1>10, <3>1
    <3>3. l2[k] = IF Hit(w[j], f, sp) = {} THEN sp ELSE [sp EXCEPT !.oline = sp.nline]
          BY <1>2
    <3>4. sp.id = Break => Hit(w[j], f, sp) # {}
          BY <1>8, <3>1, <3>2
    <3> HIDE DEF sp, j
    <3>5. /\ [sp EXCEPT !.oline = sp.nline].id = sp.id
          /\ [sp EXCEPT !.oline = sp.nline].oline = sp.nline
          BY <3>2 DEF SpLine
    <3>6. CASE sp.id = Break
      <4>1. l2[k].id = Break /\ l2[k].oline = sp.nline
            BY <3>3, <3>4, <3>5, <3>6
      <4> QED BY <2>1, <3>6, <4>1, BreakAtIs DEF sp
    <3>7. CASE sp.id # Break
      <4>1. l2[k].id # Break
            BY <3>3, <3>5, <3>7
      <4> QED BY <2>1, <3>7, <4>1, BreakAtIs DEF sp
    <3> QED BY <3>6, <3>7
  <2>3. \A k \in 1 .. N : At(N, k) = l[k].nline
        BY <1>1
  <2> HIDE DEF At
  <2> QED BY <2>1, <2>2, <2>3 DEF Where
<1>12. N \in 0 .. N
       BY <1>1
<1> HIDE DEF Of, N
<1> QED BY <1>2, <1>10, <1>11, <1>12 DEF Count, l2


(* What has become of the breakpoints.                                     *)
LEMMA MovedIs ==
  ASSUME IInv, NEW f \in DOMAIN nodes, nodes[f].special \in SpList
  PROVE  /\ SameBkpts(bkpts, MovedBkpts(f).bkpts, Len(bkpts))
         /\ MovedBkpts(f).bkpts \in Breakpoints(Len(bkpts))
<1> DEFINE M == Len(bkpts)
           N == Len(nodes[f].special)
<1>1. bkpts \in Breakpoints(M)
      BY StateIs
<1>2. MovedBkpts(f).bkpts \in Breakpoints(M) /\ \E w : MoveTurns(w, M, f)
      BY <1>1, MovesAll
<1>3. PICK w : MoveTurns(w, M, f)
      BY <1>2
<1>4. \A k \in 0 .. N : SameBkpts(bkpts, w[k], M)
      BY <1>1, <1>3, MovedAllSame
<1>5. MovedBkpts(f).bkpts = w[N]
      BY <1>3 DEF MoveTurns
<1>6. N \in 0 .. N
      BY ElemsOf
<1> HIDE DEF N
<1> QED BY <1>2, <1>4, <1>5, <1>6

LEMMA MoveDrawn ==
  ASSUME IInv, Drawn, DebugMoveBreakPts
  PROVE  Drawn'
<1>1. CASE UNCHANGED <<nodes, bkpts, astray>>
      BY <1>1, SameDrawn
<1>2. ASSUME \A f \in DOMAIN nodes : nodes[f].special # NoList,
             nodes' = [f \in DOMAIN nodes |-> [nodes[f] EXCEPT !.special = MovedBkpts(f).special]],
             bkpts' = [i \in DOMAIN bkpts |->
                         IF bkpts[i].file \in DOMAIN nodes
                         THEN MovedBkpts(bkpts[i].file).bkpts[i] ELSE bkpts[i]],
             astray' = astray \cup {f \in DOMAIN nodes :
                         Pending(f) \/ ~Sorted(nodes'[f].special) \/ Masked(f)}
      PROVE  Drawn'
  <2> DEFINE F == DOMAIN nodes
             M == Len(bkpts)
  <2>1. /\ F \subseteq Files /\ bkpts \in Breakpoints(M) /\ M \in Nat /\ DOMAIN bkpts = 1 .. M
        /\ \A f \in F : nodes[f] \in Node /\ nodes[f].special \in SpList
        BY <1>2, StateIs, NodesAre, NodeIs
  <2>2. ASSUME NEW f \in F
        PROVE  /\ SameBkpts(bkpts, MovedBkpts(f).bkpts, M)
               /\ MovedBkpts(f).bkpts \in Breakpoints(M)
        BY <2>1, MovedIs
  <2>3. DOMAIN bkpts' = 1 .. M
        BY <1>2, <2>1
  <2>4. \A i \in 1 .. M : bkpts'[i].file = bkpts[i].file
    <3> TAKE i \in 1 .. M
    <3>1. CASE bkpts[i].file \in F
      <4>1. bkpts'[i] = MovedBkpts(bkpts[i].file).bkpts[i]
            BY <1>2, <2>1, <3>1
      <4> QED BY <2>2, <3>1, <4>1 DEF SameBkpts
    <3>2. CASE bkpts[i].file \notin F
          BY <1>2, <2>1, <3>2
    <3> QED BY <3>1, <3>2
  <2> SUFFICES ASSUME NEW f \in Files \ astray', NEW line \in Int
               PROVE  Count(ToModify(nodes', f), BreakAt(line)) = Count(bkpts', EnabledAt(f, line))
      BY DEF Drawn, DrawnIn, Lined
  <2>5. f \notin astray
        BY <1>2
  <2>6. \A ln \in Int : Count(ToModify(nodes, f), BreakAt(ln)) = Count(bkpts, EnabledAt(f, ln))
        BY <2>5 DEF Drawn, DrawnIn, Lined
  <2>7. CASE f \notin F
    <3>1. ToModify(nodes, f) = <<>> /\ ToModify(nodes', f) = <<>>
          BY <1>2, <2>7 DEF ToModify, Has
    <3>2. ASSUME NEW i \in 1 .. M
          PROVE  bkpts[i] \in EnabledAt(f, line) <=> bkpts'[i] \in EnabledAt(f, line)
      <4>1. CASE bkpts[i].file = f
        <5>1. bkpts'[i] = bkpts[i]
              BY <1>2, <2>1, <2>7, <4>1
        <5> QED BY <5>1
      <4>2. CASE bkpts[i].file # f
            BY <2>4, <4>2 DEF EnabledAt
      <4> QED BY <4>1, <4>2
    <3>3. Count(bkpts, EnabledAt(f, line)) = Count(bkpts', EnabledAt(f, line))
          BY <2>1, <2>3, <3>2, CountSame
    <3> QED BY <2>6, <3>1, <3>3
  <2>8. CASE f \in F
    <3> DEFINE C == MovedBkpts(f).bkpts
               to == MovedBkpts(f).special
    <3>1. ~Pending(f) /\ ~Masked(f)
          BY <1>2, <2>8
    <3>2. nodes[f].new = NoList
          BY <2>8, <3>1 DEF Pending, Has
    <3>3. nodes[f] = [special |-> nodes[f].special, new |-> nodes[f].new]
          BY <2>1, <2>8, NodeIs
    <3>4. nodes'[f] = [nodes[f] EXCEPT !.special = to] /\ f \in DOMAIN nodes'
          BY <1>2, <2>8
    <3> HIDE DEF F, to
    <3>5. nodes'[f].special = to /\ nodes'[f].new = NoList
          BY <3>2, <3>3, <3>4
    <3>6. ToModify(nodes, f) = nodes[f].special /\ ToModify(nodes', f) = to
          BY <2>8, <3>2, <3>4, <3>5 DEF ToModify, Has, F
    <3>7. /\ \A ln \in Int : Count(nodes[f].special, BreakAt(ln)) = Count(bkpts, EnabledAt(f, ln))
          /\ nodes[f].special \in SpList
          BY <2>1, <2>6, <2>8, <3>6
    <3>8. /\ to \in Seq(SpLine) /\ Len(to) = Len(nodes[f].special) /\ \E w : MoveTurns(w, M, f)
          BY <2>1, <3>7, MovesAll DEF to
    <3>9. PICK w : MoveTurns(w, M, f)
          BY <3>8
    <3>10. \A ln \in Int : Count(to, BreakAt(ln)) = Count(C, EnabledAt(f, ln))
      <4>1. MovedBkpts(f).special \in Seq(SpLine) /\ Len(MovedBkpts(f).special) = Len(nodes[f].special)
            BY <3>8 DEF to
      <4> QED BY <2>1, <3>1, <3>7, <3>9, <4>1, MoveCounts DEF to
    <3>11. SameBkpts(bkpts, C, M) /\ DOMAIN C = 1 .. M
           BY <2>2, <2>8, BreakpointsAre
    <3>12. \A i \in 1 .. M : bkpts[i].file = f => bkpts'[i] = C[i]
           BY <1>2, <2>1, <2>8 DEF F
    <3> HIDE DEF C
    <3>13. ASSUME NEW i \in 1 .. M
           PROVE  C[i] \in EnabledAt(f, line) <=> bkpts'[i] \in EnabledAt(f, line)
      <4>1. CASE bkpts[i].file = f
            BY <3>12, <4>1
      <4>2. CASE bkpts[i].file # f
        <5>1. C[i].file # f /\ bkpts'[i].file # f
              BY <2>4, <3>11, <4>2 DEF SameBkpts
        <5> QED BY <5>1 DEF EnabledAt
      <4> QED BY <4>1, <4>2
    <3>14. Count(C, EnabledAt(f, line)) = Count(bkpts', EnabledAt(f, line))
           BY <2>3, <3>11, <3>13, CountSame
    <3> QED BY <3>6, <3>10, <3>14
  <2> QED BY <2>7, <2>8
<1> QED BY <1>1, <1>2 DEF DebugMoveBreakPts



-----------------------------------------------------------------------------
(* The theorem. *)

LEMMA InitDrawn ==
  ASSUME Init
  PROVE  Drawn
<1>1. nodes = [f \in {} |-> NoList] /\ bkpts = <<>>
      BY DEF Init
<1>2. ASSUME NEW f, NEW line
      PROVE  Lined(nodes, f, line) = Count(bkpts, EnabledAt(f, line))
  <2>1. ToModify(nodes, f) = <<>>
        BY <1>1 DEF ToModify, Has
  <2>2. Where(<<>>, BreakAt(line)) = {} /\ Where(<<>>, EnabledAt(f, line)) = {}
        BY DEF Where
  <2> QED BY <1>1, <2>1, <2>2 DEF Lined, Count
<1> QED BY <1>2 DEF Drawn, DrawnIn

LEMMA NextDrawn ==
  ASSUME IInv, Drawn, Next
  PROVE  Drawn'
<1>1. ASSUME NEW f \in Files,
             \/ \E k \in 0 .. Len(text[f]) : insertLine(f, k)
             \/ \E k \in 0 .. Len(text[f]) - 1 : deleteLine(f, k)
      PROVE  Drawn'
      BY <1>1, TextDrawn
<1>2. ASSUME NEW f \in Files, NEW k \in 0 .. Len(text[f]) - 1,
             DebugToggleBreakpoint(f, k) \/ \E enabled \in BOOLEAN : Add(f, k, enabled)
      PROVE  Drawn'
      BY <1>2, ToggleDrawn, AddBreakpointDrawn
<1>3. ASSUME NEW f \in Files,
             \/ saveFile(f) \/ openEditor(f)
             \/ \E discard \in BOOLEAN : closeFile(f, discard)
      PROVE  Drawn'
      BY <1>3, OthersDrawn
<1>4. ASSUME \/ EdMessageWindowInit \/ SpLinesUpdate
             \/ \E f \in Files : \E k \in 0 .. Len(disk[f]) - 1, now \in BOOLEAN :
                  EdShowMessageFile(f, k, now)
      PROVE  Drawn'
      BY <1>4, MessagesDrawn
<1>5. ASSUME \/ EdShowMessage \/ deleteMessage
             \/ \E i \in Jumps : selectItem(i)
             \/ selectNext \/ selectPrev \/ EdJumpToFirstError
      PROVE  Drawn'
      BY <1>5, OthersDrawn
<1>6. ASSUME NEW i \in DOMAIN bkpts, Disable(i) \/ Delete(i)
      PROVE  Drawn'
  <2>1. i \in 1 .. Len(bkpts)
        BY StateIs
  <2>2. CASE Disable(i)
        BY <2>1, <2>2, DisableDrawn
  <2>3. CASE Delete(i)
    <3>1. /\ UNCHANGED astray /\ bkpts' = RemoveAt(bkpts, i)
          /\ nodes' = DeleteFromGDBandSpLines(nodes, bkpts[i])
          BY <2>3 DEF Delete
    <3> QED BY <2>1, <3>1, DeleteDrawn
  <2> QED BY <1>6, <2>2, <2>3
<1>7. ASSUME NEW i \in DOMAIN bkpts, NEW gdb, Enable(i, gdb)
      PROVE  Drawn'
      BY <1>7, StateIs, EnableDrawn
<1>8. ASSUME NEW i \in DOMAIN bkpts, NEW gdb,
             NEW line \in 0 .. Len(text[bkpts[i].file]) - 1, NEW enabled \in BOOLEAN,
             Modify(i, line, enabled, gdb)
      PROVE  Drawn'
      BY <1>8, StateIs, ModifyDrawn
<1>9. ASSUME DebugMoveBreakPts \/ \E refused : apply(refused)
      PROVE  Drawn'
      BY <1>9, MoveDrawn, ApplyDrawn
<1> QED BY <1>1, <1>2, <1>3, <1>4, <1>5, <1>6, <1>7, <1>8, <1>9 DEF Next

LEMMA DrawnInvariant == Spec => [](IInv /\ Drawn)
<1>1. Init => IInv /\ Drawn
      BY InitKeeps, InitDrawn
<1>2. IInv /\ Drawn /\ [Next]_vars => (IInv /\ Drawn)'
      BY NextKeeps, StutterKeeps, NextDrawn, OthersDrawn
<1> QED BY <1>1, <1>2, PTL DEF Spec

(* debug.cc shows a breakpoint as a special line and gives it to gdb.      *)
(* Whatever is toggled, added, modified, enabled, moved with the lines of a *)
(* program that was built, or set again when a session starts: on each     *)
(* line of a file that is not astray there are as many special lines as    *)
(* breakpoints gdb has, in any number of files, of any length, with any    *)
(* number of breakpoints on the same line.                                 *)
THEOREM GdbHasDrawn == Spec => []BreakpointsDrawn
<1>1. IInv /\ Drawn => BreakpointsDrawn
  <2> SUFFICES ASSUME IInv, Drawn, NEW f \in Files \ astray, NEW line \in -1 .. MaxLines
               PROVE  LET l == ToModify(nodes, f)
                      IN  Cardinality({i \in DOMAIN l : l[i].id = Break /\ l[i].oline = line})
                            = Cardinality({i \in DOMAIN bkpts : bkpts[i].enabled
                                             /\ bkpts[i].file = f /\ bkpts[i].line = line})
      BY DEF BreakpointsDrawn
  <2> DEFINE l == ToModify(nodes, f)
  <2>1. line \in Int
        OBVIOUS
  <2>2. Count(l, BreakAt(line)) = Count(bkpts, EnabledAt(f, line))
        BY <2>1 DEF Drawn, DrawnIn, Lined
  <2>3. l \in SpList
        BY StateIs, ToModifyIs
  <2> HIDE DEF l
  <2>4. \A i \in DOMAIN l : l[i] \in SpLine
        BY <2>3, ElemsOf
  <2>5. Where(l, BreakAt(line)) = {i \in DOMAIN l : l[i].id = Break /\ l[i].oline = line}
        BY <2>4, BreakAtIs DEF Where
  <2>6. Where(bkpts, EnabledAt(f, line))
          = {i \in DOMAIN bkpts : bkpts[i].enabled /\ bkpts[i].file = f /\ bkpts[i].line = line}
        BY StateIs, EnabledIs DEF Where
  <2>7. Cardinality({i \in DOMAIN l : l[i].id = Break /\ l[i].oline = line})
          = Cardinality({i \in DOMAIN bkpts : bkpts[i].enabled
                           /\ bkpts[i].file = f /\ bkpts[i].line = line})
        BY <2>2, <2>5, <2>6 DEF Count
  <2> QED BY <2>7 DEF l
<1> QED BY DrawnInvariant, <1>1, PTL
=============================================================================
