--------------------------- MODULE TextBufferProofs ---------------------------
(***************************************************************************)
(* Theorems about TextBuffer, for any texts, keys and bounds.              *)
(***************************************************************************)
EXTENDS TextBuffer, NumberFacts, SequenceTheorems, FiniteSetTheorems

-----------------------------------------------------------------------------
(* Sums of lengths. *)

(* The sums that are T.                                                    *)
Summed(lens, T) ==
  /\ T \in [0 .. Len(lens) -> Nat]
  /\ T[0] = 0
  /\ \A k \in 1 .. Len(lens) : T[k] = T[k - 1] + lens[k]

(* The recursive function behind Total.                                    *)
LEMMA SumsThere ==
  ASSUME NEW lens \in Seq(Nat)
  PROVE  \E T : /\ Summed(lens, T)
                /\ \A a, b \in 0 .. Len(lens) : Total(lens, a, b) = T[b] - T[a]
<1> DEFINE N == Len(lens)
           F(f) == [k \in 0 .. N |-> IF k = 0 THEN 0 ELSE f[k - 1] + lens[k]]
           G == [p \in (1 .. N) \X Nat |-> p[2] + lens[p[1]]]
           sum == CHOOSE f : f = F(f)
<1>1. N \in Nat /\ \A k \in 1 .. N : lens[k] \in Nat
      BY ElementOfSeq, LenProperties
<1>2. G \in [(1 .. N) \X Nat -> Nat]
      BY <1>1
<1> HIDE DEF N
<1>3. PICK f : Iterated(f, N, Nat, 0, G)
  <2> HIDE DEF G
  <2> QED BY <1>1, <1>2, Iterates
<1>4. f \in [0 .. N -> Nat] /\ f[0] = 0
      BY <1>3 DEF Iterated
<1>5. \A k \in 1 .. N : f[k] = f[k - 1] + lens[k]
  <2> TAKE k \in 1 .. N
  <2>1. k - 1 \in 0 .. N
        BY <1>1
  <2>2. <<k, f[k - 1]>> \in (1 .. N) \X Nat
        BY <1>4, <2>1
  <2>3. G[<<k, f[k - 1]>>] = f[k - 1] + lens[k]
        BY <2>2
  <2>4. f[k] = G[<<k, f[k - 1]>>]
        BY <1>3 DEF Iterated
  <2> QED BY <2>3, <2>4
<1>6. f = F(f)
  <2>1. \A k \in 0 .. N : f[k] = IF k = 0 THEN 0 ELSE f[k - 1] + lens[k]
        BY <1>1, <1>4, <1>5
  <2> QED BY <1>4, <2>1
<1>7. sum = F(sum)
  <2> HIDE DEF F
  <2> QED BY <1>6
<1>8. /\ sum[0] = 0
      /\ \A k \in 1 .. N : sum[k] = sum[k - 1] + lens[k]
  <2> DEFINE s == sum
  <2>1. s = F(s)
        BY <1>7
  <2> HIDE DEF s
  <2>2. \A k \in 0 .. N : s[k] = IF k = 0 THEN 0 ELSE s[k - 1] + lens[k]
        BY <2>1
  <2>3. 0 \in 0 .. N /\ \A k \in 1 .. N : k \in 0 .. N /\ k # 0
        BY <1>1
  <2> QED BY <2>2, <2>3 DEF s
<1> DEFINE s == sum
<1>9. \A a, b : Total(lens, a, b) = s[b] - s[a]
      BY DEF Total, N
<1> HIDE DEF s
<1>10. \A k \in 0 .. N : s[k] = f[k]
  <2> DEFINE T == {k \in 0 .. N : s[k] = f[k]}
  <2>1. 0 \in T
        BY <1>1, <1>4, <1>8 DEF s
  <2>2. \A k \in 0 .. N - 1 : k \in T => k + 1 \in T
    <3> SUFFICES ASSUME NEW k \in 0 .. N - 1, s[k] = f[k] PROVE k + 1 \in T
        OBVIOUS
    <3> DEFINE j == k + 1
    <3>1. j \in 1 .. N /\ j - 1 = k
          BY <1>1
    <3> HIDE DEF j
    <3>2. s[j] = s[j - 1] + lens[j] /\ f[j] = f[j - 1] + lens[j]
          BY <1>5, <1>8, <3>1 DEF s
    <3>3. s[j] = f[j]
          BY <3>1, <3>2
    <3> QED BY <3>1, <3>3, <1>1 DEF j
  <2> HIDE DEF T
  <2>3. \A k \in 0 .. N : k \in T
        BY <1>1, <2>1, <2>2, Turns
  <2> QED BY <2>3 DEF T
<1>11. Summed(lens, f)
      BY <1>4, <1>5 DEF Summed, N
<1> QED BY <1>9, <1>10, <1>11 DEF N


Starts(lens) == [k \in 0 .. Len(lens) |-> Total(lens, 0, k)]

LEMMA StartsSum ==
  ASSUME NEW lens \in Seq(Nat)
  PROVE  /\ Summed(lens, Starts(lens))
         /\ \A a, b \in 0 .. Len(lens) : Total(lens, a, b) = Starts(lens)[b] - Starts(lens)[a]
         /\ \A k \in 0 .. Len(lens) : Total(lens, 0, k) = Starts(lens)[k]
<1>1. PICK T : /\ Summed(lens, T)
               /\ \A a, b \in 0 .. Len(lens) : Total(lens, a, b) = T[b] - T[a]
      BY SumsThere
<1>2. Len(lens) \in Nat /\ T \in [0 .. Len(lens) -> Nat] /\ T[0] = 0
      BY <1>1, LenProperties DEF Summed
<1>3. \A k \in 0 .. Len(lens) : Total(lens, 0, k) = T[k]
      BY <1>1, <1>2
<1>4. T = Starts(lens)
      BY <1>2, <1>3 DEF Starts
<1> QED BY <1>1, <1>3, <1>4

(* There is only one such function.                                        *)
LEMMA SumsUnique ==
  ASSUME NEW lens \in Seq(Nat), NEW T, NEW W, Summed(lens, T), Summed(lens, W)
  PROVE  T = W
<1> DEFINE N == Len(lens)
           S == {k \in 0 .. N : T[k] = W[k]}
<1>1. N \in Nat
      BY LenProperties
<1>2. 0 \in S
      BY <1>1 DEF Summed
<1>3. \A k \in 0 .. N - 1 : k \in S => k + 1 \in S
  <2> SUFFICES ASSUME NEW k \in 0 .. N - 1, T[k] = W[k] PROVE k + 1 \in S
      OBVIOUS
  <2> DEFINE j == k + 1
  <2>1. j \in 1 .. N /\ j - 1 = k
        BY <1>1
  <2> HIDE DEF j
  <2>2. T[j] = T[j - 1] + lens[j] /\ W[j] = W[j - 1] + lens[j]
        BY <2>1 DEF Summed
  <2> QED BY <2>1, <2>2, <1>1 DEF j
<1>4. \A k \in 0 .. N : k \in S
  <2> HIDE DEF S, N
  <2> QED BY <1>1, <1>2, <1>3, Turns
<1>5. \A k \in 0 .. N : T[k] = W[k]
      BY <1>4
<1> QED BY <1>5 DEF Summed

LEMMA StartsAre ==
  ASSUME NEW lens \in Seq(Nat), NEW T, Summed(lens, T)
  PROVE  Starts(lens) = T
BY StartsSum, SumsUnique

-----------------------------------------------------------------------------
(* Lines.  T has the offset of each line and, last, the end of the text: a *)
(* line is ended by the only end of line it has, and the last line need    *)
(* not be ended.                                                           *)
Cuts(b, T, n) ==
  /\ b \in Strings /\ n \in Nat /\ T \in [0 .. n + 1 -> Nat]
  /\ T[0] = 0 /\ T[n + 1] = Len(b) /\ T[n] <= T[n + 1]
  /\ \A k \in 1 .. n : T[k - 1] < T[k] /\ b[T[k]] = EOL
  /\ \A p \in 1 .. Len(b) : b[p] = EOL => \E k \in 1 .. n + 1 : p = T[k]

(* The lines go up.                                                        *)
LEMMA CutsGoUp ==
  ASSUME NEW b, NEW T, NEW n, Cuts(b, T, n)
  PROVE  /\ \A j \in 0 .. n : \A k \in 0 .. n : j < k => T[j] < T[k]
         /\ \A j, k \in 0 .. n + 1 : j <= k => T[j] <= T[k]
         /\ \A k \in 0 .. n + 1 : T[k] <= Len(b)
<1>0. /\ n \in Nat /\ \A k \in 0 .. n + 1 : T[k] \in Nat
      /\ T[n] <= T[n + 1] /\ T[n + 1] = Len(b)
      /\ \A k \in 1 .. n : T[k - 1] < T[k]
      BY DEF Cuts
<1>1. ASSUME NEW j \in 0 .. n
      PROVE  \A k \in 0 .. n : j < k => T[j] < T[k]
  <2> DEFINE S == {k \in 0 .. n : j < k => T[j] < T[k]}
  <2>1. 0 \in S
        BY <1>0
  <2>2. \A k \in 0 .. n - 1 : k \in S => k + 1 \in S
    <3> SUFFICES ASSUME NEW k \in 0 .. n - 1, k \in S, j < k + 1 PROVE k + 1 \in S
        BY <1>0
    <3> DEFINE m == k + 1
    <3>1. m \in 1 .. n /\ m \in 0 .. n /\ k = m - 1 /\ k \in 0 .. n
          BY <1>0
    <3> HIDE DEF m
    <3>2. T[k] < T[m]
          BY <1>0, <3>1
    <3>3. T[j] \in Nat /\ T[k] \in Nat /\ T[m] \in Nat
          BY <1>0, <3>1
    <3>4. j = k \/ T[j] < T[k]
          BY <3>1
    <3>5. T[j] < T[m]
          BY <3>2, <3>3, <3>4
    <3> QED BY <3>1, <3>5 DEF m
  <2>3. \A k \in 0 .. n : k \in S
    <3> HIDE DEF S
    <3> QED BY <1>0, <2>1, <2>2, Turns
  <2> QED BY <2>3
<1>2. ASSUME NEW j \in 0 .. n + 1, NEW k \in 0 .. n + 1, j <= k
      PROVE  T[j] <= T[k]
  <2>1. CASE k \in 0 .. n /\ j \in 0 .. n
    <3>1. T[j] \in Nat /\ T[k] \in Nat
          BY <1>0
    <3>2. j = k \/ T[j] < T[k]
          BY <1>1, <1>2, <2>1
    <3> QED BY <3>1, <3>2
  <2>2. CASE k = n + 1 /\ j \in 0 .. n
    <3>1. T[j] \in Nat /\ T[n] \in Nat /\ T[n + 1] \in Nat
          BY <1>0
    <3>2. j = n \/ T[j] < T[n]
          BY <1>0, <1>1, <2>2
    <3> QED BY <1>0, <2>2, <3>1, <3>2
  <2>3. CASE j = n + 1
    <3>1. k = n + 1
          BY <1>0, <1>2, <2>3
    <3> QED BY <1>0, <2>3, <3>1
  <2> QED BY <1>0, <2>1, <2>2, <2>3
<1>3. \A k \in 0 .. n + 1 : T[k] <= Len(b)
      BY <1>0, <1>2
<1> QED BY <1>1, <1>2, <1>3

(* A piece of a text, and three texts one after the other.                 *)
LEMMA PartOf ==
  ASSUME NEW S, NEW s \in Seq(S), NEW a \in 0 .. Len(s), NEW z \in a .. Len(s)
  PROVE  /\ Part(s, a, z) \in Seq(S)
         /\ Len(Part(s, a, z)) = z - a
         /\ \A k \in 1 .. z - a : Part(s, a, z)[k] = s[a + k]
<1>1. Len(s) \in Nat /\ \A k \in 1 .. Len(s) : s[k] \in S
      BY ElementOfSeq, LenProperties
<1>2. Part(s, a, z) = [k \in 1 .. z - a |-> s[a + k]]
      BY <1>1 DEF Part
<1>3. \A k \in 1 .. z - a : s[a + k] \in S
      BY <1>1
<1>4. z - a \in Nat
      BY <1>1
<1> DEFINE f == [k \in 1 .. z - a |-> s[a + k]]
<1>5. f \in [1 .. z - a -> S]
      BY <1>3
<1>6. f \in Seq(S) /\ Len(f) = z - a
      BY <1>4, <1>5, IsASeq
<1> QED BY <1>2, <1>6

LEMMA Concat ==
  ASSUME NEW S, NEW s \in Seq(S), NEW t \in Seq(S)
  PROVE  /\ s \o t \in Seq(S) /\ Len(s \o t) = Len(s) + Len(t)
         /\ \A k \in 1 .. Len(s) : (s \o t)[k] = s[k]
         /\ \A k \in 1 .. Len(t) : (s \o t)[Len(s) + k] = t[k]
<1>1. Len(s) \in Nat /\ Len(t) \in Nat
      BY LenProperties
<1>2. s \o t \in Seq(S) /\ Len(s \o t) = Len(s) + Len(t)
      BY ConcatProperties
<1>3. \A k \in 1 .. Len(s) + Len(t) :
        (s \o t)[k] = IF k <= Len(s) THEN s[k] ELSE t[k - Len(s)]
      BY ConcatProperties
<1>4. \A k \in 1 .. Len(s) : (s \o t)[k] = s[k]
      BY <1>1, <1>3
<1>5. \A k \in 1 .. Len(t) : (s \o t)[Len(s) + k] = t[k]
  <2> TAKE k \in 1 .. Len(t)
  <2> DEFINE j == Len(s) + k
  <2>1. j \in 1 .. Len(s) + Len(t) /\ ~(j <= Len(s)) /\ j - Len(s) = k
        BY <1>1
  <2> HIDE DEF j
  <2>2. (s \o t)[j] = t[j - Len(s)]
        BY <1>3, <2>1
  <2> QED BY <2>1, <2>2 DEF j
<1> QED BY <1>2, <1>4, <1>5

Splice(b, a, mid, z) == Part(b, 0, a) \o mid \o Part(b, z, Len(b))

(* What such a text consists of.                                           *)
Pieces3(s, b, a, mid, z) ==
  /\ Len(s) = a + Len(mid) + Len(b) - z
  /\ \A k \in 1 .. a : s[k] = b[k]
  /\ \A k \in 1 .. Len(mid) : s[a + k] = mid[k]
  /\ \A k \in z + 1 .. Len(b) : s[k - z + a + Len(mid)] = b[k]

LEMMA Spliced ==
  ASSUME NEW S, NEW b \in Seq(S), NEW mid \in Seq(S),
         NEW a \in 0 .. Len(b), NEW z \in a .. Len(b)
  PROVE  /\ Splice(b, a, mid, z) \in Seq(S)
         /\ Pieces3(Splice(b, a, mid, z), b, a, mid, z)
<1> DEFINE p == Part(b, 0, a)
           q == Part(b, z, Len(b))
           s == p \o mid \o q
<1>0. Len(b) \in Nat /\ Len(mid) \in Nat
      BY LenProperties
<1>1. p \in Seq(S) /\ Len(p) = a /\ \A k \in 1 .. a : p[k] = b[k]
  <2>1. 0 \in 0 .. Len(b) /\ a \in 0 .. Len(b)
        BY <1>0
  <2>2. p \in Seq(S) /\ Len(p) = a - 0 /\ \A k \in 1 .. a - 0 : p[k] = b[0 + k]
        BY <2>1, PartOf
  <2> QED BY <2>2, <1>0
<1>2. q \in Seq(S) /\ Len(q) = Len(b) - z /\ \A k \in 1 .. Len(b) - z : q[k] = b[z + k]
  <2>1. z \in 0 .. Len(b) /\ Len(b) \in z .. Len(b)
        BY <1>0
  <2> QED BY <2>1, PartOf
<1> HIDE DEF p, q
<1> DEFINE pm == p \o mid
<1>3. /\ pm \in Seq(S) /\ Len(pm) = a + Len(mid)
      /\ \A k \in 1 .. a : pm[k] = b[k]
      /\ \A k \in 1 .. Len(mid) : pm[a + k] = mid[k]
  <2>1. /\ pm \in Seq(S) /\ Len(pm) = Len(p) + Len(mid)
        /\ \A k \in 1 .. Len(p) : pm[k] = p[k]
        /\ \A k \in 1 .. Len(mid) : pm[Len(p) + k] = mid[k]
    <3>1. p \in Seq(S) /\ mid \in Seq(S)
          BY <1>1
    <3> QED BY ONLY <3>1, Concat
  <2> QED BY <1>1, <2>1
<1> HIDE DEF pm
<1>4. /\ pm \o q \in Seq(S) /\ Len(pm \o q) = a + Len(mid) + (Len(b) - z)
      /\ \A k \in 1 .. a + Len(mid) : (pm \o q)[k] = pm[k]
      /\ \A k \in 1 .. Len(b) - z : (pm \o q)[a + Len(mid) + k] = q[k]
  <2>1. /\ pm \o q \in Seq(S) /\ Len(pm \o q) = Len(pm) + Len(q)
        /\ \A k \in 1 .. Len(pm) : (pm \o q)[k] = pm[k]
        /\ \A k \in 1 .. Len(q) : (pm \o q)[Len(pm) + k] = q[k]
    <3>1. pm \in Seq(S) /\ q \in Seq(S)
          BY <1>2, <1>3
    <3> QED BY ONLY <3>1, Concat
  <2> QED BY <1>2, <1>3, <2>1
<1>5. s = pm \o q
      BY DEF pm
<1> HIDE DEF s
<1>6. /\ \A k \in 1 .. a : s[k] = b[k]
      /\ \A k \in 1 .. Len(mid) : s[a + k] = mid[k]
  <2> DEFINE m == a + Len(mid)
  <2>1. \A k \in 1 .. m : s[k] = pm[k]
        BY <1>4, <1>5
  <2>2. /\ \A k \in 1 .. a : k \in 1 .. m
        /\ \A k \in 1 .. Len(mid) : a + k \in 1 .. m
        BY <1>0
  <2> HIDE DEF m
  <2> QED BY <1>3, <2>1, <2>2
<1>7. ASSUME NEW k \in z + 1 .. Len(b)
      PROVE  s[k - z + a + Len(mid)] = b[k]
  <2> DEFINE j == k - z
  <2>1. j \in 1 .. Len(b) - z /\ z + j = k /\ k - z + a + Len(mid) = a + Len(mid) + j
        BY <1>0
  <2> HIDE DEF j
  <2>2. s[a + Len(mid) + j] = b[z + j]
        BY <1>2, <1>4, <1>5, <2>1
  <2> QED BY <2>1, <2>2
<1>8. Len(s) = a + Len(mid) + Len(b) - z
      BY <1>0, <1>4, <1>5
<1>9. s = Splice(b, a, mid, z)
      BY DEF s, p, q, Splice
<1>10. Pieces3(s, b, a, mid, z)
      BY <1>6, <1>7, <1>8 DEF Pieces3
<1> QED BY <1>4, <1>5, <1>9, <1>10

(* A text in which the offsets a to z, in lines y to y + m, become mid,    *)
(* with j lines ended in it: W has the lines of what results.              *)
Recut(b, T, n, y, m, j, a, z, mid, W) ==
  /\ T[y] <= a /\ a <= z /\ z <= T[y + m + 1] /\ T[y + m] <= z
  /\ \A p \in T[y] + 1 .. a : b[p] # EOL
  /\ W \in [0 .. n - m + j + 1 -> Nat]
  /\ \A k \in 0 .. y : W[k] = T[k]
  /\ \A k \in y + m + 1 .. n + 1 : W[k - m + j] = T[k] - z + a + Len(mid)
  /\ \A i \in y + 1 .. y + j :
       W[i - 1] < W[i] /\ W[i] - a \in 1 .. Len(mid) /\ mid[W[i] - a] = EOL
  /\ \A q \in 1 .. Len(mid) : mid[q] = EOL => \E i \in y + 1 .. y + j + 1 : a + q = W[i]
  /\ W[y + j] <= W[y + j + 1]
  /\ y + m < n => /\ W[y + j] < W[y + j + 1]
                  /\ \/ z < T[y + m + 1]
                     \/ Len(mid) > 0 /\ mid[Len(mid)] = EOL /\ W[y + j + 1] = a + Len(mid)

LEMMA Respliced ==
  ASSUME NEW b, NEW T, NEW n, Cuts(b, T, n),
         NEW y \in Nat, NEW m \in Nat, NEW j \in Nat, y + m <= n,
         NEW a \in Nat, NEW z \in Nat, NEW mid \in Strings, NEW W,
         Recut(b, T, n, y, m, j, a, z, mid, W)
  PROVE  Cuts(Splice(b, a, mid, z), W, n - m + j)
<1> DEFINE s == Splice(b, a, mid, z)
           n2 == n - m + j
           L == Len(mid)
<1>0. /\ n \in Nat /\ n2 \in Nat /\ L \in Nat /\ Len(b) \in Nat /\ b \in Strings
  <2>1. b \in Strings /\ n \in Nat
        BY DEF Cuts
  <2>2. L \in Nat /\ Len(b) \in Nat
        BY <2>1, LenProperties DEF Strings
  <2> QED BY <2>1, <2>2
<1>a. /\ T[y] <= a /\ a <= z /\ z <= T[y + m + 1] /\ T[y + m] <= z
      /\ W[y + j] <= W[y + j + 1]
      /\ y + m < n => /\ W[y + j] < W[y + j + 1]
                      /\ \/ z < T[y + m + 1]
                         \/ L > 0 /\ mid[L] = EOL /\ W[y + j + 1] = a + L
      BY DEF Recut
<1>b. \A p \in T[y] + 1 .. a : b[p] # EOL
      BY DEF Recut
<1>c. W \in [0 .. n2 + 1 -> Nat] /\ \A k \in 0 .. y : W[k] = T[k]
      BY DEF Recut
<1>d. \A k \in y + m + 1 .. n + 1 : W[k - m + j] = T[k] - z + a + L
      BY DEF Recut
<1>e. \A i \in y + 1 .. y + j :
        W[i - 1] < W[i] /\ W[i] - a \in 1 .. L /\ mid[W[i] - a] = EOL
      BY DEF Recut
<1>f. \A q \in 1 .. L : mid[q] = EOL => \E i \in y + 1 .. y + j + 1 : a + q = W[i]
      BY DEF Recut
<1>2. /\ \A k \in 0 .. n + 1 : T[k] \in Nat
      /\ T[0] = 0 /\ T[n + 1] = Len(b) /\ T[n] <= T[n + 1]
      /\ \A k \in 1 .. n : T[k - 1] < T[k] /\ b[T[k]] = EOL
      /\ \A p \in 1 .. Len(b) : b[p] = EOL => \E k \in 1 .. n + 1 : p = T[k]
      BY DEF Cuts
<1>u. \A k, l \in 0 .. n + 1 : k <= l => T[k] <= T[l]
      BY CutsGoUp
<1>v. z <= Len(b) /\ T[y + m + 1] <= Len(b)
  <2>1. y + m + 1 \in 0 .. n + 1 /\ n + 1 \in 0 .. n + 1 /\ y + m + 1 <= n + 1
        BY <1>0
  <2>2. T[y + m + 1] <= T[n + 1] /\ T[y + m + 1] \in Nat /\ T[n + 1] = Len(b)
        BY <1>2, <1>u, <2>1
  <2> QED BY <1>0, <1>a, <2>2
<1>1. /\ s \in Strings /\ Len(s) = a + L + Len(b) - z
      /\ \A k \in 1 .. a : s[k] = b[k]
      /\ \A k \in 1 .. L : s[a + k] = mid[k]
      /\ \A k \in z + 1 .. Len(b) : s[k - z + a + L] = b[k]
  <2>1. b \in Seq(Chars) /\ mid \in Seq(Chars) /\ a \in 0 .. Len(b) /\ z \in a .. Len(b)
        BY <1>0, <1>a, <1>v DEF Strings
  <2> HIDE DEF s, L, n2
  <2>2. /\ Splice(b, a, mid, z) \in Seq(Chars)
        /\ Pieces3(Splice(b, a, mid, z), b, a, mid, z)
        BY <2>1, Spliced
  <2> QED BY <2>2 DEF Strings, s, L, Pieces3
<1>3. \A k \in 0 .. n2 + 1 : W[k] \in Nat
      BY <1>c
<1> HIDE DEF s, L
<1>n. n2 = n - m + j
      OBVIOUS
<1> HIDE DEF n2
<1>4. W[0] = 0
      BY <1>c, <1>2
<1>5. W[n2 + 1] = Len(s)
  <2> DEFINE k == n + 1
  <2>1. k \in y + m + 1 .. n + 1 /\ k - m + j = n2 + 1 /\ T[k] = Len(b)
        BY <1>0, <1>n, <1>2
  <2> HIDE DEF k
  <2>2. W[k - m + j] = T[k] - z + a + L
        BY <1>d, <2>1
  <2> DEFINE t == T[k]
  <2>3. t = Len(b) /\ W[n2 + 1] = t - z + a + L
        BY <2>1, <2>2
  <2> HIDE DEF t
  <2>4. Len(s) = a + L + Len(b) - z
        BY <1>1
  <2> QED BY <1>0, <2>3, <2>4
<1>6. W[n2] <= W[n2 + 1]
  <2>1. CASE y + m = n
    <3>1. y + j = n2
          BY <1>0, <1>n, <2>1
    <3> QED BY <1>a, <3>1
  <2>2. CASE y + m < n
    <3> DEFINE l == n + 1
    <3>1. /\ n \in y + m + 1 .. n + 1 /\ n - m + j = n2
          /\ l \in y + m + 1 .. n + 1 /\ l - m + j = n2 + 1
          /\ n \in 0 .. n + 1 /\ l \in 0 .. n + 1
          BY <1>0, <1>n, <2>2
    <3>3. T[n] \in Nat /\ T[l] \in Nat /\ T[n] <= T[l]
          BY <1>2, <3>1
    <3> HIDE DEF l
    <3>2. W[n - m + j] = T[n] - z + a + L /\ W[l - m + j] = T[l] - z + a + L
          BY <1>d, <3>1
    <3> DEFINE t == T[n]
               r == T[l]
    <3>4. W[n2] = t - z + a + L /\ W[n2 + 1] = r - z + a + L /\ t \in Nat /\ r \in Nat /\ t <= r
          BY <3>1, <3>2, <3>3
    <3> HIDE DEF t, r
    <3> QED BY <1>0, <3>4
  <2> QED BY <1>0, <2>1, <2>2
<1>7. ASSUME NEW k \in 1 .. n2
      PROVE  W[k - 1] < W[k] /\ s[W[k]] = EOL
  <2>1. CASE k <= y
    <3>1. k \in 0 .. y /\ k - 1 \in 0 .. y /\ k \in 1 .. n
          BY <1>0, <2>1
    <3>2. W[k] = T[k] /\ W[k - 1] = T[k - 1]
          BY <1>c, <3>1
    <3>3. T[k] \in Nat /\ T[k - 1] \in Nat /\ T[y] \in Nat /\ T[k] <= T[y] /\ T[k - 1] < T[k]
          /\ b[T[k]] = EOL
      <4>1. k \in 0 .. n + 1 /\ k - 1 \in 0 .. n + 1 /\ y \in 0 .. n + 1 /\ k <= y
            BY <1>0, <2>1
      <4>2. T[k] <= T[y]
            BY <1>u, <4>1
      <4> QED BY <1>2, <3>1, <4>1, <4>2
    <3>4. T[k] \in 1 .. a
          BY <1>a, <3>3
    <3> QED BY <1>1, <3>2, <3>3, <3>4
  <2>2. CASE k > y /\ k <= y + j
    <3>1. k \in y + 1 .. y + j
          BY <1>0, <2>2
    <3>2. W[k - 1] < W[k] /\ W[k] - a \in 1 .. L /\ mid[W[k] - a] = EOL
          BY <1>e, <3>1
    <3>3. a + (W[k] - a) = W[k]
      <4>1. k \in 0 .. n2 + 1
            BY <1>0
      <4> QED BY <1>3, <4>1
    <3> QED BY <1>1, <3>2, <3>3
  <2>3. CASE k = y + j + 1
    <3>1. y + m < n /\ y + m + 1 \in y + m + 1 .. n + 1 /\ y + m + 1 - m + j = k /\ k - 1 = y + j
          /\ y + m + 1 \in 1 .. n
          BY <1>0, <1>n, <2>3
    <3>2. W[k] = T[y + m + 1] - z + a + L
          BY <1>d, <3>1
    <3>3. W[k - 1] < W[k]
          BY <1>a, <3>1, <2>3
    <3>4. CASE z < T[y + m + 1]
      <4> DEFINE t == T[y + m + 1]
      <4>1. t \in Nat /\ b[t] = EOL
            BY <1>0, <1>2, <3>1
      <4>2. t \in z + 1 .. Len(b)
            BY <1>0, <1>v, <3>4, <4>1
      <4>3. W[k] = t - z + a + L
            BY <3>2
      <4> HIDE DEF t
      <4>4. s[t - z + a + L] = b[t]
            BY <1>1, <4>2
      <4> QED BY <3>3, <4>1, <4>3, <4>4
    <3>5. CASE L > 0 /\ mid[L] = EOL /\ W[y + j + 1] = a + L
      <4>1. L \in 1 .. L
            BY <1>0, <3>5
      <4> QED BY <1>1, <2>3, <3>3, <3>5, <4>1
    <3> QED BY <1>a, <3>1, <3>4, <3>5
  <2>4. CASE k > y + j + 1
    <3> DEFINE l == k + m - j
    <3>1. /\ l \in y + m + 1 .. n + 1 /\ l - m + j = k /\ l - 1 \in y + m + 1 .. n + 1
          /\ l - 1 - m + j = k - 1 /\ l \in 1 .. n /\ y + m + 1 \in 0 .. n + 1
          /\ y + m + 1 <= l - 1 /\ l - 1 \in 0 .. n + 1 /\ l \in 0 .. n + 1
          BY <1>0, <1>n, <2>4
    <3> HIDE DEF l
    <3> DEFINE t == T[l]
               r == T[l - 1]
    <3>2. W[k] = t - z + a + L /\ W[k - 1] = r - z + a + L
          BY <1>d, <3>1
    <3>3. r < t /\ b[t] = EOL /\ t \in Nat /\ r \in Nat
          BY <1>2, <3>1
    <3>4. T[y + m + 1] <= r /\ t <= T[n + 1]
      <4>1. n + 1 \in 0 .. n + 1 /\ l <= n + 1
            BY <1>0, <3>1
      <4> QED BY <1>u, <3>1, <4>1
    <3>5. T[y + m + 1] \in Nat /\ T[n + 1] = Len(b)
          BY <1>2, <3>1
    <3> HIDE DEF t, r
    <3>6. t \in z + 1 .. Len(b)
          BY <1>0, <1>a, <3>3, <3>4, <3>5
    <3>7. s[t - z + a + L] = EOL
          BY <1>1, <3>3, <3>6
    <3>8. W[k - 1] < W[k]
          BY <1>0, <3>2, <3>3
    <3> QED BY <3>2, <3>7, <3>8
  <2> QED BY <1>0, <2>1, <2>2, <2>3, <2>4
<1>8. ASSUME NEW p \in 1 .. Len(s), s[p] = EOL
      PROVE  \E k \in 1 .. n2 + 1 : p = W[k]
  <2>1. CASE p <= a
    <3>1. p \in 1 .. Len(b) /\ b[p] = EOL
          BY <1>0, <1>1, <1>8, <1>a, <1>v, <2>1
    <3>2. PICK k \in 1 .. n + 1 : p = T[k]
          BY <1>2, <3>1
    <3>3. p <= T[y]
      <4>1. ~(p \in T[y] + 1 .. a)
            BY <1>b, <3>1
      <4>2. T[y] \in Nat
            BY <1>0, <1>2
      <4> QED BY <2>1, <4>1, <4>2
    <3>4. CASE k <= y
      <4>1. k \in 0 .. y /\ k \in 1 .. n2 + 1
            BY <1>0, <1>n, <3>4
      <4> QED BY <1>c, <3>2, <4>1
    <3>5. CASE k > y
      <4>1. T[y] <= T[k] /\ T[y] \in Nat
        <5>1. y \in 0 .. n + 1 /\ k \in 0 .. n + 1 /\ y <= k
              BY <1>0, <3>5
        <5> QED BY <1>2, <1>u, <5>1
      <4>2. p = T[y]
            BY <3>2, <3>3, <4>1
      <4>3. y # 0
            BY <1>2, <4>2
      <4>4. y \in 0 .. y /\ y \in 1 .. n2 + 1
            BY <1>0, <1>n, <4>3
      <4> QED BY <1>c, <4>2, <4>4
    <3> QED BY <1>0, <3>4, <3>5
  <2>2. CASE p > a /\ p <= a + L
    <3> DEFINE q == p - a
    <3>1. q \in 1 .. L /\ a + q = p
          BY <1>0, <2>2
    <3> HIDE DEF q
    <3>2. mid[q] = EOL
          BY <1>1, <1>8, <3>1
    <3>3. PICK i \in y + 1 .. y + j + 1 : a + q = W[i]
          BY <1>f, <3>1, <3>2
    <3>4. i \in 1 .. n2 + 1
          BY <1>0, <1>n
    <3> QED BY <3>1, <3>3, <3>4
  <2>3. CASE p > a + L
    <3> DEFINE l == p - a - L + z
    <3>1. l \in z + 1 .. Len(b) /\ l - z + a + L = p /\ l \in 1 .. Len(b)
          BY <1>0, <1>1, <1>v, <2>3
    <3> HIDE DEF l
    <3>2. b[l] = EOL
          BY <1>1, <1>8, <3>1
    <3>3. PICK k \in 1 .. n + 1 : l = T[k]
          BY <1>2, <3>1, <3>2
    <3>4. k > y + m
      <4>1. k \in 0 .. n + 1 /\ y + m \in 0 .. n + 1
            BY <1>0
      <4>2. k <= y + m => T[k] <= T[y + m]
            BY <1>u, <4>1
      <4>3. T[k] \in Nat /\ T[y + m] \in Nat
            BY <1>2, <4>1
      <4>4. T[k] > z
            BY <3>1, <3>3
      <4>5. ~(T[k] <= T[y + m])
            BY <1>a, <4>3, <4>4
      <4> QED BY <4>1, <4>2, <4>5
    <3>5. k \in y + m + 1 .. n + 1 /\ k - m + j \in 1 .. n2 + 1
          BY <1>0, <1>n, <3>4
    <3>6. W[k - m + j] = T[k] - z + a + L
          BY <1>d, <3>5
    <3> QED BY <3>1, <3>3, <3>5, <3>6
  <2> QED BY <1>0, <1>1, <2>1, <2>2, <2>3
<1>9. Cuts(s, W, n2)
      BY <1>0, <1>1, <1>c, <1>4, <1>5, <1>6, <1>7, <1>8 DEF Cuts
<1> QED BY <1>9 DEF s, n2


(* The offsets of the lines when new replaces the lengths of lines y to    *)
(* y + m, counted from 0.                                                  *)
Resum(T, N, new, y, m, j, W) ==
  /\ W \in [0 .. N - m + j -> Nat]
  /\ \A k \in 0 .. y : W[k] = T[k]
  /\ \A i \in 1 .. j + 1 : W[y + i] = W[y + i - 1] + new[i]
  /\ \A k \in y + m + 1 .. N : W[k - m + j] = T[k] - T[y + m + 1] + W[y + j + 1]

LEMMA Resummed ==
  ASSUME NEW lens \in Seq(Nat), NEW new \in Seq(Nat),
         NEW y \in Nat, NEW m \in Nat, NEW j \in Nat, NEW W,
         y + m + 1 <= Len(lens), Len(new) = j + 1,
         Resum(Starts(lens), Len(lens), new, y, m, j, W)
  PROVE  /\ Splice(lens, y, new, y + m + 1) \in Seq(Nat)
         /\ Len(Splice(lens, y, new, y + m + 1)) = Len(lens) - m + j
         /\ Summed(Splice(lens, y, new, y + m + 1), W)
         /\ Starts(Splice(lens, y, new, y + m + 1)) = W
<1> DEFINE T == Starts(lens)
           N == Len(lens)
           z == y + m + 1
           s == Splice(lens, y, new, z)
<1>0. N \in Nat /\ Summed(lens, T)
      BY LenProperties, StartsSum
<1>1. s \in Seq(Nat) /\ Pieces3(s, lens, y, new, z)
  <2>1. y \in 0 .. Len(lens) /\ z \in y .. Len(lens)
        BY <1>0
  <2> HIDE DEF z
  <2> QED BY <2>1, Spliced
<1> HIDE DEF s, T, N
<1>2. Resum(T, N, new, y, m, j, W)
      BY DEF T, N
<1>3. /\ W \in [0 .. N - m + j -> Nat]
      /\ \A k \in 0 .. y : W[k] = T[k]
      /\ \A i \in 1 .. j + 1 : W[y + i] = W[y + i - 1] + new[i]
      /\ \A k \in y + m + 1 .. N : W[k - m + j] = T[k] - T[y + m + 1] + W[y + j + 1]
      BY <1>2 DEF Resum
<1>4. /\ T \in [0 .. N -> Nat] /\ T[0] = 0
      /\ \A k \in 1 .. N : T[k] = T[k - 1] + lens[k]
      BY <1>0 DEF Summed, N
<1>5. /\ Len(s) = N - m + j
      /\ \A k \in 1 .. y : s[k] = lens[k]
      /\ \A k \in 1 .. j + 1 : s[y + k] = new[k]
      /\ \A k \in z + 1 .. N : s[k - z + y + (j + 1)] = lens[k]
  <2>1. Len(new) = j + 1 /\ z = y + m + 1
        OBVIOUS
  <2> HIDE DEF z
  <2>2. /\ Len(s) = y + Len(new) + N - z
        /\ \A k \in 1 .. y : s[k] = lens[k]
        /\ \A k \in 1 .. Len(new) : s[y + k] = new[k]
        /\ \A k \in z + 1 .. N : s[k - z + y + Len(new)] = lens[k]
        BY <1>1 DEF Pieces3, N
  <2>3. y + (j + 1) + N - z = N - m + j
        BY <1>0, <2>1
  <2> QED BY <2>1, <2>2, <2>3
<1>6. y + m + 1 <= N
      BY DEF N
<1>7. ASSUME NEW k \in 1 .. N - m + j
      PROVE  W[k] = W[k - 1] + s[k]
  <2>1. CASE k <= y
    <3>1. k \in 1 .. y /\ k \in 1 .. N /\ k \in 0 .. y /\ k - 1 \in 0 .. y
          BY <1>0, <1>6, <2>1
    <3> QED BY <1>3, <1>4, <1>5, <3>1
  <2>2. CASE k > y /\ k <= y + j + 1
    <3> DEFINE i == k - y
    <3>1. i \in 1 .. j + 1 /\ y + i = k /\ y + i - 1 = k - 1
          BY <2>2
    <3> HIDE DEF i
    <3>2. W[y + i] = W[y + i - 1] + new[i] /\ s[y + i] = new[i]
          BY <1>3, <1>5, <3>1
    <3> QED BY <3>1, <3>2
  <2>3. CASE k > y + j + 1
    <3> DEFINE l == k + m - j
               r == l - 1
    <3>1. /\ l \in z + 1 .. N /\ l \in y + m + 1 .. N /\ r \in y + m + 1 .. N
          /\ l - m + j = k /\ r - m + j = k - 1 /\ l - z + y + (j + 1) = k
          /\ l \in 1 .. N /\ r = l - 1 /\ l \in 0 .. N /\ r \in 0 .. N
          /\ y + m + 1 \in 0 .. N /\ y + j + 1 \in 0 .. N - m + j
          BY <1>0, <1>6, <2>3
    <3> HIDE DEF l, r, z
    <3>2. s[k] = lens[l]
          BY <1>5, <3>1
    <3>3. T[l] = T[r] + lens[l]
          BY <1>4, <3>1
    <3> DEFINE c == T[y + m + 1]
               w == W[y + j + 1]
    <3>4. W[k] = T[l] - c + w /\ W[k - 1] = T[r] - c + w
      <4>1. W[l - m + j] = T[l] - T[y + m + 1] + W[y + j + 1]
            BY <1>3, <3>1
      <4>2. W[r - m + j] = T[r] - T[y + m + 1] + W[y + j + 1]
            BY <1>3, <3>1
      <4> QED BY <3>1, <4>1, <4>2
    <3>5. T[l] \in Nat /\ T[r] \in Nat /\ c \in Nat /\ w \in Nat /\ lens[l] \in Nat
      <4>1. lens[l] \in Nat
            BY <3>1, ElementOfSeq DEF N
      <4> QED BY <1>3, <1>4, <3>1, <4>1
    <3> DEFINE tl == T[l]
               tr == T[r]
               len == lens[l]
    <3>6. /\ tl \in Nat /\ tr \in Nat /\ c \in Nat /\ w \in Nat /\ len \in Nat
          /\ tl = tr + len /\ W[k] = tl - c + w /\ W[k - 1] = tr - c + w /\ s[k] = len
          BY <3>2, <3>3, <3>4, <3>5
    <3> HIDE DEF c, w, tl, tr, len
    <3> QED BY <3>6
  <2> QED BY <2>1, <2>2, <2>3
<1>8. W[0] = 0
      BY <1>3, <1>4
<1>9. Summed(s, W)
      BY <1>3, <1>5, <1>7, <1>8 DEF Summed
<1>10. Starts(s) = W
      BY <1>1, <1>9, StartsAre
<1> QED BY <1>1, <1>5, <1>9, <1>10 DEF s, N


-----------------------------------------------------------------------------
(* The lines of the editor. *)

Editors ==
  [buffer : Strings, lenLines : Seq(Nat), totalLines : Nat, y : Nat, x : Nat,
   curLine : Nat, overwrite : BOOLEAN, selStart : Offsets, selEnd : Offsets,
   mark : Offsets, nline : Int, editing : BOOLEAN, bufEdit : Strings, inEdit : Nat,
   restCharsInLine : Int, markInLine : Int, selNewStart : Offsets, selNewEnd : Offsets,
   selLineStart : Offsets, selLineEnd : Offsets]

(* The index of lines fits the buffer, and the cursor is in a line.        *)
InLines(d) ==
  /\ d \in Editors
  /\ Len(d.lenLines) = d.totalLines + 1
  /\ Cuts(d.buffer, Starts(d.lenLines), d.totalLines)
  /\ d.y <= d.totalLines /\ d.curLine = Starts(d.lenLines)[d.y]

(* w is the width of line k, which is at T[k].                             *)
Wide(d, T, k, w) ==
  /\ T[k] \in Nat /\ T[k + 1] \in Nat /\ d.lenLines[k + 1] \in Nat
  /\ T[k + 1] = T[k] + d.lenLines[k + 1] /\ T[k + 1] <= Len(d.buffer)
  /\ w \in Nat /\ w <= d.lenLines[k + 1]
  /\ \A p \in T[k] + 1 .. T[k] + w : d.buffer[p] # EOL
  /\ k < d.totalLines => w < d.lenLines[k + 1]
  /\ w < d.lenLines[k + 1] => w + 1 = d.lenLines[k + 1] /\ d.buffer[T[k + 1]] = EOL

LEMMA WideLine ==
  ASSUME NEW d, InLines(d), NEW k \in 0 .. d.totalLines
  PROVE  Wide(d, Starts(d.lenLines), k, LenWithoutCRLF(d, k))
<1> DEFINE T == Starts(d.lenLines)
           n == d.totalLines
           b == d.buffer
           lens == d.lenLines
           len == lens[k + 1]
           w == LenWithoutCRLF(d, k)
<1>1. /\ b \in Strings /\ lens \in Seq(Nat) /\ n \in Nat /\ Len(lens) = n + 1
      /\ Cuts(b, T, n)
      BY DEF InLines, Editors
<1>2. Summed(lens, T) /\ \A i \in 0 .. Len(lens) : Total(lens, 0, i) = T[i]
      BY <1>1, StartsSum
<1>3. w = len - (IF len > 0 /\ b[T[k + 1]] = EOL THEN 1 ELSE 0)
  <2>1. Total(lens, 0, k + 1) = T[k + 1]
        BY <1>1, <1>2
  <2> QED BY <2>1 DEF LenWithoutCRLF
<1> HIDE DEF T, n, b, lens, w
<1>4. len \in Nat
  <2>1. k + 1 \in 1 .. Len(lens)
        BY <1>1 DEF n
  <2> QED BY <1>1, <2>1, ElementOfSeq
<1>5. T[k + 1] = T[k] + len /\ T[k] \in Nat /\ T[k + 1] \in Nat
  <2> DEFINE l == k + 1
  <2>1. l \in 1 .. n + 1 /\ l - 1 = k /\ k \in 0 .. n + 1 /\ l \in 0 .. n + 1
        BY <1>1 DEF n
  <2> HIDE DEF l
  <2>2. T[l] = T[l - 1] + lens[l] /\ T[k] \in Nat /\ T[l] \in Nat
        BY <1>1, <1>2, <2>1 DEF Summed
  <2> QED BY <2>1, <2>2 DEF l
<1> DEFINE t == T[k + 1]
           r == T[k]
<1>6. t = r + len /\ r \in Nat /\ t \in Nat /\ w = len - (IF len > 0 /\ b[t] = EOL THEN 1 ELSE 0)
      BY <1>3, <1>5
<1>7. t <= Len(b) /\ Len(b) \in Nat
  <2>1. k + 1 \in 0 .. n + 1
        BY <1>1 DEF n
  <2>2. t <= Len(b)
        BY <1>1, <2>1, CutsGoUp
  <2> QED BY <1>1, <2>2, LenProperties DEF Strings
<1>8. k < n => b[t] = EOL /\ len > 0
  <2> SUFFICES ASSUME k < n PROVE b[t] = EOL /\ len > 0
      OBVIOUS
  <2> DEFINE l == k + 1
  <2>1. l \in 1 .. n /\ l - 1 = k
        BY <1>1 DEF n
  <2> HIDE DEF l
  <2>2. b[T[l]] = EOL /\ T[l - 1] < T[l]
        BY <1>1, <2>1 DEF Cuts
  <2>3. b[t] = EOL /\ r < t
        BY <2>1, <2>2 DEF l
  <2> HIDE DEF t, r, len
  <2> QED BY <1>4, <1>6, <2>3
<1>9. ASSUME NEW p \in r + 1 .. r + w, b[p] = EOL
      PROVE  FALSE
  <2>1. p > r /\ p <= t /\ p \in 1 .. Len(b)
    <3> HIDE DEF t, r, len
    <3> QED BY <1>4, <1>6, <1>7
  <2>2. PICK i \in 1 .. n + 1 : p = T[i]
        BY <1>1, <1>9, <2>1 DEF Cuts
  <2>3. i = k + 1
    <3>1. \A f, g \in 0 .. n + 1 : f <= g => T[f] <= T[g]
          BY <1>1, CutsGoUp
    <3>2. \A f \in 0 .. n : \A g \in 0 .. n : f < g => T[f] < T[g]
          BY <1>1, CutsGoUp
    <3>3. /\ k \in 0 .. n /\ k + 1 \in 0 .. n + 1 /\ i \in 0 .. n + 1
          /\ k \in 0 .. n + 1 /\ n \in Nat
          BY <1>1 DEF n
    <3>4. i > k
      <4>1. i <= k => T[i] <= T[k]
            BY <3>1, <3>3
      <4>2. ~(T[i] <= T[k])
            BY <1>6, <2>1, <2>2
      <4> QED BY <3>3, <4>1, <4>2
    <3>5. ~(i > k + 1)
      <4> SUFFICES ASSUME i > k + 1 PROVE FALSE
          OBVIOUS
      <4>1. CASE i \in 0 .. n
        <5> DEFINE l == k + 1
        <5>1. l \in 0 .. n /\ l < i
              BY <3>3, <4>1
        <5> HIDE DEF l
        <5>2. T[l] < T[i] /\ T[l] = t
              BY <3>2, <4>1, <5>1 DEF l
        <5> HIDE DEF t
        <5> QED BY <1>6, <2>1, <2>2, <5>2
      <4>2. CASE i = n + 1
        <5>1. k < n /\ k + 1 \in 0 .. n /\ n \in 0 .. n
              BY <1>1, <3>3, <4>2
        <5> DEFINE l == k + 1
        <5>2. T[n] <= T[n + 1] /\ T[n + 1] = p
              BY <1>1, <2>2, <4>2 DEF Cuts
        <5>3. T[l] <= T[n]
          <6>1. l \in 0 .. n + 1 /\ n \in 0 .. n + 1 /\ l <= n
                BY <1>1, <5>1
          <6> HIDE DEF l
          <6> QED BY <3>1, <6>1
        <5>4. T[n] \in Nat /\ T[l] = t
          <6>1. n \in 0 .. n + 1
                BY <1>1
          <6> QED BY <1>1, <6>1 DEF Cuts
        <5>5. p = t /\ T[n] = t
          <6> DEFINE tn == T[n]
          <6>1. tn <= p /\ t <= tn /\ tn \in Nat
                BY <5>2, <5>3, <5>4
          <6> HIDE DEF tn, t
          <6>2. p = t /\ tn = t
                BY <1>6, <2>1, <6>1
          <6> QED BY <6>2 DEF tn
        <5>6. p = t /\ b[t] = EOL
              BY <1>9, <5>5
        <5> HIDE DEF t, r, len
        <5> QED BY <1>4, <1>6, <1>8, <5>1, <5>6
      <4> QED BY <1>1, <3>3, <4>1, <4>2
    <3> QED BY <3>3, <3>4, <3>5
  <2>4. p = t
        BY <2>2, <2>3
  <2> HIDE DEF t, r, len
  <2> QED BY <1>4, <1>6, <1>9, <2>4
<1>10. /\ w \in Nat /\ w <= len
       /\ k < n => w < len
       /\ w < len => w + 1 = len /\ b[t] = EOL
  <2> HIDE DEF t, r, len
  <2> QED BY <1>4, <1>6, <1>8
<1> QED BY <1>4, <1>5, <1>7, <1>9, <1>10 DEF Wide, T, n, b, lens, w


LEMMA Unsigneds ==
  /\ Unsigned \in Nat /\ Unsigned > 0
  /\ \A k \in Int : U(k) \in Offsets
  /\ \A k \in Offsets : U(k) = k /\ k \in Nat /\ k \in Int
  /\ 0 \in Offsets
<1>1. Unsigned \in Nat /\ Unsigned > 0
      BY TextAssumption
<1>2. ASSUME NEW k \in Int PROVE U(k) \in Offsets
      BY <1>1 DEF U, Offsets
<1>3. ASSUME NEW k \in Offsets PROVE U(k) = k /\ k \in Nat /\ k \in Int
      BY <1>1 DEF U, Offsets
<1>4. 0 \in Offsets
      BY <1>1 DEF Offsets
<1> QED BY <1>1, <1>2, <1>3, <1>4

NoEnds(s) == \A k \in 1 .. Len(s) : s[k] # EOL

(* The blanks at the end of a text.                                        *)
LEMMA UsedOf ==
  ASSUME NEW s \in Strings
  PROVE  /\ Used(s) \in 0 .. Len(s)
         /\ \A k \in Used(s) + 1 .. Len(s) : s[k] = Blank
<1> DEFINE S == {0} \cup {k \in DOMAIN s : s[k] # Blank}
<1>1. Len(s) \in Nat /\ DOMAIN s = 1 .. Len(s)
      BY LenProperties DEF Strings
<1>2. S \subseteq 0 .. Len(s) /\ S # {}
      BY <1>1
<1>3. Max(S) \in S /\ \A k \in S : k <= Max(S)
  <2> HIDE DEF S
  <2> QED BY <1>1, <1>2, MaxIsGreatest
<1>4. Used(s) = Max(S)
      BY DEF Used
<1> DEFINE u == Used(s)
<1> HIDE DEF u
<1>5. u \in 0 .. Len(s)
      BY <1>2, <1>3, <1>4 DEF u
<1>6. ASSUME NEW k \in u + 1 .. Len(s) PROVE s[k] = Blank
  <2>1. k \in 1 .. Len(s) /\ ~(k <= u)
        BY <1>1, <1>5
  <2>2. k \notin S
        BY <1>3, <1>4, <2>1 DEF u
  <2> QED BY <1>1, <2>1, <2>2
<1> QED BY <1>5, <1>6 DEF u

(* Only the selection is another one.                                      *)
Reselected(r, d) ==
  \E a1, a2, a3, a4 \in Offsets :
    r = [d EXCEPT !.selLineStart = a1, !.selNewStart = a2,
                  !.selLineEnd = a3, !.selNewEnd = a4]

LEMMA AdjustLineSelFields ==
  ASSUME NEW d \in Editors, NEW pos \in Int, NEW dif \in Int, NEW i, NEW l
  PROVE  Reselected(AdjustLineSel(d, pos, dif, i, l), d)
<1> DEFINE moved(a, b) == [d EXCEPT !.selLineStart = U(@ + a), !.selNewStart = U(@ + a),
                               !.selLineEnd = U(@ + b), !.selNewEnd = U(@ + b)]
           over(p) == LET st == Signed(pos - p + dif)
                      IN  IF l /\ dif < 0 /\ st < 0 THEN st ELSE 0
           is(r) == \E a1, a2, a3, a4 \in Offsets : r =
             [d EXCEPT !.selLineStart = a1, !.selNewStart = a2,
                       !.selLineEnd = a3, !.selNewEnd = a4]
<1>1. \A k \in Int : U(k) \in Offsets /\ U(k) \in Int
      BY Unsigneds
<1>a. /\ d.selLineStart \in Offsets /\ d.selNewStart \in Offsets
      /\ d.selLineEnd \in Offsets /\ d.selNewEnd \in Offsets
      BY DEF Editors
<1>2. /\ d.selLineStart \in Int /\ d.selNewStart \in Int
      /\ d.selLineEnd \in Int /\ d.selNewEnd \in Int
      BY <1>a, Unsigneds
<1>3. is(d)
  <2>1. d = [d EXCEPT !.selLineStart = d.selLineStart, !.selNewStart = d.selNewStart,
                      !.selLineEnd = d.selLineEnd, !.selNewEnd = d.selNewEnd]
        BY DEF Editors
  <2> QED BY <1>a, <2>1
<1>4. \A a, b \in Int : is(moved(a, b))
  <2> TAKE a, b \in Int
  <2>1. /\ U(d.selLineStart + a) \in Offsets /\ U(d.selNewStart + a) \in Offsets
        /\ U(d.selLineEnd + b) \in Offsets /\ U(d.selNewEnd + b) \in Offsets
        BY <1>1, <1>2
  <2>2. moved(a, b) = [d EXCEPT !.selLineStart = U(d.selLineStart + a),
          !.selNewStart = U(d.selNewStart + a),
          !.selLineEnd = U(d.selLineEnd + b), !.selNewEnd = U(d.selNewEnd + b)]
        BY DEF Editors
  <2> HIDE DEF moved
  <2> QED BY <2>1, <2>2
<1>5. \A p \in Int : over(p) \in Int
  <2> TAKE p \in Int
  <2>1. U(pos - p + dif) \in Int /\ Unsigned \in Nat
        BY <1>1, Unsigneds
  <2> QED BY <2>1 DEF Signed
<1> HIDE DEF moved, over, is
<1>6. is(AdjustLineSel(d, pos, dif, i, l))
  <2>1. AdjustLineSel(d, pos, dif, i, l) \in
          {d, moved(dif, dif), moved(over(d.selLineStart), dif), moved(0, over(d.selLineEnd))}
        BY DEF AdjustLineSel, moved, over
  <2>2. /\ is(moved(dif, dif)) /\ is(moved(over(d.selLineStart), dif))
        /\ is(moved(0, over(d.selLineEnd)))
        BY <1>2, <1>4, <1>5
  <2> QED BY <1>3, <2>1, <2>2
<1> QED BY <1>6 DEF is, Reselected


(* A list with one number changed.                                         *)
LEMMA OneChanged ==
  ASSUME NEW lens \in Seq(Nat), NEW y \in 0 .. Len(lens) - 1, NEW v \in Nat
  PROVE  [lens EXCEPT ![y + 1] = v] = Splice(lens, y, <<v>>, y + 1)
<1> DEFINE s == Splice(lens, y, <<v>>, y + 1)
           r == [lens EXCEPT ![y + 1] = v]
           N == Len(lens)
<1>0. N \in Nat /\ DOMAIN lens = 1 .. N /\ \A k \in 1 .. N : lens[k] \in Nat
      BY LenProperties, ElementOfSeq
<1>1. s \in Seq(Nat) /\ Pieces3(s, lens, y, <<v>>, y + 1)
  <2> DEFINE new == <<v>>
             z == y + 1
  <2>1. new \in Seq(Nat) /\ y \in 0 .. Len(lens) /\ z \in y .. Len(lens)
        BY <1>0
  <2> HIDE DEF new, z
  <2>2. /\ Splice(lens, y, new, z) \in Seq(Nat)
        /\ Pieces3(Splice(lens, y, new, z), lens, y, new, z)
        BY <2>1, Spliced
  <2> QED BY <2>2 DEF new, z
<1>2. /\ Len(s) = N
      /\ \A k \in 1 .. y : s[k] = lens[k]
      /\ s[y + 1] = v
      /\ \A k \in y + 2 .. N : s[k] = lens[k]
  <2> HIDE DEF s
  <2> DEFINE z == y + 1
             new == <<v>>
  <2>1. z = y + 1 /\ Len(new) = 1 /\ new[1] = v /\ N = Len(lens)
        OBVIOUS
  <2>2. Pieces3(s, lens, y, new, z)
        BY <1>1
  <2> HIDE DEF z, new, N
  <2>3. /\ Len(s) = y + Len(new) + N - z
        /\ \A k \in 1 .. y : s[k] = lens[k]
        /\ \A k \in 1 .. Len(new) : s[y + k] = new[k]
        /\ \A k \in z + 1 .. N : s[k - z + y + Len(new)] = lens[k]
        BY <2>1, <2>2 DEF Pieces3
  <2>4. Len(s) = N
        BY <1>0, <2>1, <2>3
  <2>5. s[y + 1] = v
        BY <2>1, <2>3
  <2>6. ASSUME NEW k \in y + 2 .. N PROVE s[k] = lens[k]
    <3>1. k \in z + 1 .. N /\ k - z + y + Len(new) = k
          BY <1>0, <2>1
    <3>2. s[k - z + y + Len(new)] = lens[k]
          BY <2>3, <3>1
    <3> QED BY <3>1, <3>2
  <2> QED BY <2>3, <2>4, <2>5, <2>6 DEF N
<1>3. r \in Seq(Nat) /\ Len(r) = N
  <2>1. r \in [1 .. N -> Nat]
        BY <1>0
  <2> HIDE DEF r
  <2> QED BY <1>0, <2>1, IsASeq
<1> HIDE DEF s
<1>4. ASSUME NEW k \in 1 .. N PROVE r[k] = s[k]
  <2>1. CASE k = y + 1
        BY <1>0, <1>2, <2>1
  <2>2. CASE k <= y
        BY <1>0, <1>2, <2>2
  <2>3. CASE k > y + 1
        BY <1>0, <1>2, <2>3
  <2> QED BY <1>0, <2>1, <2>2, <2>3
<1>5. r = s
  <2> HIDE DEF r
  <2> QED BY <1>1, <1>2, <1>3, <1>4, SeqEqual
<1> QED BY <1>5 DEF s

(* The line in edition goes back to the buffer.                            *)
Ended(d) == Part(d.bufEdit, 0, Used(d.bufEdit)) \o <<EOL>>
PutBack(d, s1, s2, mk) ==
  [d EXCEPT
    !.buffer = Splice(d.buffer, d.curLine, Ended(d), d.curLine + d.lenLines[d.y + 1]),
    !.lenLines = [d.lenLines EXCEPT ![d.y + 1] = Len(Ended(d))],
    !.selStart = s1, !.selEnd = s2, !.mark = mk,
    !.editing = FALSE, !.bufEdit = <<>>, !.inEdit = 0, !.restCharsInLine = 0, !.markInLine = -1,
    !.selNewStart = 0, !.selNewEnd = 0, !.selLineStart = 0, !.selLineEnd = 0]

LEMMA MakeEfectiveIs ==
  ASSUME NEW d \in Editors, Ended(d) \in Strings, d.lenLines[d.y + 1] \in Nat
  PROVE  \E s1, s2, mk \in Offsets : MakeEfective(d) = PutBack(d, s1, s2, mk)
<1> DEFINE eaten == Len(d.bufEdit) - Used(d.bufEdit)
           a == IF eaten > 0 /\ d.selLineEnd > 0
                THEN AdjustLineSel(d, Len(d.bufEdit), -eaten, FALSE, TRUE) ELSE d
           old == d.lenLines[d.y + 1]
           mk == IF d.markInLine >= 0 THEN U(d.markInLine + d.curLine)
                 ELSE IF d.mark > d.curLine THEN U(d.mark + Len(Ended(d)) - old) ELSE d.mark
<1>1. d.bufEdit \in Strings /\ Len(d.bufEdit) \in Nat /\ Used(d.bufEdit) \in Int
  <2>1. d.bufEdit \in Strings
        BY DEF Editors
  <2>2. Len(d.bufEdit) \in Nat /\ Used(d.bufEdit) \in 0 .. Len(d.bufEdit)
        BY <2>1, UsedOf, LenProperties DEF Strings
  <2> QED BY <2>1, <2>2
<1>2. a.selNewStart \in Offsets /\ a.selNewEnd \in Offsets
  <2> DEFINE b == AdjustLineSel(d, Len(d.bufEdit), -eaten, FALSE, TRUE)
  <2>1. d.selNewStart \in Offsets /\ d.selNewEnd \in Offsets
        BY DEF Editors
  <2>2. b.selNewStart \in Offsets /\ b.selNewEnd \in Offsets
    <3> DEFINE dif == -eaten
               pos == Len(d.bufEdit)
               no == FALSE
               yes == TRUE
    <3>1. dif \in Int /\ pos \in Int
          BY <1>1
    <3> HIDE DEF dif, pos, no, yes
    <3>2. Reselected(AdjustLineSel(d, pos, dif, no, yes), d)
          BY <3>1, AdjustLineSelFields
    <3>3. /\ AdjustLineSel(d, pos, dif, no, yes).selNewStart \in Offsets
          /\ AdjustLineSel(d, pos, dif, no, yes).selNewEnd \in Offsets
          BY <3>2 DEF Editors, Reselected
    <3> QED BY <3>3 DEF dif, pos, no, yes
  <2> HIDE DEF b
  <2> QED BY <2>1, <2>2 DEF b
<1>3. mk \in Offsets
  <2>1. d.markInLine \in Int /\ d.curLine \in Int /\ d.mark \in Offsets /\ d.mark \in Int
        BY Unsigneds DEF Editors
  <2>2. d.mark + Len(Ended(d)) - old \in Int /\ d.markInLine + d.curLine \in Int
    <3>1. Len(Ended(d)) \in Nat
          BY LenProperties DEF Strings
    <3> QED BY <2>1, <3>1
  <2>3. \A k \in Int : U(k) \in Offsets
        BY Unsigneds
  <2> QED BY <2>1, <2>2, <2>3
<1>4. MakeEfective(d) = PutBack(d, a.selNewStart, a.selNewEnd, mk)
      BY DEF MakeEfective, PutBack, Splice, Ended
<1> HIDE DEF a, mk
<1> QED BY <1>2, <1>3, <1>4


(* A text with one character behind it.                                    *)
LEMMA WithLast ==
  ASSUME NEW s \in Strings, NEW c \in Chars
  PROVE  /\ s \o <<c>> \in Strings /\ Len(s \o <<c>>) = Len(s) + 1
         /\ \A k \in 1 .. Len(s) : (s \o <<c>>)[k] = s[k]
         /\ (s \o <<c>>)[Len(s) + 1] = c
<1> DEFINE t == <<c>>
<1>1. s \in Seq(Chars) /\ t \in Seq(Chars)
      BY DEF Strings
<1>2. Len(t) = 1 /\ t[1] = c
      OBVIOUS
<1> HIDE DEF t
<1>3. /\ s \o t \in Seq(Chars) /\ Len(s \o t) = Len(s) + Len(t)
      /\ \A k \in 1 .. Len(s) : (s \o t)[k] = s[k]
      /\ \A k \in 1 .. Len(t) : (s \o t)[Len(s) + k] = t[k]
      BY <1>1, Concat
<1>4. 1 \in 1 .. Len(t)
      BY <1>2
<1>5. (s \o t)[Len(s) + 1] = c
      BY <1>2, <1>3, <1>4
<1> QED BY <1>2, <1>3, <1>5 DEF t, Strings

LEMMA EndedIs ==
  ASSUME NEW d \in Editors, NoEnds(d.bufEdit)
  PROVE  /\ Ended(d) \in Strings /\ Len(Ended(d)) = Used(d.bufEdit) + 1
         /\ Used(d.bufEdit) \in 0 .. Len(d.bufEdit)
         /\ \A k \in 1 .. Used(d.bufEdit) : Ended(d)[k] # EOL
         /\ Ended(d)[Used(d.bufEdit) + 1] = EOL
<1> DEFINE s == d.bufEdit
           u == Used(s)
           p == Part(s, 0, u)
<1>1. s \in Strings /\ Len(s) \in Nat /\ u \in 0 .. Len(s)
  <2>1. s \in Strings
        BY DEF Editors
  <2> QED BY <2>1, UsedOf, LenProperties DEF Strings
<1> HIDE DEF s, u
<1>2. p \in Strings /\ Len(p) = u /\ \A k \in 1 .. u : p[k] = s[k]
  <2>1. s \in Seq(Chars) /\ 0 \in 0 .. Len(s) /\ u \in 0 .. Len(s)
        BY <1>1 DEF Strings
  <2>2. p \in Seq(Chars) /\ Len(p) = u - 0 /\ \A k \in 1 .. u - 0 : p[k] = s[0 + k]
        BY <2>1, PartOf
  <2> QED BY <1>1, <2>2 DEF Strings
<1> HIDE DEF p
<1>3. EOL \in Chars
      BY DEF Chars
<1>4. /\ p \o <<EOL>> \in Strings /\ Len(p \o <<EOL>>) = Len(p) + 1
      /\ \A k \in 1 .. Len(p) : (p \o <<EOL>>)[k] = p[k]
      /\ (p \o <<EOL>>)[Len(p) + 1] = EOL
  <2> DEFINE c == EOL
  <2>1. c \in Chars
        BY <1>3
  <2> HIDE DEF c
  <2>2. /\ p \o <<c>> \in Strings /\ Len(p \o <<c>>) = Len(p) + 1
        /\ \A k \in 1 .. Len(p) : (p \o <<c>>)[k] = p[k]
        /\ (p \o <<c>>)[Len(p) + 1] = c
        BY <1>2, <2>1, WithLast
  <2> QED BY <2>2 DEF c
<1>5. Ended(d) = p \o <<EOL>>
      BY DEF Ended, p, u, s
<1>6. \A k \in 1 .. u : s[k] # EOL
      BY <1>1 DEF NoEnds, s
<1> HIDE DEF EOL
<1>7. \A k \in 1 .. u : (p \o <<EOL>>)[k] # EOL
      BY <1>2, <1>4, <1>6
<1> QED BY <1>1, <1>2, <1>4, <1>5, <1>7 DEF s, u


LEMMA MakeEfectiveLines ==
  ASSUME NEW d, InLines(d), NoEnds(d.bufEdit)
  PROVE  LET f == MakeEfective(d)
         IN  /\ InLines(f) /\ ~f.editing /\ f.bufEdit = <<>>
             /\ f.x = d.x /\ f.y = d.y /\ f.totalLines = d.totalLines
<1> DEFINE b == d.buffer
           lens == d.lenLines
           T == Starts(lens)
           n == d.totalLines
           y == d.y
           a == T[y]
           z == T[y + 1]
           mid == Ended(d)
           L == Len(mid)
           new == <<L>>
           W == [k \in 0 .. n + 1 |-> IF k <= y THEN T[k] ELSE T[k] - z + a + L]
<1>1. /\ d \in Editors /\ b \in Strings /\ lens \in Seq(Nat) /\ n \in Nat /\ y \in 0 .. n
      /\ Len(lens) = n + 1 /\ Cuts(b, T, n) /\ d.curLine = a
      BY DEF InLines, Editors
<1>2. /\ mid \in Strings /\ L \in Nat /\ L > 0 /\ mid[L] = EOL
      /\ \A q \in 1 .. L : mid[q] = EOL => q = L
  <2> DEFINE u == Used(d.bufEdit)
  <2>1. /\ mid \in Strings /\ L = u + 1 /\ u \in 0 .. Len(d.bufEdit)
        /\ (\A k \in 1 .. u : mid[k] # EOL) /\ mid[u + 1] = EOL
        BY <1>1, EndedIs
  <2>2. u \in Nat
    <3>1. d.bufEdit \in Strings
          BY <1>1 DEF Editors
    <3> QED BY <2>1, <3>1, LenProperties DEF Strings
  <2> HIDE DEF u, mid
  <2> QED BY <2>1, <2>2
<1>3. Wide(d, T, y, LenWithoutCRLF(d, y))
      BY <1>1, WideLine
<1>4. /\ a \in Nat /\ z \in Nat /\ lens[y + 1] \in Nat /\ z = a + lens[y + 1]
      BY <1>3 DEF Wide
<1>5. \E s1, s2, mk \in Offsets : MakeEfective(d) = PutBack(d, s1, s2, mk)
      BY <1>1, <1>2, <1>4, MakeEfectiveIs
<1> HIDE DEF b, lens, T, n, y, mid, L
<1>6. \A k \in 0 .. n + 1 : T[k] \in Nat
      BY <1>1 DEF Cuts
<1>7. \A k \in y + 1 .. n + 1 : T[k] >= z
  <2> TAKE k \in y + 1 .. n + 1
  <2> DEFINE r == y + 1
  <2>1. r \in 0 .. n + 1 /\ k \in 0 .. n + 1 /\ r <= k
        BY <1>1
  <2> HIDE DEF r
  <2>2. T[r] <= T[k] /\ T[r] = z
        BY <1>1, <2>1, CutsGoUp DEF r
  <2>3. T[k] \in Nat
        BY <1>6, <2>1
  <2> QED BY <1>4, <2>2, <2>3
<1>8. /\ W \in [0 .. n + 1 -> Nat] /\ \A k \in 0 .. y : W[k] = T[k]
      /\ \A k \in y + 1 .. n + 1 : W[k] = T[k] - z + a + L
  <2>1. ASSUME NEW k \in 0 .. n + 1
        PROVE  (IF k <= y THEN T[k] ELSE T[k] - z + a + L) \in Nat
    <3> HIDE DEF a, z
    <3>1. CASE k <= y
          BY <1>6, <3>1
    <3>2. CASE k > y
      <4>1. k \in y + 1 .. n + 1
            BY <1>1, <3>2
      <4> DEFINE t == T[k]
      <4>2. t >= z /\ t \in Nat
            BY <1>6, <1>7, <4>1
      <4> HIDE DEF t
      <4>3. t - z + a + L \in Nat
            BY <1>2, <1>4, <4>2
      <4> QED BY <1>1, <3>2, <4>3 DEF t
    <3> QED BY <1>1, <3>1, <3>2
  <2>2. \A k \in 0 .. n + 1 : W[k] = IF k <= y THEN T[k] ELSE T[k] - z + a + L
        OBVIOUS
  <2>3. W \in [0 .. n + 1 -> Nat]
        BY <2>1
  <2> HIDE DEF W, a, z
  <2>4. \A k \in 0 .. y : k \in 0 .. n + 1 /\ k <= y
        BY <1>1
  <2>5. \A k \in y + 1 .. n + 1 : k \in 0 .. n + 1 /\ ~(k <= y)
        BY <1>1
  <2> QED BY <2>2, <2>3, <2>4, <2>5
<1> HIDE DEF W
<1>9. W[y + 1] = a + L /\ W[y] = a
  <2> DEFINE r == y + 1
  <2>1. r \in y + 1 .. n + 1 /\ T[r] = z /\ y \in 0 .. y
        BY <1>1
  <2> HIDE DEF r, a, z
  <2>2. W[r] = T[r] - z + a + L /\ W[y] = T[y]
        BY <1>8, <2>1
  <2> QED BY <1>2, <1>4, <2>1, <2>2 DEF r, a
<1>10. Splice(lens, y, new, y + 1) \in Seq(Nat)
       /\ Len(Splice(lens, y, new, y + 1)) = n + 1
       /\ Starts(Splice(lens, y, new, y + 1)) = W
  <2> DEFINE m == 0
  <2>1. new \in Seq(Nat) /\ Len(new) = m + 1 /\ new[1] = L
        BY <1>2
  <2>2. m \in Nat /\ y \in Nat /\ y + m + 1 <= Len(lens)
        BY <1>1
  <2>3. Resum(T, Len(lens), new, y, m, m, W)
    <3>1. W \in [0 .. Len(lens) - m + m -> Nat]
          BY <1>1, <1>8
    <3>2. \A i \in 1 .. m + 1 : W[y + i] = W[y + i - 1] + new[i]
      <4> TAKE i \in 1 .. m + 1
      <4>1. i = 1 /\ y + i = y + 1 /\ y + i - 1 = y
            BY <1>1
      <4> QED BY <1>9, <2>1, <4>1
    <3>3. \A k \in y + m + 1 .. Len(lens) :
            W[k - m + m] = T[k] - T[y + m + 1] + W[y + m + 1]
      <4> TAKE k \in y + m + 1 .. Len(lens)
      <4>1. k \in y + 1 .. n + 1 /\ k - m + m = k /\ y + m + 1 = y + 1 /\ k \in 0 .. n + 1
            BY <1>1
      <4> DEFINE t == T[k]
      <4>2. W[k] = t - z + a + L /\ t \in Nat
            BY <1>6, <1>8, <4>1
      <4>3. T[y + m + 1] = z /\ W[y + m + 1] = a + L
            BY <1>9, <4>1
      <4> HIDE DEF t, a, z, m
      <4>4. t - z + a + L = t - z + (a + L)
            BY <1>2, <1>4, <4>2
      <4> QED BY <4>1, <4>2, <4>3, <4>4 DEF t
    <3> QED BY <1>8, <3>1, <3>2, <3>3 DEF Resum
  <2>4. T = Starts(lens)
        BY DEF T
  <2> HIDE DEF new, m
  <2>5. /\ Splice(lens, y, new, y + m + 1) \in Seq(Nat)
        /\ Len(Splice(lens, y, new, y + m + 1)) = Len(lens) - m + m
        /\ Starts(Splice(lens, y, new, y + m + 1)) = W
        BY <1>1, <2>1, <2>2, <2>3, <2>4, Resummed
  <2>6. y + m + 1 = y + 1 /\ Len(lens) - m + m = n + 1
        BY <1>1, <2>2 DEF m
  <2> QED BY <2>5, <2>6
<1>11. Cuts(Splice(b, a, mid, z), W, n)
  <2> DEFINE m == 0
  <2>1. Recut(b, T, n, y, m, m, a, z, mid, W)
    <3>1. T[y] <= a /\ a <= z /\ z <= T[y + m + 1] /\ T[y + m] <= z
      <4>1. y + m + 1 = y + 1 /\ y + m = y
            BY <1>1
      <4> QED BY <1>4, <4>1
    <3>2. \A p \in T[y] + 1 .. a : b[p] # EOL
          BY <1>4
    <3>3. W \in [0 .. n - m + m + 1 -> Nat] /\ \A k \in 0 .. y : W[k] = T[k]
          BY <1>1, <1>8
    <3>4. \A k \in y + m + 1 .. n + 1 : W[k - m + m] = T[k] - z + a + Len(mid)
      <4> TAKE k \in y + m + 1 .. n + 1
      <4>1. k \in y + 1 .. n + 1 /\ k - m + m = k
            BY <1>1
      <4> QED BY <1>8, <4>1 DEF L
    <3>5. \A i \in y + 1 .. y + m :
            W[i - 1] < W[i] /\ W[i] - a \in 1 .. Len(mid) /\ mid[W[i] - a] = EOL
          BY <1>1
    <3>6. \A q \in 1 .. Len(mid) : mid[q] = EOL => \E i \in y + 1 .. y + m + 1 : a + q = W[i]
      <4> TAKE q \in 1 .. Len(mid)
      <4> HAVE mid[q] = EOL
      <4>1. q = L /\ y + 1 \in y + 1 .. y + m + 1
            BY <1>1, <1>2 DEF L
      <4> QED BY <1>9, <4>1
    <3>7. W[y + m] < W[y + m + 1] /\ W[y + m + 1] = a + L
      <4>1. y + m + 1 = y + 1 /\ y + m = y
            BY <1>1
      <4> QED BY <1>2, <1>4, <1>9, <4>1
    <3>8. W[y + m] <= W[y + m + 1]
      <4>1. y + m \in 0 .. n + 1 /\ y + m + 1 \in 0 .. n + 1
            BY <1>1
      <4> HIDE DEF m
      <4> QED BY <1>8, <3>7, <4>1
    <3> HIDE DEF a, z, m
    <3> QED BY <1>2, <3>1, <3>2, <3>3, <3>4, <3>5, <3>6, <3>7, <3>8 DEF Recut, L
  <2>2. m \in Nat /\ y \in Nat /\ y + m <= n /\ n - m + m = n
        BY <1>1
  <2> HIDE DEF m, a, z
  <2>3. Cuts(Splice(b, a, mid, z), W, n - m + m)
        BY <1>1, <1>2, <1>4, <2>1, <2>2, Respliced
  <2> QED BY <2>2, <2>3
<1>12. PICK s1, s2, mk \in Offsets : MakeEfective(d) = PutBack(d, s1, s2, mk)
       BY <1>5
<1> DEFINE f == MakeEfective(d)
           fb == Splice(b, a, mid, z)
           fl == Splice(lens, y, new, y + 1)
<1>13. [lens EXCEPT ![y + 1] = L] = fl
  <2>1. y \in 0 .. Len(lens) - 1
        BY <1>1
  <2> QED BY <1>1, <1>2, <2>1, OneChanged
<1>14. f = [d EXCEPT
         !.buffer = fb, !.lenLines = fl, !.selStart = s1, !.selEnd = s2, !.mark = mk,
         !.editing = FALSE, !.bufEdit = <<>>, !.inEdit = 0, !.restCharsInLine = 0,
         !.markInLine = -1, !.selNewStart = 0, !.selNewEnd = 0, !.selLineStart = 0, !.selLineEnd = 0]
  <2>1. d.curLine = a /\ d.curLine + d.lenLines[d.y + 1] = z
        BY <1>1, <1>4 DEF lens, y
  <2> QED BY <1>12, <1>13, <2>1 DEF PutBack, b, lens, y, mid, L
<1> HIDE DEF fb, fl, f
<1>15. /\ fb \in Strings /\ fl \in Seq(Nat) /\ <<>> \in Strings /\ -1 \in Int
       /\ 0 \in Nat /\ 0 \in Int /\ 0 \in Offsets
  <2>1. fb \in Strings
        BY <1>11 DEF fb, Cuts
  <2>2. <<>> \in Strings
        BY EmptySeq DEF Strings
  <2> QED BY <1>10, <2>1, <2>2, Unsigneds DEF fl
<1>16. f \in Editors
       BY <1>1, <1>14, <1>15 DEF Editors
<1>17. /\ f.buffer = fb /\ f.lenLines = fl /\ f.totalLines = n /\ f.y = y /\ f.curLine = a
       /\ f.x = d.x /\ f.editing = FALSE /\ f.bufEdit = <<>>
       BY <1>1, <1>14 DEF Editors, n, y
<1>18. InLines(f)
  <2>1. Starts(f.lenLines) = W /\ Len(f.lenLines) = f.totalLines + 1
        BY <1>10, <1>17 DEF fl
  <2>2. Cuts(f.buffer, W, n)
        BY <1>11, <1>17 DEF fb
  <2> QED BY <1>1, <1>9, <1>16, <1>17, <2>1, <2>2 DEF InLines
<1> QED BY <1>17, <1>18 DEF f, y, n


-----------------------------------------------------------------------------
(* The line in edition. *)

LEMMA MaxOfTwo ==
  ASSUME NEW a \in Int, NEW b \in Int
  PROVE  /\ Max({a, b}) \in {a, b} /\ Max({a, b}) >= a /\ Max({a, b}) >= b
         /\ Min({a, b}) \in {a, b} /\ Min({a, b}) <= a /\ Min({a, b}) <= b
<1>1. \E c \in {a, b} : \A k \in {a, b} : c >= k
      OBVIOUS
<1>2. \E c \in {a, b} : \A k \in {a, b} : c <= k
      OBVIOUS
<1>3. Max({a, b}) \in {a, b} /\ \A k \in {a, b} : Max({a, b}) >= k
      BY <1>1 DEF Max
<1>4. Min({a, b}) \in {a, b} /\ \A k \in {a, b} : Min({a, b}) <= k
      BY <1>2 DEF Min
<1> QED BY <1>3, <1>4

(* A text from which a to z is taken.                                      *)
LEMMA Without ==
  ASSUME NEW s \in Strings, NEW a \in 0 .. Len(s), NEW z \in a .. Len(s)
  PROVE  Part(s, 0, a) \o Part(s, z, Len(s)) = Splice(s, a, <<>>, z)
<1>1. s \in Seq(Chars) /\ Len(s) \in Nat
      BY LenProperties DEF Strings
<1> DEFINE p == Part(s, 0, a)
<1>2. p \in Seq(Chars)
  <2>1. 0 \in 0 .. Len(s) /\ a \in 0 .. Len(s)
        BY <1>1
  <2> QED BY <1>1, <2>1, PartOf
<1> HIDE DEF p
<1>3. p \o <<>> = p
      BY <1>2, ConcatEmptySeq
<1> QED BY <1>3 DEF p, Splice

LEMMA NoText ==
  /\ <<>> \in Strings /\ Len(<<>>) = 0 /\ NoEnds(<<>>)
<1>1. <<>> \in Strings
      BY EmptySeq DEF Strings
<1> QED BY <1>1 DEF NoEnds

(* No end of line comes in.                                                *)
LEMMA SpliceNoEnds ==
  ASSUME NEW s \in Strings, NEW mid \in Strings, NoEnds(s), NoEnds(mid),
         NEW a \in 0 .. Len(s), NEW z \in a .. Len(s)
  PROVE  /\ Splice(s, a, mid, z) \in Strings
         /\ NoEnds(Splice(s, a, mid, z))
         /\ Len(Splice(s, a, mid, z)) = a + Len(mid) + Len(s) - z
<1> DEFINE r == Splice(s, a, mid, z)
<1>1. s \in Seq(Chars) /\ mid \in Seq(Chars) /\ Len(s) \in Nat /\ Len(mid) \in Nat
      BY LenProperties DEF Strings
<1>2. r \in Seq(Chars) /\ Pieces3(r, s, a, mid, z)
      BY <1>1, Spliced
<1> HIDE DEF r
<1>3. /\ Len(r) = a + Len(mid) + Len(s) - z
      /\ \A k \in 1 .. a : r[k] = s[k]
      /\ \A k \in 1 .. Len(mid) : r[a + k] = mid[k]
      /\ \A k \in z + 1 .. Len(s) : r[k - z + a + Len(mid)] = s[k]
      BY <1>2 DEF Pieces3
<1>4. ASSUME NEW k \in 1 .. Len(r) PROVE r[k] # EOL
  <2> HIDE DEF EOL
  <2>1. CASE k <= a
    <3>1. k \in 1 .. a /\ k \in 1 .. Len(s)
          BY <1>1, <2>1
    <3> QED BY <1>3, <3>1 DEF NoEnds
  <2>2. CASE k > a /\ k <= a + Len(mid)
    <3> DEFINE l == k - a
    <3>1. l \in 1 .. Len(mid) /\ a + l = k
          BY <1>1, <2>2
    <3> HIDE DEF l
    <3>2. r[a + l] = mid[l] /\ mid[l] # EOL
          BY <1>3, <3>1 DEF NoEnds
    <3> QED BY <3>1, <3>2
  <2>3. CASE k > a + Len(mid)
    <3> DEFINE l == k - a - Len(mid) + z
    <3>1. l \in z + 1 .. Len(s) /\ l \in 1 .. Len(s) /\ l - z + a + Len(mid) = k
          BY <1>1, <1>3, <2>3
    <3> HIDE DEF l
    <3>2. r[l - z + a + Len(mid)] = s[l] /\ s[l] # EOL
          BY <1>3, <3>1 DEF NoEnds
    <3> QED BY <3>1, <3>2
  <2> QED BY <1>1, <2>1, <2>2, <2>3
<1> QED BY <1>2, <1>3, <1>4 DEF r, NoEnds, Strings

LEMMA OneChar ==
  ASSUME NEW c \in Chars, c # EOL
  PROVE  <<c>> \in Strings /\ Len(<<c>>) = 1 /\ NoEnds(<<c>>)
<1>1. <<c>> \in Seq(Chars) /\ Len(<<c>>) = 1 /\ <<c>>[1] = c
      OBVIOUS
<1> DEFINE s == <<c>>
<1> HIDE DEF s, EOL
<1>2. \A k \in 1 .. Len(s) : s[k] # EOL
      BY <1>1 DEF s
<1> QED BY <1>1, <1>2 DEF NoEnds, Strings, s

LEMMA BlanksAre ==
  ASSUME NEW n \in Nat
  PROVE  Blanks(n) \in Strings /\ Len(Blanks(n)) = n /\ NoEnds(Blanks(n))
         /\ \A k \in 1 .. n : Blanks(n)[k] = Blank
<1>1. Blanks(n) \in [1 .. n -> Chars]
      BY DEF Blanks, Chars
<1>2. \A k \in 1 .. n : Blanks(n)[k] = Blank
      BY DEF Blanks
<1> HIDE DEF Blanks
<1>3. Blanks(n) \in Seq(Chars) /\ Len(Blanks(n)) = n
      BY <1>1, IsASeq
<1>4. Blank # EOL
      BY DEF Blank, EOL
<1> QED BY <1>2, <1>3, <1>4 DEF Strings, NoEnds

(* The lines do not depend on anything else.                               *)
LEMMA SameLines ==
  ASSUME NEW d, InLines(d), NEW r \in Editors,
         r.buffer = d.buffer, r.lenLines = d.lenLines, r.totalLines = d.totalLines,
         r.y = d.y, r.curLine = d.curLine
  PROVE  InLines(r)
BY DEF InLines

(* What is counted behind the cursor reaches to the end of the line.       *)
Reaches(d) == d.editing => d.inEdit + d.restCharsInLine >= Len(d.bufEdit)

(* What the lines of the text and the line in edition always are: its      *)
(* cursor has not left it, or is at the beginning on the screen.           *)
Good(d) ==
  /\ InLines(d) /\ NoEnds(d.bufEdit) /\ Reaches(d)
  /\ d.editing => \/ d.inEdit = d.x /\ d.x <= Len(d.bufEdit)
                  \/ d.x = 0


(* The cursor of the line in edition is the one on the screen.             *)
Typing(d) == Good(d) /\ d.editing /\ d.inEdit = d.x /\ d.x <= Len(d.bufEdit)

LEMMA StillTyping ==
  ASSUME NEW d, Typing(d), NEW r \in Editors,
         r.buffer = d.buffer, r.lenLines = d.lenLines, r.totalLines = d.totalLines,
         r.y = d.y, r.curLine = d.curLine, r.editing,
         NoEnds(r.bufEdit), Reaches(r), r.inEdit = r.x, r.x <= Len(r.bufEdit)
  PROVE  Typing(r)
BY SameLines DEF Typing, Good

LEMMA TwoAndTwo ==
  ASSUME NEW a \in Int, NEW b \in Int, NEW c \in Int, NEW d \in Int
  PROVE  <<a, b>> \o <<c, d>> = <<a, b, c, d>>
<1> DEFINE s == <<a, b>>
           t == <<c, d>>
           u == <<a, b, c, d>>
           S == Int
<1>1. /\ s \in Seq(Int) /\ Len(s) = 2 /\ s[1] = a /\ s[2] = b
      /\ t \in Seq(Int) /\ Len(t) = 2 /\ t[1] = c /\ t[2] = d
      /\ u \in Seq(Int) /\ Len(u) = 4 /\ u[1] = a /\ u[2] = b /\ u[3] = c /\ u[4] = d
      OBVIOUS
<1>a. s \in Seq(S) /\ t \in Seq(S)
      BY <1>1
<1> HIDE DEF s, t, u, S
<1>2. /\ s \o t \in Seq(S) /\ Len(s \o t) = Len(s) + Len(t)
      /\ \A k \in 1 .. Len(s) : (s \o t)[k] = s[k]
      /\ \A k \in 1 .. Len(t) : (s \o t)[Len(s) + k] = t[k]
      BY <1>a, Concat
<1>3. (s \o t)[1] = a /\ (s \o t)[2] = b
      BY <1>1, <1>2
<1>4. (s \o t)[Len(s) + 1] = c /\ (s \o t)[Len(s) + 2] = d
      BY <1>1, <1>2
<1>5. Len(s) + 1 = 3 /\ Len(s) + 2 = 4 /\ Len(s \o t) = 4
      BY <1>1, <1>2
<1> DEFINE v == s \o t
<1>6. v[1] = a /\ v[2] = b /\ v[3] = c /\ v[4] = d /\ Len(v) = 4 /\ v \in Seq(Int)
      BY <1>2, <1>3, <1>4, <1>5 DEF S
<1> HIDE DEF v
<1>7. \A k \in 1 .. Len(v) : v[k] = u[k]
  <2> TAKE k \in 1 .. Len(v)
  <2>1. k = 1 \/ k = 2 \/ k = 3 \/ k = 4
        BY <1>6
  <2> QED BY <1>1, <1>6, <2>1
<1>8. v = u
      BY <1>1, <1>6, <1>7, SeqEqual
<1> QED BY <1>8 DEF v, s, t, u

LEMMA EditLineTyping ==
  ASSUME NEW d, InLines(d)
  PROVE  /\ Typing(EditLine(d)) /\ EditLine(d).x = d.x
         /\ Len(EditLine(d).bufEdit) >= LineWidth(d)
<1> DEFINE lar == LineWidth(d)
           T == Starts(d.lenLines)
           added == Max({0, d.x - lar})
           sel == SelInLine(d, added)
           mk == IF d.curLine <= d.mark /\ d.mark < d.curLine + lar
                 THEN d.mark - d.curLine ELSE -1
           line == CurLine(d) \o Blanks(added)
           r == EditLine(d)
<1>1. /\ d \in Editors /\ d.y \in 0 .. d.totalLines /\ d.x \in Nat /\ d.curLine = T[d.y]
      /\ d.buffer \in Strings /\ d.curLine \in Nat /\ d.mark \in Int
      /\ d.selStart \in Int /\ d.selEnd \in Int
      BY DEF InLines, Editors, Offsets
<1>2. Wide(d, T, d.y, lar)
      BY <1>1, WideLine DEF LineWidth
<1>3. /\ lar \in Nat /\ Len(d.buffer) \in Nat /\ d.curLine + lar <= Len(d.buffer)
      /\ \A p \in d.curLine + 1 .. d.curLine + lar : d.buffer[p] # EOL
  <2> DEFINE w == lar
             a == T[d.y]
             z == T[d.y + 1]
             len == d.lenLines[d.y + 1]
  <2>1. /\ w \in Nat /\ w <= len /\ z = a + len /\ z <= Len(d.buffer)
        /\ a \in Nat /\ len \in Nat /\ z \in Nat
        /\ \A p \in a + 1 .. a + w : d.buffer[p] # EOL
        BY <1>2 DEF Wide
  <2>2. Len(d.buffer) \in Nat /\ d.curLine = a
        BY <1>1, LenProperties DEF Strings
  <2> HIDE DEF w, a, z, len
  <2> QED BY <2>1, <2>2 DEF w
<1> HIDE DEF lar, T
<1>4. added \in Nat /\ added >= d.x - lar
  <2> DEFINE c == d.x - lar
             zero == 0
  <2>1. c \in Int /\ zero \in Int
        BY <1>1, <1>3
  <2> HIDE DEF c, zero
  <2>2. Max({zero, c}) \in {zero, c} /\ Max({zero, c}) >= zero /\ Max({zero, c}) >= c
        BY <2>1, MaxOfTwo
  <2>3. added = Max({zero, c})
        BY DEF zero, c
  <2> HIDE DEF added
  <2> QED BY <2>1, <2>2, <2>3 DEF zero, c
<1> HIDE DEF added
<1>5. /\ CurLine(d) \in Strings /\ Len(CurLine(d)) = lar /\ NoEnds(CurLine(d))
  <2> DEFINE a == d.curLine
             z == d.curLine + lar
             s == Part(d.buffer, a, z)
  <2>1. d.buffer \in Seq(Chars) /\ a \in 0 .. Len(d.buffer) /\ z \in a .. Len(d.buffer) /\ z - a = lar
        BY <1>1, <1>3 DEF Strings
  <2>2. \A p \in a + 1 .. z : d.buffer[p] # EOL
        BY <1>3
  <2>a. CurLine(d) = s
        BY DEF CurLine, lar
  <2> HIDE DEF a, z
  <2>3. s \in Seq(Chars) /\ Len(s) = z - a /\ \A k \in 1 .. z - a : s[k] = d.buffer[a + k]
        BY <2>1, PartOf
  <2> HIDE DEF s, EOL
  <2>4. ASSUME NEW k \in 1 .. Len(s) PROVE s[k] # EOL
    <3> DEFINE l == a + k
    <3>1. l \in a + 1 .. z /\ k \in 1 .. z - a
          BY <1>3, <2>1, <2>3
    <3> HIDE DEF l
    <3>2. d.buffer[l] # EOL
          BY <2>2, <3>1
    <3> QED BY <2>3, <3>1, <3>2 DEF l
  <2> QED BY <2>a, <2>1, <2>3, <2>4 DEF NoEnds, Strings
<1>6. Blanks(added) \in Strings /\ Len(Blanks(added)) = added /\ NoEnds(Blanks(added))
      BY <1>4, BlanksAre
<1>7. /\ line \in Strings /\ NoEnds(line) /\ Len(line) = lar + added
  <2> DEFINE s == CurLine(d)
             t == Blanks(added)
  <2>1. s \in Seq(Chars) /\ t \in Seq(Chars)
        BY <1>5, <1>6 DEF Strings
  <2>a. Len(s) = lar /\ Len(t) = added /\ NoEnds(s) /\ NoEnds(t)
        BY <1>5, <1>6
  <2> HIDE DEF s, t, EOL
  <2>2. /\ s \o t \in Seq(Chars) /\ Len(s \o t) = Len(s) + Len(t)
        /\ \A k \in 1 .. Len(s) : (s \o t)[k] = s[k]
        /\ \A k \in 1 .. Len(t) : (s \o t)[Len(s) + k] = t[k]
        BY <2>1, Concat
  <2>3. ASSUME NEW k \in 1 .. Len(s \o t) PROVE (s \o t)[k] # EOL
    <3>1. CASE k <= Len(s)
      <4>1. k \in 1 .. Len(s)
            BY <3>1
      <4> QED BY <2>2, <2>a, <4>1 DEF NoEnds
    <3>2. CASE k > Len(s)
      <4> DEFINE l == k - Len(s)
      <4>1. l \in 1 .. Len(t) /\ Len(s) + l = k
            BY <1>3, <1>4, <2>2, <2>a, <3>2
      <4> HIDE DEF l
      <4> QED BY <2>2, <2>a, <4>1 DEF NoEnds
    <3> QED BY <1>3, <2>a, <3>1, <3>2
  <2> QED BY <2>a, <2>2, <2>3 DEF NoEnds, Strings, s, t
<1>8. sel[1] \in Int /\ sel[2] \in Int /\ sel[3] \in Int /\ sel[4] \in Int
  <2> DEFINE start == d.curLine
             end == start + LineWidth(d)
             newEnd == d.selEnd + (IF d.selEnd > end THEN added ELSE 0)
             newStart == d.selStart + (IF d.selEnd > end /\ d.selStart > end THEN added ELSE 0)
             out == LineWidth(d) + added + 1
             inLine == IF d.selStart <= start
                       THEN IF newEnd > start THEN <<0, newEnd - start>> ELSE <<0, 0>>
                       ELSE IF newStart < end THEN <<newStart - start, newEnd - start>>
                       ELSE <<out, out>>
  <2>1. newEnd \in Int /\ newStart \in Int /\ out \in Int /\ start \in Int
        BY <1>1, <1>3, <1>4 DEF lar
  <2>2. SelInLine(d, added) = IF hasSelection(d) THEN <<newStart, newEnd>> \o inLine
                              ELSE <<d.selStart, d.selEnd, 0, 0>>
        BY DEF SelInLine
  <2> HIDE DEF newEnd, newStart, out, start
  <2>3. inLine \in {<<0, newEnd - start>>, <<0, 0>>, <<newStart - start, newEnd - start>>, <<out, out>>}
        OBVIOUS
  <2>4. PICK f, g \in Int : inLine = <<f, g>>
    <3>1. newEnd - start \in Int /\ newStart - start \in Int /\ 0 \in Int
          BY <2>1
    <3> HIDE DEF inLine
    <3> QED BY <2>1, <2>3, <3>1
  <2> HIDE DEF inLine
  <2>5. SelInLine(d, added) \in {<<newStart, newEnd, f, g>>, <<d.selStart, d.selEnd, 0, 0>>}
    <3>1. <<newStart, newEnd>> \o <<f, g>> = <<newStart, newEnd, f, g>>
          BY <2>1, TwoAndTwo
    <3> QED BY <2>2, <2>4, <3>1
  <2> QED BY <1>1, <2>1, <2>5
<1> HIDE DEF sel
<1>9. mk \in Int
      BY <1>1, <1>3
<1>10. \A k \in Int : U(k) \in Offsets
       BY Unsigneds
<1> DEFINE rest == lar + added - d.x
<1>b. rest \in Int /\ d.x + rest = Len(line)
      BY <1>1, <1>3, <1>4, <1>7
<1>11. r = [d EXCEPT !.editing = TRUE, !.bufEdit = line, !.inEdit = d.x,
              !.restCharsInLine = rest, !.selNewStart = U(sel[1]), !.selNewEnd = U(sel[2]),
              !.selLineStart = U(sel[3]), !.selLineEnd = U(sel[4]), !.markInLine = mk]
       BY DEF EditLine, sel, added, lar
<1> HIDE DEF r, line, mk, rest
<1>12. r \in Editors
       BY <1>1, <1>7, <1>8, <1>9, <1>10, <1>11, <1>b DEF Editors
<1>13. /\ r.buffer = d.buffer /\ r.lenLines = d.lenLines /\ r.totalLines = d.totalLines
       /\ r.y = d.y /\ r.curLine = d.curLine /\ r.editing = TRUE /\ r.x = d.x /\ r.inEdit = d.x
       /\ r.bufEdit = line /\ r.restCharsInLine = rest
       BY <1>1, <1>11 DEF Editors
<1>14. InLines(r)
       BY <1>12, <1>13, SameLines
<1>15. d.x <= Len(line) /\ Len(line) >= lar
       BY <1>1, <1>3, <1>4, <1>7
<1>16. Reaches(r)
  <2>1. Len(line) \in Nat
        BY <1>3, <1>4, <1>7
  <2> QED BY <1>13, <1>b, <2>1 DEF Reaches
<1>17. Typing(r)
       BY <1>7, <1>13, <1>14, <1>15, <1>16 DEF Typing, Good
<1> QED BY <1>13, <1>15, <1>17 DEF r, lar

LEMMA InEditionTyping ==
  ASSUME NEW d, Good(d), ~Parted(d)
  PROVE  Typing(InEdition(d))
<1>1. CASE d.editing
  <2>1. d.inEdit = d.x /\ d.bufEdit \in Strings /\ d.x \in Nat
        BY <1>1 DEF Parted, Good, InLines, Editors
  <2>2. Len(d.bufEdit) \in Nat
        BY <2>1, LenProperties DEF Strings
  <2> QED BY <1>1, <2>1, <2>2 DEF Good, Typing, InEdition
<1>2. CASE ~d.editing
      BY <1>2, EditLineTyping DEF Good, InEdition
<1> QED BY <1>1, <1>2


(* Whatever becomes of the selection, the lines do not mind.               *)
LEMMA ReselectedTyping ==
  ASSUME NEW d, Typing(d), NEW r, Reselected(r, d)
  PROVE  Typing(r)
<1>1. d \in Editors /\ InLines(d)
      BY DEF Typing, Good, InLines
<1>2. PICK a1, a2, a3, a4 \in Offsets :
        r = [d EXCEPT !.selLineStart = a1, !.selNewStart = a2,
                      !.selLineEnd = a3, !.selNewEnd = a4]
      BY DEF Reselected
<1>3. r \in Editors
      BY <1>1, <1>2 DEF Editors
<1>4. /\ r.buffer = d.buffer /\ r.lenLines = d.lenLines /\ r.totalLines = d.totalLines
      /\ r.y = d.y /\ r.curLine = d.curLine /\ r.editing = d.editing
      /\ r.bufEdit = d.bufEdit /\ r.inEdit = d.inEdit /\ r.x = d.x
      /\ r.restCharsInLine = d.restCharsInLine
      BY <1>1, <1>2 DEF Editors
<1> QED BY <1>3, <1>4, StillTyping DEF Typing, Good, Reaches

LEMMA AdjustedTyping ==
  ASSUME NEW d, Typing(d), NEW pos \in Int, NEW dif \in Int, NEW i, NEW l
  PROVE  Typing(AdjustLineSel(d, pos, dif, i, l))
<1>1. d \in Editors
      BY DEF Typing, Good, InLines
<1>2. Reselected(AdjustLineSel(d, pos, dif, i, l), d)
      BY <1>1, AdjustLineSelFields
<1> QED BY <1>2, ReselectedTyping

(* What there is of the line in edition to work with.                      *)
LEMMA TypingHas ==
  ASSUME NEW d, Typing(d)
  PROVE  /\ d \in Editors /\ d.bufEdit \in Strings /\ Len(d.bufEdit) \in Nat
         /\ NoEnds(d.bufEdit) /\ d.inEdit = d.x /\ d.x \in Nat /\ d.x <= Len(d.bufEdit)
         /\ d.markInLine \in Int /\ d.editing
         /\ d.restCharsInLine \in Int /\ d.x + d.restCharsInLine >= Len(d.bufEdit)
<1>1. /\ d \in Editors /\ NoEnds(d.bufEdit) /\ d.inEdit = d.x /\ d.x <= Len(d.bufEdit)
      /\ d.editing /\ Reaches(d)
      BY DEF Typing, Good, InLines
<1>2. d.bufEdit \in Strings /\ d.x \in Nat /\ d.markInLine \in Int /\ d.restCharsInLine \in Int
      BY <1>1 DEF Editors
<1>3. d.x + d.restCharsInLine >= Len(d.bufEdit)
      BY <1>1 DEF Reaches
<1> QED BY <1>1, <1>2, <1>3, LenProperties DEF Strings

(* Another text in the line, with the cursor at p and n behind it.         *)
LEMMA Retyped ==
  ASSUME NEW d, Typing(d), NEW s \in Strings, NoEnds(s), NEW p \in 0 .. Len(s), NEW mk \in Int,
         NEW n \in Int, p + n >= Len(s)
  PROVE  Typing([d EXCEPT !.bufEdit = s, !.inEdit = p, !.x = p, !.restCharsInLine = n,
                          !.markInLine = mk])
<1> DEFINE r == [d EXCEPT !.bufEdit = s, !.inEdit = p, !.x = p, !.restCharsInLine = n,
                          !.markInLine = mk]
<1>1. d \in Editors /\ d.editing /\ Len(s) \in Nat /\ p \in Nat /\ p <= Len(s)
  <2>1. Len(s) \in Nat
        BY LenProperties DEF Strings
  <2> QED BY <2>1, TypingHas
<1>2. r \in Editors
      BY <1>1 DEF Editors
<1>3. /\ r.buffer = d.buffer /\ r.lenLines = d.lenLines /\ r.totalLines = d.totalLines
      /\ r.y = d.y /\ r.curLine = d.curLine /\ r.editing = d.editing
      /\ r.bufEdit = s /\ r.inEdit = p /\ r.x = p /\ r.restCharsInLine = n
      BY <1>1 DEF Editors
<1> HIDE DEF r
<1>a. /\ r.editing /\ NoEnds(r.bufEdit) /\ r.inEdit = r.x /\ r.x <= Len(r.bufEdit)
      /\ Reaches(r)
      BY <1>1, <1>3 DEF Reaches
<1>4. Typing(r)
      BY <1>2, <1>3, <1>a, StillTyping
<1> QED BY <1>4 DEF r

LEMMA AdjustedLine ==
  ASSUME NEW d, Typing(d), NEW pos \in Int, NEW dif \in Int, NEW i, NEW l
  PROVE  LET r == AdjustLineSel(d, pos, dif, i, l)
         IN  /\ Typing(r) /\ r.bufEdit = d.bufEdit /\ r.inEdit = d.inEdit /\ r.x = d.x
             /\ r.markInLine = d.markInLine /\ r.restCharsInLine = d.restCharsInLine
<1> DEFINE r == AdjustLineSel(d, pos, dif, i, l)
<1>1. d \in Editors
      BY TypingHas
<1>2. Reselected(r, d) /\ Typing(r)
      BY <1>1, AdjustLineSelFields, AdjustedTyping
<1> HIDE DEF r
<1>3. PICK a1, a2, a3, a4 \in Offsets :
        r = [d EXCEPT !.selLineStart = a1, !.selNewStart = a2,
                      !.selLineEnd = a3, !.selNewEnd = a4]
      BY <1>2 DEF Reselected
<1>4. /\ r.bufEdit = d.bufEdit /\ r.inEdit = d.inEdit /\ r.x = d.x /\ r.markInLine = d.markInLine
      /\ r.restCharsInLine = d.restCharsInLine
      BY <1>1, <1>3 DEF Editors
<1> QED BY <1>2, <1>4 DEF r

LEMMA InsertCharInLineTyping ==
  ASSUME NEW d, Typing(d), NEW c \in Chars, c # EOL
  PROVE  LET r == InsertCharInLine(d, c)
         IN  /\ Typing(r)
             /\ d.inEdit = Len(d.bufEdit) => r.inEdit >= Len(r.bufEdit)
<1> DEFINE p == d.inEdit
           s == d.bufEdit
           new == <<c>>
           g == Splice(s, p, new, p)
           o == Part(s, 0, p) \o new \o Part(s, p + 1, Len(s))
           mk == IF d.markInLine >= 0 /\ d.markInLine >= p THEN d.markInLine + 1 ELSE d.markInLine
           n == d.restCharsInLine
           left == IF p < Len(s) THEN n - 1 ELSE n
           grown == [d EXCEPT !.bufEdit = g, !.inEdit = p + 1, !.x = p + 1,
                              !.restCharsInLine = n, !.markInLine = mk]
           over == [d EXCEPT !.bufEdit = o, !.inEdit = p + 1, !.x = p + 1,
                             !.restCharsInLine = left, !.markInLine = d.markInLine]
<1>1. /\ d \in Editors /\ s \in Strings /\ Len(s) \in Nat /\ NoEnds(s) /\ p = d.x /\ p \in 0 .. Len(s)
      /\ d.markInLine \in Int /\ n \in Int /\ p + n >= Len(s)
      BY TypingHas
<1>2. new \in Strings /\ Len(new) = 1 /\ NoEnds(new)
      BY OneChar
<1> HIDE DEF p, s, new, n
<1>3. g \in Strings /\ NoEnds(g) /\ p + 1 \in 0 .. Len(g) /\ Len(g) = Len(s) + 1
  <2>1. p \in p .. Len(s)
        BY <1>1
  <2>2. g \in Strings /\ NoEnds(g) /\ Len(g) = p + Len(new) + Len(s) - p
        BY <1>1, <1>2, <2>1, SpliceNoEnds
  <2> HIDE DEF g
  <2> QED BY <1>1, <1>2, <2>2
<1>4. /\ o \in Strings /\ NoEnds(o) /\ p + 1 \in 0 .. Len(o)
      /\ p < Len(s) => Len(o) = Len(s)
      /\ p = Len(s) => Len(o) = Len(s) + 1
  <2>1. CASE p < Len(s)
    <3> DEFINE z == p + 1
    <3>1. z \in p .. Len(s) /\ z = p + 1
          BY <1>1, <2>1
    <3> DEFINE h == Splice(s, p, new, z)
    <3> HIDE DEF z
    <3>2. h \in Strings /\ NoEnds(h) /\ Len(h) = p + Len(new) + Len(s) - z
          BY <1>1, <1>2, <3>1, SpliceNoEnds
    <3>3. h = o
          BY DEF Splice, z
    <3> HIDE DEF h
    <3>4. p + 1 \in 0 .. Len(h) /\ Len(h) = Len(s)
      <4> DEFINE L == Len(s)
                 H == Len(h)
                 N == Len(new)
      <4>1. /\ L \in Nat /\ p \in 0 .. L /\ p < L /\ z = p + 1 /\ N = 1
            /\ H = p + N + L - z
            BY <1>1, <1>2, <2>1, <3>1, <3>2
      <4> HIDE DEF L, H, N
      <4>2. H = L /\ p + 1 \in 0 .. H
            BY <4>1
      <4> QED BY <4>2 DEF L, H
    <3>5. ~(p = Len(s))
          BY <1>1, <2>1
    <3> QED BY <3>2, <3>3, <3>4, <3>5
  <2>2. CASE p = Len(s)
    <3>1. Part(s, p + 1, Len(s)) = <<>> /\ Part(s, p, Len(s)) = <<>>
          BY <1>1, <2>2 DEF Part
    <3>2. o = g
          BY <3>1 DEF Splice
    <3>3. ~(p < Len(s))
          BY <1>1, <2>2
    <3> QED BY <1>3, <2>2, <3>2, <3>3
  <2> QED BY <1>1, <2>1, <2>2
<1> HIDE DEF g, o
<1>a. /\ grown.bufEdit = g /\ grown.inEdit = p + 1
      /\ over.bufEdit = o /\ over.inEdit = p + 1
      BY <1>1 DEF Editors
<1>b. p = Len(s) => p + 1 >= Len(g) /\ p + 1 >= Len(o)
      BY <1>1, <1>3, <1>4
<1>5. Typing(grown)
  <2>1. mk \in Int /\ p + 1 \in Int
        BY <1>1
  <2> HIDE DEF mk
  <2> DEFINE q == p + 1
  <2>3. q + n >= Len(g) /\ n \in Int
        BY <1>1, <1>3
  <2> HIDE DEF q
  <2>2. Typing([d EXCEPT !.bufEdit = g, !.inEdit = q, !.x = q, !.restCharsInLine = n,
                         !.markInLine = mk])
        BY <1>3, <2>1, <2>3, Retyped DEF q
  <2> QED BY <2>2 DEF q
<1>6. Typing(over)
  <2> DEFINE q == p + 1
             m == d.markInLine
  <2>1. m \in Int /\ left \in Int
        BY <1>1
  <2>3. q + left >= Len(o)
    <3>1. Len(o) \in Nat
          BY <1>4, LenProperties DEF Strings
    <3>2. CASE p < Len(s)
          BY <1>1, <1>4, <3>1, <3>2
    <3>3. CASE p = Len(s)
          BY <1>1, <1>4, <3>1, <3>3
    <3> QED BY <1>1, <3>2, <3>3
  <2> HIDE DEF q, m, left
  <2>2. Typing([d EXCEPT !.bufEdit = o, !.inEdit = q, !.x = q, !.restCharsInLine = left,
                         !.markInLine = m])
        BY <1>4, <2>1, <2>3, Retyped DEF q
  <2> QED BY <2>2 DEF q, m
<1>7. /\ Typing(AdjustLineSel(grown, p, 1, FALSE, TRUE))
      /\ AdjustLineSel(grown, p, 1, FALSE, TRUE).bufEdit = grown.bufEdit
      /\ AdjustLineSel(grown, p, 1, FALSE, TRUE).inEdit = grown.inEdit
  <2> DEFINE no == FALSE
             yes == TRUE
             one == 1
  <2>1. p \in Int /\ one \in Int
        BY <1>1
  <2> HIDE DEF grown, no, yes, one
  <2> DEFINE a == AdjustLineSel(grown, p, one, no, yes)
  <2>2. Typing(a) /\ a.bufEdit = grown.bufEdit /\ a.inEdit = grown.inEdit
        BY <1>5, <2>1, AdjustedLine
  <2> QED BY <2>2 DEF no, yes, one
<1>8. InsertCharInLine(d, c) = IF d.overwrite THEN over ELSE AdjustLineSel(grown, p, 1, FALSE, TRUE)
  <2>1. grown = [d EXCEPT !.bufEdit = Part(@, 0, p) \o <<c>> \o Part(@, p, Len(@)),
                         !.inEdit = p + 1, !.x = @ + 1,
                         !.markInLine = IF @ >= 0 /\ @ >= p THEN @ + 1 ELSE @]
    <3> DEFINE e1 == [d EXCEPT !.bufEdit = g, !.inEdit = p + 1, !.x = p + 1, !.markInLine = mk]
    <3>1. e1 = grown
          BY <1>1 DEF Editors, n
    <3>2. e1 = [d EXCEPT !.bufEdit = Part(@, 0, p) \o <<c>> \o Part(@, p, Len(@)),
                         !.inEdit = p + 1, !.x = @ + 1,
                         !.markInLine = IF @ >= 0 /\ @ >= p THEN @ + 1 ELSE @]
          BY <1>1 DEF g, s, new, Splice
    <3> QED BY <3>1, <3>2
  <2>2. over = [d EXCEPT !.bufEdit = Part(@, 0, p) \o <<c>> \o Part(@, p + 1, Len(@)),
                        !.inEdit = p + 1, !.x = @ + 1,
                        !.restCharsInLine = IF p < Len(d.bufEdit) THEN @ - 1 ELSE @]
    <3>1. [d EXCEPT !.bufEdit = o, !.inEdit = p + 1, !.x = p + 1, !.restCharsInLine = left] = over
          BY <1>1 DEF Editors
    <3> QED BY <1>1, <3>1 DEF o, s, new, n
  <2> HIDE DEF grown, over
  <2> QED BY <2>1, <2>2 DEF InsertCharInLine, p
<1> HIDE DEF grown, over
<1> QED BY <1>6, <1>7, <1>8, <1>a, <1>b DEF p, s


LEMMA EraseLeftTyping ==
  ASSUME NEW d, Typing(d), d.x > 0
  PROVE  Typing(EraseLeft(d))
<1> DEFINE p == d.inEdit
           a == AdjustLineSel(d, p, -1, TRUE, TRUE)
           s == a.bufEdit
           g == Part(s, 0, p - 1) \o Part(s, p, Len(s))
           mk == IF a.markInLine >= 0 /\ a.markInLine >= p THEN a.markInLine - 1 ELSE a.markInLine
           n == a.restCharsInLine
           r == [a EXCEPT !.bufEdit = g, !.inEdit = p - 1, !.x = p - 1, !.restCharsInLine = n,
                          !.markInLine = mk]
<1>1. p = d.x /\ p \in Nat /\ p > 0 /\ p <= Len(d.bufEdit)
      BY TypingHas
<1>2. Typing(a) /\ a.bufEdit = d.bufEdit /\ a.inEdit = d.inEdit /\ a.x = d.x
      /\ a.markInLine = d.markInLine
  <2> DEFINE one == -1
             yes == TRUE
  <2>1. p \in Int /\ one \in Int
        BY <1>1
  <2> HIDE DEF one, yes, p
  <2> DEFINE b == AdjustLineSel(d, p, one, yes, yes)
  <2>2. Typing(b) /\ b.bufEdit = d.bufEdit /\ b.inEdit = d.inEdit /\ b.x = d.x
        /\ b.markInLine = d.markInLine
        BY <2>1, AdjustedLine
  <2>3. b = a
        BY DEF one, yes
  <2> QED BY <2>2, <2>3
<1>3. EraseLeft(d) = r
  <2>1. EraseLeft(d) =
          [a EXCEPT !.bufEdit = Part(@, 0, p - 1) \o Part(@, p, Len(@)),
                !.inEdit = p - 1, !.x = @ - 1,
                !.markInLine = IF @ >= 0 /\ @ >= p THEN @ - 1 ELSE @]
        BY DEF EraseLeft
  <2>2. a.x - 1 = p - 1 /\ a \in Editors
        BY <1>1, <1>2, TypingHas
  <2> HIDE DEF a, p, g, mk
  <2>3. [a EXCEPT !.bufEdit = g, !.inEdit = p - 1, !.x = p - 1, !.markInLine = mk] = r
        BY <2>2 DEF Editors
  <2>4. [a EXCEPT !.bufEdit = Part(@, 0, p - 1) \o Part(@, p, Len(@)),
                !.inEdit = p - 1, !.x = @ - 1,
                !.markInLine = IF @ >= 0 /\ @ >= p THEN @ - 1 ELSE @]
        = [a EXCEPT !.bufEdit = g, !.inEdit = p - 1, !.x = p - 1, !.markInLine = mk]
        BY <2>2 DEF g, mk
  <2> HIDE DEF r
  <2> QED BY <2>1, <2>3, <2>4
<1> HIDE DEF a
<1>4. /\ s \in Strings /\ Len(s) \in Nat /\ NoEnds(s) /\ a.markInLine \in Int /\ p <= Len(s)
      /\ n \in Int /\ p + n >= Len(s)
      BY <1>1, <1>2, TypingHas
<1> DEFINE q == p - 1
<1>5. q \in 0 .. Len(s) /\ p \in q .. Len(s) /\ q \in Nat
      BY <1>1, <1>4
<1>6. mk \in Int
      BY <1>1, <1>4
<1> HIDE DEF p, s, mk, n
<1>7. g \in Strings /\ NoEnds(g) /\ Len(g) = q + 0 + Len(s) - p
  <2> HIDE DEF q
  <2>1. Part(s, 0, q) \o Part(s, p, Len(s)) = Splice(s, q, <<>>, p)
        BY <1>4, <1>5, Without
  <2> DEFINE e0 == <<>>
  <2>2. e0 \in Strings /\ Len(e0) = 0 /\ NoEnds(e0)
        BY NoText
  <2> HIDE DEF e0
  <2>3. Splice(s, q, e0, p) \in Strings /\ NoEnds(Splice(s, q, e0, p))
        /\ Len(Splice(s, q, e0, p)) = q + Len(e0) + Len(s) - p
        BY <1>4, <1>5, <2>2, SpliceNoEnds
  <2> QED BY <2>1, <2>2, <2>3 DEF q, e0
<1>8. q \in 0 .. Len(g) /\ q + n >= Len(g)
  <2> HIDE DEF g
  <2> QED BY <1>1, <1>4, <1>5, <1>7
<1>9. Typing(r)
  <2> HIDE DEF g, q
  <2>1. Typing([a EXCEPT !.bufEdit = g, !.inEdit = q, !.x = q, !.restCharsInLine = n,
                         !.markInLine = mk])
        BY <1>2, <1>4, <1>6, <1>7, <1>8, Retyped
  <2> QED BY <2>1 DEF q
<1> QED BY <1>3, <1>9

LEMMA EraseRightTyping ==
  ASSUME NEW d, Typing(d), d.x < Len(d.bufEdit)
  PROVE  Typing(EraseRight(d))
<1> DEFINE p == d.inEdit
           a == AdjustLineSel(d, p, -1, FALSE, FALSE)
           s == a.bufEdit
           g == Part(s, 0, p) \o Part(s, p + 1, Len(s))
           mk == IF a.markInLine >= 0 /\ a.markInLine > p THEN a.markInLine - 1 ELSE a.markInLine
           n == a.restCharsInLine - 1
           r == [a EXCEPT !.bufEdit = g, !.inEdit = p, !.x = p, !.restCharsInLine = n,
                          !.markInLine = mk]
<1>1. p = d.x /\ p \in Nat /\ p < Len(d.bufEdit)
      BY TypingHas
<1>2. Typing(a) /\ a.bufEdit = d.bufEdit /\ a.inEdit = d.inEdit /\ a.x = d.x
      /\ a.markInLine = d.markInLine
  <2> DEFINE one == -1
             no == FALSE
  <2>1. p \in Int /\ one \in Int
        BY <1>1
  <2> HIDE DEF one, no, p
  <2> DEFINE b == AdjustLineSel(d, p, one, no, no)
  <2>2. Typing(b) /\ b.bufEdit = d.bufEdit /\ b.inEdit = d.inEdit /\ b.x = d.x
        /\ b.markInLine = d.markInLine
        BY <2>1, AdjustedLine
  <2>3. b = a
        BY DEF one, no
  <2> QED BY <2>2, <2>3
<1>3. EraseRight(d) = r
  <2>1. EraseRight(d) =
          [a EXCEPT !.bufEdit = Part(@, 0, p) \o Part(@, p + 1, Len(@)),
                    !.restCharsInLine = @ - 1,
                    !.markInLine = IF @ >= 0 /\ @ > p THEN @ - 1 ELSE @]
        BY DEF EraseRight
  <2>2. a.x = p /\ a.inEdit = p /\ a \in Editors
        BY <1>1, <1>2, TypingHas
  <2> HIDE DEF a, p, g, mk
  <2>3. [a EXCEPT !.bufEdit = g, !.restCharsInLine = n, !.markInLine = mk] = r
        BY <2>2 DEF Editors
  <2>4. [a EXCEPT !.bufEdit = Part(@, 0, p) \o Part(@, p + 1, Len(@)),
                  !.restCharsInLine = @ - 1,
                  !.markInLine = IF @ >= 0 /\ @ > p THEN @ - 1 ELSE @]
        = [a EXCEPT !.bufEdit = g, !.restCharsInLine = n, !.markInLine = mk]
        BY DEF g, mk
  <2> HIDE DEF r
  <2> QED BY <2>1, <2>3, <2>4
<1> HIDE DEF a
<1>4. /\ s \in Strings /\ Len(s) \in Nat /\ NoEnds(s) /\ a.markInLine \in Int /\ p < Len(s)
      /\ n \in Int /\ p + n + 1 >= Len(s)
      BY <1>1, <1>2, TypingHas
<1> DEFINE q == p + 1
<1>5. p \in 0 .. Len(s) /\ q \in p .. Len(s)
      BY <1>1, <1>4
<1>6. mk \in Int
      BY <1>1, <1>4
<1> HIDE DEF p, s, mk, n
<1>7. g \in Strings /\ NoEnds(g) /\ Len(g) = p + 0 + Len(s) - q
  <2> HIDE DEF q
  <2>1. Part(s, 0, p) \o Part(s, q, Len(s)) = Splice(s, p, <<>>, q)
        BY <1>4, <1>5, Without
  <2> DEFINE e0 == <<>>
  <2>2. e0 \in Strings /\ Len(e0) = 0 /\ NoEnds(e0)
        BY NoText
  <2> HIDE DEF e0
  <2>3. Splice(s, p, e0, q) \in Strings /\ NoEnds(Splice(s, p, e0, q))
        /\ Len(Splice(s, p, e0, q)) = p + Len(e0) + Len(s) - q
        BY <1>4, <1>5, <2>2, SpliceNoEnds
  <2> QED BY <2>1, <2>2, <2>3 DEF q, e0
<1>8. p \in 0 .. Len(g) /\ p + n >= Len(g)
  <2> HIDE DEF g
  <2> QED BY <1>1, <1>4, <1>5, <1>7
<1>9. Typing(r)
  <2> HIDE DEF g, q
  <2>1. Typing([a EXCEPT !.bufEdit = g, !.inEdit = p, !.x = p, !.restCharsInLine = n,
                         !.markInLine = mk])
        BY <1>2, <1>4, <1>6, <1>7, <1>8, Retyped
  <2> QED BY <2>1
<1> QED BY <1>3, <1>9


LEMMA ReselectedGood ==
  ASSUME NEW d, Good(d), NEW r, Reselected(r, d)
  PROVE  Good(r) /\ r.editing = d.editing
<1>1. d \in Editors /\ InLines(d)
      BY DEF Good, InLines
<1>2. PICK a1, a2, a3, a4 \in Offsets :
        r = [d EXCEPT !.selLineStart = a1, !.selNewStart = a2,
                      !.selLineEnd = a3, !.selNewEnd = a4]
      BY DEF Reselected
<1>3. r \in Editors
      BY <1>1, <1>2 DEF Editors
<1>4. /\ r.buffer = d.buffer /\ r.lenLines = d.lenLines /\ r.totalLines = d.totalLines
      /\ r.y = d.y /\ r.curLine = d.curLine /\ r.editing = d.editing
      /\ r.bufEdit = d.bufEdit /\ r.inEdit = d.inEdit /\ r.x = d.x
      /\ r.restCharsInLine = d.restCharsInLine
      BY <1>1, <1>2 DEF Editors
<1>5. InLines(r)
      BY <1>1, <1>3, <1>4, SameLines
<1> QED BY <1>4, <1>5 DEF Good, Reaches

LEMMA DeleteRangeLineInEdition ==
  ASSUME NEW d, Typing(d), NEW from \in 0 .. Len(d.bufEdit), NEW to \in from .. Len(d.bufEdit),
         NEW x \in Int, x = 0 \/ (x < 0 /\ d.inEdit <= from)
  PROVE  LET r == deleteRangeLineInEdition(d, from, to, x)
         IN  /\ Good(r) /\ r.editing = d.editing /\ r.inEdit = d.inEdit
             /\ Len(r.bufEdit) = from + Len(d.bufEdit) - to
<1> DEFINE s == d.bufEdit
           g == Part(s, 0, from) \o Part(s, to, Len(s))
           xx == IF x >= 0 THEN x ELSE d.x
           mk == IF d.markInLine >= from /\ d.markInLine < to THEN from
                 ELSE IF d.markInLine >= to THEN d.markInLine - (to - from) ELSE d.markInLine
           a == [d EXCEPT !.bufEdit = g, !.x = xx, !.markInLine = mk]
           left == x >= 0
           dif == from - to
           r == AdjustLineSel(a, from, dif, TRUE, left)
<1>1. deleteRangeLineInEdition(d, from, to, x) = r
      BY DEF deleteRangeLineInEdition
<1>2. /\ d \in Editors /\ s \in Strings /\ Len(s) \in Nat /\ NoEnds(s) /\ d.inEdit = d.x /\ d.x \in Nat
      /\ d.x <= Len(s) /\ d.markInLine \in Int /\ d.editing
      /\ d.restCharsInLine \in Int /\ d.x + d.restCharsInLine >= Len(s)
      BY TypingHas
<1>3. mk \in Int /\ xx \in Nat /\ dif \in Int /\ from \in Int
      BY <1>2
<1>4. g \in Strings /\ NoEnds(g) /\ Len(g) = from + Len(s) - to
  <2> HIDE DEF s
  <2>1. Part(s, 0, from) \o Part(s, to, Len(s)) = Splice(s, from, <<>>, to)
        BY <1>2, Without DEF s
  <2> DEFINE e0 == <<>>
  <2>2. e0 \in Strings /\ Len(e0) = 0 /\ NoEnds(e0)
        BY NoText
  <2> HIDE DEF e0
  <2>3. Splice(s, from, e0, to) \in Strings /\ NoEnds(Splice(s, from, e0, to))
        /\ Len(Splice(s, from, e0, to)) = from + Len(e0) + Len(s) - to
    <3>1. from \in 0 .. Len(s) /\ to \in from .. Len(s)
          BY DEF s
    <3> QED BY <1>2, <2>2, <3>1, SpliceNoEnds
  <2>4. from + 0 + Len(s) - to = from + Len(s) - to
        BY <1>2
  <2> QED BY <2>1, <2>2, <2>3, <2>4 DEF e0
<1>5. /\ xx = 0 \/ (d.inEdit = xx /\ xx <= Len(g))
      /\ d.inEdit + d.restCharsInLine >= Len(g)
  <2> HIDE DEF g
  <2>1. xx = 0 \/ (d.inEdit = xx /\ xx <= Len(g))
        BY <1>2, <1>4
  <2> QED BY <1>2, <1>4, <2>1
<1>6. Good(d) /\ InLines(d)
      BY DEF Typing, Good
<1> HIDE DEF g, xx, mk, s
<1>7. a \in Editors
      BY <1>2, <1>3, <1>4 DEF Editors
<1>8. /\ a.buffer = d.buffer /\ a.lenLines = d.lenLines /\ a.totalLines = d.totalLines
      /\ a.y = d.y /\ a.curLine = d.curLine /\ a.editing = d.editing
      /\ a.bufEdit = g /\ a.inEdit = d.inEdit /\ a.x = xx
      /\ a.restCharsInLine = d.restCharsInLine
      BY <1>2 DEF Editors
<1> HIDE DEF a
<1>9. InLines(a)
      BY <1>6, <1>7, <1>8, SameLines
<1>10. Good(a)
      BY <1>4, <1>5, <1>8, <1>9 DEF Good, Reaches
<1>11. Reselected(r, a)
  <2> DEFINE yes == TRUE
  <2> HIDE DEF yes, left, dif
  <2>1. Reselected(AdjustLineSel(a, from, dif, yes, left), a)
        BY <1>3, <1>7, AdjustLineSelFields
  <2> QED BY <2>1 DEF yes
<1> HIDE DEF r
<1>12. Good(r) /\ r.editing = a.editing
       BY <1>10, <1>11, ReselectedGood
<1>13. r.bufEdit = a.bufEdit /\ r.inEdit = a.inEdit
       BY <1>7, <1>11 DEF Reselected, Editors
<1> QED BY <1>1, <1>4, <1>8, <1>12, <1>13 DEF s

(* Nothing is left behind the cursor.                                      *)
LEMMA NothingBehind ==
  ASSUME NEW d, Good(d), d.editing, d.inEdit >= Len(d.bufEdit)
  PROVE  Good([d EXCEPT !.restCharsInLine = 0])
<1> DEFINE r == [d EXCEPT !.restCharsInLine = 0]
<1>1. d \in Editors /\ InLines(d) /\ d.inEdit \in Nat
      BY DEF Good, InLines, Editors
<1>2. r \in Editors
      BY <1>1 DEF Editors
<1>3. /\ r.buffer = d.buffer /\ r.lenLines = d.lenLines /\ r.totalLines = d.totalLines
      /\ r.y = d.y /\ r.curLine = d.curLine /\ r.editing = d.editing
      /\ r.bufEdit = d.bufEdit /\ r.inEdit = d.inEdit /\ r.x = d.x /\ r.restCharsInLine = 0
      BY <1>1 DEF Editors
<1> HIDE DEF r
<1>4. InLines(r)
      BY <1>1, <1>2, <1>3, SameLines
<1>5. Reaches(r)
      BY <1>1, <1>3 DEF Reaches
<1>6. Good(r)
      BY <1>3, <1>4, <1>5 DEF Good
<1> QED BY <1>6 DEF r

LEMMA DeleteToTheEnd ==
  ASSUME NEW d, Typing(d)
  PROVE  Good([deleteRangeLineInEdition(d, d.inEdit, Len(d.bufEdit), -1) EXCEPT !.restCharsInLine = 0])
<1> DEFINE i == d.inEdit
           len == Len(d.bufEdit)
           minus == -1
           a == deleteRangeLineInEdition(d, i, len, minus)
<1>1. /\ i \in 0 .. len /\ len \in i .. len /\ len \in Nat /\ i \in Nat
      /\ minus \in Int /\ (minus = 0 \/ (minus < 0 /\ d.inEdit <= i))
      BY TypingHas
<1> HIDE DEF minus
<1>2. Good(a)
  <2> HIDE DEF i
  <2> QED BY <1>1, DeleteRangeLineInEdition
<1>3. a.editing /\ a.inEdit = i /\ Len(a.bufEdit) = i
  <2> HIDE DEF i
  <2>1. /\ a.editing = d.editing /\ a.inEdit = d.inEdit
        /\ Len(a.bufEdit) = i + Len(d.bufEdit) - len
        BY <1>1, DeleteRangeLineInEdition
  <2>2. i + len - len = i
        BY <1>1
  <2> QED BY <2>1, <2>2, TypingHas DEF i
<1> HIDE DEF a
<1>4. Good([a EXCEPT !.restCharsInLine = 0])
      BY <1>1, <1>2, <1>3, NothingBehind
<1> QED BY <1>4 DEF a, minus

(* Without a surplus the count ends at the end of the line.                *)
LEMMA NothingSurplus ==
  ASSUME NEW d, Typing(d), ~Surplus(d)
  PROVE  d.inEdit + d.restCharsInLine = Len(d.bufEdit)
<1>1. /\ d.editing /\ d.inEdit = d.x /\ d.x \in Nat /\ Len(d.bufEdit) \in Nat
      /\ d.restCharsInLine \in Int /\ d.x + d.restCharsInLine >= Len(d.bufEdit)
      BY TypingHas
<1> QED BY <1>1 DEF Surplus

(* What is counted behind the cursor is there.                             *)
LEMMA SomethingBehind ==
  ASSUME NEW d, Typing(d), d.restCharsInLine # 0, ~(Surplus(d) /\ d.inEdit = Len(d.bufEdit))
  PROVE  d.x < Len(d.bufEdit)
<1>1. /\ d.editing /\ d.inEdit = d.x /\ d.x \in Nat /\ Len(d.bufEdit) \in Nat
      /\ d.restCharsInLine \in Int /\ d.x + d.restCharsInLine >= Len(d.bufEdit)
      /\ d.x <= Len(d.bufEdit)
      BY TypingHas
<1>2. ASSUME d.x = Len(d.bufEdit) PROVE FALSE
      BY <1>1, <1>2 DEF Surplus
<1> QED BY <1>1, <1>2

-----------------------------------------------------------------------------
(* The buffer. *)

(* The line an offset is in: the last one that begins there or before.     *)
LEMMA LineOfOffset ==
  ASSUME NEW b, NEW T, NEW n, Cuts(b, T, n), NEW o \in 0 .. Len(b)
  PROVE  \E k \in 0 .. n : T[k] <= o /\ o <= T[k + 1] /\ (k < n => o < T[k + 1])
<1> DEFINE S == {k \in 0 .. n : T[k] <= o}
<1>1. /\ n \in Nat /\ T[0] = 0 /\ Len(b) \in Nat /\ T[n + 1] = Len(b)
      /\ \A k \in 0 .. n + 1 : T[k] \in Nat
  <2>1. b \in Strings
        BY DEF Cuts
  <2>2. Len(b) \in Nat
        BY <2>1, LenProperties DEF Strings
  <2> QED BY <2>2 DEF Cuts
<1>2. S \subseteq 0 .. n /\ S # {}
  <2>1. 0 \in S
        BY <1>1
  <2> QED BY <2>1
<1> DEFINE k == Max(S)
<1>3. k \in S /\ \A j \in S : j <= k
  <2> HIDE DEF S
  <2> QED BY <1>1, <1>2, MaxIsGreatest
<1> HIDE DEF k
<1>4. k \in 0 .. n /\ T[k] <= o
      BY <1>3
<1>5. CASE k = n
      BY <1>1, <1>4, <1>5
<1>6. CASE k < n
  <2> DEFINE l == k + 1
  <2>1. l \in 0 .. n /\ ~(l <= k) /\ l \in 0 .. n + 1
        BY <1>1, <1>4, <1>6
  <2> HIDE DEF l
  <2>2. ~(T[l] <= o) /\ T[l] \in Nat
        BY <1>1, <1>3, <2>1
  <2>3. o < T[l] /\ o <= T[l]
        BY <1>1, <2>2
  <2> QED BY <1>4, <2>3 DEF l
<1> QED BY <1>1, <1>4, <1>5, <1>6


LEMMA BlanksBeforeIs ==
  ASSUME NEW s \in Strings, NEW o \in 0 .. Len(s)
  PROVE  /\ BlanksBefore(s, o) \in 0 .. o
         /\ \A k \in BlanksBefore(s, o) + 1 .. o : s[k] = Blank
<1> DEFINE p == Part(s, 0, o)
           r == BlanksBefore(s, o)
<1>1. Len(s) \in Nat /\ s \in Seq(Chars)
      BY LenProperties DEF Strings
<1>2. p \in Seq(Chars) /\ Len(p) = o /\ \A k \in 1 .. o : p[k] = s[k]
  <2>1. 0 \in 0 .. Len(s) /\ o \in 0 .. Len(s)
        BY <1>1
  <2>2. p \in Seq(Chars) /\ Len(p) = o - 0 /\ \A k \in 1 .. o - 0 : p[k] = s[0 + k]
        BY <1>1, <2>1, PartOf
  <2> QED BY <1>1, <2>2
<1>3. r = Used(p)
      BY DEF BlanksBefore
<1> HIDE DEF p, r
<1>4. r \in 0 .. Len(p) /\ \A k \in r + 1 .. Len(p) : p[k] = Blank
      BY <1>2, <1>3, UsedOf DEF Strings
<1>5. \A k \in r + 1 .. o : s[k] = Blank
      BY <1>1, <1>2, <1>4
<1> QED BY <1>2, <1>4, <1>5 DEF r

(* An end of line up to o is the end of a line but the last.               *)
Inner(b, T, n, o) ==
  /\ o \in 0 .. Len(b)
  /\ \A p \in 1 .. o : b[p] = EOL => \E k \in 1 .. n : p = T[k]

LEMMA InnerEnds ==
  ASSUME NEW d, InLines(d), NEW k \in 0 .. d.totalLines,
         NEW o \in 0 .. Starts(d.lenLines)[k] + LenWithoutCRLF(d, k)
  PROVE  Inner(d.buffer, Starts(d.lenLines), d.totalLines, o)
<1> DEFINE T == Starts(d.lenLines)
           n == d.totalLines
           b == d.buffer
           w == LenWithoutCRLF(d, k)
<1>1. /\ n \in Nat /\ b \in Strings /\ Cuts(b, T, n) /\ Len(b) \in Nat
  <2>1. b \in Strings /\ n \in Nat
        BY DEF InLines, Editors
  <2> QED BY <2>1, LenProperties DEF InLines, Strings
<1>2. Wide(d, T, k, w)
      BY WideLine
<1> HIDE DEF T, w
<1> DEFINE a == T[k]
           z == T[k + 1]
           len == d.lenLines[k + 1]
<1>3. /\ a \in Nat /\ z \in Nat /\ len \in Nat /\ z = a + len /\ z <= Len(b) /\ w \in Nat /\ w <= len
      /\ \A p \in a + 1 .. a + w : b[p] # EOL
      BY <1>2 DEF Wide
<1>4. o \in 0 .. a + w
      BY DEF T, w
<1>5. \A p \in 1 .. Len(b) : b[p] = EOL => \E l \in 1 .. n + 1 : p = T[l]
      BY <1>1 DEF Cuts
<1>6. \A f, g \in 0 .. n + 1 : f <= g => T[f] <= T[g]
      BY <1>1, CutsGoUp
<1> HIDE DEF b
<1>7. ASSUME NEW p \in 1 .. o, b[p] = EOL
      PROVE  \E l \in 1 .. n : p = T[l]
  <2> HIDE DEF a, z, len, EOL
  <2>1. p \in 1 .. Len(b) /\ p <= a
        BY <1>1, <1>3, <1>4, <1>7
  <2>2. PICK l \in 1 .. n + 1 : p = T[l]
        BY <1>5, <1>7, <2>1
  <2>3. CASE l \in 1 .. n
        BY <2>2, <2>3
  <2>4. CASE l = n + 1
    <3>1. k \in 0 .. n + 1 /\ l \in 0 .. n + 1 /\ k <= l
          BY <1>1, <2>4 DEF n
    <3>2. T[k] <= T[l]
          BY <1>6, <3>1
    <3>3. p = T[k]
          BY <1>3, <2>1, <2>2, <3>2 DEF a
    <3>4. k # 0
      <4>1. T[0] = 0
            BY <1>1 DEF Cuts
      <4> QED BY <3>3, <4>1
    <3>5. k \in 1 .. n
          BY <1>1, <3>4 DEF n
    <3> QED BY <3>3, <3>5
  <2> QED BY <1>1, <2>3, <2>4
<1>8. o \in 0 .. Len(b)
  <2> HIDE DEF a, z, len
  <2> QED BY <1>1, <1>3, <1>4
<1> QED BY <1>7, <1>8 DEF Inner, T, n, b

(* The ends of line between two offsets are counted by their lines.        *)
LEMMA CountedEnds ==
  ASSUME NEW b, NEW T, NEW n, Cuts(b, T, n), NEW to, Inner(b, T, n, to),
         NEW from \in 0 .. to, NEW y \in 0 .. n, NEW g \in y .. n,
         T[y] <= from, from < T[y + 1],
         T[g] <= to, g < n => to < T[g + 1]
  PROVE  Cardinality(Newlines(Part(b, from, to))) = g - y
<1> DEFINE gone == Part(b, from, to)
           S == y + 1 .. g
           R == Newlines(gone)
           f == [k \in S |-> T[k] - from]
<1>1. /\ n \in Nat /\ Len(b) \in Nat /\ b \in Seq(Chars)
      /\ \A k \in 0 .. n + 1 : T[k] \in Nat
      /\ \A k \in 1 .. n : b[T[k]] = EOL
      /\ to \in 0 .. Len(b)
  <2>1. b \in Seq(Chars)
        BY DEF Cuts, Strings
  <2> QED BY <2>1, LenProperties DEF Cuts, Inner
<1>2. /\ \A j, k \in 0 .. n + 1 : j <= k => T[j] <= T[k]
      /\ \A j \in 0 .. n : \A k \in 0 .. n : j < k => T[j] < T[k]
      BY CutsGoUp
<1>3. gone \in Seq(Chars) /\ Len(gone) = to - from /\ \A k \in 1 .. to - from : gone[k] = b[from + k]
  <2>1. from \in 0 .. Len(b) /\ to \in from .. Len(b)
        BY <1>1
  <2> QED BY <1>1, <2>1, PartOf
<1>4. R = {q \in 1 .. to - from : b[from + q] = EOL}
  <2>1. DOMAIN gone = 1 .. to - from
        BY <1>3, LenProperties
  <2> HIDE DEF gone
  <2> QED BY <1>3, <2>1 DEF Newlines
<1> HIDE DEF gone, R, EOL
<1>5. ASSUME NEW k \in S PROVE T[k] - from \in R
  <2>1. k \in 1 .. n /\ k \in 0 .. n + 1 /\ g \in 0 .. n + 1 /\ k <= g
        BY <1>1
  <2> DEFINE t == T[k]
             r == y + 1
             tg == T[g]
  <2>2. t \in Nat /\ b[t] = EOL /\ t <= tg /\ tg \in Nat /\ tg <= to
        BY <1>1, <1>2, <2>1
  <2>3. from < t
    <3>1. r \in 0 .. n + 1 /\ r <= k /\ from < T[r]
          BY <1>1
    <3> HIDE DEF r
    <3>2. T[r] <= T[k] /\ T[r] \in Nat
          BY <1>1, <1>2, <2>1, <3>1
    <3> HIDE DEF t
    <3>3. T[r] <= t
          BY <3>2 DEF t
    <3> QED BY <2>2, <3>1, <3>2, <3>3
  <2> HIDE DEF t, tg
  <2>4. t - from \in 1 .. to - from /\ from + (t - from) = t
        BY <1>1, <2>2, <2>3
  <2>5. t - from \in R
        BY <1>4, <2>2, <2>4
  <2> QED BY <2>5 DEF t
<1>6. f \in [S -> R]
      BY <1>5
<1>7. \A j, k \in S : f[j] = f[k] => j = k
  <2> SUFFICES ASSUME NEW j \in S, NEW k \in S, f[j] = f[k], j # k PROVE FALSE
      OBVIOUS
  <2>1. j \in 0 .. n /\ k \in 0 .. n /\ j \in 0 .. n + 1 /\ k \in 0 .. n + 1
        BY <1>1
  <2>2. T[j] - from = T[k] - from /\ T[j] \in Nat /\ T[k] \in Nat
        BY <1>1, <2>1
  <2>3. T[j] = T[k]
    <3> DEFINE p == T[j]
               q == T[k]
    <3>1. p - from = q - from /\ p \in Nat /\ q \in Nat
          BY <2>2
    <3> HIDE DEF p, q
    <3>2. p = q
          BY <1>1, <3>1
    <3> QED BY <3>2 DEF p, q
  <2>4. j < k \/ k < j
        BY <2>1, <1>1
  <2> QED BY <1>2, <2>1, <2>2, <2>3, <2>4
<1>8. \A q \in R : \E k \in S : f[k] = q
  <2> TAKE q \in R
  <2>1. q \in 1 .. to - from /\ b[from + q] = EOL
        BY <1>4
  <2> DEFINE p == from + q
  <2>2. p \in 1 .. to /\ b[p] = EOL /\ p > from /\ p - from = q
        BY <1>1, <2>1
  <2> HIDE DEF p
  <2>3. PICK k \in 1 .. n : p = T[k]
        BY <2>2 DEF Inner
  <2>4. k > y
    <3>1. k \in 0 .. n + 1 /\ y \in 0 .. n + 1
          BY <1>1
    <3>2. k <= y => T[k] <= T[y]
          BY <1>2, <3>1
    <3>3. T[k] \in Nat /\ T[y] \in Nat /\ T[k] > from
          BY <1>1, <2>2, <2>3, <3>1
    <3>4. ~(T[k] <= T[y])
          BY <1>1, <3>3
    <3> QED BY <1>1, <3>2, <3>4
  <2>5. k <= g
    <3> SUFFICES ASSUME k > g PROVE FALSE
        BY <1>1
    <3> DEFINE r == g + 1
    <3>1. g < n /\ r <= k /\ r \in 0 .. n + 1 /\ k \in 0 .. n + 1 /\ to < T[r]
          BY <1>1
    <3> HIDE DEF r
    <3>2. T[r] <= T[k] /\ T[r] \in Nat /\ T[k] \in Nat
          BY <1>1, <1>2, <3>1
    <3> QED BY <1>1, <2>2, <2>3, <3>1, <3>2
  <2>6. k \in S /\ f[k] = q
        BY <1>1, <2>2, <2>3, <2>4, <2>5
  <2> QED BY <2>6
<1>9. IsFiniteSet(S) /\ Cardinality(S) = g - y
  <2>1. y + 1 \in Int /\ g \in Int /\ (y + 1 > g => g - y = 0) /\ g - (y + 1) + 1 = g - y
        BY <1>1
  <2> DEFINE r == y + 1
  <2> HIDE DEF r
  <2>2. IsFiniteSet(r .. g) /\ Cardinality(r .. g) = IF r > g THEN 0 ELSE g - r + 1
        BY <2>1, FS_Interval DEF r
  <2> QED BY <2>1, <2>2 DEF r
<1>10. ExistsBijection(S, R)
  <2> HIDE DEF f, S
  <2>1. f \in Bijection(S, R)
    <3>1. \A j, k \in S : (f[j] = f[k]) => (j = k)
          BY <1>7
    <3>2. f \in Injection(S, R)
          BY <1>6, <3>1 DEF Injection, IsInjective
    <3>3. f \in Surjection(S, R)
          BY <1>6, <1>8 DEF Surjection
    <3> QED BY <3>2, <3>3 DEF Bijection
  <2> QED BY <2>1 DEF ExistsBijection
<1>11. Cardinality(R) = Cardinality(S)
  <2> HIDE DEF S
  <2> QED BY <1>9, <1>10, FS_Bijection
<1> QED BY <1>9, <1>11 DEF R, gone


LEMMA SelWithoutIs ==
  ASSUME NEW d \in Editors, NEW from \in Nat, NEW to \in Nat, from <= to
  PROVE  SelWithout(d, from, to)[1] \in Offsets /\ SelWithout(d, from, to)[2] \in Offsets
<1> DEFINE n == to - from
           S == d.selStart
           E == d.selEnd
           r == SelWithout(d, from, to)
           M == Unsigned - 1
<1>0. Offsets = 0 .. M
      BY DEF Offsets
<1>1. S \in 0 .. M /\ E \in 0 .. M /\ n \in Nat /\ M \in Int /\ 0 \in 0 .. M
  <2>1. S \in Offsets /\ E \in Offsets /\ n \in Nat
        BY DEF Editors
  <2>2. M \in Int /\ 0 \in Offsets
        BY Unsigneds
  <2> QED BY <1>0, <2>1, <2>2
<1> HIDE DEF M
<1>2. CASE ~hasSelection(d)
  <2>1. r = <<S, E>>
        BY <1>2 DEF SelWithout
  <2> HIDE DEF r, S, E
  <2> QED BY <1>0, <1>1, <2>1 DEF r
<1>3. CASE hasSelection(d)
  <2>1. S < E
        BY <1>3 DEF hasSelection
  <2>2. r = IF from < S
            THEN IF to <= S THEN <<S - n, E - n>>
                 ELSE IF to > E THEN <<0, 0>> ELSE <<from, E - n>>
            ELSE IF from < E
            THEN IF to <= E THEN <<S, E - n>> ELSE <<S, from>>
            ELSE <<S, E>>
        BY <1>3 DEF SelWithout
  <2> HIDE DEF r, S, E
  <2>3. CASE from < S /\ to <= S
    <3>1. r = <<S - n, E - n>> /\ S - n \in 0 .. M /\ E - n \in 0 .. M
          BY <1>1, <2>1, <2>2, <2>3
    <3> QED BY <1>0, <3>1 DEF r
  <2>4. CASE from < S /\ to > S /\ to > E
    <3>1. r = <<0, 0>>
          BY <1>1, <2>2, <2>4
    <3> QED BY <1>0, <1>1, <3>1 DEF r
  <2>5. CASE from < S /\ to > S /\ to <= E
    <3>1. r = <<from, E - n>> /\ E - n \in 0 .. M /\ from \in 0 .. M
          BY <1>1, <2>2, <2>5
    <3> QED BY <1>0, <3>1 DEF r
  <2>6. CASE ~(from < S) /\ from < E /\ to <= E
    <3>1. r = <<S, E - n>> /\ E - n \in 0 .. M
          BY <1>1, <2>2, <2>6
    <3> QED BY <1>0, <1>1, <3>1 DEF r
  <2>7. CASE ~(from < S) /\ from < E /\ to > E
    <3>1. r = <<S, from>> /\ from \in 0 .. M
          BY <1>1, <2>2, <2>7
    <3> QED BY <1>0, <1>1, <3>1 DEF r
  <2>8. CASE ~(from < S) /\ ~(from < E)
    <3>1. r = <<S, E>>
          BY <1>1, <2>2, <2>8
    <3> QED BY <1>0, <1>1, <3>1 DEF r
  <2> QED BY <1>1, <2>3, <2>4, <2>5, <2>6, <2>7, <2>8
<1> QED BY <1>2, <1>3

(* With the offsets from to to gone, lines y to g are one.                 *)
Shut(T, y, m, n, gap) ==
  [k \in 0 .. n - m + 1 |-> IF k <= y THEN T[k] ELSE T[k + m] - gap]

LEMMA ShutLines ==
  ASSUME NEW b, NEW lens \in Seq(Nat), NEW n, Len(lens) = n + 1, Cuts(b, Starts(lens), n),
         NEW to \in 0 .. Len(b), NEW from \in 0 .. to, NEW y \in 0 .. n, NEW m \in 0 .. n - y,
         Starts(lens)[y] <= from, from < Starts(lens)[y + 1],
         Starts(lens)[y + m] <= to, to <= Starts(lens)[y + m + 1],
         y + m < n => to < Starts(lens)[y + m + 1],
         NEW v, v = Starts(lens)[y + m + 1] - Starts(lens)[y] - (to - from)
  PROVE  /\ Splice(lens, y, <<v>>, y + m + 1) \in Seq(Nat)
         /\ Len(Splice(lens, y, <<v>>, y + m + 1)) = n - m + 1
         /\ Starts(Splice(lens, y, <<v>>, y + m + 1)) = Shut(Starts(lens), y, m, n, to - from)
         /\ Cuts(Splice(b, from, <<>>, to), Shut(Starts(lens), y, m, n, to - from), n - m)
         /\ Shut(Starts(lens), y, m, n, to - from)[y] = Starts(lens)[y]
<1> DEFINE T == Starts(lens)
           gap == to - from
           W == Shut(T, y, m, n, gap)
           z == y + m + 1
           new == <<v>>
<1>1. /\ n \in Nat /\ b \in Strings /\ Len(b) \in Nat /\ Cuts(b, T, n)
      /\ \A k \in 0 .. n + 1 : T[k] \in Nat
  <2>1. n \in Nat /\ b \in Strings
        BY DEF Cuts
  <2> QED BY <2>1, LenProperties DEF Cuts, Strings
<1>2. /\ y \in Nat /\ m \in Nat /\ y + m <= n /\ z = y + m + 1 /\ z \in 0 .. n + 1 /\ y \in 0 .. n + 1
      /\ from \in Nat /\ to \in Nat /\ gap = to - from /\ from <= to /\ y + m \in 0 .. n + 1
      BY <1>1
<1>3. \A j, k \in 0 .. n + 1 : j <= k => T[j] <= T[k]
      BY <1>1, CutsGoUp
<1>4. T[y] <= from /\ T[y + m] <= to /\ to <= T[z] /\ (y + m < n => to < T[z]) /\ v = T[z] - T[y] - gap
      OBVIOUS
<1>5. T[y] \in Nat /\ T[z] \in Nat
      BY <1>1, <1>2
<1> HIDE DEF T, z, gap
<1>6. v \in Nat
  <2> DEFINE a == T[y]
             c == T[z]
  <2>1. a \in Nat /\ c \in Nat /\ a <= from /\ to <= c /\ v = c - a - gap
        BY <1>4, <1>5
  <2> HIDE DEF a, c
  <2> QED BY <1>2, <2>1
<1>7. \A k \in z .. n + 1 : T[k] >= to /\ T[k] \in Nat /\ T[k] - gap \in Nat
  <2> TAKE k \in z .. n + 1
  <2>1. k \in 0 .. n + 1 /\ z <= k
        BY <1>1, <1>2
  <2> DEFINE c == T[z]
             t == T[k]
  <2>2. c <= t /\ c \in Nat /\ t \in Nat /\ to <= c
        BY <1>1, <1>3, <1>4, <1>5, <1>2, <2>1
  <2> HIDE DEF c, t
  <2>3. t >= to /\ t \in Nat /\ t - gap \in Nat
        BY <1>2, <2>2
  <2> QED BY <2>3 DEF t
<1>8. /\ W \in [0 .. n - m + 1 -> Nat]
      /\ \A k \in 0 .. y : W[k] = T[k]
      /\ \A k \in y + 1 .. n - m + 1 : W[k] = T[k + m] - gap
  <2>1. ASSUME NEW k \in 0 .. n - m + 1
        PROVE  (IF k <= y THEN T[k] ELSE T[k + m] - gap) \in Nat
    <3>1. CASE k <= y
      <4>1. k \in 0 .. n + 1
            BY <1>1, <1>2, <3>1
      <4> QED BY <1>1, <3>1, <4>1
    <3>2. CASE k > y
      <4> DEFINE l == k + m
      <4>1. l \in z .. n + 1
            BY <1>1, <1>2, <3>2
      <4> HIDE DEF l
      <4>2. T[l] - gap \in Nat
            BY <1>7, <4>1
      <4> QED BY <1>2, <3>2, <4>2 DEF l
    <3> QED BY <1>2, <3>1, <3>2
  <2>2. W = [k \in 0 .. n - m + 1 |-> IF k <= y THEN T[k] ELSE T[k + m] - gap]
        BY DEF Shut
  <2> HIDE DEF W
  <2>3. W \in [0 .. n - m + 1 -> Nat]
        BY <2>1, <2>2
  <2>4. \A k \in 0 .. y : k \in 0 .. n - m + 1 /\ k <= y
        BY <1>1, <1>2
  <2>5. \A k \in y + 1 .. n - m + 1 : k \in 0 .. n - m + 1 /\ ~(k <= y)
        BY <1>1, <1>2
  <2> QED BY <2>2, <2>3, <2>4, <2>5
<1> HIDE DEF W
<1>9. \A k \in z .. n + 1 : W[k - m] = T[k] - gap
  <2> TAKE k \in z .. n + 1
  <2> DEFINE l == k - m
  <2>1. l \in y + 1 .. n - m + 1 /\ l + m = k
        BY <1>1, <1>2
  <2> HIDE DEF l
  <2>2. W[l] = T[l + m] - gap
        BY <1>8, <2>1
  <2> QED BY <2>1, <2>2 DEF l
<1>10. W[y] = T[y] /\ W[y + 1] = T[z] - gap
  <2>1. y \in 0 .. y /\ z \in z .. n + 1 /\ z - m = y + 1
        BY <1>1, <1>2
  <2>2. W[z - m] = T[z] - gap
        BY <1>9, <2>1
  <2> QED BY <1>8, <2>1, <2>2
<1> DEFINE j == 0
           e0 == <<>>
<1>11. Splice(lens, y, new, z) \in Seq(Nat) /\ Len(Splice(lens, y, new, z)) = n - m + 1
       /\ Starts(Splice(lens, y, new, z)) = W
  <2>1. new \in Seq(Nat) /\ Len(new) = j + 1 /\ new[1] = v /\ j \in Nat
        BY <1>6
  <2>2. Resum(T, Len(lens), new, y, m, j, W)
    <3>1. W \in [0 .. Len(lens) - m + j -> Nat]
      <4>1. Len(lens) - m + j = n - m + 1
            BY <1>1, <1>2
      <4> QED BY <1>8, <4>1
    <3>2. \A i \in 1 .. j + 1 : W[y + i] = W[y + i - 1] + new[i]
      <4> TAKE i \in 1 .. j + 1
      <4>1. i = 1 /\ y + i = y + 1 /\ y + i - 1 = y
            BY <1>2
      <4> DEFINE a == T[y]
                 c == T[z]
      <4>2. W[y] = a /\ W[y + 1] = c - gap /\ v = c - a - gap /\ a \in Nat /\ c \in Nat
            BY <1>4, <1>5, <1>10
      <4> HIDE DEF a, c, new
      <4>3. c - gap = a + v
        <5>1. gap \in Int
              BY <1>2
        <5>2. a \in Nat /\ c \in Nat /\ v = c - a - gap
              BY <4>2
        <5> QED BY ONLY <5>1, <5>2
      <4> QED BY <2>1, <4>1, <4>2, <4>3
    <3>3. \A k \in y + m + 1 .. Len(lens) :
            W[k - m + j] = T[k] - T[y + m + 1] + W[y + j + 1]
      <4> TAKE k \in y + m + 1 .. Len(lens)
      <4>1. k \in z .. n + 1 /\ k - m + j = k - m /\ y + m + 1 = z /\ y + j + 1 = y + 1
            BY <1>1, <1>2
      <4> DEFINE t == T[k]
                 c == T[z]
      <4>2. W[k - m] = t - gap /\ t \in Nat /\ c \in Nat /\ W[y + 1] = c - gap
            BY <1>5, <1>7, <1>9, <1>10, <4>1
      <4> HIDE DEF t, c, j
      <4>3. t - gap = t - c + (c - gap)
            BY <1>2, <4>2
      <4> QED BY <4>1, <4>2, <4>3 DEF t, c
    <3> HIDE DEF j, new
    <3> QED BY <1>8, <3>1, <3>2, <3>3 DEF Resum
  <2>3. T = Starts(lens) /\ y + m + 1 <= Len(lens)
        BY <1>1, <1>2 DEF T
  <2>a. j = 0
        OBVIOUS
  <2> HIDE DEF new, j
  <2>4. /\ Splice(lens, y, new, y + m + 1) \in Seq(Nat)
        /\ Len(Splice(lens, y, new, y + m + 1)) = Len(lens) - m + j
        /\ Starts(Splice(lens, y, new, y + m + 1)) = W
    <3>1. /\ lens \in Seq(Nat) /\ new \in Seq(Nat) /\ y \in Nat /\ m \in Nat /\ j \in Nat
          /\ y + m + 1 <= Len(lens) /\ Len(new) = j + 1
          /\ Resum(Starts(lens), Len(lens), new, y, m, j, W)
          BY <1>2, <2>1, <2>2, <2>3
    <3> QED BY ONLY <3>1, Resummed
  <2>5. Len(lens) - m + j = n - m + 1
        BY <1>1, <1>2, <2>a
  <2> QED BY <1>2, <2>4, <2>5
<1>12. Cuts(Splice(b, from, e0, to), W, n - m)
  <2>1. e0 \in Strings /\ Len(e0) = 0 /\ j = 0 /\ j \in Nat
        BY NoText
  <2> HIDE DEF e0, j
  <2>2. Recut(b, T, n, y, m, j, from, to, e0, W)
    <3>1. T[y] <= from /\ from <= to /\ to <= T[y + m + 1] /\ T[y + m] <= to
          BY <1>2, <1>4
    <3>2. \A p \in T[y] + 1 .. from : b[p] # EOL
      <4> TAKE p \in T[y] + 1 .. from
      <4> DEFINE a == T[y]
                 r == y + 1
      <4>1. p > a /\ p <= from /\ p \in 1 .. Len(b) /\ a \in Nat
            BY <1>1, <1>2, <1>5
      <4>2. from < T[r] /\ r \in 0 .. n + 1 /\ r \in Nat
            BY <1>1, <1>2 DEF T
      <4>3. ASSUME b[p] = EOL PROVE FALSE
        <5>1. PICK k \in 1 .. n + 1 : p = T[k]
              BY <1>1, <4>1, <4>3 DEF Cuts
        <5>2. k \in 0 .. n + 1 /\ (k <= y \/ r <= k)
              BY <1>1, <1>2
        <5>3. T[k] \in Nat /\ T[r] \in Nat
              BY <1>1, <4>2, <5>2
        <5>4. k <= y => T[k] <= a
              BY <1>2, <1>3, <5>2
        <5> HIDE DEF r, a
        <5>5. r <= k => T[r] <= T[k]
              BY <1>3, <4>2, <5>2
        <5> DEFINE t == T[k]
                   tr == T[r]
        <5>6. /\ p = t /\ t \in Nat /\ tr \in Nat /\ (t <= a \/ tr <= t)
              /\ p > a /\ p <= from /\ from < tr /\ a \in Nat /\ from \in Nat
              BY <1>2, <4>1, <4>2, <5>1, <5>2, <5>3, <5>4, <5>5
        <5> HIDE DEF t, tr
        <5> QED BY ONLY <5>6
      <4> QED BY <4>3
    <3>3. W \in [0 .. n - m + j + 1 -> Nat]
      <4>1. n - m + j + 1 = n - m + 1
            BY <1>1, <1>2, <2>1
      <4> QED BY <1>8, <4>1
    <3>4. \A k \in y + m + 1 .. n + 1 : W[k - m + j] = T[k] - to + from + Len(e0)
      <4> TAKE k \in y + m + 1 .. n + 1
      <4> DEFINE t == T[k]
      <4>1. k \in z .. n + 1 /\ k - m + j = k - m
            BY <1>1, <1>2, <2>1
      <4>2. W[k - m] = t - gap /\ t \in Nat
            BY <1>7, <1>9, <4>1
      <4> HIDE DEF t
      <4>3. t - gap = t - to + from + Len(e0)
            BY <1>2, <2>1, <4>2
      <4> QED BY <4>1, <4>2, <4>3 DEF t
    <3>5. \A i \in y + 1 .. y + j :
            W[i - 1] < W[i] /\ W[i] - from \in 1 .. Len(e0) /\ e0[W[i] - from] = EOL
          BY <1>2, <2>1
    <3>6. \A q \in 1 .. Len(e0) : e0[q] = EOL => \E i \in y + 1 .. y + j + 1 : from + q = W[i]
          BY <2>1
    <3>7. W[y + j] <= W[y + j + 1] /\ (y + m < n => W[y + j] < W[y + j + 1])
      <4> DEFINE a == T[y]
                 c == T[z]
      <4>1. W[y] = a /\ W[y + 1] = c - gap /\ a \in Nat /\ c \in Nat /\ a <= from /\ to <= c
            /\ (y + m < n => to < c)
            BY <1>4, <1>5, <1>10
      <4>2. y + j = y /\ y + j + 1 = y + 1
            BY <1>2, <2>1
      <4> HIDE DEF a, c
      <4> QED BY <1>2, <4>1, <4>2
    <3>8. y + m < n => to < T[y + m + 1]
          BY <1>2, <1>4
    <3> QED BY <1>8, <3>1, <3>2, <3>3, <3>4, <3>5, <3>6, <3>7, <3>8 DEF Recut
  <2>3. Cuts(Splice(b, from, e0, to), W, n - m + j)
        BY <1>1, <1>2, <2>1, <2>2, Respliced
  <2>4. n - m + j = n - m
        BY <1>1, <1>2, <2>1
  <2> QED BY <2>3, <2>4
<1> QED BY <1>10, <1>11, <1>12 DEF W, T, z, gap


(* What is typed, and what a call of this keeps of it.                     *)
SameLine(r, d) == r.bufEdit = d.bufEdit /\ r.editing = d.editing /\ r.inEdit = d.inEdit

LEMMA deleteRangeLines ==
  ASSUME NEW d, InLines(d), NEW first \in Nat, NEW last \in Nat, NEW stale,
         Inner(d.buffer, Starts(d.lenLines), d.totalLines, last)
  PROVE  LET r == deleteRange(d, first, last, stale) IN InLines(r) /\ SameLine(r, d)
<1> DEFINE b == d.buffer
           lens == d.lenLines
           n == d.totalLines
           T == Starts(lens)
           to == Min({last, bufLen(d)})
           ends == IF to = bufLen(d) THEN stale ELSE b[to + 1] = EOL
           from == IF ends THEN BlanksBefore(b, first) ELSE first
           y == Min({k \in 0 .. n : Total(lens, 0, k + 1) > from})
           start == Total(lens, 0, y)
           x == first - start
           gone == Part(b, from, to)
           merged == Min({Cardinality(Newlines(gone)), n - y})
           up == IF Cardinality(Newlines(gone)) > merged /\ y > 0 THEN 1 ELSE 0
           fromLine == y + (IF x = 0 THEN 0 ELSE 1)
           toLine == y + 1 + merged - (IF Last(gone) = EOL THEN 1 ELSE 0)
           sel == SelWithout(d, from, to)
           nl == IF merged = 0 THEN d.nline ELSE IF d.nline >= toLine THEN d.nline - merged
                 ELSE IF d.nline >= fromLine THEN -1 ELSE d.nline
           mk == IF d.mark > to THEN d.mark - (to - from) ELSE IF d.mark > from THEN from ELSE d.mark
           fb == Part(b, 0, from) \o Part(b, to, Len(b))
           fl == Part(lens, 0, y) \o <<Total(lens, y, y + merged + 1) - Len(gone)>>
                     \o Part(lens, y + merged + 1, Len(lens))
           r == [d EXCEPT
             !.buffer = fb, !.lenLines = fl,
             !.totalLines = Max({0, n - Cardinality(Newlines(gone))}),
             !.y = y - up, !.x = x,
             !.curLine = start - (IF up = 1 THEN lens[y] ELSE 0),
             !.nline = nl, !.mark = mk, !.selStart = sel[1], !.selEnd = sel[2]]
<1>1. CASE first >= last
  <2>1. deleteRange(d, first, last, stale) = d
        BY <1>1 DEF deleteRange
  <2> QED BY <2>1 DEF SameLine
<1>2. CASE ~(first >= last)
  <2>1. deleteRange(d, first, last, stale) = r
        BY <1>2 DEF deleteRange
  <2>2. /\ d \in Editors /\ b \in Strings /\ lens \in Seq(Nat) /\ n \in Nat /\ Len(lens) = n + 1
        /\ Cuts(b, T, n) /\ Len(b) \in Nat /\ d.nline \in Int /\ d.mark \in Offsets
    <3>1. d \in Editors /\ b \in Strings /\ lens \in Seq(Nat) /\ n \in Nat /\ d.nline \in Int
          /\ d.mark \in Offsets
          BY DEF InLines, Editors
    <3> QED BY <3>1, LenProperties DEF InLines, Strings
  <2>3. Inner(b, T, n, last) /\ last \in 0 .. Len(b) /\ first < last
        BY <1>2 DEF Inner
  <2>4. to = last
    <3> DEFINE L == bufLen(d)
    <3>1. L = Len(b)
          BY DEF bufLen
    <3>2. L \in Int /\ last \in Int /\ last <= L
          BY <2>2, <2>3, <3>1
    <3> HIDE DEF L
    <3>3. Min({last, L}) \in {last, L} /\ Min({last, L}) <= last
          BY <3>2, MaxOfTwo
    <3>4. to = Min({last, L})
          BY DEF L
    <3> HIDE DEF to
    <3> QED BY <3>2, <3>3, <3>4
  <2>5. from \in 0 .. first
    <3>1. first \in 0 .. Len(b)
          BY <2>2, <2>3
    <3>2. BlanksBefore(b, first) \in 0 .. first
          BY <2>2, <3>1, BlanksBeforeIs
    <3> HIDE DEF ends
    <3> QED BY <2>2, <3>2
  <2> HIDE DEF to, from
  <2>6. /\ from \in Nat /\ to \in Nat /\ from < to /\ to <= Len(b) /\ from \in 0 .. to /\ to \in 0 .. Len(b)
        /\ from <= first
        BY <2>2, <2>3, <2>4, <2>5
  <2>7. /\ \A a, c \in 0 .. n + 1 : Total(lens, a, c) = T[c] - T[a]
        /\ \A k \in 0 .. n + 1 : Total(lens, 0, k) = T[k]
    <3>1. 0 .. Len(lens) = 0 .. n + 1
          BY <2>2
    <3> HIDE DEF T
    <3> QED BY <2>2, <3>1, StartsSum DEF T
  <2>8. /\ \A k \in 0 .. n + 1 : T[k] \in Nat
        /\ \A j, k \in 0 .. n + 1 : j <= k => T[j] <= T[k]
        /\ T[n + 1] = Len(b)
        BY <2>2, CutsGoUp DEF Cuts
  <2> HIDE DEF T, b, lens
  <2>9. PICK h \in 0 .. n : T[h] <= from /\ from <= T[h + 1] /\ (h < n => from < T[h + 1])
    <3>1. from \in 0 .. Len(b)
          BY <2>6
    <3> QED BY <2>2, <3>1, LineOfOffset
  <2>10. from < T[h + 1]
    <3>1. CASE h = n
          BY <2>6, <2>8, <3>1
    <3>2. CASE h < n
          BY <2>9, <3>2
    <3> QED BY <2>2, <3>1, <3>2
  <2>11. y = h
    <3> DEFINE S == {k \in 0 .. n : Total(lens, 0, k + 1) > from}
    <3>1. h \in S
      <4>1. h + 1 \in 0 .. n + 1
            BY <2>2
      <4>2. Total(lens, 0, h + 1) = T[h + 1] /\ T[h + 1] \in Nat
            BY <2>7, <2>8, <4>1
      <4> QED BY <2>6, <2>10, <4>2
    <3>2. \A k \in S : h <= k
      <4> SUFFICES ASSUME NEW k \in S, k < h PROVE FALSE
          BY <2>2
      <4> DEFINE l == k + 1
      <4>1. l \in 0 .. n + 1 /\ l <= h /\ h \in 0 .. n + 1 /\ Total(lens, 0, l) > from
            BY <2>2
      <4> HIDE DEF l, S
      <4>2. Total(lens, 0, l) = T[l] /\ T[l] <= T[h] /\ T[l] \in Nat /\ T[h] \in Nat
            BY <2>7, <2>8, <4>1
      <4> QED BY <2>6, <2>9, <4>1, <4>2
    <3>3. S \subseteq Nat /\ S # {}
          BY <3>1
    <3>4. Min(S) \in S /\ \A k \in S : Min(S) <= k
      <4> HIDE DEF S
      <4> QED BY <3>3, MinIsLeast
    <3>5. y = Min(S)
          OBVIOUS
    <3>6. Min(S) \in 0 .. n
          BY <3>4
    <3> HIDE DEF y, S
    <3> QED BY <2>2, <3>1, <3>2, <3>4, <3>5, <3>6
  <2> HIDE DEF y
  <2>12. start = T[h] /\ T[h] \in Nat /\ h \in 0 .. n + 1
    <3>1. h \in 0 .. n + 1
          BY <2>2
    <3> QED BY <2>7, <2>8, <2>11, <3>1
  <2> HIDE DEF start
  <2>13. x \in Nat
    <3> DEFINE a == T[h]
    <3>1. a \in Nat /\ start = a /\ a <= from
          BY <2>9, <2>12
    <3> HIDE DEF a
    <3> QED BY <2>6, <3>1
  <2> HIDE DEF x
  <2>14. PICK g \in 0 .. n : T[g] <= to /\ to <= T[g + 1] /\ (g < n => to < T[g + 1])
        BY <2>2, <2>6, LineOfOffset
  <2>15. h <= g
    <3> SUFFICES ASSUME g < h PROVE FALSE
        BY <2>2
    <3> DEFINE l == g + 1
    <3>1. l \in 0 .. n + 1 /\ l <= h /\ to <= T[l]
          BY <2>2, <2>14
    <3> HIDE DEF l
    <3>2. T[l] <= T[h] /\ T[l] \in Nat
          BY <2>8, <2>12, <3>1
    <3> QED BY <2>6, <2>9, <2>12, <3>1, <3>2
  <2>16. Cardinality(Newlines(gone)) = g - h
    <3>1. /\ Cuts(b, T, n) /\ Inner(b, T, n, to) /\ from \in 0 .. to
          /\ h \in 0 .. n /\ g \in h .. n
          /\ T[h] <= from /\ from < T[h + 1] /\ T[g] <= to /\ (g < n => to < T[g + 1])
          BY <2>2, <2>3, <2>4, <2>6, <2>9, <2>10, <2>14, <2>15
    <3> QED BY ONLY <3>1, CountedEnds
  <2>17. Len(gone) = to - from
    <3>1. b \in Seq(Chars) /\ from \in 0 .. Len(b) /\ to \in from .. Len(b)
          BY <2>2, <2>6 DEF Strings
    <3> QED BY <3>1, PartOf
  <2> DEFINE m == g - h
  <2>18. m \in Nat /\ m \in 0 .. n - h /\ h + m = g /\ m \in Int /\ n - m \in Nat
        BY <2>2, <2>15
  <2> DEFINE newlines == Cardinality(Newlines(gone))
             len == Len(gone)
  <2>19. newlines = m /\ len = to - from
        BY <2>16, <2>17
  <2> HIDE DEF newlines, m, len
  <2>20. merged = m
    <3> DEFINE c == n - y
    <3>1. c \in Int /\ m \in Int /\ m <= c
          BY <2>2, <2>11, <2>18
    <3>2. merged = Min({m, c})
          BY <2>19 DEF newlines
    <3> HIDE DEF c, merged
    <3>3. Min({m, c}) \in {m, c} /\ Min({m, c}) <= m
          BY <3>1, MaxOfTwo
    <3> QED BY <3>1, <3>2, <3>3
  <2>21. up = 0
    <3>1. ~(newlines > merged)
          BY <2>18, <2>19, <2>20
    <3> QED BY <3>1 DEF newlines
  <2> HIDE DEF merged, up
  <2>22. Max({0, n - Cardinality(Newlines(gone))}) = n - m
    <3> DEFINE c == n - m
               zero == 0
    <3>1. c \in Int /\ zero \in Int /\ c >= zero
          BY <2>18
    <3>2. n - Cardinality(Newlines(gone)) = c
          BY <2>19 DEF newlines
    <3> HIDE DEF c, zero
    <3>3. Max({zero, c}) \in {zero, c} /\ Max({zero, c}) >= c
          BY <3>1, MaxOfTwo
    <3>4. Max({zero, c}) = c
          BY <3>1, <3>3
    <3> QED BY <3>2, <3>4 DEF c, zero
  <2>23. mk \in Offsets /\ nl \in Int
    <3>1. merged \in Int /\ toLine \in Int /\ fromLine \in Int
          BY <2>2, <2>11, <2>18, <2>20
    <3> HIDE DEF toLine, fromLine
    <3>2. nl \in Int
          BY <2>2, <3>1
    <3> DEFINE M == Unsigned - 1
               q == d.mark
    <3>3. Offsets = 0 .. M /\ q \in 0 .. M /\ M \in Int
          BY <2>2, Unsigneds DEF Offsets
    <3> HIDE DEF M, q, nl
    <3>4. mk = IF q > to THEN q - (to - from) ELSE IF q > from THEN from ELSE q
          BY DEF q
    <3> HIDE DEF mk
    <3>5. mk \in 0 .. M
          BY <2>6, <3>3, <3>4
    <3> QED BY <3>2, <3>3, <3>5
  <2>24. sel[1] \in Offsets /\ sel[2] \in Offsets
        BY <2>2, <2>6, SelWithoutIs
  <2> HIDE DEF mk, nl, sel
  <2>25. fb = Splice(b, from, <<>>, to)
    <3>1. from \in 0 .. Len(b) /\ to \in from .. Len(b)
          BY <2>2, <2>6
    <3> QED BY <2>2, <3>1, Without
  <2> DEFINE v == T[h + m + 1] - T[h] - (to - from)
             gap == to - from
  <2>26. fl = Splice(lens, h, <<v>>, h + m + 1)
    <3>1. Total(lens, y, y + merged + 1) = T[h + m + 1] - T[h]
      <4>1. h + m + 1 \in 0 .. n + 1
            BY <2>2, <2>18
      <4> QED BY <2>7, <2>11, <2>12, <2>20, <4>1
    <3>2. Total(lens, y, y + merged + 1) - Len(gone) = v
          BY <3>1, <2>19 DEF len
    <3> HIDE DEF v
    <3> QED BY <3>2, <2>11, <2>20 DEF Splice
  <2> DEFINE W == Shut(T, h, m, n, gap)
  <2>27. /\ Splice(lens, h, <<v>>, h + m + 1) \in Seq(Nat)
         /\ Len(Splice(lens, h, <<v>>, h + m + 1)) = n - m + 1
         /\ Starts(Splice(lens, h, <<v>>, h + m + 1)) = W
         /\ Cuts(Splice(b, from, <<>>, to), W, n - m)
         /\ W[h] = T[h]
    <3>1. /\ lens \in Seq(Nat) /\ Len(lens) = n + 1 /\ Cuts(b, Starts(lens), n)
          /\ to \in 0 .. Len(b) /\ from \in 0 .. to /\ h \in 0 .. n /\ m \in 0 .. n - h
          /\ Starts(lens)[h] <= from /\ from < Starts(lens)[h + 1]
          /\ Starts(lens)[h + m] <= to /\ to <= Starts(lens)[h + m + 1]
          /\ (h + m < n => to < Starts(lens)[h + m + 1])
          /\ v = Starts(lens)[h + m + 1] - Starts(lens)[h] - (to - from)
          BY <2>2, <2>6, <2>9, <2>10, <2>14, <2>18 DEF T
    <3> HIDE DEF v
    <3>2. /\ Splice(lens, h, <<v>>, h + m + 1) \in Seq(Nat)
          /\ Len(Splice(lens, h, <<v>>, h + m + 1)) = n - m + 1
          /\ Starts(Splice(lens, h, <<v>>, h + m + 1)) = Shut(Starts(lens), h, m, n, to - from)
          /\ Cuts(Splice(b, from, <<>>, to), Shut(Starts(lens), h, m, n, to - from), n - m)
          /\ Shut(Starts(lens), h, m, n, to - from)[h] = Starts(lens)[h]
          BY ONLY <3>1, ShutLines
    <3> QED BY <3>2 DEF T
  <2>28. fb \in Strings
        BY <2>25, <2>27 DEF Cuts
  <2>29. fl \in Seq(Nat)
        BY <2>26, <2>27
  <2> DEFINE th == T[h]
  <2>30. r = [d EXCEPT
             !.buffer = fb, !.lenLines = fl, !.totalLines = n - m,
             !.y = h, !.x = x, !.curLine = th,
             !.nline = nl, !.mark = mk, !.selStart = sel[1], !.selEnd = sel[2]]
    <3>1. y - up = h /\ start - (IF up = 1 THEN lens[y] ELSE 0) = th
      <4>1. h \in Nat
            BY <2>2
      <4> QED BY <2>11, <2>12, <2>21, <4>1
    <3> HIDE DEF fb, fl, th, gone
    <3> QED BY <2>22, <3>1
  <2> HIDE DEF r, fb, fl, W
  <2>31. h \in Nat /\ th \in Nat
        BY <2>2, <2>12
  <2> HIDE DEF th
  <2>32. r \in Editors
        BY <2>2, <2>13, <2>18, <2>23, <2>24, <2>28, <2>29, <2>30, <2>31 DEF Editors
  <2>33. /\ r.buffer = fb /\ r.lenLines = fl /\ r.totalLines = n - m /\ r.y = h /\ r.curLine = th
         /\ r.bufEdit = d.bufEdit /\ r.editing = d.editing /\ r.inEdit = d.inEdit
        BY <2>2, <2>30 DEF Editors
  <2>34. InLines(r)
    <3>1. Len(r.lenLines) = r.totalLines + 1 /\ Starts(r.lenLines) = W
          BY <2>26, <2>27, <2>33
    <3>2. Cuts(r.buffer, W, r.totalLines)
          BY <2>25, <2>27, <2>33
    <3>3. r.y <= r.totalLines
          BY <2>2, <2>18, <2>33
    <3>4. r.curLine = W[r.y]
          BY <2>27, <2>33 DEF th
    <3> QED BY <2>32, <3>1, <3>2, <3>3, <3>4 DEF InLines
  <2> QED BY <2>1, <2>33, <2>34 DEF SameLine
<1> QED BY <1>1, <1>2


-----------------------------------------------------------------------------
(* The members of a set of numbers, one by one.                            *)
Ranked(S) ==
  LET N == Cardinality(S)
  IN  /\ N \in Nat
      /\ \A k \in 1 .. N : Nth(S, k) \in S
      /\ \A j, k \in 1 .. N : j < k => Nth(S, j) < Nth(S, k)
      /\ \A m \in S : \E k \in 1 .. N : m = Nth(S, k)
      /\ N > 0 => Min(S) = Nth(S, 1) /\ Max(S) = Nth(S, N)

LEMMA Nths ==
  ASSUME NEW L \in Nat, NEW S, S \subseteq 1 .. L
  PROVE  Ranked(S)
<1> DEFINE N == Cardinality(S)
           upto(m) == {l \in S : l <= m}
           f == [m \in S |-> Cardinality(upto(m))]
<1>1. IsFiniteSet(S) /\ N \in Nat
  <2>1. S \in SUBSET Nat /\ L \in Nat /\ \A s \in S : s <= L
        OBVIOUS
  <2>2. IsFiniteSet(S)
        BY <2>1, FS_BoundedSetOfNaturals
  <2> QED BY <2>2, FS_CardinalityType
<1>2. S \subseteq Nat /\ \A m \in S : m \in Int
      OBVIOUS
<1>3. \A m \in S : IsFiniteSet(upto(m)) /\ Cardinality(upto(m)) \in Nat /\ upto(m) \subseteq S
  <2> TAKE m \in S
  <2>1. upto(m) \in SUBSET S
        OBVIOUS
  <2> HIDE DEF upto
  <2>2. IsFiniteSet(upto(m))
        BY <1>1, <2>1, FS_Subset
  <2> QED BY <2>1, <2>2, FS_CardinalityType
<1>4. \A m \in S : Cardinality(upto(m)) \in 1 .. N
  <2> TAKE m \in S
  <2>1. upto(m) \in SUBSET S
        BY <1>3
  <2>2. m \in upto(m)
        BY <1>2
  <2> HIDE DEF upto
  <2>3. Cardinality(upto(m)) <= N
        BY <1>1, <2>1, FS_Subset
  <2>4. Cardinality(upto(m)) # 0
        BY <1>3, <2>2, FS_EmptySet
  <2> QED BY <1>1, <1>3, <2>3, <2>4
<1>5. ASSUME NEW m \in S, NEW k \in S, m < k
      PROVE  Cardinality(upto(m)) < Cardinality(upto(k))
  <2>1. upto(m) \subseteq upto(k)
    <3>1. \A l \in S : l <= m => l <= k
          BY <1>2, <1>5
    <3> QED BY <3>1
  <2>2. k \in upto(k) /\ k \notin upto(m)
        BY <1>2, <1>5
  <2> HIDE DEF upto
  <2>3. upto(m) \in SUBSET upto(k) /\ upto(m) # upto(k)
        BY <2>1, <2>2
  <2>4. Cardinality(upto(m)) <= Cardinality(upto(k)) /\ Cardinality(upto(m)) # Cardinality(upto(k))
        BY <1>3, <2>3, FS_Subset
  <2> QED BY <1>3, <2>4
<1> HIDE DEF upto
<1>6. f \in [S -> 1 .. N] /\ \A m \in S : f[m] = Cardinality(upto(m))
      BY <1>4
<1> HIDE DEF f, N
<1>7. \A m, k \in S : m < k => f[m] < f[k]
      BY <1>5, <1>6
<1>8. \A m, k \in S : f[m] = f[k] => m = k
  <2> SUFFICES ASSUME NEW m \in S, NEW k \in S, f[m] = f[k], m # k PROVE FALSE
      OBVIOUS
  <2>1. m < k \/ k < m
        BY <1>2
  <2>2. f[m] \in Int /\ f[k] \in Int
        BY <1>6
  <2> QED BY <1>7, <2>1, <2>2
<1>9. f \in Injection(S, 1 .. N)
      BY <1>6, <1>8 DEF Injection, IsInjective
<1>10. \A j \in 1 .. N : \E m \in S : f[m] = j
  <2>1. IsFiniteSet(1 .. N) /\ Cardinality(1 .. N) = N
    <3>1. 1 \in Int /\ N \in Int
          BY <1>1
    <3>2. IsFiniteSet(1 .. N) /\ Cardinality(1 .. N) = IF 1 > N THEN 0 ELSE N - 1 + 1
          BY <3>1, FS_Interval
    <3> QED BY <1>1, <3>2
  <2>2. f \in Surjection(S, 1 .. N)
        BY <1>9, <2>1, FS_Injection DEF N
  <2> QED BY <2>2 DEF Surjection
<1>11. \A j \in 1 .. N : Nth(S, j) \in S /\ f[Nth(S, j)] = j
  <2> TAKE j \in 1 .. N
  <2>1. Nth(S, j) = CHOOSE m \in S : Cardinality(upto(m)) = j
        BY DEF Nth, upto
  <2>2. \E m \in S : Cardinality(upto(m)) = j
        BY <1>6, <1>10
  <2>3. Nth(S, j) \in S /\ Cardinality(upto(Nth(S, j))) = j
        BY <2>1, <2>2
  <2> QED BY <1>6, <2>3
<1>12. \A m \in S : f[m] \in 1 .. N /\ m = Nth(S, f[m])
      BY <1>6, <1>8, <1>11
<1>13. ASSUME NEW j \in 1 .. N, NEW k \in 1 .. N, j < k
       PROVE  Nth(S, j) < Nth(S, k)
  <2> DEFINE a == Nth(S, j)
             b == Nth(S, k)
  <2>1. a \in S /\ b \in S /\ f[a] = j /\ f[b] = k
        BY <1>11
  <2> HIDE DEF a, b
  <2>2. a # b /\ ~(b < a)
        BY <1>7, <1>13, <2>1
  <2>3. a \in Int /\ b \in Int
        BY <1>2, <2>1
  <2>4. a < b
        BY <2>2, <2>3
  <2> QED BY <2>4 DEF a, b
<1>14. ASSUME N > 0
       PROVE  Min(S) = Nth(S, 1) /\ Max(S) = Nth(S, N)
  <2>1. 1 \in 1 .. N /\ N \in 1 .. N
        BY <1>1, <1>14
  <2> DEFINE a == Nth(S, 1)
             z == Nth(S, N)
  <2>2. a \in S /\ z \in S /\ f[a] = 1 /\ f[z] = N
        BY <1>11, <2>1
  <2> HIDE DEF a, z
  <2>3. S # {} /\ S \subseteq 0 .. L
        BY <2>2
  <2>4. Min(S) \in S /\ \A y \in S : Min(S) <= y
        BY <1>2, <2>3, MinIsLeast
  <2>5. Max(S) \in S /\ \A y \in S : y <= Max(S)
        BY <2>3, MaxIsGreatest
  <2>6. Min(S) = a
    <3> DEFINE m == Min(S)
    <3>1. m \in S /\ m <= a /\ m \in Int /\ a \in Int /\ f[m] \in 1 .. N
          BY <1>2, <1>6, <2>2, <2>4
    <3> HIDE DEF m
    <3>2. ~(m < a)
          BY <1>7, <2>2, <3>1
    <3>3. m = a
          BY <3>1, <3>2
    <3> QED BY <3>3 DEF m
  <2>7. Max(S) = z
    <3> DEFINE m == Max(S)
    <3>1. m \in S /\ z <= m /\ m \in Int /\ z \in Int /\ f[m] \in 1 .. N
          BY <1>2, <1>6, <2>2, <2>5
    <3> HIDE DEF m
    <3>2. ~(z < m)
          BY <1>1, <1>7, <2>2, <3>1
    <3>3. m = z
          BY <3>1, <3>2
    <3> QED BY <3>3 DEF m
  <2> QED BY <2>6, <2>7 DEF a, z
<1>15. \A m \in S : \E k \in 1 .. N : m = Nth(S, k)
      BY <1>12
<1> QED BY <1>1, <1>11, <1>13, <1>14, <1>15 DEF Ranked, N

(* The lengths of the lines a text makes of the line it is put in: head    *)
(* characters are in front of it in the line, rest behind it.              *)
NewLens(p, head, rest) ==
  LET nl == Newlines(p)
      N == Cardinality(nl)
  IN  IF N = 0 THEN <<head + Len(p) + rest>>
      ELSE <<head + Min(nl)>> \o [k \in 1 .. N - 1 |-> Nth(nl, k + 1) - Nth(nl, k)]
           \o <<rest + (Len(p) - Max(nl))>>
Lensed(new, p, head, rest, nl, N) ==
  /\ new \in Seq(Nat) /\ Len(new) = N + 1
  /\ N = 0 => new[1] = head + Len(p) + rest
  /\ N > 0 => /\ new[1] = head + Nth(nl, 1)
              /\ \A i \in 2 .. N : new[i] = Nth(nl, i) - Nth(nl, i - 1)
              /\ new[N + 1] = rest + (Len(p) - Nth(nl, N))

LEMMA NewlinesOf ==
  ASSUME NEW p \in Strings
  PROVE  /\ Newlines(p) \subseteq 1 .. Len(p) /\ Len(p) \in Nat /\ Ranked(Newlines(p))
         /\ \A k \in 1 .. Cardinality(Newlines(p)) :
              Nth(Newlines(p), k) \in 1 .. Len(p) /\ p[Nth(Newlines(p), k)] = EOL
<1>1. Len(p) \in Nat /\ DOMAIN p = 1 .. Len(p)
      BY LenProperties DEF Strings
<1>2. Newlines(p) \subseteq 1 .. Len(p)
      BY <1>1 DEF Newlines
<1>3. Ranked(Newlines(p))
      BY <1>1, <1>2, Nths
<1>4. \A k \in Newlines(p) : k \in 1 .. Len(p) /\ p[k] = EOL
      BY <1>2 DEF Newlines
<1>5. \A k \in 1 .. Cardinality(Newlines(p)) : Nth(Newlines(p), k) \in Newlines(p)
      BY <1>3 DEF Ranked
<1> QED BY <1>1, <1>2, <1>3, <1>4, <1>5

LEMMA NewLensAre ==
  ASSUME NEW p \in Strings, NEW head \in Nat, NEW rest \in Nat
  PROVE  Lensed(NewLens(p, head, rest), p, head, rest, Newlines(p), Cardinality(Newlines(p)))
<1> DEFINE nl == Newlines(p)
           N == Cardinality(nl)
           L == Len(p)
           new == NewLens(p, head, rest)
<1>1. /\ L \in Nat /\ N \in Nat
      /\ \A k \in 1 .. N : Nth(nl, k) \in 1 .. L
      /\ \A j, k \in 1 .. N : j < k => Nth(nl, j) < Nth(nl, k)
      /\ (N > 0 => Min(nl) = Nth(nl, 1) /\ Max(nl) = Nth(nl, N))
      BY NewlinesOf DEF Ranked
<1>2. CASE N = 0
  <2> DEFINE one == head + L + rest
  <2>1. new = <<one>>
        BY <1>2 DEF NewLens
  <2>2. one \in Nat
        BY <1>1
  <2> HIDE DEF one, new
  <2>3. new \in Seq(Nat) /\ Len(new) = 1 /\ new[1] = one
        BY <2>1, <2>2
  <2> QED BY <1>2, <2>3 DEF Lensed, one, new
<1>3. CASE N > 0
  <2> DEFINE first == head + Min(nl)
             last == rest + (L - Max(nl))
             mid == [k \in 1 .. N - 1 |-> Nth(nl, k + 1) - Nth(nl, k)]
             a == <<first>>
             z == <<last>>
  <2>1. new = a \o mid \o z
    <3>1. ~(N = 0)
          BY <1>1, <1>3
    <3> QED BY ONLY <3>1, Zenon DEF NewLens
  <2>2. first \in Nat /\ last \in Nat /\ first = head + Nth(nl, 1) /\ last = rest + (L - Nth(nl, N))
    <3>1. 1 \in 1 .. N /\ N \in 1 .. N
          BY <1>1, <1>3
    <3>2. Nth(nl, 1) \in 1 .. L /\ Nth(nl, N) \in 1 .. L
          BY <1>1, <3>1
    <3> QED BY <1>1, <1>3, <3>2
  <2>3. mid \in Seq(Nat) /\ Len(mid) = N - 1
        /\ \A k \in 1 .. N - 1 : mid[k] = Nth(nl, k + 1) - Nth(nl, k)
    <3>1. \A k \in 1 .. N - 1 : Nth(nl, k + 1) - Nth(nl, k) \in Nat
      <4> TAKE k \in 1 .. N - 1
      <4> DEFINE l == k + 1
      <4>1. k \in 1 .. N /\ l \in 1 .. N /\ k < l
            BY <1>1
      <4> HIDE DEF l
      <4>2. Nth(nl, k) < Nth(nl, l) /\ Nth(nl, k) \in 1 .. L /\ Nth(nl, l) \in 1 .. L
            BY <1>1, <4>1
      <4>3. Nth(nl, l) - Nth(nl, k) \in Nat
        <5> DEFINE u == Nth(nl, k)
                   v == Nth(nl, l)
        <5>1. u \in Nat /\ v \in Nat /\ u < v
              BY <1>1, <4>2
        <5> HIDE DEF u, v
        <5>2. v - u \in Nat
              BY <5>1
        <5> QED BY <5>2 DEF u, v
      <4> QED BY <4>3 DEF l
    <3>2. mid \in [1 .. N - 1 -> Nat]
          BY <3>1
    <3>3. N - 1 \in Nat
          BY <1>1, <1>3
    <3>4. \A k \in 1 .. N - 1 : mid[k] = Nth(nl, k + 1) - Nth(nl, k)
          OBVIOUS
    <3> HIDE DEF mid
    <3> QED BY <3>2, <3>3, <3>4, IsASeq
  <2> HIDE DEF first, last, mid
  <2>4. a \in Seq(Nat) /\ Len(a) = 1 /\ a[1] = first /\ z \in Seq(Nat) /\ Len(z) = 1 /\ z[1] = last
        BY <2>2
  <2> HIDE DEF a, z, new, N, nl, L
  <2> DEFINE am == a \o mid
             S == Nat
  <2>5. a \in Seq(S) /\ mid \in Seq(S) /\ z \in Seq(S)
        BY <2>3, <2>4
  <2> HIDE DEF S
  <2>6. /\ am \in Seq(S) /\ Len(am) = Len(a) + Len(mid)
        /\ \A k \in 1 .. Len(a) : am[k] = a[k]
        /\ \A k \in 1 .. Len(mid) : am[Len(a) + k] = mid[k]
        BY ONLY <2>5, Concat
  <2> HIDE DEF am
  <2>7. /\ am \o z \in Seq(S) /\ Len(am \o z) = Len(am) + Len(z)
        /\ \A k \in 1 .. Len(am) : (am \o z)[k] = am[k]
        /\ \A k \in 1 .. Len(z) : (am \o z)[Len(am) + k] = z[k]
    <3>1. am \in Seq(S) /\ z \in Seq(S)
          BY <2>5, <2>6
    <3> QED BY ONLY <3>1, Concat
  <2>8. new = am \o z
        BY <2>1 DEF am
  <2>9. Len(am) = N /\ am[1] = first /\ \A k \in 1 .. N - 1 : am[1 + k] = mid[k]
        BY <1>1, <1>3, <2>3, <2>4, <2>6
  <2>10. Len(new) = N + 1 /\ new[1] = first /\ new[N + 1] = last
    <3>1. 1 \in 1 .. Len(am) /\ 1 \in 1 .. Len(z)
          BY <1>1, <1>3, <2>4, <2>9
    <3>2. new[1] = am[1] /\ new[Len(am) + 1] = z[1] /\ Len(new) = Len(am) + Len(z)
          BY <2>7, <2>8, <3>1
    <3> QED BY <2>4, <2>9, <3>2
  <2>11. ASSUME NEW i \in 2 .. N
         PROVE  new[i] = Nth(nl, i) - Nth(nl, i - 1)
    <3> DEFINE k == i - 1
    <3>1. k \in 1 .. N - 1 /\ 1 + k = i /\ k + 1 = i /\ i \in 1 .. Len(am)
          BY <1>1, <2>9
    <3> HIDE DEF k
    <3>2. mid[k] = Nth(nl, k + 1) - Nth(nl, k) /\ am[1 + k] = mid[k] /\ new[i] = am[i]
          BY <2>3, <2>7, <2>8, <2>9, <3>1
    <3> QED BY <3>1, <3>2 DEF k
  <2>12. new \in Seq(Nat)
        BY <2>7, <2>8 DEF S
  <2> QED BY <1>3, <2>2, <2>10, <2>11, <2>12 DEF Lensed, new, N, nl, L
<1> QED BY <1>1, <1>2, <1>3

(* The lines when p goes into line y, from offset at on, and what is behind *)
(* it moves by lag.                                                        *)
Opened(T, y, n, nl, N, at, lag) ==
  [k \in 0 .. n + N + 1 |-> IF k <= y THEN T[k]
                            ELSE IF k <= y + N THEN at + Nth(nl, k - y) ELSE T[k - N] + lag]

(* p goes between s and point, behind extra blanks.                        *)
Opens(b, lens, n, y, p, s, point, extra, N, W, new) ==
  /\ lens \in Seq(Nat) /\ Len(lens) = n + 1 /\ Cuts(b, Starts(lens), n)
  /\ y \in 0 .. n /\ p \in Strings /\ Len(p) > 0
  /\ s \in Nat /\ point \in Nat /\ extra \in Nat
  /\ Starts(lens)[y] <= s /\ s <= point /\ point <= Starts(lens)[y + 1]
  /\ y < n => point < Starts(lens)[y + 1]
  /\ \A q \in Starts(lens)[y] + 1 .. s : b[q] # EOL
  /\ N = Cardinality(Newlines(p))
  /\ W = Opened(Starts(lens), y, n, Newlines(p), N, s + extra, s + extra + Len(p) - point)
  /\ new = NewLens(p, s - Starts(lens)[y] + extra, Starts(lens)[y + 1] - point)

LEMMA OpenedLines ==
  ASSUME NEW b, NEW lens, NEW n, NEW y, NEW p, NEW s, NEW point, NEW extra, NEW N, NEW W, NEW new,
         Opens(b, lens, n, y, p, s, point, extra, N, W, new)
  PROVE  /\ Splice(lens, y, new, y + 1) \in Seq(Nat)
         /\ Len(Splice(lens, y, new, y + 1)) = n + N + 1
         /\ Starts(Splice(lens, y, new, y + 1)) = W
         /\ Cuts(Splice(b, s, Blanks(extra) \o p, point), W, n + N)
         /\ Starts(lens)[y] + Total(new, 0, N) = W[y + N] /\ W[y + N] \in Nat
<1>b. /\ lens \in Seq(Nat) /\ Len(lens) = n + 1 /\ Cuts(b, Starts(lens), n)
      /\ y \in 0 .. n /\ p \in Strings /\ Len(p) > 0
      /\ s \in Nat /\ point \in Nat /\ extra \in Nat
      /\ Starts(lens)[y] <= s /\ s <= point /\ point <= Starts(lens)[y + 1]
      /\ (y < n => point < Starts(lens)[y + 1])
      /\ \A q \in Starts(lens)[y] + 1 .. s : b[q] # EOL
      /\ N = Cardinality(Newlines(p))
      /\ W = Opened(Starts(lens), y, n, Newlines(p), N, s + extra, s + extra + Len(p) - point)
      /\ new = NewLens(p, s - Starts(lens)[y] + extra, Starts(lens)[y + 1] - point)
      BY DEF Opens
<1> USE <1>b
<1> DEFINE T == Starts(lens)
           nl == Newlines(p)
           L == Len(p)
           a == T[y]
           z == T[y + 1]
           e0 == Blanks(extra)
           mid == e0 \o p
           at == s + extra
           lag == s + extra + L - point
           zero == 0
<1>1. /\ n \in Nat /\ b \in Strings /\ Len(b) \in Nat /\ Cuts(b, T, n)
      /\ \A k \in 0 .. n + 1 : T[k] \in Nat
      /\ T[n] <= T[n + 1]
  <2>1. n \in Nat /\ b \in Strings
        BY DEF Cuts
  <2> QED BY <2>1, LenProperties DEF Cuts, Strings
<1>2. y \in Nat /\ y + 1 \in 0 .. n + 1 /\ y \in 0 .. n + 1
      BY <1>1
<1>3. a \in Nat /\ z \in Nat
      BY <1>1, <1>2
<1>4. \A j, k \in 0 .. n + 1 : j <= k => T[j] <= T[k]
      BY <1>1, CutsGoUp
<1>5. /\ L \in Nat /\ L > 0 /\ N \in Nat
      /\ \A k \in 1 .. N : Nth(nl, k) \in 1 .. L /\ p[Nth(nl, k)] = EOL
      /\ \A j, k \in 1 .. N : j < k => Nth(nl, j) < Nth(nl, k)
      /\ \A q \in 1 .. L : p[q] = EOL => \E k \in 1 .. N : q = Nth(nl, k)
  <2>1. \A q \in 1 .. L : p[q] = EOL => q \in nl
    <3>1. DOMAIN p = 1 .. L
          BY LenProperties DEF Strings
    <3> QED BY <3>1 DEF Newlines
  <2> QED BY <2>1, NewlinesOf DEF Ranked
<1>6. /\ a <= s /\ s <= point /\ point <= z /\ (y < n => point < z)
      /\ \A q \in a + 1 .. s : b[q] # EOL
      OBVIOUS
<1> DEFINE head == s - a + extra
           rest == z - point
<1>7. head \in Nat /\ rest \in Nat /\ at \in Nat /\ lag \in Int
  <2> HIDE DEF a, z, L
  <2> QED BY <1>3, <1>5, <1>6
<1>8. Lensed(new, p, head, rest, nl, N)
      BY <1>7, NewLensAre
<1> HIDE DEF head, rest
<1>9. /\ new \in Seq(Nat) /\ Len(new) = N + 1
      /\ (N = 0 => new[1] = head + L + rest)
      /\ (N > 0 => /\ new[1] = head + Nth(nl, 1)
                   /\ \A i \in 2 .. N : new[i] = Nth(nl, i) - Nth(nl, i - 1)
                   /\ new[N + 1] = rest + (L - Nth(nl, N)))
      BY <1>8 DEF Lensed
<1>10. /\ e0 \in Seq(Chars) /\ Len(e0) = extra /\ \A k \in 1 .. extra : e0[k] # EOL
       BY BlanksAre DEF Strings, NoEnds
<1> HIDE DEF e0
<1>11. /\ mid \in Seq(Chars) /\ Len(mid) = extra + L
       /\ \A k \in 1 .. extra : mid[k] = e0[k]
       /\ \A k \in 1 .. L : mid[extra + k] = p[k]
  <2>1. e0 \in Seq(Chars) /\ p \in Seq(Chars)
        BY <1>10 DEF Strings
  <2>2. /\ mid \in Seq(Chars) /\ Len(mid) = Len(e0) + Len(p)
        /\ \A k \in 1 .. Len(e0) : mid[k] = e0[k]
        /\ \A k \in 1 .. Len(p) : mid[Len(e0) + k] = p[k]
        BY ONLY <2>1, Concat
  <2> QED BY <1>10, <2>2
<1> HIDE DEF mid, at, lag
<1>12. /\ \A k \in 0 .. n + N + 1 :
            W[k] = IF k <= y THEN T[k]
                   ELSE IF k <= y + N THEN at + Nth(nl, k - y) ELSE T[k - N] + lag
       /\ DOMAIN W = 0 .. n + N + 1
       BY DEF Opened, at, lag
<1>a. n \in Nat /\ y \in Nat /\ N \in Nat /\ y <= n
      BY <1>1, <1>2, <1>5
<1>13. \A k \in 0 .. y : W[k] = T[k]
  <2>1. \A k \in 0 .. y : k \in 0 .. n + N + 1 /\ k <= y
        BY ONLY <1>a
  <2> QED BY ONLY <1>12, <2>1
<1>14. \A k \in y + 1 .. n + 1 : W[k + N] = T[k] + lag
  <2> TAKE k \in y + 1 .. n + 1
  <2> DEFINE l == k + N
  <2>a. k \in y + 1 .. n + 1 /\ l = k + N
        OBVIOUS
  <2>1. l \in 0 .. n + N + 1 /\ ~(l <= y) /\ ~(l <= y + N) /\ l - N = k
        BY ONLY <1>a, <2>a
  <2> HIDE DEF l
  <2> QED BY <1>12, <2>1 DEF l
<1>15. \A i \in 1 .. N : W[y + i] = at + Nth(nl, i)
  <2> TAKE i \in 1 .. N
  <2> DEFINE l == y + i
  <2>a. i \in 1 .. N /\ l = y + i
        OBVIOUS
  <2>1. l \in 0 .. n + N + 1 /\ ~(l <= y) /\ l <= y + N /\ l - y = i
        BY ONLY <1>a, <2>a
  <2> HIDE DEF l
  <2> QED BY <1>12, <2>1 DEF l
<1> HIDE DEF T, nl, L
<1>16. at = s + extra /\ lag = s + extra + L - point /\ Len(mid) = extra + L
       /\ head = s - a + extra /\ rest = z - point
       BY <1>11 DEF at, lag, L, head, rest
<1>17. /\ W[y] = a /\ W[y + N + 1] = z + lag
  <2>1. y + 1 \in y + 1 .. n + 1 /\ y \in 0 .. y
        BY <1>1, <1>2
  <2>2. W[y + 1 + N] = z + lag /\ W[y] = a
        BY <1>13, <1>14, <2>1
  <2>3. y + 1 + N = y + N + 1
        BY <1>2, <1>5
  <2> QED BY <2>2, <2>3
<1> HIDE DEF a, z
<1>18. \A k \in 0 .. n + N + 1 : W[k] \in Nat /\ (k > y => W[k] > a)
  <2> TAKE k \in 0 .. n + N + 1
  <2>1. CASE k <= y
    <3>1. k \in 0 .. y /\ k \in 0 .. n + 1 /\ ~(k > y)
      <4>1. k \in 0 .. n + N + 1 /\ k <= y
            BY <2>1
      <4> QED BY ONLY <1>a, <4>1
    <3> QED BY <1>1, <1>13, <3>1
  <2>2. CASE k > y /\ k <= y + N
    <3> DEFINE i == k - y
    <3>1. i \in 1 .. N /\ y + i = k
          BY <1>2, <1>5, <2>2
    <3> HIDE DEF i
    <3>2. W[k] = at + Nth(nl, i) /\ Nth(nl, i) \in 1 .. L
          BY <1>5, <1>15, <3>1
    <3> QED BY <1>3, <1>5, <1>6, <1>7, <1>16, <2>2, <3>2
  <2>3. CASE k > y + N
    <3> DEFINE l == k - N
    <3>a. k \in 0 .. n + N + 1 /\ k > y + N /\ l = k - N
          BY <2>3
    <3>1. l \in y + 1 .. n + 1 /\ l + N = k /\ l \in 0 .. n + 1 /\ y + 1 <= l /\ y + 1 \in 0 .. n + 1
          BY ONLY <1>a, <3>a
    <3> HIDE DEF l
    <3>2. W[k] = T[l] + lag /\ T[l] \in Nat /\ z <= T[l]
          BY <1>1, <1>4, <1>14, <3>1 DEF z
    <3> DEFINE t == T[l]
    <3>3. W[k] = t + lag /\ t \in Nat /\ z <= t
          BY <3>2
    <3> HIDE DEF t
    <3>4. t + lag \in Nat /\ t + lag > a
      <4>1. /\ a <= s /\ s <= point /\ point <= z /\ L \in Nat /\ L > 0 /\ s \in Nat
            /\ point \in Nat /\ extra \in Nat
            BY <1>5, <1>6
      <4> QED BY ONLY <1>3, <1>16, <3>3, <4>1
    <3> QED BY <3>3, <3>4
  <2> QED BY <1>2, <1>5, <2>1, <2>2, <2>3
<1>19. W \in [0 .. n + N + 1 -> Nat]
  <2>1. W = [k \in 0 .. n + N + 1 |-> W[k]]
        BY <1>12 DEF Opened
  <2> QED BY <1>18, <2>1
<1>20. \A i \in 1 .. N + 1 : W[y + i] = W[y + i - 1] + new[i]
  <2> TAKE i \in 1 .. N + 1
  <2>1. CASE N = 0
    <3>1. i = 1 /\ y + i = y + N + 1 /\ y + i - 1 = y
          BY <1>2, <2>1
    <3>2. W[y + i] = z + lag /\ W[y + i - 1] = a /\ new[i] = head + L + rest
          BY <1>9, <1>17, <2>1, <3>1
    <3>3. z + lag = a + (head + L + rest)
          BY <1>3, <1>5, <1>16
    <3> QED BY <3>2, <3>3
  <2>2. CASE N > 0 /\ i = 1
    <3>1. 1 \in 1 .. N /\ y + i - 1 = y
          BY <1>2, <1>5, <2>2
    <3>2. W[y + i] = at + Nth(nl, 1) /\ W[y + i - 1] = a /\ new[i] = head + Nth(nl, 1)
          BY <1>9, <1>15, <1>17, <2>2, <3>1
    <3>3. Nth(nl, 1) \in Int
          BY <1>5, <3>1
    <3>4. at + Nth(nl, 1) = a + (head + Nth(nl, 1))
          BY <1>3, <1>16, <3>3
    <3> QED BY <3>2, <3>4
  <2>3. CASE N > 0 /\ i \in 2 .. N
    <3> DEFINE j == i - 1
    <3>1. i \in 1 .. N /\ j \in 1 .. N /\ y + i - 1 = y + j
          BY <1>2, <1>5, <2>3
    <3>2. new[i] = Nth(nl, i) - Nth(nl, j)
          BY <1>9, <2>3
    <3> HIDE DEF j
    <3> DEFINE u == Nth(nl, j)
               v == Nth(nl, i)
    <3>3. W[y + i] = at + v /\ W[y + i - 1] = at + u /\ new[i] = v - u /\ u \in Int /\ v \in Int
      <4>1. W[y + i] = at + v /\ W[y + j] = at + u
            BY <1>15, <3>1
      <4>2. u \in Int /\ v \in Int
            BY <1>5, <3>1
      <4> QED BY <3>1, <3>2, <4>1, <4>2
    <3> HIDE DEF u, v
    <3>4. at + v = (at + u) + (v - u)
          BY <1>7, <3>3
    <3> QED BY <3>3, <3>4
  <2>4. CASE N > 0 /\ i = N + 1
    <3>1. N \in 1 .. N /\ y + i = y + N + 1 /\ y + i - 1 = y + N
          BY <1>2, <1>5, <2>4
    <3> DEFINE u == Nth(nl, N)
    <3>2. W[y + i] = z + lag /\ W[y + i - 1] = at + u /\ new[i] = rest + (L - u) /\ u \in Int
      <4>1. W[y + N] = at + u
            BY <1>15, <3>1
      <4>2. u \in Int
            BY <1>5, <3>1
      <4>3. new[i] = rest + (L - u)
            BY <1>9, <2>4
      <4>4. W[y + i] = z + lag
            BY <1>17, <3>1
      <4> QED BY <3>1, <4>1, <4>2, <4>3, <4>4
    <3> HIDE DEF u
    <3>3. z + lag = (at + u) + (rest + (L - u))
          BY <1>3, <1>5, <1>16, <3>2
    <3> QED BY <3>2, <3>3
  <2> QED BY <1>5, <2>1, <2>2, <2>3, <2>4
<1>21. \A k \in y + 1 .. n + 1 : W[k + N] = T[k] - z + W[y + N + 1]
  <2> TAKE k \in y + 1 .. n + 1
  <2>1. k \in 0 .. n + 1
    <3>1. k \in y + 1 .. n + 1
          OBVIOUS
    <3> QED BY ONLY <1>a, <3>1
  <2> DEFINE t == T[k]
  <2>2. W[k + N] = t + lag /\ t \in Nat
        BY <1>1, <1>14, <2>1
  <2> HIDE DEF t
  <2>3. t + lag = t - z + (z + lag)
        BY ONLY <1>3, <1>7, <2>2
  <2>4. W[k + N] = t - z + W[y + N + 1]
        BY <1>17, <2>2, <2>3
  <2> QED BY <2>4 DEF t
<1>22. /\ Splice(lens, y, new, y + 1) \in Seq(Nat)
       /\ Len(Splice(lens, y, new, y + 1)) = n + N + 1
       /\ Starts(Splice(lens, y, new, y + 1)) = W
  <2> DEFINE M == n + 1
  <2>1. /\ lens \in Seq(Nat) /\ new \in Seq(Nat) /\ y \in Nat /\ zero \in Nat /\ N \in Nat
        /\ y + zero + 1 <= Len(lens) /\ Len(new) = N + 1
        BY <1>1, <1>2, <1>5, <1>9
  <2>2. Resum(T, M, new, y, zero, N, W)
    <3>1. M - zero + N = n + N + 1 /\ y + zero + 1 = y + 1
          BY ONLY <1>a
    <3>2. \A k \in y + 1 .. M : k - zero + N = k + N
          BY ONLY <1>a
    <3>3. \A k \in y + 1 .. M : W[k - zero + N] = T[k] - T[y + 1] + W[y + N + 1]
      <4> TAKE k \in y + 1 .. M
      <4>1. k - zero + N = k + N
            BY <3>2
      <4>2. W[k + N] = T[k] - T[y + 1] + W[y + N + 1]
            BY <1>21 DEF z
      <4> HIDE DEF zero
      <4> QED BY <4>1, <4>2
    <3>4. W \in [0 .. M - zero + N -> Nat]
          BY <1>19, <3>1
    <3>5. \A k \in y + zero + 1 .. M : W[k - zero + N] = T[k] - T[y + zero + 1] + W[y + N + 1]
          BY <3>1, <3>3
    <3> HIDE DEF zero, M
    <3> QED BY <1>13, <1>20, <3>4, <3>5 DEF Resum
  <2> HIDE DEF zero
  <2>3. Resum(Starts(lens), Len(lens), new, y, zero, N, W)
        BY <2>2 DEF T
  <2>4. /\ Splice(lens, y, new, y + zero + 1) \in Seq(Nat)
        /\ Len(Splice(lens, y, new, y + zero + 1)) = Len(lens) - zero + N
        /\ Starts(Splice(lens, y, new, y + zero + 1)) = W
        BY ONLY <2>1, <2>3, Resummed
  <2>5. y + zero + 1 = y + 1 /\ Len(lens) - zero + N = n + N + 1
        BY <1>a DEF zero
  <2> QED BY <2>4, <2>5
<1>23. a + Total(new, 0, N) = W[y + N]
  <2> DEFINE V == [i \in 0 .. N + 1 |-> W[y + i] - a]
  <2>1. \A i \in 0 .. N + 1 : y + i \in 0 .. n + N + 1 /\ W[y + i] \in Nat /\ W[y + i] >= a
    <3> TAKE i \in 0 .. N + 1
    <3> DEFINE l == y + i
    <3>1. l \in 0 .. n + N + 1 /\ (i = 0 \/ l > y)
      <4>1. i \in 0 .. N + 1
            OBVIOUS
      <4> QED BY ONLY <1>a, <4>1
    <3>2. i = 0 => W[l] = a
          BY <1>17, <1>a
    <3> HIDE DEF l
    <3>3. W[l] \in Nat /\ (l > y => W[l] > a)
          BY <1>18, <3>1
    <3> QED BY <1>3, <3>1, <3>2, <3>3 DEF l
  <2>2. V \in [0 .. N + 1 -> Nat]
    <3>1. \A i \in 0 .. N + 1 : W[y + i] - a \in Nat
      <4> TAKE i \in 0 .. N + 1
      <4> DEFINE w == W[y + i]
      <4>1. w \in Nat /\ w >= a
            BY <2>1
      <4> HIDE DEF w
      <4>2. w - a \in Nat
            BY <1>3, <4>1
      <4> QED BY <4>2 DEF w
    <3> QED BY <3>1
  <2>3. V[0] = 0
    <3>1. 0 \in 0 .. N + 1 /\ y + 0 = y
          BY <1>a
    <3>2. V[0] = W[y + 0] - a
          BY <3>1
    <3> HIDE DEF V
    <3> QED BY <1>3, <1>17, <3>1, <3>2
  <2>4. \A i \in 1 .. N + 1 : V[i] = V[i - 1] + new[i]
    <3> TAKE i \in 1 .. N + 1
    <3> DEFINE j == i - 1
    <3>1. i \in 0 .. N + 1 /\ j \in 0 .. N + 1 /\ y + i - 1 = y + j
      <4>1. i \in 1 .. N + 1
            OBVIOUS
      <4> QED BY ONLY <1>a, <4>1
    <3> HIDE DEF j
    <3> DEFINE u == W[y + j]
               v == W[y + i]
               k == new[i]
    <3>2. V[i] = v - a /\ V[j] = u - a /\ v = u + k /\ u \in Nat /\ v \in Nat /\ k \in Nat
      <4>1. v = u + k
            BY <1>20, <3>1
      <4>2. k \in Nat
            BY <1>9, ElementOfSeq
      <4> QED BY <2>1, <3>1, <4>1, <4>2
    <3> HIDE DEF u, v, k, V
    <3>3. V[i] = V[j] + k
          BY ONLY <3>2, <1>3
    <3> QED BY <3>3 DEF j, k
  <2>5. Summed(new, V)
    <3>1. Len(new) = N + 1
          BY <1>9
    <3> HIDE DEF V
    <3> QED BY <2>2, <2>3, <2>4, <3>1 DEF Summed
  <2>6. Starts(new) = V
    <3> HIDE DEF V
    <3> QED BY <1>9, <2>5, StartsAre
  <2>7. Total(new, 0, N) = W[y + N] - a
    <3>1. N \in 0 .. N + 1 /\ N \in 0 .. Len(new)
          BY <1>9, <1>a
    <3>2. Total(new, 0, N) = Starts(new)[N]
          BY <1>9, <3>1, StartsSum
    <3>3. V[N] = W[y + N] - a
          BY <3>1
    <3> HIDE DEF V
    <3> QED BY <2>6, <3>2, <3>3
  <2>8. W[y + N] \in Nat
    <3>1. N \in 0 .. N + 1
          BY <1>a
    <3> QED BY <2>1, <3>1
  <2> QED BY <1>3, <2>7, <2>8
<1>24. W[y + N] \in Nat
  <2>1. y + N \in 0 .. n + N + 1
        BY <1>a
  <2> QED BY <1>18, <2>1
<1>25. \A i \in y + 1 .. y + N :
         W[i - 1] < W[i] /\ W[i] - s \in 1 .. Len(mid) /\ mid[W[i] - s] = EOL
  <2> TAKE i \in y + 1 .. y + N
  <2> HIDE DEF EOL
  <2> DEFINE k == i - y
             j == k - 1
             u == Nth(nl, k)
  <2>a. i \in y + 1 .. y + N /\ k = i - y /\ j = k - 1
        OBVIOUS
  <2>1. k \in 1 .. N /\ y + k = i /\ i - 1 = y + j /\ (k = 1 \/ j \in 1 .. N) /\ j < k
        BY ONLY <1>a, <2>a
  <2>b. k = 1 => y + j = y
        BY ONLY <1>a, <2>a
  <2> HIDE DEF k, j
  <2>2. W[i] = at + u /\ u \in 1 .. L /\ p[u] = EOL
        BY <1>5, <1>15, <2>1
  <2>3. W[i - 1] < W[i]
    <3>1. CASE k = 1
      <4>1. W[i - 1] = a
            BY <1>17, <2>1, <2>b, <3>1
      <4> HIDE DEF u
      <4> QED BY <1>3, <1>5, <1>6, <1>16, <2>2, <4>1
    <3>2. CASE k # 1
      <4> DEFINE v == Nth(nl, j)
      <4>1. W[i - 1] = at + v /\ v < u /\ v \in 1 .. L
            BY <1>5, <1>15, <2>1, <3>2
      <4> HIDE DEF u, v
      <4> QED BY <1>5, <1>7, <2>2, <4>1
    <3> QED BY <3>1, <3>2
  <2> HIDE DEF u
  <2>4. W[i] - s = extra + u /\ extra + u \in 1 .. Len(mid)
    <3>1. /\ W[i] = at + u /\ at = s + extra /\ Len(mid) = extra + L
          /\ s \in Nat /\ extra \in Nat /\ u \in 1 .. L /\ L \in Nat
          BY <1>5, <1>16, <2>2
    <3> QED BY ONLY <3>1
  <2>5. mid[extra + u] = p[u]
        BY <1>11, <2>2 DEF L
  <2> QED BY <2>2, <2>3, <2>4, <2>5
<1>26. \A q \in 1 .. Len(mid) : mid[q] = EOL => \E i \in y + 1 .. y + N + 1 : s + q = W[i]
  <2> HIDE DEF EOL
  <2> SUFFICES ASSUME NEW q \in 1 .. Len(mid), mid[q] = EOL
               PROVE  \E i \in y + 1 .. y + N + 1 : s + q = W[i]
      OBVIOUS
  <2>1. ~(q <= extra)
    <3> SUFFICES ASSUME q <= extra PROVE FALSE
        OBVIOUS
    <3>1. q \in 1 .. extra
          BY <1>16, <1>5
    <3> QED BY <1>10, <1>11, <3>1
  <2> DEFINE l == q - extra
  <2>2. l \in 1 .. L /\ extra + l = q
        BY <1>5, <1>16, <2>1
  <2> HIDE DEF l
  <2>3. p[l] = EOL
        BY <1>11, <2>2 DEF L
  <2>4. PICK k \in 1 .. N : l = Nth(nl, k)
        BY <1>5, <2>2, <2>3
  <2>5. W[y + k] = at + l
        BY <1>15, <2>4
  <2> DEFINE i == y + k
  <2>6. i \in y + 1 .. y + N + 1
    <3>1. k \in 1 .. N /\ i = y + k
          BY <2>4
    <3> QED BY ONLY <1>a, <3>1
  <2>7. s + q = W[i]
    <3>1. /\ W[i] = at + l /\ at = s + extra /\ extra + l = q
          /\ s \in Nat /\ extra \in Nat /\ l \in 1 .. L /\ L \in Nat
          BY <1>5, <1>16, <2>2, <2>5
    <3> HIDE DEF i
    <3> QED BY ONLY <3>1
  <2> QED BY <2>6, <2>7
<1>27. W[y + N] <= W[y + N + 1] /\ (y < n => W[y + N] < W[y + N + 1])
  <2> DEFINE w == W[y + N]
             v == W[y + N + 1]
  <2>1. v = z + lag
        BY <1>17
  <2>2. CASE N = 0
    <3>1. w = a
      <4>1. y + N = y
            BY <2>2, <1>a
      <4> QED BY <1>17, <4>1
    <3> HIDE DEF w, v
    <3>2. w < v
      <4>1. /\ a <= s /\ s <= point /\ point <= z /\ L \in Nat /\ L > 0 /\ s \in Nat
            /\ point \in Nat /\ extra \in Nat
            BY <1>5, <1>6
      <4> QED BY ONLY <1>3, <1>16, <2>1, <3>1, <4>1
    <3>3. w <= v
          BY ONLY <1>3, <1>7, <2>1, <3>1, <3>2
    <3> QED BY <3>2, <3>3 DEF w, v
  <2>3. CASE N > 0
    <3> DEFINE u == Nth(nl, N)
    <3>1. N \in 1 .. N
          BY <1>5, <2>3
    <3>2. w = at + u /\ u \in 1 .. L
          BY <1>5, <1>15, <3>1
    <3> HIDE DEF w, v, u
    <3>3. w <= v /\ (y < n => w < v)
      <4>1. /\ point <= z /\ L \in Nat /\ L > 0 /\ s \in Nat
            /\ point \in Nat /\ extra \in Nat /\ (y < n => point < z)
            BY <1>5, <1>6
      <4> QED BY ONLY <1>3, <1>16, <1>a, <2>1, <3>2, <4>1
    <3> QED BY <3>3 DEF w, v
  <2> QED BY <1>5, <2>2, <2>3
<1>28. Cuts(Splice(b, s, mid, point), W, n + N)
  <2>1. /\ Cuts(b, T, n) /\ y \in Nat /\ zero \in Nat /\ N \in Nat /\ y + zero <= n
        /\ s \in Nat /\ point \in Nat /\ mid \in Strings
        BY <1>1, <1>a, <1>11 DEF Strings
  <2>2. Recut(b, T, n, y, zero, N, s, point, mid, W)
    <3>1. y + zero + 1 = y + 1 /\ y + zero = y /\ n - zero + N + 1 = n + N + 1
          BY <1>a
    <3>2. T[y] <= s /\ s <= point /\ point <= T[y + 1] /\ T[y] <= point
          /\ (y < n => point < T[y + 1]) /\ \A q \in T[y] + 1 .. s : b[q] # EOL
          BY <1>3, <1>6 DEF a, z
    <3>3. \A k \in y + 1 .. n + 1 : W[k - zero + N] = T[k] - point + s + Len(mid)
      <4> TAKE k \in y + 1 .. n + 1
      <4>a. k \in y + 1 .. n + 1
            OBVIOUS
      <4>1. k - zero + N = k + N /\ k \in 0 .. n + 1
            BY ONLY <1>a, <4>a
      <4> DEFINE t == T[k]
      <4>2. W[k + N] = t + lag /\ t \in Nat
            BY <1>1, <1>14, <4>1
      <4> HIDE DEF t, zero
      <4>3. t + lag = t - point + s + Len(mid)
            BY <1>5, <1>16, <4>2
      <4> QED BY <4>1, <4>2, <4>3 DEF t
    <3>4. W \in [0 .. n - zero + N + 1 -> Nat]
          BY <1>19, <3>1
    <3> HIDE DEF zero
    <3> QED BY <1>13, <1>25, <1>26, <1>27, <3>1, <3>2, <3>3, <3>4 DEF Recut
  <2> HIDE DEF zero
  <2>3. Cuts(Splice(b, s, mid, point), W, n - zero + N)
        BY ONLY <2>1, <2>2, Respliced
  <2>4. n - zero + N = n + N
        BY <1>a DEF zero
  <2> QED BY <2>3, <2>4
<1> QED BY <1>22, <1>23, <1>24, <1>28 DEF mid, e0, a, T

(* Where insertBuffer() puts a text.                                       *)
Place(i, d, T, y) ==
  /\ i.s \in Nat /\ i.point \in Nat /\ i.extra \in Nat /\ i.extra <= d.x
  /\ T[y] <= i.s /\ i.s <= i.point /\ i.point <= T[y + 1]
  /\ y < d.totalLines => i.point < T[y + 1]
  /\ \A q \in T[y] + 1 .. i.s : d.buffer[q] # EOL
  /\ i.pF = i.s - T[y]
  /\ i.rest \in Nat /\ i.crlf \in Nat /\ i.rest + i.crlf = T[y + 1] - i.point

LEMMA InsertedIs ==
  ASSUME NEW d, InLines(d), NEW p
  PROVE  Place(Inserted(d, p), d, Starts(d.lenLines), d.y)
<1> DEFINE T == Starts(d.lenLines)
           lar == LineWidth(d)
           len == d.lenLines[d.y + 1]
           a == T[d.y]
           z == T[d.y + 1]
           pF == Min({lar, d.x})
           point == d.curLine + pF
           s == IF p[1] = EOL THEN Max({d.curLine, BlanksBefore(d.buffer, point)}) ELSE point
           extra == IF p[1] # EOL THEN d.x - pF ELSE 0
           i == Inserted(d, p)
<1>1. /\ d.y \in 0 .. d.totalLines /\ d.x \in Nat /\ d.curLine = a /\ d.buffer \in Strings
      /\ Len(d.buffer) \in Nat
  <2>1. d.y \in 0 .. d.totalLines /\ d.x \in Nat /\ d.curLine = a /\ d.buffer \in Strings
        BY DEF InLines, Editors
  <2> QED BY <2>1, LenProperties DEF Strings
<1>2. Wide(d, T, d.y, lar)
      BY <1>1, WideLine DEF LineWidth
<1> HIDE DEF lar, T
<1>3. /\ a \in Nat /\ z \in Nat /\ len \in Nat /\ z = a + len /\ z <= Len(d.buffer)
      /\ lar \in Nat /\ lar <= len
      /\ \A q \in a + 1 .. a + lar : d.buffer[q] # EOL
      /\ (d.y < d.totalLines => lar < len)
      BY <1>2 DEF Wide
<1>4. pF \in Nat /\ pF <= lar /\ pF <= d.x
  <2> DEFINE x == d.x
  <2>1. x \in Int /\ lar \in Int
        BY <1>1, <1>3
  <2> HIDE DEF x
  <2>2. Min({lar, x}) \in {lar, x} /\ Min({lar, x}) <= lar /\ Min({lar, x}) <= x
        BY ONLY <2>1, MaxOfTwo
  <2>3. Min({lar, x}) \in Nat
        BY <1>1, <1>3, <2>2 DEF x
  <2> QED BY <2>2, <2>3 DEF x
<1> HIDE DEF pF
<1>5. i = [lar |-> lar, crlf |-> len - lar, point |-> point, s |-> s,
           pF |-> pF - (point - s), extra |-> extra,
           rest |-> lar - pF, allBlank |-> \A k \in 1 .. pF : CurLine(d)[k] = Blank]
      BY DEF Inserted, pF, lar
<1> HIDE DEF a, z, len
<1>6. point = a + pF /\ point \in Nat /\ a <= point /\ point <= a + lar /\ point \in 0 .. Len(d.buffer)
  <2> DEFINE L == Len(d.buffer)
             c == d.curLine
  <2>1. /\ a \in Nat /\ len \in Nat /\ lar \in Nat /\ lar <= len /\ z = a + len /\ z <= L
        /\ L \in Nat /\ pF \in Nat /\ pF <= lar /\ c = a /\ point = c + pF
        BY <1>1, <1>3, <1>4
  <2> HIDE DEF L, c, point
  <2>2. point = a + pF /\ point \in Nat /\ a <= point /\ point <= a + lar /\ point \in 0 .. L
        BY ONLY <2>1
  <2> QED BY <2>2 DEF L
<1> HIDE DEF point
<1>7. a <= s /\ s <= point /\ s \in Nat
  <2> DEFINE f == BlanksBefore(d.buffer, point)
             c == d.curLine
  <2>1. f \in 0 .. point
        BY <1>1, <1>6, BlanksBeforeIs
  <2>2. f \in Int /\ c \in Int /\ c = a
        BY <1>1, <1>3, <1>6, <2>1
  <2>3. s = IF p[1] = EOL THEN Max({c, f}) ELSE point
        OBVIOUS
  <2> HIDE DEF f, c, EOL
  <2>4. Max({c, f}) \in {c, f} /\ Max({c, f}) >= c
        BY ONLY <2>2, MaxOfTwo
  <2> HIDE DEF s
  <2> QED BY <1>3, <1>6, <2>1, <2>2, <2>3, <2>4
<1> HIDE DEF s
<1>8. extra \in Nat /\ extra <= d.x
      BY <1>1, <1>4 DEF EOL
<1> HIDE DEF extra, i
<1>9. /\ i.s = s /\ i.point = point /\ i.extra = extra /\ i.pF = pF - (point - s)
      /\ i.rest = lar - pF /\ i.crlf = len - lar
      BY <1>5
<1>10. /\ point <= z /\ (d.y < d.totalLines => point < z) /\ pF - (point - s) = s - a
       /\ lar - pF \in Nat /\ len - lar \in Nat /\ (lar - pF) + (len - lar) = z - point
       BY <1>3, <1>4, <1>6, <1>7
<1>11. \A q \in a + 1 .. s : d.buffer[q] # EOL
  <2> HIDE DEF EOL
  <2>1. \A q \in a + 1 .. s : q \in a + 1 .. a + lar
        BY <1>3, <1>6, <1>7
  <2> QED BY <1>3, <2>1
<1> QED BY <1>6, <1>7, <1>8, <1>9, <1>10, <1>11 DEF Place, i, T, a, z

LEMMA insertBufferLines ==
  ASSUME NEW d, InLines(d), NEW p \in Strings, Len(p) > 0, NEW selectText,
         selectText => Len(d.buffer) + d.x \in Offsets
  PROVE  LET r == insertBuffer(d, p, selectText) IN InLines(r) /\ SameLine(r, d)
<1> DEFINE i == Inserted(d, p)
           b == d.buffer
           lens == d.lenLines
           T == Starts(lens)
           t == d.totalLines
           y == d.y
           L == Len(p)
           toAdd == i.extra + L - (i.point - i.s)
           nl == Newlines(p)
           n == Cardinality(nl)
           tail == IF n = 0 THEN L ELSE L - Max(nl)
           first == i.pF + i.extra + (IF n = 0 THEN L + i.rest + i.crlf ELSE Min(nl))
           middle == [k \in 1 .. n - 1 |-> Nth(nl, k + 1) - Nth(nl, k)]
           new == IF n = 0 THEN <<first>>
                  ELSE <<first>> \o middle \o <<i.rest + i.crlf + tail>>
           fromLine == d.y + (IF i.allBlank THEN 0 ELSE 1)
           sel == IF selectText THEN <<i.s + i.extra, U(i.s + toAdd)>>
                  ELSE IF ~hasSelection(d) THEN <<d.selStart, d.selEnd>>
                  ELSE IF i.point < d.selStart THEN <<U(d.selStart + toAdd), U(d.selEnd + toAdd)>>
                  ELSE IF i.point < d.selEnd THEN <<d.selStart, U(d.selEnd + toAdd)>>
                  ELSE <<d.selStart, d.selEnd>>
           mk == IF d.mark > i.point THEN U(d.mark + toAdd) ELSE d.mark
           ln == IF d.nline >= fromLine THEN d.nline + n ELSE d.nline
           x == IF n = 0 THEN d.x + L ELSE tail
           fb == Part(b, 0, i.s) \o Blanks(i.extra) \o p \o Part(b, i.point, Len(b))
           fl == Part(lens, 0, y) \o new \o Part(lens, y + 1, Len(lens))
           r == [d EXCEPT
             !.buffer = fb, !.lenLines = fl, !.totalLines = t + n,
             !.y = y + n, !.curLine = d.curLine + Total(new, 0, n), !.x = x,
             !.selStart = sel[1], !.selEnd = sel[2], !.mark = mk, !.nline = ln]
<1>1. insertBuffer(d, p, selectText) = r
      BY DEF insertBuffer
<1>2. /\ d \in Editors /\ b \in Strings /\ lens \in Seq(Nat) /\ t \in Nat /\ Len(lens) = t + 1
      /\ Cuts(b, T, t) /\ Len(b) \in Nat /\ d.nline \in Int /\ d.mark \in Offsets /\ d.x \in Nat
      /\ d.selStart \in Offsets /\ d.selEnd \in Offsets /\ y \in 0 .. t /\ y \in Nat /\ d.curLine = T[y]
  <2>1. /\ d \in Editors /\ b \in Strings /\ lens \in Seq(Nat) /\ t \in Nat /\ d.nline \in Int
        /\ d.mark \in Offsets /\ d.x \in Nat /\ d.selStart \in Offsets /\ d.selEnd \in Offsets
        /\ y \in Nat
        BY DEF InLines, Editors
  <2> QED BY <2>1, LenProperties DEF InLines, Strings
<1>3. Place(i, d, T, y)
      BY InsertedIs
<1> HIDE DEF i, T
<1> DEFINE a == T[y]
           z == T[y + 1]
<1>4. /\ i.s \in Nat /\ i.point \in Nat /\ i.extra \in Nat
      /\ a <= i.s /\ i.s <= i.point /\ i.point <= z
      /\ (y < t => i.point < z)
      /\ \A q \in a + 1 .. i.s : b[q] # EOL
      /\ i.pF = i.s - a
      /\ i.rest \in Nat /\ i.crlf \in Nat /\ i.rest + i.crlf = z - i.point
      BY <1>3 DEF Place
<1>5. L \in Nat /\ L > 0 /\ n \in Nat /\ nl \subseteq 1 .. L
      BY NewlinesOf DEF Ranked
<1>6. a \in Nat /\ z \in Nat
  <2>1. y \in 0 .. t + 1 /\ y + 1 \in 0 .. t + 1
        BY <1>2
  <2> QED BY <1>2, <2>1 DEF Cuts
<1>7. n > 0 => Min(nl) \in 1 .. L /\ Max(nl) \in 1 .. L
  <2>1. n > 0 => Min(nl) \in nl /\ Max(nl) \in nl
    <3>1. n > 0 => 1 \in 1 .. n /\ n \in 1 .. n
          BY <1>5
    <3>2. Ranked(nl)
          BY NewlinesOf
    <3> HIDE DEF nl
    <3> QED BY <3>1, <3>2 DEF Ranked, n
  <2> QED BY <1>5, <2>1
<1> DEFINE head == i.s - a + i.extra
           rest == z - i.point
<1>8. new = NewLens(p, head, rest)
  <2>1. CASE n = 0
    <3>1. first = head + L + rest
      <4>1. first = i.pF + i.extra + (L + i.rest + i.crlf)
        <5> HIDE DEF n, L, nl, a, z
        <5> QED BY <2>1
      <4> DEFINE u == i.rest + i.crlf
      <4>2. first = i.pF + i.extra + (L + u)
        <5>1. i.rest \in Nat /\ i.crlf \in Nat /\ L \in Nat
              BY <1>4, <1>5
        <5> HIDE DEF L, first, a, z
        <5> QED BY ONLY <4>1, <5>1
      <4>3. /\ i.s \in Nat /\ i.point \in Nat /\ i.extra \in Nat /\ i.pF = i.s - a
            /\ u = z - i.point /\ a \in Nat /\ z \in Nat /\ L \in Nat
            BY <1>4, <1>5, <1>6
      <4> HIDE DEF a, z, L, first, u
      <4> QED BY ONLY <4>2, <4>3
    <3>2. new = <<first>>
          BY <2>1
    <3>3. NewLens(p, head, rest) = <<head + L + rest>>
          BY ONLY <2>1, Zenon DEF NewLens
    <3> HIDE DEF first, rest, head, new
    <3> QED BY <3>1, <3>2, <3>3
  <2>2. CASE ~(n = 0)
    <3>1. n > 0
          BY <1>5, <2>2
    <3>2. first = head + Min(nl)
      <4> DEFINE m == Min(nl)
      <4>1. m \in Nat
            BY <1>5, <1>7, <3>1
      <4>2. first = i.pF + i.extra + m
            BY <2>2
      <4> HIDE DEF a, z, L, m, first
      <4>3. first = head + m
            BY <1>4, <1>6, <4>1, <4>2
      <4> QED BY <4>3 DEF m
    <3>3. i.rest + i.crlf + tail = rest + (L - Max(nl))
      <4> DEFINE m == L - Max(nl)
      <4>1. m \in Int
            BY <1>5, <1>7, <3>1
      <4>2. tail = m
            BY <2>2
      <4> HIDE DEF a, z, L, m, tail
      <4>3. i.rest + i.crlf + tail = rest + m
            BY <1>4, <1>6, <4>1, <4>2
      <4> QED BY <4>3 DEF m
    <3>4. new = <<first>> \o middle \o <<i.rest + i.crlf + tail>>
          BY <2>2
    <3>5. NewLens(p, head, rest) = <<head + Min(nl)>> \o middle \o <<rest + (L - Max(nl))>>
          BY ONLY <2>2, Zenon DEF NewLens
    <3> HIDE DEF first, middle, tail, rest, head, new
    <3> QED BY <3>2, <3>3, <3>4, <3>5
  <2> QED BY <2>1, <2>2
<1> HIDE DEF new, middle, first
<1> DEFINE W == Opened(T, y, t, nl, n, i.s + i.extra, i.s + i.extra + L - i.point)
<1>9. /\ Splice(lens, y, new, y + 1) \in Seq(Nat)
      /\ Len(Splice(lens, y, new, y + 1)) = t + n + 1
      /\ Starts(Splice(lens, y, new, y + 1)) = W
      /\ Cuts(Splice(b, i.s, Blanks(i.extra) \o p, i.point), W, t + n)
      /\ Starts(lens)[y] + Total(new, 0, n) = W[y + n] /\ W[y + n] \in Nat
  <2>1. /\ lens \in Seq(Nat) /\ Len(lens) = t + 1 /\ Cuts(b, Starts(lens), t)
        /\ y \in 0 .. t /\ p \in Strings /\ Len(p) > 0
        /\ i.s \in Nat /\ i.point \in Nat /\ i.extra \in Nat
        /\ Starts(lens)[y] <= i.s /\ i.s <= i.point /\ i.point <= Starts(lens)[y + 1]
        /\ (y < t => i.point < Starts(lens)[y + 1])
        /\ \A q \in Starts(lens)[y] + 1 .. i.s : b[q] # EOL
        /\ n = Cardinality(Newlines(p))
        /\ W = Opened(Starts(lens), y, t, Newlines(p), n, i.s + i.extra,
                      i.s + i.extra + Len(p) - i.point)
        /\ new = NewLens(p, i.s - Starts(lens)[y] + i.extra, Starts(lens)[y + 1] - i.point)
        BY <1>2, <1>4, <1>5, <1>8 DEF T
  <2> HIDE DEF W, n, b, lens, t, y
  <2>2. Opens(b, lens, t, y, p, i.s, i.point, i.extra, n, W, new)
        BY ONLY <2>1 DEF Opens
  <2> QED BY ONLY <2>2, OpenedLines
<1>10. fb = Splice(b, i.s, Blanks(i.extra) \o p, i.point)
  <2> DEFINE A == Part(b, 0, i.s)
             e0 == Blanks(i.extra)
             Z == Part(b, i.point, Len(b))
             S == Chars
  <2>1. e0 \in Seq(S) /\ p \in Seq(S)
        BY <1>4, BlanksAre DEF Strings
  <2>2. A \in Seq(S)
    <3>1. b \in Seq(Chars) /\ 0 \in 0 .. Len(b) /\ i.s \in 0 .. Len(b)
      <4>1. z <= Len(b)
        <5>1. y + 1 \in 0 .. t + 1
              BY <1>2
        <5> QED BY <1>2, <5>1, CutsGoUp
      <4> HIDE DEF a, z
      <4>2. i.s <= Len(b)
            BY <1>2, <1>4, <1>6, <4>1
      <4> QED BY <1>2, <1>4, <4>2 DEF Strings
    <3> QED BY <3>1, PartOf
  <2> HIDE DEF A, e0, Z, S
  <2>3. (A \o e0) \o p = A \o (e0 \o p)
        BY ONLY <2>1, <2>2, ConcatAssociative
  <2>4. fb = ((A \o e0) \o p) \o Z
        BY DEF A, e0, Z
  <2>5. Splice(b, i.s, e0 \o p, i.point) = (A \o (e0 \o p)) \o Z
        BY DEF Splice, A, Z
  <2> HIDE DEF fb
  <2> QED BY <2>3, <2>4, <2>5 DEF e0
<1>11. fl = Splice(lens, y, new, y + 1)
       BY DEF Splice
<1>12. fb \in Strings /\ fl \in Seq(Nat)
       BY <1>9, <1>10, <1>11 DEF Cuts
<1>13. x \in Nat
       BY <1>2, <1>5, <1>7
<1>14. toAdd \in Int
       BY <1>4, <1>5
<1>15. mk \in Offsets /\ ln \in Int
  <2> HIDE DEF toAdd
  <2>1. d.mark + toAdd \in Int
    <3>1. d.mark \in Int
          BY <1>2, Unsigneds
    <3> QED BY <1>14, <3>1
  <2>2. U(d.mark + toAdd) \in Offsets
        BY <2>1, Unsigneds
  <2> HIDE DEF n, fromLine
  <2> QED BY <1>2, <1>5, <2>2
<1>16. sel[1] \in Offsets /\ sel[2] \in Offsets
  <2> HIDE DEF toAdd
  <2> HIDE DEF sel
  <2>1. i.s + toAdd \in Int /\ d.selStart + toAdd \in Int /\ d.selEnd + toAdd \in Int
    <3>1. i.s \in Int
          BY <1>4
    <3>2. d.selStart \in Int /\ d.selEnd \in Int
          BY <1>2, Unsigneds
    <3> QED BY ONLY <1>14, <3>1, <3>2
  <2> DEFINE u1 == U(i.s + toAdd)
             u2 == U(d.selStart + toAdd)
             u3 == U(d.selEnd + toAdd)
             u4 == i.s + i.extra
  <2>2. u1 \in Offsets /\ u2 \in Offsets /\ u3 \in Offsets
        BY ONLY <2>1, Unsigneds
  <2>a. ASSUME selectText PROVE u4 \in Offsets
    <3> DEFINE B == Len(b)
               c == d.x
    <3>1. B + c \in Offsets /\ B \in Nat /\ c \in Nat
          BY <1>2, <2>a
    <3>2. i.extra <= c /\ i.s <= B /\ i.s \in Nat /\ i.extra \in Nat
      <4>1. z <= B
        <5>1. y + 1 \in 0 .. t + 1
              BY <1>2
        <5> QED BY <1>2, <5>1, CutsGoUp
      <4> HIDE DEF a, z, B, c
      <4>2. i.s <= B
            BY <1>4, <1>6, <3>1, <4>1
      <4> QED BY <1>4, <4>2, InsertedIs DEF Place, i, T, c
    <3> HIDE DEF B, c
    <3>3. Unsigned \in Nat
          BY Unsigneds
    <3> QED BY <3>1, <3>2, <3>3 DEF Offsets
  <2> HIDE DEF u1, u2, u3, u4
  <2>3. sel = IF selectText THEN <<u4, u1>>
              ELSE IF ~hasSelection(d) THEN <<d.selStart, d.selEnd>>
              ELSE IF i.point < d.selStart THEN <<u2, u3>>
              ELSE IF i.point < d.selEnd THEN <<d.selStart, u3>>
              ELSE <<d.selStart, d.selEnd>>
        BY DEF u1, u2, u3, u4, sel
  <2>5. CASE selectText
    <3>1. sel = <<u4, u1>>
          BY <2>3, <2>5
    <3> QED BY <2>2, <2>a, <2>5, <3>1
  <2>6. CASE ~selectText
    <3>1. sel = <<d.selStart, d.selEnd>> \/ sel = <<u2, u3>> \/ sel = <<d.selStart, u3>>
          BY <2>3, <2>6
    <3> QED BY <1>2, <2>2, <3>1
  <2> QED BY <2>5, <2>6
<1> DEFINE c == W[y + n]
<1>17. d.curLine + Total(new, 0, n) = c /\ c \in Nat /\ y + n \in Nat /\ t + n \in Nat /\ y + n <= t + n
  <2>1. d.curLine + Total(new, 0, n) = c /\ c \in Nat
        BY <1>2, <1>9 DEF T
  <2>2. t \in Nat /\ y \in 0 .. t /\ n \in Nat
        BY <1>2, <1>5
  <2>3. y + n \in Nat /\ t + n \in Nat /\ y + n <= t + n
    <3> HIDE DEF t, y, n
    <3> QED BY ONLY <2>2
  <2> QED BY <2>1, <2>3
<1> HIDE DEF fb, fl, x, mk, ln, sel, c
<1>18. r = [d EXCEPT
             !.buffer = fb, !.lenLines = fl, !.totalLines = t + n,
             !.y = y + n, !.curLine = c, !.x = x,
             !.selStart = sel[1], !.selEnd = sel[2], !.mark = mk, !.nline = ln]
       BY <1>17
<1> HIDE DEF r, n, W
<1>19. r \in Editors
       BY <1>2, <1>12, <1>13, <1>15, <1>16, <1>17, <1>18 DEF Editors
<1>20. /\ r.buffer = fb /\ r.lenLines = fl /\ r.totalLines = t + n /\ r.y = y + n /\ r.curLine = c
       /\ r.bufEdit = d.bufEdit /\ r.editing = d.editing /\ r.inEdit = d.inEdit
       BY <1>2, <1>18 DEF Editors
<1>21. InLines(r)
  <2>1. Len(r.lenLines) = r.totalLines + 1 /\ Starts(r.lenLines) = W
        BY <1>9, <1>11, <1>20
  <2>2. Cuts(r.buffer, W, r.totalLines)
        BY <1>9, <1>10, <1>20
  <2>3. r.y <= r.totalLines /\ r.curLine = W[r.y]
        BY <1>17, <1>20 DEF c
  <2> QED BY <1>19, <2>1, <2>2, <2>3 DEF InLines
<1> QED BY <1>1, <1>20, <1>21 DEF SameLine


(* A line: the only end of line is its end.                                *)
LineLike(l) == l \in Strings /\ \A q \in 1 .. Len(l) : l[q] = EOL => q = Len(l)
IsEnded(l) == Len(l) > 0 /\ l[Len(l)] = EOL

LEMMA LineAtIs ==
  ASSUME NEW d, InLines(d), NEW k \in 0 .. d.totalLines
  PROVE  /\ LineLike(LineAt(d, k)) /\ Len(LineAt(d, k)) = d.lenLines[k + 1]
         /\ d.lenLines[k + 1] \in Nat
         /\ k < d.totalLines => IsEnded(LineAt(d, k))
<1> DEFINE T == Starts(d.lenLines)
           n == d.totalLines
           b == d.buffer
           a == T[k]
           z == T[k + 1]
           l == LineAt(d, k)
           len == d.lenLines[k + 1]
<1>1. /\ n \in Nat /\ b \in Strings /\ Cuts(b, T, n) /\ Len(b) \in Nat
      /\ d.lenLines \in Seq(Nat) /\ Len(d.lenLines) = n + 1
  <2>1. b \in Strings /\ n \in Nat /\ d.lenLines \in Seq(Nat)
        BY DEF InLines, Editors
  <2> QED BY <2>1, LenProperties DEF InLines, Strings
<1>2. k \in 0 .. n + 1 /\ k + 1 \in 0 .. n + 1 /\ k + 1 \in 1 .. n + 1
      BY <1>1
<1>3. l = Part(b, a, z)
  <2>1. 0 .. Len(d.lenLines) = 0 .. n + 1
        BY <1>1
  <2>2. \A i \in 0 .. n + 1 : Total(d.lenLines, 0, i) = T[i]
        BY <1>1, <2>1, StartsSum
  <2> HIDE DEF T
  <2>3. LineStart(d, k) = a /\ LineStart(d, k + 1) = z
        BY <1>2, <2>2 DEF LineStart
  <2> QED BY <2>3 DEF LineAt
<1>4. /\ a \in Nat /\ z \in Nat /\ len \in Nat /\ z = a + len /\ z <= Len(b)
  <2> DEFINE w == LenWithoutCRLF(d, k)
  <2>1. Wide(d, T, k, w)
        BY WideLine
  <2> HIDE DEF T, w
  <2> QED BY <2>1 DEF Wide
<1> HIDE DEF T, b, l
<1>5. l \in Strings /\ Len(l) = len /\ \A q \in 1 .. len : l[q] = b[a + q]
  <2> HIDE DEF a, z, len
  <2>1. b \in Seq(Chars) /\ a \in 0 .. Len(b) /\ z \in a .. Len(b)
        BY <1>1, <1>4 DEF Strings
  <2>2. l \in Seq(Chars) /\ Len(l) = z - a /\ \A q \in 1 .. z - a : l[q] = b[a + q]
        BY <1>3, <2>1, PartOf
  <2>3. z - a = len
        BY <1>4
  <2> QED BY <2>2, <2>3 DEF Strings
<1>6. /\ \A i, j \in 0 .. n + 1 : i <= j => T[i] <= T[j]
      /\ \A i \in 0 .. n + 1 : T[i] \in Nat
      /\ \A p \in 1 .. Len(b) : b[p] = EOL => \E i \in 1 .. n + 1 : p = T[i]
  <2> HIDE DEF n
  <2>1. Cuts(b, T, n)
        BY <1>1
  <2>2. \A i, j \in 0 .. n + 1 : i <= j => T[i] <= T[j]
        BY <2>1, CutsGoUp
  <2> QED BY <2>1, <2>2 DEF Cuts
<1>7. ASSUME NEW q \in 1 .. len, l[q] = EOL
      PROVE  q = len
  <2> HIDE DEF a, z, len, EOL
  <2>1. a + q \in 1 .. Len(b) /\ b[a + q] = EOL
        BY <1>1, <1>4, <1>5, <1>7
  <2>2. PICK i \in 1 .. n + 1 : a + q = T[i]
        BY <1>6, <2>1
  <2>3. i \in 0 .. n + 1
        BY <1>1
  <2>4. ~(i <= k)
    <3> SUFFICES ASSUME i <= k PROVE FALSE
        OBVIOUS
    <3>1. T[i] <= a
          BY <1>2, <1>6, <2>3 DEF a
    <3> QED BY <1>4, <2>2, <3>1
  <2>5. k + 1 <= i
        BY <1>1, <1>2, <2>3, <2>4
  <2>6. z <= T[i]
        BY <1>2, <1>6, <2>3, <2>5 DEF z
  <2> QED BY <1>4, <2>2, <2>6
<1>8. ASSUME k < n
      PROVE  len > 0 /\ l[len] = EOL
  <2>1. k + 1 \in 1 .. n
        BY <1>1, <1>2, <1>8
  <2> DEFINE j == k + 1
  <2>2. j \in 1 .. n /\ j - 1 = k
        BY <1>2, <2>1
  <2> HIDE DEF j
  <2>3. T[j - 1] < T[j] /\ b[T[j]] = EOL
        BY <1>1, <2>2 DEF Cuts
  <2>4. a < z /\ b[z] = EOL
        BY <2>2, <2>3 DEF a, z, j
  <2> HIDE DEF a, z, len, EOL
  <2>5. len > 0 /\ len \in 1 .. len /\ a + len = z
        BY <1>4, <2>4
  <2> QED BY <1>5, <2>4, <2>5
<1> QED BY <1>4, <1>5, <1>7, <1>8 DEF LineLike, IsEnded, l, n, len

(* The text is not shorter than what is in front of the cursor, and has no  *)
(* more ends of lines than characters.                                     *)
LEMMA LinesFit ==
  ASSUME NEW d, InLines(d)
  PROVE  /\ d.curLine \in Nat /\ d.curLine <= Len(d.buffer) /\ Len(d.buffer) \in Nat
         /\ d.totalLines \in Nat /\ d.totalLines <= Len(d.buffer)
<1> DEFINE n == d.totalLines
           T == Starts(d.lenLines)
           b == d.buffer
           S == {k \in 0 .. n : k <= T[k]}
<1>1. /\ n \in Nat /\ d.y \in Nat /\ d.y <= n /\ d.curLine = T[d.y] /\ Cuts(b, T, n)
      BY DEF InLines, Editors
<1>2. /\ T[0] = 0 /\ T[n + 1] = Len(b) /\ T[n] <= T[n + 1]
      /\ \A k \in 1 .. n : T[k - 1] < T[k]
      /\ \A k \in 0 .. n + 1 : T[k] \in Nat
      BY <1>1 DEF Cuts
<1>3. \A k \in 0 .. n + 1 : T[k] <= Len(b)
      BY <1>1, CutsGoUp
<1> HIDE DEF T, n
<1>4. 0 \in S
      BY <1>1, <1>2
<1>5. \A k \in 0 .. n - 1 : k \in S => k + 1 \in S
  <2> SUFFICES ASSUME NEW k \in 0 .. n - 1, k <= T[k] PROVE k + 1 \in S
      OBVIOUS
  <2> DEFINE j == k + 1
  <2>1. j \in 1 .. n /\ j - 1 = k /\ j \in 0 .. n /\ j \in 0 .. n + 1 /\ k \in 0 .. n + 1
        BY <1>1
  <2>2. k + 1 = j /\ k \in Nat
        BY <1>1
  <2> HIDE DEF j
  <2>3. T[k] < T[j] /\ T[k] \in Nat /\ T[j] \in Nat
        BY <1>2, <2>1
  <2>4. j <= T[j]
        BY <2>2, <2>3
  <2> QED BY <2>1, <2>2, <2>4
<1> HIDE DEF S
<1>6. \A k \in 0 .. n : k \in S
      BY <1>1, <1>4, <1>5, Turns
<1>7. n \in S /\ n \in 0 .. n + 1 /\ n + 1 \in 0 .. n + 1 /\ d.y \in 0 .. n + 1
      BY <1>1, <1>6
<1>8. n <= T[n]
      BY <1>7 DEF S
<1>9. T[n] \in Nat /\ Len(b) \in Nat
      BY <1>2, <1>7
<1> QED BY <1>1, <1>2, <1>3, <1>7, <1>8, <1>9 DEF n

LEMMA GotoOffSetLines ==
  ASSUME NEW d, InLines(d), NEW o \in Nat
  PROVE  LET r == GotoOffSet(d, o)
         IN  /\ InLines(r) /\ SameLine(r, d) /\ r.selStart = d.selStart /\ r.selEnd = d.selEnd
             /\ r.buffer = d.buffer
             /\ o <= bufLen(d) => r.curLine <= o
<1> DEFINE n == d.totalLines
           T == Starts(d.lenLines)
           S == {0} \cup {k \in 0 .. n : Total(d.lenLines, 0, k) <= o}
           y == Max(S)
           start == Total(d.lenLines, 0, y)
           r == [d EXCEPT !.y = y, !.curLine = start, !.x = o - start]
<1>1. CASE o > bufLen(d)
  <2>1. GotoOffSet(d, o) = d
        BY <1>1 DEF GotoOffSet
  <2>2. ~(o <= bufLen(d))
        BY <1>1, LinesFit DEF bufLen
  <2> QED BY <2>1, <2>2 DEF SameLine
<1>2. CASE ~(o > bufLen(d))
  <2>1. GotoOffSet(d, o) = r
        BY <1>2 DEF GotoOffSet
  <2>2. /\ d \in Editors /\ d.lenLines \in Seq(Nat) /\ n \in Nat /\ Len(d.lenLines) = n + 1
        /\ Cuts(d.buffer, T, n)
        BY DEF InLines, Editors
  <2>3. \A i \in 0 .. n + 1 : Total(d.lenLines, 0, i) = T[i] /\ T[i] \in Nat
    <3>1. 0 .. Len(d.lenLines) = 0 .. n + 1
          BY <2>2
    <3> QED BY <2>2, <3>1, StartsSum DEF Cuts
  <2>4. T[0] = 0
        BY <2>2 DEF Cuts
  <2> HIDE DEF T
  <2>5. S \subseteq 0 .. n /\ S # {}
        BY <2>2
  <2>6. y \in S
    <3> HIDE DEF S
    <3> QED BY <2>2, <2>5, MaxIsGreatest
  <2>7. y \in 0 .. n /\ Total(d.lenLines, 0, y) <= o
    <3> HIDE DEF y
    <3>1. 0 \in 0 .. n + 1
          BY <2>2
    <3>2. Total(d.lenLines, 0, 0) <= o
          BY <2>3, <2>4, <3>1
    <3> QED BY <2>2, <2>6, <3>2
  <2> HIDE DEF y
  <2>8. start = T[y] /\ start \in Nat /\ start <= o
    <3>1. y \in 0 .. n + 1
          BY <2>2, <2>7
    <3> QED BY <2>3, <2>7, <3>1
  <2> HIDE DEF start
  <2>9. o - start \in Nat /\ y \in Nat
        BY <2>2, <2>7, <2>8
  <2> DEFINE x == o - start
  <2> HIDE DEF x
  <2>10. r = [d EXCEPT !.y = y, !.curLine = start, !.x = x] /\ x \in Nat
        BY <2>9 DEF x
  <2> HIDE DEF r
  <2>11. r \in Editors
        BY <2>2, <2>8, <2>9, <2>10 DEF Editors
  <2>12. /\ r.buffer = d.buffer /\ r.lenLines = d.lenLines /\ r.totalLines = n
         /\ r.y = y /\ r.curLine = start /\ r.selStart = d.selStart /\ r.selEnd = d.selEnd
         /\ r.bufEdit = d.bufEdit /\ r.editing = d.editing /\ r.inEdit = d.inEdit
        BY <2>2, <2>10 DEF Editors
  <2>13. InLines(r)
        BY <2>2, <2>7, <2>8, <2>11, <2>12 DEF InLines, T
  <2> QED BY <2>1, <2>8, <2>12, <2>13 DEF SameLine
<1> QED BY <1>1, <1>2

LEMMA JumpLines ==
  ASSUME NEW f, InLines(f)
  PROVE  LET d == JumpLineStartSelection(f)
         IN  InLines(d) /\ SameLine(d, f) /\ d.selEnd = f.selEnd /\ d.buffer = f.buffer
<1> DEFINE at == IF f.selStart < f.curLine \/ f.selStart > f.curLine + f.lenLines[f.y + 1]
                 THEN GotoOffSet(f, f.selStart) ELSE f
           c == at.curLine
           d == [at EXCEPT !.selStart = c]
           o == f.selStart
<1>0. o \in Offsets /\ o \in Nat /\ f.curLine \in Nat /\ f.curLine <= bufLen(f) /\ bufLen(f) \in Nat
      BY Unsigneds, LinesFit DEF InLines, Editors, bufLen
<1>1. /\ InLines(at) /\ SameLine(at, f) /\ at.selEnd = f.selEnd /\ at.buffer = f.buffer
      BY <1>0, GotoOffSetLines DEF SameLine
<1>a. c <= o /\ c \in Nat
  <2>0. at.curLine \in Nat
        BY <1>1 DEF InLines, Editors
  <2>1. CASE ~(o < f.curLine \/ o > f.curLine + f.lenLines[f.y + 1])
    <3>1. c = f.curLine
          BY <2>1
    <3> HIDE DEF at, o
    <3> QED BY <1>0, <2>0, <2>1, <3>1
  <2>2. CASE (o < f.curLine \/ o > f.curLine + f.lenLines[f.y + 1]) /\ o <= bufLen(f)
    <3>1. at = GotoOffSet(f, o)
          BY <2>2
    <3>2. at.curLine <= o
          BY <1>0, <2>2, <3>1, GotoOffSetLines
    <3> QED BY <2>0, <3>2
  <2>3. CASE (o < f.curLine \/ o > f.curLine + f.lenLines[f.y + 1]) /\ ~(o <= bufLen(f))
    <3>1. at = GotoOffSet(f, o)
          BY <2>3
    <3>2. o > bufLen(f)
          BY <1>0, <2>3
    <3>3. at = f
          BY <3>1, <3>2 DEF GotoOffSet
    <3> HIDE DEF at, o
    <3> QED BY <1>0, <3>2, <3>3
  <2> QED BY <2>1, <2>2, <2>3
<1>2. JumpLineStartSelection(f) = d
      BY DEF JumpLineStartSelection
<1> HIDE DEF at
<1>3. at \in Editors /\ c \in Offsets
  <2>1. at \in Editors
        BY <1>1 DEF InLines
  <2> HIDE DEF c, o
  <2>2. c \in Offsets
        BY <1>0, <1>a, Unsigneds DEF Offsets
  <2> QED BY <2>1, <2>2
<1> HIDE DEF c, o
<1>4. d \in Editors
      BY <1>3 DEF Editors
<1>5. /\ d.selEnd = at.selEnd /\ d.buffer = at.buffer /\ d.lenLines = at.lenLines /\ d.totalLines = at.totalLines
      /\ d.y = at.y /\ d.curLine = at.curLine
      /\ d.bufEdit = at.bufEdit /\ d.editing = at.editing /\ d.inEdit = at.inEdit
      BY <1>3 DEF Editors
<1> HIDE DEF d
<1>6. InLines(d)
      BY <1>1, <1>4, <1>5, SameLines
<1> QED BY <1>1, <1>2, <1>5, <1>6 DEF SameLine

(* What is not read does not matter to the lines.                          *)
LEMMA KeptGood ==
  ASSUME NEW d, Good(d)
  PROVE  LET r == Kept(d)
         IN  /\ Good(r) /\ Len(r.buffer) = Len(d.buffer) /\ r.x = d.x
             /\ r.bufEdit = d.bufEdit /\ r.editing = d.editing
<1> DEFINE w == LineWidth(d)
           c == d.curLine
           unread(k) == d.editing /\ k > c /\ k <= c + w
           selects == use # "special"
           b == d.buffer
           fb == [k \in DOMAIN b |-> IF unread(k) THEN Blank ELSE b[k]]
           s1 == IF selects /\ ~d.editing THEN d.selStart ELSE 0
           s2 == IF selects /\ ~d.editing THEN d.selEnd ELSE 0
           s3 == IF selects THEN d.selNewStart ELSE 0
           s4 == IF selects THEN d.selNewEnd ELSE 0
           m1 == IF use = "mark" /\ ~(d.editing /\ d.markInLine >= 0) THEN d.mark ELSE 0
           m2 == IF use = "mark" THEN d.markInLine ELSE -1
           nl == IF use = "special" THEN d.nline ELSE -1
           r == [d EXCEPT !.buffer = fb, !.selStart = s1, !.selEnd = s2, !.selNewStart = s3,
                          !.selNewEnd = s4, !.mark = m1, !.markInLine = m2, !.nline = nl]
           n == d.totalLines
           T == Starts(d.lenLines)
<1>1. Kept(d) = r
      BY DEF Kept
<1>2. /\ d \in Editors /\ b \in Strings /\ n \in Nat /\ InLines(d) /\ Cuts(b, T, n)
      /\ d.y \in 0 .. n /\ c = T[d.y] /\ c \in Nat
      /\ s1 \in Offsets /\ s2 \in Offsets /\ s3 \in Offsets /\ s4 \in Offsets /\ m1 \in Offsets
      /\ m2 \in Int /\ nl \in Int
  <2>1. InLines(d) /\ 0 \in Offsets
        BY Unsigneds DEF Good
  <2> QED BY <2>1 DEF InLines, Editors
<1>3. /\ w \in Nat /\ \A p \in c + 1 .. c + w : b[p] # EOL
  <2>1. Wide(d, T, d.y, w)
        BY <1>2, WideLine DEF LineWidth
  <2> HIDE DEF w, T
  <2> QED BY <1>2, <2>1 DEF Wide
<1>4. Len(b) \in Nat /\ DOMAIN b = 1 .. Len(b) /\ \A k \in 1 .. Len(b) : b[k] \in Chars
      BY <1>2, LenProperties, ElementOfSeq DEF Strings
<1> HIDE DEF w, T, c, s1, s2, s3, s4, m1, m2, nl, b
<1>5. fb \in Strings /\ Len(fb) = Len(b)
      /\ \A k \in 1 .. Len(b) : fb[k] = IF unread(k) THEN Blank ELSE b[k]
  <2>1. Blank \in Chars
        BY DEF Chars
  <2>2. fb \in [1 .. Len(b) -> Chars]
        BY <1>4, <2>1
  <2>3. \A k \in 1 .. Len(b) : fb[k] = IF unread(k) THEN Blank ELSE b[k]
        BY <1>4
  <2> HIDE DEF fb
  <2> QED BY <1>4, <2>2, <2>3, IsASeq DEF Strings
<1> HIDE DEF fb
<1>6. Blank # EOL
      BY DEF Blank, EOL
<1>7. \A k \in 1 .. Len(b) : (fb[k] = EOL <=> b[k] = EOL)
  <2> HIDE DEF EOL, Blank
  <2> TAKE k \in 1 .. Len(b)
  <2>1. CASE ~unread(k)
        BY <1>5, <2>1
  <2>2. CASE unread(k)
    <3>1. k \in c + 1 .. c + w
          BY <1>2, <1>3, <1>4, <2>2
    <3> QED BY <1>3, <1>5, <1>6, <2>2, <3>1
  <2> QED BY <2>1, <2>2
<1>8. Cuts(fb, T, n)
  <2>1. \A k \in 1 .. n : T[k] \in 1 .. Len(b)
    <3> TAKE k \in 1 .. n
    <3>1. k \in 0 .. n + 1 /\ k - 1 \in 0 .. n + 1
          BY <1>2
    <3>2. T[k - 1] < T[k] /\ T[k - 1] \in Nat /\ T[k] \in Nat /\ T[k] <= Len(b)
          BY <1>2, <3>1, CutsGoUp DEF Cuts
    <3> QED BY <3>2, <1>4
  <2> QED BY <1>2, <1>5, <1>7, <2>1 DEF Cuts
<1> HIDE DEF r
<1>9. r = [d EXCEPT !.buffer = fb, !.selStart = s1, !.selEnd = s2, !.selNewStart = s3,
                    !.selNewEnd = s4, !.mark = m1, !.markInLine = m2, !.nline = nl]
      BY DEF r, fb, s1, s2, s3, s4, m1, m2, nl, w, c, b
<1>10. r \in Editors
      BY <1>2, <1>5, <1>9 DEF Editors
<1>11. /\ r.buffer = fb /\ r.lenLines = d.lenLines /\ r.totalLines = d.totalLines
       /\ r.y = d.y /\ r.curLine = d.curLine /\ r.editing = d.editing
       /\ r.bufEdit = d.bufEdit /\ r.inEdit = d.inEdit /\ r.x = d.x
       /\ r.restCharsInLine = d.restCharsInLine
      BY <1>2, <1>9 DEF Editors
<1>12. InLines(r)
      BY <1>2, <1>8, <1>10, <1>11 DEF InLines, T, n
<1>13. Good(r)
       BY <1>11, <1>12 DEF Good, Reaches
<1>14. Len(r.buffer) = Len(d.buffer) /\ r.x = d.x /\ r.bufEdit = d.bufEdit /\ r.editing = d.editing
       BY <1>5, <1>11 DEF b
<1> QED BY <1>1, <1>13, <1>14


-----------------------------------------------------------------------------
(* The lines one after the other.                                          *)
Chained(ls, f) ==
  /\ f \in [0 .. Len(ls) -> Strings] /\ f[0] = <<>>
  /\ \A k \in 1 .. Len(ls) : f[k] = f[k - 1] \o ls[k]

LEMMA JoinedThere ==
  ASSUME NEW ls \in Seq(Strings)
  PROVE  \E f : Chained(ls, f) /\ Joined(ls) = f[Len(ls)]
<1> DEFINE N == Len(ls)
           F(f) == [k \in 0 .. N |-> IF k = 0 THEN <<>> ELSE f[k - 1] \o ls[k]]
           G == [p \in (1 .. N) \X Strings |-> p[2] \o ls[p[1]]]
           text == CHOOSE f : f = F(f)
           e0 == <<>>
<1>1. N \in Nat /\ \A k \in 1 .. N : ls[k] \in Strings
      BY ElementOfSeq, LenProperties
<1>2. G \in [(1 .. N) \X Strings -> Strings]
  <2>1. ASSUME NEW s \in Strings, NEW t \in Strings PROVE s \o t \in Strings
        BY ConcatProperties DEF Strings
  <2>2. \A p \in (1 .. N) \X Strings : p[2] \in Strings /\ ls[p[1]] \in Strings
        BY <1>1
  <2>3. \A p \in (1 .. N) \X Strings : p[2] \o ls[p[1]] \in Strings
        BY <2>1, <2>2
  <2> QED BY <2>3
<1>a. e0 \in Strings
      BY NoText
<1> HIDE DEF N
<1>3. PICK f : Iterated(f, N, Strings, e0, G)
  <2> HIDE DEF G, e0
  <2> QED BY <1>1, <1>2, <1>a, Iterates
<1>4. f \in [0 .. N -> Strings] /\ f[0] = <<>>
      BY <1>3 DEF Iterated
<1>5. \A k \in 1 .. N : f[k] = f[k - 1] \o ls[k]
  <2> TAKE k \in 1 .. N
  <2>1. k - 1 \in 0 .. N
        BY <1>1
  <2>2. <<k, f[k - 1]>> \in (1 .. N) \X Strings
        BY <1>4, <2>1
  <2>3. G[<<k, f[k - 1]>>] = f[k - 1] \o ls[k]
        BY <2>2
  <2>4. f[k] = G[<<k, f[k - 1]>>]
        BY <1>3 DEF Iterated
  <2> QED BY <2>3, <2>4
<1>6. f = F(f)
  <2>1. \A k \in 0 .. N : f[k] = IF k = 0 THEN <<>> ELSE f[k - 1] \o ls[k]
        BY <1>1, <1>4, <1>5
  <2> QED BY <1>4, <2>1
<1>7. text = F(text)
  <2> HIDE DEF F
  <2> QED BY <1>6
<1>8. /\ text[0] = <<>>
      /\ \A k \in 1 .. N : text[k] = text[k - 1] \o ls[k]
  <2> DEFINE s == text
  <2>1. s = F(s)
        BY <1>7
  <2> HIDE DEF s
  <2>2. \A k \in 0 .. N : s[k] = IF k = 0 THEN <<>> ELSE s[k - 1] \o ls[k]
        BY <2>1
  <2>3. 0 \in 0 .. N /\ \A k \in 1 .. N : k \in 0 .. N /\ k # 0
        BY <1>1
  <2> QED BY <2>2, <2>3 DEF s
<1> DEFINE s == text
<1>9. Joined(ls) = s[N]
      BY DEF Joined, N
<1> HIDE DEF s
<1>10. \A k \in 0 .. N : s[k] = f[k]
  <2> DEFINE T == {k \in 0 .. N : s[k] = f[k]}
  <2>1. 0 \in T
        BY <1>1, <1>4, <1>8 DEF s
  <2>2. \A k \in 0 .. N - 1 : k \in T => k + 1 \in T
    <3> SUFFICES ASSUME NEW k \in 0 .. N - 1, s[k] = f[k] PROVE k + 1 \in T
        OBVIOUS
    <3> DEFINE j == k + 1
    <3>1. j \in 1 .. N /\ j - 1 = k /\ j \in 0 .. N
          BY <1>1
    <3> HIDE DEF j
    <3>2. s[j] = s[j - 1] \o ls[j] /\ f[j] = f[j - 1] \o ls[j]
          BY <1>5, <1>8, <3>1 DEF s
    <3>3. s[j] = f[j]
          BY <3>1, <3>2
    <3> QED BY <3>1, <3>3 DEF j
  <2> HIDE DEF T
  <2>3. \A k \in 0 .. N : k \in T
        BY <1>1, <2>1, <2>2, Turns
  <2> QED BY <2>3 DEF T
<1>11. Chained(ls, f)
      BY <1>4, <1>5 DEF Chained, N
<1>12. N \in 0 .. N
      BY <1>1
<1>13. Joined(ls) = f[N]
      BY <1>9, <1>10, <1>12
<1> QED BY <1>11, <1>13 DEF N

(* Lines, each but the last ended, make a text with these lines.           *)
LEMMA JoinedCuts ==
  ASSUME NEW n \in Nat, NEW ls \in Seq(Strings), Len(ls) = n + 1,
         \A k \in 1 .. n + 1 : LineLike(ls[k]),
         \A k \in 1 .. n : IsEnded(ls[k]),
         NEW lens \in Seq(Nat), Len(lens) = n + 1,
         \A k \in 1 .. n + 1 : lens[k] = Len(ls[k])
  PROVE  Cuts(Joined(ls), Starts(lens), n)
<1> DEFINE W == Starts(lens)
<1>1. PICK f : Chained(ls, f) /\ Joined(ls) = f[Len(ls)]
      BY JoinedThere
<1>2. /\ f \in [0 .. n + 1 -> Strings] /\ f[0] = <<>>
      /\ \A k \in 1 .. n + 1 : f[k] = f[k - 1] \o ls[k]
      BY <1>1 DEF Chained
<1>3. /\ W \in [0 .. n + 1 -> Nat] /\ W[0] = 0
      /\ \A k \in 1 .. n + 1 : W[k] = W[k - 1] + lens[k]
      BY StartsSum DEF Summed
<1> HIDE DEF W
<1> DEFINE Like(k) == /\ Len(f[k]) = W[k]
                      /\ \A i \in 1 .. n : i <= k => f[k][W[i]] = EOL
                      /\ \A p \in 1 .. Len(f[k]) : f[k][p] = EOL => \E i \in 1 .. k : p = W[i]
           S == {k \in 0 .. n + 1 : Like(k)}
<1>4. 0 \in S
  <2>1. Len(f[0]) = 0
        BY <1>2
  <2>2. \A i \in 1 .. n : ~(i <= 0)
        OBVIOUS
  <2>3. Like(0)
        BY <1>3, <2>1, <2>2
  <2> QED BY <2>3
<1>5. \A k \in 0 .. n : W[k] \in Nat /\ k \in 0 .. n + 1
      BY <1>3
<1>6. \A k \in 0 .. n : k \in S => k + 1 \in S
  <2> SUFFICES ASSUME NEW k \in 0 .. n, Like(k) PROVE k + 1 \in S
      OBVIOUS
  <2> DEFINE j == k + 1
             g == f[k]
             l == ls[j]
             h == f[j]
             a == W[k]
             L == Len(l)
  <2>0. n \in Nat /\ k \in Nat /\ j \in 1 .. n + 1 /\ j - 1 = k /\ j \in 0 .. n + 1 /\ k \in 0 .. n + 1
        /\ (j <= n => j \in 1 .. n)
        OBVIOUS
  <2> HIDE DEF j
  <2>1. h = g \o l /\ W[j] = a + lens[j] /\ lens[j] = L
        BY <1>2, <1>3, <2>0
  <2>2. /\ g \in Seq(Chars) /\ l \in Seq(Chars) /\ a \in Nat /\ L \in Nat
        /\ \A q \in 1 .. L : l[q] = EOL => q = L
        /\ (j <= n => L > 0 /\ l[L] = EOL)
    <3>1. g \in Seq(Chars) /\ a \in Nat
          BY <1>2, <1>3, <2>0 DEF Strings
    <3>2. l \in Seq(Chars) /\ \A q \in 1 .. L : l[q] = EOL => q = L
          BY <2>0 DEF LineLike, Strings
    <3>3. j <= n => L > 0 /\ l[L] = EOL
          BY <2>0 DEF IsEnded
    <3> QED BY <3>1, <3>2, <3>3, LenProperties
  <2>3. /\ Len(g) = a
        /\ \A i \in 1 .. n : i <= k => g[W[i]] = EOL
        /\ \A p \in 1 .. a : g[p] = EOL => \E i \in 1 .. k : p = W[i]
        OBVIOUS
  <2> HIDE DEF g, l, a, L
  <2>4. /\ Len(h) = a + L
        /\ \A q \in 1 .. a : h[q] = g[q]
        /\ \A q \in 1 .. L : h[a + q] = l[q]
    <3>1. /\ g \o l \in Seq(Chars) /\ Len(g \o l) = Len(g) + Len(l)
          /\ \A q \in 1 .. Len(g) : (g \o l)[q] = g[q]
          /\ \A q \in 1 .. Len(l) : (g \o l)[Len(g) + q] = l[q]
      <4>1. g \in Seq(Chars) /\ l \in Seq(Chars)
            BY <2>2
      <4> QED BY ONLY <4>1, Concat
    <3>2. Len(l) = L
          BY DEF L
    <3> HIDE DEF h
    <3> QED BY <2>1, <2>3, <3>1, <3>2
  <2> HIDE DEF h
  <2>5. Len(h) = W[j]
        BY <2>1, <2>4
  <2>6. ASSUME NEW i \in 1 .. n, i <= j
        PROVE  h[W[i]] = EOL
    <3> HIDE DEF EOL
    <3>1. CASE i <= k
      <4>1. W[i] \in 1 .. a
        <5>1. i - 1 \in 0 .. n + 1 /\ i \in 0 .. n + 1 /\ i \in 1 .. n + 1
              OBVIOUS
        <5>2. \A m \in 0 .. k - i : W[i + m] >= W[i]
          <6> DEFINE M == {m \in 0 .. k - i : W[i + m] >= W[i]}
                     K == k - i
          <6>1. K \in Nat
                BY <2>0, <3>1
          <6>2. 0 \in M
            <7>1. 0 \in 0 .. k - i /\ i + 0 = i
                  BY <6>1
            <7>2. W[i] \in Nat
                  BY <1>3, <5>1
            <7> QED BY <7>1, <7>2
          <6>3. \A m \in 0 .. K - 1 : m \in M => m + 1 \in M
            <7> SUFFICES ASSUME NEW m \in 0 .. K - 1, W[i + m] >= W[i] PROVE m + 1 \in M
                OBVIOUS
            <7> DEFINE q == i + (m + 1)
                       r == i + m
            <7>1. q \in 1 .. n + 1 /\ q - 1 = r /\ m + 1 \in 0 .. k - i /\ r \in 0 .. n + 1 /\ q \in 0 .. n + 1
                  BY <2>0, <6>1
            <7> HIDE DEF q, r
            <7>2. W[q] = W[q - 1] + lens[q] /\ lens[q] \in Nat
                  BY <1>3, <7>1, ElementOfSeq
            <7>3. W[q] \in Nat /\ W[r] \in Nat /\ W[i] \in Nat /\ W[r] >= W[i]
                  BY <1>3, <5>1, <7>1 DEF r
            <7> DEFINE u == W[q]
                       v == W[r]
                       w == W[i]
                       x == lens[q]
            <7>a. u = v + x /\ x \in Nat /\ v \in Nat /\ w \in Nat /\ v >= w
                  BY <7>1, <7>2, <7>3
            <7> HIDE DEF u, v, w, x
            <7>b. u >= w
                  BY ONLY <7>a
            <7>4. W[q] >= W[i]
                  BY <7>b DEF u, w
            <7> QED BY <7>1, <7>4 DEF q
          <6> HIDE DEF M
          <6>4. \A m \in 0 .. K : m \in M
                BY <6>1, <6>2, <6>3, Turns
          <6> QED BY <6>4 DEF M
        <5>3. W[k] >= W[i]
          <6>1. k - i \in 0 .. k - i /\ i + (k - i) = k
                BY <2>0, <3>1
          <6> QED BY <5>2, <6>1
        <5>4. W[i] = W[i - 1] + Len(ls[i]) /\ Len(ls[i]) > 0 /\ Len(ls[i]) \in Nat
          <6>1. IsEnded(ls[i]) /\ LineLike(ls[i])
                BY <5>1
          <6>2. Len(ls[i]) > 0 /\ Len(ls[i]) \in Nat
                BY <6>1, LenProperties DEF IsEnded, LineLike, Strings
          <6> QED BY <1>3, <5>1, <6>2
        <5>5. W[i] \in Nat /\ W[i - 1] \in Nat
              BY <1>3, <5>1
        <5> QED BY <5>3, <5>4, <5>5, <2>2 DEF a
      <4> QED BY <2>3, <2>4, <3>1, <4>1
    <3>2. CASE i = j
      <4>1. L > 0 /\ l[L] = EOL /\ W[i] = a + L /\ L \in 1 .. L
            BY <2>0, <2>1, <2>2, <3>2
      <4> QED BY <2>4, <4>1
    <3> QED BY <2>0, <2>6, <3>1, <3>2
  <2>7. ASSUME NEW p \in 1 .. Len(h), h[p] = EOL
        PROVE  \E i \in 1 .. j : p = W[i]
    <3> HIDE DEF EOL
    <3>1. CASE p <= a
      <4>1. p \in 1 .. a
            BY <2>2, <3>1
      <4>2. PICK i \in 1 .. k : p = W[i]
            BY <2>3, <2>4, <2>7, <4>1
      <4>3. i \in 1 .. j
            BY <2>0
      <4> QED BY <4>2, <4>3
    <3>2. CASE ~(p <= a)
      <4> DEFINE q == p - a
      <4>1. q \in 1 .. L /\ a + q = p
            BY <2>2, <2>4, <3>2
      <4> HIDE DEF q
      <4>2. l[q] = EOL
            BY <2>4, <2>7, <4>1
      <4>3. q = L
            BY <2>2, <4>1, <4>2
      <4>4. p = W[j] /\ j \in 1 .. j
            BY <2>0, <2>1, <4>1, <4>3
      <4> QED BY <4>4
    <3> QED BY <3>1, <3>2
  <2>8. Like(j)
        BY <2>5, <2>6, <2>7 DEF h
  <2>9. j \in S
        BY <2>0, <2>8
  <2> QED BY <2>9 DEF j
<1>7. n + 1 \in S
  <2> DEFINE N == n + 1
  <2>1. N \in Nat /\ N - 1 = n /\ N \in 0 .. N
        OBVIOUS
  <2>2. \A k \in 0 .. N - 1 : k \in S => k + 1 \in S
        BY <1>6, <2>1
  <2> HIDE DEF S, N
  <2>3. \A k \in 0 .. N : k \in S
        BY <1>4, <2>1, <2>2, Turns
  <2>4. N \in S
        BY <2>1, <2>3
  <2> QED BY <2>4 DEF N
<1> DEFINE b == Joined(ls)
<1>8. b = f[n + 1] /\ b \in Strings
  <2>1. n + 1 \in 0 .. n + 1
        OBVIOUS
  <2> QED BY <1>1, <1>2, <2>1
<1>9. Like(n + 1)
      BY <1>7
<1> HIDE DEF b
<1>10. /\ Len(b) = W[n + 1]
       /\ \A i \in 1 .. n : b[W[i]] = EOL
       /\ \A p \in 1 .. Len(b) : b[p] = EOL => \E i \in 1 .. n + 1 : p = W[i]
  <2>1. \A i \in 1 .. n : i <= n + 1
        OBVIOUS
  <2> QED BY <1>8, <1>9, <2>1
<1>11. W[n] <= W[n + 1]
  <2> DEFINE j == n + 1
  <2>1. j \in 1 .. n + 1 /\ j - 1 = n /\ j \in 0 .. n + 1 /\ n \in 0 .. n + 1
        OBVIOUS
  <2> HIDE DEF j
  <2>2. W[j] = W[n] + lens[j] /\ lens[j] \in Nat
        BY <1>3, <2>1, ElementOfSeq
  <2>3. W[j] \in Nat /\ W[n] \in Nat
        BY <1>3, <2>1
  <2>4. W[n] <= W[j]
        BY <2>2, <2>3
  <2> QED BY <2>4 DEF j
<1>12. \A k \in 1 .. n : W[k - 1] < W[k]
  <2> TAKE k \in 1 .. n
  <2>1. k \in 1 .. n + 1 /\ k \in 0 .. n + 1 /\ k - 1 \in 0 .. n + 1
        OBVIOUS
  <2>2. Len(ls[k]) > 0 /\ Len(ls[k]) \in Nat
    <3>1. IsEnded(ls[k]) /\ LineLike(ls[k])
          BY <2>1
    <3> QED BY <3>1, LenProperties DEF IsEnded, LineLike, Strings
  <2>3. W[k] = W[k - 1] + Len(ls[k]) /\ W[k] \in Nat /\ W[k - 1] \in Nat
        BY <1>3, <2>1
  <2> QED BY <2>2, <2>3
<1>13. Cuts(b, W, n)
      BY <1>3, <1>8, <1>10, <1>11, <1>12 DEF Cuts
<1> QED BY <1>13 DEF b, W


(* Other lines in and behind the cursor's.                                 *)
LEMMA Relined ==
  ASSUME NEW d, InLines(d),
         NEW ls \in Seq(Strings), Len(ls) = d.totalLines + 1,
         \A k \in 1 .. d.totalLines + 1 : LineLike(ls[k]),
         \A k \in 1 .. d.totalLines : IsEnded(ls[k]),
         NEW lens \in Seq(Nat), Len(lens) = d.totalLines + 1,
         \A k \in 1 .. d.totalLines + 1 : lens[k] = Len(ls[k]),
         \A k \in 1 .. d.y : lens[k] = d.lenLines[k],
         NEW s \in Offsets, NEW mk \in Offsets
  PROVE  LET r == [d EXCEPT !.buffer = Joined(ls), !.lenLines = lens, !.selEnd = s, !.mark = mk]
         IN  InLines(r) /\ SameLine(r, d)
<1> DEFINE n == d.totalLines
           b == Joined(ls)
           T == Starts(d.lenLines)
           W == Starts(lens)
           y == d.y
           r == [d EXCEPT !.buffer = b, !.lenLines = lens, !.selEnd = s, !.mark = mk]
<1>1. /\ d \in Editors /\ n \in Nat /\ d.lenLines \in Seq(Nat) /\ Len(d.lenLines) = n + 1
      /\ y \in Nat /\ y <= n /\ d.curLine = T[y]
      BY DEF InLines, Editors
<1>2. Cuts(b, W, n)
      BY <1>1, JoinedCuts
<1>3. W[y] = T[y]
  <2> DEFINE S == {k \in 0 .. y : W[k] = T[k]}
  <2>1. /\ T[0] = 0 /\ \A k \in 1 .. n + 1 : T[k] = T[k - 1] + d.lenLines[k]
        BY <1>1, StartsSum DEF Summed
  <2>2. /\ W[0] = 0 /\ \A k \in 1 .. n + 1 : W[k] = W[k - 1] + lens[k]
        BY StartsSum DEF Summed
  <2> HIDE DEF T, W
  <2>3. 0 \in S
        BY <1>1, <2>1, <2>2
  <2>4. \A k \in 0 .. y - 1 : k \in S => k + 1 \in S
    <3> SUFFICES ASSUME NEW k \in 0 .. y - 1, W[k] = T[k] PROVE k + 1 \in S
        OBVIOUS
    <3> DEFINE j == k + 1
    <3>1. j \in 1 .. y /\ j \in 1 .. n + 1 /\ j - 1 = k /\ j \in 0 .. y
          BY <1>1
    <3> HIDE DEF j
    <3>2. W[j] = W[k] + lens[j] /\ T[j] = T[k] + d.lenLines[j] /\ lens[j] = d.lenLines[j]
          BY <2>1, <2>2, <3>1
    <3>3. W[j] = T[j]
          BY <3>2
    <3> QED BY <3>1, <3>3 DEF j
  <2> HIDE DEF S
  <2>5. \A k \in 0 .. y : k \in S
        BY <1>1, <2>3, <2>4, Turns
  <2>6. y \in 0 .. y
        BY <1>1
  <2> QED BY <2>5, <2>6 DEF S
<1>4. b \in Strings
      BY <1>2 DEF Cuts
<1> HIDE DEF b
<1>5. r \in Editors
      BY <1>1, <1>4 DEF Editors
<1>6. /\ r.buffer = b /\ r.lenLines = lens /\ r.totalLines = n /\ r.y = y /\ r.curLine = d.curLine
      /\ r.bufEdit = d.bufEdit /\ r.editing = d.editing /\ r.inEdit = d.inEdit
      BY <1>1 DEF Editors
<1> HIDE DEF r
<1>7. InLines(r)
      BY <1>1, <1>2, <1>3, <1>5, <1>6 DEF InLines
<1> QED BY <1>6, <1>7 DEF SameLine, r, b

(* The lines of the block.                                                 *)
LEMMA BlockIs ==
  ASSUME NEW d, InLines(d)
  PROVE  /\ BlockLines(d) \subseteq d.y .. d.totalLines /\ d.y \in Nat /\ d.totalLines \in Nat
         /\ IsFiniteSet(BlockLines(d)) /\ Cardinality(BlockLines(d)) \in Nat
         /\ \A o : LineOf(d, o) # {} => Max(LineOf(d, o)) \in BlockLines(d)
<1>1. d.y \in Nat /\ d.totalLines \in Nat
      BY DEF InLines, Editors
<1>2. BlockLines(d) \subseteq d.y .. d.totalLines
      BY DEF BlockLines
<1>3. IsFiniteSet(d.y .. d.totalLines)
  <2>1. d.y \in Int /\ d.totalLines \in Int
        BY <1>1
  <2> QED BY <2>1, FS_Interval
<1>4. IsFiniteSet(BlockLines(d)) /\ Cardinality(BlockLines(d)) \in Nat
  <2>1. BlockLines(d) \in SUBSET (d.y .. d.totalLines)
        BY <1>2
  <2>2. IsFiniteSet(BlockLines(d))
        BY ONLY <1>3, <2>1, FS_Subset
  <2> QED BY <2>2, FS_CardinalityType
<1>5. ASSUME NEW o, LineOf(d, o) # {}
      PROVE  Max(LineOf(d, o)) \in BlockLines(d)
  <2> DEFINE S == LineOf(d, o)
  <2>1. S \subseteq BlockLines(d)
        BY DEF LineOf
  <2>2. S \subseteq 0 .. d.totalLines
        BY <1>1, <1>2, <2>1
  <2> HIDE DEF S
  <2>3. Max(S) \in S
        BY <1>1, <1>5, <2>2, MaxIsGreatest DEF S
  <2> QED BY <2>1, <2>3 DEF S
<1> QED BY <1>1, <1>2, <1>4, <1>5

LEMMA IndentBlockLines ==
  ASSUME NEW f, InLines(f), f.selEnd + Len(f.buffer) + 1 \in Offsets
  PROVE  LET r == IndentBlock(f) IN InLines(r) /\ SameLine(r, f)
<1> DEFINE d == JumpLineStartSelection(f)
           B == BlockLines(d)
           before(k) == Cardinality({j \in B : j <= k})
           n == d.totalLines
           ls == [k \in DOMAIN AllLines(d) |->
                   (IF k - 1 \in B THEN <<Blank>> ELSE <<>>) \o LineAt(d, k - 1)]
           lens == [k \in DOMAIN d.lenLines |-> d.lenLines[k] + (IF k - 1 \in B THEN 1 ELSE 0)]
           s == d.selEnd + Cardinality(B)
           mk == IF LineOf(d, d.mark) = {} THEN d.mark ELSE U(d.mark + before(Max(LineOf(d, d.mark))))
           r == [d EXCEPT !.buffer = Joined(ls), !.lenLines = lens, !.selEnd = s, !.mark = mk]
<1>1. IndentBlock(f) = r
      BY DEF IndentBlock
<1>2. InLines(d) /\ SameLine(d, f) /\ d.selEnd = f.selEnd /\ d.buffer = f.buffer
      BY JumpLines
<1> HIDE DEF d
<1>3. /\ d \in Editors /\ n \in Nat /\ d.lenLines \in Seq(Nat) /\ Len(d.lenLines) = n + 1
      /\ d.y \in Nat /\ d.y <= n /\ d.selEnd \in Nat /\ d.mark \in Offsets /\ d.mark \in Nat
      BY <1>2, Unsigneds DEF InLines, Editors
<1>4. /\ B \subseteq d.y .. n /\ IsFiniteSet(B) /\ Cardinality(B) \in Nat
      BY <1>2, BlockIs
<1> HIDE DEF B
<1>5. DOMAIN AllLines(d) = 1 .. n + 1 /\ DOMAIN d.lenLines = 1 .. n + 1
  <2>1. DOMAIN AllLines(d) = 1 .. n + 1
        BY DEF AllLines
  <2> QED BY <1>3, <2>1, LenProperties
<1>6. s \in Offsets
  <2> DEFINE c == Cardinality(B)
             k == Len(d.buffer)
             q == d.selEnd
  <2>1. c <= n + 1
    <3>1. IsFiniteSet(0 .. n) /\ Cardinality(0 .. n) = n + 1
      <4>1. 0 \in Int /\ n \in Int /\ n >= 0 /\ n - 0 + 1 = n + 1
            BY <1>3
      <4> HIDE DEF n
      <4>2. /\ IsFiniteSet(0 .. n)
            /\ Cardinality(0 .. n) = IF 0 > n THEN 0 ELSE n - 0 + 1
            BY ONLY <4>1, FS_Interval
      <4>3. ~(0 > n)
            BY <4>1
      <4> QED BY <4>1, <4>2, <4>3
    <3>2. B \in SUBSET (0 .. n)
          BY <1>3, <1>4
    <3>3. Cardinality(B) <= Cardinality(0 .. n)
          BY ONLY <3>1, <3>2, FS_Subset
    <3> QED BY <3>1, <3>3
  <2>2. n <= k /\ k \in Nat
        BY <1>2, LinesFit
  <2>3. q + k + 1 \in Offsets /\ q \in Nat
        BY <1>2, <1>3
  <2>4. c \in Nat
        BY <1>4
  <2> HIDE DEF c, k, q
  <2>5. q + c \in Nat /\ q + c <= q + k + 1
        BY <1>3, <2>1, <2>2, <2>3, <2>4
  <2>6. q + c \in Offsets
        BY ONLY <2>3, <2>5, Unsigneds DEF Offsets
  <2> QED BY <2>6 DEF q, c
<1>7. mk \in Offsets
  <2> DEFINE m == Max(LineOf(d, d.mark))
             D == {j \in B : j <= m}
  <2>1. D \in SUBSET B
        OBVIOUS
  <2> HIDE DEF D
  <2>2. IsFiniteSet(D)
        BY <1>4, <2>1, FS_Subset
  <2>3. Cardinality(D) \in Nat
        BY <2>2, FS_CardinalityType
  <2>4. d.mark + Cardinality(D) \in Int
        BY <1>3, <2>3
  <2>5. U(d.mark + Cardinality(D)) \in Offsets
        BY ONLY <2>4, Unsigneds
  <2> QED BY <1>3, <2>5 DEF D
<1>8. ASSUME NEW k \in 1 .. n + 1
      PROVE  /\ LineLike(ls[k]) /\ lens[k] = Len(ls[k]) /\ lens[k] \in Nat
             /\ (k <= n => IsEnded(ls[k])) /\ (k <= d.y => lens[k] = d.lenLines[k])
  <2> DEFINE i == k - 1
             l == LineAt(d, i)
             head == IF i \in B THEN <<Blank>> ELSE <<>>
             hl == IF i \in B THEN 1 ELSE 0
             L == Len(l)
             g == head \o l
             H == Len(head)
  <2>1. i \in 0 .. n /\ i + 1 = k /\ (k <= n => i < n) /\ (k <= d.y => i \notin B)
        BY <1>3, <1>4
  <2>2. ls[k] = g /\ lens[k] = d.lenLines[k] + hl
        BY <1>5
  <2> HIDE DEF i
  <2>3. LineLike(l) /\ L = d.lenLines[k] /\ L \in Nat /\ (k <= n => IsEnded(l))
        BY <1>2, <2>1, LineAtIs
  <2>4. head \in Seq(Chars) /\ H = hl /\ hl \in Nat /\ \A q \in 1 .. H : head[q] # EOL
    <3>1. CASE i \in B
      <4>1. Blank \in Chars /\ Blank # EOL
            BY DEF Chars, Blank, EOL
      <4>2. <<Blank>> \in Strings /\ Len(<<Blank>>) = 1 /\ NoEnds(<<Blank>>)
            BY <4>1, OneChar
      <4> QED BY <3>1, <4>2 DEF NoEnds, Strings
    <3>2. CASE i \notin B
          BY <3>2, NoText DEF Strings
    <3> QED BY <3>1, <3>2
  <2>5. l \in Seq(Chars) /\ \A q \in 1 .. L : l[q] = EOL => q = L
        BY <2>3 DEF LineLike, Strings
  <2> HIDE DEF head, l, hl, EOL, ls, lens
  <2>6. /\ g \in Seq(Chars) /\ Len(g) = H + L
        /\ \A q \in 1 .. H : g[q] = head[q]
        /\ \A q \in 1 .. L : g[H + q] = l[q]
    <3>1. head \in Seq(Chars) /\ l \in Seq(Chars)
          BY <2>4, <2>5
    <3> QED BY ONLY <3>1, Concat
  <2> HIDE DEF g, L, H
  <2>7. ASSUME NEW q \in 1 .. Len(g), g[q] = EOL
        PROVE  q = Len(g)
    <3>1. ~(q <= H)
      <4> SUFFICES ASSUME q <= H PROVE FALSE
          OBVIOUS
      <4>1. q \in 1 .. H
            BY <2>4
      <4> QED BY <2>4, <2>6, <2>7, <4>1
    <3> DEFINE p == q - H
    <3>2. p \in 1 .. L /\ H + p = q
          BY <2>3, <2>4, <2>6, <3>1
    <3> HIDE DEF p
    <3>3. l[p] = EOL
          BY <2>6, <2>7, <3>2
    <3> QED BY <2>3, <2>4, <2>5, <2>6, <3>2, <3>3
  <2>8. k <= n => Len(g) > 0 /\ g[Len(g)] = EOL
    <3> SUFFICES ASSUME k <= n PROVE Len(g) > 0 /\ g[Len(g)] = EOL
        OBVIOUS
    <3>1. L > 0 /\ l[L] = EOL /\ L \in 1 .. L
          BY <2>3 DEF IsEnded, L
    <3>2. g[H + L] = EOL
          BY <2>6, <3>1
    <3> QED BY <2>3, <2>4, <2>6, <3>1, <3>2
  <2>9. lens[k] = Len(g) /\ lens[k] \in Nat
        BY <2>2, <2>3, <2>4, <2>6
  <2>10. k <= d.y => lens[k] = d.lenLines[k]
        BY <2>1, <2>2, <2>3 DEF hl
  <2> QED BY <2>2, <2>6, <2>7, <2>8, <2>9, <2>10 DEF LineLike, IsEnded, Strings
<1>9. ls \in Seq(Strings) /\ Len(ls) = n + 1 /\ lens \in Seq(Nat) /\ Len(lens) = n + 1
  <2>1. DOMAIN ls = 1 .. n + 1 /\ DOMAIN lens = 1 .. n + 1
        BY <1>5
  <2>2. ls = [k \in 1 .. n + 1 |-> ls[k]] /\ lens = [k \in 1 .. n + 1 |-> lens[k]]
        BY <1>5
  <2> HIDE DEF ls, lens
  <2>3. ls \in [1 .. n + 1 -> Strings] /\ lens \in [1 .. n + 1 -> Nat]
        BY <1>8, <2>2 DEF LineLike
  <2>4. n + 1 \in Nat
        BY <1>3
  <2> QED BY <2>3, <2>4, IsASeq
<1> HIDE DEF ls, lens, s, mk
<1>10. InLines(r) /\ SameLine(r, d)
  <2>1. /\ \A k \in 1 .. n + 1 : LineLike(ls[k])
        /\ \A k \in 1 .. n : IsEnded(ls[k])
        /\ \A k \in 1 .. n + 1 : lens[k] = Len(ls[k])
        /\ \A k \in 1 .. d.y : lens[k] = d.lenLines[k]
    <3>1. \A k \in 1 .. n : k \in 1 .. n + 1 /\ k <= n
          BY <1>3
    <3>2. \A k \in 1 .. d.y : k \in 1 .. n + 1 /\ k <= d.y
          BY <1>3
    <3> QED BY <1>8, <3>1, <3>2
  <2> QED BY <1>2, <1>6, <1>7, <1>9, <2>1, Relined
<1> HIDE DEF r
<1> QED BY <1>1, <1>2, <1>10 DEF SameLine


(* What UnIndentBlock() takes of a line is not its end.                    *)
LEMMA UnIndentable ==
  ASSUME NEW d, InLines(d), NEW k \in 0 .. d.totalLines
  PROVE  /\ IsUnIndentable(d, k) \in 0 .. Len(LineAt(d, k))
         /\ k < d.totalLines => IsUnIndentable(d, k) < Len(LineAt(d, k))
<1> DEFINE l == LineAt(d, k)
           L == Len(l)
           D == {j - 1 : j \in {i \in DOMAIN l : l[i] # Blank}}
           S == {Amount, L} \cup D
           m == Min(S)
<1>1. LineLike(l) /\ (k < d.totalLines => IsEnded(l))
      BY LineAtIs
<1>2. m = IsUnIndentable(d, k)
      BY DEF IsUnIndentable
<1> HIDE DEF l
<1>3. L \in Nat /\ DOMAIN l = 1 .. L
      BY <1>1, LenProperties DEF LineLike, Strings
<1>4. S \subseteq Nat /\ L \in S
  <2>1. Amount \in Nat
        BY TextAssumption
  <2>2. D \subseteq Nat
        BY <1>3
  <2> QED BY <1>3, <2>1, <2>2
<1>5. m \in S /\ \A j \in S : m <= j
  <2>1. S # {}
        BY <1>4
  <2> HIDE DEF S
  <2> QED BY <1>4, <2>1, MinIsLeast
<1>6. k < d.totalLines => L - 1 \in S /\ L > 0
  <2> SUFFICES ASSUME k < d.totalLines PROVE L - 1 \in S /\ L > 0
      OBVIOUS
  <2>1. L > 0 /\ l[L] = EOL
        BY <1>1 DEF IsEnded
  <2>2. Blank # EOL
        BY DEF Blank, EOL
  <2> HIDE DEF EOL, Blank
  <2>3. L \in DOMAIN l /\ l[L] # Blank
        BY <1>3, <2>1, <2>2
  <2> QED BY <2>1, <2>3
<1> HIDE DEF m, S, L
<1>7. m \in Nat /\ m <= L
      BY <1>4, <1>5
<1>8. k < d.totalLines => m < L
      BY <1>3, <1>5, <1>6, <1>7
<1> QED BY <1>2, <1>3, <1>7, <1>8 DEF L, l

LEMMA UnIndentBlockLines ==
  ASSUME NEW f, InLines(f)
  PROVE  LET r == UnIndentBlock(f) IN InLines(r) /\ SameLine(r, f)
<1> DEFINE d == JumpLineStartSelection(f)
           B == BlockLines(d)
           n == d.totalLines
           eat(k) == IF k \in B THEN IsUnIndentable(d, k) ELSE 0
           eats == [j \in DOMAIN d.lenLines |-> eat(j - 1)]
           eated(k) == Total(eats, 0, k)
           lineOf == Max(LineOf(d, d.mark))
           ls == [k \in DOMAIN AllLines(d) |->
                   Part(LineAt(d, k - 1), eat(k - 1), d.lenLines[k])]
           lens == [k \in DOMAIN d.lenLines |-> d.lenLines[k] - eat(k - 1)]
           s == U(d.selEnd - eated(n + 1))
           mk == IF LineOf(d, d.mark) = {} THEN d.mark
                 ELSE U(d.mark - (eated(lineOf) + (IF d.mark > LineStart(d, lineOf)
                                                   THEN eat(lineOf) ELSE 0)))
           r == [d EXCEPT !.buffer = Joined(ls), !.lenLines = lens, !.selEnd = s, !.mark = mk]
<1>1. UnIndentBlock(f) = r
      BY DEF UnIndentBlock
<1>2. InLines(d) /\ SameLine(d, f)
      BY JumpLines
<1> HIDE DEF d
<1>3. /\ d \in Editors /\ n \in Nat /\ d.lenLines \in Seq(Nat) /\ Len(d.lenLines) = n + 1
      /\ d.y \in Nat /\ d.y <= n /\ d.selEnd \in Nat /\ d.mark \in Offsets /\ d.mark \in Nat
      BY <1>2, Unsigneds DEF InLines, Editors
<1>4. /\ B \subseteq d.y .. n
      /\ (LineOf(d, d.mark) # {} => lineOf \in B)
      BY <1>2, BlockIs
<1>5. DOMAIN AllLines(d) = 1 .. n + 1 /\ DOMAIN d.lenLines = 1 .. n + 1
  <2>1. DOMAIN AllLines(d) = 1 .. n + 1
        BY DEF AllLines
  <2> QED BY <1>3, <2>1, LenProperties
<1>6. ASSUME NEW k \in 0 .. n
      PROVE  /\ eat(k) \in Nat /\ eat(k) <= Len(LineAt(d, k)) /\ Len(LineAt(d, k)) \in Nat
             /\ (k < n => eat(k) < Len(LineAt(d, k)))
             /\ (k < d.y => eat(k) = 0)
  <2> DEFINE L == Len(LineAt(d, k))
             m == IsUnIndentable(d, k)
  <2>1. m \in 0 .. L /\ (k < n => m < L)
        BY <1>2, UnIndentable
  <2>2. L \in Nat /\ (k < n => L > 0)
        BY <1>2, LineAtIs DEF IsEnded
  <2>3. k < d.y => k \notin B
        BY <1>3, <1>4
  <2> HIDE DEF L, m, B
  <2>4. eat(k) = IF k \in B THEN m ELSE 0
        BY DEF m
  <2>5. eat(k) \in Nat /\ eat(k) <= L /\ (k < n => eat(k) < L) /\ (k < d.y => eat(k) = 0)
        BY <2>1, <2>2, <2>3, <2>4
  <2> QED BY <2>2, <2>5 DEF L
<1> HIDE DEF B
<1>7. eats \in Seq(Nat) /\ Len(eats) = n + 1
  <2>1. eats = [k \in 1 .. n + 1 |-> eat(k - 1)]
        BY <1>5
  <2>2. \A k \in 1 .. n + 1 : eat(k - 1) \in Nat
    <3> TAKE k \in 1 .. n + 1
    <3>1. k - 1 \in 0 .. n
          BY <1>3
    <3> HIDE DEF eat
    <3> QED BY <1>6, <3>1
  <2> HIDE DEF eats, eat
  <2>3. eats \in [1 .. n + 1 -> Nat]
        BY <2>1, <2>2
  <2>4. n + 1 \in Nat
        BY <1>3
  <2> QED BY <2>3, <2>4, IsASeq
<1> HIDE DEF eats
<1>8. \A k \in 0 .. n + 1 : eated(k) \in Int
  <2>1. 0 .. Len(eats) = 0 .. n + 1
        BY <1>7
  <2>2. \A k \in 0 .. n + 1 : Total(eats, 0, k) = Starts(eats)[k]
        BY <1>7, <2>1, StartsSum
  <2>3. Starts(eats) \in [0 .. n + 1 -> Nat]
        BY <1>7, StartsSum DEF Summed
  <2> QED BY <2>2, <2>3
<1> HIDE DEF eated
<1>9. s \in Offsets
  <2>1. n + 1 \in 0 .. n + 1
        BY <1>3
  <2>2. d.selEnd - eated(n + 1) \in Int
        BY <1>3, <1>8, <2>1
  <2> QED BY ONLY <2>2, Unsigneds
<1>10. mk \in Offsets
  <2>1. CASE LineOf(d, d.mark) = {}
        BY <1>3, <2>1
  <2>2. CASE LineOf(d, d.mark) # {}
    <3>a. lineOf \in B /\ B \subseteq d.y .. n
          BY <1>4, <2>2
    <3> HIDE DEF lineOf
    <3>1. lineOf \in 0 .. n /\ lineOf \in 0 .. n + 1
      <4>1. lineOf \in d.y .. n
            BY <3>a
      <4> QED BY <1>3, <4>1
    <3> DEFINE m == IF d.mark > LineStart(d, lineOf) THEN eat(lineOf) ELSE 0
    <3>2. m \in Int
      <4> HIDE DEF eat
      <4> QED BY <1>6, <3>1
    <3> HIDE DEF m
    <3>3. d.mark - (eated(lineOf) + m) \in Int
          BY <1>3, <1>8, <3>1, <3>2
    <3>4. U(d.mark - (eated(lineOf) + m)) \in Offsets
          BY ONLY <3>3, Unsigneds
    <3>5. mk = U(d.mark - (eated(lineOf) + m))
          BY <2>2 DEF m
    <3> QED BY <3>4, <3>5
  <2> QED BY <2>1, <2>2
<1> HIDE DEF s, mk
<1>11. ASSUME NEW k \in 1 .. n + 1
      PROVE  /\ LineLike(ls[k]) /\ lens[k] = Len(ls[k]) /\ lens[k] \in Nat
             /\ (k <= n => IsEnded(ls[k])) /\ (k <= d.y => lens[k] = d.lenLines[k])
  <2> DEFINE i == k - 1
             l == LineAt(d, i)
             c == eat(i)
             L == Len(l)
             g == Part(l, c, L)
  <2>1. i \in 0 .. n /\ i + 1 = k /\ (k <= n => i < n) /\ (k <= d.y => i < d.y)
        BY <1>3
  <2> HIDE DEF i
  <2>2. /\ LineLike(l) /\ L = d.lenLines[k] /\ L \in Nat /\ (k <= n => IsEnded(l))
        BY <1>2, <2>1, LineAtIs
  <2>3. ls[k] = g /\ lens[k] = L - c
        BY <1>5, <2>2 DEF i
  <2>4. c \in Nat /\ c <= L /\ (k <= n => c < L) /\ (k <= d.y => c = 0)
    <3> HIDE DEF eat
    <3> QED BY <1>6, <2>1
  <2> HIDE DEF c, l, EOL, ls, lens
  <2>5. /\ g \in Seq(Chars) /\ Len(g) = L - c /\ \A q \in 1 .. L - c : g[q] = l[c + q]
    <3>1. l \in Seq(Chars) /\ c \in 0 .. Len(l) /\ L \in c .. Len(l)
          BY <2>2, <2>4 DEF LineLike, Strings
    <3> QED BY <3>1, PartOf
  <2>6. \A q \in 1 .. L : l[q] = EOL => q = L
        BY <2>2 DEF LineLike
  <2>7. k <= n => l[L] = EOL
        BY <2>2 DEF IsEnded
  <2> HIDE DEF g, L
  <2>8. ASSUME NEW q \in 1 .. Len(g), g[q] = EOL
        PROVE  q = Len(g)
    <3>1. c + q \in 1 .. L /\ q \in 1 .. L - c
          BY <2>2, <2>4, <2>5
    <3>2. c + q = L
          BY <2>5, <2>6, <2>8, <3>1
    <3> QED BY <2>2, <2>4, <2>5, <3>2
  <2>9. k <= n => Len(g) > 0 /\ g[Len(g)] = EOL
    <3> SUFFICES ASSUME k <= n PROVE Len(g) > 0 /\ g[Len(g)] = EOL
        OBVIOUS
    <3> DEFINE q == L - c
    <3>1. q \in 1 .. L - c /\ c + q = L /\ q > 0
          BY <2>2, <2>4
    <3> HIDE DEF q
    <3>2. g[q] = EOL
          BY <2>5, <2>7, <3>1
    <3> QED BY <2>5, <3>1, <3>2 DEF q
  <2>10. lens[k] = Len(g) /\ lens[k] \in Nat /\ (k <= d.y => lens[k] = d.lenLines[k])
        BY <2>2, <2>3, <2>4, <2>5
  <2> QED BY <2>3, <2>5, <2>8, <2>9, <2>10 DEF LineLike, IsEnded, Strings
<1> HIDE DEF eat
<1>12. ls \in Seq(Strings) /\ Len(ls) = n + 1 /\ lens \in Seq(Nat) /\ Len(lens) = n + 1
  <2>1. DOMAIN ls = 1 .. n + 1 /\ DOMAIN lens = 1 .. n + 1
        BY <1>5
  <2>2. ls = [k \in 1 .. n + 1 |-> ls[k]] /\ lens = [k \in 1 .. n + 1 |-> lens[k]]
        BY <1>5
  <2> HIDE DEF ls, lens
  <2>3. ls \in [1 .. n + 1 -> Strings] /\ lens \in [1 .. n + 1 -> Nat]
        BY <1>11, <2>2 DEF LineLike
  <2>4. n + 1 \in Nat
        BY <1>3
  <2> QED BY <2>3, <2>4, IsASeq
<1> HIDE DEF ls, lens
<1>13. InLines(r) /\ SameLine(r, d)
  <2>1. /\ \A k \in 1 .. n + 1 : LineLike(ls[k])
        /\ \A k \in 1 .. n : IsEnded(ls[k])
        /\ \A k \in 1 .. n + 1 : lens[k] = Len(ls[k])
        /\ \A k \in 1 .. d.y : lens[k] = d.lenLines[k]
    <3>1. \A k \in 1 .. n : k \in 1 .. n + 1 /\ k <= n
          BY <1>3
    <3>2. \A k \in 1 .. d.y : k \in 1 .. n + 1 /\ k <= d.y
          BY <1>3
    <3> QED BY <1>11, <3>1, <3>2
  <2> QED BY <1>2, <1>9, <1>10, <1>12, <2>1, Relined
<1> HIDE DEF r
<1> QED BY <1>1, <1>2, <1>13 DEF SameLine


-----------------------------------------------------------------------------
(* What is typed, inserted and loaded.                                     *)
LEMMA GivenTexts ==
  /\ \A p \in Clips \cup Files : p \in Strings
  /\ \A p \in Clips : Len(p) > 0
  /\ \A c \in Keys : c \in Chars /\ c # EOL
  /\ <<EOL>> \in Strings /\ Len(<<EOL>>) = 1
  /\ Blank \in Chars /\ Blank # EOL
<1>1. ASSUME NEW p \in Clips \cup Files PROVE p \in Strings
  <2>1. p \in Seq(Range(p))
        BY TextAssumption
  <2>2. Range(p) \subseteq Chars
        BY DEF Chars
  <2>3. Len(p) \in Nat /\ \A k \in 1 .. Len(p) : p[k] \in Range(p)
        BY <2>1, LenProperties, ElementOfSeq
  <2>4. p = [k \in 1 .. Len(p) |-> p[k]]
    <3>1. p \in [1 .. Len(p) -> Range(p)]
          BY <2>1, LenProperties
    <3> QED BY <3>1
  <2>5. \A k \in 1 .. Len(p) : p[k] \in Chars
        BY <2>2, <2>3
  <2>6. [k \in 1 .. Len(p) |-> p[k]] \in Seq(Chars)
        BY <2>3, <2>5, IsASeq
  <2> QED BY <2>4, <2>6 DEF Strings
<1>2. ASSUME NEW p \in Clips PROVE Len(p) > 0
  <2>1. p \in Seq(Chars) /\ p # <<>>
        BY <1>1, TextAssumption DEF Strings
  <2>2. Len(p) \in Nat /\ Len(p) # 0
        BY <2>1, EmptySeq, LenProperties
  <2> QED BY <2>2
<1>3. \A c \in Keys : c \in Chars /\ c # EOL
      BY TextAssumption DEF Chars
<1>4. <<EOL>> \in Strings /\ Len(<<EOL>>) = 1
  <2>1. EOL \in Chars
        BY DEF Chars
  <2>2. \A c \in Chars : <<c>> \in Seq(Chars) /\ Len(<<c>>) = 1
        OBVIOUS
  <2> HIDE DEF EOL
  <2> QED BY <2>1, <2>2 DEF Strings
<1>5. Blank \in Chars /\ Blank # EOL
      BY DEF Chars, Blank, EOL
<1> QED BY <1>1, <1>2, <1>3, <1>4, <1>5

(* The line in edition is back in the buffer.                              *)
Resting(d) == InLines(d) /\ ~d.editing /\ NoEnds(d.bufEdit)

LEMMA RestGood ==
  ASSUME NEW f, Resting(f), NEW r, InLines(r), SameLine(r, f)
  PROVE  Resting(r) /\ Good(r)
BY DEF Resting, Good, Reaches, SameLine

LEMMA FlushLines ==
  ASSUME NEW d, Good(d)
  PROVE  LET f == flushLine(d)
         IN  /\ Resting(f) /\ f.x = d.x /\ f.y = d.y /\ f.totalLines = d.totalLines
             /\ f.curLine = d.curLine
<1>1. CASE ~d.editing
      BY <1>1 DEF flushLine, Resting, Good
<1>2. CASE d.editing
  <2> DEFINE f == MakeEfective(d)
  <2>1. InLines(d) /\ NoEnds(d.bufEdit)
        BY DEF Good
  <2>2. /\ InLines(f) /\ ~f.editing /\ f.bufEdit = <<>>
        /\ f.x = d.x /\ f.y = d.y /\ f.totalLines = d.totalLines
        BY <2>1, MakeEfectiveLines
  <2>3. f.curLine = d.curLine
        BY DEF MakeEfective
  <2> HIDE DEF f
  <2>4. Resting(f)
        BY <2>2, NoText DEF Resting
  <2> QED BY <1>2, <2>2, <2>3, <2>4 DEF flushLine, f
<1> QED BY <1>1, <1>2


(* loadFile() finds the lines.                                             *)
LEMMA LoadedGood ==
  ASSUME NEW t \in Strings
  PROVE  Good(Loaded(t))
<1> DEFINE nl == Newlines(t)
           n == Cardinality(nl)
           end(k) == IF k = 0 THEN 0 ELSE IF k > n THEN Len(t) ELSE Nth(nl, k)
           T == [k \in 0 .. n + 1 |-> end(k)]
           lens == [k \in 1 .. n + 1 |-> end(k) - end(k - 1)]
           d == Loaded(t)
<1>1. d = [buffer |-> t, lenLines |-> lens,
           totalLines |-> n, y |-> 0, x |-> 0, curLine |-> 0, overwrite |-> FALSE,
           selStart |-> 0, selEnd |-> 0, mark |-> 0, nline |-> -1,
           editing |-> FALSE, bufEdit |-> <<>>, inEdit |-> 0, restCharsInLine |-> 0,
           markInLine |-> -1, selNewStart |-> 0, selNewEnd |-> 0, selLineStart |-> 0, selLineEnd |-> 0]
      BY DEF Loaded
<1>2. /\ nl \subseteq 1 .. Len(t) /\ Len(t) \in Nat /\ Ranked(nl)
      /\ \A k \in 1 .. n : Nth(nl, k) \in 1 .. Len(t) /\ t[Nth(nl, k)] = EOL
  <2> HIDE DEF nl
  <2>1. nl = Newlines(t)
        BY DEF nl
  <2> QED BY <2>1, NewlinesOf
<1>3. /\ n \in Nat /\ \A j, k \in 1 .. n : j < k => Nth(nl, j) < Nth(nl, k)
      /\ \A m \in nl : \E k \in 1 .. n : m = Nth(nl, k)
  <2> HIDE DEF nl
  <2> QED BY <1>2 DEF Ranked
<1>4. \A p \in 1 .. Len(t) : t[p] = EOL => p \in nl
  <2>1. DOMAIN t = 1 .. Len(t)
        BY LenProperties DEF Strings
  <2> QED BY <2>1 DEF Newlines
<1> DEFINE N(k) == Nth(nl, k)
<1>5. /\ \A k \in 1 .. n : N(k) \in 1 .. Len(t) /\ t[N(k)] = EOL
      /\ \A j, k \in 1 .. n : j < k => N(j) < N(k)
      /\ \A p \in 1 .. Len(t) : t[p] = EOL => \E k \in 1 .. n : p = N(k)
      BY <1>2, <1>3, <1>4
<1>6. T = [k \in 0 .. n + 1 |-> IF k = 0 THEN 0 ELSE IF k > n THEN Len(t) ELSE N(k)]
      OBVIOUS
<1>7. lens = [k \in 1 .. n + 1 |-> T[k] - T[k - 1]]
  <2>1. \A k \in 1 .. n + 1 : T[k] = end(k) /\ T[k - 1] = end(k - 1)
        BY <1>3
  <2> HIDE DEF T, end
  <2> QED BY <2>1
<1> HIDE DEF nl, n, N, T, lens, end, d
<1>8. /\ T \in [0 .. n + 1 -> Nat] /\ T[0] = 0 /\ T[n + 1] = Len(t)
      /\ \A k \in 1 .. n : T[k] = N(k)
      BY <1>2, <1>3, <1>5, <1>6
<1>9. ASSUME NEW k \in 1 .. n PROVE T[k - 1] < T[k] /\ t[T[k]] = EOL
  <2>1. T[k] = N(k) /\ N(k) \in 1 .. Len(t) /\ t[N(k)] = EOL
        BY <1>5, <1>8
  <2>2. CASE k = 1
        BY <1>2, <1>8, <2>1, <2>2
  <2>3. CASE k > 1
    <3> DEFINE j == k - 1
    <3>1. j \in 1 .. n /\ j < k
          BY <1>3, <2>3
    <3> HIDE DEF j
    <3>2. T[j] = N(j) /\ N(j) < N(k)
          BY <1>5, <1>8, <3>1
    <3> QED BY <2>1, <3>2 DEF j
  <2> QED BY <1>3, <2>2, <2>3
<1>10. T[n] <= T[n + 1]
  <2>1. CASE n = 0
        BY <1>2, <1>8, <2>1
  <2>2. CASE n > 0
    <3>1. n \in 1 .. n
          BY <1>3, <2>2
    <3>2. T[n] = N(n) /\ N(n) \in 1 .. Len(t)
          BY <1>5, <1>8, <3>1
    <3> QED BY <1>2, <1>8, <3>2
  <2> QED BY <1>3, <2>1, <2>2
<1>11. \A p \in 1 .. Len(t) : t[p] = EOL => \E k \in 1 .. n + 1 : p = T[k]
  <2> TAKE p \in 1 .. Len(t)
  <2> HAVE t[p] = EOL
  <2>1. PICK k \in 1 .. n : p = N(k)
        BY <1>5
  <2>2. k \in 1 .. n + 1 /\ p = T[k]
        BY <1>3, <1>8, <2>1
  <2> QED BY <2>2
<1>12. Cuts(t, T, n)
       BY <1>3, <1>8, <1>9, <1>10, <1>11 DEF Cuts
<1>13. ASSUME NEW k \in 1 .. n + 1 PROVE T[k] - T[k - 1] \in Nat
  <2> DEFINE j == k - 1
  <2>1. j \in 0 .. n + 1
        BY <1>3
  <2>2. T[j] \in Nat /\ T[k] \in Nat
    <3> HIDE DEF j
    <3>1. k \in 0 .. n + 1
          BY <1>3
    <3> QED BY <1>8, <2>1, <3>1
  <2>3. T[j] <= T[k]
    <3>1. CASE k \in 1 .. n
          BY <1>9, <2>2, <3>1
    <3>2. CASE k = n + 1
          BY <1>3, <1>10, <3>2
    <3> QED BY <1>3, <3>1, <3>2
  <2> QED BY <2>2, <2>3
<1>14. lens \in Seq(Nat) /\ Len(lens) = n + 1
  <2>1. lens \in [1 .. n + 1 -> Nat] /\ n + 1 \in Nat
        BY <1>3, <1>7, <1>13
  <2> QED BY <2>1, IsASeq
<1>15. Starts(lens) = T
  <2>1. \A k \in 1 .. n + 1 : T[k] = T[k - 1] + lens[k]
    <3> TAKE k \in 1 .. n + 1
    <3> DEFINE a == T[k]
               b == T[k - 1]
    <3>1. lens[k] = a - b
          BY <1>7
    <3>2. a \in Nat /\ b \in Nat
      <4>1. k \in 0 .. n + 1 /\ k - 1 \in 0 .. n + 1
            BY <1>3
      <4> QED BY <1>8, <4>1
    <3> HIDE DEF a, b
    <3>3. a = b + lens[k]
          BY <3>1, <3>2
    <3> QED BY <3>3 DEF a, b
  <2>2. Summed(lens, T)
        BY <1>8, <1>14, <2>1 DEF Summed
  <2> QED BY <1>14, <2>2, StartsAre
<1>16. d \in Editors
  <2>1. <<>> \in Strings /\ 0 \in Offsets
        BY NoText, Unsigneds
  <2> QED BY <1>1, <1>3, <1>14, <2>1 DEF Editors
<1>17. /\ d.buffer = t /\ d.lenLines = lens /\ d.totalLines = n /\ d.y = 0 /\ d.curLine = 0
       /\ ~d.editing /\ d.bufEdit = <<>>
       BY <1>1
<1>18. InLines(d)
       BY <1>3, <1>8, <1>12, <1>14, <1>15, <1>16, <1>17 DEF InLines
<1> QED BY <1>17, <1>18, NoText DEF Good, Reaches, d


-----------------------------------------------------------------------------
(* The places of the line of the cursor.                                   *)
LEMMA CursorLine ==
  ASSUME NEW f, InLines(f)
  PROVE  /\ f.y \in 0 .. f.totalLines /\ f.totalLines \in Nat /\ f.curLine \in Nat
         /\ f.curLine = Starts(f.lenLines)[f.y]
         /\ LineWidth(f) \in Nat /\ LenWithoutCRLF(f, f.y) = LineWidth(f)
         /\ ColToPointer(f) \in f.curLine .. f.curLine + LineWidth(f)
         /\ f.lenLines[f.y + 1] \in Nat
         /\ f.curLine + f.lenLines[f.y + 1] = Starts(f.lenLines)[f.y + 1]
         /\ f.curLine + f.lenLines[f.y + 1] <= Len(f.buffer) /\ f.x \in Nat
         /\ LineWidth(f) <= f.lenLines[f.y + 1]
<1> DEFINE k == f.y
           T == Starts(f.lenLines)
           w == LenWithoutCRLF(f, k)
           len == f.lenLines[k + 1]
           x == f.x
           b == f.buffer
<1>1. k \in 0 .. f.totalLines /\ f.totalLines \in Nat /\ f.curLine \in Nat /\ f.curLine = T[k] /\ x \in Nat
      BY DEF InLines, Editors
<1>2. Wide(f, T, k, w)
      BY <1>1, WideLine
<1>3. LineWidth(f) = w
      BY DEF LineWidth
<1>4. w \in Nat /\ len \in Nat /\ T[k + 1] = T[k] + len /\ T[k + 1] <= Len(b) /\ w <= len
      BY <1>2 DEF Wide
<1>5. ColToPointer(f) = f.curLine + Min({x, w})
      BY <1>3 DEF ColToPointer
<1> HIDE DEF k, T, w, len, x, b
<1>6. Min({x, w}) \in {x, w} /\ Min({x, w}) <= x /\ Min({x, w}) <= w
  <2>1. x \in Int /\ w \in Int
        BY <1>1, <1>4
  <2> QED BY ONLY <2>1, MaxOfTwo
<1>7. ColToPointer(f) \in f.curLine .. f.curLine + w
      BY <1>1, <1>4, <1>5, <1>6
<1> QED BY <1>1, <1>3, <1>4, <1>7 DEF k, T, w, len, x, b

(* The bounds of a run, which hold between the commands.                   *)
Room(d) ==
  /\ Len(d.buffer) <= MaxLen /\ d.x <= MaxColumn
  /\ d.editing => Len(d.bufEdit) <= MaxLen
Fine(d) == Good(d) /\ Room(d)
Keeps(r) == e' = Kept(r) /\ Fits(r)

LEMMA OffsetsAre ==
  /\ MaxLen \in Nat /\ MaxColumn \in Nat /\ 0 \in Offsets
  /\ \A k \in Nat : k <= 4 * MaxLen + 4 * MaxColumn + 7 => k \in Offsets
<1>1. MaxLen \in Nat /\ MaxColumn \in Nat /\ Unsigned \in Nat /\ Unsigned >= 4 * (MaxLen + MaxColumn + 2)
      BY TextAssumption
<1> QED BY <1>1 DEF Offsets

LEMMA KeepsFine ==
  ASSUME NEW r, Good(r), Keeps(r)
  PROVE  Fine(e')
<1> DEFINE b == r.buffer
           l == r.bufEdit
           c == r.curLine
           w == LineWidth(r)
<1>1. /\ r \in Editors /\ InLines(r) /\ b \in Seq(Chars) /\ l \in Seq(Chars) /\ Len(b) \in Nat /\ Len(l) \in Nat
      /\ DOMAIN b = 1 .. Len(b)
  <2>1. r \in Editors /\ InLines(r) /\ b \in Seq(Chars) /\ l \in Seq(Chars)
        BY DEF Good, InLines, Editors, Strings
  <2> QED BY <2>1, LenProperties
<1>2. /\ Good(e') /\ Len(e'.buffer) = Len(b) /\ e'.x = r.x /\ e'.bufEdit = l /\ e'.editing = r.editing
  <2>1. /\ Good(Kept(r)) /\ Len(Kept(r).buffer) = Len(b) /\ Kept(r).x = r.x
        /\ Kept(r).bufEdit = l /\ Kept(r).editing = r.editing
        BY KeptGood
  <2>2. e' = Kept(r)
        BY DEF Keeps
  <2> QED BY <2>1, <2>2
<1>3. Len(b) <= MaxLen /\ r.x <= MaxColumn /\ Len(Text(r)) <= MaxLen
      BY DEF Keeps, Fits, bufLen
<1>4. ASSUME r.editing PROVE Len(l) <= MaxLen
  <2> DEFINE z == c + w
  <2>1. c \in Nat /\ w \in Nat /\ z <= Len(b)
    <3>1. /\ c \in Nat /\ w \in Nat /\ r.lenLines[r.y + 1] \in Nat
          /\ c + r.lenLines[r.y + 1] <= Len(b) /\ w <= r.lenLines[r.y + 1]
          BY <1>1, CursorLine
    <3> HIDE DEF c, w, b
    <3> QED BY <1>1, <3>1
  <2>2. Text(r) = Splice(b, c, l, z)
        BY <1>4 DEF Text, Splice, bufLen
  <2>3. c \in 0 .. Len(b) /\ z \in c .. Len(b)
    <3> HIDE DEF c, w, b
    <3> QED BY <1>1, <2>1
  <2> HIDE DEF z, c, b, l
  <2>4. Pieces3(Splice(b, c, l, z), b, c, l, z)
        BY <1>1, <2>3, Spliced
  <2>5. Len(Text(r)) = c + Len(l) + Len(b) - z
        BY <2>2, <2>4 DEF Pieces3
  <2> QED BY <1>1, <1>3, <2>1, <2>3, <2>5, OffsetsAre
<1> QED BY <1>2, <1>3, <1>4 DEF Fine, Room

(* Putting the line in edition back makes the buffer longer by no more     *)
(* than the line and its end.                                              *)
LEMMA FlushFits ==
  ASSUME NEW d, Fine(d)
  PROVE  LET f == flushLine(d)
         IN  /\ Len(f.buffer) \in Nat /\ Len(f.buffer) <= 2 * MaxLen + 1
             /\ f.x = d.x /\ d.x \in Nat /\ d.x <= MaxColumn
<1> DEFINE f == MakeEfective(d)
           b == d.buffer
           c == d.curLine
           text == Ended(d)
           old == d.lenLines[d.y + 1]
           z == c + old
<1>1. Good(d) /\ Room(d) /\ InLines(d) /\ d \in Editors /\ NoEnds(d.bufEdit)
      BY DEF Fine, Good, InLines
<1>2. /\ d.x \in Nat /\ b \in Strings /\ Len(b) \in Nat /\ d.bufEdit \in Strings /\ Len(d.bufEdit) \in Nat
      /\ Used(d.bufEdit) \in 0 .. Len(d.bufEdit)
  <2>1. d.x \in Nat /\ b \in Strings /\ d.bufEdit \in Strings
        BY <1>1 DEF Editors
  <2> QED BY <2>1, UsedOf, LenProperties DEF Strings
<1>3. old \in Nat /\ z <= Len(b) /\ c \in Nat
      BY <1>1, CursorLine
<1>4. text \in Strings /\ Len(text) = Used(d.bufEdit) + 1
      BY <1>1, <1>2, EndedIs
<1>5. f.buffer = Splice(b, c, text, z)
  <2>1. \E s1, s2, mk \in Offsets : f = PutBack(d, s1, s2, mk)
        BY <1>1, <1>3, <1>4, MakeEfectiveIs
  <2> HIDE DEF f, text
  <2>2. PICK s1 \in Offsets, s2 \in Offsets, mk \in Offsets : f = PutBack(d, s1, s2, mk)
        BY <2>1
  <2> QED BY <1>1, <2>2 DEF PutBack, Editors, text
<1>6. Len(f.buffer) = c + Len(text) + Len(b) - z
  <2>1. c \in 0 .. Len(b) /\ z \in c .. Len(b) /\ b \in Seq(Chars) /\ text \in Seq(Chars)
    <3> HIDE DEF b, c, old, text
    <3> QED BY <1>2, <1>3, <1>4 DEF Strings
  <2> HIDE DEF c, z, b, f, text
  <2>2. Pieces3(Splice(b, c, text, z), b, c, text, z)
        BY <2>1, Spliced
  <2> QED BY <1>5, <2>2 DEF Pieces3
<1>7. f.x = d.x
      BY <1>1 DEF MakeEfective, Editors
<1>8. MaxLen \in Nat
      BY TextAssumption
<1>9. Len(b) <= MaxLen /\ d.x <= MaxColumn /\ (d.editing => Len(d.bufEdit) <= MaxLen)
      BY <1>1 DEF Room
<1> HIDE DEF f
<1>10. CASE d.editing
  <2> DEFINE A == Len(f.buffer)
             B == Len(b)
             D == Len(d.bufEdit)
             V == Used(d.bufEdit)
  <2>1. /\ A = c + (V + 1) + B - z /\ B \in Nat /\ D \in Nat /\ c \in Nat /\ old \in Nat /\ z = c + old
        /\ V \in 0 .. D /\ z <= B /\ B <= MaxLen /\ D <= MaxLen
        BY <1>2, <1>3, <1>4, <1>6, <1>9, <1>10
  <2> HIDE DEF A, B, D, c, V, z, old
  <2>2. A \in Nat /\ A <= 2 * MaxLen + 1
        BY <1>8, <2>1
  <2>3. flushLine(d) = f
        BY <1>10 DEF flushLine, f
  <2> QED BY <1>2, <1>7, <1>9, <2>2, <2>3 DEF A
<1>11. CASE ~d.editing
  <2>1. flushLine(d) = d
        BY <1>11 DEF flushLine
  <2>2. Len(b) <= 2 * MaxLen + 1
    <3> HIDE DEF b
    <3> QED BY <1>2, <1>8, <1>9
  <2> QED BY <1>2, <1>9, <2>1, <2>2
<1> QED BY <1>10, <1>11


-----------------------------------------------------------------------------
(* The commands.  A command that ends in the line in edition.              *)
LEMMA TypeKeyGood ==
  ASSUME Good(e), NEW c \in Keys, TypeKey(c)
  PROVE  Fine(e')
<1>1. Keeps(InsertCharInLine(InEdition(e), c)) /\ ~Parted(e)
      BY DEF TypeKey, Becomes, Keeps
<1>2. Typing(InEdition(e))
      BY <1>1, InEditionTyping
<1>3. c \in Chars /\ c # EOL
      BY GivenTexts
<1> DEFINE d == InEdition(e)
<1> HIDE DEF d
<1>4. Typing(InsertCharInLine(d, c))
      BY <1>2, <1>3, InsertCharInLineTyping DEF d
<1>5. Good(InsertCharInLine(d, c))
      BY <1>4 DEF Typing
<1> QED BY <1>1, <1>5, KeepsFine DEF d

LEMMA BackSpaceGood ==
  ASSUME Good(e), NEW stale, BackSpace(stale)
  PROVE  Fine(e')
<1>1. CASE e.x = 0 /\ e.curLine > 0
             /\ LET f == flushLine(e)
                IN  Becomes(deleteRange(f, f.curLine - 1, f.curLine, stale), FALSE)
  <2> DEFINE f == flushLine(e)
             first == f.curLine - 1
             last == f.curLine
             r == deleteRange(f, first, last, stale)
  <2>1. Keeps(r)
        BY <1>1 DEF Becomes, Keeps
  <2>2. Resting(f) /\ f.y = e.y /\ f.totalLines = e.totalLines /\ f.curLine = e.curLine
        BY FlushLines
  <2>3. InLines(f) /\ f.y \in 0 .. f.totalLines /\ f.curLine \in Nat /\ f.curLine > 0
        /\ f.curLine = Starts(f.lenLines)[f.y]
        BY <1>1, <2>2 DEF Resting, InLines, Editors
  <2> HIDE DEF f
  <2>4. first \in Nat /\ last \in Nat
        BY <2>3
  <2>5. Inner(f.buffer, Starts(f.lenLines), f.totalLines, last)
    <3> DEFINE k == f.y
               T == Starts(f.lenLines)
               w == LenWithoutCRLF(f, k)
    <3>1. T[k] \in Nat /\ w \in Nat
          BY <2>3, WideLine DEF Wide
    <3>2. last = T[k]
          BY <2>3
    <3> HIDE DEF T, w, k, last
    <3>3. last \in 0 .. T[k] + w
          BY <3>1, <3>2
    <3> QED BY <2>3, <3>3, InnerEnds DEF T, w, k
  <2> HIDE DEF first, last
  <2>6. InLines(r) /\ SameLine(r, f)
        BY ONLY <2>3, <2>4, <2>5, deleteRangeLines
  <2> HIDE DEF r
  <2> QED BY <2>1, <2>2, <2>6, RestGood, KeepsFine
<1>2. CASE e.x > 0 /\ ~Parted(e) /\ Becomes(EraseLeft(InEdition(e)), Filled(e))
  <2>1. Keeps(EraseLeft(InEdition(e))) /\ ~Parted(e) /\ e.x > 0
        BY <1>2 DEF Becomes, Keeps
  <2> DEFINE d == InEdition(e)
  <2>2. Typing(d) /\ d.x > 0
    <3>1. Typing(d)
          BY <2>1, InEditionTyping
    <3>2. d.x = e.x
          BY EditLineTyping DEF InEdition, Good
    <3> QED BY <2>1, <3>1, <3>2
  <2> HIDE DEF d
  <2>3. Typing(EraseLeft(d))
        BY <2>2, EraseLeftTyping
  <2>4. Good(EraseLeft(d))
        BY <2>3 DEF Typing
  <2> QED BY <2>1, <2>4, KeepsFine DEF d
<1> QED BY <1>1, <1>2 DEF BackSpace

(* Text goes in at the cursor.                                             *)
LEMMA InsertGood ==
  ASSUME Fine(e), NEW p \in Strings, Len(p) > 0, NEW selectText,
         Keeps(insertBuffer(flushLine(e), p, selectText))
  PROVE  Fine(e')
<1> DEFINE f == flushLine(e)
           r == insertBuffer(f, p, selectText)
<1>1. Resting(f)
      BY FlushLines DEF Fine
<1>a. Len(f.buffer) + f.x \in Offsets
  <2> DEFINE n == Len(f.buffer)
             x == f.x
  <2>1. n \in Nat /\ n <= 2 * MaxLen + 1 /\ x \in Nat /\ x <= MaxColumn
        BY FlushFits
  <2> HIDE DEF n, x
  <2>2. n + x \in Nat /\ n + x <= 4 * MaxLen + 4 * MaxColumn + 7
        BY <2>1, OffsetsAre
  <2>3. n + x \in Offsets
        BY <2>2, OffsetsAre
  <2> QED BY <2>3 DEF n, x
<1> HIDE DEF f
<1>2. InLines(r) /\ SameLine(r, f)
      BY <1>1, <1>a, insertBufferLines DEF Resting
<1> HIDE DEF r, f
<1>3. Good(r)
      BY <1>1, <1>2, RestGood
<1> QED BY <1>3, KeepsFine DEF r, f


LEMMA InsertsGood ==
  ASSUME Fine(e), newLine \/ \E p \in Clips : insertText(p) \/ clipPaste(p)
  PROVE  Fine(e')
<1> DEFINE no == FALSE
           yes == TRUE
           eol == <<EOL>>
<1>1. \/ Keeps(insertBuffer(flushLine(e), eol, no))
      \/ \E p \in Clips : \/ Keeps(insertBuffer(flushLine(e), p, no))
                          \/ Keeps(insertBuffer(flushLine(e), p, yes))
      BY DEF newLine, insertText, clipPaste, Becomes, Sets, Keeps
<1>2. /\ eol \in Strings /\ Len(eol) > 0
      /\ \A p \in Clips : p \in Strings /\ Len(p) > 0
  <2>1. eol \in Strings /\ Len(eol) = 1 /\ \A p \in Clips : p \in Strings /\ Len(p) > 0
        BY GivenTexts
  <2> HIDE DEF eol
  <2> QED BY <2>1
<1> HIDE DEF no, yes, eol
<1>3. CASE Keeps(insertBuffer(flushLine(e), eol, no))
      BY <1>2, <1>3, InsertGood
<1>4. ASSUME NEW p \in Clips, Keeps(insertBuffer(flushLine(e), p, no)) PROVE Fine(e')
      BY <1>2, <1>4, InsertGood
<1>5. ASSUME NEW p \in Clips, Keeps(insertBuffer(flushLine(e), p, yes)) PROVE Fine(e')
      BY <1>2, <1>5, InsertGood
<1> QED BY <1>1, <1>3, <1>4, <1>5

(* A range of the buffer goes that ends in a line, k.                      *)
LEMMA DeleteGood ==
  ASSUME NEW f, Resting(f), NEW first \in Nat, NEW k \in 0 .. f.totalLines,
         NEW last \in 0 .. Starts(f.lenLines)[k] + LenWithoutCRLF(f, k), NEW stale
  PROVE  LET r == deleteRange(f, first, last, stale)
         IN  Resting(r) /\ Good(r)
<1> DEFINE r == deleteRange(f, first, last, stale)
<1>1. InLines(f)
      BY DEF Resting
<1>2. Inner(f.buffer, Starts(f.lenLines), f.totalLines, last)
      BY <1>1, InnerEnds
<1>3. last \in Nat /\ first \in Nat
  <2>1. last \in Int /\ last >= 0
        OBVIOUS
  <2> QED BY <2>1
<1>4. InLines(r) /\ SameLine(r, f)
      BY ONLY <1>1, <1>2, <1>3, deleteRangeLines
<1> HIDE DEF r
<1>5. Resting(r) /\ Good(r)
      BY <1>4, RestGood
<1> QED BY <1>5 DEF r

LEMMA TypingInEdition ==
  ASSUME Good(e), e.editing, ~Parted(e)
  PROVE  Typing(e) /\ e.inEdit \in 0 .. Len(e.bufEdit) /\ Len(e.bufEdit) \in Nat
<1>1. Typing(e)
  <2>1. InEdition(e) = e
        BY DEF InEdition
  <2> QED BY <2>1, InEditionTyping
<1>2. e.bufEdit \in Strings /\ e.x \in Nat /\ e.inEdit = e.x /\ e.x <= Len(e.bufEdit)
      BY <1>1 DEF Typing, Good, InLines, Editors
<1>3. Len(e.bufEdit) \in Nat
      BY <1>2, LenProperties DEF Strings
<1> QED BY <1>1, <1>2, <1>3

LEMMA DelEndStartGood ==
  ASSUME Good(e), NEW stale, DelEnd(stale) \/ DelStart(stale)
  PROVE  Fine(e')
<1> DEFINE c == e.curLine
           col == ColToPointer(e)
           end == e.curLine + LineWidth(e)
           len == Len(e.bufEdit)
           i == e.inEdit
           to == i + e.restCharsInLine
           zero == 0
           minus == -1
           a == deleteRangeLineInEdition(e, i, to, minus)
           r == [a EXCEPT !.restCharsInLine = 0]
<1>1. \/ e.editing /\ ~Parted(e) /\ ~Surplus(e) /\ Keeps(r)
      \/ e.editing /\ ~Parted(e) /\ Keeps(deleteRangeLineInEdition(e, zero, i, zero))
      \/ ~e.editing /\ Keeps(deleteRange(e, col, end, stale))
      \/ ~e.editing /\ Keeps(deleteRange(e, c, col, stale))
      BY DEF DelEnd, DelStart, Becomes, Keeps
<1>2. ASSUME e.editing, ~Parted(e)
      PROVE  Typing(e) /\ i \in 0 .. len /\ len \in Nat
      BY <1>2, TypingInEdition
<1>3. zero = 0 /\ minus \in Int /\ minus < 0
      OBVIOUS
<1>4. CASE e.editing /\ ~Parted(e) /\ ~Surplus(e) /\ Keeps(r)
  <2>1. Typing(e) /\ to = len
        BY <1>2, <1>4, NothingSurplus
  <2>2. Good(r)
    <3> DEFINE b == deleteRangeLineInEdition(e, i, len, minus)
    <3>1. b = a
          BY <2>1
    <3>2. Good([b EXCEPT !.restCharsInLine = 0])
          BY <2>1, DeleteToTheEnd
    <3> HIDE DEF a, b
    <3> QED BY <3>1, <3>2
  <2> HIDE DEF r
  <2> QED BY <1>4, <2>2, KeepsFine
<1>5. CASE e.editing /\ ~Parted(e) /\ Keeps(deleteRangeLineInEdition(e, zero, i, zero))
  <2>1. /\ Typing(e) /\ zero \in 0 .. Len(e.bufEdit) /\ i \in zero .. Len(e.bufEdit)
        /\ zero \in Int /\ (zero = 0 \/ (zero < 0 /\ e.inEdit <= zero))
        BY <1>2, <1>3, <1>5
  <2> HIDE DEF i, len, zero
  <2>2. Good(deleteRangeLineInEdition(e, zero, i, zero))
        BY ONLY <2>1, DeleteRangeLineInEdition
  <2> QED BY <1>5, <2>2, KeepsFine
<1>6. ASSUME ~e.editing
      PROVE  /\ Resting(e) /\ e.y \in 0 .. e.totalLines
             /\ end \in 0 .. Starts(e.lenLines)[e.y] + LenWithoutCRLF(e, e.y)
             /\ col \in 0 .. Starts(e.lenLines)[e.y] + LenWithoutCRLF(e, e.y)
             /\ col \in Nat /\ c \in Nat
  <2> DEFINE T0 == Starts(e.lenLines)[e.y]
             w == LineWidth(e)
             w2 == LenWithoutCRLF(e, e.y)
  <2>1. Resting(e) /\ InLines(e)
        BY <1>6 DEF Good, Resting
  <2>2. /\ e.y \in 0 .. e.totalLines /\ c \in Nat /\ c = T0 /\ w \in Nat /\ w2 = w /\ col \in c .. c + w
        BY <2>1, CursorLine
  <2>3. end = c + w
        OBVIOUS
  <2> HIDE DEF T0, w, w2, col, c, end
  <2>4. end \in 0 .. T0 + w2 /\ col \in 0 .. T0 + w2 /\ col \in Nat
        BY <2>2, <2>3
  <2> QED BY <2>1, <2>2, <2>4 DEF T0, w2
<1>7. CASE ~e.editing /\ Keeps(deleteRange(e, col, end, stale))
  <2> HIDE DEF col, end
  <2>1. Good(deleteRange(e, col, end, stale))
        BY <1>6, <1>7, DeleteGood
  <2> QED BY <1>7, <2>1, KeepsFine
<1>8. CASE ~e.editing /\ Keeps(deleteRange(e, c, col, stale))
  <2> HIDE DEF col, c
  <2>1. Good(deleteRange(e, c, col, stale))
        BY <1>6, <1>8, DeleteGood
  <2> QED BY <1>8, <2>1, KeepsFine
<1> QED BY <1>1, <1>4, <1>5, <1>7, <1>8

(* The end of a line but the last.                                         *)
LEMMA NextLine ==
  ASSUME NEW f, InLines(f), f.y < f.totalLines
  PROVE  /\ f.y + 1 \in 0 .. f.totalLines
         /\ f.curLine + f.lenLines[f.y + 1]
              \in 0 .. Starts(f.lenLines)[f.y + 1] + LenWithoutCRLF(f, f.y + 1)
<1> DEFINE k == f.y + 1
           T == Starts(f.lenLines)
           w == LenWithoutCRLF(f, k)
           o == f.curLine + f.lenLines[k]
<1>1. /\ f.y \in 0 .. f.totalLines /\ f.totalLines \in Nat /\ f.curLine \in Nat
      /\ f.lenLines[k] \in Nat /\ o = T[k]
      BY CursorLine
<1>2. k \in 0 .. f.totalLines
      BY <1>1
<1> HIDE DEF k, T, w
<1>3. w \in Nat
  <2>1. Wide(f, T, k, w)
        BY <1>2, WideLine DEF T, w
  <2> QED BY <2>1 DEF Wide
<1>4. o \in 0 .. T[k] + w
      BY <1>1, <1>3
<1> QED BY <1>2, <1>4 DEF k, T, w

LEMMA DelLineGood ==
  ASSUME Good(e), NEW stale, DelLine(stale)
  PROVE  Fine(e')
<1> DEFINE f == flushLine(e)
           c == f.curLine
           to == IF f.y # f.totalLines THEN f.lenLines[f.y + 1] ELSE LineWidth(f)
           last == c + to
           k == IF f.y # f.totalLines THEN f.y + 1 ELSE f.y
           r == deleteRange(f, c, last, stale)
<1>1. Keeps(r)
      BY DEF DelLine, Becomes, Keeps
<1>2. Resting(f) /\ InLines(f)
      BY FlushLines DEF Resting
<1> HIDE DEF f
<1>3. /\ f.y \in 0 .. f.totalLines /\ c \in Nat /\ f.totalLines \in Nat
      /\ k \in 0 .. f.totalLines
      /\ last \in 0 .. Starts(f.lenLines)[k] + LenWithoutCRLF(f, k)
  <2> DEFINE T0 == Starts(f.lenLines)[f.y]
             w == LineWidth(f)
             w2 == LenWithoutCRLF(f, f.y)
  <2>1. /\ f.y \in 0 .. f.totalLines /\ f.totalLines \in Nat
        /\ c \in Nat /\ c = T0 /\ w \in Nat /\ w2 = w
        BY <1>2, CursorLine
  <2>2. CASE f.y # f.totalLines
    <3>1. f.y < f.totalLines
          BY <2>1, <2>2
    <3>2. k = f.y + 1 /\ last = f.curLine + f.lenLines[f.y + 1]
          BY <2>2
    <3>3. /\ f.y + 1 \in 0 .. f.totalLines
          /\ f.curLine + f.lenLines[f.y + 1]
              \in 0 .. Starts(f.lenLines)[f.y + 1] + LenWithoutCRLF(f, f.y + 1)
          BY <1>2, <3>1, NextLine
    <3> HIDE DEF k, last
    <3> QED BY <2>1, <3>2, <3>3
  <2>3. CASE f.y = f.totalLines
    <3>1. k = f.y /\ last = c + w
          BY <2>3
    <3> HIDE DEF k, last, T0, w, w2, c
    <3>2. last \in 0 .. T0 + w2
          BY <2>1, <3>1
    <3> QED BY <2>1, <3>1, <3>2 DEF T0, w2
  <2> QED BY <2>2, <2>3
<1> HIDE DEF last, k, c
<1>4. Good(r)
      BY <1>2, <1>3, DeleteGood
<1> QED BY <1>1, <1>4, KeepsFine


LEMMA CutBlockGood ==
  ASSUME Good(e), NEW stale, CutBlock(stale)
  PROVE  Fine(e')
<1> DEFINE f == flushLine(e)
           first == f.selStart
           last == f.selEnd
           k == f.totalLines
           r == deleteRange(f, first, last, stale)
<1>1. Keeps(r) /\ last <= Total(f.lenLines, 0, k) + LenWithoutCRLF(f, k)
      BY DEF CutBlock, Sets, Keeps
<1>2. Resting(f) /\ InLines(f)
      BY FlushLines DEF Resting
<1> HIDE DEF f
<1>3. first \in Nat /\ last \in Nat /\ k \in 0 .. f.totalLines /\ k \in Nat
      /\ f.lenLines \in Seq(Nat) /\ Len(f.lenLines) = k + 1
      BY <1>2, Unsigneds DEF InLines, Editors
<1>4. last \in 0 .. Starts(f.lenLines)[k] + LenWithoutCRLF(f, k)
  <2> DEFINE T == Starts(f.lenLines)
             lens == f.lenLines
             w == LenWithoutCRLF(f, k)
  <2>1. Wide(f, T, k, w)
        BY <1>2, <1>3, WideLine
  <2>2. Total(lens, 0, k) = T[k]
    <3>1. k \in 0 .. Len(lens) /\ lens \in Seq(Nat)
          BY <1>3
    <3>2. T = Starts(lens)
          OBVIOUS
    <3> HIDE DEF lens, k, T
    <3>3. \A j \in 0 .. Len(lens) : Total(lens, 0, j) = Starts(lens)[j]
          BY <3>1, StartsSum
    <3> QED BY <3>1, <3>2, <3>3
  <2>3. w \in Nat /\ T[k] \in Nat
        BY <2>1 DEF Wide
  <2>4. last <= T[k] + w
        BY <1>1, <2>2
  <2> HIDE DEF T, w, k, last
  <2>5. last \in 0 .. T[k] + w
        BY <1>3, <2>3, <2>4
  <2> QED BY <2>5 DEF T, w
<1> HIDE DEF first, last, k
<1>5. Good(r)
      BY <1>2, <1>3, <1>4, DeleteGood DEF k
<1> QED BY <1>1, <1>5, KeepsFine

(* What only sets the cursor, its mode, the selection, the marker or the   *)
(* special line.                                                           *)
Points(r, d) ==
  /\ r \in Editors
  /\ r.buffer = d.buffer /\ r.lenLines = d.lenLines /\ r.totalLines = d.totalLines
  /\ r.y = d.y /\ r.curLine = d.curLine /\ r.editing = d.editing

LEMMA PointsGood ==
  ASSUME NEW d, Good(d), NEW r, Points(r, d), NoEnds(r.bufEdit),
         r.editing => (r.inEdit = r.x /\ r.x <= Len(r.bufEdit)) \/ r.x = 0, Reaches(r)
  PROVE  Good(r)
<1>1. InLines(r)
      BY SameLines DEF Good, Points
<1> QED BY <1>1 DEF Good

LEMMA SamePlace ==
  ASSUME NEW d, Good(d), NEW r, Points(r, d), r.bufEdit = d.bufEdit, r.inEdit = d.inEdit, r.x = d.x,
         r.restCharsInLine = d.restCharsInLine
  PROVE  Good(r)
<1>1. /\ NoEnds(r.bufEdit) /\ (r.editing => (r.inEdit = r.x /\ r.x <= Len(r.bufEdit)) \/ r.x = 0)
      /\ Reaches(r)
      BY DEF Good, Reaches, Points
<1> QED BY <1>1, PointsGood

LEMMA SettingGood ==
  ASSUME Fine(e), toggleInsMode \/ StartSelect \/ EndSelect \/ SetMarker \/ SetSpecialLine
  PROVE  Fine(e')
<1> DEFINE c == e.curLine + e.inEdit
           col == ColToPointer(e)
           over == ~e.overwrite
           r1 == [e EXCEPT !.overwrite = over]
           r2 == [e EXCEPT !.selLineStart = e.inEdit, !.selNewStart = c, !.selStart = e.curLine]
           r3 == [e EXCEPT !.selStart = col]
           r4 == [e EXCEPT !.selLineEnd = e.inEdit, !.selNewEnd = c, !.selEnd = e.curLine]
           r5 == [e EXCEPT !.selEnd = col]
           r6 == [e EXCEPT !.markInLine = e.inEdit]
           r7 == [e EXCEPT !.mark = col]
           r8 == [e EXCEPT !.nline = e.y]
<1>1. \/ \E r \in {r1, r3, r5, r6, r7, r8} : Keeps(r)
      \/ e.editing /\ ~Parted(e) /\ \E r \in {r2, r4} : Keeps(r)
  <2>1. toggleInsMode => Keeps(r1)
        BY DEF toggleInsMode, Becomes, Keeps
  <2>2. StartSelect => (e.editing /\ ~Parted(e) /\ Keeps(r2)) \/ Keeps(r3)
        BY DEF StartSelect, Sets, Keeps
  <2>3. EndSelect => (e.editing /\ ~Parted(e) /\ Keeps(r4)) \/ Keeps(r5)
        BY DEF EndSelect, Sets, Keeps
  <2>4. SetMarker => Keeps(r6) \/ Keeps(r7)
        BY DEF SetMarker, Sets, Keeps
  <2>5. SetSpecialLine => Keeps(r8)
        BY DEF SetSpecialLine, Sets, Keeps
  <2> HIDE DEF r1, r2, r3, r4, r5, r6, r7, r8
  <2> QED BY <2>1, <2>2, <2>3, <2>4, <2>5
<1>2. InLines(e) /\ e \in Editors /\ Good(e) /\ Room(e)
      BY DEF Fine, Good, InLines
<1>3. /\ e.curLine \in Nat /\ e.curLine \in Offsets /\ over \in BOOLEAN
      /\ e.curLine <= MaxLen /\ e.x \in Nat /\ e.x <= MaxColumn
      /\ e.inEdit \in Nat /\ e.y \in Nat /\ e.inEdit \in Int /\ e.y \in Int
  <2>1. e.curLine \in Nat /\ e.inEdit \in Nat /\ e.y \in Nat /\ e.x \in Nat
        BY <1>2 DEF Editors
  <2>2. e.curLine <= Len(e.buffer) /\ Len(e.buffer) \in Nat /\ Len(e.buffer) <= MaxLen /\ e.x <= MaxColumn
        BY <1>2, LinesFit DEF Room
  <2>3. e.curLine <= MaxLen /\ e.curLine <= 4 * MaxLen + 4 * MaxColumn + 7
        BY <2>1, <2>2, OffsetsAre
  <2> QED BY <2>1, <2>2, <2>3, OffsetsAre
<1>4. col \in Offsets
  <2> DEFINE w == LineWidth(e)
             l == e.lenLines[e.y + 1]
             k == e.curLine
             n == Len(e.buffer)
  <2>1. /\ col \in k .. k + w /\ w \in Nat /\ l \in Nat /\ w <= l /\ k + l <= n
        BY <1>2, CursorLine
  <2>2. n \in Nat /\ n <= MaxLen /\ k \in Nat
        BY <1>2, LinesFit DEF Room
  <2> HIDE DEF col, w, l, k, n
  <2>3. col \in Nat /\ col <= 4 * MaxLen + 4 * MaxColumn + 7
        BY <2>1, <2>2, OffsetsAre
  <2> QED BY <2>3, OffsetsAre
<1>a. ASSUME e.editing, ~Parted(e) PROVE c \in Offsets /\ e.inEdit \in Offsets
  <2> DEFINE k == e.curLine
             i == e.inEdit
  <2>1. i = e.x
        BY <1>a DEF Parted
  <2>2. c = k + i /\ i \in Nat /\ i <= MaxColumn /\ k \in Nat /\ k <= MaxLen
        BY <1>3, <2>1
  <2> HIDE DEF c, k, i
  <2>3. /\ c \in Nat /\ c <= 4 * MaxLen + 4 * MaxColumn + 7
        /\ i \in Nat /\ i <= 4 * MaxLen + 4 * MaxColumn + 7
        BY <2>2, OffsetsAre
  <2> QED BY <2>3, OffsetsAre DEF i
<1> HIDE DEF c, col, over
<1>5. ASSUME NEW r \in {r1, r3, r5, r6, r7, r8} \cup (IF e.editing /\ ~Parted(e) THEN {r2, r4} ELSE {})
      PROVE  /\ Points(r, e) /\ r.bufEdit = e.bufEdit /\ r.inEdit = e.inEdit /\ r.x = e.x
             /\ r.restCharsInLine = e.restCharsInLine
  <2>a. r1 \in Editors
        BY <1>2, <1>3, <1>4 DEF Editors
  <2>b. e.editing /\ ~Parted(e) => r2 \in Editors
        BY <1>2, <1>3, <1>a DEF Editors
  <2>c. r3 \in Editors
        BY <1>2, <1>3, <1>4 DEF Editors
  <2>d. e.editing /\ ~Parted(e) => r4 \in Editors
        BY <1>2, <1>3, <1>a DEF Editors
  <2>e. r5 \in Editors
        BY <1>2, <1>3, <1>4 DEF Editors
  <2>f. r6 \in Editors
        BY <1>2, <1>3, <1>4 DEF Editors
  <2>g. r7 \in Editors
        BY <1>2, <1>3, <1>4 DEF Editors
  <2>h. r8 \in Editors
        BY <1>2, <1>3, <1>4 DEF Editors
  <2>3. \A s \in {r1, r2, r3, r4} :
          /\ s.buffer = e.buffer /\ s.lenLines = e.lenLines /\ s.totalLines = e.totalLines
          /\ s.y = e.y /\ s.curLine = e.curLine /\ s.editing = e.editing
          /\ s.bufEdit = e.bufEdit /\ s.inEdit = e.inEdit /\ s.x = e.x
          /\ s.restCharsInLine = e.restCharsInLine
        BY <1>2 DEF Editors
  <2>4. \A s \in {r5, r6, r7, r8} :
          /\ s.buffer = e.buffer /\ s.lenLines = e.lenLines /\ s.totalLines = e.totalLines
          /\ s.y = e.y /\ s.curLine = e.curLine /\ s.editing = e.editing
          /\ s.bufEdit = e.bufEdit /\ s.inEdit = e.inEdit /\ s.x = e.x
          /\ s.restCharsInLine = e.restCharsInLine
        BY <1>2 DEF Editors
  <2> HIDE DEF r1, r2, r3, r4, r5, r6, r7, r8
  <2> QED BY <2>a, <2>b, <2>c, <2>d, <2>e, <2>f, <2>g, <2>h, <2>3, <2>4 DEF Points
<1> HIDE DEF r1, r2, r3, r4, r5, r6, r7, r8
<1>6. ASSUME NEW r \in {r1, r3, r5, r6, r7, r8} \cup (IF e.editing /\ ~Parted(e) THEN {r2, r4} ELSE {}),
             Keeps(r)
      PROVE  Fine(e')
  <2>1. Good(r)
        BY <1>2, <1>5, SamePlace
  <2> QED BY <1>6, <2>1, KeepsFine
<1> QED BY <1>1, <1>6


LEMMA PlacedGood ==
  ASSUME NEW f, Resting(f), NEW r, Points(r, f), r.bufEdit = f.bufEdit
  PROVE  Good(r)
<1>1. NoEnds(r.bufEdit) /\ ~r.editing
      BY DEF Resting, Points
<1>2. InLines(r)
      BY SameLines DEF Resting, Points
<1> QED BY <1>1, <1>2 DEF Good, Reaches

LEMMA BlocksGood ==
  ASSUME Fine(e), MarkLine \/ Indent \/ UnIndent \/ GotoMark
  PROVE  Fine(e')
<1> DEFINE f == flushLine(e)
           end == f.curLine + f.lenLines[f.y + 1]
           r1 == [f EXCEPT !.x = 0, !.selStart = f.curLine, !.selEnd = end]
           r2 == IndentBlock(f)
           r3 == UnIndentBlock(f)
           r4 == GotoOffSet(f, f.mark)
<1>1. \/ Keeps(r1) \/ Keeps(r3) \/ Keeps(r4)
      \/ Keeps(r2) /\ hasSelection(f) /\ SelectionInText(f)
  <2>1. MarkLine => Keeps(r1)
        BY DEF MarkLine, Becomes, Sets, Keeps
  <2>2. Indent => Keeps(r2) /\ hasSelection(f) /\ SelectionInText(f)
        BY DEF Indent, Shifts, Becomes, Sets, Keeps
  <2>3. UnIndent => Keeps(r3)
        BY DEF UnIndent, Shifts, Becomes, Sets, Keeps
  <2>4. GotoMark => Keeps(r4)
        BY DEF GotoMark, Becomes, Keeps
  <2> HIDE DEF f, r1, r2, r3, r4
  <2> QED BY <2>1, <2>2, <2>3, <2>4
<1>2. Resting(f) /\ InLines(f)
      BY FlushLines DEF Resting, Fine
<1>a. Len(f.buffer) \in Nat /\ Len(f.buffer) <= 2 * MaxLen + 1
      BY FlushFits
<1> HIDE DEF f
<1>b. \A k \in Nat : k <= 2 * Len(f.buffer) + 1 => k \in Offsets
  <2> DEFINE n == Len(f.buffer)
  <2> HIDE DEF n
  <2>1. n \in Nat /\ n <= 2 * MaxLen + 1
        BY <1>a DEF n
  <2>2. \A k \in Nat : k <= 2 * n + 1 => k <= 4 * MaxLen + 4 * MaxColumn + 7
        BY <2>1, OffsetsAre
  <2> QED BY <2>2, OffsetsAre DEF n
<1>3. Good(r1)
  <2> DEFINE n == Len(f.buffer)
             k == f.curLine
             l == f.lenLines[f.y + 1]
  <2>1. end \in Offsets /\ k \in Offsets
    <3>1. k \in Nat /\ l \in Nat /\ k + l <= n /\ n \in Nat /\ end = k + l
          BY <1>2, <1>a, CursorLine
    <3> HIDE DEF k, l, n, end
    <3>2. end \in Nat /\ end <= 2 * n + 1 /\ k \in Nat /\ k <= 2 * n + 1
          BY <3>1
    <3> QED BY <1>b, <3>2 DEF n
  <2>2. f \in Editors
        BY <1>2 DEF InLines
  <2> HIDE DEF end
  <2>3. f.curLine \in Offsets
        BY <2>1
  <2>4. r1 \in Editors
        BY <2>1, <2>2, <2>3 DEF Editors
  <2>5. /\ r1.buffer = f.buffer /\ r1.lenLines = f.lenLines /\ r1.totalLines = f.totalLines
        /\ r1.y = f.y /\ r1.curLine = f.curLine /\ r1.editing = f.editing /\ r1.bufEdit = f.bufEdit
        BY <2>2 DEF Editors
  <2> HIDE DEF r1
  <2>6. Points(r1, f)
        BY <2>4, <2>5 DEF Points
  <2> QED BY <1>2, <2>5, <2>6, PlacedGood
<1>4. ASSUME hasSelection(f), SelectionInText(f) PROVE Good(r2)
  <2> DEFINE n == Len(f.buffer)
             s == f.selEnd
  <2>a. SelTo(f) = s /\ SelFrom(f) = f.selStart /\ Text(f) = f.buffer
        BY <1>2 DEF Resting, SelTo, SelFrom, Text
  <2>b. s <= n
        BY <1>4, <2>a DEF hasSelection, SelectionInText
  <2>c. s \in Nat
        BY <1>2, Unsigneds DEF InLines, Editors
  <2>d. s + n + 1 \in Offsets
    <3> HIDE DEF s, n
    <3>1. s + n + 1 \in Nat /\ s + n + 1 <= 2 * n + 1
          BY <1>a, <2>b, <2>c DEF n
    <3> QED BY <1>b, <3>1 DEF n
  <2>1. InLines(r2) /\ SameLine(r2, f)
        BY <1>2, <2>d, IndentBlockLines
  <2> HIDE DEF r2
  <2> QED BY <1>2, <2>1, RestGood
<1>5. Good(r3)
  <2>1. InLines(r3) /\ SameLine(r3, f)
        BY <1>2, UnIndentBlockLines
  <2> HIDE DEF r3
  <2> QED BY <1>2, <2>1, RestGood
<1>6. Good(r4)
  <2> DEFINE o == f.mark
  <2>1. o \in Nat
        BY <1>2, Unsigneds DEF InLines, Editors
  <2>2. r4 = GotoOffSet(f, o)
        OBVIOUS
  <2> HIDE DEF o, r4
  <2>3. InLines(r4) /\ SameLine(r4, f)
        BY <1>2, <2>1, <2>2, GotoOffSetLines
  <2> QED BY <1>2, <2>3, RestGood
<1> HIDE DEF r1, r2, r3, r4
<1> QED BY <1>1, <1>3, <1>4, <1>5, <1>6, KeepsFine

LEMMA CharLeftGood ==
  ASSUME Good(e), CharLeft \/ LineStart_
  PROVE  Fine(e')
<1> DEFINE x == e.x - 1
           i == IF e.editing THEN e.inEdit - 1 ELSE 0
           n1 == IF e.editing THEN e.restCharsInLine + 1 ELSE 0
           n2 == IF e.editing THEN e.restCharsInLine + e.inEdit ELSE 0
           r1 == [e EXCEPT !.x = x, !.inEdit = i, !.restCharsInLine = n1]
           r2 == [e EXCEPT !.x = 0, !.inEdit = 0, !.restCharsInLine = n2]
<1>1. (Keeps(r1) /\ e.x > 0) \/ Keeps(r2)
      BY DEF CharLeft, LineStart_, Becomes, Keeps
<1>2. e \in Editors /\ e.x \in Nat /\ e.inEdit \in Nat /\ Len(e.bufEdit) \in Nat
      /\ NoEnds(e.bufEdit) /\ e.restCharsInLine \in Int
      BY LenProperties DEF Good, InLines, Editors, Strings
<1>a. e.editing => e.inEdit + e.restCharsInLine >= Len(e.bufEdit)
      BY DEF Good, Reaches
<1>b. /\ n1 \in Int /\ n2 \in Int
      /\ e.editing => i + n1 >= Len(e.bufEdit) /\ 0 + n2 >= Len(e.bufEdit)
      BY <1>2, <1>a
<1> HIDE DEF n1, n2
<1>3. CASE Keeps(r1) /\ e.x > 0
  <2>1. e.editing => e.inEdit = e.x /\ e.x <= Len(e.bufEdit)
        BY <1>2, <1>3 DEF Good
  <2>2. x \in Nat /\ i \in Nat /\ (e.editing => i = x /\ x <= Len(e.bufEdit))
        BY <1>2, <1>3, <2>1
  <2> HIDE DEF x, i
  <2>3. r1 \in Editors
        BY <1>2, <1>b, <2>2 DEF Editors
  <2>4. /\ r1.buffer = e.buffer /\ r1.lenLines = e.lenLines /\ r1.totalLines = e.totalLines
        /\ r1.y = e.y /\ r1.curLine = e.curLine /\ r1.editing = e.editing /\ r1.bufEdit = e.bufEdit
        /\ r1.x = x /\ r1.inEdit = i /\ r1.restCharsInLine = n1
        BY <1>2 DEF Editors
  <2> HIDE DEF r1
  <2>5. Points(r1, e)
        BY <2>3, <2>4 DEF Points
  <2>a. Reaches(r1)
        BY <1>b, <2>4 DEF Reaches
  <2>6. Good(r1)
        BY <1>2, <2>2, <2>4, <2>5, <2>a, PointsGood
  <2> QED BY <1>3, <2>6, KeepsFine
<1>4. CASE Keeps(r2)
  <2>3. r2 \in Editors
        BY <1>2, <1>b DEF Editors
  <2>4. /\ r2.buffer = e.buffer /\ r2.lenLines = e.lenLines /\ r2.totalLines = e.totalLines
        /\ r2.y = e.y /\ r2.curLine = e.curLine /\ r2.editing = e.editing /\ r2.bufEdit = e.bufEdit
        /\ r2.x = 0 /\ r2.inEdit = 0 /\ r2.restCharsInLine = n2
        BY <1>2 DEF Editors
  <2> HIDE DEF r2
  <2>5. Points(r2, e)
        BY <2>3, <2>4 DEF Points
  <2>a. Reaches(r2)
        BY <1>b, <2>4 DEF Reaches
  <2>6. Good(r2)
        BY <1>2, <2>4, <2>5, <2>a, PointsGood
  <2> QED BY <1>4, <2>6, KeepsFine
<1> QED BY <1>1, <1>3, <1>4


LEMMA CharRightGood ==
  ASSUME Good(e), CharRight
  PROVE  Fine(e')
<1> DEFINE x == e.x + 1
           i == e.inEdit + 1
           n == e.restCharsInLine - 1
           r1 == [e EXCEPT !.x = x]
           r2 == [e EXCEPT !.x = x, !.inEdit = i, !.restCharsInLine = n]
           a == InsertCharInLine(e, Blank)
           r3 == [a EXCEPT !.restCharsInLine = 0]
<1>1. /\ ~Parted(e)
      /\ \/ ~e.editing /\ Keeps(r1)
         \/ e.editing /\ e.inEdit < Len(e.bufEdit) /\ Keeps(r2)
         \/ e.editing /\ ~(e.inEdit < Len(e.bufEdit)) /\ Keeps(r3)
      BY DEF CharRight, Becomes, Keeps
<1>2. e \in Editors /\ x \in Nat /\ i \in Nat /\ Len(e.bufEdit) \in Nat /\ NoEnds(e.bufEdit)
      /\ e.inEdit \in Nat /\ e.restCharsInLine \in Int /\ n \in Int
  <2>1. e \in Editors /\ NoEnds(e.bufEdit)
        BY DEF Good, InLines
  <2>2. e.bufEdit \in Seq(Chars) /\ e.x \in Nat /\ e.inEdit \in Nat /\ e.restCharsInLine \in Int
        BY <2>1 DEF Editors, Strings
  <2> QED BY <2>1, <2>2, LenProperties
<1>3. CASE ~e.editing /\ Keeps(r1)
  <2> HIDE DEF x
  <2>1. r1 \in Editors
        BY <1>2 DEF Editors
  <2>2. /\ r1.buffer = e.buffer /\ r1.lenLines = e.lenLines /\ r1.totalLines = e.totalLines
        /\ r1.y = e.y /\ r1.curLine = e.curLine /\ r1.editing = e.editing /\ r1.bufEdit = e.bufEdit
        BY <1>2 DEF Editors
  <2> HIDE DEF r1
  <2>3. Points(r1, e)
        BY <2>1, <2>2 DEF Points
  <2>4. Good(r1)
        BY <1>2, <1>3, <2>2, <2>3, PointsGood DEF Reaches
  <2> QED BY <1>3, <2>4, KeepsFine
<1>4. CASE e.editing /\ e.inEdit < Len(e.bufEdit) /\ Keeps(r2)
  <2>1. e.inEdit = e.x
        BY <1>1, <1>4 DEF Parted
  <2>2. i = x /\ x <= Len(e.bufEdit)
        BY <1>2, <1>4, <2>1
  <2>b. i + n >= Len(e.bufEdit)
        BY <1>2, <1>4 DEF Good, Reaches
  <2> HIDE DEF x, i, n
  <2>3. r2 \in Editors
        BY <1>2 DEF Editors
  <2>4. /\ r2.buffer = e.buffer /\ r2.lenLines = e.lenLines /\ r2.totalLines = e.totalLines
        /\ r2.y = e.y /\ r2.curLine = e.curLine /\ r2.editing = e.editing /\ r2.bufEdit = e.bufEdit
        /\ r2.x = x /\ r2.inEdit = i /\ r2.restCharsInLine = n
        BY <1>2 DEF Editors
  <2> HIDE DEF r2
  <2>5. Points(r2, e)
        BY <2>3, <2>4 DEF Points
  <2>a. Reaches(r2)
        BY <2>b, <2>4 DEF Reaches
  <2>6. Good(r2)
        BY <1>2, <2>2, <2>4, <2>5, <2>a, PointsGood
  <2> QED BY <1>4, <2>6, KeepsFine
<1>5. CASE e.editing /\ ~(e.inEdit < Len(e.bufEdit)) /\ Keeps(r3)
  <2>1. Typing(e) /\ e.inEdit = Len(e.bufEdit)
    <3>1. Typing(e)
          BY <1>1, <1>5, TypingInEdition
    <3> QED BY <1>2, <1>5, <3>1, TypingHas
  <2>2. Blank \in Chars /\ Blank # EOL
        BY GivenTexts
  <2>3. Typing(a) /\ a.inEdit >= Len(a.bufEdit)
        BY <2>1, <2>2, InsertCharInLineTyping
  <2> HIDE DEF a
  <2>4. Good(r3)
        BY <2>3, NothingBehind DEF Typing
  <2> HIDE DEF r3
  <2> QED BY <1>5, <2>4, KeepsFine
<1> QED BY <1>1, <1>3, <1>4, <1>5

LEMMA LineEndGood ==
  ASSUME Good(e), LineEnd
  PROVE  Fine(e')
<1> DEFINE s == e.bufEdit
           u == Used(s)
           g == Part(s, 0, u)
           i == IF s = <<>> THEN 1 ELSE u
           w == LineWidth(e)
           r1 == [e EXCEPT !.bufEdit = g, !.x = u, !.restCharsInLine = 0, !.inEdit = i]
           r2 == [e EXCEPT !.x = w]
<1>1. \/ e.editing /\ Keeps(r1)
      \/ ~e.editing /\ Keeps(r2)
  <2>1. Keeps(IF e.editing THEN r1 ELSE r2)
        BY DEF LineEnd, Becomes, Keeps
  <2> HIDE DEF r1, r2
  <2> QED BY <2>1
<1>2. e \in Editors /\ s \in Seq(Chars) /\ Len(s) \in Nat /\ NoEnds(s) /\ InLines(e)
      BY LenProperties DEF Good, InLines, Editors, Strings
<1>3. w \in Nat
  <2>1. LineWidth(e) \in Nat
        BY <1>2, CursorLine
  <2> QED BY <2>1
<1>4. u \in 0 .. Len(s)
  <2> HIDE DEF s
  <2>1. s \in Strings
        BY <1>2 DEF Strings
  <2> QED BY <2>1, UsedOf
<1>5. s = <<>> => u = 0
      BY <1>4
<1> HIDE DEF u, s, w
<1>6. g \in Seq(Chars) /\ Len(g) = u /\ NoEnds(g) /\ u \in Nat /\ i \in Nat
  <2> DEFINE zero == 0
  <2>1. s \in Seq(Chars) /\ zero \in 0 .. Len(s) /\ u \in zero .. Len(s) /\ u - zero = u
        /\ g = Part(s, zero, u) /\ u \in Nat /\ \A k \in Nat : zero + k = k
        BY <1>2, <1>4
  <2> HIDE DEF zero, g
  <2>2. /\ g \in Seq(Chars) /\ Len(g) = u
        /\ \A k \in 1 .. u : g[k] = s[zero + k]
        BY <2>1, PartOf
  <2>3. ASSUME NEW k \in 1 .. Len(g) PROVE g[k] # EOL
    <3>1. k \in 1 .. u /\ k \in 1 .. Len(s) /\ k \in Nat
          BY <1>2, <1>4, <2>2
    <3>2. g[k] = s[k]
          BY <2>1, <2>2, <3>1
    <3> HIDE DEF EOL
    <3> QED BY <1>2, <3>1, <3>2 DEF NoEnds
  <2> QED BY <2>1, <2>2, <2>3 DEF NoEnds
<1>7. CASE e.editing /\ Keeps(r1)
  <2>1. (i = u /\ u <= Len(g)) \/ u = 0
        BY <1>5, <1>6
  <2>b. i + 0 >= Len(g)
    <3> HIDE DEF g
    <3>1. i >= u
          BY <1>5, <1>6
    <3> QED BY <1>6, <3>1
  <2> HIDE DEF g, i
  <2>c. g \in Strings /\ i \in Nat /\ u \in Nat /\ 0 \in Int
        BY <1>6 DEF Strings
  <2>2. r1 \in Editors
        BY <1>2, <2>c DEF Editors
  <2>3. /\ r1.buffer = e.buffer /\ r1.lenLines = e.lenLines /\ r1.totalLines = e.totalLines
        /\ r1.y = e.y /\ r1.curLine = e.curLine /\ r1.editing = e.editing /\ r1.bufEdit = g
        /\ r1.x = u /\ r1.inEdit = i /\ r1.restCharsInLine = 0
        BY <1>2 DEF Editors
  <2> HIDE DEF r1
  <2>4. Points(r1, e)
        BY <2>2, <2>3 DEF Points
  <2>a. Reaches(r1)
        BY <2>b, <2>3 DEF Reaches
  <2>5. Good(r1)
        BY <1>6, <2>1, <2>3, <2>4, <2>a, PointsGood
  <2> QED BY <1>7, <2>5, KeepsFine
<1>8. CASE ~e.editing /\ Keeps(r2)
  <2>1. r2 \in Editors
        BY <1>2, <1>3 DEF Editors
  <2>2. /\ r2.buffer = e.buffer /\ r2.lenLines = e.lenLines /\ r2.totalLines = e.totalLines
        /\ r2.y = e.y /\ r2.curLine = e.curLine /\ r2.editing = e.editing /\ r2.bufEdit = e.bufEdit
        BY <1>2 DEF Editors
  <2> HIDE DEF r2
  <2>3. Points(r2, e)
        BY <2>1, <2>2 DEF Points
  <2>4. Good(r2)
        BY <1>2, <1>8, <2>2, <2>3, PointsGood DEF s, Reaches
  <2> QED BY <1>8, <2>4, KeepsFine
<1> QED BY <1>1, <1>7, <1>8

(* The cursor goes to the line before, or to the next one.                 *)
LEMMA LineUpDownGood ==
  ASSUME Good(e), LineUp \/ LineDown
  PROVE  Fine(e')
<1> DEFINE f == flushLine(e)
           T == Starts(f.lenLines)
           n == f.totalLines
           y == f.y
           up == y - 1
           down == y + 1
           a == f.curLine - f.lenLines[y]
           b == f.curLine + f.lenLines[y + 1]
           r1 == [f EXCEPT !.y = up, !.curLine = a]
           r2 == [f EXCEPT !.y = down, !.curLine = b]
<1>1. \/ e.y > 0 /\ Keeps(r1)
      \/ e.y < e.totalLines /\ Keeps(r2)
  <2>1. CASE LineUp
    <3>1. e.y > 0 /\ Keeps(r1)
          BY <2>1 DEF LineUp, Becomes, Keeps
    <3> QED BY <3>1
  <2>2. CASE LineDown
    <3>1. e.y < e.totalLines /\ Keeps(r2)
          BY <2>2 DEF LineDown, Becomes, Keeps
    <3> QED BY <3>1
  <2> QED BY <2>1, <2>2
<1>2. Resting(f) /\ InLines(f) /\ y = e.y /\ n = e.totalLines
      BY FlushLines DEF Resting
<1> HIDE DEF f
<1>3. /\ f \in Editors /\ n \in Nat /\ y \in 0 .. n /\ f.curLine = T[y] /\ f.lenLines \in Seq(Nat)
      /\ Len(f.lenLines) = n + 1 /\ f.curLine \in Nat /\ T \in [0 .. n + 1 -> Nat]
      /\ \A k \in 1 .. n + 1 : T[k] = T[k - 1] + f.lenLines[k] /\ f.lenLines[k] \in Nat
  <2>1. /\ f \in Editors /\ n \in Nat /\ y \in 0 .. n /\ f.curLine = T[y] /\ f.lenLines \in Seq(Nat)
        /\ Len(f.lenLines) = n + 1 /\ f.curLine \in Nat
        BY <1>2 DEF InLines, Editors
  <2>2. Summed(f.lenLines, T)
        BY <2>1, StartsSum
  <2> HIDE DEF T, n
  <2> QED BY <2>1, <2>2, ElementOfSeq DEF Summed
<1> HIDE DEF T, n, y
<1>4. ASSUME NEW k \in 0 .. n, NEW o \in Nat, o = T[k]
      PROVE  Good([f EXCEPT !.y = k, !.curLine = o])
  <2> DEFINE r == [f EXCEPT !.y = k, !.curLine = o]
  <2>1. k \in Nat
        BY <1>3
  <2>2. r \in Editors
        BY <1>3, <1>4, <2>1 DEF Editors
  <2>3. /\ r.buffer = f.buffer /\ r.lenLines = f.lenLines /\ r.totalLines = f.totalLines
        /\ r.y = k /\ r.curLine = o /\ r.editing = f.editing /\ r.bufEdit = f.bufEdit
        /\ r.inEdit = f.inEdit
        BY <1>3 DEF Editors
  <2> HIDE DEF r
  <2>4. k <= f.totalLines /\ o = Starts(f.lenLines)[k]
        BY <1>3, <1>4 DEF T, n
  <2>5. InLines(r)
        BY <1>2, <2>2, <2>3, <2>4 DEF InLines
  <2>6. SameLine(r, f)
        BY <2>3 DEF SameLine
  <2>7. Good(r)
        BY <1>2, <2>5, <2>6, RestGood
  <2> QED BY <2>7 DEF r
<1>5. CASE e.y > 0 /\ Keeps(r1)
  <2>1. y \in 1 .. n + 1 /\ up \in 0 .. n /\ up \in 0 .. n + 1
        BY <1>2, <1>3, <1>5
  <2>2. T[y] = T[up] + f.lenLines[y] /\ f.lenLines[y] \in Nat /\ T[up] \in Nat
        BY <1>3, <2>1
  <2>3. a = T[up] /\ a \in Nat
    <3> DEFINE t == T[up]
               l == f.lenLines[y]
               c == f.curLine
    <3>1. c = t + l /\ l \in Nat /\ t \in Nat /\ a = c - l
          BY <1>3, <2>2
    <3> HIDE DEF t, l, c, a
    <3>2. a = t /\ a \in Nat
          BY <3>1
    <3> QED BY <3>2 DEF t
  <2> HIDE DEF up, a
  <2>4. Good(r1)
        BY <1>4, <2>1, <2>3
  <2> QED BY <1>5, <2>4, KeepsFine
<1>6. CASE e.y < e.totalLines /\ Keeps(r2)
  <2>1. down \in 1 .. n + 1 /\ down \in 0 .. n /\ down - 1 = y
        BY <1>2, <1>3, <1>6
  <2>2. T[down] = T[y] + f.lenLines[down] /\ f.lenLines[down] \in Nat
    <3> HIDE DEF down
    <3> QED BY <1>3, <2>1
  <2>3. b = T[down] /\ b \in Nat
    <3>1. b = f.curLine + f.lenLines[down]
          OBVIOUS
    <3> DEFINE l == f.lenLines[down]
               c == f.curLine
               t == T[down]
    <3>2. b = c + l /\ l \in Nat /\ c \in Nat /\ t = c + l
          BY <1>3, <2>2, <3>1
    <3> HIDE DEF t, l, c, b
    <3>3. b = t /\ b \in Nat
          BY <3>2
    <3> QED BY <3>3 DEF t
  <2> HIDE DEF down, b
  <2>4. Good(r2)
        BY <1>4, <2>1, <2>3
  <2> QED BY <1>6, <2>4, KeepsFine
<1> QED BY <1>1, <1>5, <1>6


LEMMA DelCharGood ==
  ASSUME Good(e), NEW stale, DelChar(stale)
  PROVE  Fine(e')
<1> DEFINE f == flushLine(e)
           w == LineWidth(f)
           end == f.curLine + w
           last == f.curLine + f.lenLines[f.y + 1]
           d == deleteRange(f, end, last, stale)
           gap == e.x - w
           no == FALSE
           filled == IF gap > 0 THEN insertBuffer(d, Blanks(gap), no) ELSE d
           r1 == EraseRight(e)
           r2 == EraseRight(EditLine(f))
           r3 == EditLine(filled)
<1>1. /\ ~Parted(e)
      /\ \/ e.editing /\ e.restCharsInLine # 0 /\ Keeps(r1)
         \/ e.x < w /\ Keeps(r2)
         \/ e.y < e.totalLines /\ Keeps(r3)
         \/ Keeps(f)
  <2>1. /\ ~Parted(e)
        /\ \/ e.editing /\ e.restCharsInLine # 0 /\ Keeps(r1)
           \/ e.x < w /\ Keeps(r2)
           \/ Keeps(IF e.y < e.totalLines THEN r3 ELSE f)
        BY DEF DelChar, Becomes, Keeps
  <2> HIDE DEF r1, r2, r3, f, w
  <2> QED BY <2>1
<1>2. Resting(f) /\ InLines(f) /\ f.x = e.x /\ f.y = e.y /\ f.totalLines = e.totalLines
      BY FlushLines DEF Resting
<1> HIDE DEF f
<1>3. w \in Nat /\ f.x \in Nat /\ f.curLine \in Nat
      BY <1>2, CursorLine
<1> HIDE DEF w
<1>4. CASE e.editing /\ e.restCharsInLine # 0 /\ Keeps(r1)
  <2>1. Typing(e)
        BY <1>1, <1>4, TypingInEdition
  <2>2. e.x < Len(e.bufEdit)
    <3>1. ~(Surplus(e) /\ e.inEdit = Len(e.bufEdit))
          BY DEF DelChar
    <3> QED BY <1>4, <2>1, <3>1, SomethingBehind
  <2>3. Good(r1)
        BY <2>1, <2>2, EraseRightTyping DEF Typing
  <2> HIDE DEF r1
  <2> QED BY <1>4, <2>3, KeepsFine
<1>5. CASE e.x < w /\ Keeps(r2)
  <2> DEFINE g == EditLine(f)
             l == Len(g.bufEdit)
  <2>1. Typing(g) /\ g.x = f.x /\ l >= w
        BY <1>2, EditLineTyping DEF w
  <2>2. l \in Nat
    <3>1. g.bufEdit \in Seq(Chars)
          BY <2>1 DEF Typing, Good, InLines, Editors, Strings
    <3> HIDE DEF g
    <3> QED BY <3>1, LenProperties
  <2> HIDE DEF g
  <2>3. g.x < Len(g.bufEdit)
    <3> HIDE DEF l
    <3>1. g.x < l
          BY <1>2, <1>3, <1>5, <2>1, <2>2
    <3> QED BY <3>1 DEF l
  <2>4. Good(EraseRight(g))
        BY <2>1, <2>3, EraseRightTyping DEF Typing
  <2> QED BY <1>5, <2>4, KeepsFine DEF g
<1>6. CASE e.y < e.totalLines /\ Keeps(r3)
  <2>1. /\ f.y + 1 \in 0 .. f.totalLines
        /\ last \in 0 .. Starts(f.lenLines)[f.y + 1] + LenWithoutCRLF(f, f.y + 1)
        BY <1>2, <1>6, NextLine
  <2>2. end \in Nat
        BY <1>3
  <2> DEFINE k == f.y + 1
  <2> HIDE DEF end, last, k
  <2>3. Resting(d)
        BY <1>2, <2>1, <2>2, DeleteGood DEF k
  <2> HIDE DEF d
  <2>4. InLines(filled)
    <3>1. CASE gap > 0
      <4> DEFINE p == Blanks(gap)
      <4>1. gap \in Nat /\ gap > 0 /\ gap \in Int
            BY <1>2, <1>3, <3>1
      <4> HIDE DEF gap
      <4>2. p \in Strings /\ Len(p) = gap
            BY <4>1, BlanksAre
      <4> HIDE DEF p, no
      <4>3. InLines(insertBuffer(d, p, no))
        <5>1. Len(p) > 0 /\ ~no
              BY <4>1, <4>2 DEF no
        <5> QED BY <2>3, <4>2, <5>1, insertBufferLines DEF Resting
      <4> QED BY <4>1, <4>3 DEF p
    <3>2. CASE ~(gap > 0)
          BY <2>3, <3>2 DEF Resting
    <3> QED BY <3>1, <3>2
  <2> HIDE DEF filled
  <2>5. Good(r3)
        BY <2>4, EditLineTyping DEF Typing
  <2> HIDE DEF r3
  <2> QED BY <1>6, <2>5, KeepsFine
<1>7. CASE Keeps(f)
  <2>1. Good(f)
        BY <1>2 DEF Resting, Good, Reaches
  <2> QED BY <1>7, <2>1, KeepsFine
<1> QED BY <1>1, <1>4, <1>5, <1>6, <1>7


-----------------------------------------------------------------------------
(* The index of lines, through everything that happens.                    *)
Lined == Fine(e)

LEMMA LinedAtFirst == Init => Lined
<1> SUFFICES ASSUME Init PROVE Lined
    OBVIOUS
<1>1. PICK t \in Files : e = Loaded(t)
      BY DEF Init
<1>2. t \in Strings
      BY GivenTexts
<1>3. Good(e)
      BY <1>1, <1>2, LoadedGood
<1>4. e.buffer = t /\ e.x = 0 /\ ~e.editing
      BY <1>1 DEF Loaded
<1>5. Len(t) <= MaxLen /\ MaxColumn \in Nat
      BY TextAssumption
<1> QED BY <1>3, <1>4, <1>5 DEF Lined, Fine, Room

LEMMA LinedStays == Lined /\ [Next]_vars => Lined'
<1> SUFFICES ASSUME Lined, [Next]_vars PROVE Lined'
    OBVIOUS
<1>1. Fine(e) /\ Good(e)
      BY DEF Lined, Fine
<1>2. SUFFICES Fine(e')
      BY DEF Lined
<1>3. CASE UNCHANGED vars
  <2>1. e' = e
        BY <1>3 DEF vars
  <2> QED BY <1>1, <2>1
<1>4. ASSUME NEW c \in Keys, TypeKey(c) PROVE Fine(e')
      BY <1>1, <1>4, TypeKeyGood
<1>5. CASE toggleInsMode \/ StartSelect \/ EndSelect \/ SetMarker \/ SetSpecialLine
      BY <1>1, <1>5, SettingGood
<1>6. ASSUME NEW stale \in BOOLEAN, BackSpace(stale) PROVE Fine(e')
      BY <1>1, <1>6, BackSpaceGood
<1>7. ASSUME NEW stale \in BOOLEAN, DelChar(stale) PROVE Fine(e')
      BY <1>1, <1>7, DelCharGood
<1>8. ASSUME NEW stale \in BOOLEAN, DelEnd(stale) \/ DelStart(stale) PROVE Fine(e')
      BY <1>1, <1>8, DelEndStartGood
<1>9. ASSUME NEW stale \in BOOLEAN, DelLine(stale) PROVE Fine(e')
      BY <1>1, <1>9, DelLineGood
<1>10. ASSUME NEW stale \in BOOLEAN, CutBlock(stale) PROVE Fine(e')
       BY <1>1, <1>10, CutBlockGood
<1>11. CASE newLine \/ \E p \in Clips : insertText(p) \/ clipPaste(p)
       BY <1>1, <1>11, InsertsGood
<1>12. CASE MarkLine \/ Indent \/ UnIndent \/ GotoMark
       BY <1>1, <1>12, BlocksGood
<1>13. CASE CharLeft \/ LineStart_
       BY <1>1, <1>13, CharLeftGood
<1>14. CASE CharRight
       BY <1>1, <1>14, CharRightGood
<1>15. CASE LineEnd
       BY <1>1, <1>15, LineEndGood
<1>16. CASE LineUp \/ LineDown
       BY <1>1, <1>16, LineUpDownGood
<1> QED BY <1>3, <1>4, <1>5, <1>6, <1>7, <1>8, <1>9, <1>10, <1>11, <1>12, <1>13, <1>14,
           <1>15, <1>16 DEF Next

(* From what Good says of the index to what LinesInStep says of each line. *)
LEMMA LinedInStep == Lined => LinesInStep
<1> SUFFICES ASSUME Lined PROVE LinesInStep
    OBVIOUS
<1> DEFINE n == e.totalLines
           lens == e.lenLines
           T == Starts(lens)
           b == e.buffer
<1>1. InLines(e)
      BY DEF Lined, Fine, Good
<1>2. /\ lens \in Seq(Nat) /\ Len(lens) = n + 1 /\ Cuts(b, T, n) /\ n \in Nat
      /\ e.y \in 0 .. n /\ e.curLine = T[e.y]
      BY <1>1 DEF InLines, Editors
<1>3. \A k \in 0 .. Len(lens) : Total(lens, 0, k) = T[k]
      BY <1>2, StartsSum
<1>4. Total(lens, 0, n + 1) = bufLen(e)
  <2>1. T[n + 1] = Len(b)
        BY <1>2 DEF Cuts
  <2>2. n + 1 \in 0 .. Len(lens)
        BY <1>2
  <2> HIDE DEF T
  <2> QED BY <1>2, <1>3, <2>1, <2>2 DEF bufLen
<1>5. e.curLine = Total(lens, 0, e.y)
  <2>1. e.y \in 0 .. Len(lens)
        BY <1>2
  <2> HIDE DEF T
  <2> QED BY <1>2, <1>3, <2>1
<1>6. ASSUME NEW k \in 0 .. n
      PROVE  LET l == LineAt(e, k)
             IN  Newlines(l) \subseteq {Len(l)} /\ (k < n => Last(l) = EOL /\ l # <<>>)
  <2> DEFINE l == LineAt(e, k)
  <2>1. LineLike(l) /\ (k < n => IsEnded(l))
        BY <1>1, LineAtIs
  <2> HIDE DEF l, EOL
  <2>2. l \in Seq(Chars) /\ Len(l) \in Nat /\ DOMAIN l = 1 .. Len(l)
        BY <2>1, LenProperties DEF LineLike, Strings
  <2>3. Newlines(l) \subseteq {Len(l)}
        BY <2>1, <2>2 DEF LineLike, Newlines
  <2>4. ASSUME k < n PROVE Last(l) = EOL /\ l # <<>>
    <3>1. Len(l) > 0 /\ l[Len(l)] = EOL
          BY <2>1, <2>4 DEF IsEnded
    <3>2. Len(<<>>) = 0
          BY NoText
    <3> QED BY <2>2, <3>1, <3>2 DEF Last
  <2> QED BY <2>3, <2>4 DEF l
<1> HIDE DEF n, T, lens
<1>7. Len(e.lenLines) = e.totalLines + 1 /\ Total(e.lenLines, 0, e.totalLines + 1) = bufLen(e)
      BY <1>2, <1>4 DEF lens, n
<1>8. e.curLine = Total(e.lenLines, 0, e.y)
      BY <1>5 DEF lens
<1> QED BY <1>6, <1>7, <1>8 DEF LinesInStep, n

(* Whatever mix of commands changed the buffer, the lengths of the lines   *)
(* and the cursor, through the buffer or through the line in edition, the  *)
(* index of lines describes the buffer, and the cursor's line is where the *)
(* index says.                                                             *)
THEOREM TextLinesInStep == Spec => []LinesInStep
<1>1. Init => Lined
      BY LinedAtFirst
<1>2. Lined /\ [Next]_vars => Lined'
      BY LinedStays
<1>3. Lined => LinesInStep
      BY LinedInStep
<1> QED BY <1>1, <1>2, <1>3, PTL DEF Spec

-----------------------------------------------------------------------------
(* The types.  Every command ends in Becomes or in Sets.                   *)
Typed ==
  /\ Lined /\ use \in Uses /\ known \in BOOLEAN
  /\ tracked \in {"none", "gone", "at", "off"}
Steps == (\E d, bad : Becomes(d, bad)) \/ (\E d : Sets(d))

LEMMA NextIsAStep == Next => Steps
<1>1. \A d, bad : Shifts(d, bad) => Steps
      BY DEF Shifts, Steps
<1>2. ASSUME NEW c \in Keys, TypeKey(c) PROVE Steps
      BY <1>2 DEF TypeKey, Steps
<1>3. toggleInsMode => Steps
      BY DEF toggleInsMode, Steps
<1>4. ASSUME NEW stale \in BOOLEAN, BackSpace(stale) PROVE Steps
      BY <1>4 DEF BackSpace, Steps
<1>5. ASSUME NEW stale \in BOOLEAN, DelChar(stale) PROVE Steps
      BY <1>5 DEF DelChar, Steps
<1>6. ASSUME NEW stale \in BOOLEAN, DelEnd(stale) PROVE Steps
      BY <1>6 DEF DelEnd, Steps
<1>7. ASSUME NEW stale \in BOOLEAN, DelStart(stale) PROVE Steps
      BY <1>7 DEF DelStart, Steps
<1>8. ASSUME NEW stale \in BOOLEAN, DelLine(stale) PROVE Steps
      BY <1>8 DEF DelLine, Steps
<1>9. ASSUME NEW stale \in BOOLEAN, CutBlock(stale) PROVE Steps
      BY <1>9 DEF CutBlock, Steps
<1>10. newLine => Steps
       BY DEF newLine, Steps
<1>11. ASSUME NEW p \in Clips, insertText(p) PROVE Steps
       BY <1>11 DEF insertText, Steps
<1>12. ASSUME NEW p \in Clips, clipPaste(p) PROVE Steps
       BY <1>12 DEF clipPaste, Steps
<1>13. StartSelect => Steps
       BY DEF StartSelect, Steps
<1>14. EndSelect => Steps
       BY DEF EndSelect, Steps
<1>15. MarkLine => Steps
       BY DEF MarkLine, Steps
<1>16. Indent => Steps
       BY <1>1 DEF Indent
<1>17. UnIndent => Steps
       BY <1>1 DEF UnIndent
<1>18. SetMarker => Steps
       BY DEF SetMarker, Steps
<1>19. GotoMark => Steps
       BY DEF GotoMark, Steps
<1>20. SetSpecialLine => Steps
       BY DEF SetSpecialLine, Steps
<1>21. CharLeft => Steps
       BY DEF CharLeft, Steps
<1>22. CharRight => Steps
       BY DEF CharRight, Steps
<1>23. LineStart_ => Steps
       BY DEF LineStart_, Steps
<1>24. LineEnd => Steps
       BY DEF LineEnd, Steps
<1>25. LineUp => Steps
       BY DEF LineUp, Steps
<1>26. LineDown => Steps
       BY DEF LineDown, Steps
<1> QED BY <1>2, <1>3, <1>4, <1>5, <1>6, <1>7, <1>8, <1>9, <1>10, <1>11, <1>12, <1>13, <1>14,
           <1>15, <1>16, <1>17, <1>18, <1>19, <1>20, <1>21, <1>22, <1>23, <1>24, <1>25, <1>26
        DEF Next

LEMMA TypedAtFirst == Init => Typed
<1> SUFFICES ASSUME Init PROVE Typed
    OBVIOUS
<1>1. Lined
      BY LinedAtFirst
<1> QED BY <1>1 DEF Init, Typed

LEMMA TypedStays == Typed /\ [Next]_vars => Typed'
<1> SUFFICES ASSUME Typed, [Next]_vars PROVE Typed'
    OBVIOUS
<1>1. Lined'
      BY LinedStays DEF Typed
<1>2. \A d : Where(d) \in {"none", "gone", "at", "off"}
  <2> TAKE d
  <2>1. CASE ~HasTracked(d)
        BY <2>1 DEF Where
  <2>2. CASE HasTracked(d)
        BY <2>2 DEF Where
  <2> QED BY <2>1, <2>2
<1>3. CASE UNCHANGED vars
      BY <1>1, <1>3 DEF vars, Typed
<1>4. ASSUME NEW d, NEW bad, Becomes(d, bad) PROVE Typed'
  <2>1. use' = use /\ known' \in BOOLEAN
        BY <1>4 DEF Becomes
  <2>2. tracked' \in {"gone", "none", tracked}
        BY <1>4 DEF Becomes
  <2> QED BY <1>1, <2>1, <2>2 DEF Typed
<1>5. ASSUME NEW d, Sets(d) PROVE Typed'
  <2>1. use' = use /\ known' \in BOOLEAN /\ tracked' = Where(d)
    <3>1. use' = use /\ tracked' = Where(d)
          BY <1>5 DEF Sets
    <3>2. known' = Torn(d)
          BY <1>5 DEF Sets
    <3> QED BY <3>1, <3>2 DEF Torn
  <2> QED BY <1>1, <1>2, <2>1 DEF Typed
<1> QED BY <1>3, <1>4, <1>5, NextIsAStep DEF Steps

LEMMA TypedOK == Typed => TypeOK
<1> SUFFICES ASSUME Typed PROVE TypeOK
    OBVIOUS
<1>1. InLines(e)
      BY DEF Typed, Lined, Fine, Good
<1>2. e \in Editors /\ e.y <= e.totalLines
      BY <1>1 DEF InLines
<1> QED BY <1>2 DEF TypeOK, Typed, Editors

(* Offsets stay unsigned numbers of the width the code gives them: every   *)
(* sum and difference the commands put into the selection and the marker   *)
(* without reducing it is proved not to leave 0 .. Unsigned - 1 as long as *)
(* the text has no more than MaxLen characters.                            *)
THEOREM TextTypeOK == Spec => []TypeOK
<1>1. Init => Typed
      BY TypedAtFirst
<1>2. Typed /\ [Next]_vars => Typed'
      BY TypedStays
<1>3. Typed => TypeOK
      BY TypedOK
<1> QED BY <1>1, <1>2, <1>3, PTL DEF Spec

(* The count of what is behind the cursor of the line in edition never     *)
(* falls short of the end of the line, whatever mix of motions, typing and *)
(* deletions led there: what is moved takes the end of the string along.   *)
THEOREM TextRestCovers == Spec => []RestCoversLine
<1>1. Init => Lined
      BY LinedAtFirst
<1>2. Lined /\ [Next]_vars => Lined'
      BY LinedStays
<1>3. Lined => RestCoversLine
      BY DEF Lined, Fine, Good, Reaches, RestCoversLine
<1> QED BY <1>1, <1>2, <1>3, PTL DEF Spec
=============================================================================
